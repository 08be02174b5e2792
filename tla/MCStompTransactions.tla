------------------------- MODULE MCStompTransactions -------------------------
(***************************************************************************)
(* Three messages and two transactions: 0, and 3, which an int of two      *)
(* bits narrows to -1; and two that such an int cannot tell apart.         *)
(***************************************************************************)
EXTENDS StompTransactions, TLC

CONSTANTS a, b, c

ThreeMessages == {a, b, c}
MessageSymmetry == Permutations(ThreeMessages)
SmallIds == {0, 3}
WideIds == {1, 1 + Wrap}
=============================================================================
