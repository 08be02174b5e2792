---------------------------- MODULE MCStompEngine ----------------------------
(***************************************************************************)
(* Small instances of StompEngine: two messengers in one process, enough   *)
(* sockets for a reconnect of one beside a connection of the other, a      *)
(* timeout that waits and one that means to block.                         *)
(***************************************************************************)
EXTENDS StompEngine, TLC

CONSTANTS m1, m2

TwoMessengers == {m1, m2}
MessengerSymmetry == Permutations(TwoMessengers)
BothTimeouts == {-1, 1000}

\* The statuses and the last call are written and never read.
ButStatus == <<initialized, pools, stage, connection, sockets, established>>
=============================================================================
