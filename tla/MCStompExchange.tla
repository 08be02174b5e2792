--------------------------- MODULE MCStompExchange ---------------------------
(***************************************************************************)
(* A small instance of StompExchange: texts of two lengths, and a frame    *)
(* from elsewhere that shares the names of a property and of the           *)
(* destination; the echo of a SEND shares all of its headers.              *)
(***************************************************************************)
EXTENDS StompExchange

MCNames == {"receipt"}

\* The broker passes the receipt on to the receiver.
MCDropped == {{"transaction"}}

MCTexts == {<<"a">>}

\* Data that is no text.
Data == {<<"a", NUL, "b">>}

Foreign == [headers |-> ("receipt" :> "7") @@ ("destination" :> "other"),
            body |-> <<"a", "b", "c", NUL>>]
MCFromOthers == {Foreign}

MessageSymmetry == Permutations(Messages)
=============================================================================
