----------------------------- MODULE MCStompRead -----------------------------
(***************************************************************************)
(* A small instance of StompRead.  The frames are chosen for the ways the  *)
(* bytes of a frame can differ to the reader: with and without a           *)
(* content-length, a body that holds the terminator, an empty body, a      *)
(* header given twice and a header value with a colon in it.               *)
(***************************************************************************)
EXTENDS StompRead, TLC

MCNumber == ("0" :> 0) @@ ("1" :> 1) @@ ("3" :> 3)

Plain == [command |-> "MESSAGE", headers |-> <<>>, body |-> <<"x">>]

Sized == [command |-> "MESSAGE", headers |-> <<<<"content-length", "3">>>>,
          body |-> <<"x", NUL, LF>>]

Empty == [command |-> "RECEIPT", headers |-> <<<<"content-length", "0">>>>,
          body |-> <<>>]

Repeated == [command |-> "ERROR",
             headers |-> <<<<"id", COLON>>, <<"id", "1">>>>, body |-> <<>>]

MCFrames == {Plain, Sized, Empty, Repeated}
=============================================================================
