---------------------------- MODULE WriteChannel ----------------------------
(***************************************************************************)
(* What stomp_write promises to its callers, frame by frame: the contract  *)
(* that StompWrite (bytes) implements and that the writes of               *)
(* StompMessenger follow.                                                  *)
(*                                                                         *)
(* A call that succeeds has put the frame on the wire.  One that fails has *)
(* left nothing of it there, or a part that spoils the rest of the         *)
(* connection, or all that the peer needs of it.                           *)
(***************************************************************************)
EXTENDS Sequences

CONSTANT Frame    \* the frames the callers write, as the peer reads them

VARIABLES queue,  \* the frames the peer can make out, oldest first
          torn,   \* a frame was cut off half way: nothing after it can be made out
          ret     \* what the last call returned

chan == <<queue, torn, ret>>

Init == /\ queue = <<>>
        /\ torn = FALSE
        /\ ret = "none"

Whole(f) == /\ queue' = IF torn THEN queue ELSE Append(queue, f)
            /\ torn' = torn
            /\ ret' = "success"

Nothing == /\ ret' = "failure"
           /\ UNCHANGED <<queue, torn>>

Part == /\ torn' = TRUE
        /\ ret' = "failure"
        /\ UNCHANGED queue

\* All but the line feed behind the NUL.
AllButLineFeed(f) == /\ ~torn
                     /\ queue' = Append(queue, f)
                     /\ torn' = torn
                     /\ ret' = "failure"

Write(f) == \/ Whole(f)
            \/ Nothing
            \/ Part
            \/ AllButLineFeed(f)

Next == \E f \in Frame : Write(f)

Spec == Init /\ [][Next]_chan
=============================================================================
