---------------------------- MODULE FrameChannel ----------------------------
(***************************************************************************)
(* What stomp_read promises to its callers, frame by frame: the contract   *)
(* that StompRead (bytes) implements and StompMessenger (calls) builds on. *)
(*                                                                         *)
(* While the reader is in sync (it stands on the first byte of a frame),   *)
(* a read either returns the oldest unread frame, or fails.  A read that   *)
(* fails in the middle of a frame has destroyed that frame and leaves the  *)
(* reader out of sync; so may a read that succeeds, because the line feed  *)
(* after a body's NUL may be left behind.  A frame whose body looks like   *)
(* its own end may be cut short.  Out of sync nothing is promised: frames  *)
(* may be skipped, and what is returned is a Misread.                      *)
(***************************************************************************)
EXTENDS Naturals, Sequences

CONSTANTS Frame,    \* the frames the peer sends, as stomp_read returns them
          Misread,  \* what a read out of sync may return as a frame
          Cut       \* for each frame, the frames a read that is cut short may
                    \*   return for it

VARIABLES inflight, \* the frames sent and not yet read, oldest first
          insync,   \* the next unread byte is the first of a frame
          closed,   \* the peer has closed, or the connection is lost
          result    \* what the last stomp_read returned

chan == <<inflight, insync, closed, result>>

\* The APR statuses the callers of stomp_read tell apart.
ReadError == {"APR_TIMEUP", "APR_EOF", "APR_EGENERAL"}
NoFrame == [rc |-> "none"]
Got(f) == [rc |-> "APR_SUCCESS", frame |-> f]
Failed(rc) == [rc |-> rc]

Result == [rc : {"none"} \cup ReadError]
          \cup [rc : {"APR_SUCCESS"}, frame : Frame \cup Misread]

Init == /\ inflight = <<>>
        /\ insync = TRUE
        /\ closed = FALSE
        /\ result = NoFrame

Send(f) == /\ ~closed
           /\ inflight' = Append(inflight, f)
           /\ UNCHANGED <<insync, closed, result>>

Close == /\ ~closed
         /\ closed' = TRUE
         /\ UNCHANGED <<inflight, insync, result>>

\* After a close the youngest unread frame may be lost with the connection.
Lose == /\ closed
        /\ inflight # <<>>
        /\ inflight' = SubSeq(inflight, 1, Len(inflight) - 1)
        /\ UNCHANGED <<insync, closed, result>>

ReadFrame == /\ insync
             /\ inflight # <<>>
             /\ result' = Got(Head(inflight))
             /\ inflight' = Tail(inflight)
             /\ insync' \in BOOLEAN
             /\ UNCHANGED closed

\* The first part of a frame is taken for the whole of it.
ReadCut == /\ insync
           /\ inflight # <<>>
           /\ \E f \in Cut[Head(inflight)] : result' = Got(f)
           /\ inflight' = Tail(inflight)
           /\ insync' = FALSE
           /\ UNCHANGED closed

\* Nothing has been consumed: no byte came in time, or the stream is over.
ReadNothing(rc) == /\ insync
                   /\ \/ rc = "APR_TIMEUP"
                      \/ rc = "APR_EOF" /\ closed /\ inflight = <<>>
                   /\ result' = Failed(rc)
                   /\ UNCHANGED <<inflight, insync, closed>>

\* Part of a frame has been consumed and is lost to the caller.
ReadPart(rc) == /\ insync
                /\ inflight # <<>>
                /\ result' = Failed(rc)
                /\ inflight' = Tail(inflight)
                /\ insync' = FALSE
                /\ UNCHANGED closed

ReadAstray == /\ ~insync
              /\ \/ \E f \in Misread : result' = Got(f)
                 \/ \E rc \in ReadError : result' = Failed(rc)
              /\ \E n \in 0 .. Len(inflight) :
                    inflight' = SubSeq(inflight, n + 1, Len(inflight))
              /\ insync' \in BOOLEAN
              /\ UNCHANGED closed

\* One call of stomp_read, from its first byte to its return.
Read == \/ ReadFrame
        \/ ReadCut
        \/ \E rc \in ReadError : ReadNothing(rc) \/ ReadPart(rc)
        \/ ReadAstray

\* A call of stomp_read made because stomp_io_can_read said so: a byte, or the
\* end of the stream, is there, so the first recv does not time out.
Readable == inflight # <<>> \/ closed \/ ~insync
ReadReady == /\ Readable
             /\ \/ ReadFrame
                \/ ReadCut
                \/ ReadNothing("APR_EOF")
                \/ \E rc \in ReadError : ReadPart(rc)
                \/ ReadAstray

Next == \/ \E f \in Frame : Send(f)
        \/ Close
        \/ Lose
        \/ Read

Spec == Init /\ [][Next]_chan
=============================================================================
