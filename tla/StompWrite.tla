----------------------------- MODULE StompWrite -----------------------------
(***************************************************************************)
(* stomp_write (stomp_io.c) writing frames to a socket, one send at a      *)
(* time.  A frame is written in pieces, each by a call of                  *)
(* stomp_write_buffer, and each piece by as many sends as it takes: a send *)
(* may take fewer bytes than it is given, or fail.                         *)
(*                                                                         *)
(* A byte of the model is a delimiter, a number or a whole name, as in     *)
(* StompRead.                                                              *)
(***************************************************************************)
EXTENDS Integers, SequencesExt, TLC

CONSTANTS Frames,    \* the frames the callers write, as records [command : byte,
                     \*   headers : byte -> Seq(byte), body : Seq(byte), size : Int]
          MaxWrites, \* bound on the number of calls
          NULL       \* the pointer: a frame without headers, or without a body

ASSUME MaxWritesAssumption == MaxWrites \in Nat

VARIABLES todo,      \* the pieces the call has still to send, the first of them
                     \*   perhaps in part
          writing,   \* a call is under way
          ret,       \* what the last call returned
          calls,     \* the number of calls made
          stalled,   \* the socket takes no bytes for now, or never again
          peer,      \* what the broker has made of the bytes the socket accepted
          torn,      \* history: a call has returned in the middle of a frame
          queue      \* history: the frames the broker had read when the last call
                     \*   before that returned

vars == <<todo, writing, ret, calls, stalled, peer, torn, queue>>

LF == "\n"
NUL == "\\0"
COLON == ":"
ContentLength == "content-length"

\* The body of a frame is memory that ends in a NUL.
strlen(body) == SelectInSeq(body, LAMBDA b : b = NUL) - 1

apr_itoa(n) == <<ToString(n)>>

\* Bug to try: the terminating NUL of a body without a size is not counted.
BodyLengthUncounted(f) ==
    IF f.body # NULL /\ f.size <= 0 THEN strlen(f.body) ELSE f.size

\* int body_length: a size of -1 is a frame without a size, and stays -1 when
\* there is no body either.
BodyLength(f) == IF f.body # NULL /\ f.size <= 0 THEN strlen(f.body) + 1 ELSE f.size

\* What is written of the body.
Body(f) == IF f.body = NULL THEN <<>>
           ELSE SubSeq(f.body, 1, IF f.size <= 0 THEN strlen(f.body) + 1 ELSE f.size)

Header(key, value) == << <<key>>, <<COLON>>, value, <<LF>> >>

\* The pieces of a frame, its headers in the order the hash gives.  The guard on
\* body_length is always true, since that is unsigned.
Pieces(f, keys) ==
    << <<f.command>>, <<LF>> >>
    \o FlattenSeq([i \in DOMAIN keys |-> Header(keys[i], f.headers[keys[i]])])
    \o (IF f.headers = NULL THEN <<>>
        ELSE << <<ContentLength, COLON>>, apr_itoa(BodyLength(f)), <<LF>> >>)
    \o << <<LF>>, Body(f), <<NUL, LF>> >>

\* The orders in which apr_hash_first and apr_hash_next may visit the headers.
Orders(f) == IF f.headers = NULL THEN {<<>>} ELSE SetToSeqs(DOMAIN f.headers)

-----------------------------------------------------------------------------
(* The peer: what a broker makes of the bytes *)

\* A content-length that is no length (-1) is none.
Lengths == -1 .. 9
Length(value) == CHOOSE n \in Lengths : ToString(n) = value[1]

Fresh == [part |-> "command", line |-> <<>>, command |-> <<>>, headers |-> <<>>,
          length |-> -1, body |-> <<>>]
\* A broker that has read nothing yet.
Unread == [frames |-> <<>>, now |-> Fresh]

\* Of a header that is given twice the first counts.
WithHeader(now, line) ==
    LET key == line[1]
        value == SubSeq(line, 3, Len(line))
        given == key \in {now.headers[i][1] : i \in DOMAIN now.headers}
    IN [now EXCEPT !.line = <<>>,
                   !.headers = IF given THEN @ ELSE Append(@, <<key, value>>),
                   !.length = IF key = ContentLength /\ ~given THEN Length(value) ELSE @]

\* The frame as its sender meant it: the headers without the content-length.
Made(now) == [command |-> now.command[1],
              headers |-> Range(SelectSeq(now.headers, LAMBDA h : h[1] # ContentLength)),
              body |-> now.body]

\* The broker reads one byte more.  Between frames it skips line feeds; a body of
\* known length ends with a NUL after so many bytes, another one with the first NUL.
Feed(broker, byte) ==
    LET now == broker.now
        Goes(to) == [broker EXCEPT !.now = to]
    IN CASE now.part = "command" /\ byte = LF /\ now.line = <<>> -> broker
         [] now.part = "command" /\ byte = LF /\ now.line # <<>> ->
                Goes([now EXCEPT !.part = "headers", !.command = now.line, !.line = <<>>])
         [] now.part = "headers" /\ byte = LF /\ now.line = <<>> ->
                Goes([now EXCEPT !.part = "body"])
         [] now.part = "headers" /\ byte = LF /\ now.line # <<>> ->
                Goes(WithHeader(now, now.line))
         [] now.part \in {"command", "headers"} /\ byte # LF ->
                Goes([now EXCEPT !.line = Append(@, byte)])
         [] now.part = "body" /\ byte = NUL /\ now.length \in {-1, Len(now.body)} ->
                [frames |-> Append(broker.frames, Made(now)), now |-> Fresh]
         [] now.part = "body" /\ byte # NUL /\ now.length = Len(now.body) ->
                Goes([now EXCEPT !.part = "broken"])
         [] now.part = "body" /\ now.length # Len(now.body) /\ (byte # NUL \/ now.length # -1) ->
                Goes([now EXCEPT !.body = Append(@, byte)])
         [] now.part = "broken" -> broker
-----------------------------------------------------------------------------------------
(* stomp_write *)

Init == /\ todo = <<>>
        /\ writing = FALSE
        /\ ret = "none"
        /\ calls = 0
        /\ stalled = FALSE /\ peer = Unread
        /\ torn = FALSE /\ queue = <<>>

StartWrite(f) ==
    /\ ~writing
    /\ calls < MaxWrites
    /\ \E keys \in Orders(f) : todo' = Pieces(f, keys)
    /\ writing' = TRUE
    /\ calls' = calls + 1
    /\ UNCHANGED <<ret, stalled, peer, torn, queue>>

\* An empty piece is no send at all.
SkipPiece == /\ todo # <<>> /\ Head(todo) = <<>>
             /\ todo' = Tail(todo)
             /\ UNCHANGED <<writing, ret, calls, stalled, peer, torn, queue>>

Unsent(piece, n) == SubSeq(piece, n + 1, Len(piece))

\* apr_socket_send takes n bytes; the loop of stomp_write_buffer goes on with the
\* rest, or stomp_write with the next piece.
Send(n) ==
    /\ ~stalled
    /\ peer' = IF torn THEN peer
                 ELSE FoldLeft(Feed, peer, SubSeq(Head(todo), 1, n))
    /\ todo' = IF n = Len(Head(todo)) THEN Tail(todo)
               ELSE <<Unsent(Head(todo), n)>> \o Tail(todo)
    /\ UNCHANGED <<writing, ret, calls, stalled, torn, queue>>

Return(r) == /\ ret' = r
             /\ writing' = FALSE
             /\ todo' = <<>>
             /\ torn' = (torn \/ peer.now # Fresh)
             /\ queue' = IF torn' THEN queue ELSE peer.frames
             /\ UNCHANGED <<calls, stalled, peer>>

\* Bug to try: an error is tried again.
SendRetried == UNCHANGED vars

\* It fails: the timeout has passed, or the connection is gone.
SendFails == Return("failure")

WritePiece == /\ todo # <<>> /\ Head(todo) # <<>>
              /\ \/ \E n \in 1 .. Len(Head(todo)) : Send(n)
                 \/ SendFails

FinishWrite == /\ writing /\ todo = <<>>
               /\ Return("success")

WriteStep == SkipPiece \/ WritePiece \/ FinishWrite

\* The broker stops taking bytes, or goes on.
Stall == /\ stalled' = ~stalled
         /\ UNCHANGED <<todo, writing, ret, calls, peer, torn, queue>>

Next == \/ \E f \in Frames : StartWrite(f)
        \/ WriteStep
        \/ Stall

\* A call that was made goes on: each send returns, at the latest when the socket's
\* timeout has passed (stomp_engine_set_timeout).  Nothing is asked of the broker.
Spec == Init /\ [][Next]_vars /\ WF_vars(WriteStep)
-----------------------------------------------------------------------------
(* What the calls promise *)

\* A frame as the broker is to read it.
Meant(f) ==
    [command |-> f.command,
     headers |-> IF f.headers = NULL THEN {}
                 ELSE {<<k, f.headers[k]>> : k \in DOMAIN f.headers},
     body |-> Body(f)]

Chan == INSTANCE WriteChannel WITH Frame <- {Meant(f) : f \in Frames}

\* stomp_write implements the write channel: when a call returns success the broker
\* reads this frame, with its headers and the bytes of its body, after those before
\* it; when it fails, the broker is left with nothing of it, all of it, or a
\* connection it can no longer follow (stomp_io.c, stomp_write).
ImplementsWriteChannel == Chan!Spec

\* A call of stomp_write returns, also when the broker takes no more bytes: every send
\* moves on in the frame or ends the call.
WriteReturns == writing ~> ~writing
=============================================================================
