------------------------------ MODULE StompRead ------------------------------
(***************************************************************************)
(* stomp_read (stomp_io.c) reading frames from a socket, one recv at a     *)
(* time, while the peer keeps writing, stalls or goes away.                *)
(*                                                                         *)
(* A byte of the model is a name, a digit or a delimiter: a command, a     *)
(* header name and a value are one byte each.  Bytes that have been sent   *)
(* need not have arrived: any recv may time out, and a recv of n bytes may *)
(* return fewer.  What has arrived is therefore no state of its own.       *)
(***************************************************************************)
EXTENDS Integers, SequencesExt

CONSTANTS Frames,    \* the frames the peer may send, as records
                     \*   [command : byte, headers : Seq(<<name, value>>), body : Seq(byte)]
          Number,    \* what the bytes that are numerals stand for
          MaxFrames  \* bound on the number of frames sent

ASSUME MaxFramesAssumption == MaxFrames \in Nat
ASSUME NumberAssumption == Number \in [DOMAIN Number -> Nat]

VARIABLES stream,    \* every byte sent on the connection
          rpos,      \* how many of them the reader has consumed
          closed,    \* the peer has closed or the connection broke
          pc,        \* where the call of stomp_read is
          line,      \* data of stomp_read_line: the bytes of the current line
          frame,     \* f, the frame being built
          result,    \* rc and *frame of the last call that returned
          sent,      \* history: the frames sent, each with its start in stream
          base       \* history: rpos when the last call returned

peer == <<stream, closed, sent>>
vars == <<stream, rpos, closed, pc, line, frame, result, sent, base>>

LF == "\n"
NUL == "\\0"
COLON == ":"

\* apr_atoi64 on a header value: 0 for what is not a number.
apr_atoi64(v) == IF v # <<>> /\ v[1] \in DOMAIN Number THEN Number[v[1]] ELSE 0

\* strstr(line, ":"): where the first colon is.
ColonIn(l) == SelectInSeq(l, LAMBDA b : b = COLON)

\* apr_hash_set: the last value set for a key is the one kept.
apr_hash_set(hash, key, value) ==
    [k \in DOMAIN hash \cup {key} |-> IF k = key THEN value ELSE hash[k]]

ContentLength == <<"content-length">>

\* Bug to try: apr_palloc in place of apr_pcalloc.
NewFrameUnset == [command |-> <<"unset">>, headers |-> [k \in {} |-> <<>>], body |-> <<>>]
NewFrame == [command |-> <<>>, headers |-> [k \in {} |-> <<>>], body |-> <<>>]

\* The bytes of a frame on the wire; each of its headers takes four.
HeaderBytes(headers) ==
    [n \in 1 .. 4 * Len(headers) |->
        LET header == headers[((n - 1) \div 4) + 1]
        IN <<header[1], COLON, header[2], LF>>[((n - 1) % 4) + 1]]

Encode(f) == <<f.command, LF>> \o HeaderBytes(f.headers)
             \o <<LF>> \o f.body \o <<NUL, LF>>

\* What the first n headers amount to.
Merged(headers, n) ==
    [key \in {<<headers[i][1]>> : i \in 1 .. n} |->
        <<headers[Max({i \in 1 .. n : <<headers[i][1]>> = key})][2]>>]

\* What stomp_read makes of those bytes.  Without a content-length the NUL
\* that ends the body is read as part of it.
Delivered(f) ==
    LET headers == Merged(f.headers, Len(f.headers))
    IN [command |-> <<f.command>>,
        headers |-> headers,
        body |-> IF ContentLength \in DOMAIN headers THEN f.body
                                                     ELSE Append(f.body, NUL)]

\* The peer sends frames that can be told apart from what delimits them, and announces
\* the length of a body as it is.  A value may hold a colon.
WellFormed(f) ==
    /\ f.command \notin {LF, NUL}
    /\ f.headers \in Seq(Range(f.headers))
    /\ \A h \in Range(f.headers) : h[1] \notin {LF, NUL, COLON} /\ h[2] \notin {LF, NUL}
    /\ f.body \in Seq(Range(f.body))
    /\ LET headers == Delivered(f).headers
       IN IF ContentLength \in DOMAIN headers
          THEN apr_atoi64(headers[ContentLength]) = Len(f.body)
          ELSE NUL \notin Range(f.body)

ASSUME FramesAssumption == \A f \in Frames : WellFormed(f)

NoFrame == [rc |-> "none"]
Got(f) == [rc |-> "APR_SUCCESS", frame |-> f]
Failed(rc) == [rc |-> rc]

Init == /\ stream = <<>> /\ sent = <<>> /\ closed = FALSE
        /\ rpos = 0 /\ base = 0
        /\ pc = "idle" /\ line = <<>> /\ frame = NewFrame
        /\ result = NoFrame
-----------------------------------------------------------------------------
(* The peer and the network. *)

Send(f) == /\ ~closed
           /\ Len(sent) < MaxFrames
           /\ stream' = stream \o Encode(f)
           /\ sent' = Append(sent, [frame |-> f, start |-> Len(stream)])
           /\ UNCHANGED <<rpos, closed, pc, line, frame, result, base>>

Close == /\ ~closed
         /\ closed' = TRUE
         /\ UNCHANGED <<stream, rpos, pc, line, frame, result, sent, base>>

\* A connection that breaks takes bytes with it that were never delivered.
LoseByte == /\ closed
            /\ rpos < Len(stream)
            /\ stream' = Front(stream)
            /\ UNCHANGED <<rpos, closed, pc, line, frame, result, sent, base>>

\* apr_socket_recv: a recv of n bytes may return any of these byte strings ...
Recv(n) == {SubSeq(stream, rpos + 1, rpos + k) :
              k \in 1 .. (IF Len(stream) - rpos < n THEN Len(stream) - rpos ELSE n)}
\* ... or one of these errors.  No bytes at all is the end of the stream, also
\* when none were asked for.
RecvError(n) ==
    {"APR_TIMEUP"} \cup {rc \in {"APR_EOF"} : n = 0 \/ (closed /\ rpos = Len(stream))}
-----------------------------------------------------------------------------
(* stomp_read *)

Return(r) == /\ result' = r
             /\ pc' = "idle"
             /\ base' = rpos'
             /\ line' = <<>>
             /\ frame' = NewFrame

Continue(to) == /\ pc' = to
                /\ UNCHANGED <<result, base>>

\* Bug to try: a recv that timed out is tried again.
RecvRetried(n) ==
    /\ UNCHANGED rpos
    /\ \E rc \in RecvError(n) :
          IF rc = "APR_TIMEUP" THEN UNCHANGED <<pc, line, frame, result, base>>
                               ELSE Return(Failed(rc))

\* A recv of n bytes fails, and the call with it.
RecvFails(n) == /\ UNCHANGED rpos
                /\ \E rc \in RecvError(n) : Return(Failed(rc))

StartRead == /\ pc = "idle"
             /\ pc' = "command"
             /\ UNCHANGED <<peer, rpos, line, frame, result, base>>

EndOfCommand == /\ pc = "command"
                /\ frame' = [frame EXCEPT !.command = line]
                /\ line' = <<>>
                /\ Continue("headers")

HeaderLine == /\ pc = "headers"
              /\ Contains(line, COLON)
              /\ LET c == ColonIn(line)
                     key == SubSeq(line, 1, c - 1)
                     value == SubSeq(line, c + 1, Len(line))
                 IN frame' = [frame EXCEPT !.headers = apr_hash_set(@, key, value)]
              /\ line' = <<>>
              /\ Continue("headers")

\* Bug to try: the test of strstr the wrong way round.
RefusedHeaderLine == /\ pc = "headers"
                     /\ Contains(line, COLON)
                     /\ Return(Failed("APR_EGENERAL"))

MalformedHeaderLine == /\ pc = "headers"
                       /\ line # <<>> /\ ~Contains(line, COLON)
                       /\ Return(Failed("APR_EGENERAL"))

\* Bug to try: the content-length is ignored.
EndOfHeadersUnsized == /\ pc = "headers"
                       /\ line = <<>>
                       /\ UNCHANGED <<line, frame>>
                       /\ Continue("rest")

EndOfHeaders == /\ pc = "headers"
                /\ line = <<>>
                /\ UNCHANGED <<line, frame>>
                /\ Continue(IF ContentLength \in DOMAIN frame.headers
                            THEN "body" ELSE "rest")

\* One turn of the loop of stomp_read_line.
ReadLine ==
    /\ pc \in {"command", "headers"}
    /\ \/ \E bytes \in Recv(1) :
             /\ rpos' = rpos + 1
             /\ \/ /\ bytes = <<LF>>
                   /\ \/ EndOfCommand
                      \/ HeaderLine
                      \/ MalformedHeaderLine
                      \/ EndOfHeaders
                \/ bytes = <<NUL>> /\ Return(Failed("APR_EGENERAL"))
                \/ /\ bytes[1] \notin {LF, NUL}
                   /\ line' = line \o bytes
                   /\ UNCHANGED frame
                   /\ Continue(pc)
       \/ RecvFails(1)
    /\ UNCHANGED peer

\* The single recv of the body: body_length becomes what it returned.
ReadBody ==
    /\ pc = "body"
    /\ LET n == apr_atoi64(frame.headers[ContentLength])
       IN \/ \E bytes \in Recv(n) :
                /\ rpos' = rpos + Len(bytes)
                /\ frame' = [frame EXCEPT !.body = bytes]
                /\ UNCHANGED line
                /\ Continue("terminator")
          \/ RecvFails(n)
    /\ UNCHANGED peer

\* The two bytes after a body of known length, again in a single recv.
ReadTerminator ==
    /\ pc = "terminator"
    /\ \/ \E bytes \in Recv(2) :
             /\ rpos' = rpos + Len(bytes)
             /\ Return(IF bytes = <<NUL, LF>> THEN Got(frame)
                                              ELSE Failed("APR_EGENERAL"))
       \/ RecvFails(2)
    /\ UNCHANGED peer

\* One turn of the loop of stomp_read_buffer: everything up to the NUL.
ReadRest ==
    /\ pc = "rest"
    /\ \/ \E bytes \in Recv(1) :
             /\ rpos' = rpos + 1
             /\ frame' = [frame EXCEPT !.body = @ \o bytes]
             /\ UNCHANGED line
             /\ Continue(IF bytes = <<NUL>> THEN "endline" ELSE "rest")
       \/ RecvFails(1)
    /\ UNCHANGED peer

\* The byte after the NUL.  The result of this recv is not looked at: when it
\* fails, endline[0] is whatever the stack held, a line feed or not.
ReadEndline ==
    /\ pc = "endline"
    /\ \/ \E bytes \in Recv(1) :
             /\ rpos' = rpos + 1
             /\ Return(IF bytes = <<LF>> THEN Got(frame) ELSE Failed("APR_EGENERAL"))
       \/ /\ UNCHANGED rpos
          /\ RecvError(1) # {}
          /\ Return(Got(frame)) \/ Return(Failed("APR_EGENERAL"))
    /\ UNCHANGED peer

ReadStep == \/ ReadLine \/ ReadBody \/ ReadTerminator \/ ReadRest \/ ReadEndline

Next == \/ \E f \in Frames : Send(f)
        \/ Close
        \/ LoseByte
        \/ StartRead
        \/ ReadStep

\* A call that was made goes on: each recv returns, at the latest when the
\* socket's timeout (stomp_engine_set_timeout) has passed.
Fairness == WF_vars(ReadStep)

Spec == Init /\ [][Next]_vars /\ Fairness
-----------------------------------------------------------------------------
(* The frames the reader has before it, and the contract of stomp_read. *)

End(s) == s.start + Len(Encode(s.frame))

\* Position p is where a frame begins or will begin.
Boundary(p) == p = 0 \/ \E i \in DOMAIN sent : p = End(sent[i])

\* How many frames begin before position p.
Begun(p) == SelectLastInSeq(sent, LAMBDA s : s.start < p)

\* The frames that begin at or after the last return and have not been lost with
\* the connection down to their first byte.
Ahead == [i \in 1 .. Begun(Len(stream)) - Begun(base) |->
             Delivered(sent[Begun(base) + i].frame)]

Deliverable == {Delivered(f) : f \in Frames}
Garbage == NewFrame    \* stands for every frame the peer never sent
Known(f) == IF f \in Deliverable THEN f ELSE Garbage

\* A frame with a content-length whose body holds the two terminator bytes.
Cuts(f) ==
    IF ContentLength \notin DOMAIN f.headers THEN {}
    ELSE {Known([f EXCEPT !.body = SubSeq(@, 1, k)]) :
            k \in {k \in 1 .. Len(f.body) - 2 :
                     SubSeq(f.body, k + 1, k + 2) = <<NUL, LF>>}}

Chan == INSTANCE FrameChannel WITH
    Frame <- Deliverable,
    Misread <- Deliverable \cup {Garbage},
    Cut <- [f \in Deliverable |-> Cuts(f)],
    inflight <- Ahead,
    insync <- Boundary(base),
    result <- IF result.rc = "APR_SUCCESS"
              THEN Got(Known(result.frame)) ELSE result

\* stomp_read implements the frame channel: while it stands on the first byte
\* of a frame it returns the peer's frames whole, unaltered and in order, and a
\* timeout before the first byte costs nothing; every other failure costs at
\* most the frame it happened in (stomp_io.c, stomp_read).
ImplementsFrameChannel == Chan!Spec

Bytes == UNION {Range(Encode(f)) : f \in Frames}

TypeOK ==
    /\ stream \in Seq(Bytes)
    /\ rpos \in 0 .. Len(stream) /\ base \in 0 .. rpos
    /\ closed \in BOOLEAN
    /\ pc \in {"idle", "command", "headers", "body", "terminator", "rest", "endline"}
    /\ line \in Seq(Bytes \ {LF, NUL})
    /\ frame.command \in Seq(Bytes) /\ frame.body \in Seq(Bytes)
    /\ \A k \in DOMAIN frame.headers : k \in Seq(Bytes) /\ frame.headers[k] \in Seq(Bytes)
    /\ result.rc \in Chan!ReadError \cup {"none", "APR_SUCCESS"}

\* Every error of a read that began on a frame of an open connection has one of
\* four causes: no byte came in time; the recv of the body or of its terminator
\* was short; the byte behind the NUL was not waited for; or the body was
\* declared empty, so that its recv of no bytes looked like the end of the
\* stream.  The parsing itself never refuses what a peer sent correctly.
ErrorsAreExplained ==
    [][pc # "idle" /\ pc' = "idle" /\ Boundary(base) /\ ~closed =>
         \/ result'.rc \in {"APR_SUCCESS", "APR_TIMEUP"}
         \/ result'.rc = "APR_EGENERAL" /\ pc = "terminator"
            /\ \/ rpos' - rpos < 2
               \/ Len(frame.body) < apr_atoi64(frame.headers[ContentLength])
         \/ result'.rc = "APR_EGENERAL" /\ pc = "endline" /\ rpos' = rpos
         \/ result'.rc = "APR_EOF" /\ pc = "body"
            /\ apr_atoi64(frame.headers[ContentLength]) = 0]_vars

\* A call of stomp_read returns, whatever the peer does: it consumes a byte or
\* fails at every recv.
CallReturns == pc # "idle" ~> pc = "idle"

\* The comment over the wrappers of apr_socket_recv ("so that they read/write
\* their buffers fully"), for the read of a body: what follows a successful
\* recv of the body finds as many bytes as the header announced.
BodyReadFully ==
    pc = "terminator" =>
        Len(frame.body) = apr_atoi64(frame.headers[ContentLength])
=============================================================================
