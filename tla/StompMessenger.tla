--------------------------- MODULE StompMessenger ---------------------------
(***************************************************************************)
(* The messenger (stomp_messenger.c): the calls of an application, what    *)
(* they write to the broker, the reply they wait for and the status they   *)
(* leave behind, while the broker answers, dispatches messages, refuses or *)
(* goes away.                                                              *)
(*                                                                         *)
(* The application is one thread: it makes a call when the last one has    *)
(* returned.  A call that wants no reply is one step; one that does is a   *)
(* step that writes the request and a step that ends the wait for the      *)
(* reply, with the broker and the network at work in between.  Frames are  *)
(* read through FrameChannel, the contract of stomp_read.                  *)
(***************************************************************************)
EXTENDS StompStatus, Sequences

CONSTANTS MaxCalls,     \* bound on the requests the application writes
          MaxMessages,  \* bound on the messages the broker dispatches
          Paths,        \* the paths of the URIs the application sets, Null for a
                        \*   URI without one
          Workload      \* the requests the application makes
ASSUME BoundsAssumption == MaxCalls \in Nat /\ MaxMessages \in Nat

Request == {"CONNECT", "DISCONNECT", "SUBSCRIBE", "UNSUBSCRIBE", "ACK", "NACK",
            "BEGIN", "COMMIT", "ABORT", "SEND"}

ASSUME WorkloadAssumption == Workload \subseteq Request

VARIABLES connection,  \* messenger->connection is not NULL
          path,        \* messenger->uri.path
          status,      \* messenger->status
          engineError, \* the static error of stomp_engine.c
          ioError,     \* the static error of stomp_io.c
          call,        \* the last call: its frame's command, its number, its
                       \*   receipt header and what it returned
          toBroker,    \* the requests written and not yet read by the broker
          torn         \* a request was cut off by an error half way

VARIABLES inflight, insync, closed, result   \* of FrameChannel

\* History of the current connection.
VARIABLES written,     \* the requests written successfully
          processed,   \* the requests the broker has carried out
          subscribed,  \* the broker has a subscription on the connection
          dispatched,  \* the number of messages the broker has sent
          delivered,   \* the last message handed to the application
          clean        \* every read began in sync, every write succeeded and
                       \*   every wait for a reply ended in success

messenger == <<connection, path, status, engineError, ioError, call>>
channel == <<inflight, insync, closed, result>>
broker == <<processed, subscribed, dispatched>>
vars == <<messenger, toBroker, torn, channel, written, broker, delivered, clean>>

\* What the broker sends.  A MESSAGE carries its number, a CONNECTED or RECEIPT
\* the number of the request it answers, an ERROR that of the last request: the
\* code looks at none of them.
Command == {"CONNECTED", "RECEIPT", "MESSAGE", "ERROR"}
BrokerFrame(command, id) == [command |-> command, id |-> id]
Frame == [command : Command, id : Nat]

\* What bytes in the middle of a frame may look like: any command.  To the code
\* an ERROR is no different from bytes that are no command at all.
Misread == [command : Command, id : {0}]

Chan == INSTANCE FrameChannel WITH Cut <- [f \in Frame |-> {f}]

Receipt == {0, 1}     \* receipt_t: only whether it is positive is looked at
Pending == -1         \* no stomp_status_code_t: the call has not returned
Call == [command : Request \cup {"none", "endpoint", "receive"}, n : 0 .. MaxCalls,
         receipt : Receipt, ret : StatusCode \cup {Pending}]

Init == /\ connection = FALSE
        /\ path = Null
        /\ status = stomp_status_success
        /\ engineError = stomp_status_success
        /\ ioError = stomp_status_success
        /\ call = [command |-> "none", n |-> 0, receipt |-> 0, ret |-> STOMP_SUCCESS]
        /\ toBroker = <<>> /\ torn = FALSE
        /\ Chan!Init
        /\ written = {} /\ processed = {} /\ subscribed = FALSE
        /\ dispatched = 0 /\ delivered = 0 /\ clean = TRUE
-----------------------------------------------------------------------------
(* The calls of the application *)

Idle == call.ret # Pending

Returns(ret) == call' = [call EXCEPT !.ret = ret]

\* Bugs to try: the wrong bit, the wrong return value, the status forgotten.
FailsWithNoData(text, detail) ==
    status' = stomp_status_set(STOMP_NO_DATA, text, detail) /\ Returns(STOMP_NO_DATA)
FailsAsSuccess(text, detail) ==
    status' = stomp_status_set(STOMP_FAILURE, text, detail) /\ Returns(STOMP_SUCCESS)
FailsSilently(text, detail) == UNCHANGED status /\ Returns(STOMP_FAILURE)

\* stomp_status_set(&messenger->status, STOMP_FAILURE, ...); return STOMP_FAILURE;
Fails(text, detail) == /\ status' = stomp_status_set(STOMP_FAILURE, text, detail)
                       /\ Returns(STOMP_FAILURE)

Valid(p) == p \notin {Null, ""}

\* apr_uri_parse stores what it could parse; no path, or an empty one, is refused
\* after it has replaced the old one.
stomp_set_endpoint ==
    /\ Idle
    /\ \E p \in Paths :
          /\ path' = p
          /\ \/ /\ Valid(p)
                /\ UNCHANGED status
             \/ /\ ~Valid(p)
                /\ status' = stomp_status_set(STOMP_FAILURE, "destination", p)
          /\ call' = [call EXCEPT !.command = "endpoint", !.receipt = 0,
                         !.ret = IF Valid(p) THEN STOMP_SUCCESS ELSE STOMP_FAILURE]
    /\ result' = Chan!NoFrame
    /\ UNCHANGED <<connection, engineError, ioError, toBroker, torn, inflight,
                   insync, closed, written, broker, delivered, clean>>

\* options has STOMP_OPT_STRIP_ROOT from stomp_messenger_init on, so that a
\* destination is the path from its second character.
Stripped(p) == [path |-> p, stripped |-> TRUE]
Unstripped(p) == [path |-> p, stripped |-> FALSE]
NoDestination == Unstripped(Null)

NextRequest(command, destination, receipt) ==
    [command |-> command, n |-> call.n + 1, receipt |-> receipt,
     destination |-> destination]

Returned(request, ret) ==
    [command |-> request.command, n |-> request.n, receipt |-> request.receipt,
     ret |-> ret]

\* Bugs to try: an off-by-one on the receipt, a stomp_connect that does not wait.
AwaitsBigReceipt(request) == request.command = "CONNECT" \/ request.receipt > 1
AwaitsReceiptOnly(request) == request.receipt > 0

Awaits(request) == request.command = "CONNECT" \/ request.receipt > 0

\* The outgoing side of a connection.
Wire == [queue |-> toBroker, torn |-> torn, written |-> written, clean |-> clean]
FreshWire == [queue |-> <<>>, torn |-> FALSE, written |-> {}, clean |-> TRUE]

\* stomp_write succeeds.  The broker finds the request in the stream unless an
\* earlier one was cut off.
WriteRequest(request, wire) ==
    /\ toBroker' = IF wire.torn THEN wire.queue ELSE Append(wire.queue, request)
    /\ torn' = wire.torn
    /\ written' = wire.written \cup {request.n}
    /\ clean' = wire.clean
    /\ call' = Returned(request, IF Awaits(request) THEN Pending ELSE STOMP_SUCCESS)
    /\ UNCHANGED <<status, ioError>>

\* stomp_write fails: before the first byte, in the middle, or at the line feed
\* behind the NUL, which the broker can do without.  The detail of the status is
\* the engine's last error, not that of the write; stomp_ack gives none.
WriteFails(request, wire) ==
    /\ \/ torn' = wire.torn /\ toBroker' = wire.queue
       \/ torn' = TRUE /\ toBroker' = wire.queue
       \/ ~wire.torn /\ torn' = FALSE /\ toBroker' = Append(wire.queue, request)
    /\ written' = wire.written
    /\ clean' = FALSE
    /\ ioError' = stomp_status_set(STOMP_FAILURE, "io", "write")
    /\ status' = stomp_status_set(STOMP_FAILURE, "write",
                                  IF request.command = "ACK" THEN Null
                                                             ELSE engineError.text)
    /\ call' = Returned(request, STOMP_FAILURE)

\* stomp_engine_connect fails: the messenger keeps the connection it had.
EngineConnectFails ==
    /\ engineError' = stomp_status_set(STOMP_FAILURE, "engine", "connect")
    /\ status' = stomp_status_set(STOMP_FAILURE, "connect", engineError'.text)
    /\ call' = [call EXCEPT !.command = "CONNECT", !.n = @ + 1, !.receipt = 0,
                            !.ret = STOMP_FAILURE]
    /\ result' = Chan!NoFrame
    /\ UNCHANGED <<connection, ioError, toBroker, torn, inflight, insync, closed,
                   written, broker, delivered, clean>>

\* It succeeds: a new socket takes the place of the old one, which nobody closes,
\* and CONNECT is the first request on it.
EngineConnects ==
    /\ connection' = TRUE
    /\ inflight' = <<>> /\ insync' = TRUE /\ closed' = FALSE
    /\ result' = Chan!NoFrame
    /\ processed' = {} /\ subscribed' = FALSE /\ dispatched' = 0 /\ delivered' = 0
    /\ LET request == NextRequest("CONNECT", NoDestination, 0)
       IN WriteRequest(request, FreshWire) \/ WriteFails(request, FreshWire)
    /\ UNCHANGED engineError

\* An application connects once it has set an endpoint that has a path.
stomp_connect == /\ Idle
                 /\ path # Null
                 /\ "CONNECT" \in Workload /\ call.n < MaxCalls
                 /\ EngineConnectFails \/ EngineConnects
                 /\ UNCHANGED path

\* The body that the other requests share: build the frame, write it, and wait
\* for the receipt when one is asked for.
Ask(command, destination, receipt) ==
    /\ Idle /\ connection
    /\ command \in Workload /\ call.n < MaxCalls
    /\ LET request == NextRequest(command, destination, receipt)
       IN WriteRequest(request, Wire) \/ WriteFails(request, Wire)
    /\ result' = Chan!NoFrame
    /\ UNCHANGED <<connection, path, engineError, inflight, insync, closed, broker,
                   delivered>>

stomp_disconnect == \E r \in Receipt : Ask("DISCONNECT", NoDestination, r)

\* The header is looked at after the frame has been built, and before the write.
stomp_subscribe ==
    \/ Valid(path) /\ \E r \in Receipt : Ask("SUBSCRIBE", Stripped(path), r)
    \/ /\ Idle /\ Valid(path)
       /\ call' = [call EXCEPT !.command = "SUBSCRIBE", !.receipt = 0,
                               !.ret = STOMP_FAILURE]
       /\ status' = stomp_status_set(STOMP_FAILURE, "subscription ID", Null)
       /\ result' = Chan!NoFrame
       /\ UNCHANGED <<connection, path, engineError, ioError, toBroker, torn, inflight,
                      insync, closed, written, broker, delivered, clean>>

stomp_unsubscribe ==
    Valid(path) /\ \E r \in Receipt : Ask("UNSUBSCRIBE", Unstripped(path), r)

stomp_ack == \E r \in Receipt : Ask("ACK", NoDestination, r)
stomp_nack == \E r \in Receipt : Ask("NACK", NoDestination, r)

stomp_transaction(command) == \E r \in Receipt : Ask(command, NoDestination, r)
stomp_begin == stomp_transaction("BEGIN")
stomp_commit == stomp_transaction("COMMIT")
stomp_abort == stomp_transaction("ABORT")

stomp_send == Valid(path) /\ \E r \in Receipt : Ask("SEND", Stripped(path), r)
-----------------------------------------------------------------------------
(* Waiting for a reply *)

\* stomp_io_can_read is false: nothing came within the timeout, or the poll
\* itself failed, which is told to the static error of stomp_io.c alone.
CannotRead == /\ \/ UNCHANGED ioError
                 \/ ioError' = stomp_status_set(STOMP_FAILURE, "io", "poll")
              /\ result' = Chan!NoFrame
              /\ UNCHANGED <<inflight, insync, closed>>

\* stomp_io_can_read is true, and stomp_read is called.
ReadReply == /\ Chan!ReadReady
             /\ IF result'.rc = "APR_SUCCESS" THEN UNCHANGED ioError
                ELSE ioError' = stomp_status_set(STOMP_FAILURE, "io", result'.rc)

\* Bug to try: the reply compared with the wrong command.
ExpectedMessage == IF call.command = "CONNECT" THEN "CONNECTED" ELSE "MESSAGE"

Expected == IF call.command = "CONNECT" THEN "CONNECTED" ELSE "RECEIPT"

\* The end of stomp_connect, and stomp_process_receipt: the first frame that
\* comes is taken for the answer, and only its command is compared.
AwaitReply ==
    /\ ~Idle
    /\ \/ /\ CannotRead
          /\ Fails("timed out", Null)
          /\ clean' = FALSE
       \/ /\ ReadReply
          /\ \/ /\ result'.rc # "APR_SUCCESS"
                /\ Fails("read", engineError.text)
                /\ clean' = FALSE
             \/ /\ result'.rc = "APR_SUCCESS" /\ result'.frame.command # Expected
                /\ Fails("reply", result'.frame.command)
                /\ clean' = FALSE
             \/ /\ result'.rc = "APR_SUCCESS" /\ result'.frame.command = Expected
                /\ Returns(STOMP_SUCCESS)
                /\ clean' = (clean /\ insync)
                /\ UNCHANGED status
    /\ UNCHANGED <<connection, path, engineError, toBroker, torn, written, broker,
                   delivered>>

ReceiveReturns(ret) ==
    call' = [call EXCEPT !.command = "receive", !.receipt = 0, !.ret = ret]

stomp_receive ==
    /\ Idle /\ connection
    /\ \/ /\ CannotRead
          /\ status' = stomp_status_set(SuccessNoData, "timed out", Null)
          /\ ReceiveReturns(SuccessNoData)
          /\ UNCHANGED <<delivered, clean>>
       \/ /\ ReadReply
          /\ clean' = (clean /\ insync)
          /\ \/ /\ result'.rc = "APR_SUCCESS" /\ result'.frame.command = "MESSAGE"
                /\ delivered' = result'.frame.id
                /\ ReceiveReturns(STOMP_SUCCESS)
                /\ UNCHANGED status
             \/ /\ result'.rc = "APR_SUCCESS" /\ result'.frame.command # "MESSAGE"
                /\ ReceiveReturns(STOMP_FAILURE)
                /\ UNCHANGED <<status, delivered>>
             \/ /\ result'.rc = "APR_TIMEUP"
                /\ ReceiveReturns(STOMP_SUCCESS)
                /\ UNCHANGED <<status, delivered>>
             \/ /\ result'.rc \notin {"APR_SUCCESS", "APR_TIMEUP"}
                /\ status' = stomp_status_set(STOMP_FAILURE, "read", ioError'.text)
                /\ ReceiveReturns(STOMP_FAILURE)
                /\ UNCHANGED delivered
    /\ UNCHANGED <<connection, path, engineError, toBroker, torn, written, broker>>
-----------------------------------------------------------------------------
(* The broker and the network *)

Answered(request) == request.command = "CONNECT" \/ request.receipt > 0
Reply(request) == IF request.command = "CONNECT" THEN "CONNECTED" ELSE "RECEIPT"

\* Requests are carried out in the order they were written.
Accept ==
    /\ toBroker # <<>> /\ ~closed
    /\ LET request == Head(toBroker)
       IN /\ IF Answered(request)
             THEN inflight' = Append(inflight, BrokerFrame(Reply(request), request.n))
             ELSE UNCHANGED inflight
          /\ processed' = processed \cup {request.n}
          /\ subscribed' = (\/ request.command = "SUBSCRIBE"
                            \/ subscribed /\ request.command # "UNSUBSCRIBE")
    /\ toBroker' = Tail(toBroker)
    /\ UNCHANGED <<messenger, torn, insync, closed, result, written, dispatched,
                   delivered, clean>>

\* A request the broker refuses, or cannot make out, is answered with an ERROR,
\* after which the broker closes the connection.
Refuse ==
    /\ toBroker # <<>> \/ torn
    /\ ~closed
    /\ inflight' = Append(inflight, BrokerFrame("ERROR", call.n))
    /\ closed' = TRUE
    /\ UNCHANGED <<messenger, toBroker, torn, insync, result, written, broker,
                   delivered, clean>>

Dispatch ==
    /\ subscribed /\ ~closed
    /\ dispatched < MaxMessages
    /\ dispatched' = dispatched + 1
    /\ inflight' = Append(inflight, BrokerFrame("MESSAGE", dispatched'))
    /\ UNCHANGED <<messenger, toBroker, torn, insync, closed, result, written,
                   processed, subscribed, delivered, clean>>

Disconnect == /\ connection
              /\ Chan!Close \/ Chan!Lose
              /\ UNCHANGED <<messenger, toBroker, torn, written, broker, delivered, clean>>

Next == \/ stomp_set_endpoint
        \/ stomp_connect
        \/ stomp_disconnect
        \/ stomp_subscribe
        \/ stomp_unsubscribe
        \/ stomp_ack
        \/ stomp_nack
        \/ stomp_begin
        \/ stomp_commit
        \/ stomp_abort
        \/ stomp_send
        \/ stomp_receive
        \/ AwaitReply
        \/ Accept
        \/ Refuse
        \/ Dispatch
        \/ Disconnect

Spec == Init /\ [][Next]_vars
-----------------------------------------------------------------------------
(* What the calls promise *)

ToBroker == [command : Request, n : 1 .. MaxCalls, receipt : Receipt,
             destination : [path : Paths \cup {Null}, stripped : BOOLEAN]]

TypeOK ==
    /\ connection \in BOOLEAN /\ torn \in BOOLEAN
    /\ path \in Paths \cup {Null}
    /\ status.code \in StatusCode
    /\ engineError.code \in StatusCode /\ ioError.code \in StatusCode
    /\ call \in Call
    /\ toBroker \in Seq(ToBroker)
    /\ inflight \in Seq(Frame)
    /\ insync \in BOOLEAN /\ closed \in BOOLEAN
    /\ result \in Chan!Result
    /\ written \in SUBSET (1 .. MaxCalls) /\ processed \in SUBSET (1 .. MaxCalls)
    /\ subscribed \in BOOLEAN /\ clean \in BOOLEAN
    /\ dispatched \in 0 .. MaxMessages /\ delivered \in Nat

\* What a receipt is for: when a call that asked for one returns STOMP_SUCCESS,
\* the broker has carried out that request and every request the application
\* wrote before it on the connection.  The messenger never compares receipt ids,
\* so this rests on the calls being synchronous, and holds as long as no wait has
\* failed and no read went astray (stomp_process_receipt).
ReceiptCovers ==
    clean /\ call.ret = STOMP_SUCCESS /\ call.receipt > 0 => written \subseteq processed

\* A stomp_connect that returns STOMP_SUCCESS has a session: the CONNECTED it took
\* for its answer answers this call, and is no leftover of a connection or of an
\* attempt before it (stomp_connect, stomp_engine_connect).
ConnectMeansSession ==
    call.command = "CONNECT" /\ call.ret = STOMP_SUCCESS => call.n \in processed

\* No message is lost, repeated or overtaken between the broker and the
\* application while every wait ends in success: the messages in flight are, in
\* their order, those that follow the last one stomp_receive returned, and on an
\* open connection they are all the broker has sent.
Messages == {i \in DOMAIN inflight : inflight[i].command = "MESSAGE"}
InOrder == \A i, j \in Messages : i < j => inflight[i].id < inflight[j].id
Following(last) == {inflight[i].id : i \in Messages} = delivered + 1 .. last
MessagesConserved ==
    clean /\ insync =>
        /\ InOrder
        /\ \E last \in delivered .. dispatched :
              Following(last) /\ (~closed => last = dispatched)

\* A call that takes a MESSAGE off the channel in a read that began in sync, and
\* reports success, is a stomp_receive, and it hands the message over, with one
\* exception: one that timed out in the middle of the message returns a bare
\* STOMP_SUCCESS and tells the caller nothing, and the stream is out of sync from then
\* on.  A wait for a reply never succeeds on a MESSAGE (stomp_process_receipt,
\* stomp_connect, stomp_receive).
OnlyTimeoutDropsSilently ==
    [][/\ AwaitReply \/ stomp_receive
       /\ insync /\ inflight # <<>> /\ inflight' = Tail(inflight)
       /\ Head(inflight).command = "MESSAGE"
       /\ stomp_success(call'.ret)
       => /\ call'.command = "receive"
          /\ \/ delivered' = Head(inflight).id
             \/ result'.rc = "APR_TIMEUP" /\ ~insync']_vars

\* The return value and the status object agree: a call that fails leaves a failure
\* there, one that found nothing says so, with one exception, the stomp_receive
\* that got a frame other than a MESSAGE (stomp_messenger.c, every call).
StatusAgrees ==
    /\ call.ret = SuccessNoData => status.code = SuccessNoData
    /\ call.ret = STOMP_FAILURE =>
          \/ status.code = STOMP_FAILURE
          \/ call.command = "receive" /\ result.rc = "APR_SUCCESS"

\* Why ReceiptCovers holds.  A request with a receipt is only ever the last one
\* written, and its call is still waiting; once the broker has answered, the
\* RECEIPT is the only one in flight and all requests have been carried out.
ReceiptRequests ==
    \A i \in DOMAIN toBroker : toBroker[i].receipt > 0 =>
        /\ i = Len(toBroker)
        /\ call.ret = Pending /\ call.receipt > 0

Receipts ==
    \A i \in DOMAIN inflight : inflight[i].command = "RECEIPT" =>
        /\ call.ret = Pending /\ call.receipt > 0
        /\ written \subseteq processed
        /\ \A j \in DOMAIN toBroker : toBroker[j].receipt = 0
        /\ \A j \in DOMAIN inflight : inflight[j].command = "RECEIPT" => i = j

WrittenAccountedFor ==
    \A n \in written : n \in processed \/ \E i \in DOMAIN toBroker : toBroker[i].n = n

\* One receipt at a time: the strengthening from which ReceiptCovers follows
\* (stomp_process_receipt is called before any other request can be written).
OneReceiptAtATime ==
    clean => /\ ~torn
             /\ WrittenAccountedFor
             /\ ReceiptRequests
             /\ Receipts
-----------------------------------------------------------------------------
(* What the documentation says, and the code does not do *)

\* stomp_messenger.h on stomp_receive: "If there's a timeout, a composed response
\* of STOMP_SUCCESS and STOMP_NO_DATA will be returned."
TimeoutMeansNoData ==
    call.command = "receive" /\ result.rc = "APR_TIMEUP" => call.ret = SuccessNoData

\* stomp_messenger.h on every call: "Upon failure, the code will set the error
\* details on the status member of the messenger object."
FailureSetsStatus == call.ret = STOMP_FAILURE => status.code = STOMP_FAILURE

\* The same sentence: the details of a failed write are those of the error that
\* happened, which stomp_io.c keeps in its own static status.
WriteFailureHasDetail ==
    /\ call.ret = STOMP_FAILURE /\ call.command \in Request \ {"ACK"}
    /\ status.text = "write"
    => status.detail = ioError.text

\* stomp_messenger.h on STOMP_OPT_STRIP_ROOT: "Removes the / from beginning of the
\* path (required for Artemis broker)".
DestinationsStripped ==
    \A i \in DOMAIN toBroker :
        toBroker[i].destination # NoDestination => toBroker[i].destination.stripped

\* stomp_messenger.h on every request: "STOMP_SUCCESS if successful".  When all
\* writes succeeded, a call that asked for a receipt, took a frame of the broker
\* for it and reports success was carried out by the broker.
EveryWriteSucceeded == 1 .. call.n \subseteq written
SuccessMeansProcessed ==
    /\ EveryWriteSucceeded
    /\ call.command \in Request /\ call.ret = STOMP_SUCCESS /\ call.receipt > 0
    /\ result.frame.id > 0
    => call.n \in processed

\* The same sentence, the other way: when all writes succeeded, a call that reports
\* failure because a MESSAGE came before its receipt was not carried out.
FailureMeansNotProcessed ==
    /\ EveryWriteSucceeded
    /\ call.command \in Request /\ call.ret = STOMP_FAILURE /\ call.receipt > 0
    /\ status.detail = "MESSAGE" /\ result.frame.id > 0
    => call.n \notin processed
=============================================================================
