------------------------ MODULE StompMessengerProofs ------------------------
(***************************************************************************)
(* Proofs about StompMessenger, for every number of calls and messages,    *)
(* every set of paths and every workload.                                  *)
(***************************************************************************)
EXTENDS StompMessenger, TLAPS

LEMMA NextRequestType ==
    ASSUME TypeOK, call.n < MaxCalls,
           NEW command \in Request,
           NEW destination \in [path : Paths \cup {Null}, stripped : BOOLEAN],
           NEW receipt \in Receipt
    PROVE  /\ NextRequest(command, destination, receipt) \in ToBroker
           /\ NextRequest(command, destination, receipt).n = call.n + 1
           /\ NextRequest(command, destination, receipt).receipt = receipt
           /\ NextRequest(command, destination, receipt).command = command
  BY BoundsAssumption DEF NextRequest, ToBroker, TypeOK, Call

LEMMA WriteType ==
    ASSUME NEW request \in ToBroker,
           NEW queue \in Seq(ToBroker),
           NEW cut \in BOOLEAN,
           NEW before \in SUBSET (1 .. MaxCalls),
           NEW flag \in BOOLEAN,
           TypeOK,
           LET wire == [queue |-> queue, torn |-> cut, written |-> before, clean |-> flag]
           IN WriteRequest(request, wire) \/ WriteFails(request, wire)
    PROVE  /\ toBroker' \in Seq(ToBroker)
           /\ torn' \in BOOLEAN
           /\ written' \in SUBSET (1 .. MaxCalls)
           /\ clean' \in BOOLEAN
           /\ call' \in Call
           /\ status'.code \in StatusCode
           /\ ioError'.code \in StatusCode
<1> DEFINE wire == [queue |-> queue, torn |-> cut, written |-> before, clean |-> flag]
<1>1. Append(queue, request) \in Seq(ToBroker)
  OBVIOUS
<1>2. request.n \in 1 .. MaxCalls /\ request.command \in Request /\ request.receipt \in Receipt
  BY DEF ToBroker
<1>3. \A ret \in StatusCode \cup {Pending} : Returned(request, ret) \in Call
  BY <1>2, BoundsAssumption DEF Returned, Call
<1>4. /\ STOMP_SUCCESS \in StatusCode /\ STOMP_FAILURE \in StatusCode
      /\ \A text, detail : stomp_status_set(STOMP_FAILURE, text, detail).code \in StatusCode
  BY DEF StatusCode, stomp_status_set
<1>5. CASE WriteRequest(request, wire)
  BY <1>1, <1>2, <1>3, <1>4, <1>5 DEF WriteRequest, TypeOK
<1>6. CASE WriteFails(request, wire)
  BY <1>1, <1>2, <1>3, <1>4, <1>6 DEF WriteFails, TypeOK
<1>7. QED
  BY <1>5, <1>6

LEMMA AskType ==
    ASSUME TypeOK,
           NEW command \in Request,
           NEW destination \in [path : Paths \cup {Null}, stripped : BOOLEAN],
           NEW receipt \in Receipt,
           Ask(command, destination, receipt)
    PROVE  TypeOK'
<1> DEFINE request == NextRequest(command, destination, receipt)
<1>1. request \in ToBroker
  BY NextRequestType DEF Ask
<1>2. WriteRequest(request, Wire) \/ WriteFails(request, Wire)
  BY DEF Ask
<1>3. /\ toBroker' \in Seq(ToBroker)
      /\ torn' \in BOOLEAN
      /\ written' \in SUBSET (1 .. MaxCalls)
      /\ clean' \in BOOLEAN
      /\ call' \in Call
      /\ status'.code \in StatusCode
      /\ ioError'.code \in StatusCode
  <2> HIDE DEF request
  <2> QED BY <1>1, <1>2, WriteType DEF Wire, TypeOK
<1>4. result' \in Chan!Result
  BY DEF Ask, Chan!NoFrame, Chan!Result
<1> QED
  BY <1>3, <1>4 DEF Ask, TypeOK, broker

\* What the reply of a read may be, and what the read leaves in the channel.
LEMMA ReadType ==
    ASSUME TypeOK, ReadReply
    PROVE  /\ inflight' \in Seq(Frame)
           /\ insync' \in BOOLEAN
           /\ closed' = closed
           /\ result' \in Chan!Result
           /\ ioError'.code \in StatusCode
<1>1. inflight \in Seq(Frame) /\ insync \in BOOLEAN
  BY DEF TypeOK
<1>2. closed' = closed
  BY DEF ReadReply, Chan!ReadReady, Chan!ReadFrame, Chan!ReadCut, Chan!ReadNothing,
         Chan!ReadPart, Chan!ReadAstray
<1>3. ioError'.code \in StatusCode
  BY DEF ReadReply, TypeOK, stomp_status_set, StatusCode
<1>4. inflight # <<>> => Head(inflight) \in Frame /\ Tail(inflight) \in Seq(Frame)
  BY <1>1
<1>5. /\ \A f \in Frame \cup Misread : Chan!Got(f) \in Chan!Result
      /\ \A rc \in Chan!ReadError : Chan!Failed(rc) \in Chan!Result
  BY DEF Chan!Got, Chan!Failed, Chan!Result
<1>6. CASE Chan!ReadFrame
  BY <1>1, <1>2, <1>3, <1>4, <1>5, <1>6 DEF Chan!ReadFrame
<1>7. CASE Chan!ReadCut
  BY <1>1, <1>2, <1>3, <1>4, <1>5, <1>7 DEF Chan!ReadCut
<1>8. CASE Chan!ReadNothing("APR_EOF")
  BY <1>1, <1>2, <1>3, <1>5, <1>8 DEF Chan!ReadNothing, Chan!ReadError
<1>9. CASE \E rc \in Chan!ReadError : Chan!ReadPart(rc)
  BY <1>1, <1>2, <1>3, <1>4, <1>5, <1>9 DEF Chan!ReadPart
<1>10. CASE Chan!ReadAstray
  <2>1. PICK n \in 0 .. Len(inflight) :
              inflight' = SubSeq(inflight, n + 1, Len(inflight))
    BY <1>10 DEF Chan!ReadAstray
  <2>2. inflight' \in Seq(Frame)
    BY <1>1, <2>1
  <2>3. result' \in Chan!Result /\ insync' \in BOOLEAN
    BY <1>5, <1>10 DEF Chan!ReadAstray
  <2> QED
    BY <1>2, <1>3, <2>2, <2>3
<1> QED
  BY <1>6, <1>7, <1>8, <1>9, <1>10 DEF ReadReply, Chan!ReadReady

LEMMA CannotReadType ==
    ASSUME TypeOK, CannotRead
    PROVE  /\ UNCHANGED <<inflight, insync, closed>>
           /\ result' \in Chan!Result
           /\ ioError'.code \in StatusCode
  BY DEF TypeOK, CannotRead, stomp_status_set, StatusCode, Chan!NoFrame, Chan!Result

LEMMA FrameFields ==
    ASSUME NEW r \in Chan!Result, r.rc = "APR_SUCCESS"
    PROVE  r.frame \in [command : Command, id : Nat]
  BY DEF Chan!Result, Chan!ReadError, Frame, Misread

LEMMA CallUpdate ==
    ASSUME call \in Call,
           NEW command \in Request \cup {"none", "endpoint", "receive"},
           NEW receipt \in Receipt,
           NEW ret \in StatusCode \cup {Pending}
    PROVE  /\ [call EXCEPT !.ret = ret] \in Call
           /\ [call EXCEPT !.command = command, !.receipt = receipt, !.ret = ret] \in Call
           /\ call.n < MaxCalls =>
                [call EXCEPT !.command = command, !.n = @ + 1, !.receipt = receipt,
                             !.ret = ret] \in Call
<1>1. [call EXCEPT !.ret = ret] \in Call
  BY DEF Call
<1>2. [call EXCEPT !.command = command, !.receipt = receipt, !.ret = ret] \in Call
  BY DEF Call
<1>3. ASSUME call.n < MaxCalls
      PROVE  [call EXCEPT !.command = command, !.n = @ + 1, !.receipt = receipt,
                          !.ret = ret] \in Call
  <2>1. call.n + 1 \in 0 .. MaxCalls
    BY <1>3, BoundsAssumption DEF Call
  <2> QED
    BY <2>1 DEF Call
<1> QED
  BY <1>1, <1>2, <1>3

LEMMA ReturnTypes ==
    ASSUME TypeOK, NEW ret \in StatusCode
    PROVE  /\ Returns(ret) => call' \in Call
           /\ ReceiveReturns(ret) => call' \in Call
           /\ ret = STOMP_FAILURE =>
                \A text, detail : Fails(text, detail) =>
                                    call' \in Call /\ status'.code \in StatusCode
<1>1. call \in Call /\ 0 \in Receipt
  BY DEF TypeOK, Receipt
<1>2. [call EXCEPT !.ret = ret] \in Call
  BY <1>1, CallUpdate
<1>3. [call EXCEPT !.command = "receive", !.receipt = 0, !.ret = ret] \in Call
  BY <1>1, CallUpdate
<1> QED
  BY <1>2, <1>3 DEF Returns, ReceiveReturns, Fails, stomp_status_set

LEMMA TypeStep == TypeOK /\ [Next]_vars => TypeOK'
<1> SUFFICES ASSUME TypeOK, [Next]_vars
             PROVE  TypeOK'
  OBVIOUS
<1> USE BoundsAssumption
<1>none. [path |-> Null, stripped |-> FALSE] \in [path : Paths \cup {Null}, stripped : BOOLEAN]
  OBVIOUS
<1>path. Valid(path) => /\ Stripped(path) \in [path : Paths \cup {Null}, stripped : BOOLEAN]
                        /\ Unstripped(path) \in [path : Paths \cup {Null}, stripped : BOOLEAN]
  BY DEF TypeOK, Valid, Stripped, Unstripped
<1>codes. /\ STOMP_SUCCESS \in StatusCode /\ STOMP_FAILURE \in StatusCode
          /\ SuccessNoData \in StatusCode
          /\ \A code, text, detail : stomp_status_set(code, text, detail).code = code
  BY DEF StatusCode, stomp_status_set
<1>1. CASE stomp_set_endpoint
  <2>1. call' \in Call
    <3>1. PICK ret \in StatusCode :
             call' = [call EXCEPT !.command = "endpoint", !.receipt = 0, !.ret = ret]
      <4>1. PICK p \in Paths :
               call' = [call EXCEPT !.command = "endpoint", !.receipt = 0,
                          !.ret = IF Valid(p) THEN STOMP_SUCCESS ELSE STOMP_FAILURE]
        BY <1>1 DEF stomp_set_endpoint
      <4>2. (IF Valid(p) THEN STOMP_SUCCESS ELSE STOMP_FAILURE) \in StatusCode
        BY <1>codes
      <4> QED
        BY <4>1, <4>2
    <3> QED
      BY <3>1, CallUpdate DEF TypeOK, Receipt
  <2>2. status'.code \in StatusCode /\ path' \in Paths \cup {Null}
    BY <1>1, <1>codes DEF stomp_set_endpoint, TypeOK
  <2> QED
    BY <1>1, <2>1, <2>2 DEF stomp_set_endpoint, TypeOK, Chan!NoFrame, Chan!Result, broker
<1>2. CASE stomp_connect
  <2>1. CASE EngineConnectFails
    <3>1. call' \in Call
      BY <1>2, <2>1, <1>codes, CallUpdate
      DEF stomp_connect, EngineConnectFails, TypeOK, Request, Receipt
    <3>2. status'.code \in StatusCode /\ engineError'.code \in StatusCode
      BY <2>1, <1>codes DEF EngineConnectFails
    <3>3. result' \in Chan!Result
      BY <2>1 DEF EngineConnectFails, Chan!NoFrame, Chan!Result
    <3> QED
      BY <1>2, <2>1, <3>1, <3>2, <3>3
      DEF stomp_connect, EngineConnectFails, TypeOK, broker
  <2>2. CASE EngineConnects
    <3> DEFINE request == NextRequest("CONNECT", NoDestination, 0)
    <3>1. request \in ToBroker
      BY <1>2, <1>none, NextRequestType
      DEF stomp_connect, NoDestination, Unstripped, Request, Receipt
    <3>2. WriteRequest(request, FreshWire) \/ WriteFails(request, FreshWire)
      BY <2>2 DEF EngineConnects
    <3>3. /\ toBroker' \in Seq(ToBroker)
          /\ torn' \in BOOLEAN
          /\ written' \in SUBSET (1 .. MaxCalls)
          /\ clean' \in BOOLEAN
          /\ call' \in Call
          /\ status'.code \in StatusCode
          /\ ioError'.code \in StatusCode
      <4>1. <<>> \in Seq(ToBroker) /\ {} \in SUBSET (1 .. MaxCalls)
        OBVIOUS
      <4> HIDE DEF request
      <4> QED BY <3>1, <3>2, <4>1, WriteType DEF FreshWire
    <3>4. result' \in Chan!Result /\ inflight' \in Seq(Frame)
      BY <2>2 DEF EngineConnects, Chan!NoFrame, Chan!Result
    <3>5. connection' \in BOOLEAN /\ insync' \in BOOLEAN /\ closed' \in BOOLEAN
          /\ subscribed' \in BOOLEAN
      BY <2>2 DEF EngineConnects
    <3>6. /\ processed' \in SUBSET (1 .. MaxCalls)
          /\ dispatched' \in 0 .. MaxMessages /\ delivered' \in Nat
      BY <2>2 DEF EngineConnects
    <3>7. path' = path /\ engineError' = engineError
      BY <1>2, <2>2 DEF stomp_connect, EngineConnects
    <3> QED
      BY <3>3, <3>4, <3>5, <3>6, <3>7 DEF TypeOK
  <2> QED
    BY <1>2, <2>1, <2>2 DEF stomp_connect
<1>3. CASE \E r \in Receipt, c \in Request,
              d \in [path : Paths \cup {Null}, stripped : BOOLEAN] : Ask(c, d, r)
  BY <1>3, AskType
<1>4. CASE stomp_subscribe
  <2>1. CASE \E r \in Receipt : Ask("SUBSCRIBE", Stripped(path), r) /\ Valid(path)
    BY <1>3, <1>path, <2>1 DEF Request
  <2>2. CASE ~ \E r \in Receipt : Ask("SUBSCRIBE", Stripped(path), r) /\ Valid(path)
    <3>0. /\ call' = [call EXCEPT !.command = "SUBSCRIBE", !.receipt = 0,
                                   !.ret = STOMP_FAILURE]
          /\ status' = stomp_status_set(STOMP_FAILURE, "subscription ID", Null)
          /\ result' = Chan!NoFrame
          /\ UNCHANGED <<connection, path, engineError, ioError, toBroker, torn, inflight,
                         insync, closed, written, broker, delivered, clean>>
      BY <1>4, <2>2 DEF stomp_subscribe
    <3>1. call' \in Call
      <4>1. call' = [call EXCEPT !.command = "SUBSCRIBE", !.receipt = 0,
                                 !.ret = STOMP_FAILURE]
        BY <3>0
      <4> QED
        BY <4>1, <1>codes, CallUpdate DEF TypeOK, Request, Receipt
    <3>2. result' \in Chan!Result /\ status'.code \in StatusCode
      BY <3>0, <1>codes DEF Chan!NoFrame, Chan!Result
    <3> QED
      BY <3>0, <3>1, <3>2 DEF TypeOK, broker
  <2> QED
    BY <2>1, <2>2
<1>5. CASE \/ stomp_disconnect \/ stomp_unsubscribe \/ stomp_ack \/ stomp_nack
           \/ stomp_begin \/ stomp_commit \/ stomp_abort \/ stomp_send
  BY <1>3, <1>5, <1>path, <1>none
  DEF stomp_disconnect, stomp_unsubscribe, stomp_ack, stomp_nack, stomp_begin,
      stomp_commit, stomp_abort, stomp_send, stomp_transaction, Request,
      NoDestination, Unstripped
<1>6. CASE stomp_receive
  <2>1. call' \in Call
    BY <1>6, <1>codes, ReturnTypes DEF stomp_receive
  <2>2. status'.code \in StatusCode
    <3>1. \/ status' = status
          \/ \E code \in StatusCode : \E text, detail :
                status' = stomp_status_set(code, text, detail)
      BY <1>6, <1>codes DEF stomp_receive
    <3> QED
      BY <3>1, <1>codes DEF TypeOK
  <2>3. /\ inflight' \in Seq(Frame) /\ insync' \in BOOLEAN /\ closed' \in BOOLEAN
        /\ result' \in Chan!Result /\ ioError'.code \in StatusCode
    BY <1>6, ReadType, CannotReadType DEF stomp_receive, TypeOK
  <2>4. delivered' \in Nat /\ clean' \in BOOLEAN
    BY <1>6, <2>3, FrameFields DEF stomp_receive, TypeOK
  <2> QED
    BY <1>6, <2>1, <2>2, <2>3, <2>4 DEF stomp_receive, TypeOK, broker
<1>7. CASE AwaitReply
  <2>1. call' \in Call /\ status'.code \in StatusCode
    BY <1>7, <1>codes, ReturnTypes DEF AwaitReply, TypeOK
  <2>2. /\ inflight' \in Seq(Frame) /\ insync' \in BOOLEAN /\ closed' \in BOOLEAN
        /\ result' \in Chan!Result /\ ioError'.code \in StatusCode
    BY <1>7, ReadType, CannotReadType DEF AwaitReply, TypeOK
  <2>3. clean' \in BOOLEAN
    BY <1>7 DEF AwaitReply, TypeOK
  <2> QED
    BY <1>7, <2>1, <2>2, <2>3 DEF AwaitReply, TypeOK, broker
<1>8. CASE Accept
  <2>1. Head(toBroker) \in ToBroker /\ Tail(toBroker) \in Seq(ToBroker)
    BY <1>8 DEF Accept, TypeOK
  <2>2. BrokerFrame(Reply(Head(toBroker)), Head(toBroker).n) \in Frame
    BY <2>1 DEF BrokerFrame, Reply, Frame, Command, ToBroker
  <2>3. inflight' \in Seq(Frame)
    <3>1. inflight' = inflight
          \/ inflight' = Append(inflight, BrokerFrame(Reply(Head(toBroker)), Head(toBroker).n))
      BY <1>8 DEF Accept
    <3> QED
      BY <2>2, <3>1 DEF TypeOK
  <2>4. processed' \in SUBSET (1 .. MaxCalls) /\ subscribed' \in BOOLEAN
    BY <1>8, <2>1 DEF Accept, TypeOK, ToBroker
  <2> QED
    BY <1>8, <2>1, <2>3, <2>4 DEF Accept, TypeOK, messenger
<1>9. CASE Refuse
  <2>1. BrokerFrame("ERROR", call.n) \in Frame
    BY DEF BrokerFrame, Frame, Command, TypeOK, Call
  <2> QED
    BY <1>9, <2>1 DEF Refuse, TypeOK, messenger, broker
<1>10. CASE Dispatch
  <2>1. dispatched' \in 0 .. MaxMessages
    BY <1>10 DEF Dispatch, TypeOK
  <2>2. BrokerFrame("MESSAGE", dispatched') \in Frame
    BY <2>1 DEF BrokerFrame, Frame, Command
  <2> QED
    BY <1>10, <2>1, <2>2 DEF Dispatch, TypeOK, messenger
<1>11. CASE Disconnect
  <2>1. inflight # <<>> => SubSeq(inflight, 1, Len(inflight) - 1) \in Seq(Frame)
    BY DEF TypeOK
  <2>2. inflight' \in Seq(Frame) /\ closed' \in BOOLEAN /\ insync' = insync /\ result' = result
    BY <1>11, <2>1 DEF Disconnect, Chan!Close, Chan!Lose, TypeOK
  <2> QED
    BY <1>11, <2>2 DEF Disconnect, TypeOK, messenger, broker
<1>12. CASE UNCHANGED vars
  BY <1>12 DEF vars, messenger, channel, broker, TypeOK
<1> QED
  BY <1>1, <1>2, <1>4, <1>5, <1>6, <1>7, <1>8, <1>9, <1>10, <1>11, <1>12 DEF Next

LEMMA InitType == Init => TypeOK
<1> SUFFICES ASSUME Init PROVE TypeOK
  OBVIOUS
<1>1. call \in Call
  BY BoundsAssumption DEF Init, Call, Receipt, StatusCode
<1>2. /\ status.code \in StatusCode
      /\ engineError.code \in StatusCode /\ ioError.code \in StatusCode
  BY DEF Init, stomp_status_success, stomp_status_set, StatusCode
<1>3. inflight \in Seq(Frame) /\ result \in Chan!Result
  BY DEF Init, Chan!Init, Chan!NoFrame, Chan!Result
<1>4. /\ connection \in BOOLEAN /\ torn \in BOOLEAN
      /\ insync \in BOOLEAN /\ closed \in BOOLEAN
      /\ subscribed \in BOOLEAN /\ clean \in BOOLEAN
  BY DEF Init, Chan!Init
<1>5. /\ toBroker \in Seq(ToBroker) /\ path \in Paths \cup {Null}
      /\ written \in SUBSET (1 .. MaxCalls) /\ processed \in SUBSET (1 .. MaxCalls)
      /\ dispatched \in 0 .. MaxMessages /\ delivered \in Nat
  BY BoundsAssumption DEF Init
<1> QED
  BY <1>1, <1>2, <1>3, <1>4, <1>5 DEF TypeOK

\* Every variable keeps its type, whatever the bounds, the paths and the workload
\* (all calls of stomp_messenger.c).
THEOREM TypeCorrect == Spec => []TypeOK
  BY InitType, TypeStep, PTL DEF Spec
-----------------------------------------------------------------------------
(* Receipts *)

\* ReceiptCovers is not inductive: it says nothing of the requests and receipts
\* under way.  With OneReceiptAtATime, and the fact that stomp_connect asks for no
\* receipt, it is.
ConnectAsksNoReceipt == call.command = "CONNECT" => call.receipt = 0

ReceiptInv == /\ TypeOK
              /\ OneReceiptAtATime
              /\ ReceiptCovers
              /\ ConnectAsksNoReceipt

\* A read that begins in sync returns the oldest frame, if any, and leaves the
\* frames in flight alone or takes that one away.
LEMMA ReadInSync ==
    ASSUME TypeOK, ReadReply, insync
    PROVE  /\ inflight' = inflight \/ (inflight # <<>> /\ inflight' = Tail(inflight))
           /\ result'.rc = "APR_SUCCESS" =>
                /\ inflight # <<>>
                /\ result'.frame = Head(inflight)
                /\ inflight' = Tail(inflight)
<1>1. inflight # <<>> => Head(inflight) \in Frame
  BY DEF TypeOK
<1>2. ~Chan!ReadAstray
  BY DEF Chan!ReadAstray
<1>3. CASE Chan!ReadFrame
  BY <1>3 DEF Chan!ReadFrame, Chan!Got
<1>4. CASE Chan!ReadCut
  BY <1>1, <1>4 DEF Chan!ReadCut, Chan!Got
<1>5. CASE \E rc \in Chan!ReadError : Chan!ReadNothing(rc) \/ Chan!ReadPart(rc)
  <2>1. PICK rc \in Chan!ReadError : Chan!ReadNothing(rc) \/ Chan!ReadPart(rc)
    BY <1>5
  <2>2. result' = [rc |-> rc]
    BY <2>1 DEF Chan!ReadNothing, Chan!ReadPart, Chan!Failed
  <2>3. result'.rc # "APR_SUCCESS"
    BY <2>2 DEF Chan!ReadError
  <2>4. inflight' = inflight \/ (inflight # <<>> /\ inflight' = Tail(inflight))
    BY <2>1 DEF Chan!ReadNothing, Chan!ReadPart
  <2> QED
    BY <2>3, <2>4
<1> QED
  BY <1>2, <1>3, <1>4, <1>5 DEF ReadReply, Chan!ReadReady, Chan!ReadError

\* Between calls no receipt is asked for and none is on its way.
LEMMA IdleWire ==
    ASSUME TypeOK, OneReceiptAtATime, clean, Idle
    PROVE  /\ \A i \in DOMAIN toBroker : toBroker[i].receipt = 0
           /\ \A i \in DOMAIN inflight : inflight[i].command # "RECEIPT"
<1>1. \A i \in DOMAIN toBroker : toBroker[i].receipt \in {0, 1}
  <2> SUFFICES ASSUME NEW i \in DOMAIN toBroker PROVE toBroker[i].receipt \in {0, 1}
    OBVIOUS
  <2>1. toBroker[i] \in ToBroker
    BY DEF TypeOK
  <2> QED
    BY <2>1 DEF ToBroker, Receipt
<1> QED
  BY <1>1 DEF OneReceiptAtATime, ReceiptRequests, Receipts, Idle

\* A request written on a wire without receipts leaves it with one at most, in its
\* last place, and with the call waiting for it.
LEMMA WriteReceipts ==
    ASSUME NEW request \in ToBroker,
           NEW queue \in Seq(ToBroker),
           NEW before \in SUBSET (1 .. MaxCalls),
           \A i \in DOMAIN queue : queue[i].receipt = 0,
           \A n \in before : n \in processed' \/ \E i \in DOMAIN queue : queue[i].n = n,
           request.command = "CONNECT" => request.receipt = 0,
           WriteRequest(request, [queue |-> queue, torn |-> FALSE,
                                  written |-> before, clean |-> TRUE]),
           \A i \in DOMAIN inflight' : inflight'[i].command # "RECEIPT"
    PROVE  OneReceiptAtATime' /\ ReceiptCovers' /\ ConnectAsksNoReceipt'
<1> DEFINE n == Len(queue)
<1>1. /\ toBroker' = Append(queue, request) /\ torn' = FALSE
      /\ written' = before \cup {request.n}
      /\ call'.command = request.command /\ call'.receipt = request.receipt
      /\ call'.ret = IF Awaits(request) THEN Pending ELSE STOMP_SUCCESS
  BY DEF WriteRequest, Returned
<1>2. /\ DOMAIN toBroker' = 1 .. n + 1 /\ Len(toBroker') = n + 1
      /\ toBroker'[n + 1] = request
      /\ \A i \in 1 .. n : toBroker'[i] = queue[i]
      /\ DOMAIN queue = 1 .. n /\ n \in Nat
  BY <1>1
<1>3. WrittenAccountedFor'
  <2> SUFFICES ASSUME NEW m \in written'
               PROVE  m \in processed' \/ \E i \in DOMAIN toBroker' : toBroker'[i].n = m
    BY DEF WrittenAccountedFor
  <2>1. CASE m = request.n
    BY <1>2, <2>1
  <2>2. CASE m \in before
    BY <1>2, <2>2
  <2> QED
    BY <1>1, <2>1, <2>2
<1>4. ReceiptRequests'
  <2> SUFFICES ASSUME NEW i \in DOMAIN toBroker', toBroker'[i].receipt > 0
               PROVE  /\ i = Len(toBroker')
                      /\ call'.ret = Pending /\ call'.receipt > 0
    BY DEF ReceiptRequests
  <2>1. i = n + 1
    BY <1>2
  <2> QED
    BY <1>1, <1>2, <2>1 DEF Awaits
<1>5. Receipts'
  BY DEF Receipts
<1>6. ReceiptCovers'
  BY <1>1 DEF ReceiptCovers, Awaits, STOMP_SUCCESS, Pending
<1>7. ConnectAsksNoReceipt'
  BY <1>1 DEF ConnectAsksNoReceipt
<1> QED
  BY <1>1, <1>3, <1>4, <1>5, <1>6, <1>7 DEF OneReceiptAtATime

\* A write that fails ends the clean history.
LEMMA WriteFailsReceipts ==
    ASSUME NEW request \in ToBroker, NEW wire,
           request.command = "CONNECT" => request.receipt = 0,
           WriteFails(request, wire)
    PROVE  OneReceiptAtATime' /\ ReceiptCovers' /\ ConnectAsksNoReceipt'
  BY DEF WriteFails, Returned, OneReceiptAtATime, ReceiptCovers, ConnectAsksNoReceipt

LEMMA AskReceipts ==
    ASSUME ReceiptInv,
           NEW command \in Request \ {"CONNECT"},
           NEW destination \in [path : Paths \cup {Null}, stripped : BOOLEAN],
           NEW receipt \in Receipt,
           Ask(command, destination, receipt)
    PROVE  OneReceiptAtATime' /\ ReceiptCovers' /\ ConnectAsksNoReceipt'
<1> DEFINE request == NextRequest(command, destination, receipt)
<1>1. /\ request \in ToBroker
      /\ request.command # "CONNECT"
  BY NextRequestType DEF Ask, ReceiptInv
<1>2. WriteRequest(request, Wire) \/ WriteFails(request, Wire)
  BY DEF Ask
<1>3. UNCHANGED <<inflight, processed>> /\ Idle
  BY DEF Ask, broker
<1> HIDE DEF request
<1>4. CASE WriteFails(request, Wire)
  BY <1>1, <1>4, WriteFailsReceipts
<1>5. CASE WriteRequest(request, Wire) /\ ~clean
  <2>1. clean' = FALSE \/ ~clean'
    BY <1>5 DEF WriteRequest, Wire
  <2>2. call'.command = request.command
    BY <1>5 DEF WriteRequest, Returned
  <2> QED
    BY <1>1, <2>1, <2>2 DEF OneReceiptAtATime, ReceiptCovers, ConnectAsksNoReceipt
<1>6. CASE WriteRequest(request, Wire) /\ clean
  <2>1. /\ \A i \in DOMAIN toBroker : toBroker[i].receipt = 0
        /\ \A i \in DOMAIN inflight : inflight[i].command # "RECEIPT"
    BY <1>3, <1>6, IdleWire DEF ReceiptInv
  <2>2. WrittenAccountedFor /\ torn = FALSE /\ clean = TRUE
    BY <1>6 DEF ReceiptInv, OneReceiptAtATime, TypeOK
  <2>3. Wire = [queue |-> toBroker, torn |-> FALSE, written |-> written, clean |-> TRUE]
    BY <2>2 DEF Wire
  <2>4. toBroker \in Seq(ToBroker) /\ written \in SUBSET (1 .. MaxCalls)
    BY DEF ReceiptInv, TypeOK
  <2>5. \A n \in written : n \in processed' \/ \E i \in DOMAIN toBroker : toBroker[i].n = n
    BY <1>3, <2>2 DEF WrittenAccountedFor
  <2>6. \A i \in DOMAIN inflight' : inflight'[i].command # "RECEIPT"
    BY <1>3, <2>1
  <2> QED
    BY <1>1, <1>6, <2>1, <2>3, <2>4, <2>5, <2>6, WriteReceipts
<1> QED
  BY <1>2, <1>4, <1>5, <1>6

\* A step of the waiting or receiving application leaves the outgoing side alone.
LEMMA ReadKeeps ==
    ASSUME OneReceiptAtATime, clean,
           UNCHANGED <<toBroker, torn, written, processed>>
    PROVE  ~torn' /\ WrittenAccountedFor'
  BY DEF OneReceiptAtATime, WrittenAccountedFor

\* What is in a tail was in the sequence, one place further on.
LEMMA TailElements ==
    ASSUME NEW S, NEW s \in Seq(S), s # <<>>
    PROVE  /\ DOMAIN Tail(s) = 1 .. Len(s) - 1
           /\ Len(s) \in Nat \ {0} /\ DOMAIN s = 1 .. Len(s)
           /\ Head(s) = s[1]
           /\ \A i \in 1 .. Len(s) - 1 : Tail(s)[i] = s[i + 1]
  OBVIOUS

LEMMA ReceiveReceipts ==
    ASSUME ReceiptInv, stomp_receive
    PROVE  OneReceiptAtATime' /\ ReceiptCovers' /\ ConnectAsksNoReceipt'
<1>1. /\ call'.command = "receive" /\ call'.receipt = 0
  <2>1. call \in Call
    BY DEF ReceiptInv, TypeOK
  <2>2. PICK ret : call' = [call EXCEPT !.command = "receive", !.receipt = 0, !.ret = ret]
    BY DEF stomp_receive, ReceiveReturns
  <2> QED
    BY <2>1, <2>2 DEF Call
<1>2. ReceiptCovers' /\ ConnectAsksNoReceipt'
  BY <1>1 DEF ReceiptCovers, ConnectAsksNoReceipt
<1>3. OneReceiptAtATime'
  <2> SUFFICES ASSUME clean'
               PROVE  ~torn' /\ WrittenAccountedFor' /\ ReceiptRequests' /\ Receipts'
    BY DEF OneReceiptAtATime
  <2>1. clean
    BY DEF stomp_receive
  <2>2. ~torn' /\ WrittenAccountedFor'
    BY <2>1, ReadKeeps DEF stomp_receive, ReceiptInv, broker
  <2>3. /\ \A i \in DOMAIN toBroker : toBroker[i].receipt = 0
        /\ \A i \in DOMAIN inflight : inflight[i].command # "RECEIPT"
    BY <2>1, IdleWire DEF ReceiptInv, stomp_receive
  <2>4. ReceiptRequests'
    <3>1. toBroker' = toBroker
      BY DEF stomp_receive
    <3> QED
      BY <2>3, <3>1 DEF ReceiptRequests
  <2>5. inflight' = inflight \/ (inflight # <<>> /\ inflight' = Tail(inflight))
    BY ReadInSync DEF stomp_receive, CannotRead, ReceiptInv
  <2>6. \A i \in DOMAIN inflight' : inflight'[i].command # "RECEIPT"
    BY <2>3, <2>5, TailElements DEF ReceiptInv, TypeOK
  <2> QED
    BY <2>2, <2>4, <2>6 DEF Receipts
<1> QED
  BY <1>2, <1>3

LEMMA AwaitReceipts ==
    ASSUME ReceiptInv, AwaitReply
    PROVE  OneReceiptAtATime' /\ ReceiptCovers' /\ ConnectAsksNoReceipt'
<1>0. call \in Call
  BY DEF ReceiptInv, TypeOK
<1>1. call'.command = call.command /\ call'.receipt = call.receipt
  BY <1>0 DEF AwaitReply, Fails, Returns, Call
<1>2. ConnectAsksNoReceipt'
  BY <1>1 DEF ReceiptInv, ConnectAsksNoReceipt
<1>3. CASE ~clean'
  BY <1>2, <1>3 DEF OneReceiptAtATime, ReceiptCovers
<1>4. CASE clean'
  <2>1. /\ ReadReply /\ clean /\ insync
        /\ result'.rc = "APR_SUCCESS" /\ result'.frame.command = Expected
        /\ Returns(STOMP_SUCCESS)
    BY <1>4 DEF AwaitReply
  <2>2. /\ inflight # <<>> /\ inflight' = Tail(inflight)
        /\ Head(inflight).command = Expected
    BY <2>1, ReadInSync DEF ReceiptInv
  <2>3. UNCHANGED <<toBroker, torn, written, processed>>
    BY DEF AwaitReply, broker
  <2>4. ~torn' /\ WrittenAccountedFor'
    BY <2>1, <2>3, ReadKeeps DEF ReceiptInv
  <2>5. inflight \in Seq(Frame) /\ toBroker \in Seq(ToBroker)
    BY DEF ReceiptInv, TypeOK
  <2>6. ReceiptRequests /\ Receipts
    BY <2>1 DEF ReceiptInv, OneReceiptAtATime
  <2>7. CASE call.command = "CONNECT"
    <3>1. call.receipt = 0
      BY <2>7 DEF ReceiptInv, ConnectAsksNoReceipt
    <3>2. /\ \A i \in DOMAIN toBroker : ~(toBroker[i].receipt > 0)
          /\ \A i \in DOMAIN inflight : inflight[i].command # "RECEIPT"
      BY <2>6, <3>1 DEF ReceiptRequests, Receipts
    <3>3. ReceiptRequests'
      BY <2>3, <3>2 DEF ReceiptRequests
    <3>4. Receipts'
      BY <2>2, <2>5, <3>2, TailElements DEF Receipts
    <3> QED
      BY <1>1, <1>2, <2>4, <3>1, <3>3, <3>4 DEF OneReceiptAtATime, ReceiptCovers
  <2>8. CASE call.command # "CONNECT"
    <3>1. inflight[1].command = "RECEIPT" /\ 1 \in DOMAIN inflight
      BY <2>2, <2>5, <2>8, TailElements DEF Expected
    <3>2. /\ written \subseteq processed
          /\ \A j \in DOMAIN toBroker : toBroker[j].receipt = 0
          /\ \A j \in DOMAIN inflight : inflight[j].command = "RECEIPT" => 1 = j
      BY <2>6, <3>1 DEF Receipts
    <3>3. ReceiptRequests'
      BY <2>3, <3>2 DEF ReceiptRequests
    <3>4. \A i \in DOMAIN inflight' : inflight'[i].command # "RECEIPT"
      BY <2>2, <2>5, <3>2, TailElements
    <3> QED
      BY <1>2, <2>3, <2>4, <3>2, <3>3, <3>4 DEF OneReceiptAtATime, ReceiptCovers, Receipts
  <2> QED
    BY <2>7, <2>8
<1> QED
  BY <1>3, <1>4

LEMMA AcceptReceipts ==
    ASSUME ReceiptInv, Accept
    PROVE  OneReceiptAtATime' /\ ReceiptCovers' /\ ConnectAsksNoReceipt'
<1> DEFINE request == Head(toBroker)
<1>1. UNCHANGED <<call, torn, written, clean>> /\ toBroker # <<>>
  BY DEF Accept, messenger
<1>2. toBroker' = Tail(toBroker) /\ processed' = processed \cup {request.n}
  BY DEF Accept
<1>3. toBroker \in Seq(ToBroker) /\ inflight \in Seq(Frame)
  BY DEF ReceiptInv, TypeOK
<1>4. /\ DOMAIN toBroker' = 1 .. Len(toBroker) - 1
      /\ Len(toBroker) \in Nat \ {0} /\ DOMAIN toBroker = 1 .. Len(toBroker)
      /\ request = toBroker[1]
      /\ Len(toBroker') = Len(toBroker) - 1
      /\ \A i \in 1 .. Len(toBroker) - 1 : toBroker'[i] = toBroker[i + 1]
  BY <1>1, <1>2, <1>3, TailElements
<1>5. ReceiptCovers' /\ ConnectAsksNoReceipt'
  BY <1>1, <1>2 DEF ReceiptInv, ReceiptCovers, ConnectAsksNoReceipt
<1>6. OneReceiptAtATime'
  <2> SUFFICES ASSUME clean
               PROVE  ~torn' /\ WrittenAccountedFor' /\ ReceiptRequests' /\ Receipts'
    BY <1>1 DEF OneReceiptAtATime
  <2>1. ~torn /\ WrittenAccountedFor /\ ReceiptRequests /\ Receipts
    BY DEF ReceiptInv, OneReceiptAtATime
  <2>2. WrittenAccountedFor'
    <3> SUFFICES ASSUME NEW m \in written, m \notin processed'
                 PROVE  \E i \in DOMAIN toBroker' : toBroker'[i].n = m
      BY <1>1 DEF WrittenAccountedFor
    <3>1. PICK i \in DOMAIN toBroker : toBroker[i].n = m
      BY <1>2, <2>1 DEF WrittenAccountedFor
    <3>2. i # 1
      BY <1>2, <1>4, <3>1
    <3>3. i - 1 \in DOMAIN toBroker' /\ toBroker'[i - 1].n = m
      BY <1>4, <3>1, <3>2
    <3> QED
      BY <3>3
  <2>3. ReceiptRequests'
    <3> SUFFICES ASSUME NEW i \in DOMAIN toBroker', toBroker'[i].receipt > 0
                 PROVE  /\ i = Len(toBroker')
                        /\ call.ret = Pending /\ call.receipt > 0
      BY <1>1 DEF ReceiptRequests
    <3>1. i + 1 \in DOMAIN toBroker /\ toBroker[i + 1].receipt > 0
      BY <1>4
    <3> QED
      BY <1>4, <2>1, <3>1 DEF ReceiptRequests
  <2>4. CASE inflight' = inflight
    <3> SUFFICES Receipts'
      BY <1>1, <2>1, <2>2, <2>3
    <3> SUFFICES ASSUME NEW i \in DOMAIN inflight', inflight'[i].command = "RECEIPT"
                 PROVE  /\ call.ret = Pending /\ call.receipt > 0
                        /\ written \subseteq processed'
                        /\ \A j \in DOMAIN toBroker' : toBroker'[j].receipt = 0
                        /\ \A j \in DOMAIN inflight' :
                              inflight'[j].command = "RECEIPT" => i = j
      BY <1>1 DEF Receipts
    <3>1. /\ call.ret = Pending /\ call.receipt > 0
          /\ written \subseteq processed
          /\ \A j \in DOMAIN toBroker : toBroker[j].receipt = 0
          /\ \A j \in DOMAIN inflight : inflight[j].command = "RECEIPT" => i = j
      BY <2>1, <2>4 DEF Receipts
    <3>2. \A j \in DOMAIN toBroker' : toBroker'[j].receipt = 0
      <4> SUFFICES ASSUME NEW j \in DOMAIN toBroker' PROVE toBroker'[j].receipt = 0
        OBVIOUS
      <4>1. j + 1 \in DOMAIN toBroker /\ toBroker'[j] = toBroker[j + 1]
        BY <1>4
      <4> QED
        BY <3>1, <4>1
    <3> QED
      BY <1>2, <2>4, <3>1, <3>2
  <2>5. CASE inflight' # inflight
    <3> DEFINE reply == BrokerFrame(Reply(request), request.n)
    <3>1. Answered(request) /\ inflight' = Append(inflight, reply)
      BY <2>5 DEF Accept
    <3>2. reply \in Frame
      <4>1. request \in ToBroker
        BY <1>1, <1>3
      <4> QED
        BY <4>1 DEF BrokerFrame, Reply, Frame, Command, ToBroker
    <3>3. /\ DOMAIN inflight' = 1 .. Len(inflight) + 1
          /\ DOMAIN inflight = 1 .. Len(inflight) /\ Len(inflight) \in Nat
          /\ inflight'[Len(inflight) + 1] = reply
          /\ \A i \in 1 .. Len(inflight) : inflight'[i] = inflight[i]
      <4> HIDE DEF reply
      <4> QED BY <1>3, <3>1, <3>2
    <3>4. CASE request.receipt > 0
      <4>1. Len(toBroker) = 1 /\ call.ret = Pending /\ call.receipt > 0
        BY <1>4, <2>1, <3>4 DEF ReceiptRequests
      <4>2. \A i \in DOMAIN inflight : inflight[i].command # "RECEIPT"
        <5>1. 1 \in DOMAIN toBroker /\ toBroker[1].receipt # 0
          BY <1>4, <3>4
        <5> QED
          BY <2>1, <5>1 DEF Receipts
      <4>3. written \subseteq processed'
        BY <1>2, <1>4, <2>1, <4>1 DEF WrittenAccountedFor
      <4>4. \A i \in DOMAIN inflight' :
               inflight'[i].command = "RECEIPT" => i = Len(inflight) + 1
        BY <3>3, <4>2
      <4>5. DOMAIN toBroker' = {}
        BY <1>4, <4>1
      <4> QED
        BY <1>1, <2>1, <2>2, <2>3, <4>1, <4>3, <4>4, <4>5 DEF Receipts
    <3>5. CASE ~(request.receipt > 0)
      <4>1. reply.command # "RECEIPT"
        BY <3>1, <3>5 DEF Answered, Reply, BrokerFrame
      <4>2. \A i \in DOMAIN inflight' : inflight'[i].command = "RECEIPT" =>
               i \in DOMAIN inflight /\ inflight[i].command = "RECEIPT"
        <5> HIDE DEF reply
        <5> QED BY <3>3, <4>1
      <4>3. \A j \in DOMAIN toBroker' :
               j + 1 \in DOMAIN toBroker /\ toBroker'[j] = toBroker[j + 1]
        BY <1>4
      <4>4. Receipts'
        <5> SUFFICES ASSUME NEW i \in DOMAIN inflight', inflight'[i].command = "RECEIPT"
                     PROVE  /\ call.ret = Pending /\ call.receipt > 0
                            /\ written \subseteq processed'
                            /\ \A j \in DOMAIN toBroker' : toBroker'[j].receipt = 0
                            /\ \A j \in DOMAIN inflight' :
                                  inflight'[j].command = "RECEIPT" => i = j
          BY <1>1 DEF Receipts
        <5>1. i \in DOMAIN inflight /\ inflight[i].command = "RECEIPT"
          BY <4>2
        <5>2. /\ call.ret = Pending /\ call.receipt > 0
              /\ written \subseteq processed
              /\ \A j \in DOMAIN toBroker : toBroker[j].receipt = 0
              /\ \A j \in DOMAIN inflight : inflight[j].command = "RECEIPT" => i = j
          BY <2>1, <5>1 DEF Receipts
        <5> QED
          BY <1>2, <4>2, <4>3, <5>2
      <4> QED
        BY <1>1, <2>1, <2>2, <2>3, <4>4
    <3> QED
      BY <3>4, <3>5
  <2> QED
    BY <1>1, <2>1, <2>2, <2>3, <2>4, <2>5
<1> QED
  BY <1>5, <1>6

\* A frame that is no RECEIPT joins those in flight.
LEMMA BrokerSends ==
    ASSUME ReceiptInv,
           NEW f \in Frame, f.command # "RECEIPT",
           inflight' = Append(inflight, f),
           UNCHANGED <<call, toBroker, torn, written, processed, clean>>
    PROVE  OneReceiptAtATime' /\ ReceiptCovers' /\ ConnectAsksNoReceipt'
<1>1. ReceiptCovers' /\ ConnectAsksNoReceipt'
  BY DEF ReceiptInv, ReceiptCovers, ConnectAsksNoReceipt
<1>2. /\ DOMAIN inflight' = 1 .. Len(inflight) + 1
      /\ DOMAIN inflight = 1 .. Len(inflight) /\ Len(inflight) \in Nat
      /\ inflight'[Len(inflight) + 1] = f
      /\ \A i \in 1 .. Len(inflight) : inflight'[i] = inflight[i]
  BY DEF ReceiptInv, TypeOK
<1>3. \A i \in DOMAIN inflight' : inflight'[i].command = "RECEIPT" =>
         i \in DOMAIN inflight /\ inflight[i].command = "RECEIPT"
  BY <1>2
<1>4. Receipts => Receipts'
  BY <1>3 DEF Receipts
<1>5. (WrittenAccountedFor => WrittenAccountedFor') /\ (ReceiptRequests => ReceiptRequests')
  BY DEF WrittenAccountedFor, ReceiptRequests
<1> QED
  BY <1>1, <1>4, <1>5 DEF ReceiptInv, OneReceiptAtATime

LEMMA ReceiptStep == ReceiptInv /\ [Next]_vars => ReceiptInv'
<1> SUFFICES ASSUME ReceiptInv, [Next]_vars
             PROVE  ReceiptInv'
  OBVIOUS
<1>0. TypeOK /\ TypeOK'
  BY TypeStep DEF ReceiptInv
<1> DEFINE Inv == OneReceiptAtATime /\ ReceiptCovers /\ ConnectAsksNoReceipt
<1> SUFFICES Inv'
  BY <1>0 DEF ReceiptInv
<1>none. NoDestination \in [path : Paths \cup {Null}, stripped : BOOLEAN]
  BY DEF NoDestination, Unstripped
<1>path. Valid(path) => /\ Stripped(path) \in [path : Paths \cup {Null}, stripped : BOOLEAN]
                        /\ Unstripped(path) \in [path : Paths \cup {Null}, stripped : BOOLEAN]
  BY <1>0 DEF TypeOK, Valid, Stripped, Unstripped
\* A call that writes nothing and waits for nothing.
<1>still. ASSUME /\ UNCHANGED <<toBroker, torn, inflight, written, processed, clean>>
                 /\ Idle /\ call'.ret # Pending /\ call'.receipt = 0
          PROVE  Inv'
  <2>1. ReceiptCovers' /\ ConnectAsksNoReceipt'
    BY <1>still DEF ReceiptCovers, ConnectAsksNoReceipt
  <2>2. ASSUME clean PROVE /\ \A i \in DOMAIN toBroker : toBroker[i].receipt = 0
                           /\ \A i \in DOMAIN inflight : inflight[i].command # "RECEIPT"
    BY <1>0, <1>still, <2>2, IdleWire DEF ReceiptInv
  <2>3. clean => ReceiptRequests' /\ Receipts'
    BY <1>still, <2>2 DEF ReceiptRequests, Receipts
  <2>4. clean => ~torn' /\ WrittenAccountedFor'
    BY <1>still DEF ReceiptInv, OneReceiptAtATime, WrittenAccountedFor
  <2> QED
    BY <1>still, <2>1, <2>3, <2>4 DEF OneReceiptAtATime
<1>call. /\ call \in Call /\ STOMP_SUCCESS # Pending /\ STOMP_FAILURE # Pending
  BY <1>0 DEF TypeOK, STOMP_SUCCESS, STOMP_FAILURE, Pending
<1>1. CASE stomp_set_endpoint
  <2>1. call'.ret # Pending /\ call'.receipt = 0
    <3>1. PICK ret \in {STOMP_SUCCESS, STOMP_FAILURE} :
             call' = [call EXCEPT !.command = "endpoint", !.receipt = 0, !.ret = ret]
      <4>1. PICK p \in Paths :
               call' = [call EXCEPT !.command = "endpoint", !.receipt = 0,
                          !.ret = IF Valid(p) THEN STOMP_SUCCESS ELSE STOMP_FAILURE]
        BY <1>1 DEF stomp_set_endpoint
      <4> QED
        BY <4>1
    <3> QED
      BY <1>call, <3>1 DEF Call
  <2> QED
    BY <1>1, <1>still, <2>1 DEF stomp_set_endpoint, broker
<1>2. CASE stomp_connect
  <2>1. CASE EngineConnectFails
    <3>1. call'.ret # Pending /\ call'.receipt = 0
      BY <1>call, <2>1 DEF EngineConnectFails, Call
    <3> QED
      BY <1>2, <1>still, <2>1, <3>1 DEF stomp_connect, EngineConnectFails, broker
  <2>2. CASE EngineConnects
    <3> DEFINE request == NextRequest("CONNECT", NoDestination, 0)
    <3>1. request \in ToBroker /\ request.receipt = 0
      BY <1>0, <1>2, <1>none, NextRequestType DEF stomp_connect, Request, Receipt
    <3>2. WriteRequest(request, FreshWire) \/ WriteFails(request, FreshWire)
      BY <2>2 DEF EngineConnects
    <3>3. inflight' = <<>>
      BY <2>2 DEF EngineConnects
    <3> HIDE DEF request
    <3>4. CASE WriteFails(request, FreshWire)
      BY <3>1, <3>4, WriteFailsReceipts
    <3>5. CASE WriteRequest(request, FreshWire)
      <4>1. /\ <<>> \in Seq(ToBroker) /\ {} \in SUBSET (1 .. MaxCalls)
            /\ \A i \in DOMAIN <<>> : <<>>[i].receipt = 0
            /\ \A i \in DOMAIN inflight' : inflight'[i].command # "RECEIPT"
        BY <3>3
      <4> QED
        BY <3>1, <3>5, <4>1, WriteReceipts DEF FreshWire
    <3> QED
      BY <3>2, <3>4, <3>5
  <2> QED
    BY <1>2, <2>1, <2>2 DEF stomp_connect
<1>3. CASE \E r \in Receipt, c \in Request \ {"CONNECT"},
              d \in [path : Paths \cup {Null}, stripped : BOOLEAN] : Ask(c, d, r)
  BY <1>3, AskReceipts
<1>4. CASE stomp_subscribe
  <2>1. CASE \E r \in Receipt : Ask("SUBSCRIBE", Stripped(path), r) /\ Valid(path)
    BY <1>3, <1>path, <2>1 DEF Request
  <2>2. CASE ~ \E r \in Receipt : Ask("SUBSCRIBE", Stripped(path), r) /\ Valid(path)
    <3>1. /\ Idle
          /\ call' = [call EXCEPT !.command = "SUBSCRIBE", !.receipt = 0,
                                  !.ret = STOMP_FAILURE]
          /\ UNCHANGED <<toBroker, torn, inflight, written, processed, clean>>
      BY <1>4, <2>2 DEF stomp_subscribe, broker
    <3>2. call'.ret # Pending /\ call'.receipt = 0
      BY <1>call, <3>1 DEF Call
    <3> QED
      BY <1>still, <3>1, <3>2
  <2> QED
    BY <2>1, <2>2
<1>5. CASE \/ stomp_disconnect \/ stomp_unsubscribe \/ stomp_ack \/ stomp_nack
           \/ stomp_begin \/ stomp_commit \/ stomp_abort \/ stomp_send
  BY <1>3, <1>5, <1>path, <1>none
  DEF stomp_disconnect, stomp_unsubscribe, stomp_ack, stomp_nack, stomp_begin,
      stomp_commit, stomp_abort, stomp_send, stomp_transaction, Request
<1>6. CASE stomp_receive
  BY <1>6, ReceiveReceipts
<1>7. CASE AwaitReply
  BY <1>7, AwaitReceipts
<1>8. CASE Accept
  BY <1>8, AcceptReceipts
<1>9. CASE Refuse
  <2>1. BrokerFrame("ERROR", call.n) \in Frame /\ BrokerFrame("ERROR", call.n).command = "ERROR"
    BY <1>call DEF BrokerFrame, Frame, Command, Call
  <2> QED
    BY <1>9, <2>1, BrokerSends DEF Refuse, messenger, broker
<1>10. CASE Dispatch
  <2>1. /\ BrokerFrame("MESSAGE", dispatched') \in Frame
        /\ BrokerFrame("MESSAGE", dispatched').command = "MESSAGE"
    BY <1>0 DEF BrokerFrame, Frame, Command, TypeOK
  <2> QED
    BY <1>10, <2>1, BrokerSends DEF Dispatch, messenger
<1>11. CASE Disconnect
  <2>1. UNCHANGED <<call, toBroker, torn, written, processed, clean>>
    BY <1>11 DEF Disconnect, messenger, broker
  <2>2. \A i \in DOMAIN inflight' : i \in DOMAIN inflight /\ inflight'[i] = inflight[i]
    <3>1. inflight' = inflight
          \/ (inflight # <<>> /\ inflight' = SubSeq(inflight, 1, Len(inflight) - 1))
      BY <1>11 DEF Disconnect, Chan!Close, Chan!Lose
    <3>2. inflight \in Seq(Frame)
      BY <1>0 DEF TypeOK
    <3> QED
      BY <3>1, <3>2
  <2>3. Receipts => Receipts'
    BY <2>1, <2>2 DEF Receipts
  <2>4. (WrittenAccountedFor => WrittenAccountedFor') /\ (ReceiptRequests => ReceiptRequests')
    BY <2>1 DEF WrittenAccountedFor, ReceiptRequests
  <2> QED
    BY <2>1, <2>3, <2>4
    DEF ReceiptInv, OneReceiptAtATime, ReceiptCovers, ConnectAsksNoReceipt
<1>12. CASE UNCHANGED vars
  BY <1>12 DEF vars, messenger, channel, broker, ReceiptInv, OneReceiptAtATime,
               ReceiptCovers, ConnectAsksNoReceipt, WrittenAccountedFor,
               ReceiptRequests, Receipts
<1> QED
  BY <1>1, <1>2, <1>4, <1>5, <1>6, <1>7, <1>8, <1>9, <1>10, <1>11, <1>12 DEF Next

LEMMA ReceiptInvHolds == Spec => []ReceiptInv
<1>1. Init => ReceiptInv
  <2> SUFFICES ASSUME Init PROVE ReceiptInv
    OBVIOUS
  <2>1. TypeOK
    BY InitType
  <2>2. OneReceiptAtATime
    BY DEF Init, Chan!Init, OneReceiptAtATime, WrittenAccountedFor, ReceiptRequests, Receipts
  <2>3. ReceiptCovers /\ ConnectAsksNoReceipt
    BY DEF Init, ReceiptCovers, ConnectAsksNoReceipt
  <2> QED
    BY <2>1, <2>2, <2>3 DEF ReceiptInv
<1> QED
  BY <1>1, ReceiptStep, PTL DEF Spec

\* There is one receipt under way at a time, whatever the application, the broker
\* and the network do, as long as the history is clean (stomp_process_receipt).
THEOREM OneReceipt == Spec => []OneReceiptAtATime
<1>1. ReceiptInv => OneReceiptAtATime
  BY DEF ReceiptInv
<1> QED
  BY <1>1, ReceiptInvHolds, PTL

\* A receipt covers every request written before it on the connection, although no
\* call compares receipt ids (stomp_process_receipt).
THEOREM ReceiptsCover == Spec => []ReceiptCovers
<1>1. ReceiptInv => ReceiptCovers
  BY DEF ReceiptInv
<1> QED
  BY <1>1, ReceiptInvHolds, PTL
-----------------------------------------------------------------------------
(***************************************************************************)
(* Sessions: a stomp_connect that succeeds has one, proved from what holds *)
(* while it waits for the CONNECTED.                                       *)
(***************************************************************************)

\* While CONNECT is waiting, it is the only request on its connection, and a
\* CONNECTED under way answers it: the connection is a new one, so that nothing of
\* an earlier attempt is on it, and no byte of it has been read.
ConnectWaits ==
    call.command = "CONNECT" /\ call.ret = Pending =>
        /\ insync
        /\ \A i \in DOMAIN toBroker : toBroker[i].n = call.n
        /\ \A i \in DOMAIN inflight : inflight[i].command = "CONNECTED" => call.n \in processed

SessionInv == TypeOK /\ ConnectWaits /\ ConnectMeansSession

\* A step after which the last call is no CONNECT preserves the invariant.
LEMMA OtherCall ==
    ASSUME call'.command # "CONNECT"
    PROVE  ConnectWaits' /\ ConnectMeansSession'
  BY DEF ConnectWaits, ConnectMeansSession

\* So does one after which it has failed.
LEMMA FailedCall ==
    ASSUME call'.ret = STOMP_FAILURE
    PROVE  ConnectWaits' /\ ConnectMeansSession'
  BY DEF ConnectWaits, ConnectMeansSession, STOMP_FAILURE, STOMP_SUCCESS, Pending

LEMMA AskSession ==
    ASSUME TypeOK,
           NEW command \in Request \ {"CONNECT"},
           NEW destination \in [path : Paths \cup {Null}, stripped : BOOLEAN],
           NEW receipt \in Receipt,
           Ask(command, destination, receipt)
    PROVE  ConnectWaits' /\ ConnectMeansSession'
<1> DEFINE request == NextRequest(command, destination, receipt)
<1>1. request.command # "CONNECT"
  BY NextRequestType DEF Ask
<1>2. WriteRequest(request, Wire) \/ WriteFails(request, Wire)
  BY DEF Ask
<1> HIDE DEF request
<1>3. call'.command = request.command
  BY <1>2 DEF WriteRequest, WriteFails, Returned
<1> QED
  BY <1>1, <1>3, OtherCall

LEMMA ConnectSession ==
    ASSUME TypeOK, stomp_connect
    PROVE  ConnectWaits' /\ ConnectMeansSession'
<1>0. call \in Call
  BY DEF TypeOK
<1>1. CASE EngineConnectFails
  <2>1. call'.ret = STOMP_FAILURE
    BY <1>0, <1>1 DEF EngineConnectFails, Call
  <2> QED
    BY <2>1, FailedCall
<1>2. CASE EngineConnects
  <2> DEFINE request == NextRequest("CONNECT", NoDestination, 0)
  <2>1. WriteRequest(request, FreshWire) \/ WriteFails(request, FreshWire)
    BY <1>2 DEF EngineConnects
  <2>2. inflight' = <<>> /\ insync' = TRUE
    BY <1>2 DEF EngineConnects
  <2>3. request.command = "CONNECT"
    BY DEF NextRequest
  <2> HIDE DEF request
  <2>4. CASE WriteFails(request, FreshWire)
    <3>1. call'.ret = STOMP_FAILURE
      BY <2>4 DEF WriteFails, Returned
    <3> QED
      BY <3>1, FailedCall
  <2>5. CASE WriteRequest(request, FreshWire)
    <3>1. /\ toBroker' = Append(<<>>, request)
          /\ call'.n = request.n /\ call'.ret = Pending
      BY <2>3, <2>5 DEF WriteRequest, FreshWire, Returned, Awaits
    <3>2. \A i \in DOMAIN toBroker' : toBroker'[i].n = call'.n
      BY <3>1
    <3> QED
      BY <2>2, <3>1, <3>2 DEF ConnectWaits, ConnectMeansSession, STOMP_SUCCESS, Pending
  <2> QED
    BY <2>1, <2>4, <2>5
<1> QED
  BY <1>1, <1>2 DEF stomp_connect

\* The CONNECTED that ends the wait is read in sync and was under way.
LEMMA AwaitSession ==
    ASSUME SessionInv, AwaitReply
    PROVE  ConnectWaits' /\ ConnectMeansSession'
<1>0. call \in Call /\ inflight \in Seq(Frame)
  BY DEF SessionInv, TypeOK
<1>1. call.ret = Pending /\ processed' = processed
  BY DEF AwaitReply, Idle, broker
<1>2. CASE \E text, detail : Fails(text, detail)
  <2>1. call'.ret = STOMP_FAILURE
    BY <1>0, <1>2 DEF Fails, Returns, Call
  <2> QED
    BY <2>1, FailedCall
<1>3. CASE /\ ReadReply
           /\ result'.rc = "APR_SUCCESS" /\ result'.frame.command = Expected
           /\ Returns(STOMP_SUCCESS)
  <2>1. call' = [call EXCEPT !.ret = STOMP_SUCCESS]
    BY <1>3 DEF Returns
  <2>2. call'.command = call.command /\ call'.n = call.n /\ call'.ret = STOMP_SUCCESS
    BY <1>0, <2>1 DEF Call
  <2>3. CASE call.command = "CONNECT"
    <3>1. insync
      BY <1>1, <2>3 DEF SessionInv, ConnectWaits
    <3>2. inflight # <<>> /\ Head(inflight).command = "CONNECTED"
      BY <1>3, <2>3, <3>1, ReadInSync DEF SessionInv, Expected
    <3>3. 1 \in DOMAIN inflight /\ inflight[1].command = "CONNECTED"
      BY <1>0, <3>2
    <3>4. call.n \in processed
      BY <1>1, <2>3, <3>3 DEF SessionInv, ConnectWaits
    <3> QED
      BY <1>1, <2>2, <3>4 DEF ConnectWaits, ConnectMeansSession, STOMP_SUCCESS, Pending
  <2>4. CASE call.command # "CONNECT"
    BY <2>2, <2>4, OtherCall
  <2> QED
    BY <2>3, <2>4
<1> QED
  BY <1>2, <1>3 DEF AwaitReply

\* The broker answers the requests it has read, and no others.
LEMMA AcceptSession ==
    ASSUME SessionInv, Accept
    PROVE  ConnectWaits' /\ ConnectMeansSession'
<1> DEFINE request == Head(toBroker)
<1>1. /\ UNCHANGED <<call, insync>> /\ toBroker # <<>>
      /\ toBroker' = Tail(toBroker) /\ processed' = processed \cup {request.n}
      /\ \/ inflight' = Append(inflight, BrokerFrame(Reply(request), request.n))
         \/ inflight' = inflight
  BY DEF Accept, messenger
<1>2. toBroker \in Seq(ToBroker) /\ inflight \in Seq(Frame)
  BY DEF SessionInv, TypeOK
<1>3. ConnectMeansSession'
  BY <1>1 DEF SessionInv, ConnectMeansSession
<1>4. ASSUME call.command = "CONNECT", call.ret = Pending
      PROVE  /\ insync'
             /\ \A i \in DOMAIN toBroker' : toBroker'[i].n = call.n
             /\ call.n \in processed'
  <2>1. insync /\ \A i \in DOMAIN toBroker : toBroker[i].n = call.n
    BY <1>4 DEF SessionInv, ConnectWaits
  <2>2. /\ 1 \in DOMAIN toBroker /\ request = toBroker[1]
        /\ \A i \in DOMAIN toBroker' :
              i + 1 \in DOMAIN toBroker /\ toBroker'[i] = toBroker[i + 1]
    BY <1>1, <1>2, TailElements
  <2> QED
    BY <1>1, <2>1, <2>2
<1>5. ConnectWaits'
  BY <1>1, <1>4 DEF ConnectWaits
<1> QED
  BY <1>3, <1>5

\* A frame of the broker that is no CONNECTED, and the end of the connection, do not
\* concern a stomp_connect.
LEMMA NetworkSession ==
    ASSUME SessionInv, UNCHANGED <<call, insync, toBroker, processed>>,
           \A i \in DOMAIN inflight' : inflight'[i].command = "CONNECTED" =>
               \E j \in DOMAIN inflight : inflight[j].command = "CONNECTED"
    PROVE  ConnectWaits' /\ ConnectMeansSession'
  BY DEF SessionInv, ConnectWaits, ConnectMeansSession

LEMMA AppendSession ==
    ASSUME SessionInv, NEW f \in Frame, f.command # "CONNECTED",
           inflight' = Append(inflight, f),
           UNCHANGED <<call, insync, toBroker, processed>>
    PROVE  ConnectWaits' /\ ConnectMeansSession'
<1>1. inflight \in Seq(Frame)
  BY DEF SessionInv, TypeOK
<1>2. \A i \in DOMAIN inflight' :
         \/ i \in DOMAIN inflight /\ inflight'[i] = inflight[i]
         \/ inflight'[i] = f
  BY <1>1
<1> QED
  BY <1>2, NetworkSession

LEMMA SessionStep == SessionInv /\ [Next]_vars => SessionInv'
<1> SUFFICES ASSUME SessionInv, [Next]_vars
             PROVE  ConnectWaits' /\ ConnectMeansSession'
  BY TypeStep DEF SessionInv
<1>0. TypeOK
  BY DEF SessionInv
<1>call. call \in Call
  BY <1>0 DEF TypeOK
<1>none. NoDestination \in [path : Paths \cup {Null}, stripped : BOOLEAN]
  BY DEF NoDestination, Unstripped
<1>path. Valid(path) => /\ Stripped(path) \in [path : Paths \cup {Null}, stripped : BOOLEAN]
                        /\ Unstripped(path) \in [path : Paths \cup {Null}, stripped : BOOLEAN]
  BY <1>0 DEF TypeOK, Valid, Stripped, Unstripped
<1>1. CASE stomp_set_endpoint
  <2>1. PICK ret : call' = [call EXCEPT !.command = "endpoint", !.receipt = 0, !.ret = ret]
    BY <1>1 DEF stomp_set_endpoint
  <2>2. call'.command = "endpoint"
    BY <1>call, <2>1 DEF Call
  <2> QED
    BY <2>2, OtherCall
<1>2. CASE stomp_connect
  BY <1>0, <1>2, ConnectSession
<1>3. CASE \E r \in Receipt, c \in Request \ {"CONNECT"},
              d \in [path : Paths \cup {Null}, stripped : BOOLEAN] : Ask(c, d, r)
  BY <1>0, <1>3, AskSession
<1>4. CASE stomp_subscribe
  <2>1. CASE \E r \in Receipt : Ask("SUBSCRIBE", Stripped(path), r) /\ Valid(path)
    BY <1>3, <1>path, <2>1 DEF Request
  <2>2. CASE ~ \E r \in Receipt : Ask("SUBSCRIBE", Stripped(path), r) /\ Valid(path)
    <3>1. call' = [call EXCEPT !.command = "SUBSCRIBE", !.receipt = 0,
                               !.ret = STOMP_FAILURE]
      BY <1>4, <2>2 DEF stomp_subscribe
    <3>2. call'.ret = STOMP_FAILURE
      BY <1>call, <3>1 DEF Call
    <3> QED
      BY <3>2, FailedCall
  <2> QED
    BY <2>1, <2>2
<1>5. CASE \/ stomp_disconnect \/ stomp_unsubscribe \/ stomp_ack \/ stomp_nack
           \/ stomp_begin \/ stomp_commit \/ stomp_abort \/ stomp_send
  BY <1>3, <1>5, <1>path, <1>none
  DEF stomp_disconnect, stomp_unsubscribe, stomp_ack, stomp_nack, stomp_begin,
      stomp_commit, stomp_abort, stomp_send, stomp_transaction, Request
<1>6. CASE stomp_receive
  <2>1. PICK ret : call' = [call EXCEPT !.command = "receive", !.receipt = 0, !.ret = ret]
    BY <1>6 DEF stomp_receive, ReceiveReturns
  <2>2. call'.command = "receive"
    BY <1>call, <2>1 DEF Call
  <2> QED
    BY <2>2, OtherCall
<1>7. CASE AwaitReply
  BY <1>7, AwaitSession
<1>8. CASE Accept
  BY <1>8, AcceptSession
<1>9. CASE Refuse
  <2>1. BrokerFrame("ERROR", call.n) \in Frame /\ BrokerFrame("ERROR", call.n).command = "ERROR"
    BY <1>call, BoundsAssumption DEF BrokerFrame, Frame, Command, Call
  <2> QED
    BY <1>9, <2>1, AppendSession DEF Refuse, messenger, broker
<1>10. CASE Dispatch
  <2>1. /\ BrokerFrame("MESSAGE", dispatched') \in Frame
        /\ BrokerFrame("MESSAGE", dispatched').command = "MESSAGE"
    BY <1>0, <1>10, BoundsAssumption DEF Dispatch, BrokerFrame, Frame, Command, TypeOK
  <2> QED
    BY <1>10, <2>1, AppendSession DEF Dispatch, messenger
<1>11. CASE Disconnect
  <2>1. UNCHANGED <<call, insync, toBroker, processed>>
    BY <1>11 DEF Disconnect, messenger, broker, Chan!Close, Chan!Lose
  <2>2. \A i \in DOMAIN inflight' : i \in DOMAIN inflight /\ inflight'[i] = inflight[i]
    <3>1. inflight' = inflight
          \/ (inflight # <<>> /\ inflight' = SubSeq(inflight, 1, Len(inflight) - 1))
      BY <1>11 DEF Disconnect, Chan!Close, Chan!Lose
    <3>2. inflight \in Seq(Frame)
      BY <1>0 DEF TypeOK
    <3> QED
      BY <3>1, <3>2
  <2> QED
    BY <2>1, <2>2, NetworkSession
<1>12. CASE UNCHANGED vars
  BY <1>12 DEF vars, messenger, channel, broker, SessionInv, ConnectWaits,
               ConnectMeansSession
<1> QED
  BY <1>1, <1>2, <1>4, <1>5, <1>6, <1>7, <1>8, <1>9, <1>10, <1>11, <1>12 DEF Next

\* A stomp_connect that succeeds has a session on the connection it made, whatever
\* became of the connections and attempts before it (stomp_connect,
\* stomp_engine_connect).
THEOREM ConnectHasSession == Spec => []ConnectMeansSession
<1>1. Init => SessionInv
  BY InitType DEF Init, SessionInv, ConnectWaits, ConnectMeansSession
<1>2. SessionInv => ConnectMeansSession
  BY DEF SessionInv
<1> QED
  BY <1>1, <1>2, SessionStep, PTL DEF Spec
=============================================================================
