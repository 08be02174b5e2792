------------------------- MODULE StompDeliveryProofs -------------------------
(***************************************************************************)
(* What becomes of the messages and of the status, for every number of     *)
(* calls and messages, every set of paths and every workload: no message   *)
(* is lost or overtaken in a clean history, a call that takes one and      *)
(* succeeds hands it over in any history, unless it timed out in the       *)
(* middle of it, and what a call returns agrees with the status it leaves. *)
(***************************************************************************)
EXTENDS StompMessengerProofs

Kept == /\ InOrder
        /\ \E last \in delivered .. dispatched :
              Following(last) /\ (~closed => last = dispatched)

\* The types of what the messages are counted with.
LEMMA InFlightTypes ==
    ASSUME TypeOK
    PROVE  /\ inflight \in Seq(Frame)
           /\ Len(inflight) \in Nat /\ DOMAIN inflight = 1 .. Len(inflight)
           /\ Messages \subseteq 1 .. Len(inflight)
           /\ \A i \in DOMAIN inflight : inflight[i] \in Frame /\ inflight[i].id \in Nat
           /\ delivered \in Nat /\ dispatched \in Nat
           /\ insync \in BOOLEAN /\ clean \in BOOLEAN /\ closed \in BOOLEAN
<1>1. inflight \in Seq(Frame)
  BY DEF TypeOK
<1>2. \A i \in DOMAIN inflight : inflight[i] \in Frame /\ inflight[i].id \in Nat
  <2> SUFFICES ASSUME NEW i \in DOMAIN inflight
               PROVE  inflight[i] \in Frame /\ inflight[i].id \in Nat
    OBVIOUS
  <2>1. inflight[i] \in Frame
    BY <1>1
  <2> QED
    BY <2>1 DEF Frame
<1> QED
  BY <1>1, <1>2 DEF TypeOK, Messages

\* A step that touches no message conserves them.
LEMMA QuietConserves ==
    ASSUME MessagesConserved, UNCHANGED <<inflight, closed, delivered, dispatched>>,
           clean' => clean, insync' => insync
    PROVE  MessagesConserved'
BY DEF MessagesConserved, InOrder, Following, Messages

LEMMA ConnectConserves ==
    ASSUME EngineConnects
    PROVE  MessagesConserved'
<1>1. inflight' = <<>> /\ delivered' = 0 /\ dispatched' = 0
  BY DEF EngineConnects
<1>2. Messages' = {}
  BY <1>1 DEF Messages
<1>3. InOrder' /\ Following(0)'
  BY <1>1, <1>2 DEF InOrder, Following
<1>4. 0 \in delivered' .. dispatched'
  BY <1>1
<1> QED
  BY <1>1, <1>3, <1>4 DEF MessagesConserved

\* A frame that is no MESSAGE joins those in flight.
LEMMA ReplyConserves ==
    ASSUME TypeOK, MessagesConserved,
           NEW f \in Frame, f.command # "MESSAGE",
           inflight' = Append(inflight, f),
           UNCHANGED <<insync, clean, delivered, dispatched>>, closed => closed'
    PROVE  MessagesConserved'
<1>1. /\ DOMAIN inflight' = 1 .. Len(inflight) + 1
      /\ inflight'[Len(inflight) + 1] = f
      /\ \A i \in 1 .. Len(inflight) : inflight'[i] = inflight[i]
  BY InFlightTypes
<1>2. Messages' = Messages
  BY <1>1, InFlightTypes DEF Messages
<1>3. \A i \in Messages : inflight'[i] = inflight[i]
  BY <1>1, InFlightTypes
<1>4. InOrder => InOrder'
  BY <1>2, <1>3 DEF InOrder
<1>5. \A last : Following(last) => Following(last)'
  BY <1>2, <1>3 DEF Following
<1> SUFFICES ASSUME clean, insync
             PROVE  InOrder' /\ \E last \in delivered .. dispatched :
                                   Following(last)' /\ (~closed' => last = dispatched)
  BY DEF MessagesConserved
<1>6. PICK last \in delivered .. dispatched :
              InOrder /\ Following(last) /\ (~closed => last = dispatched)
  BY DEF MessagesConserved
<1> QED
  BY <1>4, <1>5, <1>6

\* The broker sends the next message.
LEMMA DispatchConserves ==
    ASSUME TypeOK, MessagesConserved, Dispatch
    PROVE  MessagesConserved'
<1> SUFFICES ASSUME clean, insync
             PROVE  InOrder' /\ Following(dispatched)'
                    /\ dispatched' \in delivered' .. dispatched'
  BY DEF Dispatch, MessagesConserved
<1>1. /\ ~closed /\ dispatched' = dispatched + 1 /\ delivered' = delivered
      /\ inflight' = Append(inflight, BrokerFrame("MESSAGE", dispatched + 1))
  BY DEF Dispatch
<1>2. InOrder /\ Following(dispatched) /\ dispatched \in delivered .. dispatched
  BY <1>1 DEF MessagesConserved
<1> DEFINE n == Len(inflight)
           f == BrokerFrame("MESSAGE", dispatched + 1)
<1>3. f \in Frame /\ f.command = "MESSAGE" /\ f.id = dispatched + 1
  BY InFlightTypes DEF BrokerFrame, Frame, Command
<1> HIDE DEF f
<1>4. /\ DOMAIN inflight' = 1 .. n + 1 /\ n \in Nat
      /\ inflight'[n + 1] = f
      /\ \A i \in 1 .. n : inflight'[i] = inflight[i]
  BY <1>1, InFlightTypes DEF f
<1>5. Messages' = Messages \cup {n + 1} /\ Messages \subseteq 1 .. n
  BY <1>3, <1>4, InFlightTypes DEF Messages
<1>6. \A i \in Messages : inflight'[i] = inflight[i] /\ inflight[i].id \in delivered + 1 .. dispatched
  BY <1>2, <1>4, <1>5 DEF Following
<1>7. InOrder'
  <2> SUFFICES ASSUME NEW i \in Messages', NEW j \in Messages', i < j
               PROVE  inflight'[i].id < inflight'[j].id
    BY DEF InOrder
  <2>1. i \in Messages
    BY <1>4, <1>5
  <2>2. CASE j \in Messages
    BY <1>2, <1>6, <2>1, <2>2 DEF InOrder
  <2>3. CASE j = n + 1
    BY <1>3, <1>4, <1>6, <2>1, <2>3, InFlightTypes
  <2> QED
    BY <1>5, <2>2, <2>3
<1>8. Following(dispatched)'
  <2>1. {inflight'[i].id : i \in Messages'} = {inflight[i].id : i \in Messages} \cup {dispatched + 1}
    BY <1>3, <1>4, <1>5, <1>6
  <2>2. (delivered + 1 .. dispatched) \cup {dispatched + 1} = delivered + 1 .. dispatched + 1
    BY <1>2, InFlightTypes
  <2>3. {inflight[i].id : i \in Messages} = delivered + 1 .. dispatched
    BY <1>2 DEF Following
  <2>4. {inflight'[i].id : i \in Messages'} = delivered' + 1 .. dispatched'
    BY <1>1, <2>1, <2>2, <2>3
  <2> QED
    BY <2>4 DEF Following
<1> QED
  BY <1>1, <1>2, <1>7, <1>8, InFlightTypes

\* The oldest frame is taken from those in flight, and handed over if it is a message.
LEMMA TakeConserves ==
    ASSUME TypeOK, Kept, inflight # <<>>, inflight' = Tail(inflight),
           UNCHANGED <<closed, dispatched>>,
           delivered' = IF Head(inflight).command = "MESSAGE" THEN Head(inflight).id
                                                              ELSE delivered
    PROVE  Kept'
<1> DEFINE n == Len(inflight)
<1>1. /\ DOMAIN inflight' = 1 .. n - 1
      /\ n \in Nat \ {0} /\ DOMAIN inflight = 1 .. n
      /\ Head(inflight) = inflight[1]
      /\ \A i \in 1 .. n - 1 : inflight'[i] = inflight[i + 1]
  BY InFlightTypes, TailElements
<1>2. PICK last \in delivered .. dispatched :
              InOrder /\ Following(last) /\ (~closed => last = dispatched)
  BY DEF Kept
<1>3. /\ \A i \in Messages' : i + 1 \in Messages /\ inflight'[i] = inflight[i + 1] /\ i \in Nat \ {0}
      /\ \A i \in Messages \ {1} : i - 1 \in Messages' /\ inflight'[i - 1] = inflight[i]
                                   /\ i \in Nat /\ i > 1
  BY <1>1 DEF Messages
<1>4. InOrder'
  <2> SUFFICES ASSUME NEW i \in Messages', NEW j \in Messages', i < j
               PROVE  inflight'[i].id < inflight'[j].id
    BY DEF InOrder
  <2>1. i + 1 < j + 1
    BY <1>3
  <2> QED
    BY <1>2, <1>3, <2>1 DEF InOrder
<1> HIDE DEF n
<1>5. {inflight'[i].id : i \in Messages'} = {inflight[i].id : i \in Messages \ {1}}
  <2>1. ASSUME NEW i \in Messages'
        PROVE  \E j \in Messages \ {1} : inflight[j].id = inflight'[i].id
    <3>1. i \in Nat \ {0}
      BY <1>3
    <3>2. i + 1 # 1
      BY <3>1
    <3>3. i + 1 \in Messages /\ inflight'[i] = inflight[i + 1]
      BY <1>3
    <3> QED
      BY <3>2, <3>3
  <2>2. ASSUME NEW j \in Messages \ {1}
        PROVE  \E i \in Messages' : inflight[j].id = inflight'[i].id
    BY <1>3
  <2>3. ASSUME NEW x \in {inflight'[i].id : i \in Messages'}
        PROVE  x \in {inflight[i].id : i \in Messages \ {1}}
    <3>1. PICK i \in Messages' : x = inflight'[i].id
      OBVIOUS
    <3>2. PICK j \in Messages \ {1} : inflight[j].id = inflight'[i].id
      BY <2>1
    <3> QED
      BY <3>1, <3>2
  <2>4. ASSUME NEW x \in {inflight[i].id : i \in Messages \ {1}}
        PROVE  x \in {inflight'[i].id : i \in Messages'}
    <3>1. PICK j \in Messages \ {1} : x = inflight[j].id
      OBVIOUS
    <3>2. PICK i \in Messages' : inflight[j].id = inflight'[i].id
      BY <2>2
    <3> QED
      BY <3>1, <3>2
  <2> QED
    BY <2>3, <2>4, Zenon
<1>6. CASE Head(inflight).command # "MESSAGE"
  <2>1. 1 \notin Messages /\ delivered' = delivered
    BY <1>1, <1>6 DEF Messages
  <2>2. Following(last)'
    BY <1>2, <1>5, <2>1 DEF Following
  <2> QED
    BY <1>2, <1>4, <2>1, <2>2 DEF Kept
<1>7. CASE Head(inflight).command = "MESSAGE"
  <2>1. 1 \in Messages /\ delivered' = inflight[1].id
    BY <1>1, <1>7 DEF Messages
  <2>2. /\ \A i \in Messages : inflight[i].id \in delivered + 1 .. last
        /\ \A x \in delivered + 1 .. last : \E i \in Messages : inflight[i].id = x
    BY <1>2 DEF Following
  <2>3. \A i \in Messages \ {1} : inflight[1].id < inflight[i].id
    BY <1>2, <1>3, <2>1 DEF InOrder
  <2>4. delivered \in Nat /\ last \in Nat /\ inflight[1].id \in delivered + 1 .. last
    BY <2>1, <2>2, InFlightTypes
  <2>5. inflight[1].id = delivered + 1
    <3>1. delivered + 1 \in delivered + 1 .. last
      BY <2>4
    <3>2. PICK i \in Messages : inflight[i].id = delivered + 1
      BY <2>2, <3>1
    <3>3. CASE i = 1
      BY <3>2, <3>3
    <3>4. CASE i # 1
      BY <2>3, <2>4, <3>2, <3>4
    <3> QED
      BY <3>3, <3>4
  <2>6. {inflight[i].id : i \in Messages \ {1}} = delivered + 2 .. last
    <3>1. ASSUME NEW i \in Messages \ {1} PROVE inflight[i].id \in delivered + 2 .. last
      BY <2>2, <2>3, <2>4, <2>5
    <3>2. ASSUME NEW x \in delivered + 2 .. last
          PROVE  \E i \in Messages \ {1} : inflight[i].id = x
      <4>1. x \in delivered + 1 .. last /\ x # delivered + 1
        BY <2>4
      <4> QED
        BY <2>2, <2>5, <4>1
    <3> QED
      BY <3>1, <3>2
  <2>7. Following(last)' /\ last \in delivered' .. dispatched'
    <3>1. delivered' + 1 = delivered + 2 /\ last \in delivered' .. dispatched'
      BY <1>2, <2>1, <2>4, <2>5, InFlightTypes
    <3> QED
      BY <1>5, <2>6, <3>1 DEF Following
  <2> QED
    BY <1>2, <1>4, <2>7 DEF Kept
<1> QED
  BY <1>6, <1>7

\* The youngest frame is lost with the connection.
LEMMA LoseConserves ==
    ASSUME TypeOK, Kept, Chan!Lose, UNCHANGED <<delivered, dispatched>>
    PROVE  Kept'
<1> DEFINE n == Len(inflight)
<1>1. /\ DOMAIN inflight' = 1 .. n - 1
      /\ n \in Nat \ {0} /\ DOMAIN inflight = 1 .. n
      /\ \A i \in 1 .. n - 1 : inflight'[i] = inflight[i]
      /\ closed /\ closed' = closed
  BY InFlightTypes DEF Chan!Lose
<1>2. PICK last \in delivered .. dispatched : InOrder /\ Following(last)
  BY DEF Kept
<1> HIDE DEF n
<1>3. Messages' = Messages \ {n} /\ Messages \subseteq 1 .. n
  BY <1>1 DEF Messages
<1>4. \A i \in Messages' : inflight'[i] = inflight[i] /\ i < n
  <2> SUFFICES ASSUME NEW i \in Messages' PROVE inflight'[i] = inflight[i] /\ i < n
    OBVIOUS
  <2>1. i \in 1 .. n /\ i # n
    BY <1>3
  <2>2. i \in 1 .. n - 1
    BY <1>1, <2>1
  <2> QED
    BY <1>1, <2>2
<1>5. InOrder'
  BY <1>2, <1>3, <1>4 DEF InOrder
<1>6. {inflight'[i].id : i \in Messages'} = {inflight[i].id : i \in Messages \ {n}}
  BY <1>3, <1>4
<1>7. CASE n \notin Messages
  <2>1. Following(last)'
    BY <1>2, <1>6, <1>7 DEF Following
  <2> QED
    BY <1>1, <1>2, <1>5, <2>1 DEF Kept
<1>8. CASE n \in Messages
  <2>1. /\ \A i \in Messages : inflight[i].id \in delivered + 1 .. last
        /\ \A x \in delivered + 1 .. last : \E i \in Messages : inflight[i].id = x
    BY <1>2 DEF Following
  <2>2. \A i \in Messages \ {n} : inflight[i].id < inflight[n].id
    BY <1>2, <1>3, <1>4, <1>8 DEF InOrder
  <2>3. delivered \in Nat /\ last \in Nat /\ inflight[n].id \in delivered + 1 .. last
    BY <1>8, <2>1, InFlightTypes
  <2>4. inflight[n].id = last
    <3>1. last \in delivered + 1 .. last
      BY <2>3
    <3>2. PICK i \in Messages : inflight[i].id = last
      BY <2>1, <3>1
    <3>3. CASE i = n
      BY <3>2, <3>3
    <3>4. CASE i # n
      BY <2>2, <2>3, <3>2, <3>4
    <3> QED
      BY <3>3, <3>4
  <2>5. {inflight[i].id : i \in Messages \ {n}} = delivered + 1 .. last - 1
    <3>1. ASSUME NEW i \in Messages \ {n} PROVE inflight[i].id \in delivered + 1 .. last - 1
      BY <2>1, <2>2, <2>3, <2>4
    <3>2. ASSUME NEW x \in delivered + 1 .. last - 1
          PROVE  \E i \in Messages \ {n} : inflight[i].id = x
      <4>1. x \in delivered + 1 .. last /\ x # last
        BY <2>3
      <4> QED
        BY <2>1, <2>4, <4>1
    <3> QED
      BY <3>1, <3>2
  <2>6. last - 1 \in delivered' .. dispatched'
    BY <1>2, <2>3, InFlightTypes
  <2>7. Following(last - 1)'
    BY <1>6, <2>5 DEF Following
  <2> QED
    BY <1>1, <1>5, <2>6, <2>7 DEF Kept
<1> QED
  BY <1>7, <1>8

\* A read that begins in sync and ends in sync takes a whole frame or none; if none it
\* says that the stream is over.
LEMMA SyncRead ==
    ASSUME TypeOK, ReadReply, insync, insync'
    PROVE  \/ /\ result'.rc = "APR_SUCCESS" /\ result'.frame = Head(inflight)
              /\ inflight # <<>> /\ inflight' = Tail(inflight)
           \/ result'.rc = "APR_EOF" /\ inflight' = inflight
<1>1. ~Chan!ReadAstray /\ ~Chan!ReadCut /\ \A rc : ~Chan!ReadPart(rc)
  BY DEF Chan!ReadAstray, Chan!ReadCut, Chan!ReadPart
<1>2. CASE Chan!ReadFrame
  BY <1>2 DEF Chan!ReadFrame, Chan!Got
<1>3. CASE Chan!ReadNothing("APR_EOF")
  BY <1>3 DEF Chan!ReadNothing, Chan!Failed
<1> QED
  BY <1>1, <1>2, <1>3 DEF ReadReply, Chan!ReadReady

\* What Ask leaves alone.
LEMMA AskKeeps ==
    ASSUME NEW command, NEW destination, NEW receipt, Ask(command, destination, receipt)
    PROVE  /\ UNCHANGED <<inflight, insync, closed, delivered, dispatched>>
           /\ clean' => clean
BY DEF Ask, broker, WriteRequest, WriteFails, Wire

\* The calls that only ask for something.
Asking == \E command \in Request \ {"CONNECT"},
             destination \in [path : Paths \cup {Null}, stripped : BOOLEAN],
             receipt \in Receipt : Ask(command, destination, receipt)

\* stomp_subscribe refuses a header without an id.
Refusing == /\ call' = [call EXCEPT !.command = "SUBSCRIBE", !.receipt = 0,
                                    !.ret = STOMP_FAILURE]
            /\ status' = stomp_status_set(STOMP_FAILURE, "subscription ID", Null)
            /\ UNCHANGED <<inflight, insync, closed, broker, delivered, clean>>

LEMMA Requests ==
    ASSUME TypeOK,
           \/ stomp_disconnect \/ stomp_subscribe \/ stomp_unsubscribe \/ stomp_ack
           \/ stomp_nack \/ stomp_begin \/ stomp_commit \/ stomp_abort \/ stomp_send
    PROVE  Asking \/ Refusing
<1>1. NoDestination \in [path : Paths \cup {Null}, stripped : BOOLEAN]
  BY DEF NoDestination, Unstripped
<1>2. Valid(path) => /\ Stripped(path) \in [path : Paths \cup {Null}, stripped : BOOLEAN]
                     /\ Unstripped(path) \in [path : Paths \cup {Null}, stripped : BOOLEAN]
  BY DEF TypeOK, Valid, Stripped, Unstripped
<1>3. CASE stomp_subscribe
  <2>1. CASE Valid(path) /\ \E r \in Receipt : Ask("SUBSCRIBE", Stripped(path), r)
    BY <1>2, <2>1 DEF Asking, Request
  <2>2. CASE ~(Valid(path) /\ \E r \in Receipt : Ask("SUBSCRIBE", Stripped(path), r))
    BY <1>3, <2>2 DEF stomp_subscribe, Refusing
  <2> QED
    BY <2>1, <2>2
<1>4. CASE \/ stomp_disconnect \/ stomp_unsubscribe \/ stomp_ack \/ stomp_nack
           \/ stomp_begin \/ stomp_commit \/ stomp_abort \/ stomp_send
  BY <1>1, <1>2, <1>4
  DEF stomp_disconnect, stomp_unsubscribe, stomp_ack, stomp_nack, stomp_begin,
      stomp_commit, stomp_abort, stomp_send, stomp_transaction, Request, Asking
<1> QED
  BY <1>3, <1>4

LEMMA ReceiveConserves ==
    ASSUME TypeOK, MessagesConserved, stomp_receive
    PROVE  MessagesConserved'
<1>1. dispatched' = dispatched
  BY DEF stomp_receive, broker
<1>2. CASE CannotRead /\ UNCHANGED <<delivered, clean>>
  BY <1>1, <1>2, QuietConserves DEF CannotRead
<1>3. CASE ReadReply /\ clean' = (clean /\ insync) /\ ~(CannotRead /\ UNCHANGED <<delivered, clean>>)
  <2> SUFFICES ASSUME clean', insync' PROVE Kept'
    BY DEF MessagesConserved, Kept
  <2>1. clean /\ insync /\ Kept /\ closed' = closed
    BY <1>3, ReadType DEF MessagesConserved, Kept
  <2>2. /\ result'.rc = "APR_SUCCESS" /\ result'.frame.command = "MESSAGE" =>
              delivered' = result'.frame.id
        /\ ~(result'.rc = "APR_SUCCESS" /\ result'.frame.command = "MESSAGE") =>
              delivered' = delivered
    BY <1>3 DEF stomp_receive
  <2>3. CASE result'.rc = "APR_SUCCESS"
    <3>1. inflight # <<>> /\ inflight' = Tail(inflight) /\ result'.frame = Head(inflight)
      BY <1>3, <2>1, <2>3, SyncRead
    <3> QED
      BY <1>1, <2>1, <2>2, <2>3, <3>1, TakeConserves
  <2>4. CASE result'.rc # "APR_SUCCESS"
    <3>1. inflight' = inflight /\ delivered' = delivered
      BY <1>3, <2>1, <2>2, <2>4, SyncRead
    <3> QED
      BY <1>1, <2>1, <3>1 DEF Kept, InOrder, Following, Messages
  <2> QED
    BY <2>3, <2>4
<1> QED
  BY <1>2, <1>3 DEF stomp_receive

LEMMA AwaitConserves ==
    ASSUME TypeOK, MessagesConserved, AwaitReply
    PROVE  MessagesConserved'
<1> SUFFICES ASSUME clean', insync' PROVE Kept'
  BY DEF MessagesConserved, Kept
<1>1. dispatched' = dispatched /\ delivered' = delivered
  BY DEF AwaitReply, broker
<1>2. /\ ReadReply /\ clean /\ insync
      /\ result'.rc = "APR_SUCCESS" /\ result'.frame.command = Expected
  BY DEF AwaitReply
<1>3. inflight # <<>> /\ inflight' = Tail(inflight) /\ Head(inflight).command = Expected
  BY <1>2, SyncRead
<1>4. Head(inflight).command # "MESSAGE"
  BY <1>3 DEF Expected
<1>5. Kept /\ closed' = closed
  BY <1>2, ReadType DEF MessagesConserved, Kept
<1> QED
  BY <1>1, <1>3, <1>4, <1>5, TakeConserves

LEMMA AcceptConserves ==
    ASSUME TypeOK, MessagesConserved, Accept
    PROVE  MessagesConserved'
<1> DEFINE request == Head(toBroker)
           reply == BrokerFrame(Reply(request), request.n)
<1>1. UNCHANGED <<insync, clean, closed, delivered, dispatched>>
  BY DEF Accept
<1>2. CASE inflight' = inflight
  BY <1>1, <1>2, QuietConserves
<1>3. CASE inflight' = Append(inflight, reply)
  <2>1. request \in ToBroker
    BY DEF Accept, TypeOK
  <2>2. reply \in Frame /\ reply.command # "MESSAGE"
    BY <2>1 DEF BrokerFrame, Reply, Frame, Command, ToBroker
  <2> HIDE DEF reply
  <2> QED
    BY <1>1, <1>3, <2>2, ReplyConserves
<1> QED
  BY <1>2, <1>3 DEF Accept

LEMMA ConservedStep == TypeOK /\ MessagesConserved /\ [Next]_vars => MessagesConserved'
<1> SUFFICES ASSUME TypeOK, MessagesConserved, [Next]_vars
             PROVE  MessagesConserved'
  OBVIOUS
<1>1. CASE stomp_set_endpoint
  BY <1>1, QuietConserves DEF stomp_set_endpoint, broker
<1>2. CASE stomp_connect
  <2>1. CASE EngineConnectFails
    BY <2>1, QuietConserves DEF EngineConnectFails, broker
  <2> QED
    BY <1>2, <2>1, ConnectConserves DEF stomp_connect
<1>3. CASE Asking
  BY <1>3, AskKeeps, QuietConserves DEF Asking
<1>4. CASE Refusing
  BY <1>4, QuietConserves DEF Refusing, broker
<1>5. CASE stomp_receive
  BY <1>5, ReceiveConserves
<1>6. CASE AwaitReply
  BY <1>6, AwaitConserves
<1>7. CASE Accept
  BY <1>7, AcceptConserves
<1>8. CASE Refuse
  <2>1. BrokerFrame("ERROR", call.n) \in Frame /\ BrokerFrame("ERROR", call.n).command = "ERROR"
    BY DEF BrokerFrame, Frame, Command, TypeOK, Call
  <2> QED
    BY <1>8, <2>1, ReplyConserves DEF Refuse, broker
<1>9. CASE Dispatch
  BY <1>9, DispatchConserves
<1>10. CASE Disconnect
  <2>1. UNCHANGED <<insync, clean, delivered, dispatched>>
    BY <1>10 DEF Disconnect, broker, Chan!Close, Chan!Lose
  <2>2. CASE Chan!Close
    BY <2>1, <2>2 DEF Chan!Close, MessagesConserved, InOrder, Following, Messages
  <2>3. CASE Chan!Lose
    BY <2>1, <2>3, LoseConserves DEF MessagesConserved, Kept
  <2> QED
    BY <1>10, <2>2, <2>3 DEF Disconnect
<1>11. CASE UNCHANGED vars
  BY <1>11, QuietConserves DEF vars, channel, broker
<1> QED
  BY <1>1, <1>2, <1>3, <1>4, <1>5, <1>6, <1>7, <1>8, <1>9, <1>10, <1>11, Requests DEF Next

\* No message is lost, repeated or overtaken in a history in which every wait ends in
\* success, however many calls and messages there are (stomp_receive,
\* stomp_process_receipt).
THEOREM MessagesAreConserved == Spec => []MessagesConserved
<1>1. Init => MessagesConserved
  <2> SUFFICES ASSUME Init PROVE MessagesConserved
    OBVIOUS
  <2>1. inflight = <<>> /\ delivered = 0 /\ dispatched = 0
    BY DEF Init, Chan!Init
  <2>2. Messages = {}
    BY <2>1 DEF Messages
  <2>3. InOrder /\ Following(0) /\ 0 \in delivered .. dispatched
    BY <2>1, <2>2 DEF InOrder, Following
  <2> QED
    BY <2>1, <2>3 DEF MessagesConserved
<1> QED
  BY <1>1, ConservedStep, TypeCorrect, PTL DEF Spec
-----------------------------------------------------------------------------
(* Messages that are taken *)

\* A call that reports success has taken a message off the channel, in a read that began
\* in sync.
Taking == /\ insync /\ inflight # <<>> /\ inflight' = Tail(inflight)
          /\ Head(inflight).command = "MESSAGE"
          /\ stomp_success(call'.ret)

\* It hands the message over, or timed out in the middle of it.
Delivering == /\ call'.command = "receive"
              /\ \/ delivered' = Head(inflight).id
                 \/ result'.rc = "APR_TIMEUP" /\ ~insync'

\* A step that leaves the channel as it is takes nothing.
LEMMA NothingTaken ==
    ASSUME TypeOK, inflight' = inflight
    PROVE  ~Taking
<1> SUFFICES ASSUME inflight # <<>>, inflight = Tail(inflight) PROVE FALSE
  BY DEF Taking
<1>1. /\ DOMAIN inflight = 1 .. Len(inflight) - 1
      /\ DOMAIN inflight = 1 .. Len(inflight) /\ Len(inflight) \in Nat \ {0}
  BY InFlightTypes, TailElements
<1>2. Len(inflight) \in 1 .. Len(inflight) /\ Len(inflight) \notin 1 .. Len(inflight) - 1
  BY <1>1
<1> QED
  BY <1>1, <1>2

\* Neither does a call that reports a failure, by definition.
LEMMA FailureTakesNone ==
    ASSUME call'.ret = STOMP_FAILURE
    PROVE  ~Taking
BY DEF Taking, stomp_success, STOMP_FAILURE, STOMP_SUCCESS

LEMMA AwaitTakesNone ==
    ASSUME TypeOK, AwaitReply
    PROVE  ~Taking
<1> SUFFICES ASSUME Taking PROVE FALSE
  OBVIOUS
<1>0. call \in Call
  BY DEF TypeOK
<1>1. call'.ret # STOMP_FAILURE
  BY FailureTakesNone
<1>2. ReadReply /\ result'.rc = "APR_SUCCESS" /\ result'.frame.command = Expected
  BY <1>0, <1>1, NothingTaken DEF AwaitReply, Fails, Returns, CannotRead, Call
<1>3. Head(inflight).command = Expected
  BY <1>2, ReadInSync DEF Taking
<1> QED
  BY <1>3 DEF Taking, Expected

\* A read that began in sync and timed out was in the middle of a frame.
LEMMA TimedOutInside ==
    ASSUME insync, ReadReply, result'.rc = "APR_TIMEUP"
    PROVE  ~insync'
<1>1. CASE Chan!ReadFrame
  <2>1. result'.rc = "APR_SUCCESS"
    BY <1>1 DEF Chan!ReadFrame, Chan!Got
  <2> QED
    BY <2>1
<1>2. CASE Chan!ReadCut
  BY <1>2 DEF Chan!ReadCut
<1>3. CASE Chan!ReadNothing("APR_EOF")
  <2>1. result'.rc = "APR_EOF"
    BY <1>3 DEF Chan!ReadNothing, Chan!Failed
  <2> QED
    BY <2>1
<1>4. CASE \E rc \in Chan!ReadError : Chan!ReadPart(rc)
  BY <1>4 DEF Chan!ReadPart
<1>5. CASE Chan!ReadAstray
  BY <1>5 DEF Chan!ReadAstray
<1> QED
  BY <1>1, <1>2, <1>3, <1>4, <1>5 DEF ReadReply, Chan!ReadReady

LEMMA ReceiveDelivers ==
    ASSUME TypeOK, stomp_receive, Taking
    PROVE  Delivering
<1>0. call \in Call
  BY DEF TypeOK
<1>1. call'.command = "receive" /\ call'.ret # STOMP_FAILURE
  BY <1>0, FailureTakesNone DEF stomp_receive, ReceiveReturns, Call
<1>2. ReadReply /\ ~CannotRead
  BY NothingTaken DEF stomp_receive, CannotRead
<1>3. CASE result'.rc = "APR_SUCCESS"
  <2>1. result'.frame = Head(inflight)
    BY <1>2, <1>3, ReadInSync DEF Taking
  <2>2. result'.frame.command = "MESSAGE"
    BY <2>1 DEF Taking
  <2>3. delivered' = result'.frame.id
    BY <1>2, <1>3, <2>2 DEF stomp_receive
  <2> QED
    BY <1>1, <2>1, <2>3 DEF Delivering
<1>4. CASE result'.rc = "APR_TIMEUP"
  <2>1. ~insync'
    BY <1>2, <1>4, TimedOutInside DEF Taking
  <2> QED
    BY <1>1, <1>4, <2>1 DEF Delivering
<1>5. CASE result'.rc \notin {"APR_SUCCESS", "APR_TIMEUP"}
  <2>1. call' = [call EXCEPT !.command = "receive", !.receipt = 0, !.ret = STOMP_FAILURE]
    BY <1>2, <1>5 DEF stomp_receive, ReceiveReturns
  <2> QED
    BY <1>0, <1>1, <2>1 DEF Call
<1> QED
  BY <1>3, <1>4, <1>5

\* In every history, no matter what timed out, broke off or went astray before, a call
\* that takes a message off a stream in sync and reports success is the stomp_receive
\* that hands it over, or the one that timed out in the middle of it, which does not
\* tell its caller (stomp_receive, stomp_process_receipt, stomp_connect).
THEOREM SuccessDelivers == Spec => OnlyTimeoutDropsSilently
<1>1. TypeOK /\ [Next]_vars => (\/ (AwaitReply \/ stomp_receive) /\ Taking => Delivering
                                \/ UNCHANGED vars)
  BY AwaitTakesNone, ReceiveDelivers
<1>2. TypeOK /\ [Next]_vars =>
        [/\ AwaitReply \/ stomp_receive
         /\ insync /\ inflight # <<>> /\ inflight' = Tail(inflight)
         /\ Head(inflight).command = "MESSAGE"
         /\ stomp_success(call'.ret)
         => /\ call'.command = "receive"
            /\ \/ delivered' = Head(inflight).id
               \/ result'.rc = "APR_TIMEUP" /\ ~insync']_vars
  BY <1>1 DEF Taking, Delivering
<1> QED
  BY <1>2, TypeCorrect, PTL DEF Spec, OnlyTimeoutDropsSilently
-----------------------------------------------------------------------------
(* The status *)

\* The codes are three different ones.
LEMMA Codes == /\ STOMP_SUCCESS # STOMP_FAILURE /\ STOMP_SUCCESS # SuccessNoData
               /\ STOMP_FAILURE # SuccessNoData
               /\ Pending \notin {STOMP_SUCCESS, STOMP_FAILURE, SuccessNoData}
               /\ \A code, text, detail : stomp_status_set(code, text, detail).code = code
BY DEF STOMP_SUCCESS, STOMP_FAILURE, SuccessNoData, STOMP_NO_DATA, Pending, stomp_status_set

\* A call that has failed, and said so.
LEMMA FailureTold ==
    ASSUME call'.ret = STOMP_FAILURE, status'.code = STOMP_FAILURE
    PROVE  StatusAgrees'
BY Codes DEF StatusAgrees

\* A call that has neither failed nor found nothing.
LEMMA NothingToTell ==
    ASSUME call'.ret \in {STOMP_SUCCESS, Pending}
    PROVE  StatusAgrees'
BY Codes DEF StatusAgrees

LEMMA WriteTold ==
    ASSUME NEW request, NEW wire, WriteRequest(request, wire) \/ WriteFails(request, wire)
    PROVE  StatusAgrees'
<1>1. CASE WriteRequest(request, wire)
  <2>1. call'.ret \in {STOMP_SUCCESS, Pending}
    BY <1>1 DEF WriteRequest, Returned
  <2> QED
    BY <2>1, NothingToTell
<1>2. CASE WriteFails(request, wire)
  <2>1. call'.ret = STOMP_FAILURE /\ status'.code = STOMP_FAILURE
    BY <1>2, Codes DEF WriteFails, Returned
  <2> QED
    BY <2>1, FailureTold
<1> QED
  BY <1>1, <1>2

LEMMA StatusStep == TypeOK /\ StatusAgrees /\ [Next]_vars => StatusAgrees'
<1> SUFFICES ASSUME TypeOK, StatusAgrees, [Next]_vars
             PROVE  StatusAgrees'
  OBVIOUS
<1>call. call \in Call
  BY DEF TypeOK
<1>1. CASE stomp_set_endpoint
  <2>1. PICK p \in Paths :
           /\ Valid(p) \/ status' = stomp_status_set(STOMP_FAILURE, "destination", p)
           /\ call' = [call EXCEPT !.command = "endpoint", !.receipt = 0,
                         !.ret = IF Valid(p) THEN STOMP_SUCCESS ELSE STOMP_FAILURE]
    BY <1>1 DEF stomp_set_endpoint
  <2>2. CASE Valid(p)
    BY <1>call, <2>1, <2>2, NothingToTell DEF Call
  <2>3. CASE ~Valid(p)
    BY <1>call, <2>1, <2>3, Codes, FailureTold DEF Call
  <2> QED
    BY <2>2, <2>3
<1>2. CASE stomp_connect
  <2>1. CASE EngineConnectFails
    BY <1>call, <2>1, Codes, FailureTold DEF EngineConnectFails, Call
  <2>2. CASE EngineConnects
    BY <2>2, WriteTold DEF EngineConnects
  <2> QED
    BY <1>2, <2>1, <2>2 DEF stomp_connect
<1>3. CASE Asking
  BY <1>3, WriteTold DEF Asking, Ask
<1>4. CASE Refusing
  BY <1>call, <1>4, Codes, FailureTold DEF Refusing, Call
<1>5. CASE stomp_receive
  <2>1. \A ret : ReceiveReturns(ret) => call'.ret = ret /\ call'.command = "receive"
    BY <1>call DEF ReceiveReturns, Call
  <2>2. CASE /\ status' = stomp_status_set(SuccessNoData, "timed out", Null)
             /\ ReceiveReturns(SuccessNoData)
    <3>1. call'.ret = SuccessNoData
      BY <2>1, <2>2
    <3>2. status'.code = SuccessNoData
      BY <2>2, Codes
    <3> QED
      BY <3>1, <3>2, Codes DEF StatusAgrees
  <2>3. CASE ReceiveReturns(STOMP_SUCCESS)
    BY <2>1, <2>3, NothingToTell
  <2>4. CASE result'.rc = "APR_SUCCESS" /\ ReceiveReturns(STOMP_FAILURE)
    <3>1. call'.ret = STOMP_FAILURE /\ call'.command = "receive"
      BY <2>1, <2>4
    <3> QED
      BY <2>4, <3>1, Codes DEF StatusAgrees
  <2>5. CASE /\ status' = stomp_status_set(STOMP_FAILURE, "read", ioError'.text)
             /\ ReceiveReturns(STOMP_FAILURE)
    BY <2>1, <2>5, Codes, FailureTold
  <2> QED
    BY <1>5, <2>2, <2>3, <2>4, <2>5 DEF stomp_receive
<1>6. CASE AwaitReply
  <2>1. \A ret : Returns(ret) => call'.ret = ret
    BY <1>call DEF Returns, Call
  <2>2. CASE \E text, detail : Fails(text, detail)
    BY <2>1, <2>2, Codes, FailureTold DEF Fails
  <2>3. CASE Returns(STOMP_SUCCESS)
    BY <2>1, <2>3, NothingToTell
  <2> QED
    BY <1>6, <2>2, <2>3 DEF AwaitReply
<1>7. CASE Accept \/ Refuse \/ Dispatch \/ Disconnect \/ UNCHANGED vars
  <2>1. UNCHANGED <<call, status, result>>
    BY <1>7 DEF Accept, Refuse, Dispatch, Disconnect, Chan!Close, Chan!Lose, vars, messenger,
                channel
  <2> QED
    BY <2>1 DEF StatusAgrees
<1> QED
  BY <1>1, <1>2, <1>3, <1>4, <1>5, <1>6, <1>7, Requests DEF Next

\* What a call returns agrees with the status it leaves, whatever came before and with
\* the one exception of stomp_receive (stomp_messenger.c, every call).
THEOREM StatusIsTold == Spec => []StatusAgrees
<1>1. Init => StatusAgrees
  BY Codes DEF Init, StatusAgrees
<1> QED
  BY <1>1, StatusStep, TypeCorrect, PTL DEF Spec
=============================================================================
