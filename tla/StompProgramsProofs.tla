------------------------- MODULE StompProgramsProofs -------------------------
(***************************************************************************)
(* For every number of programs and other applications, and every set of   *)
(* them that is started: a client that exits with success has sent its     *)
(* message, and a server that prints a message prints the first it was     *)
(* sent.  The invariant behind this says what is on its way between a      *)
(* program and the broker at each of the program's steps.                  *)
(***************************************************************************)
EXTENDS StompPrograms, SequenceTheorems, TLAPS

Commands == {"", "CONNECT", "SEND", "SUBSCRIBE", "DISCONNECT",
             "CONNECTED", "RECEIPT", "MESSAGE"}
Requests == [command : Commands, receipt : BOOLEAN]
Replies == [command : {"CONNECTED", "RECEIPT", "ERROR"}, sender : {Nobody}]
Frames == Replies \cup [command : {"MESSAGE"}, sender : Senders]

InScript(p) == /\ exit[p] # "success" => pc[p] \in 1 .. Len(Script(p))
               /\ exit[p] = "success" => pc[p] = Len(Script(p)) + 1

Typed == /\ pc \in [Programs -> Nat]
         /\ exit \in [Programs -> {"not started", "running", "success", "failure"}]
         /\ toBroker \in [Programs -> Seq(Requests)]
         /\ inbox \in [Programs -> Seq(Frames)]
         /\ session \in [Programs -> {"none", "open", "closed"}]
         /\ printed \in [Programs -> Senders \cup {Nobody}]
         /\ dispatched \in [Programs -> Seq(Senders)]
         /\ queue \in [Destinations -> Seq(accepted)]
         /\ subscribed \subseteq Programs
         /\ accepted \subseteq Senders
         /\ \A p \in Programs : InScript(p)

\* What a script is made of: the step at each place of it.
LEMMA ClientScript ==
    ASSUME NEW p \in Clients
    PROVE  /\ p \in Programs
           /\ Script(p) = client /\ Len(client) = 7
           /\ client[1] = Connect
           /\ client[2] = Write("CONNECT") /\ client[3] = Await("CONNECTED")
           /\ client[4] = WriteWithReceipt("SEND") /\ client[5] = Await("RECEIPT")
           /\ client[6] = WriteWithReceipt("DISCONNECT") /\ client[7] = Await("RECEIPT")
BY ProgramsAssumption DEF Programs, Script, client

LEMMA ServerScript ==
    ASSUME NEW p \in Servers
    PROVE  /\ p \in Programs
           /\ Script(p) = server /\ Len(server) = 7
           /\ server[1] = Connect
           /\ server[2] = Write("CONNECT") /\ server[3] = Await("CONNECTED")
           /\ server[4] = WriteWithReceipt("SUBSCRIBE") /\ server[5] = Await("RECEIPT")
           /\ server[6] = Receive /\ server[7] = Write("DISCONNECT")
BY ProgramsAssumption DEF Programs, Script, server

LEMMA EngineClientScript ==
    ASSUME NEW p \in EngineClients
    PROVE  /\ p \in Programs
           /\ Script(p) = engine_client /\ Len(engine_client) = 5
           /\ engine_client[1] = Connect
           /\ engine_client[2] = Write("CONNECT") /\ engine_client[3] = Read
           /\ engine_client[4] = Write("SEND") /\ engine_client[5] = Close
BY ProgramsAssumption DEF Programs, Script, engine_client

LEMMA EngineServerScript ==
    ASSUME NEW p \in EngineServers
    PROVE  /\ p \in Programs
           /\ Script(p) = engine_server /\ Len(engine_server) = 7
           /\ engine_server[1] = Connect
           /\ engine_server[2] = Write("CONNECT") /\ engine_server[3] = Read
           /\ engine_server[4] = Write("SUBSCRIBE") /\ engine_server[5] = Read
           /\ engine_server[6] = Write("DISCONNECT") /\ engine_server[7] = Close
BY ProgramsAssumption DEF Programs, Script, engine_server

Steps == [does : {"connect", "write", "await", "receive", "read", "close"},
          command : Commands, receipt : BOOLEAN]

LEMMA ScriptTypes ==
    ASSUME NEW p \in Programs
    PROVE  /\ Len(Script(p)) \in Nat \ {0}
           /\ \A n \in 1 .. Len(Script(p)) : Script(p)[n] \in Steps
<1>1. /\ Connect \in Steps /\ Receive \in Steps /\ Read \in Steps /\ Close \in Steps
      /\ Write("CONNECT") \in Steps /\ Write("SEND") \in Steps
      /\ Write("SUBSCRIBE") \in Steps /\ Write("DISCONNECT") \in Steps
      /\ WriteWithReceipt("SEND") \in Steps /\ WriteWithReceipt("SUBSCRIBE") \in Steps
      /\ WriteWithReceipt("DISCONNECT") \in Steps
      /\ Await("CONNECTED") \in Steps /\ Await("RECEIPT") \in Steps
  BY DEF Steps, Commands, Step, Connect, Write, WriteWithReceipt, Await, Receive, Read, Close
<1>2. \A n \in 1 .. 5 : n = 1 \/ n = 2 \/ n = 3 \/ n = 4 \/ n = 5
  OBVIOUS
<1>3. \A n \in 1 .. 7 : n \in 1 .. 5 \/ n = 6 \/ n = 7
  OBVIOUS
<1>4. CASE p \in Clients
  BY <1>1, <1>2, <1>3, <1>4, ClientScript
<1>5. CASE p \in Servers
  BY <1>1, <1>2, <1>3, <1>5, ServerScript
<1>6. CASE p \in EngineClients
  BY <1>1, <1>2, <1>6, EngineClientScript
<1>7. CASE p \in EngineServers
  BY <1>1, <1>2, <1>3, <1>7, EngineServerScript
<1> QED
  BY <1>4, <1>5, <1>6, <1>7 DEF Programs

\* What is seen of a program and of its connection.
Same(p) == /\ pc'[p] = pc[p] /\ exit'[p] = exit[p] /\ printed'[p] = printed[p]
           /\ toBroker'[p] = toBroker[p] /\ inbox'[p] = inbox[p]
           /\ session'[p] = session[p] /\ dispatched'[p] = dispatched[p]
           /\ p \in subscribed' <=> p \in subscribed
           /\ p \in accepted => p \in accepted'

Moves(p) == Run(p) \/ Accept(p) \/ Refuse(p) \/ Dispatch(p) \/ Break(p)

\* A step of a program, or of the broker for it, leaves the others as they are.
LEMMA LeavesOthers ==
    ASSUME Typed, NEW p \in Programs, NEW q \in Programs, p # q, Moves(q)
    PROVE  Same(p)
<1> USE DEF Typed, Same, programs
<1>1. CASE connect(q)
  BY <1>1 DEF connect, GoesOn, GivesUp
<1>2. CASE write(q)
  BY <1>2 DEF write, GoesOn, GivesUp
<1>3. CASE await(q)
  BY <1>3 DEF await, GoesOn, GivesUp, Takes, TimesOut, Other
<1>4. CASE receive(q)
  BY <1>4 DEF receive, GoesOn, GivesUp, Takes, TimesOut, Prints
<1>5. CASE read(q)
  BY <1>5 DEF read, GoesOn, GivesUp, Takes, TimesOut, Prints
<1>6. CASE close(q)
  BY <1>6 DEF close, GoesOn, GivesUp
<1>7. CASE Accept(q)
  BY <1>7 DEF Accept, Deliver, Dispatched, Enqueued
<1>8. CASE Refuse(q)
  BY <1>8 DEF Refuse, Deliver
<1>9. CASE Dispatch(q)
  BY <1>9 DEF Dispatch, Deliver, Dispatched
<1>10. CASE Break(q)
  BY <1>10 DEF Break
<1> QED
  BY <1>1, <1>2, <1>3, <1>4, <1>5, <1>6, <1>7, <1>8, <1>9, <1>10 DEF Moves, Run

\* Nor does the message of another application touch any of them.
LEMMA PublishLeaves ==
    ASSUME NEW p \in Programs, NEW o \in Others, Publish(o)
    PROVE  Same(p)
BY DEF Publish, Enqueued, Same, programs


LEMMA InitTyped == Init => Typed
<1> SUFFICES ASSUME Init PROVE Typed
  OBVIOUS
<1>1. pc \in [Programs -> Nat] /\ \A p \in Programs : pc[p] \in 1 .. Len(Script(p))
  <2>1. pc = [p \in Programs |-> 1]
    BY DEF Init
  <2> QED
    BY <2>1, ScriptTypes
<1>2. /\ exit \in [Programs -> {"not started", "running", "success", "failure"}]
      /\ \A p \in Programs : exit[p] # "success"
  <2>1. exit = [p \in Programs |-> IF p \in cast THEN "running" ELSE "not started"]
    BY DEF Init
  <2> QED
    BY <2>1
<1>3. /\ toBroker \in [Programs -> Seq(Requests)]
      /\ inbox \in [Programs -> Seq(Frames)]
      /\ dispatched \in [Programs -> Seq(Senders)]
      /\ queue \in [Destinations -> Seq(accepted)]
  BY EmptySeq DEF Init
<1>4. /\ session \in [Programs -> {"none", "open", "closed"}]
      /\ printed \in [Programs -> Senders \cup {Nobody}]
      /\ subscribed \subseteq Programs /\ accepted \subseteq Senders
  BY DEF Init
<1> QED
  BY <1>1, <1>2, <1>3, <1>4 DEF InScript, Typed

LEMMA ProgramsKeepTypes ==
    ASSUME Typed, NEW p \in Programs, Run(p)
    PROVE  Typed'
<1>1. /\ exit[p] = "running" /\ pc[p] \in 1 .. Len(Script(p)) /\ Len(Script(p)) \in Nat
      /\ Script(p)[pc[p]] \in Steps
  BY ScriptTypes DEF Run, connect, write, await, receive, read, close, At, InScript, Typed
<1>2. ASSUME GoesOn(p) \/ GivesUp(p)
      PROVE  /\ pc' \in [Programs -> Nat]
             /\ exit' \in [Programs -> {"not started", "running", "success", "failure"}]
             /\ \A q \in Programs : InScript(q)'
  <2>1. CASE GoesOn(p)
    <3>1. PICK last \in Nat : last = Len(Script(p))
      BY <1>1
    <3>2. pc[p] \in 1 .. last
      BY <1>1, <3>1
    <3>3. /\ pc' = [pc EXCEPT ![p] = pc[p] + 1]
          /\ exit' = [exit EXCEPT ![p] = IF pc[p] = last THEN "success" ELSE "running"]
      BY <2>1, <3>1 DEF GoesOn
    <3>4. pc[p] + 1 \in Nat /\ (pc[p] # last => pc[p] + 1 \in 1 .. last)
      BY <3>2
    <3>5. /\ pc' \in [Programs -> Nat] /\ pc'[p] = pc[p] + 1
          /\ \A q \in Programs \ {p} : pc'[q] = pc[q]
      BY <3>3, <3>4 DEF Typed
    <3>6. /\ exit' \in [Programs -> {"not started", "running", "success", "failure"}]
          /\ exit'[p] # "success" => pc[p] # last
          /\ exit'[p] = "success" => pc[p] = last
          /\ \A q \in Programs \ {p} : exit'[q] = exit[q]
      BY <3>3 DEF Typed
    <3>7. InScript(p)'
      BY <3>1, <3>4, <3>5, <3>6 DEF InScript
    <3>8. ASSUME NEW q \in Programs \ {p} PROVE InScript(q)'
      BY <3>5, <3>6 DEF InScript, Typed
    <3> QED
      BY <3>5, <3>6, <3>7, <3>8
  <2>2. CASE GivesUp(p)
    BY <1>1, <2>2 DEF GivesUp, InScript, Typed
  <2> QED
    BY <1>2, <2>1, <2>2
<1>3. ASSUME inbox[p] # <<>>
      PROVE  /\ Head(inbox[p]).sender \in Senders \cup {Nobody}
             /\ Tail(inbox[p]) \in Seq(Frames)
  <2>1. Head(inbox[p]) \in Frames /\ Tail(inbox[p]) \in Seq(Frames)
    BY <1>3, HeadTailProperties DEF Typed
  <2> QED
    BY <2>1 DEF Replies, Frames
<1>4. CASE connect(p)
  BY <1>2, <1>4 DEF connect, Typed
<1>5. CASE write(p)
  <2> DEFINE request == [command |-> Command(p), receipt |-> Script(p)[pc[p]].receipt]
  <2>1. request \in Requests
    BY <1>1 DEF Command, Requests, Steps
  <2>2. Append(toBroker[p], request) \in Seq(Requests)
    BY <2>1, AppendProperties DEF Typed
  <2>3. toBroker' \in [Programs -> Seq(Requests)]
    BY <1>5, <2>2 DEF write, Typed
  <2> QED
    BY <1>2, <1>5, <2>3 DEF write, Typed
<1>6. CASE await(p)
  BY <1>2, <1>3, <1>6 DEF await, Takes, Other, TimesOut, Typed
<1>7. CASE receive(p)
  BY <1>2, <1>3, <1>7 DEF receive, Takes, TimesOut, Prints, Typed
<1>8. CASE read(p)
  <2>1. CASE inbox[p] # <<>> /\ Takes(p) /\ GoesOn(p) /\ Prints(p, Head(inbox[p]))
    <3>1. inbox' \in [Programs -> Seq(Frames)] /\ printed' \in [Programs -> Senders \cup {Nobody}]
      BY <1>3, <2>1 DEF Takes, Prints, Typed
    <3> QED
      BY <1>2, <1>8, <2>1, <3>1 DEF read, Typed
  <2>2. CASE TimesOut(p) /\ UNCHANGED <<inbox, printed>>
    BY <1>2, <1>8, <2>2 DEF read, TimesOut, Typed
  <2> QED
    BY <1>8, <2>1, <2>2 DEF read
<1>9. CASE close(p)
  BY <1>2, <1>9 DEF close, Typed
<1> QED
  BY <1>4, <1>5, <1>6, <1>7, <1>8, <1>9 DEF Run

\* The broker delivers frames and takes messages from a queue.
LEMMA FramesArrive ==
    ASSUME Typed, NEW p \in Programs, NEW frames \in Seq(Frames), Deliver(p, frames)
    PROVE  inbox' \in [Programs -> Seq(Frames)] /\ inbox'[p] = inbox[p] \o frames
<1>1. inbox[p] \o frames \in Seq(Frames)
  BY ConcatProperties DEF Typed
<1> QED
  BY <1>1 DEF Deliver, Typed

LEMMA MessageLeaves ==
    ASSUME Typed, NEW p \in Programs, Waiting(p) # <<>>
    PROVE  /\ Head(Waiting(p)) \in Senders
           /\ Message(Head(Waiting(p))) \in Frames
           /\ Dispatched(p) /\ UNCHANGED accepted =>
                 /\ queue' \in [Destinations -> Seq(accepted')]
                 /\ dispatched' \in [Programs -> Seq(Senders)]
                 /\ dispatched'[p] = Append(dispatched[p], Head(Waiting(p)))
<1>1. Destination(p) \in Destinations
  BY DEF Destination, Destinations
<1>2. Waiting(p) \in Seq(accepted)
  BY <1>1 DEF Waiting, Typed
<1>3. Head(Waiting(p)) \in Senders /\ Tail(Waiting(p)) \in Seq(accepted)
  BY <1>2, HeadTailProperties DEF Typed
<1>4. Append(dispatched[p], Head(Waiting(p))) \in Seq(Senders)
  BY <1>3, AppendProperties DEF Typed
<1> QED
  BY <1>1, <1>3, <1>4 DEF Dispatched, Waiting, Message, Frame, Replies, Frames, Typed

LEMMA MessageEnters ==
    ASSUME Typed, NEW sender \in Senders, NEW d \in Destinations, Enqueued(sender, d)
    PROVE  queue' \in [Destinations -> Seq(accepted')] /\ accepted' \subseteq Senders
<1>1. accepted' = accepted \cup {sender}
  BY DEF Enqueued
<1>2. \A e \in Destinations : queue[e] \in Seq(accepted')
  BY <1>1, SeqMonotonic DEF Typed
<1>3. Append(queue[d], sender) \in Seq(accepted')
  BY <1>1, <1>2, AppendProperties
<1> QED
  BY <1>1, <1>2, <1>3 DEF Enqueued, Typed

LEMMA ReceiptTypes ==
    ASSUME NEW request \in Requests
    PROVE  Receipt(request) \in Seq(Frames)
<1>1. Reply("CONNECTED") \in Frames /\ Reply("RECEIPT") \in Frames
  BY DEF Reply, Frame, Replies, Frames
<1> QED
  BY <1>1 DEF Receipt

LEMMA BrokerKeepsTypes ==
    ASSUME Typed, NEW p \in Programs, Accept(p) \/ Refuse(p) \/ Dispatch(p) \/ Break(p)
    PROVE  Typed'
<1>1. CASE Accept(p)
  <2> DEFINE request == Head(toBroker[p])
  <2>1. request \in Requests /\ Tail(toBroker[p]) \in Seq(Requests)
    BY <1>1, HeadTailProperties DEF Accept, Typed
  <2>2. Receipt(request) \in Seq(Frames)
    BY <2>1, ReceiptTypes
  <2>3. toBroker' \in [Programs -> Seq(Requests)] /\ UNCHANGED <<pc, exit, printed>>
    BY <1>1, <2>1 DEF Accept, programs, Typed
  <2>4. session' \in [Programs -> {"none", "open", "closed"}] /\ subscribed' \subseteq Programs
    BY <1>1 DEF Accept, Typed
  <2>5. CASE /\ Deliver(p, Receipt(request))
             /\ IF request.command = "SEND" THEN Enqueued(p, Destination(p))
                                            ELSE UNCHANGED <<queue, accepted>>
             /\ UNCHANGED dispatched
    <3>1. inbox' \in [Programs -> Seq(Frames)]
      BY <2>2, <2>5, FramesArrive
    <3>2. p \in Senders /\ Destination(p) \in Destinations
      BY DEF Senders, Destination, Destinations
    <3>3. queue' \in [Destinations -> Seq(accepted')] /\ accepted' \subseteq Senders
      BY <2>5, <3>2, MessageEnters DEF Typed
    <3> QED
      BY <2>3, <2>4, <2>5, <3>1, <3>3 DEF InScript, Typed
  <2>6. CASE /\ Waiting(p) # <<>>
             /\ Deliver(p, <<Message(Head(Waiting(p)))>> \o Receipt(request))
             /\ Dispatched(p)
             /\ UNCHANGED accepted
    <3>1. Message(Head(Waiting(p))) \in Frames
      BY <2>6, MessageLeaves
    <3>2. <<Message(Head(Waiting(p)))>> \o Receipt(request) \in Seq(Frames)
      BY <3>1, <2>2, ConcatProperties
    <3>3. inbox' \in [Programs -> Seq(Frames)]
      BY <2>6, <3>2, FramesArrive
    <3>4. queue' \in [Destinations -> Seq(accepted')] /\ dispatched' \in [Programs -> Seq(Senders)]
      BY <2>6, MessageLeaves
    <3> QED
      BY <2>3, <2>4, <2>6, <3>3, <3>4 DEF InScript, Typed
  <2> QED
    BY <1>1, <2>5, <2>6 DEF Accept
<1>2. CASE Refuse(p)
  <2>1. <<Reply("ERROR")>> \in Seq(Frames)
    BY DEF Reply, Frame, Replies, Frames
  <2>2. inbox' \in [Programs -> Seq(Frames)]
    BY <1>2, <2>1, FramesArrive DEF Refuse
  <2> QED
    BY <1>2, <2>2 DEF Refuse, programs, InScript, Typed
<1>3. CASE Dispatch(p)
  <2>1. <<Message(Head(Waiting(p)))>> \in Seq(Frames)
    BY <1>3, MessageLeaves DEF Dispatch
  <2>2. inbox' \in [Programs -> Seq(Frames)]
    BY <1>3, <2>1, FramesArrive DEF Dispatch
  <2>3. queue' \in [Destinations -> Seq(accepted')] /\ dispatched' \in [Programs -> Seq(Senders)]
    BY <1>3, MessageLeaves DEF Dispatch
  <2> QED
    BY <1>3, <2>2, <2>3 DEF Dispatch, programs, InScript, Typed
<1>4. CASE Break(p)
  BY <1>4 DEF Break, programs, InScript, Typed
<1> QED
  BY <1>1, <1>2, <1>3, <1>4

LEMMA NextTyped == Typed /\ [Next]_vars => Typed'
<1> SUFFICES ASSUME Typed, [Next]_vars PROVE Typed'
  OBVIOUS
<1>1. ASSUME NEW p \in Programs, Moves(p) PROVE Typed'
  BY <1>1, ProgramsKeepTypes, BrokerKeepsTypes DEF Moves
<1>2. ASSUME NEW o \in Others, Publish(o) PROVE Typed'
  <2>1. o \in Senders
    BY DEF Senders
  <2>2. queue' \in [Destinations -> Seq(accepted')] /\ accepted' \subseteq Senders
    BY <1>2, <2>1, MessageEnters DEF Publish
  <2> QED
    BY <1>2, <2>2 DEF Publish, programs, InScript, Typed
<1>3. CASE UNCHANGED vars
  BY <1>3 DEF vars, programs, InScript, Typed
<1> QED
  BY <1>1, <1>2, <1>3 DEF Next, Moves

\* What was not started takes no part.
Absent == \A p \in Programs \ cast :
             exit[p] = "not started" /\ session[p] = "none" /\ p \notin accepted

LEMMA NextAbsent == Absent /\ Typed /\ [Next]_vars => Absent'
<1> SUFFICES ASSUME Absent, Typed, [Next]_vars, NEW p \in Programs, p \notin cast'
             PROVE  exit'[p] = "not started" /\ session'[p] = "none" /\ p \notin accepted'
  BY DEF Absent
<1>1. CASE UNCHANGED vars
  BY <1>1 DEF vars, programs, Absent
<1>2. ASSUME NEW o \in Others, Publish(o)
      PROVE  exit'[p] = "not started" /\ session'[p] = "none" /\ p \notin accepted'
  BY <1>2, OthersAssumption DEF Publish, Enqueued, programs, Absent
<1>3. ASSUME NEW q \in Programs, Moves(q)
      PROVE  exit'[p] = "not started" /\ session'[p] = "none" /\ p \notin accepted'
  <2>1. cast' = cast /\ accepted' \subseteq accepted \cup {q}
    BY <1>3 DEF Moves, Run, connect, write, await, receive, read, close, Accept, Refuse,
                Dispatch, Break, Enqueued, programs
  <2>2. exit[p] = "not started" /\ session[p] = "none" /\ p \notin accepted
    BY <2>1 DEF Absent
  <2>3. q # p
    <3>1. Moves(q) => exit[q] = "running" \/ session[q] = "open"
      BY DEF Moves, Run, connect, write, await, receive, read, close, At, Accept, Refuse,
             Dispatch, Break
    <3> QED
      BY <1>3, <2>2, <3>1
  <2>4. Same(p)
    BY <1>3, <2>3, LeavesOthers
  <2> QED
    BY <2>1, <2>2, <2>3, <2>4 DEF Same
<1> QED
  BY <1>1, <1>2, <1>3 DEF Next, Moves

LEMMA TypesFollow == Typed /\ Absent => TypeOK
<1> SUFFICES ASSUME Typed, Absent PROVE TypeOK
  OBVIOUS
<1>1. ASSUME NEW p \in Programs
      PROVE  /\ pc[p] \in 1 .. Len(Script(p)) + 1
             /\ IF pc[p] > Len(Script(p)) THEN exit[p] = "success"
                                         ELSE exit[p] # "success"
  <2>1. PICK last \in Nat : last = Len(Script(p))
    BY ScriptTypes
  <2>2. /\ exit[p] # "success" => pc[p] \in 1 .. last
        /\ exit[p] = "success" => pc[p] = last + 1
    BY <2>1 DEF Typed, InScript
  <2>3. CASE exit[p] = "success"
    BY <2>1, <2>2, <2>3
  <2>4. CASE exit[p] # "success"
    <3>1. pc[p] \in 1 .. last + 1 /\ ~(pc[p] > last)
      BY <2>2, <2>4
    <3> QED
      BY <2>1, <2>4, <3>1
  <2> QED
    BY <2>3, <2>4
<1>2. \A p \in Programs : \A n \in DOMAIN inbox[p] :
         inbox[p][n].command \in {"CONNECTED", "RECEIPT", "MESSAGE", "ERROR"}
  <2> SUFFICES ASSUME NEW p \in Programs, NEW n \in DOMAIN inbox[p]
               PROVE  inbox[p][n] \in Frames
    BY DEF Replies, Frames
  <2>1. inbox[p] \in Seq(Frames)
    BY DEF Typed
  <2> QED
    BY <2>1, LenProperties, ElementOfSeq
<1>3. \A d \in Destinations : queue[d] \in Seq(accepted)
  BY DEF Typed
<1> QED
  BY <1>1, <1>2, <1>3 DEF TypeOK, Typed, Absent

\* The types, for every set of programs and whatever is started of them: among them that
\* exactly a program at the end of its calls has exited with success (the exit statuses of
\* the example programs).
THEOREM ProgramsTypeCorrect == Spec => []TypeOK
<1>1. Init => Typed /\ Absent
  BY InitTyped DEF Init, Absent
<1>2. (Typed /\ Absent) /\ [Next]_vars => (Typed /\ Absent)'
  BY NextTyped, NextAbsent
<1> QED
  BY <1>1, <1>2, TypesFollow, PTL DEF Spec

-----------------------------------------------------------------------------
(* The client of the messenger *)

Request(command, receipt) == [command |-> command, receipt |-> receipt]
Harmless == {request \in Requests : request.command # "SUBSCRIBE"}

\* A request the client waits for the reply to: on its way, refused or answered.
Outstanding(p, request, reply) ==
    \/ toBroker[p] = <<request>> /\ inbox[p] = <<>>
    \/ toBroker[p] = <<request>> /\ inbox[p] = <<Reply("ERROR")>> /\ session[p] = "closed"
    \/ toBroker[p] = <<>> /\ inbox[p] = <<Reply(reply)>>

Conversation(p) ==
    /\ pc[p] \in {1, 2, 4, 6, 8} => toBroker[p] = <<>> /\ inbox[p] = <<>>
    /\ pc[p] = 3 => Outstanding(p, Request("CONNECT", FALSE), "CONNECTED")
    /\ pc[p] = 5 => /\ Outstanding(p, Request("SEND", TRUE), "RECEIPT")
                    /\ toBroker[p] = <<>> => p \in accepted
    /\ pc[p] = 7 => Outstanding(p, Request("DISCONNECT", TRUE), "RECEIPT")
    /\ pc[p] \in {6, 7, 8} => p \in accepted

\* A client has no subscription; while nothing has failed what is on its way is known.
Sends(p) == /\ p \notin subscribed
            /\ toBroker[p] \in Seq(Harmless)
            /\ exit[p] \in {"running", "success"} => Conversation(p)

LEMMA StepFields ==
    /\ Connect.does = "connect"
    /\ \A c : /\ Write(c).does = "write" /\ Write(c).command = c
              /\ Write(c).receipt = FALSE
    /\ \A c : /\ WriteWithReceipt(c).does = "write" /\ WriteWithReceipt(c).command = c
              /\ WriteWithReceipt(c).receipt = TRUE
    /\ \A c : Await(c).does = "await" /\ Await(c).command = c
    /\ Receive.does = "receive" /\ Read.does = "read" /\ Close.does = "close"
BY DEF Step, Connect, Write, WriteWithReceipt, Await, Receive, Read, Close

LEMMA ClientPlaces ==
    ASSUME Typed, NEW p \in Clients, exit[p] = "running"
    PROVE  /\ p \in Programs
           /\ pc[p] \in 1 .. 7
           /\ At(p, "connect") => pc[p] = 1
           /\ At(p, "write") => pc[p] \in {2, 4, 6}
           /\ At(p, "await") => pc[p] \in {3, 5, 7}
           /\ ~At(p, "receive") /\ ~At(p, "read") /\ ~At(p, "close")
           /\ pc[p] = 2 => /\ Command(p) = "CONNECT"
                           /\ Script(p)[pc[p]].receipt = FALSE
           /\ pc[p] = 3 => Command(p) = "CONNECTED"
           /\ pc[p] = 4 => /\ Command(p) = "SEND"
                           /\ Script(p)[pc[p]].receipt = TRUE
           /\ pc[p] = 5 => Command(p) = "RECEIPT"
           /\ pc[p] = 6 => /\ Command(p) = "DISCONNECT"
                           /\ Script(p)[pc[p]].receipt = TRUE
           /\ pc[p] = 7 => Command(p) = "RECEIPT"
<1>1. /\ p \in Programs
      /\ pc[p] \in 1 .. 7
  BY ClientScript DEF Typed, InScript
<1>2. \/ pc[p] = 1 \/ pc[p] = 2 \/ pc[p] = 3 \/ pc[p] = 4 \/ pc[p] = 5 \/ pc[p] = 6 \/ pc[p] = 7
  BY <1>1
<1>3. /\ pc[p] = 1 => Script(p)[pc[p]] = Connect
      /\ pc[p] = 2 => Script(p)[pc[p]] = Write("CONNECT")
      /\ pc[p] = 3 => Script(p)[pc[p]] = Await("CONNECTED")
      /\ pc[p] = 4 => Script(p)[pc[p]] = WriteWithReceipt("SEND")
      /\ pc[p] = 5 => Script(p)[pc[p]] = Await("RECEIPT")
      /\ pc[p] = 6 => Script(p)[pc[p]] = WriteWithReceipt("DISCONNECT")
      /\ pc[p] = 7 => Script(p)[pc[p]] = Await("RECEIPT")
  BY ClientScript
<1> DEFINE step == Script(p)[pc[p]]
<1>4. /\ pc[p] = 1 => step.does = "connect"
      /\ pc[p] = 2 => step.does = "write" /\ step.command = "CONNECT" /\ step.receipt = FALSE
      /\ pc[p] = 3 => step.does = "await" /\ step.command = "CONNECTED"
      /\ pc[p] = 4 => step.does = "write" /\ step.command = "SEND" /\ step.receipt = TRUE
      /\ pc[p] = 5 => step.does = "await" /\ step.command = "RECEIPT"
      /\ pc[p] = 6 => step.does = "write" /\ step.command = "DISCONNECT" /\ step.receipt = TRUE
      /\ pc[p] = 7 => step.does = "await" /\ step.command = "RECEIPT"
  BY <1>3, StepFields
<1> HIDE DEF step
<1>5. Command(p) = step.command /\ \A does : At(p, does) => step.does = does
  BY DEF Command, At, step
<1>6. ~At(p, "receive") /\ ~At(p, "read") /\ ~At(p, "close")
  BY <1>2, <1>4, <1>5
<1>7. /\ At(p, "connect") => pc[p] = 1
      /\ At(p, "write") => pc[p] \in {2, 4, 6}
      /\ At(p, "await") => pc[p] \in {3, 5, 7}
  BY <1>2, <1>4, <1>5
<1> QED
  BY <1>1, <1>4, <1>5, <1>6, <1>7 DEF step

LEMMA FirstOf == \A e : Append(<<>>, e) = <<e>> /\ Len(<<e>>) = 1 /\ Tail(<<e>>) = <<>>
OBVIOUS

LEMMA ClientGoesOn ==
    ASSUME Typed, NEW p \in Clients, exit[p] = "running", GoesOn(p)
    PROVE  pc'[p] = pc[p] + 1
BY ClientPlaces DEF GoesOn, Typed

LEMMA GivingUpEnds ==
    ASSUME Typed, NEW p \in Programs, GivesUp(p)
    PROVE  exit'[p] = "failure"
BY DEF GivesUp, Typed

LEMMA ClientRuns ==
    ASSUME Typed, NEW p \in Clients, Sends(p), Run(p)
    PROVE  Sends(p)'
<1>1. p \in Programs /\ exit[p] = "running" /\ Conversation(p)
  BY ClientScript DEF Run, connect, write, await, receive, read, close, At, Sends
<1>2. connect(p) \/ write(p) \/ await(p)
  BY <1>1, ClientPlaces DEF Run, receive, read, close
<1>3. UNCHANGED <<subscribed, accepted>>
  BY <1>2 DEF connect, write, await
<1>4. CASE connect(p)
  <2>1. pc[p] = 1 /\ UNCHANGED <<toBroker, inbox>>
    BY <1>1, <1>4, ClientPlaces DEF connect
  <2>2. CASE GoesOn(p)
    <3>1. pc'[p] = 2
      BY <1>1, <2>1, <2>2, ClientGoesOn
    <3> QED
      BY <1>1, <1>3, <2>1, <3>1 DEF Sends, Conversation
  <2>3. CASE GivesUp(p)
    BY <1>1, <1>3, <2>1, <2>3, GivingUpEnds DEF Sends
  <2> QED
    BY <1>4, <2>2, <2>3 DEF connect
<1>5. CASE write(p)
  <2> DEFINE request == [command |-> Command(p), receipt |-> Script(p)[pc[p]].receipt]
  <2>1. pc[p] \in {2, 4, 6} /\ UNCHANGED <<inbox, session>>
    BY <1>1, <1>5, ClientPlaces DEF write
  <2>2. /\ pc[p] = 2 => request = Request("CONNECT", FALSE)
        /\ pc[p] = 4 => request = Request("SEND", TRUE)
        /\ pc[p] = 6 => request = Request("DISCONNECT", TRUE)
    BY <1>1, ClientPlaces DEF Request
  <2>3. request \in Harmless
    BY <2>1, <2>2 DEF Request, Harmless, Requests, Commands
  <2>4. toBroker[p] = <<>> /\ inbox[p] = <<>> /\ (pc[p] = 6 => p \in accepted)
    BY <1>1, <2>1 DEF Conversation
  <2>5. toBroker'[p] = <<>> \/ toBroker'[p] = <<request>>
    <3>1. toBroker'[p] = toBroker[p] \/ toBroker'[p] = Append(toBroker[p], request)
      BY <1>1, <1>5 DEF write, Typed
    <3> QED
      BY <2>4, <3>1, FirstOf
  <2>6. toBroker'[p] \in Seq(Harmless)
    <3>1. <<>> \in Seq(Harmless) /\ <<request>> \in Seq(Harmless)
      BY <2>3
    <3> QED
      BY <2>5, <3>1
  <2>7. CASE GoesOn(p) /\ toBroker' = [toBroker EXCEPT ![p] = Append(@, request)]
    <3>1. toBroker'[p] = <<request>> /\ inbox'[p] = <<>>
      <4>1. toBroker'[p] = Append(toBroker[p], request)
        BY <1>1, <2>7 DEF Typed
      <4> QED
        BY <2>1, <2>4, <4>1, FirstOf
    <3>2. pc'[p] = pc[p] + 1
      BY <1>1, <2>7, ClientGoesOn
    <3>3. CASE pc[p] = 2
      <4>1. Conversation(p)'
        BY <1>3, <2>2, <3>1, <3>2, <3>3 DEF Conversation, Outstanding
      <4> QED
        BY <1>1, <1>3, <2>6, <4>1 DEF Sends
    <3>4. CASE pc[p] = 4
      <4>1. Conversation(p)'
        BY <1>3, <2>2, <3>1, <3>2, <3>4 DEF Conversation, Outstanding
      <4> QED
        BY <1>1, <1>3, <2>6, <4>1 DEF Sends
    <3>5. CASE pc[p] = 6
      <4>1. Conversation(p)'
        BY <1>3, <2>2, <2>4, <3>1, <3>2, <3>5 DEF Conversation, Outstanding
      <4> QED
        BY <1>1, <1>3, <2>6, <4>1 DEF Sends
    <3> QED
      BY <2>1, <3>3, <3>4, <3>5
  <2>8. CASE GivesUp(p)
    BY <1>1, <1>3, <2>6, <2>8, GivingUpEnds DEF Sends
  <2> QED
    BY <1>5, <2>7, <2>8 DEF write
<1>6. CASE await(p)
  <2>1. pc[p] \in {3, 5, 7} /\ UNCHANGED <<toBroker, session>>
    BY <1>1, <1>6, ClientPlaces DEF await
  <2>2. CASE inbox[p] # <<>> /\ Takes(p) /\ Head(inbox[p]).command = Command(p) /\ GoesOn(p)
    <3>1. Command(p) # "ERROR"
      BY <1>1, <2>1, ClientPlaces
    <3>2. toBroker[p] = <<>> /\ Tail(inbox[p]) = <<>> /\ (pc[p] \in {5, 7} => p \in accepted)
      <4>1. inbox[p] # <<Reply("ERROR")>>
        BY <2>2, <3>1 DEF Reply, Frame
      <4>2. \E reply \in {"CONNECTED", "RECEIPT"} :
               toBroker[p] = <<>> /\ inbox[p] = <<Reply(reply)>>
        BY <1>1, <2>1, <2>2, <4>1 DEF Conversation, Outstanding
      <4> QED
        BY <1>1, <2>1, <4>2, FirstOf DEF Conversation
    <3>3. toBroker'[p] = <<>> /\ inbox'[p] = <<>>
      BY <1>1, <2>1, <2>2, <3>2 DEF Takes, Typed
    <3>4. pc'[p] = pc[p] + 1
      BY <1>1, <2>2, ClientGoesOn
    <3>5. pc'[p] = 4 \/ (pc'[p] \in {6, 8} /\ p \in accepted)
      BY <2>1, <3>2, <3>4
    <3> QED
      <4>1. Conversation(p)'
        BY <1>3, <3>3, <3>5 DEF Conversation, Outstanding
      <4> QED
        BY <1>1, <1>3, <2>1, <4>1 DEF Sends
  <2>3. CASE GivesUp(p)
    BY <1>1, <1>3, <2>1, <2>3, GivingUpEnds DEF Sends
  <2> QED
    BY <1>6, <2>2, <2>3 DEF await, Other, TimesOut
<1> QED
  BY <1>2, <1>4, <1>5, <1>6

LEMMA ClientAtSomePlace ==
    ASSUME Typed, NEW p \in Clients, exit[p] \in {"running", "success"}
    PROVE  pc[p] \in {1, 2, 3, 4, 5, 6, 7, 8}
<1>1. pc[p] \in 1 .. 7 \/ pc[p] = 7 + 1
  BY ClientScript DEF Typed, InScript
<1> QED
  BY <1>1

LEMMA ClientIsAnswered ==
    ASSUME Typed, NEW p \in Clients, Sends(p), Accept(p)
    PROVE  Sends(p)'
<1> DEFINE request == Head(toBroker[p])
<1>1. p \in Programs /\ session[p] = "open" /\ toBroker[p] # <<>>
  BY ClientScript DEF Accept
<1>2. request \in Harmless /\ Tail(toBroker[p]) \in Seq(Harmless)
  BY <1>1, HeadTailProperties DEF Sends
<1>3. request.command # "SUBSCRIBE"
  BY <1>2 DEF Harmless
<1>4. /\ toBroker'[p] = Tail(toBroker[p]) /\ inbox'[p] = inbox[p] \o Receipt(request)
      /\ request.command = "SEND" => p \in accepted'
      /\ p \in accepted => p \in accepted'
      /\ UNCHANGED <<pc, exit, subscribed>>
  BY <1>1, <1>3 DEF Accept, Deliver, Enqueued, programs, Typed
<1> HIDE DEF request
<1>5. ASSUME exit[p] \in {"running", "success"} PROVE Conversation(p)'
  <2>1. pc[p] \in {3, 5, 7} /\ Conversation(p)
    BY <1>1, <1>5, ClientAtSomePlace DEF Sends, Conversation
  <2>2. inbox[p] = <<>>
    BY <1>1, <2>1 DEF Conversation, Outstanding
  <2>3. inbox'[p] = Receipt(request)
    BY <1>4, <2>2, <1>2, ReceiptTypes, ConcatEmptySeq DEF Harmless
  <2>4. ASSUME NEW r, toBroker[p] = <<r>>
        PROVE  request = r /\ toBroker'[p] = <<>>
    BY <1>4, <2>4 DEF request
  <2>5. CASE pc[p] = 3
    <3>1. request = Request("CONNECT", FALSE) /\ toBroker'[p] = <<>>
      BY <1>1, <2>1, <2>4, <2>5 DEF Conversation, Outstanding
    <3>2. request.command = "CONNECT" /\ request.receipt = FALSE
      BY <3>1 DEF Request
    <3>3. inbox'[p] = <<Reply("CONNECTED")>>
      BY <2>3, <3>2 DEF Receipt
    <3>4. pc'[p] = 3
      BY <1>4, <2>5
    <3> QED
      BY <3>1, <3>3, <3>4 DEF Conversation, Outstanding
  <2>6. CASE pc[p] = 5
    <3>1. request = Request("SEND", TRUE) /\ toBroker'[p] = <<>>
      BY <1>1, <2>1, <2>4, <2>6 DEF Conversation, Outstanding
    <3>2. request.command = "SEND" /\ request.receipt = TRUE
      BY <3>1 DEF Request
    <3>3. inbox'[p] = <<Reply("RECEIPT")>>
      BY <2>3, <3>2 DEF Receipt
    <3>4. pc'[p] = 5
      BY <1>4, <2>6
    <3>5. p \in accepted'
      BY <1>4, <3>2
    <3> QED
      BY <3>1, <3>3, <3>4, <3>5 DEF Conversation, Outstanding
  <2>7. CASE pc[p] = 7
    <3>1. request = Request("DISCONNECT", TRUE) /\ toBroker'[p] = <<>>
      BY <1>1, <2>1, <2>4, <2>7 DEF Conversation, Outstanding
    <3>2. request.command = "DISCONNECT" /\ request.receipt = TRUE
      BY <3>1 DEF Request
    <3>3. inbox'[p] = <<Reply("RECEIPT")>>
      BY <2>3, <3>2 DEF Receipt
    <3>4. pc'[p] = 7
      BY <1>4, <2>7
    <3>5. p \in accepted'
      BY <1>4, <2>1, <2>7 DEF Conversation
    <3> QED
      BY <3>1, <3>3, <3>4, <3>5 DEF Conversation, Outstanding
  <2> QED
    BY <2>1, <2>5, <2>6, <2>7
<1> QED
  BY <1>2, <1>4, <1>5 DEF Sends

LEMMA ClientIsRefused ==
    ASSUME Typed, NEW p \in Clients, Sends(p), Refuse(p)
    PROVE  Sends(p)'
<1>1. /\ p \in Programs /\ session[p] = "open" /\ toBroker[p] # <<>>
      /\ UNCHANGED <<pc, exit, subscribed, toBroker, accepted>>
  BY ClientScript DEF Refuse, programs
<1>2. session'[p] = "closed" /\ inbox'[p] = inbox[p] \o <<Reply("ERROR")>>
  BY <1>1 DEF Refuse, Deliver, Typed
<1>3. ASSUME exit[p] \in {"running", "success"} PROVE Conversation(p)'
  <2>1. pc[p] \in {3, 5, 7} /\ Conversation(p)
    BY <1>1, <1>3, ClientAtSomePlace DEF Sends, Conversation
  <2>2. inbox[p] = <<>>
    BY <1>1, <2>1 DEF Conversation, Outstanding
  <2>3. inbox'[p] = <<Reply("ERROR")>>
    BY <1>2, <2>2, ConcatEmptySeq
  <2>4. CASE pc[p] = 3
    BY <1>1, <1>2, <2>1, <2>3, <2>4 DEF Conversation, Outstanding
  <2>5. CASE pc[p] = 5
    BY <1>1, <1>2, <2>1, <2>3, <2>5 DEF Conversation, Outstanding
  <2>6. CASE pc[p] = 7
    BY <1>1, <1>2, <2>1, <2>3, <2>6 DEF Conversation, Outstanding
  <2> QED
    BY <2>1, <2>4, <2>5, <2>6
<1> QED
  BY <1>1, <1>3 DEF Sends

LEMMA ClientIsCutOff ==
    ASSUME Typed, NEW p \in Clients, Sends(p), Break(p)
    PROVE  Sends(p)'
<1>1. /\ p \in Programs /\ session[p] = "open" /\ session'[p] = "closed"
      /\ UNCHANGED <<pc, exit, subscribed, toBroker, inbox, accepted>>
  BY ClientScript DEF Break, programs, Typed
<1>2. ASSUME Conversation(p) PROVE Conversation(p)'
  BY <1>1, <1>2 DEF Conversation, Outstanding
<1> QED
  BY <1>1, <1>2 DEF Sends

LEMMA ClientIsLeftAlone ==
    ASSUME NEW p \in Clients, Sends(p), Same(p)
    PROVE  Sends(p)'
<1>1. ASSUME Conversation(p) PROVE Conversation(p)'
  BY <1>1 DEF Conversation, Outstanding, Same
<1> QED
  BY <1>1 DEF Sends, Same

AllSend == \A p \in Clients : Sends(p)

LEMMA NextAllSend == AllSend /\ Typed /\ [Next]_vars => AllSend'
<1> SUFFICES ASSUME AllSend, Typed, [Next]_vars, NEW p \in Clients PROVE Sends(p)'
  BY DEF AllSend
<1>1. p \in Programs /\ Sends(p)
  BY ClientScript DEF AllSend
<1>2. CASE UNCHANGED vars
  BY <1>1, <1>2, ClientIsLeftAlone DEF vars, programs, Same
<1>3. ASSUME NEW o \in Others, Publish(o) PROVE Sends(p)'
  BY <1>1, <1>3, PublishLeaves, ClientIsLeftAlone
<1>4. ASSUME NEW q \in Programs, q # p, Moves(q) PROVE Sends(p)'
  BY <1>1, <1>4, LeavesOthers, ClientIsLeftAlone
<1>5. CASE Moves(p)
  <2>1. ~Dispatch(p)
    BY <1>1 DEF Dispatch, Sends
  <2> QED
    BY <1>1, <1>5, <2>1, ClientRuns, ClientIsAnswered, ClientIsRefused, ClientIsCutOff
    DEF Moves
<1> QED
  BY <1>2, <1>3, <1>4, <1>5 DEF Next, Moves

\* However many programs run, and whatever the broker and the network do to them:
\* when messenger/client.c exits with EXIT_SUCCESS the broker has its message, and
\* nothing of the conversation is left over on either side.
THEOREM ClientSuccess == Spec => []SuccessMeansSent
<1>1. Init => Typed /\ AllSend
  <2> SUFFICES ASSUME Init, NEW p \in Clients PROVE Sends(p)
    BY InitTyped DEF AllSend
  <2>1. /\ p \in Programs /\ p \notin subscribed
        /\ pc[p] = 1 /\ toBroker[p] = <<>> /\ inbox[p] = <<>>
    BY ClientScript DEF Init
  <2> QED
    BY <2>1 DEF Sends, Conversation
<1>2. (Typed /\ AllSend) /\ [Next]_vars => (Typed /\ AllSend)'
  BY NextTyped, NextAllSend
<1>3. Typed /\ AllSend => SuccessMeansSent
  <2> SUFFICES ASSUME Typed, AllSend, NEW p \in Clients, exit[p] = "success"
               PROVE  p \in accepted /\ toBroker[p] = <<>> /\ inbox[p] = <<>>
    BY DEF SuccessMeansSent
  <2>1. pc[p] = 7 + 1 /\ Conversation(p)
    BY ClientScript DEF Typed, InScript, AllSend, Sends
  <2>2. pc[p] = 8
    BY <2>1
  <2> QED
    BY <2>1, <2>2 DEF Conversation
<1> QED
  BY <1>1, <1>2, <1>3, PTL DEF Spec

-----------------------------------------------------------------------------
(* The servers *)

\* The first message on its way to a program is the first that was sent to it.
FirstIsNext(p) ==
    \/ dispatched[p] = <<>> /\ inbox[p] \in Seq(Replies)
    \/ /\ dispatched[p] # <<>>
       /\ \E n \in 1 .. Len(inbox[p]) :
             /\ inbox[p][n] = Message(Head(dispatched[p]))
             /\ \A m \in 1 .. n - 1 : inbox[p][m] \in Replies

LEMMA RepliesAreNoMessages ==
    /\ \A reply \in Replies : reply.command # "MESSAGE" /\ reply.sender = Nobody
    /\ \A sender : Message(sender).command = "MESSAGE" /\ Message(sender).sender = sender
    /\ \A sender : Message(sender) \notin Replies
    /\ \A frame \in Frames : frame.command # "MESSAGE" => frame \in Replies
<1>1. \A sender : Message(sender).command = "MESSAGE" /\ Message(sender).sender = sender
  BY DEF Message, Frame
<1>2. \A reply \in Replies : reply.command # "MESSAGE" /\ reply.sender = Nobody
  BY DEF Replies
<1>3. \A frame \in Frames : frame.command # "MESSAGE" => frame \in Replies
  BY DEF Frames
<1> QED
  BY <1>1, <1>2, <1>3

LEMMA ReceiptsAreReplies ==
    /\ \A request : Receipt(request) \in Seq(Replies)
    /\ <<Reply("ERROR")>> \in Seq(Replies)
<1>1. Reply("CONNECTED") \in Replies /\ Reply("RECEIPT") \in Replies /\ Reply("ERROR") \in Replies
  BY DEF Reply, Frame, Replies
<1> QED
  BY <1>1 DEF Receipt

\* What comes stands behind what was there.
LEMMA Behind ==
    ASSUME NEW S, NEW s \in Seq(S), NEW t \in Seq(S), t # <<>>
    PROVE  /\ Len(s) + 1 \in 1 .. Len(s \o t) /\ (s \o t)[Len(s) + 1] = t[1]
           /\ \A m \in 1 .. Len(s) : m \in 1 .. Len(s \o t) /\ (s \o t)[m] = s[m]
           /\ Len(s) \in Nat
<1>1. /\ Len(s) \in Nat /\ Len(t) \in Nat /\ Len(t) >= 1
      /\ Len(s \o t) = Len(s) + Len(t)
  BY LenProperties, EmptySeq, ConcatProperties
<1>2. \A m \in 1 .. Len(s) + Len(t) :
         (s \o t)[m] = IF m <= Len(s) THEN s[m] ELSE t[m - Len(s)]
  BY ConcatProperties
<1>3. \A m \in 1 .. Len(s) : m \in 1 .. Len(s) + Len(t) /\ m <= Len(s)
  BY <1>1
<1>4. /\ Len(s) + 1 \in 1 .. Len(s) + Len(t)
      /\ ~(Len(s) + 1 <= Len(s)) /\ (Len(s) + 1) - Len(s) = 1
  BY <1>1
<1> QED
  BY <1>1, <1>2, <1>3, <1>4

\* Replies that come leave the first message where it is.
LEMMA RepliesArrive ==
    ASSUME Typed, NEW p \in Programs, NEW frames \in Seq(Replies),
           inbox'[p] = inbox[p] \o frames, dispatched'[p] = dispatched[p], FirstIsNext(p)
    PROVE  FirstIsNext(p)'
<1>1. CASE dispatched[p] = <<>> /\ inbox[p] \in Seq(Replies)
  <2>1. inbox'[p] \in Seq(Replies)
    BY <1>1, ConcatProperties
  <2> QED
    BY <1>1, <2>1 DEF FirstIsNext
<1>2. CASE dispatched[p] # <<>>
  <2>1. PICK n \in 1 .. Len(inbox[p]) :
           /\ inbox[p][n] = Message(Head(dispatched[p]))
           /\ \A m \in 1 .. n - 1 : inbox[p][m] \in Replies
    BY <1>2 DEF FirstIsNext
  <2>2. inbox[p] \in Seq(Frames) /\ frames \in Seq(Frames)
    <3>1. Replies \subseteq Frames
      BY DEF Frames
    <3> QED
      BY <3>1, SeqMonotonic DEF Typed
  <2>3. /\ Len(inbox'[p]) = Len(inbox[p]) + Len(frames)
        /\ \A m \in 1 .. Len(inbox[p]) : inbox'[p][m] = inbox[p][m]
        /\ Len(inbox[p]) \in Nat /\ Len(frames) \in Nat
    BY <2>2, ConcatProperties, LenProperties
  <2>4. n \in 1 .. Len(inbox'[p]) /\ \A m \in 1 .. n - 1 : m \in 1 .. Len(inbox[p])
    BY <2>1, <2>3
  <2> QED
    BY <1>2, <2>1, <2>3, <2>4 DEF FirstIsNext
<1> QED
  BY <1>1, <1>2 DEF FirstIsNext

\* So does a message that follows it; and a message that nothing was sent before is the first.
LEMMA MessageArrives ==
    ASSUME Typed, NEW p \in Programs, NEW sender \in Senders, NEW frames \in Seq(Replies),
           inbox'[p] = inbox[p] \o (<<Message(sender)>> \o frames),
           dispatched'[p] = Append(dispatched[p], sender), FirstIsNext(p)
    PROVE  FirstIsNext(p)'
<1>1. Message(sender) \in Frames /\ Replies \subseteq Frames
  BY DEF Message, Frame, Frames
<1>2. <<Message(sender)>> \in Seq(Frames) /\ frames \in Seq(Frames)
  BY <1>1, SeqMonotonic
<1> DEFINE new == <<Message(sender)>> \o frames
<1>3. new \in Seq(Frames) /\ Len(new) = 1 + Len(frames) /\ new[1] = Message(sender)
  BY <1>2, ConcatProperties, LenProperties
<1>4. /\ Len(inbox[p]) \in Nat
      /\ Len(inbox[p]) + 1 \in 1 .. Len(inbox'[p])
      /\ inbox'[p][Len(inbox[p]) + 1] = Message(sender)
      /\ \A m \in 1 .. Len(inbox[p]) :
            m \in 1 .. Len(inbox'[p]) /\ inbox'[p][m] = inbox[p][m]
  <2>1. inbox[p] \in Seq(Frames) /\ inbox'[p] = inbox[p] \o new /\ new # <<>>
    <3>1. Len(new) # 0
      BY <1>2, <1>3, LenProperties
    <3> QED
      BY <3>1, EmptySeq DEF Typed, new
  <2>2. new \in Seq(Frames) /\ new[1] = Message(sender)
    BY <1>3
  <2> HIDE DEF new
  <2>3. \A s, t \in Seq(Frames) : t # <<>> =>
           /\ Len(s) + 1 \in 1 .. Len(s \o t) /\ (s \o t)[Len(s) + 1] = t[1]
           /\ \A m \in 1 .. Len(s) : m \in 1 .. Len(s \o t) /\ (s \o t)[m] = s[m]
           /\ Len(s) \in Nat
    BY Behind, Zenon
  <2> DEFINE old == inbox[p]
  <2>4. old \in Seq(Frames) /\ inbox'[p] = old \o new
    BY <2>1
  <2> HIDE DEF old
  <2>5. /\ Len(old) + 1 \in 1 .. Len(old \o new) /\ (old \o new)[Len(old) + 1] = new[1]
        /\ \A m \in 1 .. Len(old) : m \in 1 .. Len(old \o new) /\ (old \o new)[m] = old[m]
        /\ Len(old) \in Nat
    BY <2>1, <2>2, <2>3, <2>4, Zenon
  <2>6. /\ Len(old) \in Nat
        /\ Len(old) + 1 \in 1 .. Len(inbox'[p])
        /\ inbox'[p][Len(old) + 1] = Message(sender)
        /\ \A m \in 1 .. Len(old) : m \in 1 .. Len(inbox'[p]) /\ inbox'[p][m] = old[m]
    BY <2>2, <2>4, <2>5, Zenon
  <2> QED
    BY <2>6 DEF old
<1>5. CASE dispatched[p] = <<>> /\ inbox[p] \in Seq(Replies)
  <2> DEFINE n == Len(inbox[p]) + 1
  <2>1. dispatched'[p] # <<>> /\ Head(dispatched'[p]) = sender
    BY <1>5
  <2>2. \A m \in 1 .. n - 1 : m \in 1 .. Len(inbox[p])
    BY <1>4
  <2>3. \A m \in 1 .. n - 1 : inbox'[p][m] \in Replies
    BY <1>4, <1>5, <2>2, ElementOfSeq
  <2> QED
    BY <1>4, <2>1, <2>2, <2>3 DEF FirstIsNext
<1>6. CASE dispatched[p] # <<>>
  <2>1. PICK n \in 1 .. Len(inbox[p]) :
           /\ inbox[p][n] = Message(Head(dispatched[p]))
           /\ \A m \in 1 .. n - 1 : inbox[p][m] \in Replies
    BY <1>6 DEF FirstIsNext
  <2>2. dispatched'[p] # <<>> /\ Head(dispatched'[p]) = Head(dispatched[p])
    <3>1. dispatched[p] \in Seq(Senders)
      BY DEF Typed
    <3> QED
      BY <1>6, <3>1, HeadTailAppend, AppendProperties
  <2>3. \A m \in 1 .. n - 1 : m \in 1 .. Len(inbox[p])
    <3>1. Len(inbox[p]) \in Nat
      BY <1>4
    <3> QED
      BY <2>1, <3>1
  <2> QED
    BY <2>1, <2>2, <2>3, <1>4 DEF FirstIsNext
<1> QED
  BY <1>5, <1>6 DEF FirstIsNext

\* What is at the head: a reply, after which the first message is still the first, or it.
LEMMA HeadIsTaken ==
    ASSUME Typed, NEW p \in Programs, inbox[p] # <<>>, FirstIsNext(p)
    PROVE  /\ Head(inbox[p]).command = "MESSAGE" =>
                 dispatched[p] # <<>> /\ Head(inbox[p]).sender = Head(dispatched[p])
           /\ Head(inbox[p]).command # "MESSAGE" =>
                 /\ Head(inbox[p]).sender = Nobody
                 /\ inbox'[p] = Tail(inbox[p]) /\ dispatched'[p] = dispatched[p]
                       => FirstIsNext(p)'
<1>1. /\ inbox[p] \in Seq(Frames) /\ Head(inbox[p]) \in Frames /\ Head(inbox[p]) = inbox[p][1]
      /\ Len(inbox[p]) \in Nat /\ Len(inbox[p]) >= 1
      /\ Len(Tail(inbox[p])) = Len(inbox[p]) - 1
      /\ \A m \in 1 .. Len(inbox[p]) - 1 : Tail(inbox[p])[m] = inbox[p][m + 1]
  <2>1. inbox[p] \in Seq(Frames)
    BY DEF Typed
  <2> QED
    BY <2>1, HeadTailProperties, LenProperties, EmptySeq
<1>2. CASE dispatched[p] = <<>> /\ inbox[p] \in Seq(Replies)
  <2>1. Head(inbox[p]) \in Replies /\ Tail(inbox[p]) \in Seq(Replies)
    BY <1>2, HeadTailProperties
  <2> QED
    BY <1>2, <2>1, RepliesAreNoMessages DEF FirstIsNext
<1>3. CASE dispatched[p] # <<>>
  <2>1. PICK n \in 1 .. Len(inbox[p]) :
           /\ inbox[p][n] = Message(Head(dispatched[p]))
           /\ \A m \in 1 .. n - 1 : inbox[p][m] \in Replies
    BY <1>3 DEF FirstIsNext
  <2>2. CASE n = 1
    BY <1>1, <1>3, <2>1, <2>2, RepliesAreNoMessages
  <2>3. CASE n # 1
    <3>1. 1 \in 1 .. n - 1 /\ n - 1 \in 1 .. Len(inbox[p]) - 1 /\ (n - 1) + 1 = n
      BY <1>1, <2>3
    <3>2. Head(inbox[p]) \in Replies
      BY <1>1, <2>1, <3>1
    <3>3. Tail(inbox[p])[n - 1] = inbox[p][n]
      BY <1>1, <3>1
    <3>4. \A m \in 1 .. (n - 1) - 1 :
             m \in 1 .. Len(inbox[p]) - 1 /\ m + 1 \in 1 .. n - 1
      BY <1>1, <2>1
    <3>5. \A m \in 1 .. (n - 1) - 1 : Tail(inbox[p])[m] \in Replies
      BY <1>1, <2>1, <3>4
    <3>6. ASSUME inbox'[p] = Tail(inbox[p]), dispatched'[p] = dispatched[p]
          PROVE  FirstIsNext(p)'
      BY <1>1, <1>3, <2>1, <3>1, <3>3, <3>5, <3>6 DEF FirstIsNext
    <3> QED
      BY <3>2, <3>6, RepliesAreNoMessages
  <2> QED
    BY <2>2, <2>3
<1> QED
  BY <1>2, <1>3 DEF FirstIsNext

Receivers == Servers \cup EngineServers

\* A program that may still read: a server up to its receive, an engine's server up to
\* its second read.
Reading(p) == exit[p] = "running" /\ pc[p] \in 1 .. IF p \in Servers THEN 6 ELSE 5

\* Nothing is sent to a program that has not asked for it.
Unsubscribed(p) == /\ p \notin subscribed
                   /\ toBroker[p] \in Seq(Harmless)
                   /\ dispatched[p] = <<>>

Serves(p) == /\ printed[p] # Nobody =>
                   dispatched[p] # <<>> /\ printed[p] = Head(dispatched[p])
             /\ Reading(p) => FirstIsNext(p)
             /\ p \in EngineServers /\ exit[p] = "running" /\ pc[p] \in 1 .. 4
                   => Unsubscribed(p)

LEMMA ServerPlaces ==
    ASSUME Typed, NEW p \in Servers, exit[p] = "running"
    PROVE  /\ p \in Programs /\ pc[p] \in 1 .. 7
           /\ At(p, "await") => pc[p] \in {3, 5} /\ Command(p) \in {"CONNECTED", "RECEIPT"}
           /\ At(p, "receive") => pc[p] = 6
           /\ ~At(p, "read") /\ ~At(p, "close")
<1>1. /\ p \in Programs
      /\ pc[p] \in 1 .. 7
  BY ServerScript DEF Typed, InScript
<1>2. \/ pc[p] = 1 \/ pc[p] = 2 \/ pc[p] = 3 \/ pc[p] = 4 \/ pc[p] = 5 \/ pc[p] = 6 \/ pc[p] = 7
  BY <1>1
<1>3. /\ pc[p] = 1 => Script(p)[pc[p]] = Connect
      /\ pc[p] = 2 => Script(p)[pc[p]] = Write("CONNECT")
      /\ pc[p] = 3 => Script(p)[pc[p]] = Await("CONNECTED")
      /\ pc[p] = 4 => Script(p)[pc[p]] = WriteWithReceipt("SUBSCRIBE")
      /\ pc[p] = 5 => Script(p)[pc[p]] = Await("RECEIPT")
      /\ pc[p] = 6 => Script(p)[pc[p]] = Receive
      /\ pc[p] = 7 => Script(p)[pc[p]] = Write("DISCONNECT")
  BY ServerScript
<1> DEFINE step == Script(p)[pc[p]]
<1>4. /\ pc[p] = 1 => step.does = "connect"
      /\ pc[p] \in {2, 4, 7} => step.does = "write"
      /\ pc[p] = 3 => step.does = "await" /\ step.command = "CONNECTED"
      /\ pc[p] = 5 => step.does = "await" /\ step.command = "RECEIPT"
      /\ pc[p] = 6 => step.does = "receive"
  BY <1>3, StepFields
<1> HIDE DEF step
<1>5. Command(p) = step.command /\ \A does : At(p, does) => step.does = does
  BY DEF Command, At, step
<1> QED
  BY <1>1, <1>2, <1>4, <1>5

LEMMA EngineServerPlaces ==
    ASSUME Typed, NEW p \in EngineServers, exit[p] = "running"
    PROVE  /\ p \in Programs /\ pc[p] \in 1 .. 7
           /\ At(p, "connect") => pc[p] = 1
           /\ At(p, "write") => pc[p] \in {2, 4, 6}
           /\ At(p, "read") => pc[p] \in {3, 5}
           /\ At(p, "close") => pc[p] = 7
           /\ ~At(p, "await") /\ ~At(p, "receive")
           /\ pc[p] = 2 => Command(p) = "CONNECT" /\ Script(p)[pc[p]].receipt = FALSE
<1>1. /\ p \in Programs
      /\ pc[p] \in 1 .. 7
  BY EngineServerScript DEF Typed, InScript
<1>2. \/ pc[p] = 1 \/ pc[p] = 2 \/ pc[p] = 3 \/ pc[p] = 4 \/ pc[p] = 5 \/ pc[p] = 6 \/ pc[p] = 7
  BY <1>1
<1>3. /\ pc[p] = 1 => Script(p)[pc[p]] = Connect
      /\ pc[p] = 2 => Script(p)[pc[p]] = Write("CONNECT")
      /\ pc[p] \in {3, 5} => Script(p)[pc[p]] = Read
      /\ pc[p] = 4 => Script(p)[pc[p]] = Write("SUBSCRIBE")
      /\ pc[p] = 6 => Script(p)[pc[p]] = Write("DISCONNECT")
      /\ pc[p] = 7 => Script(p)[pc[p]] = Close
  BY EngineServerScript
<1> DEFINE step == Script(p)[pc[p]]
<1>4. /\ pc[p] = 1 => step.does = "connect"
      /\ pc[p] = 2 => step.does = "write" /\ step.command = "CONNECT" /\ step.receipt = FALSE
      /\ pc[p] \in {4, 6} => step.does = "write"
      /\ pc[p] \in {3, 5} => step.does = "read"
      /\ pc[p] = 7 => step.does = "close"
  BY <1>3, StepFields
<1> HIDE DEF step
<1>5. Command(p) = step.command /\ \A does : At(p, does) => step.does = does
  BY DEF Command, At, step
<1>6. ~At(p, "await") /\ ~At(p, "receive")
  BY <1>2, <1>4, <1>5
<1>7. /\ At(p, "connect") => pc[p] = 1
      /\ At(p, "write") => pc[p] \in {2, 4, 6}
      /\ At(p, "read") => pc[p] \in {3, 5}
      /\ At(p, "close") => pc[p] = 7
  BY <1>2, <1>4, <1>5
<1> QED
  BY <1>1, <1>4, <1>5, <1>6, <1>7 DEF step

\* A program that goes on was reading before if it is after.
LEMMA StillReading ==
    ASSUME Typed, NEW p \in Receivers, exit[p] = "running", GoesOn(p) \/ GivesUp(p)
    PROVE  /\ exit'[p] = "running" => pc'[p] = pc[p] + 1
           /\ Reading(p)' => Reading(p)
           /\ exit'[p] = "running" /\ pc'[p] \in 1 .. 4 => pc[p] \in 1 .. 3
<1>1. p \in Programs /\ pc[p] \in 1 .. 7
  BY ServerPlaces, EngineServerPlaces DEF Receivers
<1>2. exit'[p] = "running" => pc'[p] = pc[p] + 1
  BY <1>1 DEF GoesOn, GivesUp, Typed
<1>3. \A last \in {4, 5, 6} : pc[p] + 1 \in 1 .. last => pc[p] \in 1 .. last - 1
  BY <1>1
<1>4. \A last \in {5, 6} : pc[p] \in 1 .. last - 1 => pc[p] \in 1 .. last
  BY <1>1
<1> QED
  BY <1>2, <1>3, <1>4 DEF Reading

LEMMA ServerRuns ==
    ASSUME Typed, NEW p \in Servers, Serves(p), Run(p)
    PROVE  Serves(p)'
<1>1. p \in Programs /\ p \in Receivers /\ p \notin EngineServers /\ exit[p] = "running"
  BY ServerScript, ProgramsAssumption
  DEF Receivers, Run, connect, write, await, receive, read, close, At
<1>2. connect(p) \/ write(p) \/ await(p) \/ receive(p)
  BY <1>1, ServerPlaces DEF Run, read, close
<1>3. (GoesOn(p) \/ GivesUp(p)) /\ dispatched' = dispatched
  BY <1>2 DEF connect, write, await, receive, Other, TimesOut
<1>4. Reading(p)' => Reading(p)
  BY <1>1, <1>3, StillReading
<1>5. CASE connect(p) \/ write(p)
  <2>1. UNCHANGED <<inbox, printed>>
    BY <1>5 DEF connect, write
  <2> QED
    BY <1>1, <1>3, <1>4, <2>1 DEF Serves, FirstIsNext
<1>6. CASE await(p)
  <2>1. UNCHANGED printed
    BY <1>6 DEF await
  <2>2. CASE inbox[p] # <<>> /\ Takes(p) /\ Head(inbox[p]).command = Command(p)
    <3>1. Head(inbox[p]).command # "MESSAGE"
      BY <1>1, <1>6, <2>2, ServerPlaces DEF await
    <3>2. inbox'[p] = Tail(inbox[p])
      BY <1>1, <2>2 DEF Takes, Typed
    <3> QED
      BY <1>1, <1>3, <1>4, <2>1, <2>2, <3>1, <3>2, HeadIsTaken DEF Serves
  <2>3. CASE GivesUp(p)
    BY <1>1, <1>3, <2>1, <2>3, GivingUpEnds DEF Serves, Reading
  <2> QED
    BY <1>6, <2>2, <2>3 DEF await, Other, TimesOut
<1>7. CASE receive(p)
  <2>1. pc[p] = 6
    BY <1>1, <1>7, ServerPlaces DEF receive
  <2>2. FirstIsNext(p)
    BY <1>1, <2>1 DEF Serves, Reading
  <2>3. ~Reading(p)'
    <3>1. exit'[p] = "running" => pc'[p] = 6 + 1
      BY <1>1, <1>3, <2>1, StillReading
    <3>2. 6 + 1 \notin 1 .. 6
      OBVIOUS
    <3> QED
      BY <3>1, <3>2 DEF Reading
  <2>4. CASE UNCHANGED printed
    BY <1>1, <1>3, <2>3, <2>4 DEF Serves
  <2>5. CASE inbox[p] # <<>> /\ Head(inbox[p]).command = "MESSAGE" /\ Prints(p, Head(inbox[p]))
    <3>1. printed'[p] = Head(inbox[p]).sender
      BY <1>1, <2>5 DEF Prints, Typed
    <3>2. dispatched[p] # <<>> /\ Head(inbox[p]).sender = Head(dispatched[p])
      BY <1>1, <2>2, <2>5, HeadIsTaken
    <3> QED
      BY <1>1, <1>3, <2>3, <3>1, <3>2 DEF Serves
  <2> QED
    BY <1>7, <2>4, <2>5 DEF receive
<1> QED
  BY <1>2, <1>5, <1>6, <1>7

LEMMA EngineServerRuns ==
    ASSUME Typed, NEW p \in EngineServers, Serves(p), Run(p)
    PROVE  Serves(p)'
<1>1. /\ p \in Programs /\ p \in Receivers /\ p \notin Servers
      /\ exit[p] = "running" /\ pc[p] \in 1 .. 7
  BY EngineServerPlaces, ProgramsAssumption
  DEF Receivers, Run, connect, write, await, receive, read, close, At
<1>2. connect(p) \/ write(p) \/ read(p) \/ close(p)
  BY <1>1, EngineServerPlaces DEF Run, await, receive
<1>3. (GoesOn(p) \/ GivesUp(p)) /\ UNCHANGED <<subscribed, dispatched>>
  BY <1>2 DEF connect, write, read, close, TimesOut
<1>4. /\ Reading(p)' => Reading(p)
      /\ exit'[p] = "running" /\ pc'[p] \in 1 .. 4 => pc[p] \in 1 .. 3
  BY <1>1, <1>3, StillReading
<1>5. \A n \in 1 .. 3 : n \in 1 .. 4
  OBVIOUS
<1>6. ASSUME pc[p] \in 1 .. 3 PROVE Unsubscribed(p)
  BY <1>1, <1>5, <1>6 DEF Serves
<1>7. CASE connect(p) \/ close(p)
  <2>1. UNCHANGED <<toBroker, inbox, printed>>
    BY <1>7 DEF connect, close
  <2> QED
    BY <1>1, <1>3, <1>4, <1>6, <2>1 DEF Serves, FirstIsNext, Unsubscribed
<1>8. CASE write(p)
  <2> DEFINE request == [command |-> Command(p), receipt |-> Script(p)[pc[p]].receipt]
  <2>1. UNCHANGED <<inbox, printed>> /\ pc[p] \in {2, 4, 6}
    BY <1>1, <1>8, EngineServerPlaces DEF write
  <2>2. toBroker'[p] = toBroker[p] \/ toBroker'[p] = Append(toBroker[p], request)
    BY <1>1, <1>8 DEF write, Typed
  <2>3. ASSUME pc[p] \in 1 .. 3 PROVE Unsubscribed(p)'
    <3>1. pc[p] = 2
      BY <2>1, <2>3
    <3>2. request \in Harmless
      BY <1>1, <3>1, EngineServerPlaces DEF Harmless, Requests, Commands
    <3>3. toBroker[p] \in Seq(Harmless) /\ Unsubscribed(p)
      BY <1>6, <2>3 DEF Unsubscribed
    <3>4. toBroker'[p] \in Seq(Harmless)
      BY <2>2, <3>2, <3>3, AppendProperties
    <3> QED
      BY <1>3, <3>3, <3>4 DEF Unsubscribed
  <2> QED
    BY <1>1, <1>3, <1>4, <2>1, <2>3 DEF Serves, FirstIsNext
<1>9. CASE read(p)
  <2>1. pc[p] \in {3, 5} /\ UNCHANGED toBroker
    BY <1>1, <1>9, EngineServerPlaces DEF read
  <2>2. FirstIsNext(p)
    BY <1>1, <2>1 DEF Serves, Reading
  <2>3. ASSUME pc[p] \in 1 .. 3 PROVE Unsubscribed(p)'
    BY <1>3, <1>6, <2>1, <2>3 DEF Unsubscribed
  <2>4. CASE GivesUp(p) /\ UNCHANGED printed
    BY <1>1, <1>3, <2>4, GivingUpEnds DEF Serves, Reading
  <2>5. CASE inbox[p] # <<>> /\ Takes(p) /\ GoesOn(p) /\ Prints(p, Head(inbox[p]))
    <3>1. /\ printed'[p] = Head(inbox[p]).sender /\ inbox'[p] = Tail(inbox[p])
          /\ dispatched'[p] = dispatched[p]
      BY <1>1, <1>3, <2>5 DEF Prints, Takes, Typed
    <3>2. CASE Head(inbox[p]).command # "MESSAGE"
      <4>1. printed'[p] = Nobody /\ FirstIsNext(p)'
        BY <1>1, <2>2, <2>5, <3>1, <3>2, HeadIsTaken
      <4> QED
        BY <1>1, <1>4, <2>3, <4>1 DEF Serves
    <3>3. CASE Head(inbox[p]).command = "MESSAGE"
      <4>1. dispatched[p] # <<>> /\ Head(inbox[p]).sender = Head(dispatched[p])
        BY <1>1, <2>2, <2>5, <3>3, HeadIsTaken
      <4>2. pc[p] = 5
        <5>1. pc[p] = 3 => dispatched[p] = <<>>
          BY <1>6 DEF Unsubscribed
        <5> QED
          BY <2>1, <4>1, <5>1
      <4>3. pc'[p] = 5 + 1 \/ exit'[p] # "running"
        BY <1>1, <2>5, <4>2, StillReading
      <4>4. ~Reading(p)' /\ ~(exit'[p] = "running" /\ pc'[p] \in 1 .. 4)
        <5>1. 5 + 1 \notin 1 .. 5 /\ 5 + 1 \notin 1 .. 4
          OBVIOUS
        <5> QED
          BY <1>1, <4>3, <5>1 DEF Reading
      <4> QED
        BY <3>1, <4>1, <4>4 DEF Serves
    <3> QED
      BY <3>2, <3>3
  <2> QED
    BY <1>9, <2>4, <2>5 DEF read, TimesOut
<1> QED
  BY <1>2, <1>7, <1>8, <1>9

\* What the broker does for a program changes nothing it has printed.
LEMMA ServerIsServed ==
    ASSUME Typed, NEW p \in Receivers, Serves(p),
           Accept(p) \/ Refuse(p) \/ Dispatch(p) \/ Break(p)
    PROVE  Serves(p)'
<1>1. p \in Programs /\ UNCHANGED <<pc, exit, printed>>
  BY ServerScript, EngineServerScript
  DEF Receivers, Accept, Refuse, Dispatch, Break, programs
<1>2. ASSUME Waiting(p) # <<>>, Dispatched(p)
      PROVE  /\ Head(Waiting(p)) \in Senders
             /\ dispatched'[p] = Append(dispatched[p], Head(Waiting(p)))
             /\ dispatched'[p] # <<>>
             /\ dispatched[p] # <<>> => Head(dispatched'[p]) = Head(dispatched[p])
  <2>1. Head(Waiting(p)) \in Senders /\ dispatched[p] \in Seq(Senders)
    BY <1>1, <1>2, MessageLeaves DEF Typed
  <2>2. dispatched'[p] = Append(dispatched[p], Head(Waiting(p)))
    BY <1>1, <1>2 DEF Dispatched, Typed
  <2> QED
    BY <2>1, <2>2, AppendProperties, HeadTailAppend
<1>3. Unsubscribed(p) => Unsubscribed(p)'
  <2>1. CASE Accept(p)
    <3> SUFFICES ASSUME Unsubscribed(p) PROVE Unsubscribed(p)'
      OBVIOUS
    <3>1. Head(toBroker[p]) \in Harmless /\ Tail(toBroker[p]) \in Seq(Harmless)
      BY <2>1, HeadTailProperties DEF Accept, Unsubscribed
    <3>2. Head(toBroker[p]).command # "SUBSCRIBE"
      BY <3>1 DEF Harmless
    <3> QED
      BY <1>1, <2>1, <3>1, <3>2 DEF Accept, Unsubscribed, Typed
  <2>2. CASE Refuse(p)
    BY <2>2 DEF Refuse, Unsubscribed
  <2>3. CASE Dispatch(p)
    BY <2>3 DEF Dispatch, Unsubscribed
  <2>4. CASE Break(p)
    BY <2>4 DEF Break, Unsubscribed
  <2> QED
    BY <2>1, <2>2, <2>3, <2>4
<1>4. /\ FirstIsNext(p) => FirstIsNext(p)'
      /\ dispatched[p] # <<>> =>
            dispatched'[p] # <<>> /\ Head(dispatched'[p]) = Head(dispatched[p])
  <2>1. CASE /\ UNCHANGED dispatched
             /\ \E frames \in Seq(Replies) : Deliver(p, frames)
    <3>1. PICK frames \in Seq(Replies) : inbox'[p] = inbox[p] \o frames
      BY <1>1, <2>1 DEF Deliver, Typed
    <3> QED
      BY <1>1, <2>1, <3>1, RepliesArrive
  <2>2. CASE /\ Waiting(p) # <<>> /\ Dispatched(p)
             /\ \E frames \in Seq(Replies) :
                   Deliver(p, <<Message(Head(Waiting(p)))>> \o frames)
    <3>1. PICK frames \in Seq(Replies) :
             inbox'[p] = inbox[p] \o (<<Message(Head(Waiting(p)))>> \o frames)
      BY <1>1, <2>2 DEF Deliver, Typed
    <3> QED
      BY <1>1, <1>2, <2>2, <3>1, MessageArrives
  <2>3. CASE Accept(p)
    BY <2>1, <2>2, <2>3, ReceiptsAreReplies DEF Accept
  <2>4. CASE Refuse(p)
    BY <2>1, <2>4, ReceiptsAreReplies DEF Refuse
  <2>5. CASE Dispatch(p)
    <3>1. <<Message(Head(Waiting(p)))>> \o <<>> = <<Message(Head(Waiting(p)))>>
      OBVIOUS
    <3>2. <<>> \in Seq(Replies)
      OBVIOUS
    <3> QED
      BY <2>2, <2>5, <3>1, <3>2 DEF Dispatch
  <2>6. CASE Break(p)
    BY <2>6 DEF Break, FirstIsNext
  <2> QED
    BY <2>3, <2>4, <2>5, <2>6
<1> QED
  BY <1>1, <1>3, <1>4 DEF Serves, Reading

LEMMA ServerIsLeftAlone ==
    ASSUME NEW p \in Receivers, Serves(p), Same(p)
    PROVE  Serves(p)'
BY DEF Serves, Reading, FirstIsNext, Unsubscribed, Same

AllServe == \A p \in Receivers : Serves(p)

LEMMA NextAllServe == AllServe /\ Typed /\ [Next]_vars => AllServe'
<1> SUFFICES ASSUME AllServe, Typed, [Next]_vars, NEW p \in Receivers PROVE Serves(p)'
  BY DEF AllServe
<1>1. p \in Programs /\ Serves(p)
  BY ServerScript, EngineServerScript DEF AllServe, Receivers
<1>2. CASE UNCHANGED vars
  BY <1>1, <1>2, ServerIsLeftAlone DEF vars, programs, Same
<1>3. ASSUME NEW o \in Others, Publish(o) PROVE Serves(p)'
  BY <1>1, <1>3, PublishLeaves, ServerIsLeftAlone
<1>4. ASSUME NEW q \in Programs, q # p, Moves(q) PROVE Serves(p)'
  BY <1>1, <1>4, LeavesOthers, ServerIsLeftAlone
<1>5. CASE Moves(p)
  BY <1>1, <1>5, ServerRuns, EngineServerRuns, ServerIsServed DEF Moves, Receivers
<1> QED
  BY <1>2, <1>3, <1>4, <1>5 DEF Next, Moves

\* However many programs run and messages wait: a server that prints a message prints the
\* first one the broker sent to it, even when that came before the receipt of its
\* subscription (server.c of the messenger and of the engine).
THEOREM ServerPrintsFirst == Spec => []FirstMessagePrinted
<1>1. Init => Typed /\ AllServe
  <2> SUFFICES ASSUME Init, NEW p \in Receivers PROVE Serves(p)
    BY InitTyped DEF AllServe
  <2>1. p \in Programs
    BY ServerScript, EngineServerScript DEF Receivers
  <2>2. /\ p \notin subscribed /\ printed[p] = Nobody /\ dispatched[p] = <<>>
        /\ toBroker[p] = <<>> /\ inbox[p] = <<>>
    BY <2>1 DEF Init
  <2> QED
    BY <2>2 DEF Serves, FirstIsNext, Unsubscribed
<1>2. (Typed /\ AllServe) /\ [Next]_vars => (Typed /\ AllServe)'
  BY NextTyped, NextAllServe
<1>3. AllServe => FirstMessagePrinted
  BY DEF AllServe, Serves, Receivers, FirstMessagePrinted
<1> QED
  BY <1>1, <1>2, <1>3, PTL DEF Spec

=============================================================================
