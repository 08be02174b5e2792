---------------------------- MODULE StompPrograms ----------------------------
(***************************************************************************)
(* The example programs, run against one broker: client.c and server.c of  *)
(* the messenger and of the engine.  Each runs through its calls and gives *)
(* up at the first that fails.                                             *)
(*                                                                         *)
(* A call of the messenger is a step that writes a request and a step that *)
(* waits for the reply, as in StompMessenger; the engine's programs write  *)
(* and read frames themselves.  A message is named after its sender, which *)
(* sends only one.                                                         *)
(***************************************************************************)
EXTENDS Sequences, Naturals

CONSTANTS Clients, Servers,              \* processes that run messenger/*.c
          EngineClients, EngineServers,  \* processes that run engine/*.c
          Others,                        \* other applications that send to a queue
          Casts,                         \* the sets of these that may be started together
          Nobody                         \* the sender of no message

Programs == Clients \cup Servers \cup EngineClients \cup EngineServers
Senders == Programs \cup Others
ASSUME NobodyAssumption == Nobody \notin Senders
ASSUME ProgramsAssumption ==
    /\ Clients \cap (Servers \cup EngineClients \cup EngineServers) = {}
    /\ Servers \cap (EngineClients \cup EngineServers) = {}
    /\ EngineClients \cap EngineServers = {}
ASSUME OthersAssumption == Programs \cap Others = {}
ASSUME CastsAssumption == Casts \subseteq SUBSET Senders

VARIABLES cast,        \* the programs and other applications that were started
          pc,          \* the step a program is at
          exit,        \* how it ended: EXIT_SUCCESS, EXIT_FAILURE or not yet
          toBroker,    \* the requests it wrote that the broker has not read
          inbox,       \* the frames on their way to it
          session,     \* the connection, as the broker sees it
          subscribed,  \* the programs with a subscription to their queue
          queue,       \* the messages in each queue of the broker
          printed,     \* the sender of the last message a program printed
          accepted,    \* history: the senders whose message got into the queue
          dispatched   \* history: the messages sent to a program, in order

programs == <<cast, pc, exit, printed>>
vars == <<programs, toBroker, inbox, session, subscribed, queue, accepted, dispatched>>

Step(does, command, receipt) == [does |-> does, command |-> command, receipt |-> receipt]
Connect == Step("connect", "", FALSE)
Write(command) == Step("write", command, FALSE)
WriteWithReceipt(command) == Step("write", command, TRUE)
Await(reply) == Step("await", reply, FALSE)
Receive == Step("receive", "MESSAGE", FALSE)
Read == Step("read", "", FALSE)
Close == Step("close", "", FALSE)

client == <<Connect, Write("CONNECT"), Await("CONNECTED"),
            WriteWithReceipt("SEND"), Await("RECEIPT"),
            WriteWithReceipt("DISCONNECT"), Await("RECEIPT")>>

server == <<Connect, Write("CONNECT"), Await("CONNECTED"),
            WriteWithReceipt("SUBSCRIBE"), Await("RECEIPT"),
            Receive, Write("DISCONNECT")>>

engine_client == <<Connect, Write("CONNECT"), Read, Write("SEND"), Close>>

engine_server == <<Connect, Write("CONNECT"), Read, Write("SUBSCRIBE"), Read,
                   Write("DISCONNECT"), Close>>

Script(p) == CASE p \in Clients -> client
               [] p \in Servers -> server
               [] p \in EngineClients -> engine_client
               [] p \in EngineServers -> engine_server

\* The queue a program names: with its root when it calls the engine, without it when
\* the messenger strips it, which the broker takes for the same name.
Destination(p) == IF p \in EngineServers THEN "FOO.BAR" ELSE "test.stomp.queue"
Destinations == {"FOO.BAR", "test.stomp.queue"}

Frame(command, sender) == [command |-> command, sender |-> sender]
Message(sender) == Frame("MESSAGE", sender)
Reply(command) == Frame(command, Nobody)

Init == /\ cast \in Casts
        /\ pc = [p \in Programs |-> 1]
        /\ exit = [p \in Programs |-> IF p \in cast THEN "running" ELSE "not started"]
        /\ toBroker = [p \in Programs |-> <<>>]
        /\ inbox = [p \in Programs |-> <<>>]
        /\ session = [p \in Programs |-> "none"]
        /\ subscribed = {}
        /\ queue = [d \in Destinations |-> <<>>]
        /\ printed = [p \in Programs |-> Nobody]
        /\ accepted = {}
        /\ dispatched = [p \in Programs |-> <<>>]
-----------------------------------------------------------------------------
(* The programs *)

At(p, does) == exit[p] = "running" /\ Script(p)[pc[p]].does = does
Command(p) == Script(p)[pc[p]].command

\* Bug to try: the exit status of a failure is that of success.
GivesUpAsSuccess(p) == exit' = [exit EXCEPT ![p] = "success"] /\ UNCHANGED pc

\* goto failure_..., or check_status and exit.
GivesUp(p) == exit' = [exit EXCEPT ![p] = "failure"] /\ UNCHANGED pc

\* The next call, or return EXIT_SUCCESS.
GoesOn(p) == /\ pc' = [pc EXCEPT ![p] = @ + 1]
             /\ exit' = [exit EXCEPT ![p] = IF pc[p] = Len(Script(p))
                                            THEN "success" ELSE "running"]

\* Bug to try: what is printed is the last frame that has come.
PrintsNewest(p, frame) == printed' = [printed EXCEPT ![p] = inbox[p][Len(inbox[p])].sender]

Prints(p, frame) == printed' = [printed EXCEPT ![p] = frame.sender]
Takes(p) == inbox' = [inbox EXCEPT ![p] = Tail(@)]

connect(p) ==
    /\ At(p, "connect")
    /\ \/ GoesOn(p) /\ session' = [session EXCEPT ![p] = "open"]
       \/ GivesUp(p) /\ UNCHANGED session
    /\ UNCHANGED <<cast, toBroker, inbox, subscribed, queue, printed, accepted, dispatched>>

\* A write that fails may still have reached the broker.
write(p) ==
    /\ At(p, "write")
    /\ LET request == [command |-> Command(p), receipt |-> Script(p)[pc[p]].receipt]
           Written == toBroker' = [toBroker EXCEPT ![p] = Append(@, request)]
       IN \/ GoesOn(p) /\ Written
          \/ GivesUp(p) /\ (Written \/ UNCHANGED toBroker)
    /\ UNCHANGED <<cast, inbox, session, subscribed, queue, printed, accepted, dispatched>>

\* Bugs to try: other frames than the reply are skipped; a wait without a timeout.
SkipsOther(p) == UNCHANGED <<pc, exit>>
WaitsForever(p) == FALSE

\* What the messenger does with a frame that is not the reply.
Other(p) == GivesUp(p)

\* Nothing came within the timeout, or not all of a frame, or the connection is gone.
TimesOut(p) == GivesUp(p)

await(p) ==
    /\ At(p, "await")
    /\ \/ /\ inbox[p] # <<>>
          /\ Takes(p)
          /\ IF Head(inbox[p]).command = Command(p) THEN GoesOn(p) ELSE Other(p)
       \/ TimesOut(p) /\ UNCHANGED inbox
    /\ UNCHANGED <<cast, toBroker, session, subscribed, queue, printed, accepted, dispatched>>

\* server.c compares the result with STOMP_SUCCESS, so that STOMP_NO_DATA is a failure;
\* but when the timeout is over in the middle of a frame the result is STOMP_SUCCESS,
\* and the body printed is that of the new message, NULL.
receive(p) ==
    /\ At(p, "receive")
    /\ \/ /\ inbox[p] # <<>>
          /\ Takes(p)
          /\ \/ /\ Head(inbox[p]).command = "MESSAGE"
                /\ GoesOn(p) /\ Prints(p, Head(inbox[p]))
             \/ /\ Head(inbox[p]).command # "MESSAGE"
                /\ GivesUp(p) /\ UNCHANGED printed
             \/ GoesOn(p) /\ UNCHANGED printed
       \/ TimesOut(p) /\ UNCHANGED <<inbox, printed>>
    /\ UNCHANGED <<cast, toBroker, session, subscribed, queue, accepted, dispatched>>

\* The engine's programs set no timeout on a socket that does not block: the
\* time for a frame that is not there yet, or not all of it, is over at once.  Any frame will do.
read(p) ==
    /\ At(p, "read")
    /\ \/ /\ inbox[p] # <<>>
          /\ Takes(p)
          /\ GoesOn(p) /\ Prints(p, Head(inbox[p]))
       \/ TimesOut(p) /\ UNCHANGED <<inbox, printed>>
    /\ UNCHANGED <<cast, toBroker, session, subscribed, queue, accepted, dispatched>>

\* stomp_engine_disconnect, and check_status of what the close returned.
close(p) ==
    /\ At(p, "close")
    /\ GoesOn(p) \/ GivesUp(p)
    /\ UNCHANGED <<cast, toBroker, inbox, session, subscribed, queue, printed, accepted,
                   dispatched>>

Run(p) == connect(p) \/ write(p) \/ await(p) \/ receive(p) \/ read(p) \/ close(p)
-----------------------------------------------------------------------------
(* The broker and the network *)

Receipt(request) == IF request.command = "CONNECT" THEN <<Reply("CONNECTED")>>
                    ELSE IF request.receipt THEN <<Reply("RECEIPT")>>
                    ELSE <<>>

Deliver(p, frames) == inbox' = [inbox EXCEPT ![p] = @ \o frames]
Waiting(p) == queue[Destination(p)]
Dispatched(p) == /\ queue' = [queue EXCEPT ![Destination(p)] = Tail(@)]
                 /\ dispatched' = [dispatched EXCEPT ![p] = Append(@, Head(Waiting(p)))]
Enqueued(sender, destination) ==
    /\ queue' = [queue EXCEPT ![destination] = Append(@, sender)]
    /\ accepted' = accepted \cup {sender}

\* Requests are carried out in order.  A message may be dispatched before the receipt
\* of the SUBSCRIBE.
Accept(p) ==
    /\ session[p] = "open" /\ toBroker[p] # <<>>
    /\ LET request == Head(toBroker[p])
       IN /\ session' = [session EXCEPT ![p] =
                            IF request.command = "DISCONNECT" THEN "closed" ELSE @]
          /\ subscribed' = IF request.command = "SUBSCRIBE"
                           THEN subscribed \cup {p} ELSE subscribed
          /\ \/ /\ Deliver(p, Receipt(request))
                /\ IF request.command = "SEND" THEN Enqueued(p, Destination(p))
                                               ELSE UNCHANGED <<queue, accepted>>
                /\ UNCHANGED dispatched
             \/ /\ request.command = "SUBSCRIBE" /\ Waiting(p) # <<>>
                /\ Deliver(p, <<Message(Head(Waiting(p)))>> \o Receipt(request))
                /\ Dispatched(p)
                /\ UNCHANGED accepted
    /\ toBroker' = [toBroker EXCEPT ![p] = Tail(@)]
    /\ UNCHANGED programs

Refuse(p) ==
    /\ session[p] = "open" /\ toBroker[p] # <<>>
    /\ Deliver(p, <<Reply("ERROR")>>)
    /\ session' = [session EXCEPT ![p] = "closed"]
    /\ UNCHANGED <<programs, toBroker, subscribed, queue, accepted, dispatched>>

\* The subscription acknowledges by itself: a message sent out has left the queue.
Dispatch(p) ==
    /\ p \in subscribed /\ session[p] = "open" /\ Waiting(p) # <<>>
    /\ Deliver(p, <<Message(Head(Waiting(p)))>>)
    /\ Dispatched(p)
    /\ UNCHANGED <<programs, toBroker, session, subscribed, accepted>>

\* The connection breaks, or the broker learns that the program is gone.
Break(p) ==
    /\ session[p] = "open"
    /\ session' = [session EXCEPT ![p] = "closed"]
    /\ UNCHANGED <<programs, toBroker, inbox, subscribed, queue, accepted, dispatched>>

\* Another application sends its message.
Publish(o) ==
    /\ o \in cast \ accepted
    /\ \E d \in Destinations : Enqueued(o, d)
    /\ UNCHANGED <<programs, toBroker, inbox, session, subscribed, dispatched>>

Next == \/ \E p \in Programs : Run(p) \/ Accept(p) \/ Refuse(p) \/ Dispatch(p) \/ Break(p)
        \/ \E o \in Others : Publish(o)

\* The processes run, and nothing is asked of the broker: no call waits longer than
\* its timeout.
Spec == Init /\ [][Next]_vars /\ \A p \in Programs : WF_vars(Run(p))
-----------------------------------------------------------------------------
(* What the programs show *)

TypeOK ==
    /\ \A p \in Programs : pc[p] \in 1 .. Len(Script(p)) + 1
    /\ \A p \in Programs : IF pc[p] > Len(Script(p)) THEN exit[p] = "success"
                                                    ELSE exit[p] # "success"
    /\ exit \in [Programs -> {"not started", "running", "success", "failure"}]
    /\ \A p \in Programs \ cast : exit[p] = "not started" /\ p \notin accepted
    /\ session \in [Programs -> {"none", "open", "closed"}]
    /\ printed \in [Programs -> Senders \cup {Nobody}]
    /\ subscribed \subseteq Programs
    /\ accepted \subseteq Senders
    /\ \A d \in Destinations : queue[d] \in Seq(accepted)
    /\ \A p \in Programs : \A n \in DOMAIN inbox[p] :
          inbox[p][n].command \in {"CONNECTED", "RECEIPT", "MESSAGE", "ERROR"}

\* When messenger/client.c exits with EXIT_SUCCESS the broker has its message, and
\* nothing of the conversation is left over on either side, although both of its
\* receipts have the same number and are never compared.
SuccessMeansSent ==
    \A p \in Clients : exit[p] = "success" =>
        p \in accepted /\ toBroker[p] = <<>> /\ inbox[p] = <<>>

\* A server that prints a message prints the first one the broker sent to it, however
\* early that was: one that came before the receipt of the subscription is not passed
\* over for a later one (server.c, stomp_subscribe).
FirstMessagePrinted ==
    \A p \in Servers \cup EngineServers : printed[p] # Nobody =>
        printed[p] = Head(dispatched[p])

\* Every program comes to an end, whatever the broker does.
Terminates == \A p \in Programs : <>(exit[p] # "running")
-----------------------------------------------------------------------------
(* What the documentation says, and the code does not do *)

\* example/readme.dox on messenger/server.c: it will "exchange 1 message".
OneMessageExchanged ==
    \A p \in Servers : exit[p] = "success" => printed[p] # Nobody

\* getting-started-with-litestomp.txt: "To read a Stomp frame from the connection",
\* call stomp_read.  While the connection stands, and unless the reply is an ERROR,
\* engine/client.c reads the reply to its CONNECT.
ReplyIsRead ==
    \A p \in EngineClients :
        exit[p] = "failure" /\ pc[p] = 3 => session[p] = "closed"
=============================================================================
