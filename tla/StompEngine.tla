----------------------------- MODULE StompEngine -----------------------------
(***************************************************************************)
(* The life of messengers and of their sockets (stomp_engine.c, and        *)
(* stomp_messenger_init, _destroy and _set_timeout, stomp_connect and      *)
(* stomp_disconnect as far as they concern a socket): who owns a socket,   *)
(* when it is closed, how long it waits, and what the status of the engine *)
(* says of a failure.  What goes over the sockets is left to               *)
(* StompMessenger.                                                         *)
(*                                                                         *)
(* An application is one thread; it may use several messengers.            *)
(***************************************************************************)
EXTENDS StompStatus, Sequences, Functions

CONSTANTS Messengers,  \* the messengers; none of them is made twice
          MaxSockets,  \* bound on the sockets created
          Timeouts,    \* the timeouts an application sets, in milliseconds
          NoSocket     \* connection_ref refers to NULL
ASSUME MaxSocketsAssumption == MaxSockets \in Nat
ASSUME TimeoutsAssumption == Timeouts \subseteq Int
ASSUME NoSocketAssumption == NoSocket \notin Nat

VARIABLES initialized, \* how often apr_initialize was called more than apr_terminate
          pools,       \* the messengers whose pool exists
          stage,       \* whether a messenger is new, in use or gone
          connection,  \* messenger->connection: the socket of the connection
          sockets,     \* every socket created: the pool it is in, its state, its
                       \*   timeout and its mode
          established, \* history: stomp_connect succeeded when the connection was made
          error,       \* the static error of stomp_engine.c
          status,      \* messenger->status
          last         \* the last call, its messenger, what it returned, and the step of
                       \*   stomp_engine_connect or _disconnect that failed

vars == <<initialized, pools, stage, connection, sockets, established, error, status, last>>

Init == /\ initialized = 0
        /\ pools = {}
        /\ stage = [m \in Messengers |-> "new"]
        /\ connection = [m \in Messengers |-> NoSocket]
        /\ sockets = <<>>
        /\ established = [m \in Messengers |-> FALSE]
        /\ error = stomp_status_success
        /\ status = [m \in Messengers |-> stomp_status_success]
        /\ last = [call |-> "none", m |-> Null, ret |-> STOMP_SUCCESS, failed |-> Null]

Called(call, m, ret, failed) ==
    last' = [call |-> call, m |-> m, ret |-> ret, failed |-> failed]
-----------------------------------------------------------------------------
(* Messengers *)

\* Bug to try: APR is initialized for the first messenger only.
InitializedOnce == 1

Initialized == initialized + 1

stomp_messenger_init(m) ==
    /\ stage[m] = "new"
    /\ initialized' = Initialized
    /\ pools' = pools \cup {m}
    /\ stage' = [stage EXCEPT ![m] = "live"]
    /\ Called("init", m, STOMP_SUCCESS, Null)
    /\ UNCHANGED <<connection, sockets, established, error, status>>

\* Bug to try: the pool of the messenger is forgotten.
PoolsAfterAll(m) == IF initialized = 1 THEN {} ELSE pools

\* The messenger's own pool, and all pools there are when apr_terminate is called for
\* the last time.
PoolsAfter(m) == IF initialized = 1 THEN {} ELSE pools \ {m}

Closed(socket) == [socket EXCEPT !.state = "closed"]

\* A pool that is destroyed closes the sockets that were created in it.
stomp_messenger_destroy(m) ==
    /\ stage[m] = "live"
    /\ initialized' = initialized - 1
    /\ pools' = PoolsAfter(m)
    /\ sockets' = [s \in DOMAIN sockets |->
                      IF sockets[s].pool \in pools' THEN sockets[s]
                                                    ELSE Closed(sockets[s])]
    /\ stage' = [stage EXCEPT ![m] = "gone"]
    /\ Called("destroy", m, STOMP_SUCCESS, Null)
    /\ UNCHANGED <<connection, established, error, status>>
-----------------------------------------------------------------------------
(* Connections *)

\* apr_socket_timeout_set changes the mode of the socket only where the sign of the
\* timeout changes.  The timeout of a new socket is -1.
apr_socket_timeout_set(socket, t) ==
    [socket EXCEPT !.timeout = t,
                   !.nonblock = IF (t >= 0) # (socket.timeout >= 0) THEN t >= 0 ELSE @]

\* The steps of stomp_engine_connect that can fail, in their order, and those whose
\* message has room for the cause; in the others the name of the host takes its
\* place.
Steps == <<"resolve", "create", "connect", "nonblock", "remote", "local", "ip">>
NamesCause == {"resolve", "connect"}

\* The socket after the step "connect": it has a peer, unless apr_socket_connect returned
\* EAGAIN, which is let through as if it had succeeded.
PastConnect == {"created", "connected"}

Made(m, state, nonblock) ==
    [pool |-> m, state |-> state, timeout |-> -1, nonblock |-> nonblock]

\* What a failure at a step leaves in the pool: no socket yet, one without a peer, or
\* one in the state it was in after the step "connect".  Nothing closes it.
Abandoned(m, step, state) ==
    CASE step \in {"resolve", "create"} -> <<>>
      [] step = "connect" -> <<Made(m, "created", FALSE)>>
      [] step = "nonblock" -> <<Made(m, state, FALSE)>>
      [] OTHER -> <<Made(m, state, TRUE)>>

\* Bugs to try: the reference is set before there is a socket, or as soon as there is
\* one, or is cleared first.
ReferenceAtOnce(m) == Len(sockets) + 1
ReferenceCleared(m) == NoSocket
ReferenceToNew(m) ==
    IF sockets' = sockets THEN connection[m] ELSE Len(sockets) + 1

\* *connection_ref is assigned when every step has succeeded, and not before.
ReferenceAfterFailure(m) == connection[m]

stomp_engine_connect_fails(m, step) ==
    /\ \E state \in PastConnect : sockets' = sockets \o Abandoned(m, step, state)
    /\ connection' = [connection EXCEPT ![m] = ReferenceAfterFailure(m)]
    /\ error' = stomp_status_set(STOMP_FAILURE, step,
                                 IF step \in NamesCause THEN "cause" ELSE "hostname")

\* The socket of an earlier connection is left as it is.
stomp_engine_connect(m, t, state) ==
    /\ sockets' = Append(sockets, apr_socket_timeout_set(Made(m, state, TRUE), t))
    /\ connection' = [connection EXCEPT ![m] = Len(sockets')]
    /\ UNCHANGED error

\* The timeout is set on the new socket, and then frames are exchanged over it, which
\* may fail, and does when there is no peer.
stomp_connect(m, t) ==
    /\ stage[m] = "live"
    /\ Len(sockets) < MaxSockets
    /\ \/ \E i \in DOMAIN Steps :
             /\ stomp_engine_connect_fails(m, Steps[i])
             /\ status' = [status EXCEPT ![m] =
                              stomp_status_set(STOMP_FAILURE, "connect", error'.detail)]
             /\ Called("connect", m, STOMP_FAILURE, Steps[i])
             /\ UNCHANGED established
       \/ /\ stomp_engine_connect(m, t, "connected")
          /\ Called("connect", m, STOMP_SUCCESS, Null)
          /\ established' = [established EXCEPT ![m] = TRUE]
          /\ UNCHANGED status
       \/ \E state \in PastConnect :
             /\ stomp_engine_connect(m, t, state)
             /\ Called("connect", m, STOMP_FAILURE, "handshake")
             /\ established' = [established EXCEPT ![m] = FALSE]
             /\ status' = [status EXCEPT ![m] =
                              stomp_status_set(STOMP_FAILURE, "handshake", error.detail)]
    /\ UNCHANGED <<initialized, pools, stage>>

\* Every call from here on goes through the connection, which must exist.
InUse(m) == stage[m] = "live" /\ connection[m] # NoSocket

\* The result of stomp_engine_set_timeout is ignored.
stomp_messenger_set_timeout(m, t) ==
    /\ InUse(m)
    /\ sockets' = [sockets EXCEPT ![connection[m]] = apr_socket_timeout_set(@, t)]
    /\ Called("timeout", m, STOMP_SUCCESS, Null)
    /\ UNCHANGED <<initialized, pools, stage, connection, established, error, status>>

\* stomp_disconnect is an exchange of frames, which takes a peer, and leaves the socket
\* alone.
stomp_disconnect(m) ==
    /\ InUse(m)
    /\ \/ /\ sockets[connection[m]].state = "connected"
          /\ Called("disconnect", m, STOMP_SUCCESS, Null)
          /\ UNCHANGED status
       \/ /\ Called("disconnect", m, STOMP_FAILURE, "exchange")
          /\ status' = [status EXCEPT ![m] =
                           stomp_status_set(STOMP_FAILURE, "disconnect", error.detail)]
    /\ UNCHANGED <<initialized, pools, stage, connection, sockets, established, error>>

\* An application calls the engine itself to close the socket.  The result of the
\* shutdown is lost, because result and not rc is looked at; the static error is not
\* set for that of the close either.
stomp_engine_disconnect(m) ==
    /\ stage[m] = "live"
    /\ IF connection[m] = NoSocket
       THEN /\ error' = stomp_status_set(STOMP_FAILURE, "connection", Null)
            /\ Called("engine disconnect", m, STOMP_FAILURE, Null)
            /\ UNCHANGED <<connection, sockets, established>>
       ELSE \E failed \in {Null, "shutdown", "close"} :
               /\ sockets' = [sockets EXCEPT ![connection[m]] = Closed(@)]
               /\ connection' = [connection EXCEPT ![m] = NoSocket]
               /\ established' = [established EXCEPT ![m] = FALSE]
               /\ Called("engine disconnect", m,
                         IF failed = "close" THEN STOMP_FAILURE ELSE STOMP_SUCCESS,
                         failed)
               /\ UNCHANGED error
    /\ UNCHANGED <<initialized, pools, stage, status>>

Next == \E m \in Messengers :
           \/ stomp_messenger_init(m)
           \/ stomp_messenger_destroy(m)
           \/ \E t \in Timeouts : stomp_connect(m, t) \/ stomp_messenger_set_timeout(m, t)
           \/ stomp_disconnect(m)
           \/ stomp_engine_disconnect(m)

Spec == Init /\ [][Next]_vars
-----------------------------------------------------------------------------
(* What the life of the messengers relies on *)

Socket == [pool : Messengers, state : {"created", "connected", "closed"},
           timeout : Timeouts \cup {-1}, nonblock : BOOLEAN]

TypeOK ==
    /\ initialized \in Nat
    /\ pools \subseteq Messengers
    /\ stage \in [Messengers -> {"new", "live", "gone"}]
    /\ sockets \in Seq(Socket)
    /\ connection \in [Messengers -> DOMAIN sockets \cup {NoSocket}]
    /\ established \in [Messengers -> BOOLEAN]
    /\ error.code \in StatusCode
    /\ \A m \in Messengers : status[m].code \in StatusCode

\* apr_terminate belongs to the process and takes every pool with it, and each
\* messenger calls it: all the same a messenger in use has its pool, whatever
\* other messengers were made and destroyed (stomp_messenger_init, _destroy).
PoolWhileInUse == \A m \in Messengers : stage[m] = "live" => m \in pools

\* stomp_messenger_destroy has to clean up after every abandoned, replaced and failed
\* connection, as no other call does: a socket that is not closed belongs to a
\* messenger in use (stomp_messenger_destroy, stomp_engine_connect).
NothingLeftOpen ==
    \A s \in DOMAIN sockets :
        sockets[s].state # "closed" => stage[sockets[s].pool] = "live"

\* The connection of a messenger in use is a socket of its own that was not closed, and
\* one with a peer when the stomp_connect that made it succeeded, whatever connects
\* failed since.  EAGAIN replaces a connection by a socket without a peer, but then
\* stomp_connect fails, and says so (stomp_engine_connect, stomp_connect).
ConnectionUsable ==
    \A m \in Messengers : InUse(m) =>
        LET socket == sockets[connection[m]]
        IN /\ socket.pool = m
           /\ socket.state # "closed"
           /\ established[m] => socket.state = "connected"

\* A connect that fails in the engine costs nothing that was there before: each
\* messenger goes on with the connection it had, which nothing has touched
\* (stomp_engine_connect).
FailedConnectKeeps ==
    [][last'.call = "connect" /\ last'.failed \in Range(Steps) =>
          /\ connection' = connection
          /\ \A s \in DOMAIN sockets : sockets'[s] = sockets[s]]_vars
-----------------------------------------------------------------------------
(* What the documentation says, and the code does not do *)

\* stomp_messenger.h on stomp_disconnect: "Disconnects from the endpoint associated
\* with the messenger".
Disconnected ==
    last.call = "disconnect" /\ last.ret = STOMP_SUCCESS =>
        \A s \in DOMAIN sockets : sockets[s].pool = last.m => sockets[s].state = "closed"

\* stomp_engine.h on stomp_engine_last_status: "Gets the last stomp engine status",
\* after a call to the engine that failed.
EngineStatusAgrees ==
    last.call = "engine disconnect" /\ last.ret = STOMP_FAILURE =>
        error.code = STOMP_FAILURE

\* stomp_messenger.h on stomp_connect: "Upon failure, the code will set the error
\* details on the status member of the messenger object".
ConnectFailureHasCause ==
    last.call = "connect" /\ last.failed \in Range(Steps) => status[last.m].detail = "cause"

\* stomp_engine.h on stomp_engine_set_timeout: "Sets blocking mode".
TimeoutSetsBlocking ==
    last.call = "timeout" =>
        LET socket == sockets[connection[last.m]]
        IN socket.nonblock <=> socket.timeout >= 0
=============================================================================
