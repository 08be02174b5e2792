-------------------------- MODULE StompEngineProofs --------------------------
(***************************************************************************)
(* For any number of messengers and of sockets: a messenger in use has its *)
(* pool and a connection that can be used, and no socket outlives the      *)
(* messenger it belongs to.  The invariant behind this is that             *)
(* apr_initialize was called once more than apr_terminate for each         *)
(* messenger in use, so that the last call of apr_terminate finds no pool  *)
(* but the one that goes anyway.                                           *)
(***************************************************************************)
EXTENDS StompEngine, FiniteSets, FiniteSetTheorems, TLAPS

Counted == /\ IsFiniteSet(pools)
           /\ pools = {m \in Messengers : stage[m] = "live"}
           /\ initialized = Cardinality(pools)

NewIsUnconnected == \A m \in Messengers : stage[m] = "new" => connection[m] = NoSocket

IInv == TypeOK /\ Counted /\ NewIsUnconnected /\ NothingLeftOpen /\ ConnectionUsable

\* The connection of m can be used.
Usable(m) == /\ sockets[connection[m]].pool = m
             /\ sockets[connection[m]].state # "closed"
             /\ established[m] => sockets[connection[m]].state = "connected"

LEMMA UsableConnections == ConnectionUsable <=> \A m \in Messengers : InUse(m) => Usable(m)
BY DEF ConnectionUsable, Usable

LEMMA SocketType ==
    ASSUME TypeOK, NEW s \in DOMAIN sockets
    PROVE  s \in Nat /\ sockets[s] \in Socket /\ sockets[s].pool \in Messengers
<1>1. sockets \in Seq(Socket) /\ s \in 1 .. Len(sockets)
  BY DEF TypeOK
<1>2. sockets[s] \in Socket
  BY <1>1
<1> QED
  BY <1>1, <1>2 DEF Socket

\* A status that is set has a code.
LEMMA StatusSet ==
    ASSUME NEW code \in StatusCode, NEW text, NEW detail
    PROVE  stomp_status_set(code, text, detail).code \in StatusCode
BY DEF stomp_status_set

LEMMA FailureIsACode == STOMP_FAILURE \in StatusCode
BY DEF StatusCode

LEMMA InitIInv == Init => IInv
<1> SUFFICES ASSUME Init PROVE IInv
  OBVIOUS
<1>1. TypeOK
  <2>1. stomp_status_success.code \in StatusCode
    BY DEF stomp_status_success, stomp_status_set, StatusCode
  <2>2. sockets \in Seq(Socket)
    BY DEF Init
  <2> QED
    BY <2>1, <2>2 DEF Init, TypeOK
<1>2. Counted
  BY FS_EmptySet DEF Init, Counted
<1>3. NothingLeftOpen /\ ConnectionUsable
  BY DEF Init, NothingLeftOpen, ConnectionUsable, InUse
<1>4. NewIsUnconnected
  BY DEF Init, NewIsUnconnected
<1> QED
  BY <1>1, <1>2, <1>3, <1>4 DEF IInv

-----------------------------------------------------------------------------
(* Messengers *)

\* No pool but that of the messenger is destroyed with it.
LEMMA OnlyItsPool ==
    ASSUME Counted, NEW m \in pools
    PROVE  PoolsAfter(m) = pools \ {m}
<1>1. CASE initialized = 1
  <2>1. PICK x : pools = {x}
    BY <1>1, FS_Singleton DEF Counted
  <2> QED
    BY <1>1, <2>1 DEF PoolsAfter
<1>2. CASE initialized # 1
  BY <1>2 DEF PoolsAfter
<1> QED
  BY <1>1, <1>2

LEMMA InitKeeps ==
    ASSUME IInv, NEW m \in Messengers, stomp_messenger_init(m)
    PROVE  IInv'
<1> USE DEF IInv
<1>1. stage[m] = "new" /\ stage' = [stage EXCEPT ![m] = "live"] /\ pools' = pools \cup {m}
  BY DEF stomp_messenger_init
<1>2. stage \in [Messengers -> {"new", "live", "gone"}]
  BY DEF TypeOK
<1>3. m \notin pools
  BY <1>1 DEF Counted
<1>4. Counted'
  <2>1. IsFiniteSet(pools') /\ Cardinality(pools') = Cardinality(pools) + 1
    BY <1>1, <1>3, FS_AddElement DEF Counted
  <2>2. pools' = {n \in Messengers : stage'[n] = "live"}
    BY <1>1, <1>2 DEF Counted
  <2>3. initialized' = initialized + 1
    BY DEF stomp_messenger_init, Initialized
  <2> QED
    BY <2>1, <2>2, <2>3 DEF Counted
<1>5. TypeOK'
  <2>1. initialized' \in Nat
    BY DEF stomp_messenger_init, Initialized, TypeOK
  <2>2. stage' \in [Messengers -> {"new", "live", "gone"}]
    BY <1>1, <1>2
  <2> QED
    BY <1>1, <2>1, <2>2 DEF TypeOK, stomp_messenger_init
<1>6. NothingLeftOpen'
  <2> SUFFICES ASSUME NEW s \in DOMAIN sockets, sockets[s].state # "closed"
               PROVE  stage'[sockets[s].pool] = "live"
    BY DEF NothingLeftOpen, stomp_messenger_init
  <2>1. stage[sockets[s].pool] = "live"
    BY DEF NothingLeftOpen
  <2>2. sockets[s].pool \in Messengers
    BY SocketType
  <2> QED
    BY <1>1, <1>2, <2>1, <2>2
<1>7. ConnectionUsable'
  <2>1. connection[m] = NoSocket
    BY <1>1 DEF NewIsUnconnected
  <2> QED
    BY <1>1, <1>2, <2>1 DEF ConnectionUsable, InUse, stomp_messenger_init
<1>8. NewIsUnconnected'
  BY <1>1, <1>2 DEF NewIsUnconnected, stomp_messenger_init
<1> QED
  BY <1>4, <1>5, <1>6, <1>7, <1>8

LEMMA DestroyKeeps ==
    ASSUME IInv, NEW m \in Messengers, stomp_messenger_destroy(m)
    PROVE  IInv'
<1> USE DEF IInv
<1>1. stage[m] = "live" /\ stage' = [stage EXCEPT ![m] = "gone"]
  BY DEF stomp_messenger_destroy
<1>2. stage \in [Messengers -> {"new", "live", "gone"}]
  BY DEF TypeOK
<1>3. m \in pools /\ pools' = pools \ {m}
  BY <1>1, OnlyItsPool DEF stomp_messenger_destroy, Counted
<1>4. Counted'
  <2>1. IsFiniteSet(pools') /\ Cardinality(pools') = Cardinality(pools) - 1
    BY <1>3, FS_RemoveElement DEF Counted
  <2>2. pools' = {n \in Messengers : stage'[n] = "live"}
    BY <1>1, <1>2, <1>3 DEF Counted
  <2>3. initialized' = initialized - 1
    BY DEF stomp_messenger_destroy
  <2> QED
    BY <2>1, <2>2, <2>3 DEF Counted
<1>5. \A s \in DOMAIN sockets :
         sockets'[s] = IF sockets[s].pool \in pools' THEN sockets[s] ELSE Closed(sockets[s])
  BY DEF stomp_messenger_destroy
<1>6. DOMAIN sockets' = DOMAIN sockets
  BY DEF stomp_messenger_destroy
<1>7. \A s \in DOMAIN sockets : sockets'[s] \in Socket
  <2> SUFFICES ASSUME NEW s \in DOMAIN sockets PROVE sockets'[s] \in Socket
    OBVIOUS
  <2>1. sockets[s] \in Socket
    BY SocketType
  <2>2. Closed(sockets[s]) \in Socket
    BY <2>1 DEF Closed, Socket
  <2> QED
    BY <1>5, <2>1, <2>2
<1>8. TypeOK'
  <2>1. initialized' \in Nat
    BY <1>4, FS_CardinalityType DEF Counted
  <2>2. sockets' \in Seq(Socket)
    <3>1. DOMAIN sockets' = 1 .. Len(sockets) /\ Len(sockets) \in Nat
      BY <1>6 DEF TypeOK
    <3>2. sockets' = [s \in 1 .. Len(sockets) |-> sockets'[s]]
      BY <3>1 DEF stomp_messenger_destroy
    <3> QED
      BY <1>6, <1>7, <3>1, <3>2
  <2>3. stage' \in [Messengers -> {"new", "live", "gone"}]
    BY <1>1, <1>2
  <2> QED
    BY <1>3, <1>6, <2>1, <2>2, <2>3 DEF TypeOK, stomp_messenger_destroy
<1>9. NothingLeftOpen'
  <2> SUFFICES ASSUME NEW s \in DOMAIN sockets, sockets'[s].state # "closed"
               PROVE  stage'[sockets'[s].pool] = "live"
    BY <1>6 DEF NothingLeftOpen
  <2>1. sockets[s] \in Socket
    BY SocketType
  <2>2. sockets[s].pool \in pools'
    BY <1>5, <2>1 DEF Closed, Socket
  <2> QED
    BY <1>4, <1>5, <2>2 DEF Counted
<1>10. ConnectionUsable'
  <2> SUFFICES ASSUME NEW n \in Messengers, InUse(n)'
               PROVE  Usable(n)'
    BY DEF ConnectionUsable, Usable
  <2>1. n # m /\ stage[n] = "live" /\ connection' = connection /\ connection[n] # NoSocket
        /\ established' = established
    BY <1>1, <1>2 DEF InUse, stomp_messenger_destroy
  <2>2. Usable(n)
    BY <2>1, UsableConnections DEF InUse
  <2>3. connection[n] \in DOMAIN sockets
    BY <2>1 DEF TypeOK
  <2>4. n \in pools'
    BY <1>3, <2>1 DEF Counted
  <2> QED
    BY <1>5, <2>1, <2>2, <2>3, <2>4 DEF Usable
<1>11. NewIsUnconnected'
  BY <1>1, <1>2 DEF NewIsUnconnected, stomp_messenger_destroy
<1> QED
  BY <1>4, <1>8, <1>9, <1>10, <1>11

-----------------------------------------------------------------------------
(* Connections *)

\* Sockets that are created in the pool of a messenger in use leave the earlier ones
\* as they are, and do not outlive it.
LEMMA CreatedSockets ==
    ASSUME IInv, NEW m \in Messengers, stage[m] = "live", UNCHANGED stage,
           NEW created \in Seq(Socket), sockets' = sockets \o created,
           \A i \in DOMAIN created : created[i].pool = m
    PROVE  /\ sockets' \in Seq(Socket)
           /\ DOMAIN sockets \subseteq DOMAIN sockets'
           /\ \A s \in DOMAIN sockets : sockets'[s] = sockets[s]
           /\ NothingLeftOpen'
<1> USE DEF IInv
<1>1. sockets \in Seq(Socket)
  BY DEF TypeOK
<1>2. sockets' \in Seq(Socket)
  BY <1>1
<1>3. \A s \in DOMAIN sockets : s \in DOMAIN sockets' /\ sockets'[s] = sockets[s]
  BY <1>1
<1>4. \A s \in DOMAIN sockets' \ DOMAIN sockets : sockets'[s].pool = m
  <2> SUFFICES ASSUME NEW s \in DOMAIN sockets' \ DOMAIN sockets
               PROVE  sockets'[s].pool = m
    OBVIOUS
  <2>1. s \in Nat /\ s > Len(sockets) /\ s <= Len(sockets) + Len(created)
    BY <1>1
  <2>2. s - Len(sockets) \in DOMAIN created /\ sockets'[s] = created[s - Len(sockets)]
    BY <1>1, <2>1
  <2> QED
    BY <2>2
<1>5. NothingLeftOpen'
  <2> SUFFICES ASSUME NEW s \in DOMAIN sockets', sockets'[s].state # "closed"
               PROVE  stage[sockets'[s].pool] = "live"
    BY DEF NothingLeftOpen
  <2>1. CASE s \in DOMAIN sockets
    BY <1>3, <2>1 DEF NothingLeftOpen
  <2>2. CASE s \notin DOMAIN sockets
    BY <1>4, <2>2
  <2> QED
    BY <2>1, <2>2
<1> QED
  BY <1>2, <1>3, <1>5

LEMMA MadeType ==
    ASSUME NEW m \in Messengers, NEW state \in PastConnect, NEW nonblock \in BOOLEAN
    PROVE  /\ Made(m, state, nonblock) \in Socket
           /\ Made(m, state, nonblock).pool = m
           /\ Made(m, state, nonblock).state = state
BY DEF Made, Socket, PastConnect

LEMMA AbandonedType ==
    ASSUME NEW m \in Messengers, NEW step, NEW peer \in PastConnect
    PROVE  /\ Abandoned(m, step, peer) \in Seq(Socket)
           /\ \A i \in DOMAIN Abandoned(m, step, peer) :
                 Abandoned(m, step, peer)[i].pool = m
<1>1. \/ Abandoned(m, step, peer) = <<>>
      \/ \E state \in PastConnect, nonblock \in BOOLEAN :
            Abandoned(m, step, peer) = <<Made(m, state, nonblock)>>
  BY DEF Abandoned, PastConnect
<1>2. CASE Abandoned(m, step, peer) = <<>>
  BY <1>2
<1>3. ASSUME NEW state \in PastConnect, NEW nonblock \in BOOLEAN,
             Abandoned(m, step, peer) = <<Made(m, state, nonblock)>>
      PROVE  /\ Abandoned(m, step, peer) \in Seq(Socket)
             /\ \A i \in DOMAIN Abandoned(m, step, peer) :
                   Abandoned(m, step, peer)[i].pool = m
  BY <1>3, MadeType
<1> QED
  BY <1>1, <1>2, <1>3

LEMMA TimeoutSetType ==
    ASSUME NEW socket \in Socket, NEW t \in Timeouts
    PROVE  /\ apr_socket_timeout_set(socket, t) \in Socket
           /\ apr_socket_timeout_set(socket, t).pool = socket.pool
           /\ apr_socket_timeout_set(socket, t).state = socket.state
<1> DEFINE waits == t >= 0
           changed == waits # (socket.timeout >= 0)
           mode == IF changed THEN waits ELSE socket.nonblock
<1>1. waits \in BOOLEAN
  OBVIOUS
<1>2. socket.nonblock \in BOOLEAN
  BY DEF Socket
<1>3. mode \in BOOLEAN
  <2> HIDE DEF waits, changed
  <2> QED
    BY <1>1, <1>2, Zenon
<1>4. apr_socket_timeout_set(socket, t) = [socket EXCEPT !.timeout = t, !.nonblock = mode]
  BY DEF apr_socket_timeout_set
<1> HIDE DEF mode
<1> QED
  BY <1>3, <1>4 DEF Socket

LEMMA ConnectKeeps ==
    ASSUME IInv, NEW m \in Messengers, NEW t \in Timeouts, stomp_connect(m, t)
    PROVE  IInv'
<1> USE DEF IInv
<1>1. /\ stage[m] = "live"
      /\ UNCHANGED <<initialized, pools, stage>>
  BY DEF stomp_connect
<1>2. sockets \in Seq(Socket) /\ connection \in [Messengers -> DOMAIN sockets \cup {NoSocket}]
  BY DEF TypeOK
<1>3. Counted'
  BY <1>1 DEF Counted
<1>4. ASSUME NEW i \in DOMAIN Steps, stomp_engine_connect_fails(m, Steps[i]),
             status' = [status EXCEPT ![m] =
                           stomp_status_set(STOMP_FAILURE, "connect", error'.detail)],
             UNCHANGED established
      PROVE  TypeOK' /\ NewIsUnconnected' /\ NothingLeftOpen' /\ ConnectionUsable'
  <2>1. PICK peer \in PastConnect : sockets' = sockets \o Abandoned(m, Steps[i], peer)
    BY <1>4 DEF stomp_engine_connect_fails
  <2>2. /\ sockets' \in Seq(Socket)
        /\ DOMAIN sockets \subseteq DOMAIN sockets'
        /\ \A s \in DOMAIN sockets : sockets'[s] = sockets[s]
        /\ NothingLeftOpen'
    <3>1. /\ Abandoned(m, Steps[i], peer) \in Seq(Socket)
          /\ \A j \in DOMAIN Abandoned(m, Steps[i], peer) :
                Abandoned(m, Steps[i], peer)[j].pool = m
      BY AbandonedType
    <3> QED
      BY <1>1, <2>1, <3>1, CreatedSockets
  <2>3. connection' = connection
    BY <1>2, <1>4 DEF stomp_engine_connect_fails, ReferenceAfterFailure
  <2>4. error'.code \in StatusCode
    BY <1>4, StatusSet, FailureIsACode DEF stomp_engine_connect_fails
  <2>5. \A n \in Messengers : status'[n].code \in StatusCode
    BY <1>4, StatusSet, FailureIsACode DEF TypeOK
  <2>6. TypeOK'
    BY <1>1, <1>2, <1>4, <2>2, <2>3, <2>4, <2>5 DEF TypeOK
  <2>7. ConnectionUsable'
    <3> SUFFICES ASSUME NEW n \in Messengers, InUse(n)'
                 PROVE  Usable(n)'
      BY DEF ConnectionUsable, Usable
    <3>1. InUse(n) /\ connection[n] \in DOMAIN sockets
      BY <1>1, <1>2, <2>3 DEF InUse
    <3>2. Usable(n)
      BY <3>1, UsableConnections
    <3> QED
      BY <1>4, <2>2, <2>3, <3>1, <3>2 DEF Usable
  <2> QED
    BY <1>1, <2>2, <2>3, <2>6, <2>7 DEF NewIsUnconnected
<1>5. ASSUME NEW peer \in PastConnect, NEW success \in BOOLEAN,
             stomp_engine_connect(m, t, peer), success => peer = "connected",
             established' = [established EXCEPT ![m] = success],
             \A n \in Messengers : status'[n].code \in StatusCode
      PROVE  TypeOK' /\ NewIsUnconnected' /\ NothingLeftOpen' /\ ConnectionUsable'
  <2> DEFINE new == apr_socket_timeout_set(Made(m, peer, TRUE), t)
  <2>1. new \in Socket /\ new.pool = m /\ new.state = peer
    <3>1. Made(m, peer, TRUE) \in Socket /\ Made(m, peer, TRUE).pool = m
          /\ Made(m, peer, TRUE).state = peer
      BY MadeType
    <3> QED
      BY <3>1, TimeoutSetType
  <2>2. /\ sockets' = Append(sockets, new)
        /\ connection' = [connection EXCEPT ![m] = Len(sockets')]
        /\ error' = error
    BY <1>5 DEF stomp_engine_connect
  <2> HIDE DEF new
  <2>3. <<new>> \in Seq(Socket) /\ \A i \in DOMAIN <<new>> : <<new>>[i].pool = m
    BY <2>1
  <2>4. sockets' = sockets \o <<new>>
    BY <1>2, <2>2
  <2>5. /\ sockets' \in Seq(Socket)
        /\ DOMAIN sockets \subseteq DOMAIN sockets'
        /\ \A s \in DOMAIN sockets : sockets'[s] = sockets[s]
        /\ NothingLeftOpen'
    BY <1>1, <2>3, <2>4, CreatedSockets
  <2>6. Len(sockets') \in DOMAIN sockets' /\ sockets'[Len(sockets')] = new
    BY <1>2, <2>1, <2>2
  <2>7. connection' \in [Messengers -> DOMAIN sockets' \cup {NoSocket}]
    BY <1>2, <2>2, <2>5, <2>6
  <2>8. established \in [Messengers -> BOOLEAN]
    BY DEF TypeOK
  <2>9. TypeOK'
    <3>1. established' \in [Messengers -> BOOLEAN]
      BY <1>5, <2>8
    <3> QED
      BY <1>1, <1>5, <2>2, <2>5, <2>7, <3>1 DEF TypeOK
  <2>10. ConnectionUsable'
    <3> SUFFICES ASSUME NEW n \in Messengers, InUse(n)'
                 PROVE  Usable(n)'
      BY DEF ConnectionUsable, Usable
    <3>1. CASE n = m
      <4>1. sockets'[connection'[n]] = new /\ established'[n] = success
        BY <1>2, <1>5, <2>2, <2>6, <2>8, <3>1
      <4>2. peer # "closed"
        BY DEF PastConnect
      <4> QED
        BY <1>5, <2>1, <3>1, <4>1, <4>2 DEF Usable
    <3>2. CASE n # m
      <4>1. connection'[n] = connection[n] /\ established'[n] = established[n] /\ InUse(n)
        BY <1>1, <1>2, <1>5, <2>2, <2>8, <3>2 DEF InUse
      <4>2. connection[n] \in DOMAIN sockets
        BY <1>2, <4>1 DEF InUse
      <4>3. Usable(n)
        BY <4>1, UsableConnections
      <4> QED
        BY <2>5, <4>1, <4>2, <4>3 DEF Usable
    <3> QED
      BY <3>1, <3>2
  <2>11. NewIsUnconnected'
    BY <1>1, <1>2, <2>2 DEF NewIsUnconnected
  <2> QED
    BY <2>5, <2>9, <2>10, <2>11
<1>6. CASE \E i \in DOMAIN Steps :
              /\ stomp_engine_connect_fails(m, Steps[i])
              /\ status' = [status EXCEPT ![m] =
                               stomp_status_set(STOMP_FAILURE, "connect", error'.detail)]
              /\ UNCHANGED established
  BY <1>3, <1>4, <1>6
<1>7. CASE /\ stomp_engine_connect(m, t, "connected")
           /\ established' = [established EXCEPT ![m] = TRUE]
           /\ UNCHANGED status
  <2>1. \A n \in Messengers : status'[n].code \in StatusCode
    BY <1>7 DEF TypeOK
  <2>2. "connected" \in PastConnect
    BY DEF PastConnect
  <2> QED
    BY <1>3, <1>5, <1>7, <2>1, <2>2
<1>8. ASSUME NEW peer \in PastConnect,
             stomp_engine_connect(m, t, peer),
             established' = [established EXCEPT ![m] = FALSE],
             status' = [status EXCEPT ![m] =
                           stomp_status_set(STOMP_FAILURE, "handshake", error.detail)]
      PROVE  IInv'
  <2>1. \A n \in Messengers : status'[n].code \in StatusCode
    BY <1>8, StatusSet, FailureIsACode DEF TypeOK
  <2> QED
    BY <1>3, <1>5, <1>8, <2>1
<1> QED
  BY <1>6, <1>7, <1>8 DEF stomp_connect

\* What is done to the connection of a messenger, closing it or setting its timeout,
\* is done to a socket of its own.
LEMMA OwnSocket ==
    ASSUME IInv, NEW m \in Messengers, InUse(m)
    PROVE  /\ connection[m] \in DOMAIN sockets
           /\ sockets[connection[m]] \in Socket
           /\ sockets[connection[m]].pool = m
           /\ \A n \in Messengers \ {m} : InUse(n) =>
                 connection[n] \in DOMAIN sockets /\ connection[n] # connection[m]
<1> USE DEF IInv
<1>1. \A n \in Messengers : InUse(n) =>
         connection[n] \in DOMAIN sockets /\ sockets[connection[n]].pool = n
  BY UsableConnections DEF TypeOK, InUse, Usable
<1> QED
  BY <1>1, SocketType

LEMMA SetTimeoutKeeps ==
    ASSUME IInv, NEW m \in Messengers, NEW t \in Timeouts, stomp_messenger_set_timeout(m, t)
    PROVE  IInv'
<1> USE DEF IInv
<1> DEFINE c == connection[m]
           set == apr_socket_timeout_set(sockets[c], t)
<1>1. /\ InUse(m)
      /\ sockets' = [sockets EXCEPT ![c] = set]
      /\ UNCHANGED <<initialized, pools, stage, connection, established, error, status>>
  BY DEF stomp_messenger_set_timeout
<1>2. c \in DOMAIN sockets /\ sockets[c] \in Socket
  BY <1>1, OwnSocket
<1>3. set \in Socket /\ set.pool = sockets[c].pool /\ set.state = sockets[c].state
  BY <1>2, TimeoutSetType
<1> HIDE DEF set
<1>4. sockets' \in Seq(Socket) /\ DOMAIN sockets' = DOMAIN sockets
  BY <1>1, <1>2, <1>3 DEF TypeOK
<1>5. \A s \in DOMAIN sockets : /\ sockets'[s].pool = sockets[s].pool
                               /\ sockets'[s].state = sockets[s].state
  BY <1>1, <1>2, <1>3
<1>6. TypeOK' /\ Counted' /\ NewIsUnconnected'
  BY <1>1, <1>4 DEF TypeOK, Counted, NewIsUnconnected
<1>7. NothingLeftOpen'
  BY <1>1, <1>4, <1>5 DEF NothingLeftOpen
<1>8. ConnectionUsable'
  <2> SUFFICES ASSUME NEW n \in Messengers, InUse(n)'
               PROVE  Usable(n)'
    BY DEF ConnectionUsable, Usable
  <2>1. InUse(n) /\ connection[n] \in DOMAIN sockets
    BY <1>1 DEF TypeOK, InUse
  <2>2. Usable(n)
    BY <2>1, UsableConnections
  <2> QED
    BY <1>1, <1>5, <2>1, <2>2 DEF Usable
<1> QED
  BY <1>6, <1>7, <1>8

LEMMA DisconnectKeeps ==
    ASSUME IInv, NEW m \in Messengers, stomp_disconnect(m)
    PROVE  IInv'
<1> USE DEF IInv
<1>1. UNCHANGED <<initialized, pools, stage, connection, sockets, established, error>>
  BY DEF stomp_disconnect
<1>2. \A n \in Messengers : status'[n].code \in StatusCode
  <2>1. CASE UNCHANGED status
    BY <2>1 DEF TypeOK
  <2>2. CASE status' = [status EXCEPT ![m] =
                           stomp_status_set(STOMP_FAILURE, "disconnect", error.detail)]
    BY <2>2, StatusSet, FailureIsACode DEF TypeOK
  <2> QED
    BY <2>1, <2>2 DEF stomp_disconnect
<1>3. TypeOK' /\ Counted' /\ NewIsUnconnected' /\ NothingLeftOpen'
  BY <1>1, <1>2 DEF TypeOK, Counted, NewIsUnconnected, NothingLeftOpen
<1>4. ConnectionUsable'
  BY <1>1 DEF ConnectionUsable, InUse
<1> QED
  BY <1>3, <1>4

LEMMA EngineDisconnectKeeps ==
    ASSUME IInv, NEW m \in Messengers, stomp_engine_disconnect(m)
    PROVE  IInv'
<1> USE DEF IInv
<1>1. stage[m] = "live" /\ UNCHANGED <<initialized, pools, stage, status>>
  BY DEF stomp_engine_disconnect
<1>2. CASE connection[m] = NoSocket
  <2>1. error' = stomp_status_set(STOMP_FAILURE, "connection", Null)
        /\ UNCHANGED <<connection, sockets, established>>
    BY <1>2 DEF stomp_engine_disconnect
  <2>2. error'.code \in StatusCode
    BY <2>1, StatusSet, FailureIsACode
  <2>3. TypeOK' /\ Counted' /\ NewIsUnconnected' /\ NothingLeftOpen'
    BY <1>1, <2>1, <2>2 DEF TypeOK, Counted, NewIsUnconnected, NothingLeftOpen
  <2>4. ConnectionUsable'
    BY <1>1, <2>1 DEF ConnectionUsable, InUse
  <2> QED
    BY <2>3, <2>4
<1>3. CASE connection[m] # NoSocket
  <2> DEFINE c == connection[m]
  <2>1. /\ sockets' = [sockets EXCEPT ![c] = Closed(sockets[c])]
        /\ connection' = [connection EXCEPT ![m] = NoSocket]
        /\ established' = [established EXCEPT ![m] = FALSE]
        /\ UNCHANGED error
    BY <1>3 DEF stomp_engine_disconnect
  <2>2. InUse(m)
    BY <1>1, <1>3 DEF InUse
  <2>3. c \in DOMAIN sockets /\ sockets[c] \in Socket
    BY <2>2, OwnSocket
  <2>4. Closed(sockets[c]) \in Socket /\ Closed(sockets[c]).state = "closed"
    BY <2>3 DEF Closed, Socket
  <2>5. sockets' \in Seq(Socket) /\ DOMAIN sockets' = DOMAIN sockets
    BY <2>1, <2>3, <2>4 DEF TypeOK
  <2>6. connection' \in [Messengers -> DOMAIN sockets' \cup {NoSocket}]
    BY <2>1, <2>5 DEF TypeOK
  <2>7. TypeOK' /\ Counted'
    BY <1>1, <2>1, <2>5, <2>6 DEF TypeOK, Counted
  <2>8. NothingLeftOpen'
    <3> SUFFICES ASSUME NEW s \in DOMAIN sockets, sockets'[s].state # "closed"
                 PROVE  stage[sockets'[s].pool] = "live"
      BY <1>1, <2>5 DEF NothingLeftOpen
    <3>1. s # c
      BY <2>1, <2>3, <2>4
    <3> QED
      BY <2>1, <3>1 DEF NothingLeftOpen
  <2>9. ConnectionUsable'
    <3> SUFFICES ASSUME NEW n \in Messengers, InUse(n)'
                 PROVE  Usable(n)'
      BY DEF ConnectionUsable, Usable
    <3>1. /\ connection \in [Messengers -> DOMAIN sockets \cup {NoSocket}]
          /\ established \in [Messengers -> BOOLEAN]
      BY DEF TypeOK
    <3>2. n # m /\ connection'[n] = connection[n] /\ InUse(n)
          /\ established'[n] = established[n]
      BY <1>1, <2>1, <3>1 DEF InUse
    <3>3. connection[n] \in DOMAIN sockets /\ connection[n] # c
      BY <2>2, <3>2, OwnSocket
    <3>4. Usable(n)
      BY <3>2, UsableConnections
    <3> QED
      BY <2>1, <3>2, <3>3, <3>4 DEF Usable
  <2>10. NewIsUnconnected'
    BY <1>1, <2>1 DEF NewIsUnconnected, TypeOK
  <2> QED
    BY <2>7, <2>8, <2>9, <2>10
<1> QED
  BY <1>2, <1>3

LEMMA NextIInv == IInv /\ [Next]_vars => IInv'
<1> SUFFICES ASSUME IInv, [Next]_vars PROVE IInv'
  OBVIOUS
<1>1. CASE \E m \in Messengers : stomp_messenger_init(m)
  BY <1>1, InitKeeps
<1>2. CASE \E m \in Messengers : stomp_messenger_destroy(m)
  BY <1>2, DestroyKeeps
<1>3. CASE \E m \in Messengers, t \in Timeouts : stomp_connect(m, t)
  BY <1>3, ConnectKeeps
<1>4. CASE \E m \in Messengers, t \in Timeouts : stomp_messenger_set_timeout(m, t)
  BY <1>4, SetTimeoutKeeps
<1>5. CASE \E m \in Messengers : stomp_disconnect(m)
  BY <1>5, DisconnectKeeps
<1>6. CASE \E m \in Messengers : stomp_engine_disconnect(m)
  BY <1>6, EngineDisconnectKeeps
<1>7. CASE UNCHANGED vars
  BY <1>7 DEF vars, IInv, TypeOK, Counted, NewIsUnconnected, NothingLeftOpen,
              ConnectionUsable, InUse
<1> QED
  BY <1>1, <1>2, <1>3, <1>4, <1>5, <1>6, <1>7 DEF Next

\* The invariant holds of every state of the process.
LEMMA InvariantHolds == Spec => []IInv
<1>1. Init => IInv
  BY InitIInv
<1>2. IInv /\ [Next]_vars => IInv'
  BY NextIInv
<1> QED
  BY <1>1, <1>2, PTL DEF Spec
-----------------------------------------------------------------------------
(* What holds of the life of the messengers *)

\* Every variable has its type, whatever messengers and timeouts there are: in
\* particular the connection of a messenger is one of the sockets or none at all
\* (stomp_engine_connect, stomp_engine_disconnect).
THEOREM TypeCorrect == Spec => []TypeOK
<1>1. IInv => TypeOK
  BY DEF IInv
<1> QED
  BY <1>1, InvariantHolds, PTL

\* A messenger in use has its pool, however many messengers were made and destroyed
\* in between: apr_terminate is not called for the last time while one is in use
\* (stomp_messenger_init, stomp_messenger_destroy).
THEOREM PoolStays == Spec => []PoolWhileInUse
<1>1. IInv => PoolWhileInUse
  BY DEF IInv, Counted, PoolWhileInUse
<1> QED
  BY <1>1, InvariantHolds, PTL

\* The messenger takes every socket with it, those included that no call refers to any
\* more after a failed or a repeated connect (stomp_messenger_destroy).
THEOREM DestroyCloses == Spec => []NothingLeftOpen
<1>1. IInv => NothingLeftOpen
  BY DEF IInv
<1> QED
  BY <1>1, InvariantHolds, PTL

\* The connection of a messenger in use belongs to it and was not closed, and has a peer
\* when the stomp_connect that made it succeeded: neither a connect that fails later
\* nor one that gets past EAGAIN leaves it otherwise (stomp_engine_connect,
\* stomp_connect).
THEOREM ConnectionIsUsable == Spec => []ConnectionUsable
<1>1. IInv => ConnectionUsable
  BY DEF IInv
<1> QED
  BY <1>1, InvariantHolds, PTL

\* A connect that fails in the engine leaves every connection and every socket that
\* there was as it found them (stomp_engine_connect).
THEOREM FailureKeepsConnection == Spec => FailedConnectKeeps
<1> DEFINE Failed == last'.call = "connect" /\ last'.failed \in Range(Steps)
           Kept == /\ connection' = connection
                   /\ \A s \in DOMAIN sockets : sockets'[s] = sockets[s]
<1>1. \A m \in Messengers, t \in Timeouts :
         IInv /\ stomp_connect(m, t) /\ Failed => Kept
  <2> SUFFICES ASSUME NEW m \in Messengers, NEW t \in Timeouts,
                      IInv, stomp_connect(m, t), Failed
               PROVE  Kept
    OBVIOUS
  <2>1. Null \notin Range(Steps) /\ "handshake" \notin Range(Steps)
    BY DEF Range, Steps, Null
  <2>2. PICK i \in DOMAIN Steps : stomp_engine_connect_fails(m, Steps[i])
    BY <2>1 DEF stomp_connect, Called
  <2>3. PICK peer \in PastConnect :
           /\ sockets' = sockets \o Abandoned(m, Steps[i], peer)
           /\ connection' = [connection EXCEPT ![m] = connection[m]]
    BY <2>2 DEF stomp_engine_connect_fails, ReferenceAfterFailure
  <2>4. connection' = connection
    BY <2>3 DEF IInv, TypeOK
  <2>5. \A s \in DOMAIN sockets : sockets'[s] = sockets[s]
    <3>1. stage[m] = "live" /\ UNCHANGED stage
      BY DEF stomp_connect
    <3>2. /\ Abandoned(m, Steps[i], peer) \in Seq(Socket)
          /\ \A j \in DOMAIN Abandoned(m, Steps[i], peer) :
                Abandoned(m, Steps[i], peer)[j].pool = m
      BY AbandonedType
    <3> QED
      BY <2>3, <3>1, <3>2, CreatedSockets
  <2> QED
    BY <2>4, <2>5
<1>2. \A m \in Messengers : /\ stomp_messenger_init(m) => ~Failed
                            /\ stomp_messenger_destroy(m) => ~Failed
                            /\ stomp_disconnect(m) => ~Failed
                            /\ stomp_engine_disconnect(m) => ~Failed
  <2> SUFFICES ASSUME NEW m \in Messengers
               PROVE  /\ stomp_messenger_init(m) => ~Failed
                      /\ stomp_messenger_destroy(m) => ~Failed
                      /\ stomp_disconnect(m) => ~Failed
                      /\ stomp_engine_disconnect(m) => ~Failed
    OBVIOUS
  <2>1. stomp_messenger_init(m) => ~Failed
    BY DEF stomp_messenger_init, Called
  <2>2. stomp_messenger_destroy(m) => ~Failed
    BY DEF stomp_messenger_destroy, Called
  <2>3. stomp_disconnect(m) => ~Failed
    BY DEF stomp_disconnect, Called
  <2>4. stomp_engine_disconnect(m) => last'.call = "engine disconnect"
    <3> SUFFICES ASSUME stomp_engine_disconnect(m)
                 PROVE  last'.call = "engine disconnect"
      OBVIOUS
    <3>1. PICK ret, failed : Called("engine disconnect", m, ret, failed)
      BY Zenon DEF stomp_engine_disconnect
    <3>2. last' = [call |-> "engine disconnect", m |-> m, ret |-> ret, failed |-> failed]
      BY <3>1 DEF Called
    <3> QED
      BY <3>2
  <2> QED
    BY <2>1, <2>2, <2>3, <2>4
<1>3. \A m \in Messengers, t \in Timeouts : stomp_messenger_set_timeout(m, t) => ~Failed
  BY DEF stomp_messenger_set_timeout, Called
<1>4. IInv /\ [Next]_vars => [Failed => Kept]_vars
  BY <1>1, <1>2, <1>3 DEF Next
<1>5. Spec => [][Failed => Kept]_vars
  BY <1>4, InvariantHolds, PTL DEF Spec
<1> QED
  BY <1>5 DEF FailedConnectKeeps
=============================================================================
