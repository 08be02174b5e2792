----------------------- MODULE StompTransactionsProofs -----------------------
(***************************************************************************)
(* For every set of ids that an int can tell apart, whatever its width:    *)
(* the queue holds what the application wants there, and the broker never  *)
(* refuses.  The invariant behind this is that the open transactions of    *)
(* the broker are those of the application, each under its narrowed id and *)
(* with the messages that were sent in it.                                 *)
(***************************************************************************)
EXTENDS StompTransactions, TLAPS

\* No two ids become one when they are narrowed.
ToldApart == \A i, j \in Ids : apr_itoa(i) = apr_itoa(j) => i = j

Fates == [is : {"unsent", "wanted", "in", "unwanted"}, id : Ids \cup {None}]

Types == /\ begun \subseteq Ids
         /\ fate \in [Messages -> Fates]
         /\ \A m \in Messages : fate[m].is = "in" => fate[m].id \in begun

Agree == /\ DOMAIN transactions = {apr_itoa(id) : id \in begun}
         /\ \A id \in begun : transactions[apr_itoa(id)] = In(id)

IInv == Types /\ Agree /\ QueueAsAsked /\ NeverRefused

LEMMA IdIsWritten ==
    ASSUME NEW id \in Ids
    PROVE  /\ stomp_write_transaction_id(id) = apr_itoa(id)
           /\ apr_itoa(id) # NoId
           /\ id # None
<1>1. id \in Nat
  BY IdsAssumption
<1>2. apr_itoa(id) \in Int
  BY <1>1, WrapAssumption DEF apr_itoa
<1> QED
  BY <1>1, <1>2, NoIdAssumption DEF stomp_write_transaction_id, None

LEMMA NoneIsNotWritten == stomp_write_transaction_id(None) = NoId
BY DEF stomp_write_transaction_id, None

LEMMA InitIInv == Init => IInv
<1> SUFFICES ASSUME Init PROVE IInv
  OBVIOUS
<1>1. \A m \in Messages : fate[m] = [is |-> "unsent", id |-> None]
  BY DEF Init, Fate
<1>2. Types
  BY <1>1 DEF Init, Types, Fates, Fate
<1>3. Agree
  BY DEF Init, Agree
<1>4. QueueAsAsked
  BY <1>1 DEF Init, QueueAsAsked
<1> QED
  BY <1>2, <1>3, <1>4 DEF Init, IInv, NeverRefused

LEMMA BeginKeeps ==
    ASSUME ToldApart, IInv, NEW id \in Ids, stomp_begin(id)
    PROVE  IInv'
<1>1. /\ id \notin begun /\ begun' = begun \cup {id} /\ fate' = fate
      /\ Begin(apr_itoa(id))
  BY IdIsWritten DEF stomp_begin
<1>2. Types /\ Agree /\ QueueAsAsked /\ NeverRefused
  BY DEF IInv
<1>3. ~Open(apr_itoa(id))
  BY <1>1, <1>2 DEF Open, Agree, Types, ToldApart
<1>4. /\ transactions' = [k \in DOMAIN transactions \cup {apr_itoa(id)} |->
                             IF k = apr_itoa(id) THEN {} ELSE transactions[k]]
      /\ queue' = queue /\ refused' = refused
  BY <1>1, <1>3, IdIsWritten DEF Begin
<1>5. Types'
  BY <1>1, <1>2 DEF Types
<1>6. In(id) = {}
  BY <1>1, <1>2 DEF In, Types, Fate
<1>7. Agree'
  <2>1. DOMAIN transactions' = {apr_itoa(i) : i \in begun'}
    BY <1>1, <1>2, <1>4 DEF Agree
  <2>2. ASSUME NEW i \in begun' PROVE transactions'[apr_itoa(i)] = In(i)'
    <3>1. In(i)' = In(i)
      BY <1>1 DEF In
    <3>2. CASE i = id
      BY <3>1, <3>2, <1>4, <1>6
    <3>3. CASE i # id
      <4>1. i \in begun /\ apr_itoa(i) # apr_itoa(id)
        BY <3>3, <1>1, <1>2 DEF Types, ToldApart
      <4> QED
        BY <4>1, <3>1, <1>2, <1>4 DEF Agree
    <3> QED
      BY <3>2, <3>3
  <2> QED
    BY <2>1, <2>2 DEF Agree
<1> QED
  BY <1>1, <1>2, <1>4, <1>5, <1>7 DEF IInv, QueueAsAsked, NeverRefused

\* A transaction ends, and its messages get the outcome.
LEMMA EndKeeps ==
    ASSUME ToldApart, IInv, NEW id \in Ids,
           NEW command \in {"COMMIT", "ABORT"},
           NEW outcome, outcome = IF command = "COMMIT" THEN "wanted" ELSE "unwanted",
           Ends(id, outcome), End(command, stomp_write_transaction_id(id))
    PROVE  IInv'
<1>1. /\ id \in begun /\ begun' = begun \ {id}
      /\ fate' = [m \in Messages |-> IF m \in In(id) THEN Fate(outcome, id) ELSE fate[m]]
      /\ End(command, apr_itoa(id))
  BY IdIsWritten DEF Ends
<1>2. Types /\ Agree /\ QueueAsAsked /\ NeverRefused
  BY DEF IInv
<1>3. Open(apr_itoa(id)) /\ transactions[apr_itoa(id)] = In(id)
  BY <1>1, <1>2 DEF Open, Agree
<1>4. /\ queue' = IF command = "COMMIT" THEN queue \cup In(id) ELSE queue
      /\ transactions' = Restrict(transactions, DOMAIN transactions \ {apr_itoa(id)})
      /\ refused' = refused
  BY <1>1, <1>3, IdIsWritten DEF End
<1>5. \A m \in Messages : fate'[m] = IF m \in In(id) THEN Fate(outcome, id) ELSE fate[m]
  BY <1>1
<1>6. Types'
  <2>1. Fate(outcome, id) \in Fates
    BY DEF Fate, Fates
  <2>2. fate' \in [Messages -> Fates]
    BY <2>1, <1>1, <1>2 DEF Types
  <2>3. ASSUME NEW m \in Messages, fate'[m].is = "in" PROVE fate'[m].id \in begun'
    <3>1. m \notin In(id)
      BY <2>3, <1>5 DEF Fate
    <3>2. fate'[m] = fate[m] /\ fate[m].id \in begun
      BY <2>3, <3>1, <1>2, <1>5 DEF Types
    <3>3. fate[m].id # id
      <4>1. fate[m] \in Fates
        BY <1>2 DEF Types
      <4>2. fate[m] = [is |-> fate[m].is, id |-> fate[m].id]
        BY <4>1 DEF Fates
      <4> QED
        BY <4>2, <2>3, <3>1, <3>2 DEF In, Fate
    <3> QED
      BY <3>2, <3>3, <1>1
  <2> QED
    BY <2>2, <2>3, <1>1, <1>2 DEF Types
<1>7. Agree'
  <2>1. DOMAIN transactions' = {apr_itoa(i) : i \in begun'}
    <3>1. DOMAIN transactions' = DOMAIN transactions \ {apr_itoa(id)}
      BY <1>4 DEF Restrict
    <3> QED
      BY <3>1, <1>1, <1>2 DEF Agree, Types, ToldApart
  <2>2. ASSUME NEW i \in begun' PROVE transactions'[apr_itoa(i)] = In(i)'
    <3>1. i \in begun /\ i # id /\ apr_itoa(i) # apr_itoa(id)
      BY <1>1, <1>2 DEF Types, ToldApart
    <3>2. transactions'[apr_itoa(i)] = transactions[apr_itoa(i)]
      BY <3>1, <1>2, <1>4 DEF Restrict, Agree
    <3>3. ASSUME NEW m \in Messages
          PROVE  fate'[m] = Fate("in", i) <=> fate[m] = Fate("in", i)
      BY <1>5, <3>1 DEF In, Fate
    <3>4. In(i)' = In(i)
      BY <3>3 DEF In, Fate
    <3> QED
      BY <3>1, <3>2, <3>4, <1>2 DEF Agree
  <2> QED
    BY <2>1, <2>2 DEF Agree
<1>8. QueueAsAsked'
  <2>1. \A m \in Messages : m \in In(id) => fate[m].is = "in"
    BY DEF In, Fate
  <2>2. \A m \in Messages : fate'[m].is = IF m \in In(id) THEN outcome ELSE fate[m].is
    BY <1>5 DEF Fate
  <2>3. In(id) \subseteq Messages
    BY DEF In
  <2>4. queue = {m \in Messages : fate[m].is = "wanted"}
    BY <1>2 DEF QueueAsAsked
  <2>5. CASE command = "COMMIT"
    BY <2>1, <2>2, <2>3, <2>4, <2>5, <1>4 DEF QueueAsAsked
  <2>6. CASE command = "ABORT"
    BY <2>1, <2>2, <2>3, <2>4, <2>6, <1>4 DEF QueueAsAsked
  <2> QED
    BY <2>5, <2>6
<1> QED
  BY <1>2, <1>4, <1>6, <1>7, <1>8 DEF IInv, NeverRefused

LEMMA SendKeeps ==
    ASSUME ToldApart, IInv, NEW m \in Messages, NEW id \in Ids \cup {None},
           stomp_send(m, id)
    PROVE  IInv'
<1>1. /\ fate[m].is = "unsent" /\ id \in begun \cup {None} /\ begun' = begun
      /\ fate' = [fate EXCEPT ![m] = Fate(IF id = None THEN "wanted" ELSE "in", id)]
      /\ Send(stomp_write_transaction_id(id), m)
  BY DEF stomp_send
<1>2. Types /\ Agree /\ QueueAsAsked /\ NeverRefused
  BY DEF IInv
<1>3. \A k \in Messages : fate'[k] =
          IF k = m THEN Fate(IF id = None THEN "wanted" ELSE "in", id) ELSE fate[k]
  BY <1>1, <1>2 DEF Types
<1>4. queue = {k \in Messages : fate[k].is = "wanted"}
  BY <1>2 DEF QueueAsAsked
<1>5. Types'
  <2>1. Fate(IF id = None THEN "wanted" ELSE "in", id) \in Fates
    BY DEF Fate, Fates
  <2>2. fate' \in [Messages -> Fates]
    BY <2>1, <1>1, <1>2 DEF Types
  <2>3. ASSUME NEW k \in Messages, fate'[k].is = "in" PROVE fate'[k].id \in begun'
    BY <2>3, <1>1, <1>2, <1>3 DEF Types, Fate
  <2> QED
    BY <2>2, <2>3, <1>1, <1>2 DEF Types
<1>6. CASE id = None
  <2>1. queue' = queue \cup {m} /\ transactions' = transactions /\ refused' = refused
    BY <1>1, <1>6, NoneIsNotWritten DEF Send
  <2>2. \A i \in begun : In(i)' = In(i)
    <3>1. SUFFICES ASSUME NEW i \in begun, NEW k \in Messages
                   PROVE  fate'[k] = Fate("in", i) <=> fate[k] = Fate("in", i)
      BY DEF In, Fate
    <3> QED
      BY <1>1, <1>3, <1>6 DEF Fate
  <2>3. QueueAsAsked'
    BY <2>1, <1>3, <1>4, <1>6 DEF QueueAsAsked, Fate
  <2>4. Agree'
    BY <2>1, <2>2, <1>1, <1>2 DEF Agree
  <2> QED
    BY <2>1, <2>3, <2>4, <1>2, <1>5 DEF IInv, NeverRefused
<1>7. CASE id # None
  <2>1. id \in begun /\ id \in Ids
    BY <1>1, <1>7
  <2>2. Open(apr_itoa(id)) /\ stomp_write_transaction_id(id) = apr_itoa(id)
    BY <2>1, <1>2, IdIsWritten DEF Open, Agree
  <2>3. /\ transactions' = [transactions EXCEPT ![apr_itoa(id)] = @ \cup {m}]
        /\ queue' = queue /\ refused' = refused
    BY <2>1, <2>2, <1>1, IdIsWritten DEF Send
  <2>4. QueueAsAsked'
    BY <2>3, <1>1, <1>3, <1>4, <1>7 DEF QueueAsAsked, Fate
  <2>5. ASSUME NEW i \in begun PROVE transactions'[apr_itoa(i)] = In(i)'
    <3>1. transactions[apr_itoa(i)] = In(i) /\ apr_itoa(i) \in DOMAIN transactions
      BY <1>2 DEF Agree
    <3>2. CASE i = id
      <4>1. \A k \in Messages : fate'[k] = Fate("in", id) <=> k = m \/ fate[k] = Fate("in", id)
        BY <1>1, <1>3, <1>7 DEF Fate
      <4>2. In(i)' = In(i) \cup {m}
        BY <4>1, <3>2 DEF In, Fate
      <4> QED
        BY <4>2, <3>1, <3>2, <2>3
    <3>3. CASE i # id
      <4>1. \A k \in Messages : fate'[k] = Fate("in", i) <=> fate[k] = Fate("in", i)
        BY <1>1, <1>3, <1>7, <3>3 DEF Fate
      <4>2. In(i)' = In(i)
        BY <4>1 DEF In, Fate
      <4>3. apr_itoa(i) # apr_itoa(id)
        BY <3>3, <2>1, <1>2 DEF Types, ToldApart
      <4> QED
        BY <4>2, <4>3, <3>1, <2>3
    <3> QED
      BY <3>2, <3>3
  <2>6. Agree'
    BY <2>3, <2>5, <1>1, <1>2 DEF Agree
  <2> QED
    BY <2>3, <2>4, <2>6, <1>2, <1>5 DEF IInv, NeverRefused
<1> QED
  BY <1>6, <1>7

LEMMA OthersKeep ==
    ASSUME IInv, UNCHANGED <<begun, fate, transactions, queue, refused>>
    PROVE  IInv'
BY DEF IInv, Types, Agree, In, Fate, QueueAsAsked, NeverRefused

LEMMA NextIInv == ToldApart /\ IInv /\ [Next]_vars => IInv'
<1> SUFFICES ASSUME ToldApart, IInv, [Next]_vars PROVE IInv'
  OBVIOUS
<1>1. ASSUME NEW id \in Ids, stomp_begin(id) PROVE IInv'
  BY <1>1, BeginKeeps
<1>2. ASSUME NEW id \in Ids, stomp_commit(id) PROVE IInv'
  BY <1>2, EndKeeps DEF stomp_commit
<1>3. ASSUME NEW id \in Ids, stomp_abort(id) PROVE IInv'
  BY <1>3, EndKeeps DEF stomp_abort, AbortCommand
<1>4. ASSUME NEW m \in Messages, NEW id \in Ids \cup {None}, stomp_send(m, id) PROVE IInv'
  BY <1>4, SendKeeps
<1>5. ASSUME NEW ack \in {"AUTO", "CLIENT", "CLIENT_INDIVIDUAL"}, stomp_subscribe(ack)
      PROVE  IInv'
  BY <1>5, OthersKeep DEF stomp_subscribe, broker
<1>6. ASSUME NEW m \in Messages, stomp_receive(m) \/ stomp_ack(m) PROVE IInv'
  BY <1>6, OthersKeep DEF stomp_receive, stomp_ack, asked
<1>7. CASE UNCHANGED vars
  BY <1>7, OthersKeep DEF vars, asked, broker
<1> QED
  BY <1>1, <1>2, <1>3, <1>4, <1>5, <1>6, <1>7 DEF Next

LEMMA IInvHolds == ToldApart => (Spec => []IInv)
<1> SUFFICES ASSUME ToldApart PROVE Spec => []IInv
  OBVIOUS
<1>1. Init => IInv
  BY InitIInv
<1>2. IInv /\ [Next]_vars => IInv'
  BY NextIInv
<1> QED
  BY <1>1, <1>2, PTL DEF Spec

\* As long as the ids an application uses differ after they have been narrowed to an
\* int, of whatever width, its messages get into the queue when it wants them to, and
\* only then.
THEOREM TransactionsAsAsked == ToldApart => (Spec => []QueueAsAsked)
<1> SUFFICES ASSUME ToldApart PROVE Spec => []QueueAsAsked
  OBVIOUS
<1>1. IInv => QueueAsAsked
  BY DEF IInv
<1> QED
  BY <1>1, IInvHolds, PTL

\* Under the same condition the broker never refuses a request: a transaction is begun,
\* used and ended under one id (stomp_write_transaction_id).
THEOREM RequestsAreTaken == ToldApart => (Spec => []NeverRefused)
<1> SUFFICES ASSUME ToldApart PROVE Spec => []NeverRefused
  OBVIOUS
<1>1. IInv => NeverRefused
  BY DEF IInv
<1> QED
  BY <1>1, IInvHolds, PTL
=============================================================================
