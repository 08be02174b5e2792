-------------------------- MODULE StompTransactions --------------------------
(***************************************************************************)
(* What the ids of an application come to at the broker: transactions,     *)
(* and the acknowledgement of messages (stomp_begin, _commit, _abort,      *)
(* _send, _subscribe, _ack and _nack of stomp_messenger.c, seen for the    *)
(* headers they write).                                                    *)
(*                                                                         *)
(* The requests are carried out in the order they are written, and every   *)
(* one gets there: StompMessenger has the other cases.  The application    *)
(* keeps to the rules of the protocol; it ends only transactions it has    *)
(* begun, and begins none twice at a time.                                 *)
(***************************************************************************)
EXTENDS Integers, FiniteSets, Functions

CONSTANTS Ids,       \* the transaction_id_t an application uses for transactions
          Wrap,      \* how many numbers an int can be
          Messages,  \* what is sent, and later received
          NoId       \* a frame without a transaction header
ASSUME IdsAssumption == Ids \subseteq Nat
ASSUME WrapAssumption == Wrap \in Nat \ {0}
ASSUME NoIdAssumption == NoId \notin Int

VARIABLES begun,         \* the transactions the application has begun and not ended
          fate,          \* what the application wants of each message it sent
          mode,          \* the ack mode of its subscription
          transactions,  \* the messages in each open transaction of the broker
          queue,         \* the messages that ever got into the queue
          received,      \* those among them that were sent to the application
          kept,          \* those among them that await their acknowledgement
          acknowledged,  \* those the application has acknowledged
          refused        \* the broker has answered with an ERROR and hung up

asked == <<begun, fate, mode, acknowledged>>
broker == <<transactions, queue, received, kept>>
vars == <<asked, broker, refused>>

None == -1    \* what the application sets for a message outside transactions

Fate(is, id) == [is |-> is, id |-> id]

Init == /\ begun = {} /\ fate = [m \in Messages |-> Fate("unsent", None)]
        /\ mode = "none" /\ acknowledged = {}
        /\ transactions = [n \in {} |-> {}] /\ queue = {}
        /\ received = {} /\ kept = {}
        /\ refused = FALSE
-----------------------------------------------------------------------------
(* The headers *)

\* apr_itoa takes an int, to which a transaction_id_t of 64 bits is narrowed.
apr_itoa(n) == ((n + Wrap \div 2) % Wrap) - (Wrap \div 2)

\* Bug to try: 0 is no id, as with a receipt.
WritesPositiveId(id) == IF id > 0 THEN apr_itoa(id) ELSE NoId

\* Bug to try: the id is an int before it is looked at.
WritesNarrowed(id) == IF apr_itoa(id) > -1 THEN apr_itoa(id) ELSE NoId

stomp_write_transaction_id(id) == IF id > -1 THEN apr_itoa(id) ELSE NoId
-----------------------------------------------------------------------------
(* The broker *)

Open(n) == n \in DOMAIN transactions

Refuse == refused' = TRUE /\ UNCHANGED broker

Begin(n) == IF n = NoId \/ Open(n) THEN Refuse
            ELSE /\ transactions' = [k \in DOMAIN transactions \cup {n} |->
                                        IF k = n THEN {} ELSE transactions[k]]
                 /\ UNCHANGED <<queue, received, kept, refused>>

End(command, n) ==
    IF n = NoId \/ ~Open(n) THEN Refuse
    ELSE /\ queue' = IF command = "COMMIT" THEN queue \cup transactions[n] ELSE queue
         /\ transactions' = Restrict(transactions, DOMAIN transactions \ {n})
         /\ UNCHANGED <<received, kept, refused>>

Send(n, m) == IF n = NoId
              THEN /\ queue' = queue \cup {m}
                   /\ UNCHANGED <<transactions, received, kept, refused>>
              ELSE IF ~Open(n) THEN Refuse
              ELSE /\ transactions' = [transactions EXCEPT ![n] = @ \cup {m}]
                   /\ UNCHANGED <<queue, received, kept, refused>>
-----------------------------------------------------------------------------
(* The calls *)

stomp_begin(id) ==
    /\ ~refused /\ id \notin begun
    /\ begun' = begun \cup {id}
    /\ Begin(stomp_write_transaction_id(id))
    /\ UNCHANGED <<fate, mode, acknowledged>>

\* The messages the application sent in a transaction.
In(id) == {m \in Messages : fate[m] = Fate("in", id)}

Ends(id, outcome) ==
    /\ ~refused /\ id \in begun
    /\ begun' = begun \ {id}
    /\ fate' = [m \in Messages |-> IF m \in In(id) THEN Fate(outcome, id) ELSE fate[m]]
    /\ UNCHANGED <<mode, acknowledged>>

\* Bug to try: the command of stomp_commit.
CopiedCommand == "COMMIT"

AbortCommand == "ABORT"

stomp_commit(id) == /\ Ends(id, "wanted")
                    /\ End("COMMIT", stomp_write_transaction_id(id))
stomp_abort(id) == /\ Ends(id, "unwanted")
                   /\ End(AbortCommand, stomp_write_transaction_id(id))

\* A send header that was only cleared has the transaction 0; the application sets
\* None for a message outside transactions.
stomp_send(m, id) ==
    /\ ~refused /\ fate[m].is = "unsent"
    /\ id \in begun \cup {None}
    /\ fate' = [fate EXCEPT ![m] = Fate(IF id = None THEN "wanted" ELSE "in", id)]
    /\ Send(stomp_write_transaction_id(id), m)
    /\ UNCHANGED <<begun, mode, acknowledged>>

\* header->ack is not written, and without an ack header the mode is auto.
AckHeader(ack) == "AUTO"

stomp_subscribe(ack) ==
    /\ ~refused /\ mode = "none"
    /\ mode' = ack
    /\ UNCHANGED <<begun, fate, acknowledged, broker, refused>>

\* In auto mode the broker is done with a message that it has sent.
stomp_receive(m) ==
    /\ ~refused /\ mode # "none"
    /\ m \in queue \ received
    /\ received' = received \cup {m}
    /\ kept' = IF AckHeader(mode) = "AUTO" THEN kept ELSE kept \cup {m}
    /\ UNCHANGED <<asked, transactions, queue, refused>>

\* stomp_ack, and stomp_nack as far as the frame goes: the broker takes the message
\* off its list, if it is there.
stomp_ack(m) ==
    /\ ~refused /\ m \in received \ acknowledged
    /\ acknowledged' = acknowledged \cup {m}
    /\ kept' = kept \ {m}
    /\ UNCHANGED <<begun, fate, mode, transactions, queue, received, refused>>

Next == \/ \E id \in Ids : stomp_begin(id) \/ stomp_commit(id) \/ stomp_abort(id)
        \/ \E m \in Messages, id \in Ids \cup {None} : stomp_send(m, id)
        \/ \E ack \in {"AUTO", "CLIENT", "CLIENT_INDIVIDUAL"} : stomp_subscribe(ack)
        \/ \E m \in Messages : stomp_receive(m) \/ stomp_ack(m)

Spec == Init /\ [][Next]_vars
-----------------------------------------------------------------------------
(* What the ids must do *)

\* No message gets into the queue that the application keeps back in a transaction or
\* has aborted, and none stays out that it sent outside transactions or has committed,
\* the transaction 0 among them (stomp_write_transaction_id, stomp_transaction,
\* stomp_send).
QueueAsAsked == queue = {m \in Messages : fate[m].is = "wanted"}

\* An application that keeps to the rules is not refused: its transactions are as
\* many at the broker, under ids of their own.
NeverRefused == ~refused
-----------------------------------------------------------------------------
(* What the documentation says, and the code does not do *)

\* stomp_types.h on transaction_id_t, which is an int64_t: "Transaction ID".  Two
\* transactions with different ids are two transactions.
AnyIdIsAnId == Cardinality(begun) = Cardinality(DOMAIN transactions)

\* stomp_headers.h on stomp_subscription_ack_t, which stomp_subscription_header_t has
\* a field for: "STOMP acknowledge mode".  Unless the mode is AUTO a message is kept
\* until the application acknowledges it.
KeptUntilAcknowledged == mode # "AUTO" => received \ acknowledged \subseteq kept
=============================================================================
