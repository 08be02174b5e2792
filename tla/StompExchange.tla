---------------------------- MODULE StompExchange ----------------------------
(***************************************************************************)
(* The exchange properties and the messages (stomp_ex_properties.c,        *)
(* stomp_message.c, and stomp_send and stomp_receive of stomp_messenger.c): *)
(* where the strings of a property live, what a received frame leaves in   *)
(* the properties, and what the next SEND then carries.                    *)
(*                                                                         *)
(* A hash holds pointers.  Each of them points into a pool: that of the    *)
(* application, which it keeps, that of the messenger, or that of a        *)
(* message, which goes with the message.                                   *)
(***************************************************************************)
EXTENDS Integers, SequencesExt, TLC

CONSTANTS Messages,   \* the message objects; none of them is created twice
          Names,      \* the names of the application's own properties
          Texts,      \* the data an application puts into a message, as Seq(char)
          FromOthers, \* the frames that answer no SEND of this application, as
                      \*   records [headers : name -> text, body : Seq(char)]
          Dropped,    \* the sets of headers the broker may leave out of a message
          NULL

Creation == "creation"        \* STOMP_CREATION_TIME
Asked == {"transaction", "receipt"}   \* the headers the call of a SEND may ask for
Own == "application"          \* whose pool outlives all others, and whose text is Mine

ASSUME MessagesAssumption == {Own, "messenger", NULL} \cap Messages = {}

ASSUME TextsAssumption == /\ \A text \in Texts : text \in Seq(Range(text))
                          /\ \A f \in FromOthers : f.body \in Seq(Range(f.body))

VARIABLES hash,       \* exchange_properties->hash: its pool and its entries
          messages,   \* the messages: whether they are there, body and size
          sent,       \* the last SEND: its headers, which of them its call asked for,
                      \*   its body, what the broker makes of that, and the texts that
                      \*   were known when it was sent
          known       \* history: for each name put into the properties since they were
                      \*   cleared the newest text, and who put in the name first and
                      \*   last, the application or a message that was received into

vars == <<hash, messages, sent, known>>

NUL == "\\0"
ContentLength == "content-length"
Endpoint == "queue"           \* the path of the messenger's URI, stripped
Now == "now"                  \* what stomp_exchange_util_ctime formats
Mine == "mine"                \* what the application sets its properties to

Nothing == [k \in {} |-> NULL]

\* apr_hash_set keeps the pointer to the key it has and replaces that to the value.
Entry(key, pool, text) == [key |-> key, pool |-> pool, text |-> text]
apr_hash_set(entries, name, key, pool, text) ==
    [k \in DOMAIN entries \cup {name} |->
        IF k # name THEN entries[k]
        ELSE Entry(IF name \in DOMAIN entries THEN entries[name].key ELSE key, pool, text)]

\* So does apr_hash_overlay with an entry both hashes have.
apr_hash_overlay(overlay, base) ==
    [k \in DOMAIN overlay \cup DOMAIN base |->
        IF k \notin DOMAIN overlay THEN base[k]
        ELSE IF k \notin DOMAIN base THEN overlay[k]
        ELSE [overlay[k] EXCEPT !.key = base[k].key]]

Live(pool) == pool \in Messages => messages[pool].live

\* Every pointer of the hash can be followed.  Each operation on a hash compares or
\* copies what they point to: an application that destroys a message it has received
\* into clears the properties first, or touches them no more.
Intact == \A k \in DOMAIN hash.entries : Live(hash.entries[k].key) /\ Live(hash.entries[k].pool)

\* A value that can be read; the application asks for no other.
stomp_exchange_get(name) == IF name \in DOMAIN hash.entries THEN hash.entries[name].text
                                                            ELSE NULL

Init == /\ hash = [pool |-> "messenger", entries |-> Nothing]
        /\ messages = [m \in Messages |-> [live |-> FALSE, fresh |-> TRUE,
                                           body |-> NULL, size |-> -1]]
        /\ sent = NULL
        /\ known = Nothing

Put(texts, who) ==
    known' = [k \in DOMAIN known \cup DOMAIN texts |->
                 [text |-> IF k \in DOMAIN texts THEN texts[k] ELSE known[k].text,
                  first |-> IF k \in DOMAIN known THEN known[k].first ELSE who,
                  last |-> IF k \in DOMAIN texts THEN who ELSE known[k].last]]
-----------------------------------------------------------------------------
(* Properties *)

stomp_exchange_add(name) ==
    /\ Intact
    /\ hash' = [hash EXCEPT !.entries = apr_hash_set(@, name, Own, Own, Mine)]
    /\ Put([k \in {name} |-> Mine], Own)
    /\ UNCHANGED <<messages, sent>>

stomp_exchange_clear == /\ Intact
                        /\ hash' = [hash EXCEPT !.entries = Nothing]
                        /\ known' = Nothing
                        /\ UNCHANGED <<messages, sent>>

\* The time is written into memory of the hash's own pool; the name is a literal.
stomp_exchange_util_ctime ==
    /\ Intact
    /\ hash' = [hash EXCEPT !.entries =
          apr_hash_set(@, Creation, Own, hash.pool, Now)]
    /\ Put([k \in {Creation} |-> Now], Own)
    /\ UNCHANGED <<messages, sent>>
-----------------------------------------------------------------------------
(* Messages *)

strlen(body) == SelectInSeq(body, LAMBDA c : c = NUL) - 1

stomp_message_create(m) ==
    /\ messages[m].fresh
    /\ messages' = [messages EXCEPT ![m] = [live |-> TRUE, fresh |-> FALSE,
                                            body |-> NULL, size |-> -1]]
    /\ UNCHANGED <<hash, sent, known>>

stomp_message_destroy(m) ==
    /\ messages[m].live
    /\ messages' = [messages EXCEPT ![m] = [live |-> FALSE, fresh |-> FALSE,
                                            body |-> NULL, size |-> -1]]
    /\ UNCHANGED <<hash, sent, known>>

\* Bug to try: the size grows by the terminating NUL each time.
GrownSize(memory) == Len(memory)

Size(memory) == strlen(memory) + 1

\* len + 1 zeroed bytes, into which strncpy copies the data up to its first NUL.
Memory(data) ==
    LET k == SelectInSeq(data, LAMBDA c : c = NUL)
    IN [i \in 1 .. Len(data) + 1 |->
            IF i <= Len(data) /\ (k = 0 \/ i < k) THEN data[i] ELSE NUL]

Formatted(m, data) ==
    messages' = [messages EXCEPT ![m].body = Memory(data), ![m].size = Size(Memory(data))]

stomp_message_format(m, data) == /\ messages[m].live
                                 /\ Formatted(m, data)
                                 /\ UNCHANGED <<hash, sent, known>>
-----------------------------------------------------------------------------
(* Sending and receiving *)

\* The copy of the properties that the frame gets, with its destination.
Headers(name, text) == [k \in DOMAIN hash.entries \cup {name} |->
                           IF k = name THEN text ELSE hash.entries[k].text]

\* stomp_write_transaction_id and stomp_write_receipt.
Numbered(headers, asked) == [k \in DOMAIN headers \cup asked |->
                                IF k \in asked THEN "1" ELSE headers[k]]

\* The header of a call gives each number by itself.
Asks == SUBSET Asked

\* Bug to try: the frame gets the hash of the properties, and no copy of it.
SharedWith(headers) ==
    hash' = [hash EXCEPT !.entries =
                [k \in DOMAIN headers |-> Entry("messenger", "messenger", headers[k])]]
CopiedFrom(headers) == UNCHANGED hash

\* The bytes of the body stomp_write writes.
Written(body, size) == SubSeq(body, 1, IF size <= 0 THEN strlen(body) + 1 ELSE size)

\* Of two content-length headers the first counts, and that is the one of the
\* properties, since stomp_write adds its own behind the headers of the frame.  Where
\* no NUL follows so many bytes the broker makes out no frame.
ReadByBroker(headers, bytes) ==
    LET framed == bytes \o <<NUL>>
        ends == {n \in 0 .. Len(bytes) :
                    IF ContentLength \in DOMAIN headers
                    THEN ToString(n) = headers[ContentLength] /\ framed[n + 1] = NUL
                    ELSE n = Len(bytes)}
    IN IF ends = {} THEN NULL ELSE SubSeq(bytes, 1, CHOOSE n \in ends : TRUE)

\* Applications send a message they have filled.
stomp_send(m) ==
    /\ Intact
    /\ messages[m].live /\ messages[m].body # NULL
    /\ \E asked \in Asks :
          LET headers == Numbered(Headers("destination", Endpoint), asked)
              bytes == Written(messages[m].body, messages[m].size)
          IN /\ sent' = [headers |-> headers, asked |-> asked,
                         body |-> bytes, read |-> ReadByBroker(headers, bytes),
                         known |-> [k \in DOMAIN known |-> known[k].text]]
             /\ CopiedFrom(headers)
    /\ UNCHANGED <<messages, known>>

\* The broker dispatches what it read of the last SEND to its sender, which has
\* subscribed.  It may drop headers that were meant for itself, or pass them on.
PassedOn(dropped) ==
    [k \in (DOMAIN sent.headers \ dropped) \cup {ContentLength} |->
        IF k = ContentLength THEN ToString(Len(sent.read)) ELSE sent.headers[k]]

Echo == IF sent = NULL \/ sent.read = NULL THEN {}
        ELSE {[headers |-> PassedOn(dropped), body |-> sent.read] : dropped \in Dropped}

\* Bug to try: the arguments of apr_hash_overlay the other way round.
OverlaidByOwn(headers) == apr_hash_overlay(hash.entries, headers)

Overlaid(headers) == apr_hash_overlay(headers, hash.entries)

\* Bug to try: the new hash is made in the pool of the message.
PoolOfMessage(m) == m
PoolOfOverlay(m) == "messenger"

\* Whatever its command, the frame fills the message, and its headers, which lie in
\* the pool of the message, are laid over the properties.
stomp_receive(m, frame) ==
    /\ Intact
    /\ messages[m].live
    /\ Formatted(m, frame.body)
    /\ hash' = [pool |-> PoolOfOverlay(m),
                entries |-> Overlaid([k \in DOMAIN frame.headers |->
                                         Entry(m, m, frame.headers[k])])]
    /\ Put(frame.headers, m)
    /\ UNCHANGED sent

Next == \/ \E name \in Names : stomp_exchange_add(name)
        \/ stomp_exchange_clear
        \/ stomp_exchange_util_ctime
        \/ \E m \in Messages : \/ stomp_message_create(m)
                               \/ stomp_message_destroy(m)
                               \/ \E text \in Texts : stomp_message_format(m, text)
                               \/ stomp_send(m)
                               \/ \E frame \in FromOthers \cup Echo :
                                      stomp_receive(m, frame)

Spec == Init /\ [][Next]_vars
-----------------------------------------------------------------------------
(* What the calls promise *)

\* A SEND goes to the endpoint of the messenger and has the numbers of this very call,
\* whatever numbers and destinations were sent and received before.  Its other headers
\* are exactly what was last put under each name since the properties were cleared,
\* by the application or by a frame: none is missing, none is older, and none is left
\* of an earlier SEND (stomp_send, stomp_receive, stomp_exchange_add, _clear).
HeadersAsAsked ==
    sent # NULL =>
        sent.headers = [k \in DOMAIN sent.known \cup sent.asked \cup {"destination"} |->
                           CASE k = "destination" -> Endpoint
                             [] k \in sent.asked -> "1"
                             [] OTHER -> sent.known[k]]

\* A text stays as it is, however often it is received and sent on: a message holds
\* its characters and one NUL, and so does the body of a SEND, which the broker reads
\* whole when no content-length came in with the properties (stomp_message_format,
\* stomp_send, stomp_receive).
OriginalTexts == {Memory(text) : text \in Texts} \cup {Memory(f.body) : f \in FromOthers}
Terminated == {SubSeq(t, 1, strlen(t) + 1) : t \in OriginalTexts}
TextSurvives ==
    /\ \A m \in Messages : messages[m].live /\ messages[m].body # NULL =>
          Written(messages[m].body, messages[m].size) \in Terminated
    /\ sent # NULL /\ ContentLength \notin DOMAIN sent.headers =>
          sent.read = sent.body /\ sent.body \in Terminated

\* The properties are those put in since they were cleared, each with its newest text.
\* Whatever other messages come and go, such a property can be looked up and read as
\* long as the message that brought its name and the one that brought its text are
\* there; one the application put in first and last, the creation time among them,
\* until it clears the properties (stomp_exchange_add, _clear, _util_ctime,
\* stomp_receive, stomp_message_destroy).
PropertiesStay ==
    /\ DOMAIN hash.entries = DOMAIN known
    /\ \A k \in DOMAIN known :
          /\ stomp_exchange_get(k) = known[k].text
          /\ Live(known[k].first) => Live(hash.entries[k].key)
          /\ Live(known[k].last) => Live(hash.entries[k].pool)
-----------------------------------------------------------------------------
(* What the documentation says, and the code does not do *)

\* stomp_ex_properties.h: "The exchange properties are durable throughout the message
\* exchange lifetime".
PropertiesDurable == Intact

\* The same sentence, for the properties that have the text the application has set, or
\* the creation time, also after a frame that has a header of the same name.
OwnPropertiesDurable ==
    \A k \in DOMAIN hash.entries :
        hash.entries[k].pool \notin Messages => Live(hash.entries[k].key)

\* stomp_messenger.h on stomp_send: "Sends a message ... @param message the message to
\* exchange".
SendsTheMessage == sent # NULL => sent.read = sent.body

\* stomp_message.h on stomp_message_format: "Writes data to the message object ...
\* @param len the lenght of the data".
HoldsTheData ==
    \A m \in Messages : messages[m].body # NULL =>
        \E data \in Texts \cup {f.body : f \in FromOthers} :
            Len(data) <= messages[m].size /\ SubSeq(messages[m].body, 1, Len(data)) = data
=============================================================================
