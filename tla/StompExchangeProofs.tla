------------------------- MODULE StompExchangeProofs -------------------------
(***************************************************************************)
(* For any messages, properties, texts, frames of others and calls: a SEND *)
(* has the headers of its call and what was last put into the properties,  *)
(* the properties can be read as long as what brought them is there, and a *)
(* text stays what it was however often it is received and sent on.        *)
(***************************************************************************)
EXTENDS StompExchange, SequenceTheorems, WellFoundedInduction, TLAPS

\* An entry has the text that is known under its name, and points into a message only
\* for a key that message brought first, and for a text it brought last.
KnownEntry(entry, note) ==
    /\ entry = [key |-> entry.key, pool |-> entry.pool, text |-> note.text]
    /\ entry.key \in Messages => entry.key = note.first
    /\ entry.pool \in Messages => entry.pool = note.last

PropertiesInv ==
    /\ hash = [pool |-> hash.pool, entries |-> hash.entries]
    /\ hash.pool \notin Messages
    /\ DOMAIN hash.entries = DOMAIN known
    /\ \A k \in DOMAIN known : KnownEntry(hash.entries[k], known[k])

ExchangeInv == PropertiesInv /\ HeadersAsAsked

LEMMA KnownText ==
    ASSUME NEW entry, NEW note, KnownEntry(entry, note)
    PROVE  entry.text = note.text
<1> DEFINE key == entry.key
           pool == entry.pool
           text == note.text
<1>1. entry = [key |-> key, pool |-> pool, text |-> text]
  BY DEF KnownEntry
<1> HIDE DEF key, pool, text
<1>2. entry.text = text
  BY <1>1
<1> QED
  BY <1>2 DEF text

LEMMA Pools == "messenger" \notin Messages /\ Own \notin Messages
BY MessagesAssumption

\* What is known after some texts were put in.
Noted(texts, who) ==
    /\ DOMAIN known' = DOMAIN known \cup DOMAIN texts
    /\ \A k \in DOMAIN known \ DOMAIN texts :
          /\ known'[k].text = known[k].text
          /\ known'[k].first = known[k].first
          /\ known'[k].last = known[k].last
    /\ \A k \in DOMAIN texts :
          /\ known'[k].text = texts[k]
          /\ known'[k].first = IF k \in DOMAIN known THEN known[k].first ELSE who
          /\ known'[k].last = who

LEMMA PutIs == \A texts, who : Put(texts, who) => Noted(texts, who)
BY DEF Put, Noted

\* The application sets a property to a text in memory that no message takes with it.
LEMMA SetKeeps ==
    ASSUME PropertiesInv, NEW name, NEW pool, pool \notin Messages, NEW text,
           Put([k \in {name} |-> text], Own),
           hash' = [hash EXCEPT !.entries = apr_hash_set(@, name, Own, pool, text)]
    PROVE  PropertiesInv'
<1> DEFINE texts == [k \in {name} |-> text]
           entries == apr_hash_set(hash.entries, name, Own, pool, text)
           key == IF name \in DOMAIN hash.entries THEN hash.entries[name].key ELSE Own
<1>1. hash' = [pool |-> hash.pool, entries |-> entries]
  <2>1. hash = [pool |-> hash.pool, entries |-> hash.entries]
    BY DEF PropertiesInv
  <2>2. hash' = [hash EXCEPT !.entries = entries]
    OBVIOUS
  <2> HIDE DEF entries
  <2> QED
    BY <2>1, <2>2
<1>2. /\ DOMAIN entries = DOMAIN hash.entries \cup {name}
      /\ \A k \in DOMAIN hash.entries \ {name} : entries[k] = hash.entries[k]
      /\ entries[name] = [key |-> key, pool |-> pool, text |-> text]
  BY DEF apr_hash_set, Entry
<1>3. DOMAIN texts = {name} /\ texts[name] = text
  OBVIOUS
<1>4. /\ DOMAIN known' = DOMAIN known \cup {name}
      /\ \A k \in DOMAIN known \ {name} :
            /\ known'[k].text = known[k].text
            /\ known'[k].first = known[k].first
            /\ known'[k].last = known[k].last
      /\ known'[name].text = text
      /\ known'[name].first = IF name \in DOMAIN known THEN known[name].first ELSE Own
  <2>1. Noted(texts, Own)
    BY PutIs
  <2> HIDE DEF texts
  <2> QED
    BY <1>3, <2>1 DEF Noted
<1>5. /\ DOMAIN hash.entries = DOMAIN known
      /\ \A k \in DOMAIN known : KnownEntry(hash.entries[k], known[k])
      /\ hash.pool \notin Messages
  BY DEF PropertiesInv
<1> HIDE DEF entries, texts
<1>6. hash'.entries = entries /\ hash'.pool = hash.pool
  BY <1>1
<1>7. \A k \in DOMAIN known \ {name} : KnownEntry(entries[k], known'[k])
  BY <1>2, <1>4, <1>5 DEF KnownEntry
<1>8. KnownEntry(entries[name], known'[name])
  <2>1. key \in Messages => key = known'[name].first
    BY <1>4, <1>5, Pools DEF KnownEntry
  <2> HIDE DEF key
  <2>2. /\ entries[name].key = key /\ entries[name].pool = pool /\ entries[name].text = text
    BY <1>2
  <2> QED
    BY <1>2, <1>4, <2>1, <2>2 DEF KnownEntry
<1> QED
  BY <1>1, <1>2, <1>4, <1>5, <1>6, <1>7, <1>8 DEF PropertiesInv

LEMMA AddKeeps ==
    ASSUME PropertiesInv, NEW name \in Names, stomp_exchange_add(name)
    PROVE  PropertiesInv'
BY SetKeeps, Pools DEF stomp_exchange_add

LEMMA StampKeeps ==
    ASSUME PropertiesInv, stomp_exchange_util_ctime
    PROVE  PropertiesInv'
<1>1. hash.pool \notin Messages
  BY DEF PropertiesInv
<1> QED
  BY <1>1, SetKeeps DEF stomp_exchange_util_ctime

LEMMA ClearKeeps ==
    ASSUME PropertiesInv, stomp_exchange_clear
    PROVE  PropertiesInv'
<1>1. hash' = [pool |-> hash.pool, entries |-> Nothing] /\ known' = Nothing
  BY DEF stomp_exchange_clear, PropertiesInv
<1>2. DOMAIN Nothing = {}
  BY DEF Nothing
<1> QED
  BY <1>1, <1>2 DEF PropertiesInv

\* The headers of a frame laid over the properties.
LaidOver(merged, overlay, base) ==
    /\ DOMAIN merged = DOMAIN overlay \cup DOMAIN base
    /\ \A k \in DOMAIN base \ DOMAIN overlay : merged[k] = base[k]
    /\ \A k \in DOMAIN overlay \ DOMAIN base : merged[k] = overlay[k]
    /\ \A k \in DOMAIN overlay \cap DOMAIN base :
          merged[k] = [overlay[k] EXCEPT !.key = base[k].key]

LEMMA OverlayIs ==
    \A overlay, base : LaidOver(apr_hash_overlay(overlay, base), overlay, base)
BY DEF apr_hash_overlay, LaidOver

LEMMA ReceiveKeeps ==
    ASSUME PropertiesInv, NEW m \in Messages, NEW frame, stomp_receive(m, frame)
    PROVE  PropertiesInv'
<1> DEFINE headers == frame.headers
           overlay == [k \in DOMAIN headers |-> Entry(m, m, headers[k])]
           entries == apr_hash_overlay(overlay, hash.entries)
<1>1. hash' = [pool |-> "messenger", entries |-> entries] /\ Put(headers, m)
  BY DEF stomp_receive, PoolOfOverlay, Overlaid
<1>2. /\ DOMAIN overlay = DOMAIN headers
      /\ \A k \in DOMAIN headers : overlay[k] = [key |-> m, pool |-> m, text |-> headers[k]]
  BY DEF Entry
<1> HIDE DEF headers, overlay
<1>3. /\ DOMAIN entries = DOMAIN headers \cup DOMAIN hash.entries
      /\ \A k \in DOMAIN hash.entries \ DOMAIN headers : entries[k] = hash.entries[k]
      /\ \A k \in DOMAIN headers \ DOMAIN hash.entries : entries[k] = overlay[k]
      /\ \A k \in DOMAIN headers \cap DOMAIN hash.entries :
            entries[k] = [overlay[k] EXCEPT !.key = hash.entries[k].key]
  <2>1. LaidOver(entries, overlay, hash.entries)
    BY OverlayIs
  <2> HIDE DEF entries
  <2> QED
    BY <1>2, <2>1 DEF LaidOver
<1> HIDE DEF entries
<1>4. /\ DOMAIN known' = DOMAIN known \cup DOMAIN headers
      /\ \A k \in DOMAIN known \ DOMAIN headers :
            /\ known'[k].text = known[k].text
            /\ known'[k].first = known[k].first
            /\ known'[k].last = known[k].last
      /\ \A k \in DOMAIN headers :
            /\ known'[k].text = headers[k]
            /\ known'[k].first = IF k \in DOMAIN known THEN known[k].first ELSE m
            /\ known'[k].last = m
  <2>1. Noted(headers, m)
    BY <1>1, PutIs
  <2> QED
    BY <2>1 DEF Noted
<1>5. /\ DOMAIN hash.entries = DOMAIN known
      /\ \A k \in DOMAIN known : KnownEntry(hash.entries[k], known[k])
  BY DEF PropertiesInv
<1>6. \A k \in DOMAIN known \ DOMAIN headers : KnownEntry(entries[k], known'[k])
  BY <1>3, <1>4, <1>5 DEF KnownEntry
<1>7. ASSUME NEW k \in DOMAIN headers \ DOMAIN known
      PROVE  KnownEntry(entries[k], known'[k])
  <2>1. entries[k] = [key |-> m, pool |-> m, text |-> headers[k]]
    BY <1>2, <1>3, <1>5
  <2> QED
    BY <1>4, <2>1 DEF KnownEntry
<1>8. ASSUME NEW k \in DOMAIN headers \cap DOMAIN known
      PROVE  KnownEntry(entries[k], known'[k])
  <2> DEFINE key == hash.entries[k].key
             text == headers[k]
  <2>1. /\ overlay[k] = [key |-> m, pool |-> m, text |-> text]
        /\ entries[k] = [overlay[k] EXCEPT !.key = key]
    BY <1>2, <1>3, <1>5
  <2>2. key \in Messages => key = known[k].first
    BY <1>5 DEF KnownEntry
  <2>3. known'[k].text = text /\ known'[k].first = known[k].first /\ known'[k].last = m
    BY <1>4
  <2> HIDE DEF key, text
  <2>4. entries[k] = [key |-> key, pool |-> m, text |-> text]
    BY <2>1
  <2> QED
    BY <2>2, <2>3, <2>4 DEF KnownEntry
<1>9. hash'.entries = entries /\ hash'.pool = "messenger"
      /\ hash' = [pool |-> hash'.pool, entries |-> hash'.entries]
  BY <1>1
<1>10. DOMAIN entries = DOMAIN known'
  BY <1>3, <1>4, <1>5
<1>11. \A k \in DOMAIN known' : KnownEntry(entries[k], known'[k])
  BY <1>4, <1>6, <1>7, <1>8
<1> QED
  BY <1>9, <1>10, <1>11, Pools DEF PropertiesInv

\* A SEND has what was asked for, and the texts that are known.
LEMMA SendAsAsked ==
    ASSUME PropertiesInv, NEW m \in Messages, stomp_send(m)
    PROVE  HeadersAsAsked' /\ UNCHANGED <<hash, known>>
<1> DEFINE texts == [k \in DOMAIN known |-> known[k].text]
           copied == Headers("destination", Endpoint)
<1>1. PICK asked \in Asks :
         LET headers == Numbered(copied, asked)
             bytes == Written(messages[m].body, messages[m].size)
         IN sent' = [headers |-> headers, asked |-> asked, body |-> bytes,
                     read |-> ReadByBroker(headers, bytes), known |-> texts]
  BY DEF stomp_send
<1> DEFINE headers == Numbered(copied, asked)
<1>2. sent'.headers = headers /\ sent'.asked = asked /\ sent'.known = texts
  BY <1>1
<1>3. /\ DOMAIN texts = DOMAIN known
      /\ \A k \in DOMAIN known : texts[k] = known[k].text
  OBVIOUS
<1>4. copied = [k \in DOMAIN texts \cup {"destination"} |->
                   IF k = "destination" THEN Endpoint ELSE texts[k]]
  <2>1. \A k \in DOMAIN known : hash.entries[k].text = known[k].text
    BY KnownText DEF PropertiesInv
  <2>2. DOMAIN hash.entries = DOMAIN known
    BY DEF PropertiesInv
  <2>3. copied = [k \in DOMAIN hash.entries \cup {"destination"} |->
                     IF k = "destination" THEN Endpoint ELSE hash.entries[k].text]
    BY DEF Headers
  <2>4. ASSUME NEW k \in DOMAIN known \cup {"destination"}
        PROVE  (IF k = "destination" THEN Endpoint ELSE hash.entries[k].text)
                  = IF k = "destination" THEN Endpoint ELSE texts[k]
    BY <1>3, <2>1
  <2> HIDE DEF texts, copied
  <2> QED
    BY <1>3, <2>2, <2>3, <2>4
<1>5. "destination" \notin asked
  BY DEF Asks, Asked
<1> HIDE DEF texts, copied
<1>6. headers = [k \in DOMAIN texts \cup asked \cup {"destination"} |->
                    CASE k = "destination" -> Endpoint
                      [] k \in asked -> "1"
                      [] OTHER -> texts[k]]
  <2>1. headers = [k \in DOMAIN copied \cup asked |->
                      IF k \in asked THEN "1" ELSE copied[k]]
    BY DEF Numbered
  <2>2. DOMAIN copied \cup asked = DOMAIN texts \cup asked \cup {"destination"}
    BY <1>4
  <2>3. ASSUME NEW k \in DOMAIN texts \cup asked \cup {"destination"}
        PROVE  (IF k \in asked THEN "1" ELSE copied[k])
                  = CASE k = "destination" -> Endpoint
                      [] k \in asked -> "1"
                      [] OTHER -> texts[k]
    BY <1>4, <1>5
  <2> HIDE DEF headers
  <2> QED
    BY <2>1, <2>2, <2>3
<1> HIDE DEF headers
<1>7. UNCHANGED <<hash, known>>
  BY DEF stomp_send, CopiedFrom
<1> QED
  BY <1>2, <1>6, <1>7 DEF HeadersAsAsked

LEMMA NextExchangeInv == ExchangeInv /\ [Next]_vars => ExchangeInv'
<1> SUFFICES ASSUME ExchangeInv, [Next]_vars PROVE ExchangeInv'
  OBVIOUS
<1> USE DEF ExchangeInv
<1>sent. UNCHANGED sent => HeadersAsAsked'
  BY DEF HeadersAsAsked
<1>hash. UNCHANGED <<hash, known>> => PropertiesInv'
  BY DEF PropertiesInv, KnownEntry
<1>1. CASE \E name \in Names : stomp_exchange_add(name)
  BY <1>1, <1>sent, AddKeeps DEF stomp_exchange_add
<1>2. CASE stomp_exchange_clear
  BY <1>2, <1>sent, ClearKeeps DEF stomp_exchange_clear
<1>3. CASE stomp_exchange_util_ctime
  BY <1>3, <1>sent, StampKeeps DEF stomp_exchange_util_ctime
<1>4. CASE \E m \in Messages : \/ stomp_message_create(m)
                               \/ stomp_message_destroy(m)
                               \/ \E text \in Texts : stomp_message_format(m, text)
  BY <1>4, <1>sent, <1>hash
  DEF stomp_message_create, stomp_message_destroy, stomp_message_format
<1>5. CASE \E m \in Messages : stomp_send(m)
  BY <1>5, <1>hash, SendAsAsked
<1>6. CASE \E m \in Messages : \E frame \in FromOthers \cup Echo : stomp_receive(m, frame)
  BY <1>6, <1>sent, ReceiveKeeps DEF stomp_receive
<1>7. CASE UNCHANGED vars
  BY <1>7, <1>sent, <1>hash DEF vars
<1> QED
  BY <1>1, <1>2, <1>3, <1>4, <1>5, <1>6, <1>7 DEF Next

LEMMA ExchangeInvHolds == Spec => []ExchangeInv
<1>1. Init => ExchangeInv
  BY Pools DEF Init, ExchangeInv, PropertiesInv, KnownEntry, HeadersAsAsked, Nothing
<1> QED
  BY <1>1, NextExchangeInv, PTL DEF Spec

\* A SEND goes to the endpoint of the messenger with the numbers of its own call and the
\* newest text of each property, whatever was sent before and whatever headers, receipts
\* and transactions among them, came in with the messages of any number of senders
\* (stomp_send, stomp_receive).
THEOREM SendHasHeaders == Spec => []HeadersAsAsked
<1>1. ExchangeInv => HeadersAsAsked
  BY DEF ExchangeInv
<1> QED
  BY <1>1, ExchangeInvHolds, PTL

\* A property, the creation time among them, can be looked up and read as long as the
\* message that brought its name first and the one that brought its text last are there,
\* and has that text: the key counts as well as the value (stomp_exchange_util_ctime,
\* stomp_receive, stomp_message_destroy).
THEOREM PropertiesLast == Spec => []PropertiesStay
<1>1. ASSUME ExchangeInv PROVE PropertiesStay
  <2>1. DOMAIN hash.entries = DOMAIN known
    BY <1>1 DEF ExchangeInv, PropertiesInv
  <2>2. ASSUME NEW k \in DOMAIN known
        PROVE  /\ stomp_exchange_get(k) = known[k].text
               /\ Live(known[k].first) => Live(hash.entries[k].key)
               /\ Live(known[k].last) => Live(hash.entries[k].pool)
    <3>1. KnownEntry(hash.entries[k], known[k])
      BY <1>1 DEF ExchangeInv, PropertiesInv
    <3>2. stomp_exchange_get(k) = known[k].text
      BY <2>1, <3>1, KnownText DEF stomp_exchange_get
    <3> QED
      BY <3>1, <3>2 DEF KnownEntry, Live
  <2> QED
    BY <2>1, <2>2 DEF PropertiesStay
<1> QED
  BY <1>1, ExchangeInvHolds, PTL
-----------------------------------------------------------------------------
(* Texts. *)

LEMMA MinIs ==
    ASSUME NEW S \in SUBSET Nat, S # {}
    PROVE  Min(S) \in S /\ \A y \in S : Min(S) <= y
<1> DEFINE R == {ss \in Nat \X Nat : ss[1] < ss[2]}
<1>1. IsWellFoundedOn(R, Nat)
  BY NatLessThanWellFounded DEF OpToRel
<1>2. PICK x \in S : \A y \in S : ~ (<<y, x>> \in R)
  BY <1>1, WFMin
<1>3. ASSUME NEW y \in S PROVE x =< y
  <2>1. y < x => <<y, x>> \in R
    OBVIOUS
  <2> QED
    BY <2>1, <1>2
<1>4. \E m \in S : \A y \in S : m =< y
  BY <1>3
<1> QED
  BY <1>4, Zenon DEF Min

\* Where the first NUL of some data is, or where it would be.
First(d) == LET k == SelectInSeq(d, LAMBDA c : c = NUL) IN IF k = 0 THEN Len(d) + 1 ELSE k
\* The data as C sees it, with its NUL.
Ended(d) == SubSeq(Memory(d), 1, First(d))

Original == Texts \cup {f.body : f \in FromOthers}
Chars == {NUL} \cup UNION {Range(text) : text \in Original}

\* Data that a message can be filled with without adding to the texts there are.
IsText(d) == d \in Seq(Chars) /\ Ended(d) \in Terminated

LEMMA FirstIs ==
    ASSUME NEW d \in Seq(Chars)
    PROVE  /\ First(d) \in 1 .. Len(d) + 1
           /\ \A i \in 1 .. Len(d) : i < First(d) => d[i] # NUL
           /\ First(d) <= Len(d) => d[First(d)] = NUL
           /\ First(d) <= Len(d) => strlen(d) = First(d) - 1
<1> DEFINE I == {i \in 1 .. Len(d) : d[i] = NUL}
           k == SelectInSeq(d, LAMBDA c : c = NUL)
<1>1. Len(d) \in Nat
  BY LenProperties
<1>2. k = IF I # {} THEN Min(I) ELSE 0
  BY DEF SelectInSeq
<1>3. First(d) = IF k = 0 THEN Len(d) + 1 ELSE k
  BY DEF First
<1>4. strlen(d) = k - 1
  BY DEF strlen
<1> HIDE DEF k
<1>5. CASE I = {}
  BY <1>1, <1>2, <1>3, <1>5
<1>6. CASE I # {}
  <2>1. I \in SUBSET Nat
    BY <1>1
  <2>2. Min(I) \in I /\ \A y \in I : Min(I) <= y
    BY <1>6, <2>1, MinIs
  <2>3. k \in 1 .. Len(d) /\ d[k] = NUL /\ \A y \in I : k <= y
    BY <1>2, <1>6, <2>2
  <2>4. First(d) = k
    BY <1>1, <1>3, <2>3
  <2> QED
    BY <1>1, <1>4, <2>3, <2>4
<1> QED
  BY <1>5, <1>6

LEMMA FirstOnly ==
    ASSUME NEW d \in Seq(Chars), NEW k \in 1 .. Len(d) + 1,
           \A i \in 1 .. Len(d) : i < k => d[i] # NUL,
           k <= Len(d) => d[k] = NUL
    PROVE  First(d) = k
<1>1. PICK n \in Nat : n = Len(d)
  BY LenProperties
<1>2. PICK j \in 1 .. n + 1 : j = First(d)
  BY <1>1, FirstIs
<1>3. (\A i \in 1 .. n : i < j => d[i] # NUL) /\ (j <= n => d[j] = NUL)
  BY <1>1, <1>2, FirstIs
<1>4. ~(j < k)
  BY <1>1, <1>2, <1>3
<1>5. ~(k < j)
  BY <1>1, <1>2, <1>3
<1> QED
  BY <1>1, <1>2, <1>4, <1>5

LEMMA MemoryIs ==
    ASSUME NEW d \in Seq(Chars)
    PROVE  /\ Memory(d) \in Seq(Chars) /\ Len(Memory(d)) = Len(d) + 1
           /\ \A i \in 1 .. Len(d) + 1 : Memory(d)[i] = IF i < First(d) THEN d[i] ELSE NUL
<1> DEFINE k == SelectInSeq(d, LAMBDA c : c = NUL)
           M == [i \in 1 .. Len(d) + 1 |-> IF i < First(d) THEN d[i] ELSE NUL]
<1>1. PICK n \in Nat : n = Len(d) + 1
  BY LenProperties
<1>2. First(d) \in 1 .. Len(d) + 1
  BY FirstIs
<1>3. Memory(d) = [i \in 1 .. Len(d) + 1 |->
                      IF i <= Len(d) /\ (k = 0 \/ i < k) THEN d[i] ELSE NUL]
  BY DEF Memory
<1>4. First(d) = IF k = 0 THEN Len(d) + 1 ELSE k
  BY DEF First
<1> HIDE DEF k
<1>5. Memory(d) = M
  <2>1. ASSUME NEW i \in 1 .. Len(d) + 1
        PROVE  i <= Len(d) /\ (k = 0 \/ i < k) <=> i < First(d)
    BY <1>1, <1>2, <1>4, LenProperties
  <2> QED
    BY <1>3, <2>1
<1>6. \A i \in 1 .. n : (IF i < First(d) THEN d[i] ELSE NUL) \in Chars
  <2>1. NUL \in Chars
    BY DEF Chars
  <2>2. \A i \in 1 .. n : i < First(d) => i \in 1 .. Len(d)
    BY <1>1, <1>2, LenProperties
  <2> QED
    BY <2>1, <2>2, ElementOfSeq
<1>7. M \in Seq(Chars) /\ Len(M) = n
  <2>1. M = [i \in 1 .. n |-> IF i < First(d) THEN d[i] ELSE NUL]
    BY <1>1
  <2>2. M \in Seq(Chars)
    BY <1>6, <2>1, IsASeq
  <2> HIDE DEF M
  <2>3. DOMAIN M = 1 .. n
    BY <2>1
  <2> QED
    BY <2>2, <2>3, LenProperties
<1> QED
  BY <1>1, <1>5, <1>7

\* What a filled message holds is the data as C sees it.
LEMMA MemoryEnds ==
    ASSUME NEW d \in Seq(Chars)
    PROVE  /\ Size(Memory(d)) = First(d)
           /\ Written(Memory(d), Size(Memory(d))) = Ended(d)
           /\ Ended(d) = SubSeq(Memory(d), 1, strlen(Memory(d)) + 1)
<1> DEFINE M == Memory(d)
<1>1. PICK n \in Nat : n = Len(d)
  BY LenProperties
<1>2. PICK k \in 1 .. n + 1 : k = First(d)
  BY <1>1, FirstIs
<1>3. /\ M \in Seq(Chars) /\ Len(M) = n + 1
      /\ \A i \in 1 .. n + 1 : M[i] = IF i < k THEN d[i] ELSE NUL
      /\ \A i \in 1 .. n : i < k => d[i] # NUL
  BY <1>1, <1>2, MemoryIs, FirstIs
<1> HIDE DEF M
<1>4. First(M) = k
  <2>1. k \in 1 .. Len(M) + 1 /\ M[k] = NUL
    BY <1>1, <1>2, <1>3
  <2>2. \A i \in 1 .. Len(M) : i < k => M[i] # NUL
    BY <1>1, <1>2, <1>3
  <2> QED
    BY <1>3, <2>1, <2>2, FirstOnly
<1>5. strlen(M) = k - 1
  <2>1. First(M) <= Len(M)
    BY <1>2, <1>3, <1>4
  <2> QED
    BY <1>3, <1>4, <2>1, FirstIs
<1>6. Size(M) = k
  BY <1>2, <1>5 DEF Size
<1>7. Written(M, Size(M)) = SubSeq(M, 1, k)
  BY <1>2, <1>6 DEF Written
<1>8. strlen(M) + 1 = k
  BY <1>2, <1>5
<1> QED
  BY <1>2, <1>6, <1>7, <1>8 DEF M, Ended

LEMMA EndedIs ==
    ASSUME NEW d \in Seq(Chars)
    PROVE  /\ Ended(d) \in Seq(Chars) /\ Len(Ended(d)) = First(d)
           /\ \A i \in 1 .. First(d) - 1 : Ended(d)[i] = d[i] /\ d[i] # NUL
           /\ Ended(d)[First(d)] = NUL
<1> DEFINE M == Memory(d)
<1>1. PICK n \in Nat : n = Len(d)
  BY LenProperties
<1>2. PICK k \in 1 .. n + 1 : k = First(d)
  BY <1>1, FirstIs
<1>3. /\ M \in Seq(Chars) /\ Len(M) = n + 1
      /\ \A i \in 1 .. n + 1 : M[i] = IF i < k THEN d[i] ELSE NUL
      /\ \A i \in 1 .. n : i < k => d[i] # NUL
  BY <1>1, <1>2, MemoryIs, FirstIs
<1> HIDE DEF M
<1>4. \A i \in 1 .. k : M[i] \in Chars
  BY <1>2, <1>3, ElementOfSeq
<1>5. /\ SubSeq(M, 1, k) \in Seq(Chars)
      /\ Len(SubSeq(M, 1, k)) = (IF 1 <= k THEN k - 1 + 1 ELSE 0)
      /\ \A i \in 1 .. k - 1 + 1 : SubSeq(M, 1, k)[i] = M[1 + i - 1]
  BY <1>4, 1 \in Int, k \in Int, SubSeqProperties
<1>6. Len(SubSeq(M, 1, k)) = k /\ \A i \in 1 .. k : SubSeq(M, 1, k)[i] = M[i]
  BY <1>2, <1>5
<1>7. /\ \A i \in 1 .. k - 1 : M[i] = d[i] /\ d[i] # NUL
      /\ M[k] = NUL
  BY <1>2, <1>3
<1> QED
  BY <1>2, <1>5, <1>6, <1>7 DEF M, Ended

\* Received back with its NUL or without, a text is what it was.
LEMMA EndedAgain ==
    ASSUME NEW d \in Seq(Chars), NEW n \in {First(d) - 1, First(d)}
    PROVE  /\ SubSeq(Ended(d), 1, n) \in Seq(Chars)
           /\ Ended(SubSeq(Ended(d), 1, n)) = Ended(d)
<1> DEFINE w == Ended(d)
           e == SubSeq(w, 1, n)
<1>1. PICK k \in Nat : k = First(d) /\ k >= 1
  BY LenProperties, FirstIs
<1>2. /\ w \in Seq(Chars) /\ Len(w) = k
      /\ \A i \in 1 .. k - 1 : w[i] # NUL
      /\ w[k] = NUL
  BY <1>1, EndedIs
<1>3. n \in Int /\ n >= 0 /\ (n = k - 1 \/ n = k)
  BY <1>1
<1> HIDE DEF w
<1>4. e \in Seq(Chars) /\ Len(e) = n /\ \A i \in 1 .. n : e[i] = w[i]
  <2>1. \A i \in 1 .. n : w[i] \in Chars
    BY <1>1, <1>2, <1>3, ElementOfSeq
  <2>2. /\ e \in Seq(Chars) /\ Len(e) = (IF 1 <= n THEN n - 1 + 1 ELSE 0)
        /\ \A i \in 1 .. n - 1 + 1 : e[i] = w[1 + i - 1]
    BY <2>1, <1>3, 1 \in Int, SubSeqProperties
  <2> HIDE DEF e
  <2> QED
    BY <1>3, <2>2
<1> HIDE DEF e
<1>5. First(e) = k
  <2>1. k \in 1 .. Len(e) + 1
    BY <1>1, <1>3, <1>4
  <2>2. \A i \in 1 .. Len(e) : i < k => e[i] # NUL
    BY <1>1, <1>2, <1>3, <1>4
  <2>3. k <= Len(e) => e[k] = NUL
    BY <1>1, <1>2, <1>3, <1>4
  <2> QED
    BY <1>4, <2>1, <2>2, <2>3, FirstOnly
<1>6. /\ Ended(e) \in Seq(Chars) /\ Len(Ended(e)) = k
      /\ \A i \in 1 .. k - 1 : Ended(e)[i] = e[i]
      /\ Ended(e)[k] = NUL
  BY <1>4, <1>5, EndedIs
<1>7. ASSUME NEW i \in 1 .. k PROVE Ended(e)[i] = w[i]
  <2>1. CASE i = k
    BY <1>2, <1>6, <2>1
  <2>2. CASE i # k
    <3>1. i \in 1 .. k - 1 /\ i \in 1 .. n
      BY <1>1, <1>3, <2>2
    <3> QED
      BY <1>4, <1>6, <3>1
  <2> QED
    BY <2>1, <2>2
<1>8. Ended(e) = w
  BY <1>2, <1>6, <1>7, SeqEqual
<1> QED
  BY <1>4, <1>8 DEF e, w

LEMMA OriginalsAreTexts ==
    ASSUME NEW d \in Original
    PROVE  IsText(d)
<1>1. d \in Seq(Range(d)) /\ Range(d) \subseteq Chars
  BY TextsAssumption DEF Original, Chars
<1>2. d \in Seq(Chars)
  BY <1>1, SeqMonotonic
<1>3. Memory(d) \in OriginalTexts
  BY DEF OriginalTexts, Original
<1>4. SubSeq(Memory(d), 1, strlen(Memory(d)) + 1) \in Terminated
  BY <1>3 DEF Terminated
<1> QED
  BY <1>2, <1>4, MemoryEnds DEF IsText

\* Where the broker makes out a frame, what it reads is the text, with its NUL or without.
LEMMA ReadIsText ==
    ASSUME NEW d, IsText(d), NEW headers
    PROVE  LET read == ReadByBroker(headers, Ended(d))
           IN /\ read # NULL => IsText(read)
              /\ ContentLength \notin DOMAIN headers => read = Ended(d)
<1> DEFINE bytes == Ended(d)
           framed == bytes \o <<NUL>>
           ends == {n \in 0 .. Len(bytes) :
                       IF ContentLength \in DOMAIN headers
                       THEN ToString(n) = headers[ContentLength] /\ framed[n + 1] = NUL
                       ELSE n = Len(bytes)}
           read == ReadByBroker(headers, bytes)
<1>1. d \in Seq(Chars) /\ Ended(d) \in Terminated
  BY DEF IsText
<1>2. PICK k \in Nat : k = First(d) /\ k >= 1
  BY <1>1, LenProperties, FirstIs
<1>3. /\ bytes \in Seq(Chars) /\ Len(bytes) = k
      /\ \A i \in 1 .. k - 1 : bytes[i] # NUL
  BY <1>1, <1>2, EndedIs
<1>4. read = IF ends = {} THEN NULL ELSE SubSeq(bytes, 1, CHOOSE n \in ends : TRUE)
  BY DEF ReadByBroker
<1> HIDE DEF bytes
<1>5. \A n \in ends : n = k - 1 \/ n = k
  <2>1. \A i \in 1 .. k : framed[i] = bytes[i]
    <3>1. <<NUL>> \in Seq(Chars)
      BY DEF Chars
    <3> QED
      BY <1>3, <3>1, ConcatProperties
  <2>2. ASSUME NEW n \in ends, n # k - 1, n # k PROVE FALSE
    <3>1. n \in 0 .. k
      BY <1>3
    <3>2. n + 1 \in 1 .. k - 1 /\ n + 1 \in 1 .. k
      BY <1>2, <2>2, <3>1
    <3>3. framed[n + 1] = NUL
      BY <1>3, <2>2
    <3> QED
      BY <1>3, <2>1, <3>2, <3>3
  <2> QED
    BY <2>2
<1>6. ContentLength \notin DOMAIN headers => ends = {k}
  BY <1>2, <1>3
<1> HIDE DEF ends, read
<1>7. ASSUME ends # {}
      PROVE  \E n \in {k - 1, k} : n \in ends /\ read = SubSeq(bytes, 1, n)
  <2>1. PICK n \in ends : n = CHOOSE m \in ends : TRUE
    BY <1>7
  <2> QED
    BY <1>4, <1>5, <1>7, <2>1
<1>8. read # NULL => IsText(read)
  <2>1. SUFFICES ASSUME read # NULL PROVE IsText(read)
    OBVIOUS
  <2>2. PICK n \in {First(d) - 1, First(d)} : read = SubSeq(Ended(d), 1, n)
    BY <1>2, <1>4, <1>7, <2>1 DEF bytes
  <2> QED
    BY <1>1, <2>2, EndedAgain DEF IsText
<1>9. ContentLength \notin DOMAIN headers => read = bytes
  <2>1. SUFFICES ASSUME ContentLength \notin DOMAIN headers PROVE read = bytes
    OBVIOUS
  <2>2. read = SubSeq(bytes, 1, k)
    BY <1>6, <1>7, <2>1
  <2>3. /\ SubSeq(bytes, 1, k) \in Seq(Chars)
        /\ Len(SubSeq(bytes, 1, k)) = (IF 1 <= k THEN k - 1 + 1 ELSE 0)
        /\ \A i \in 1 .. k - 1 + 1 : SubSeq(bytes, 1, k)[i] = bytes[1 + i - 1]
    BY <1>2, <1>3, ElementOfSeq, 1 \in Int, k \in Int, SubSeqProperties
  <2>4. Len(SubSeq(bytes, 1, k)) = k /\ \A i \in 1 .. k : SubSeq(bytes, 1, k)[i] = bytes[i]
    BY <1>2, <2>3
  <2> QED
    BY <1>3, <2>2, <2>3, <2>4, SeqEqual
<1> QED
  BY <1>8, <1>9 DEF read, bytes
-----------------------------------------------------------------------------
(* The messages and the last SEND hold texts. *)

MessagesTyped ==
    /\ messages = [m \in Messages |-> messages[m]]
    /\ \A m \in Messages :
          messages[m] = [live |-> messages[m].live, fresh |-> messages[m].fresh,
                         body |-> messages[m].body, size |-> messages[m].size]

Holds(message, d) == message.body = Memory(d) /\ message.size = Size(Memory(d))

BodiesAreTexts == \A m \in Messages :
    messages[m].live /\ messages[m].body # NULL => \E d : IsText(d) /\ Holds(messages[m], d)

\* What the broker reads may come back, so it is a text of its own.
SentIsText == sent # NULL => /\ sent.body \in Terminated
                             /\ sent.read # NULL => IsText(sent.read)
                             /\ ContentLength \notin DOMAIN sent.headers => sent.read = sent.body

TextInv == MessagesTyped /\ BodiesAreTexts /\ SentIsText

LEMMA FormattedKeeps ==
    ASSUME MessagesTyped, BodiesAreTexts, NEW m \in Messages, NEW d, IsText(d), Formatted(m, d)
    PROVE  MessagesTyped' /\ BodiesAreTexts'
<1> DEFINE body == Memory(d)
           size == Size(Memory(d))
           new == [live |-> messages[m].live, fresh |-> messages[m].fresh,
                   body |-> body, size |-> size]
<1>1. messages' = [messages EXCEPT ![m].body = body, ![m].size = size]
  BY DEF Formatted
<1> HIDE DEF body, size
<1>2. messages' = [n \in Messages |-> IF n = m THEN new ELSE messages[n]]
  <2>1. DOMAIN messages = Messages
    BY DEF MessagesTyped
  <2>2. [messages EXCEPT ![m].body = body] =
           [n \in Messages |-> IF n = m THEN [messages[m] EXCEPT !.body = body] ELSE messages[n]]
    BY <2>1
  <2>3. [messages[m] EXCEPT !.body = body]
           = [live |-> messages[m].live, fresh |-> messages[m].fresh,
              body |-> body, size |-> messages[m].size]
    BY DEF MessagesTyped
  <2>4. [[messages[m] EXCEPT !.body = body] EXCEPT !.size = size] = new
    <3> DEFINE live == messages[m].live
               fresh == messages[m].fresh
               old == messages[m].size
    <3>1. [messages[m] EXCEPT !.body = body]
             = [live |-> live, fresh |-> fresh, body |-> body, size |-> old]
      BY <2>3
    <3>2. new = [live |-> live, fresh |-> fresh, body |-> body, size |-> size]
      OBVIOUS
    <3> HIDE DEF new, live, fresh, old
    <3>3. [[live |-> live, fresh |-> fresh, body |-> body, size |-> old] EXCEPT !.size = size]
             = [live |-> live, fresh |-> fresh, body |-> body, size |-> size]
      OBVIOUS
    <3> QED
      BY <3>1, <3>2, <3>3
  <2> QED
    BY <1>1, <2>2, <2>4
<1>3. \A n \in Messages : messages'[n] = IF n = m THEN new ELSE messages[n]
  BY <1>2
<1>4. MessagesTyped'
  BY <1>2, <1>3 DEF MessagesTyped
<1>5. BodiesAreTexts'
  <2>1. Holds(new, d)
    BY DEF Holds, body, size
  <2> HIDE DEF new
  <2> QED
    BY <1>3, <2>1 DEF BodiesAreTexts, Holds
<1> QED
  BY <1>4, <1>5

LEMMA CreateKeeps ==
    ASSUME TextInv, NEW m \in Messages, stomp_message_create(m) \/ stomp_message_destroy(m)
    PROVE  TextInv'
<1>1. PICK live \in BOOLEAN :
         messages' = [messages EXCEPT ![m] = [live |-> live, fresh |-> FALSE,
                                              body |-> NULL, size |-> -1]]
  BY DEF stomp_message_create, stomp_message_destroy
<1>2. \A n \in Messages : messages'[n] = IF n = m
                                         THEN [live |-> live, fresh |-> FALSE,
                                               body |-> NULL, size |-> -1]
                                         ELSE messages[n]
  BY <1>1 DEF TextInv, MessagesTyped
<1>3. messages' = [n \in Messages |-> messages'[n]]
  BY <1>1 DEF TextInv, MessagesTyped
<1>4. MessagesTyped'
  BY <1>2, <1>3 DEF TextInv, MessagesTyped
<1>5. BodiesAreTexts'
  BY <1>2 DEF TextInv, BodiesAreTexts, Holds
<1>6. UNCHANGED sent
  BY DEF stomp_message_create, stomp_message_destroy
<1> QED
  BY <1>4, <1>5, <1>6 DEF TextInv, SentIsText

LEMMA SendIsText ==
    ASSUME TextInv, NEW m \in Messages, stomp_send(m)
    PROVE  TextInv'
<1>1. /\ messages[m].live /\ messages[m].body # NULL /\ UNCHANGED messages
  BY DEF stomp_send
<1>2. PICK d : IsText(d) /\ Holds(messages[m], d)
  BY <1>1 DEF TextInv, BodiesAreTexts
<1>3. Written(messages[m].body, messages[m].size) = Ended(d) /\ Ended(d) \in Terminated
  BY <1>2, MemoryEnds DEF IsText, Holds
<1>4. PICK asked \in Asks :
         LET headers == Numbered(Headers("destination", Endpoint), asked)
         IN sent' = [headers |-> headers, asked |-> asked, body |-> Ended(d),
                     read |-> ReadByBroker(headers, Ended(d)),
                     known |-> [k \in DOMAIN known |-> known[k].text]]
  BY <1>3 DEF stomp_send
<1> DEFINE headers == Numbered(Headers("destination", Endpoint), asked)
           read == ReadByBroker(headers, Ended(d))
<1>5. sent'.headers = headers /\ sent'.body = Ended(d) /\ sent'.read = read
  BY <1>4
<1> HIDE DEF headers
<1>6. /\ read # NULL => IsText(read)
      /\ ContentLength \notin DOMAIN headers => read = Ended(d)
  BY <1>2, ReadIsText
<1> HIDE DEF read
<1>7. SentIsText'
  BY <1>3, <1>5, <1>6 DEF SentIsText
<1>8. MessagesTyped' /\ BodiesAreTexts'
  BY <1>1 DEF TextInv, MessagesTyped, BodiesAreTexts
<1> QED
  BY <1>7, <1>8 DEF TextInv

LEMMA ReceiveIsText ==
    ASSUME TextInv, NEW m \in Messages, NEW frame \in FromOthers \cup Echo,
           stomp_receive(m, frame)
    PROVE  TextInv'
<1>1. IsText(frame.body)
  <2>1. CASE frame \in FromOthers
    BY <2>1, OriginalsAreTexts DEF Original
  <2>2. CASE frame \in Echo
    <3>1. /\ sent # NULL /\ sent.read # NULL
          /\ \E dropped : frame = [headers |-> PassedOn(dropped), body |-> sent.read]
      BY <2>2 DEF Echo
    <3> QED
      BY <3>1 DEF TextInv, SentIsText
  <2> QED
    BY <2>1, <2>2
<1>2. Formatted(m, frame.body) /\ UNCHANGED sent
  BY DEF stomp_receive
<1>3. MessagesTyped' /\ BodiesAreTexts'
  BY <1>1, <1>2, FormattedKeeps DEF TextInv
<1> QED
  BY <1>2, <1>3 DEF TextInv, SentIsText

LEMMA NextTextInv == TextInv /\ [Next]_vars => TextInv'
<1> SUFFICES ASSUME TextInv, [Next]_vars PROVE TextInv'
  OBVIOUS
<1>1. UNCHANGED <<messages, sent>> => TextInv'
  BY DEF TextInv, MessagesTyped, BodiesAreTexts, SentIsText
<1>2. CASE \E name \in Names : stomp_exchange_add(name)
  BY <1>1, <1>2 DEF stomp_exchange_add
<1>3. CASE stomp_exchange_clear \/ stomp_exchange_util_ctime
  BY <1>1, <1>3 DEF stomp_exchange_clear, stomp_exchange_util_ctime
<1>4. ASSUME NEW m \in Messages, NEW text \in Texts, stomp_message_format(m, text)
      PROVE  TextInv'
  <2>1. IsText(text)
    BY OriginalsAreTexts DEF Original
  <2>2. Formatted(m, text) /\ UNCHANGED sent
    BY <1>4 DEF stomp_message_format
  <2>3. MessagesTyped' /\ BodiesAreTexts'
    BY <2>1, <2>2, FormattedKeeps DEF TextInv
  <2> QED
    BY <2>2, <2>3 DEF TextInv, SentIsText
<1>5. CASE UNCHANGED vars
  BY <1>1, <1>5 DEF vars
<1> QED
  BY <1>2, <1>3, <1>4, <1>5, CreateKeeps, SendIsText, ReceiveIsText DEF Next

\* However often a text is received and sent on it stays what it was: the characters an
\* application, here or elsewhere, put into a message, and one NUL (stomp_message_format,
\* stomp_send, stomp_receive).
THEOREM TextsSurvive == Spec => []TextSurvives
<1>1. Init => TextInv
  <2> SUFFICES ASSUME Init PROVE TextInv
    OBVIOUS
  <2>1. /\ sent = NULL
        /\ messages = [m \in Messages |-> [live |-> FALSE, fresh |-> TRUE,
                                           body |-> NULL, size |-> -1]]
    BY DEF Init
  <2>2. MessagesTyped
    BY <2>1 DEF MessagesTyped
  <2>3. \A m \in Messages : ~messages[m].live
    BY <2>1
  <2> QED
    BY <2>1, <2>2, <2>3 DEF TextInv, BodiesAreTexts, SentIsText
<1>2. TextInv => TextSurvives
  <2> SUFFICES ASSUME TextInv PROVE TextSurvives
    OBVIOUS
  <2>1. ASSUME NEW m \in Messages, messages[m].live, messages[m].body # NULL
        PROVE  Written(messages[m].body, messages[m].size) \in Terminated
    <3>1. PICK d : IsText(d) /\ Holds(messages[m], d)
      BY <2>1 DEF TextInv, BodiesAreTexts
    <3> QED
      BY <3>1, MemoryEnds DEF IsText, Holds
  <2> QED
    BY <2>1 DEF TextInv, SentIsText, TextSurvives
<1> QED
  BY <1>1, <1>2, NextTextInv, PTL DEF Spec
=============================================================================
