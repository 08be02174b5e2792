--------------------------- MODULE StompReadProofs ---------------------------
(***************************************************************************)
(* stomp_read implements the frame channel, for all well-formed frames of  *)
(* any length, any number of them and whatever the network does.  The      *)
(* invariant behind it says where in the bytes of a frame the reader is at *)
(* each place of its code, and what it has built by then.                  *)
(***************************************************************************)
EXTENDS StompRead, SequenceTheorems, WellFoundedInduction, TLAPS

Sized(f) == ContentLength \in DOMAIN Merged(f.headers, Len(f.headers))

\* The frame stomp_read has built of f after n headers and some of the body.
Made(f, n, body) == [command |-> <<f.command>>, headers |-> Merged(f.headers, n),
                     body |-> body]

\* The part of header h that is in the current line, after n of its bytes.
PartOf(h, n) == CASE n = 0 -> <<>>
                  [] n = 1 -> <<h[1]>>
                  [] n = 2 -> <<h[1], COLON>>
                  [] n = 3 -> <<h[1], COLON, h[2]>>

InCommand(f) == /\ pc = "command" /\ frame = NewFrame
                /\ \/ rpos = base /\ line = <<>>
                   \/ rpos = base + 1 /\ line = <<f.command>>

InHeaders(f) == /\ pc = "headers"
                /\ \E j \in 0 .. Len(f.headers), n \in 0 .. 3 :
                      /\ j = Len(f.headers) => n = 0
                      /\ rpos = base + 2 + 4 * j + n
                      /\ line = PartOf(f.headers[j + 1], n)
                      /\ frame = Made(f, j, <<>>)

\* Where the body of f begins, if the frame begins where the last call returned.
BodyAt(f) == base + 3 + 4 * Len(f.headers)

InBody(f) == /\ Sized(f)
             /\ pc = "body"
             /\ rpos = BodyAt(f)
             /\ frame = Made(f, Len(f.headers), <<>>)
             /\ line = <<>>

InTerminator(f) == /\ Sized(f)
                   /\ pc = "terminator"
                   /\ \E n \in 1 .. Len(f.body) :
                         /\ rpos = BodyAt(f) + n
                         /\ frame = Made(f, Len(f.headers), SubSeq(f.body, 1, n))

InRest(f) == /\ ~Sized(f)
             /\ pc = "rest"
             /\ \E n \in 0 .. Len(f.body) :
                   /\ rpos = BodyAt(f) + n
                   /\ frame = Made(f, Len(f.headers), SubSeq(f.body, 1, n))

InEndline(f) == /\ ~Sized(f)
                /\ pc = "endline"
                /\ rpos = BodyAt(f) + Len(f.body) + 1
                /\ frame = Delivered(f)

Progress(f) == \/ InCommand(f) \/ InHeaders(f) \/ InBody(f)
               \/ InTerminator(f) \/ InRest(f) \/ InEndline(f)

\* A reader that began on a frame is where that frame says.
Follows == pc # "idle" =>
              \A k \in DOMAIN sent : sent[k].start = base => Progress(sent[k].frame)

\* The calls begin and end with nothing read.
Fresh == /\ pc = "idle" => rpos = base
         /\ rpos = base => pc \in {"idle", "command"} /\ line = <<>> /\ frame = NewFrame

\* The bytes sent are those of the frames, one behind the other.
Ends == IF sent = <<>> THEN 0 ELSE End(sent[Len(sent)])
Sends ==
    /\ sent \in Seq([frame : Frames, start : Nat])
    /\ \A i \in DOMAIN sent : sent[i].start = IF i = 1 THEN 0 ELSE End(sent[i - 1])
    /\ \A i, j \in DOMAIN sent : i < j => End(sent[i]) <= sent[j].start
    /\ Len(stream) <= Ends
    /\ ~closed => Len(stream) = Ends
    /\ \A i \in DOMAIN sent : \A n \in 1 .. Len(Encode(sent[i].frame)) :
          sent[i].start + n <= Len(stream) =>
              stream[sent[i].start + n] = Encode(sent[i].frame)[n]

\* n is the number of frames that begin before p.
BeginBefore(n, p) == n \in 0 .. Len(sent) /\ \A i \in DOMAIN sent : i <= n <=> sent[i].start < p
Counted == \A p \in 0 .. Len(stream) : \E n \in 0 .. Len(sent) : BeginBefore(n, p)

\* The frame being built is a frame.
FrameOK(f) ==
    /\ f = [command |-> f.command, headers |-> f.headers, body |-> f.body]
    /\ f.headers = [key \in DOMAIN f.headers |-> f.headers[key]]
    /\ f.command \in Seq(Bytes) /\ f.body \in Seq(Bytes)
    /\ \A key \in DOMAIN f.headers : key \in Seq(Bytes) /\ f.headers[key] \in Seq(Bytes)
Built == FrameOK(frame)

IInv == TypeOK /\ Sends /\ Counted /\ Fresh /\ Built /\ Follows
-----------------------------------------------------------------------------
(* Numbers and bytes. *)

LEMMA MaxIs ==
    ASSUME NEW S \in SUBSET Int, NEW m \in S, \A i \in S : i <= m
    PROVE  Max(S) = m
<1> DEFINE x == Max(S)
<1>1. x \in S /\ \A i \in S : x >= i
  BY Zenon DEF Max
<1> HIDE DEF x
<1>2. x = m
  BY <1>1
<1> QED
  BY <1>2 DEF x

LEMMA MinIs ==
    ASSUME NEW S \in SUBSET Int, NEW m \in S, \A i \in S : m <= i
    PROVE  Min(S) = m
<1> DEFINE x == Min(S)
<1>1. x \in S /\ \A i \in S : x =< i
  BY Zenon DEF Min
<1> HIDE DEF x
<1>2. x = m
  BY <1>1
<1> QED
  BY <1>2 DEF x

\* Every set of natural numbers with a member has a least one.
LEMMA MinExists ==
    ASSUME NEW S \in SUBSET Nat, S # {}
    PROVE  Min(S) \in S /\ \A y \in S : Min(S) <= y
<1> DEFINE R == {ss \in Nat \X Nat : ss[1] < ss[2]}
<1>1. IsWellFoundedOn(R, Nat)
  BY NatLessThanWellFounded DEF OpToRel
<1>2. PICK x \in S : \A y \in S : ~ (<<y, x>> \in R)
  BY <1>1, WFMin
<1>3. ASSUME NEW y \in S PROVE x =< y
  <2>1. y < x => <<y, x>> \in R
    OBVIOUS
  <2> QED
    BY <2>1, <1>2
<1>4. \E m \in S : \A y \in S : m =< y
  BY <1>3
<1> QED
  BY <1>4, Zenon DEF Min

LEMMA Quarters ==
    ASSUME NEW j \in Nat, NEW n \in 0 .. 3
    PROVE  (4 * j + n) \div 4 = j /\ (4 * j + n) % 4 = n
OBVIOUS

LEMMA NumberIsNatural ==
    ASSUME NEW v
    PROVE  apr_atoi64(v) \in Nat
BY NumberAssumption DEF apr_atoi64

\* The bytes that delimit are told apart.
LEMMA Delimiters == LF # NUL /\ LF # COLON /\ NUL # COLON
BY DEF LF, NUL, COLON

\* What a well-formed frame is made of.
LEMMA FrameParts ==
    ASSUME NEW f \in Frames
    PROVE  /\ f.command \notin {LF, NUL}
           /\ Len(f.headers) \in Nat /\ DOMAIN f.headers = 1 .. Len(f.headers)
           /\ \A i \in 1 .. Len(f.headers) : /\ f.headers[i][1] \notin {LF, NUL, COLON}
                                           /\ f.headers[i][2] \notin {LF, NUL}
           /\ f.body \in Seq(Range(f.body))
           /\ Len(f.body) \in Nat /\ DOMAIN f.body = 1 .. Len(f.body)
<1>1. WellFormed(f)
  BY FramesAssumption
<1>2. f.headers \in Seq(Range(f.headers)) /\ f.body \in Seq(Range(f.body))
  BY <1>1 DEF WellFormed
<1>3. Len(f.headers) \in Nat /\ DOMAIN f.headers = 1 .. Len(f.headers)
  BY <1>2, LenProperties
<1>4. \A i \in 1 .. Len(f.headers) : f.headers[i] \in Range(f.headers)
  BY <1>3 DEF Range
<1> QED
  BY <1>1, <1>2, <1>3, <1>4, LenProperties DEF WellFormed

LEMMA HeaderBytesAre ==
    ASSUME NEW f \in Frames
    PROVE  LET hs == f.headers IN
           /\ DOMAIN HeaderBytes(hs) = 1 .. 4 * Len(hs)
           /\ \A j \in 0 .. Len(hs) - 1 :
                 /\ HeaderBytes(hs)[4 * j + 1] = hs[j + 1][1]
                 /\ HeaderBytes(hs)[4 * j + 2] = COLON
                 /\ HeaderBytes(hs)[4 * j + 3] = hs[j + 1][2]
                 /\ HeaderBytes(hs)[4 * j + 4] = LF
<1> DEFINE hs == f.headers
<1>1. Len(hs) \in Nat
  BY FrameParts
<1>2. ASSUME NEW j \in 0 .. Len(hs) - 1
      PROVE  /\ HeaderBytes(hs)[4 * j + 1] = hs[j + 1][1]
             /\ HeaderBytes(hs)[4 * j + 2] = COLON
             /\ HeaderBytes(hs)[4 * j + 3] = hs[j + 1][2]
             /\ HeaderBytes(hs)[4 * j + 4] = LF
  <2>1. ASSUME NEW n \in 0 .. 3, NEW m, m = 4 * j + n + 1
        PROVE  HeaderBytes(hs)[m] = <<hs[j + 1][1], COLON, hs[j + 1][2], LF>>[n + 1]
    <3>1. m \in 1 .. 4 * Len(hs) /\ m - 1 = 4 * j + n
      BY <1>1, <2>1
    <3>2. (m - 1) \div 4 = j /\ (m - 1) % 4 = n
      BY <1>1, <3>1, Quarters
    <3> HIDE DEF hs
    <3> QED
      BY <3>1, <3>2 DEF HeaderBytes
  <2> HIDE DEF hs
  <2>2. HeaderBytes(hs)[4 * j + 1] = hs[j + 1][1]
    BY <2>1, 4 * j + 1 = 4 * j + 0 + 1
  <2>3. HeaderBytes(hs)[4 * j + 2] = COLON
    BY <2>1, 4 * j + 2 = 4 * j + 1 + 1
  <2>4. HeaderBytes(hs)[4 * j + 3] = hs[j + 1][2]
    BY <2>1, 4 * j + 3 = 4 * j + 2 + 1
  <2>5. HeaderBytes(hs)[4 * j + 4] = LF
    BY <2>1, 4 * j + 4 = 4 * j + 3 + 1
  <2> QED
    BY <2>2, <2>3, <2>4, <2>5
<1> QED
  BY <1>2 DEF HeaderBytes

\* The elements of a concatenation, from its two sides of lengths m and n.
Joins(S, s, t, m, n) == /\ s \o t \in Seq(S)
                        /\ Len(s \o t) = m + n
                        /\ \A i \in 1 .. m : (s \o t)[i] = s[i]
                        /\ \A i \in 1 .. n : (s \o t)[m + i] = t[i]

LEMMA ConcatAt ==
    ASSUME NEW S, NEW s \in Seq(S), NEW t \in Seq(S),
           NEW m \in Nat, Len(s) = m, NEW n \in Nat, Len(t) = n
    PROVE  Joins(S, s, t, m, n)
<1> DEFINE st == s \o t
<1>1. /\ st \in Seq(S) /\ Len(st) = m + n
      /\ \A i \in 1 .. m + n : st[i] = IF i <= m THEN s[i] ELSE t[i - m]
  BY ConcatProperties
<1> HIDE DEF st
<1>3. ASSUME NEW i \in 1 .. m PROVE st[i] = s[i]
  BY <1>1
<1>4. ASSUME NEW i \in 1 .. n PROVE st[m + i] = t[i]
  <2>1. m + i \in 1 .. m + n /\ ~(m + i <= m) /\ (m + i) - m = i
    OBVIOUS
  <2> QED
    BY <2>1, <1>1
<1> QED
  BY <1>1, <1>3, <1>4 DEF st, Joins

LEMMA TwoElements ==
    ASSUME NEW a, NEW b
    PROVE  <<a>> \o <<b>> = <<a, b>>
<1> DEFINE S == {a, b}
           s == <<a>>
           t == <<b>>
           u == <<a, b>>
<1>1. /\ s \in Seq(S) /\ t \in Seq(S) /\ u \in Seq(S)
      /\ Len(s) = 1 /\ Len(t) = 1 /\ Len(u) = 2
      /\ s[1] = a /\ t[1] = b /\ u[1] = a /\ u[2] = b
  OBVIOUS
<1> HIDE DEF S, s, t, u
<1>2. Joins(S, s, t, 1, 1)
  BY <1>1, 1 \in Nat, ConcatAt
<1> DEFINE v == s \o t
<1>3. v \in Seq(S) /\ Len(v) = 2 /\ v[1] = a /\ v[1 + 1] = b
  BY <1>1, <1>2 DEF Joins
<1> HIDE DEF v
<1>4. Len(v) = Len(u) /\ \A i \in 1 .. Len(v) : v[i] = u[i]
  BY <1>1, <1>3
<1>5. v = u
  BY <1>1, <1>3, <1>4, SeqEqual, Zenon
<1> QED
  BY <1>5 DEF v, s, t, u

LEMMA ThreeElements ==
    ASSUME NEW a, NEW b, NEW c
    PROVE  <<a, b>> \o <<c>> = <<a, b, c>>
<1> DEFINE S == {a, b, c}
           s == <<a, b>>
           t == <<c>>
           u == <<a, b, c>>
<1>1. /\ s \in Seq(S) /\ t \in Seq(S) /\ u \in Seq(S)
      /\ Len(s) = 2 /\ Len(t) = 1 /\ Len(u) = 3
      /\ s[1] = a /\ s[2] = b /\ t[1] = c /\ u[1] = a /\ u[2] = b /\ u[3] = c
  OBVIOUS
<1> HIDE DEF S, s, t, u
<1>2. Joins(S, s, t, 2, 1)
  BY <1>1, 1 \in Nat, 2 \in Nat, ConcatAt
<1> DEFINE v == s \o t
<1>3. v \in Seq(S) /\ Len(v) = 3 /\ v[1] = a /\ v[2] = b /\ v[2 + 1] = c
  BY <1>1, <1>2 DEF Joins
<1> HIDE DEF v
<1>4. Len(v) = Len(u) /\ \A i \in 1 .. Len(v) : v[i] = u[i]
  BY <1>1, <1>3
<1>5. v = u
  BY <1>1, <1>3, <1>4, SeqEqual, Zenon
<1> QED
  BY <1>5 DEF v, s, t, u

\* Bytes that are a command, headers of h bytes and a body of B bytes.
Places(e, X, c, hb, h, body, B) ==
    /\ e \in Seq(X)
    /\ Len(e) = 5 + h + B
    /\ e[1] = c /\ e[2] = LF
    /\ \A i \in 1 .. h : e[2 + i] = hb[i]
    /\ e[3 + h] = LF
    /\ \A i \in 1 .. B : e[3 + h + i] = body[i]
    /\ e[4 + h + B] = NUL /\ e[5 + h + B] = LF

LEMMA Assembled ==
    ASSUME NEW X, LF \in X, NUL \in X, NEW c \in X,
           NEW hb \in Seq(X), NEW h \in Nat, Len(hb) = h,
           NEW body \in Seq(X), NEW B \in Nat, Len(body) = B
    PROVE  Places(<<c, LF>> \o hb \o <<LF>> \o body \o <<NUL, LF>>, X, c, hb, h, body, B)
<1> DEFINE a == <<c, LF>>
           b == <<LF>>
           d == <<NUL, LF>>
           ab == a \o hb
           abc == ab \o b
           abcb == abc \o body
           e == abcb \o d
<1>1. /\ a \in Seq(X) /\ b \in Seq(X) /\ d \in Seq(X)
      /\ Len(a) = 2 /\ Len(b) = 1 /\ Len(d) = 2
      /\ a[1] = c /\ a[2] = LF /\ b[1] = LF /\ d[1] = NUL /\ d[2] = LF
  OBVIOUS
<1> HIDE DEF a, b, d
<1>2. /\ ab \in Seq(X) /\ Len(ab) = 2 + h
      /\ \A i \in 1 .. 2 : ab[i] = a[i]
      /\ \A i \in 1 .. h : ab[2 + i] = hb[i]
  <2>1. Joins(X, a, hb, 2, h)
    BY <1>1, ConcatAt
  <2> QED
    BY <2>1 DEF Joins
<1> HIDE DEF ab
<1>3. /\ abc \in Seq(X) /\ Len(abc) = 2 + h + 1
      /\ \A i \in 1 .. 2 + h : abc[i] = ab[i]
      /\ \A i \in 1 .. 1 : abc[2 + h + i] = b[i]
  <2>1. Joins(X, ab, b, 2 + h, 1)
    BY <1>1, <1>2, 2 + h \in Nat, 1 \in Nat, ConcatAt
  <2> QED
    BY <2>1, 2 + h + 1 = 3 + h DEF Joins
<1> HIDE DEF abc
<1>4. /\ abcb \in Seq(X) /\ Len(abcb) = 3 + h + B
      /\ \A i \in 1 .. 3 + h : abcb[i] = abc[i]
      /\ \A i \in 1 .. B : abcb[3 + h + i] = body[i]
  <2>1. Joins(X, abc, body, 3 + h, B)
    BY <1>3, ConcatAt
  <2> QED
    BY <2>1 DEF Joins
<1> HIDE DEF abcb
<1>5. /\ e \in Seq(X) /\ Len(e) = 3 + h + B + 2
      /\ \A i \in 1 .. 3 + h + B : e[i] = abcb[i]
      /\ \A i \in 1 .. 2 : e[3 + h + B + i] = d[i]
  <2>1. Joins(X, abcb, d, 3 + h + B, 2)
    BY <1>1, <1>4, 3 + h + B \in Nat, 2 \in Nat, ConcatAt
  <2> QED
    BY <2>1 DEF Joins
<1> HIDE DEF e
<1>6. Len(e) = 5 + h + B
  BY <1>5
<1>7. e[1] = c /\ e[2] = LF
  BY <1>1, <1>2, <1>3, <1>4, <1>5
<1>8. ASSUME NEW i \in 1 .. h PROVE e[2 + i] = hb[i]
  <2>1. 2 + i \in 1 .. 2 + h /\ 2 + i \in 1 .. 3 + h /\ 2 + i \in 1 .. 3 + h + B
    OBVIOUS
  <2> QED
    BY <2>1, <1>2, <1>3, <1>4, <1>5
<1>9. e[3 + h] = LF
  <2>1. 2 + h + 1 = 3 + h /\ 3 + h \in 1 .. 3 + h /\ 3 + h \in 1 .. 3 + h + B
    OBVIOUS
  <2>2. abc[3 + h] = LF
    BY <2>1, <1>3, <1>1
  <2> QED
    BY <2>1, <2>2, <1>4, <1>5
<1>10. ASSUME NEW i \in 1 .. B PROVE e[3 + h + i] = body[i]
  <2>1. 3 + h + i \in 1 .. 3 + h + B
    OBVIOUS
  <2> QED
    BY <2>1, <1>4, <1>5
<1>11. e[4 + h + B] = NUL /\ e[5 + h + B] = LF
  <2>1. 3 + h + B + 1 = 4 + h + B /\ 3 + h + B + 2 = 5 + h + B
    OBVIOUS
  <2>2. e[3 + h + B + 1] = NUL /\ e[3 + h + B + 2] = LF
    BY <1>1, <1>5
  <2> QED
    BY <2>1, <2>2
<1> QED
  BY <1>5, <1>6, <1>7, <1>8, <1>9, <1>10, <1>11 DEF Places, e, abcb, abc, ab, a, b, d

\* The bytes of a frame by their places.
\* The bytes of a frame with H headers and B bytes of body, each at its place.
Encoded(f, H, B) ==
    /\ Encode(f) \in Seq(Bytes)
    /\ Len(Encode(f)) = 5 + 4 * H + B
    /\ Encode(f)[1] = f.command /\ Encode(f)[2] = LF
    /\ \A j \in 0 .. H - 1 : /\ Encode(f)[3 + 4 * j] = f.headers[j + 1][1]
                             /\ Encode(f)[4 + 4 * j] = COLON
                             /\ Encode(f)[5 + 4 * j] = f.headers[j + 1][2]
                             /\ Encode(f)[6 + 4 * j] = LF
    /\ Encode(f)[3 + 4 * H] = LF
    /\ \A n \in 1 .. B : Encode(f)[3 + 4 * H + n] = f.body[n]
    /\ Encode(f)[4 + 4 * H + B] = NUL /\ Encode(f)[5 + 4 * H + B] = LF

LEMMA EncodeIs ==
    ASSUME NEW f \in Frames, NEW H \in Nat, H = Len(f.headers),
           NEW B \in Nat, B = Len(f.body)
    PROVE  Encoded(f, H, B)
<1> DEFINE hb == HeaderBytes(f.headers)
           X == {f.command, LF, NUL} \cup Range(f.body) \cup Range(hb)
<1>1. /\ f.body \in Seq(Range(f.body)) /\ Range(f.body) \subseteq X
      /\ f.command \in X /\ LF \in X /\ NUL \in X
  BY FrameParts
<1>2. hb \in Seq(X) /\ Len(hb) = 4 * H
  <2>1. hb = [n \in 1 .. 4 * H |-> hb[n]] /\ DOMAIN hb = 1 .. 4 * H
    BY DEF HeaderBytes
  <2>2. \A n \in 1 .. 4 * H : hb[n] \in X
    BY <2>1 DEF Range
  <2>3. hb \in [1 .. 4 * H -> X]
    BY <2>1, <2>2
  <2> HIDE DEF hb, X
  <2> QED
    BY <2>3, 4 * H \in Nat
<1>3. \A j \in 0 .. H - 1 :
             /\ hb[4 * j + 1] = f.headers[j + 1][1] /\ hb[4 * j + 2] = COLON
             /\ hb[4 * j + 3] = f.headers[j + 1][2] /\ hb[4 * j + 4] = LF
  BY HeaderBytesAre
<1>4. f.body \in Seq(X)
  <2> HIDE DEF X
  <2> QED
    BY <1>1, SeqMonotonic
<1>5. Encode(f) = <<f.command, LF>> \o hb \o <<LF>> \o f.body \o <<NUL, LF>>
  BY DEF Encode
<1> HIDE DEF hb, X
<1> DEFINE h == 4 * H
           e == Encode(f)
<1>6. h \in Nat
  OBVIOUS
<1> HIDE DEF h
<1>7. /\ e \in Seq(X)
      /\ Len(e) = 5 + h + B
      /\ e[1] = f.command /\ e[2] = LF
      /\ \A i \in 1 .. h : e[2 + i] = hb[i]
      /\ e[3 + h] = LF
      /\ \A i \in 1 .. B : e[3 + h + i] = f.body[i]
      /\ e[4 + h + B] = NUL /\ e[5 + h + B] = LF
  <2>1. Len(hb) = h
    BY <1>2 DEF h
  <2>2. Places(e, X, f.command, hb, h, f.body, B)
    BY <2>1, <1>1, <1>2, <1>4, <1>5, <1>6, Assembled
  <2> QED
    BY <2>2 DEF Places
<1> HIDE DEF e
<1>8. e \in Seq(Bytes)
  <2>1. Range(e) \subseteq Bytes
    BY DEF Bytes, e
  <2>2. \A i \in 1 .. Len(e) : e[i] \in Range(e)
    BY <1>7, LenProperties DEF Range
  <2>3. e = [i \in 1 .. Len(e) |-> e[i]] /\ Len(e) \in Nat
    BY <1>7, LenProperties
  <2> QED
    BY <2>1, <2>2, <2>3, IsASeq
<1>9. ASSUME NEW j \in 0 .. H - 1
      PROVE  /\ e[3 + 4 * j] = f.headers[j + 1][1] /\ e[4 + 4 * j] = COLON
             /\ e[5 + 4 * j] = f.headers[j + 1][2] /\ e[6 + 4 * j] = LF
  <2>1. ASSUME NEW n \in 1 .. 4 PROVE e[2 + (4 * j + n)] = hb[4 * j + n]
    <3>1. 4 * j + n \in 1 .. h
      BY DEF h
    <3> QED
      BY <3>1, <1>7
  <2>2. /\ 2 + (4 * j + 1) = 3 + 4 * j /\ 2 + (4 * j + 2) = 4 + 4 * j
        /\ 2 + (4 * j + 3) = 5 + 4 * j /\ 2 + (4 * j + 4) = 6 + 4 * j
    OBVIOUS
  <2>3. /\ e[3 + 4 * j] = hb[4 * j + 1] /\ e[4 + 4 * j] = hb[4 * j + 2]
        /\ e[5 + 4 * j] = hb[4 * j + 3] /\ e[6 + 4 * j] = hb[4 * j + 4]
    BY <2>1, <2>2
  <2> QED
    BY <2>3, <1>3
<1> QED
  BY <1>7, <1>8, <1>9 DEF e, h, Encoded
-----------------------------------------------------------------------------
(* Headers. *)

LEMMA EncodeLength ==
    ASSUME NEW f \in Frames
    PROVE  Len(Encode(f)) \in Nat
<1>1. PICK H \in Nat, B \in Nat : H = Len(f.headers) /\ B = Len(f.body)
  BY FrameParts
<1> QED
  <2>1. Encoded(f, H, B)
    BY <1>1, EncodeIs
  <2>2. Len(Encode(f)) = 5 + 4 * H + B
    BY <2>1 DEF Encoded
  <2> QED
    BY <2>2

LEMMA MergedNone ==
    ASSUME NEW headers
    PROVE  Merged(headers, 0) = NewFrame.headers
<1>1. {<<headers[i][1]>> : i \in 1 .. 0} = {}
  OBVIOUS
<1> QED
  BY <1>1 DEF Merged, NewFrame

\* Each header is set as apr_hash_set sets it.
LEMMA MergedNext ==
    ASSUME NEW headers, NEW n \in Nat
    PROVE  Merged(headers, n + 1)
               = apr_hash_set(Merged(headers, n), <<headers[n + 1][1]>>, <<headers[n + 1][2]>>)
<1> DEFINE K(i) == <<headers[i][1]>>
           At(key, m) == {i \in 1 .. m : K(i) = key}
           D(m) == {K(i) : i \in 1 .. m}
           Was == Merged(headers, n)
           Now == Merged(headers, n + 1)
           Set == apr_hash_set(Was, K(n + 1), <<headers[n + 1][2]>>)
<1>1. \A m : Merged(headers, m) = [key \in D(m) |-> <<headers[Max(At(key, m))][2]>>]
  BY DEF Merged
<1>2. 1 .. n + 1 = (1 .. n) \cup {n + 1}
  OBVIOUS
<1> HIDE DEF K
<1>3. D(n + 1) = D(n) \cup {K(n + 1)}
  BY <1>2
<1>4. \A key : key # K(n + 1) => At(key, n + 1) = At(key, n)
  BY <1>2
<1>5. Max(At(K(n + 1), n + 1)) = n + 1
  <2>1. At(K(n + 1), n + 1) \in SUBSET Int /\ n + 1 \in At(K(n + 1), n + 1)
    OBVIOUS
  <2>2. \A i \in At(K(n + 1), n + 1) : i <= n + 1
    OBVIOUS
  <2> HIDE DEF At
  <2> QED
    BY <2>1, <2>2, MaxIs
<1> HIDE DEF D, At
<1>6. DOMAIN Was = D(n)
  BY <1>1
<1>7. \A key \in D(n) \cup {K(n + 1)} :
          <<headers[Max(At(key, n + 1))][2]>>
              = IF key = K(n + 1) THEN <<headers[n + 1][2]>> ELSE Was[key]
  BY <1>1, <1>4, <1>5
<1>8. Now = [key \in D(n) \cup {K(n + 1)} |->
                IF key = K(n + 1) THEN <<headers[n + 1][2]>> ELSE Was[key]]
  BY <1>1, <1>3, <1>7
<1> HIDE DEF Was, Now
<1>9. Now = Set
  BY <1>6, <1>8 DEF apr_hash_set
<1> QED
  BY <1>9 DEF Now, Was, K

LEMMA OneElement ==
    ASSUME NEW S, NEW s \in Seq(S), Len(s) = 1
    PROVE  s = <<s[1]>>
<1>1. s[1] \in S
  BY 1 \in 1 .. Len(s), ElementOfSeq
<1> DEFINE t == <<s[1]>>
<1>2. t \in Seq(S) /\ Len(t) = 1 /\ t[1] = s[1]
  BY <1>1
<1> HIDE DEF t
<1>3. Len(s) = Len(t) /\ \A j \in 1 .. Len(s) : s[j] = t[j]
  BY <1>2
<1>4. s = t
  BY <1>2, <1>3, SeqEqual, Zenon
<1> QED
  BY <1>4 DEF t

LEMMA PairIs ==
    ASSUME NEW S, NEW s \in Seq(S), Len(s) = 2
    PROVE  s = <<s[1], s[2]>>
<1>1. s[1] \in S /\ s[2] \in S
  BY 1 \in 1 .. Len(s), 2 \in 1 .. Len(s), ElementOfSeq
<1> DEFINE t == <<s[1], s[2]>>
<1>2. t \in Seq(S) /\ Len(t) = 2 /\ t[1] = s[1] /\ t[2] = s[2]
  BY <1>1
<1> HIDE DEF t
<1>3. Len(s) = Len(t) /\ \A j \in 1 .. Len(s) : s[j] = t[j]
  BY <1>2
<1>4. s = t
  BY <1>2, <1>3, SeqEqual, Zenon
<1> QED
  BY <1>4 DEF t

\* A header line is taken apart at its first colon.
LEMMA PairOf ==
    ASSUME NEW X, NEW s, NEW a \in Int, NEW b \in Int, b = a + 1, s[a] \in X, s[b] \in X
    PROVE  SubSeq(s, a, b) = <<s[a], s[b]>>
<1> DEFINE p == SubSeq(s, a, b)
<1>1. \A i \in a .. b : s[i] \in X
  <2>1. \A i \in a .. b : i = a \/ i = b
    OBVIOUS
  <2> QED
    BY <2>1
<1>2. /\ p \in Seq(X)
      /\ Len(p) = (IF a <= b THEN b - a + 1 ELSE 0)
      /\ \A i \in 1 .. b - a + 1 : p[i] = s[a + i - 1]
  BY <1>1, SubSeqProperties
<1> HIDE DEF p
<1>3. Len(p) = 2
  BY <1>2
<1>4. p[1] = s[a] /\ p[2] = s[b]
  <2>1. 1 \in 1 .. b - a + 1 /\ 2 \in 1 .. b - a + 1 /\ a + 1 - 1 = a /\ a + 2 - 1 = b
    OBVIOUS
  <2> QED
    BY <1>2, <2>1
<1>5. p = <<p[1], p[2]>>
  BY <1>2, <1>3, PairIs
<1> QED
  BY <1>4, <1>5 DEF p

LEMMA HeaderTakenApart ==
    ASSUME NEW a, NEW b, a # COLON, NEW l, l = <<a, COLON, b>>
    PROVE  /\ ColonIn(l) = 2
           /\ Len(l) = 3 /\ SubSeq(l, 1, 1) = <<a>> /\ SubSeq(l, 3, 3) = <<b>>
           /\ Contains(l, COLON)
<1> DEFINE I == {i \in 1 .. Len(l) : l[i] = COLON}
           S == {a, b, COLON}
<1>1. Len(l) = 3 /\ l[1] = a /\ l[2] = COLON /\ l[3] = b
  OBVIOUS
<1>2. I \in SUBSET Int /\ 2 \in I /\ \A i \in I : 2 <= i
  BY <1>1
<1>3. ColonIn(l) = 2
  <2>1. Min(I) = 2 /\ I # {}
    <3> HIDE DEF I
    <3> QED
      BY <1>2, MinIs
  <2> QED
    BY <2>1 DEF ColonIn, SelectInSeq
<1>4. ASSUME NEW i \in {1, 3} PROVE SubSeq(l, i, i) = <<l[i]>>
  <2>1. l[i] \in S
    BY <1>1
  <2> HIDE DEF S
  <2>2. \A j \in i .. i : l[j] \in S
    BY <2>1
  <2>3. /\ SubSeq(l, i, i) \in Seq(S) /\ Len(SubSeq(l, i, i)) = 1
        /\ SubSeq(l, i, i)[1] = l[i]
    BY <2>2, SubSeqProperties
  <2> QED
    BY <2>3, OneElement
<1>5. Contains(l, COLON)
  BY <1>1 DEF Contains
<1> QED
  BY <1>1, <1>3, <1>4, <1>5

\* Made of all headers and all of the body, with the NUL where no length is announced,
\* it is what is delivered.
LEMMA MadeIsDelivered ==
    ASSUME NEW f
    PROVE  Delivered(f) = Made(f, Len(f.headers), IF Sized(f) THEN f.body ELSE Append(f.body, NUL))
BY DEF Delivered, Made, Sized
-----------------------------------------------------------------------------
(* The frames in the stream. *)

LEMMA SentParts ==
    ASSUME Sends, NEW k \in DOMAIN sent
    PROVE  /\ sent \in Seq([frame : Frames, start : Nat])
           /\ Len(sent) \in Nat /\ DOMAIN sent = 1 .. Len(sent)
           /\ sent[k].frame \in Frames
           /\ sent[k].start \in Nat
           /\ End(sent[k]) \in Nat
           /\ sent[k].start + 5 <= End(sent[k])
<1>1. sent \in Seq([frame : Frames, start : Nat])
  BY DEF Sends
<1>2. Len(sent) \in Nat /\ DOMAIN sent = 1 .. Len(sent)
  BY <1>1, LenProperties
<1>3. sent[k] \in [frame : Frames, start : Nat]
  BY <1>1, <1>2, ElementOfSeq
<1> DEFINE f == sent[k].frame
<1>4. f \in Frames /\ sent[k].start \in Nat
  BY <1>3
<1>5. PICK H \in Nat, B \in Nat : H = Len(f.headers) /\ B = Len(f.body)
  BY <1>4, FrameParts
<1>6. Len(Encode(f)) = 5 + 4 * H + B
  <2> HIDE DEF f
  <2> QED
    <3>1. Encoded(f, H, B)
      BY <1>4, <1>5, EncodeIs
    <3> QED
      BY <3>1, <1>4, <1>5 DEF Encoded
<1> QED
  BY <1>1, <1>2, <1>4, <1>6 DEF End

\* Begun, of any list of sent frames.
BegunOf(q, p) == LET I == {i \in 1 .. Len(q) : q[i].start < p}
                 IN IF I # {} THEN Max(I) ELSE 0

LEMMA BegunOfIs ==
    ASSUME NEW q, Len(q) \in Nat, NEW p, NEW n \in 0 .. Len(q),
           \A i \in 1 .. Len(q) : i <= n <=> q[i].start < p
    PROVE  BegunOf(q, p) = n
<1> DEFINE I == {i \in 1 .. Len(q) : q[i].start < p}
<1>1. I = 1 .. n
  OBVIOUS
<1>2. BegunOf(q, p) = IF I # {} THEN Max(I) ELSE 0
  BY DEF BegunOf
<1>3. CASE n = 0
  BY <1>1, <1>2, <1>3
<1>4. CASE n > 0
  <2>1. I \in SUBSET Int /\ n \in I /\ \A i \in I : i <= n
    BY <1>1, <1>4
  <2> HIDE DEF I
  <2> QED
    BY <2>1, <1>2, MaxIs
<1> QED
  BY <1>3, <1>4

LEMMA BegunIs ==
    ASSUME Sends, NEW p, NEW n, BeginBefore(n, p)
    PROVE  Begun(p) = n
<1>1. Len(sent) \in Nat /\ DOMAIN sent = 1 .. Len(sent)
  BY LenProperties DEF Sends
<1>2. Begun(p) = BegunOf(sent, p)
  BY DEF Begun, BegunOf, SelectLastInSeq
<1>3. n \in 0 .. Len(sent) /\ \A i \in 1 .. Len(sent) : i <= n <=> sent[i].start < p
  BY <1>1 DEF BeginBefore
<1> QED
  BY <1>1, <1>2, <1>3, BegunOfIs

LEMMA BegunCounts ==
    ASSUME Sends, Counted, NEW p \in 0 .. Len(stream)
    PROVE  BeginBefore(Begun(p), p)
<1>1. PICK n \in 0 .. Len(sent) : BeginBefore(n, p)
  BY DEF Counted
<1> QED
  BY <1>1, BegunIs

LEMMA BeginsAt ==
    ASSUME Sends, NEW k \in DOMAIN sent
    PROVE  Begun(sent[k].start) = k - 1
<1>1. BeginBefore(k - 1, sent[k].start)
  <2>1. Len(sent) \in Nat /\ DOMAIN sent = 1 .. Len(sent)
    BY SentParts
  <2>2. ASSUME NEW i \in DOMAIN sent PROVE i <= k - 1 <=> sent[i].start < sent[k].start
    <3>1. /\ sent[i].start \in Nat /\ End(sent[i]) \in Nat /\ sent[i].start + 5 <= End(sent[i])
          /\ sent[k].start \in Nat /\ End(sent[k]) \in Nat /\ sent[k].start + 5 <= End(sent[k])
      BY SentParts
    <3>2. /\ i < k => End(sent[i]) <= sent[k].start
          /\ k < i => End(sent[k]) <= sent[i].start
      BY DEF Sends
    <3>3. i \in Nat /\ k \in Nat /\ k - 1 \in Int
      BY <2>1
    <3>4. CASE i < k
      BY <3>1, <3>2, <3>3, <3>4
    <3>5. CASE k <= i
      BY <3>1, <3>2, <3>3, <3>5
    <3> QED
      BY <3>3, <3>4, <3>5
  <2> QED
    BY <2>1, <2>2 DEF BeginBefore
<1> QED
  BY <1>1, BegunIs

LEMMA BegunInside ==
    ASSUME Sends, NEW k \in DOMAIN sent, NEW p \in Int,
           sent[k].start < p, p <= End(sent[k])
    PROVE  Begun(p) = k
<1>1. BeginBefore(k, p)
  <2>1. Len(sent) \in Nat /\ DOMAIN sent = 1 .. Len(sent)
    BY SentParts
  <2>2. ASSUME NEW i \in DOMAIN sent PROVE i <= k <=> sent[i].start < p
    <3>1. /\ sent[i].start \in Nat /\ End(sent[i]) \in Nat /\ sent[i].start + 5 <= End(sent[i])
          /\ sent[k].start \in Nat /\ End(sent[k]) \in Nat /\ sent[k].start + 5 <= End(sent[k])
      BY SentParts
    <3>2. /\ i < k => End(sent[i]) <= sent[k].start
          /\ k < i => End(sent[k]) <= sent[i].start
      BY DEF Sends
    <3>3. i \in Nat /\ k \in Nat
      BY <2>1
    <3>4. CASE i < k
      BY <3>1, <3>2, <3>3, <3>4
    <3>5. CASE i = k
      BY <3>3, <3>5
    <3>6. CASE k < i
      BY <3>1, <3>2, <3>3, <3>6
    <3> QED
      BY <3>3, <3>4, <3>5, <3>6
  <2> QED
    BY <2>1, <2>2 DEF BeginBefore
<1> QED
  BY <1>1, BegunIs

\* No position inside a frame is a boundary.
LEMMA InsideNoBoundary ==
    ASSUME Sends, NEW k \in DOMAIN sent, NEW p \in Int,
           sent[k].start < p, p < End(sent[k])
    PROVE  ~Boundary(p)
<1>1. /\ Len(sent) \in Nat /\ DOMAIN sent = 1 .. Len(sent) /\ sent[k].start \in Nat
      /\ End(sent[k]) \in Nat
  BY SentParts
<1>2. ASSUME NEW i \in DOMAIN sent PROVE p # End(sent[i])
  <2>1. sent[i].start \in Nat /\ End(sent[i]) \in Nat /\ sent[i].start + 5 <= End(sent[i])
    BY SentParts
  <2>2. /\ i < k => End(sent[i]) <= sent[k].start
        /\ k < i => End(sent[k]) <= sent[i].start
    BY DEF Sends
  <2> QED
    BY <1>1, <2>1, <2>2
<1> QED
  BY <1>1, <1>2 DEF Boundary

\* At a boundary either a frame begins or nothing more has been sent.
LEMMA BoundaryBegins ==
    ASSUME Sends, NEW p \in Nat, Boundary(p), p < Ends
    PROVE  \E k \in DOMAIN sent : sent[k].start = p
<1>1. sent # <<>>
  BY DEF Ends
<1>2. Len(sent) \in Nat \ {0} /\ DOMAIN sent = 1 .. Len(sent)
  BY <1>1, LenProperties, EmptySeq DEF Sends
<1>3. CASE p = 0
  <2>1. 1 \in DOMAIN sent
    BY <1>2
  <2>2. sent[1].start = 0
    BY <2>1 DEF Sends
  <2> QED
    BY <1>3, <2>1, <2>2
<1>4. ASSUME NEW i \in DOMAIN sent, p = End(sent[i])
      PROVE  \E k \in DOMAIN sent : sent[k].start = p
  <2>1. i # Len(sent)
    BY <1>1, <1>4 DEF Ends
  <2>2. i + 1 \in DOMAIN sent /\ i + 1 # 1 /\ (i + 1) - 1 = i
    BY <1>2, <2>1
  <2>3. sent[i + 1].start = End(sent[i])
    BY <2>2 DEF Sends
  <2> QED
    BY <1>4, <2>2, <2>3
<1> QED
  BY <1>3, <1>4 DEF Boundary
-----------------------------------------------------------------------------
(* What a recv brings, and what a step leaves. *)

LEMMA RecvIs ==
    ASSUME IInv, NEW n \in Nat, NEW bytes \in Recv(n)
    PROVE  /\ bytes \in Seq(Bytes)
           /\ Len(bytes) \in 1 .. n
           /\ rpos + Len(bytes) <= Len(stream)
           /\ \A i \in 1 .. Len(bytes) : bytes[i] = stream[rpos + i]
<1>1. stream \in Seq(Bytes) /\ Len(stream) \in Nat /\ rpos \in 0 .. Len(stream)
  BY LenProperties DEF IInv, TypeOK
<1>2. PICK k \in 1 .. n : rpos + k <= Len(stream) /\ bytes = SubSeq(stream, rpos + 1, rpos + k)
  BY <1>1 DEF Recv
<1>3. \A i \in rpos + 1 .. rpos + k : stream[i] \in Bytes
  BY <1>1, <1>2, ElementOfSeq
<1>4. /\ bytes \in Seq(Bytes) /\ Len(bytes) = k
      /\ \A i \in 1 .. k : bytes[i] = stream[rpos + i]
  <2>1. rpos + 1 \in Int /\ rpos + k \in Int
    BY <1>1
  <2>2. /\ SubSeq(stream, rpos + 1, rpos + k) \in Seq(Bytes)
        /\ Len(SubSeq(stream, rpos + 1, rpos + k))
              = IF rpos + 1 <= rpos + k THEN (rpos + k) - (rpos + 1) + 1 ELSE 0
        /\ \A i \in 1 .. (rpos + k) - (rpos + 1) + 1 :
               SubSeq(stream, rpos + 1, rpos + k)[i] = stream[(rpos + 1) + i - 1]
    BY <2>1, <1>3, SubSeqProperties
  <2> QED
    BY <2>2, <1>1, <1>2
<1> QED
  BY <1>1, <1>2, <1>4

LEMMA RecvOne ==
    ASSUME IInv, NEW bytes \in Recv(1)
    PROVE  /\ bytes = <<stream[rpos + 1]>> /\ stream[rpos + 1] \in Bytes
           /\ rpos + 1 <= Len(stream)
<1>1. /\ bytes \in Seq(Bytes) /\ Len(bytes) \in 1 .. 1 /\ rpos + Len(bytes) <= Len(stream)
      /\ \A i \in 1 .. Len(bytes) : bytes[i] = stream[rpos + i]
  BY 1 \in Nat, RecvIs
<1>2. Len(bytes) = 1 /\ bytes[1] = stream[rpos + 1]
  <2>1. Len(bytes) = 1
    BY <1>1
  <2> QED
    BY <2>1, <1>1
<1> QED
  BY <1>1, <1>2, OneElement, ElementOfSeq

LEMMA RecvErrorIs ==
    ASSUME NEW n, NEW rc \in RecvError(n)
    PROVE  rc = "APR_TIMEUP" \/ (rc = "APR_EOF" /\ (n = 0 \/ (closed /\ rpos = Len(stream))))
BY DEF RecvError

LEMMA NewFrameOK == FrameOK(NewFrame)
BY EmptySeq DEF FrameOK, NewFrame

\* A step of the reader leaves what was sent as it is.
LEMMA PeerKeeps ==
    ASSUME IInv, UNCHANGED peer
    PROVE  Sends' /\ Counted' /\ UNCHANGED <<stream, closed, sent>>
BY DEF IInv, peer, Sends, Counted, BeginBefore, Ends, End

LEMMA ReturnKeeps ==
    ASSUME IInv, UNCHANGED peer, rpos' \in rpos .. Len(stream),
           NEW r, r.rc \in Chan!ReadError \cup {"APR_SUCCESS"}, Return(r)
    PROVE  IInv'
<1>1. /\ stream \in Seq(Bytes) /\ Len(stream) \in Nat /\ rpos \in 0 .. Len(stream)
      /\ closed \in BOOLEAN
  BY LenProperties DEF IInv, TypeOK
<1>2. Sends' /\ Counted' /\ UNCHANGED <<stream, closed, sent>>
  BY PeerKeeps
<1>3. /\ result' = r /\ pc' = "idle" /\ base' = rpos' /\ line' = <<>> /\ frame' = NewFrame
  BY DEF Return
<1>4. FrameOK(NewFrame) /\ <<>> \in Seq(Bytes \ {LF, NUL})
  BY NewFrameOK, EmptySeq
<1>5. rpos' \in 0 .. Len(stream') /\ base' \in 0 .. rpos'
  BY <1>1, <1>2, <1>3
<1>6. TypeOK'
  BY <1>1, <1>2, <1>3, <1>4, <1>5 DEF TypeOK, FrameOK
<1>7. Fresh' /\ Built' /\ Follows'
  BY <1>3, <1>4 DEF Fresh, Built, Follows
<1> QED
  BY <1>2, <1>6, <1>7 DEF IInv

LEMMA ContinueKeeps ==
    ASSUME IInv, UNCHANGED peer, UNCHANGED <<result, base>>,
           rpos' \in rpos + 1 .. Len(stream),
           pc' \in {"command", "headers", "body", "terminator", "rest", "endline"},
           line' \in Seq(Bytes \ {LF, NUL}), FrameOK(frame'), Follows'
    PROVE  IInv'
<1>1. /\ stream \in Seq(Bytes) /\ Len(stream) \in Nat /\ rpos \in 0 .. Len(stream)
      /\ base \in 0 .. rpos /\ closed \in BOOLEAN
      /\ result.rc \in Chan!ReadError \cup {"none", "APR_SUCCESS"}
  BY LenProperties DEF IInv, TypeOK
<1>2. Sends' /\ Counted' /\ UNCHANGED <<stream, closed, sent>>
  BY PeerKeeps
<1>3. rpos' \in 0 .. Len(stream') /\ base' \in 0 .. rpos' /\ rpos' # base' /\ pc' # "idle"
  BY <1>1, <1>2
<1>4. TypeOK'
  BY <1>1, <1>2, <1>3 DEF TypeOK, FrameOK
<1>5. Fresh' /\ Built'
  BY <1>3 DEF Fresh, Built
<1> QED
  BY <1>2, <1>4, <1>5 DEF IInv

-----------------------------------------------------------------------------
(* A reader that began on a frame follows it. *)

\* k is the frame the current call began on.
Reads(k) == k \in DOMAIN sent /\ sent[k].start = base /\ pc # "idle"

LEMMA ReadsAlong ==
    ASSUME IInv, NEW k, Reads(k)
    PROVE  /\ Progress(sent[k].frame) /\ sent[k].frame \in Frames
           /\ base \in Nat /\ rpos \in Nat /\ base <= rpos /\ Len(stream) \in Nat
           /\ line \in Seq(Bytes \ {LF, NUL})
BY SentParts, LenProperties DEF IInv, Follows, Reads, TypeOK

\* The bytes before it are those of the frame.
LEMMA ByteAhead ==
    ASSUME IInv, NEW k, Reads(k), NEW n \in Nat, n >= 1,
           n <= Len(Encode(sent[k].frame)), base + n <= Len(stream)
    PROVE  stream[base + n] = Encode(sent[k].frame)[n]
<1>1. n \in 1 .. Len(Encode(sent[k].frame))
  <2>1. Len(Encode(sent[k].frame)) \in Nat
    BY ReadsAlong, EncodeLength
  <2> QED
    BY <2>1
<1> QED
  BY <1>1 DEF IInv, Sends, Reads

LEMMA CommandInSync ==
    ASSUME IInv, NEW k, Reads(k), InCommand(sent[k].frame), ReadLine, ~RecvFails(1)
    PROVE  /\ UNCHANGED <<result, base>> /\ rpos' = rpos + 1
           /\ InCommand(sent[k].frame)' \/ InHeaders(sent[k].frame)'
<1> DEFINE f == sent[k].frame
<1>f. f' = f
  BY DEF ReadLine, peer
<1>0. f \in Frames /\ base \in Nat /\ pc = "command" /\ frame = NewFrame
  BY ReadsAlong DEF InCommand
<1> HIDE DEF f
<1>1. PICK bytes \in Recv(1) :
         /\ rpos' = rpos + 1
         /\ \/ bytes = <<LF>> /\ (EndOfCommand \/ HeaderLine \/ MalformedHeaderLine \/ EndOfHeaders)
            \/ bytes = <<NUL>> /\ Return(Failed("APR_EGENERAL"))
            \/ /\ bytes[1] \notin {LF, NUL}
               /\ line' = line \o bytes
               /\ UNCHANGED frame
               /\ Continue(pc)
  BY DEF ReadLine
<1> DEFINE b == stream[rpos + 1]
<1>2. bytes = <<b>> /\ b \in Bytes /\ rpos + 1 <= Len(stream)
  BY RecvOne
<1>3. PICK H \in Nat, B \in Nat : H = Len(f.headers) /\ B = Len(f.body)
  BY <1>0, FrameParts
<1>4. /\ Encode(f)[1] = f.command /\ Encode(f)[2] = LF /\ Len(Encode(f)) = 5 + 4 * H + B
      /\ f.command \notin {LF, NUL}
  <2>1. Encoded(f, H, B)
    BY <1>0, <1>3, EncodeIs
  <2> QED
    BY <2>1, <1>0, <1>3, FrameParts DEF Encoded
<1>5. CASE rpos = base /\ line = <<>>
  <2>1. b = f.command
    <3>1. \A j \in Nat : j >= 1 /\ j <= Len(Encode(f)) /\ base + j <= Len(stream)
                         => stream[base + j] = Encode(f)[j]
      BY ByteAhead DEF f
    <3>2. 1 \in Nat /\ 1 <= Len(Encode(f)) /\ base + 1 <= Len(stream)
      BY <1>2, <1>4, <1>5
    <3> QED
      BY <1>4, <1>5, <3>1, <3>2
  <2>2. b \notin {LF, NUL} /\ bytes[1] = b /\ bytes # <<LF>> /\ bytes # <<NUL>>
    BY <1>2, <1>4, <2>1
  <2>3. line' = <<b>> /\ frame' = frame /\ pc' = "command" /\ UNCHANGED <<result, base>>
    BY <1>0, <1>1, <1>2, <1>5, <2>2 DEF Continue
  <2>4. InCommand(f)'
    BY <1>f, <1>0, <1>1, <1>5, <2>1, <2>3 DEF InCommand
  <2> QED
    BY <1>1, <2>3, <2>4 DEF f
<1>6. CASE rpos = base + 1 /\ line = <<f.command>>
  <2>1. b = LF
    <3>1. 2 \in Nat /\ 2 >= 1 /\ 2 <= 5 + 4 * H + B /\ rpos + 1 = base + 2
      BY <1>0, <1>6
    <3> QED
      BY <1>2, <1>4, <3>1, ByteAhead DEF f
  <2>2. bytes[1] = LF /\ bytes # <<NUL>>
    BY <1>2, <2>1, Delimiters
  <2>3. EndOfCommand
    BY <1>0, <1>1, <2>2 DEF HeaderLine, MalformedHeaderLine, EndOfHeaders
  <2>4. /\ frame' = [NewFrame EXCEPT !.command = <<f.command>>]
        /\ line' = <<>> /\ pc' = "headers" /\ UNCHANGED <<result, base>>
    BY <1>0, <1>6, <2>3 DEF EndOfCommand, Continue
  <2>5. frame' = Made(f, 0, <<>>)
    BY <2>4, MergedNone DEF Made, NewFrame
  <2>6. InHeaders(f)'
    <3>1. /\ 0 \in 0 .. Len(f.headers) /\ 0 \in 0 .. 3 /\ rpos' = base + 2 + 4 * 0 + 0
          /\ line' = PartOf(f.headers[0 + 1], 0)
      BY <1>0, <1>1, <1>3, <1>6, <2>4 DEF PartOf
    <3> QED
      BY <1>f, <2>4, <2>5, <3>1 DEF InHeaders
  <2> QED
    BY <1>1, <2>4, <2>6 DEF f
<1> QED
  BY <1>5, <1>6 DEF InCommand, f

LEMMA HeadersInSync ==
    ASSUME IInv, NEW k, Reads(k), InHeaders(sent[k].frame), ReadLine, ~RecvFails(1)
    PROVE  /\ UNCHANGED <<result, base>> /\ rpos' = rpos + 1
           /\ \/ InHeaders(sent[k].frame)'
              \/ InBody(sent[k].frame)'
              \/ InRest(sent[k].frame)'
<1> DEFINE f == sent[k].frame
<1>f. f' = f
  BY DEF ReadLine, peer
<1>0. f \in Frames /\ base \in Nat /\ pc = "headers"
  BY ReadsAlong DEF InHeaders
<1> HIDE DEF f
<1>1. PICK bytes \in Recv(1) :
         /\ rpos' = rpos + 1
         /\ \/ bytes = <<LF>> /\ (EndOfCommand \/ HeaderLine \/ MalformedHeaderLine \/ EndOfHeaders)
            \/ bytes = <<NUL>> /\ Return(Failed("APR_EGENERAL"))
            \/ /\ bytes[1] \notin {LF, NUL}
               /\ line' = line \o bytes
               /\ UNCHANGED frame
               /\ Continue(pc)
  BY DEF ReadLine
<1> DEFINE b == stream[rpos + 1]
<1>2. bytes = <<b>> /\ b \in Bytes /\ rpos + 1 <= Len(stream)
  BY RecvOne
<1>3. PICK H \in Nat, B \in Nat : H = Len(f.headers) /\ B = Len(f.body)
  BY <1>0, FrameParts
<1>4. PICK j \in 0 .. H, n \in 0 .. 3 :
         /\ j = H => n = 0
         /\ rpos = base + 2 + 4 * j + n
         /\ line = PartOf(f.headers[j + 1], n)
         /\ frame = Made(f, j, <<>>)
  BY <1>3 DEF InHeaders, f
<1>5. /\ Len(Encode(f)) = 5 + 4 * H + B
      /\ \A i \in 0 .. H - 1 : /\ Encode(f)[3 + 4 * i] = f.headers[i + 1][1]
                               /\ Encode(f)[4 + 4 * i] = COLON
                               /\ Encode(f)[5 + 4 * i] = f.headers[i + 1][2]
                               /\ Encode(f)[6 + 4 * i] = LF
      /\ Encode(f)[3 + 4 * H] = LF
  <2>1. Encoded(f, H, B)
    BY <1>0, <1>3, EncodeIs
  <2> QED
    BY <2>1, <1>0, <1>3 DEF Encoded
<1>6. b = Encode(f)[3 + 4 * j + n]
  <2>1. /\ 3 + 4 * j + n \in Nat /\ 3 + 4 * j + n >= 1 /\ 3 + 4 * j + n <= 5 + 4 * H + B
        /\ rpos + 1 = base + (3 + 4 * j + n)
    <3>1. rpos = base + 2 + 4 * j + n /\ (j = H => n = 0)
      BY <1>4
    <3>2. CASE j = H
      BY <1>0, <3>1, <3>2
    <3>3. CASE j < H
      BY <1>0, <3>1, <3>3
    <3> QED
      BY <3>2, <3>3
  <2> QED
    <3>1. \A i \in Nat : i >= 1 /\ i <= Len(Encode(f)) /\ base + i <= Len(stream)
                         => stream[base + i] = Encode(f)[i]
      BY ByteAhead DEF f
    <3> QED
      BY <1>2, <1>5, <2>1, <3>1
<1>7. CASE j = H
  <2>1. n = 0 /\ b = LF /\ line = <<>> /\ rpos' = base + 3 + 4 * H
    <3>1. n = 0
      BY <1>4, <1>7
    <3>2. 3 + 4 * j + n = 3 + 4 * H
      BY <1>7, <3>1
    <3>3. line = <<>>
      BY <1>4, <3>1 DEF PartOf
    <3>4. rpos' = base + 3 + 4 * H
      <4>1. rpos = base + 2 + 4 * j + n /\ rpos' = rpos + 1
        BY <1>1, <1>4
      <4> QED
        BY <1>0, <1>7, <3>1, <4>1
    <3> QED
      BY <1>5, <1>6, <3>1, <3>2, <3>3, <3>4
  <2>2. bytes[1] = LF /\ bytes # <<NUL>> /\ ~Contains(line, COLON)
    BY <1>2, <2>1, Delimiters DEF Contains
  <2>3. EndOfHeaders
    BY <1>0, <1>1, <2>1, <2>2 DEF HeaderLine, MalformedHeaderLine, EndOfCommand
  <2>4. /\ UNCHANGED <<line, frame, result, base>>
        /\ pc' = IF Sized(f) THEN "body" ELSE "rest"
    BY <1>3, <1>4, <1>7, <2>3 DEF EndOfHeaders, Continue, Made, Sized
  <2>5. BodyAt(f)' = rpos'
    BY <1>f, <1>3, <2>1, <2>4 DEF BodyAt
  <2>6. CASE Sized(f)
    <3>1. InBody(f)'
      BY <1>f, <1>3, <1>4, <1>7, <2>1, <2>4, <2>5, <2>6 DEF InBody, Sized
    <3> QED
      BY <1>1, <2>4, <3>1 DEF f
  <2>7. CASE ~Sized(f)
    <3>1. SubSeq(f.body, 1, 0) = <<>>
      OBVIOUS
    <3>2. 0 \in 0 .. Len(f.body) /\ BodyAt(f)' + 0 = rpos'
      BY <1>0, <1>3, <2>1, <2>5
    <3>3. InRest(f)'
      BY <1>f, <1>3, <1>4, <1>7, <2>4, <2>7, <3>1, <3>2 DEF InRest, Sized
    <3> QED
      BY <1>1, <2>4, <3>3 DEF f
  <2> QED
    BY <2>6, <2>7
<1>8. CASE j # H
  <2> DEFINE h == f.headers[j + 1]
  <2>1. /\ j \in 0 .. H - 1 /\ j + 1 \in 1 .. H
        /\ h[1] \notin {LF, NUL, COLON} /\ h[2] \notin {LF, NUL}
    BY <1>0, <1>3, <1>8, FrameParts
  <2>2. CASE n < 3
    <3>1. b = (IF n = 0 THEN h[1] ELSE IF n = 1 THEN COLON ELSE h[2])
      <4>1. /\ n = 0 => 3 + 4 * j + n = 3 + 4 * j
            /\ n = 1 => 3 + 4 * j + n = 4 + 4 * j
            /\ n = 2 => 3 + 4 * j + n = 5 + 4 * j
        BY <1>4
      <4> QED
        BY <1>5, <1>6, <2>1, <2>2, <4>1
    <3>2. b \notin {LF, NUL} /\ bytes[1] = b /\ bytes # <<LF>> /\ bytes # <<NUL>>
      BY <1>2, <2>1, <3>1, Delimiters
    <3>3. line' = line \o <<b>> /\ frame' = frame /\ pc' = "headers" /\ UNCHANGED <<result, base>>
      BY <1>0, <1>1, <1>2, <3>2 DEF Continue
    <3>4. line' = PartOf(h, n + 1)
      <4>0. line = PartOf(h, n)
        BY <1>4
      <4> HIDE DEF h, b
      <4>1. CASE n = 0
        BY <3>1, <3>3, <4>0, <4>1 DEF PartOf
      <4>2. CASE n = 1
        <5>1. line' = <<h[1]>> \o <<COLON>>
          BY <3>1, <3>3, <4>0, <4>2 DEF PartOf
        <5> QED
          BY <4>2, <5>1, TwoElements, n + 1 = 2 DEF PartOf
      <4>3. CASE n = 2
        <5>1. line' = <<h[1], COLON>> \o <<h[2]>>
          BY <3>1, <3>3, <4>0, <4>3 DEF PartOf
        <5> QED
          BY <4>3, <5>1, ThreeElements, n + 1 = 3 DEF PartOf
      <4> QED
        BY <2>2, <4>1, <4>2, <4>3
    <3>5. InHeaders(f)'
      <4>1. /\ n + 1 \in 0 .. 3 /\ j \in 0 .. H /\ rpos' = base + 2 + 4 * j + (n + 1)
        BY <1>0, <1>1, <1>4, <2>2
      <4> QED
        BY <1>f, <1>3, <1>4, <1>8, <3>3, <3>4, <4>1 DEF InHeaders
    <3> QED
      BY <1>1, <3>3, <3>5 DEF f
  <2>3. CASE n = 3
    <3>1. b = LF
      BY <1>5, <1>6, <2>1, <2>3, 3 + 4 * j + 3 = 6 + 4 * j
    <3>2. bytes[1] = LF /\ bytes # <<NUL>>
      BY <1>2, <3>1, Delimiters
    <3>3. line = <<h[1], COLON, h[2]>>
      BY <1>4, <2>3 DEF PartOf
    <3>4. /\ ColonIn(line) = 2
          /\ Len(line) = 3 /\ SubSeq(line, 1, 1) = <<h[1]>> /\ SubSeq(line, 3, 3) = <<h[2]>>
          /\ Contains(line, COLON)
      BY <2>1, <3>3, HeaderTakenApart
    <3>5. HeaderLine
      BY <1>0, <1>1, <3>2, <3>3, <3>4 DEF MalformedHeaderLine, EndOfCommand, EndOfHeaders
    <3>6. /\ frame' = [frame EXCEPT !.headers = apr_hash_set(frame.headers, <<h[1]>>, <<h[2]>>)]
          /\ line' = <<>> /\ pc' = "headers" /\ UNCHANGED <<result, base>>
      <4>1. ColonIn(line) - 1 = 1 /\ ColonIn(line) + 1 = 3
        BY <3>4
      <4> QED
        BY <3>4, <3>5, <4>1 DEF HeaderLine, Continue
    <3>7. frame' = Made(f, j + 1, <<>>)
      <4>1. Merged(f.headers, j + 1) = apr_hash_set(frame.headers, <<h[1]>>, <<h[2]>>)
        BY <1>4, MergedNext DEF Made
      <4> HIDE DEF h
      <4> QED
        BY <1>4, <3>6, <4>1 DEF Made
    <3>8. InHeaders(f)'
      <4>1. /\ 0 \in 0 .. 3 /\ j + 1 \in 0 .. H /\ rpos' = base + 2 + 4 * (j + 1) + 0
            /\ line' = PartOf(f.headers[(j + 1) + 1], 0)
        <5>1. rpos = base + 2 + 4 * j + n /\ rpos' = rpos + 1 /\ n = 3
          BY <1>1, <1>4, <2>3
        <5>2. rpos' = base + 2 + 4 * (j + 1) + 0
          <6>1. base \in Nat /\ j \in Nat
            BY <1>0
          <6> QED
            BY <5>1, <6>1
        <5> QED
          BY <2>1, <3>6, <5>2 DEF PartOf
      <4> QED
        BY <1>f, <1>3, <3>6, <3>7, <4>1 DEF InHeaders
    <3> QED
      BY <1>1, <3>6, <3>8 DEF f
  <2> QED
    BY <1>4, <2>2, <2>3
<1> QED
  BY <1>7, <1>8
\* One more byte of a body.
LEMMA PrefixNext ==
    ASSUME NEW X, NEW body \in Seq(X), NEW n \in Nat, n + 1 <= Len(body)
    PROVE  SubSeq(body, 1, n) \o <<body[n + 1]>> = SubSeq(body, 1, n + 1)
<1> DEFINE p == SubSeq(body, 1, n)
           q == SubSeq(body, 1, n + 1)
           t == <<body[n + 1]>>
           v == p \o t
<1>1. Len(body) \in Nat /\ \A i \in 1 .. Len(body) : body[i] \in X
  BY LenProperties, ElementOfSeq
<1>2. /\ p \in Seq(X) /\ Len(p) = n /\ \A i \in 1 .. n : p[i] = body[i]
  <2>1. \A i \in 1 .. n : body[i] \in X
    BY <1>1
  <2>2. /\ p \in Seq(X) /\ Len(p) = (IF 1 <= n THEN n - 1 + 1 ELSE 0)
        /\ \A i \in 1 .. n - 1 + 1 : p[i] = body[1 + i - 1]
    BY <2>1, n \in Int, 1 \in Int, SubSeqProperties
  <2> HIDE DEF p
  <2> QED
    BY <2>2
<1>3. /\ q \in Seq(X) /\ Len(q) = n + 1 /\ \A i \in 1 .. n + 1 : q[i] = body[i]
  <2>1. \A i \in 1 .. n + 1 : body[i] \in X
    BY <1>1
  <2>2. /\ q \in Seq(X) /\ Len(q) = (IF 1 <= n + 1 THEN n + 1 - 1 + 1 ELSE 0)
        /\ \A i \in 1 .. n + 1 - 1 + 1 : q[i] = body[1 + i - 1]
    BY <2>1, n + 1 \in Int, 1 \in Int, SubSeqProperties
  <2> HIDE DEF q
  <2> QED
    BY <2>2
<1>4. t \in Seq(X) /\ Len(t) = 1 /\ t[1] = body[n + 1]
  BY <1>1
<1> HIDE DEF p, q, t
<1>5. Joins(X, p, t, n, 1)
  BY <1>2, <1>4, 1 \in Nat, ConcatAt
<1>6. v \in Seq(X) /\ Len(v) = n + 1 /\ v[n + 1] = body[n + 1] /\ \A i \in 1 .. n : v[i] = body[i]
  BY <1>2, <1>4, <1>5 DEF Joins
<1> HIDE DEF v
<1>7. Len(v) = Len(q) /\ \A i \in 1 .. Len(v) : v[i] = q[i]
  BY <1>3, <1>6
<1>8. v = q
  BY <1>3, <1>6, <1>7, SeqEqual, Zenon
<1> QED
  BY <1>8 DEF v, p, q, t

\* A sequence that has the first bytes of a body is its prefix.
LEMMA PrefixIs ==
    ASSUME NEW X, NEW body \in Seq(X), NEW Y, NEW s \in Seq(Y), Len(s) <= Len(body),
           \A i \in 1 .. Len(s) : s[i] = body[i]
    PROVE  s = SubSeq(body, 1, Len(s))
<1> DEFINE q == SubSeq(body, 1, Len(s))
           Z == X \cup Y
<1>1. /\ Len(body) \in Nat /\ Len(s) \in Nat
      /\ \A i \in 1 .. Len(body) : body[i] \in X
  BY LenProperties, ElementOfSeq
<1> DEFINE n == Len(s)
<1>2. /\ q \in Seq(X) /\ Len(q) = n /\ \A i \in 1 .. n : q[i] = body[i]
  <2> HIDE DEF n
  <2>0. n \in Nat /\ n <= Len(body)
    BY <1>1 DEF n
  <2>1. \A i \in 1 .. n : body[i] \in X
    BY <1>1, <2>0
  <2>2. /\ SubSeq(body, 1, n) \in Seq(X)
        /\ Len(SubSeq(body, 1, n)) = (IF 1 <= n THEN n - 1 + 1 ELSE 0)
        /\ \A i \in 1 .. n - 1 + 1 : SubSeq(body, 1, n)[i] = body[1 + i - 1]
    BY <2>0, <2>1, 1 \in Int, SubSeqProperties
  <2>3. q = SubSeq(body, 1, n)
    BY DEF n
  <2> HIDE DEF q
  <2> QED
    BY <2>0, <2>2, <2>3
<1> HIDE DEF q
<1>3. q \in Seq(Z) /\ s \in Seq(Z)
  BY <1>2, SeqMonotonic
<1>4. Len(s) = Len(q) /\ \A i \in 1 .. Len(s) : s[i] = q[i]
  BY <1>2
<1> HIDE DEF Z
<1>5. s = q
  BY <1>3, <1>4, SeqEqual, Zenon
<1> QED
  BY <1>5 DEF q

LEMMA BodyInSync ==
    ASSUME IInv, NEW k, Reads(k), InBody(sent[k].frame), ReadBody
    PROVE  /\ apr_atoi64(frame.headers[ContentLength]) = Len(sent[k].frame.body)
           /\ \/ RecvFails(Len(sent[k].frame.body))
              \/ InTerminator(sent[k].frame)' /\ UNCHANGED <<result, base>>
<1> DEFINE f == sent[k].frame
<1>f. f' = f
  BY DEF ReadBody, peer
<1>0. f \in Frames /\ base \in Nat
  BY ReadsAlong
<1> HIDE DEF f
<1>1. /\ Sized(f) /\ rpos = BodyAt(f) /\ frame = Made(f, Len(f.headers), <<>>)
  BY DEF InBody, f
<1>2. PICK H \in Nat, B \in Nat : H = Len(f.headers) /\ B = Len(f.body)
  BY <1>0, FrameParts
<1>3. apr_atoi64(frame.headers[ContentLength]) = B
  <2>1. WellFormed(f)
    BY <1>0, FramesAssumption
  <2>2. Delivered(f).headers = frame.headers
    BY <1>1 DEF Delivered, Made
  <2>3. ContentLength \in DOMAIN frame.headers
    BY <1>1 DEF Sized, Made
  <2> QED
    BY <1>2, <2>1, <2>2, <2>3 DEF WellFormed
<1>4. ASSUME ~RecvFails(B)
      PROVE  InTerminator(f)' /\ UNCHANGED <<result, base>>
  <2>1. PICK bytes \in Recv(B) :
           /\ rpos' = rpos + Len(bytes)
           /\ frame' = [frame EXCEPT !.body = bytes]
           /\ Continue("terminator")
    BY <1>3, <1>4 DEF ReadBody
  <2>2. /\ bytes \in Seq(Bytes) /\ Len(bytes) \in 1 .. B /\ rpos + Len(bytes) <= Len(stream)
        /\ \A i \in 1 .. Len(bytes) : bytes[i] = stream[rpos + i]
    BY RecvIs
  <2>3. PICK m \in 1 .. B : m = Len(bytes)
    BY <2>2
  <2>4. ASSUME NEW i \in 1 .. m PROVE bytes[i] = f.body[i]
    <3>1. /\ Len(Encode(f)) = 5 + 4 * H + B
          /\ \A n \in 1 .. B : Encode(f)[3 + 4 * H + n] = f.body[n]
      <4>1. Encoded(f, H, B)
        BY <1>0, <1>2, EncodeIs
      <4> QED
        BY <4>1, <1>0, <1>2 DEF Encoded
    <3>2. /\ 3 + 4 * H + i \in Nat /\ 3 + 4 * H + i >= 1 /\ 3 + 4 * H + i <= 5 + 4 * H + B
          /\ i \in 1 .. B
      OBVIOUS
    <3>3. rpos + i = base + (3 + 4 * H + i) /\ base + (3 + 4 * H + i) <= Len(stream)
      <4>1. rpos = base + 3 + 4 * H /\ Len(stream) \in Nat
        BY <1>1, <1>2, ReadsAlong DEF BodyAt
      <4> QED
        BY <1>0, <2>2, <2>3, <4>1
    <3>4. stream[rpos + i] = Encode(f)[3 + 4 * H + i]
      <4>1. \A j \in Nat : j >= 1 /\ j <= Len(Encode(f)) /\ base + j <= Len(stream)
                           => stream[base + j] = Encode(f)[j]
        BY ByteAhead DEF f
      <4> QED
        BY <3>1, <3>2, <3>3, <4>1
    <3> QED
      BY <2>2, <2>3, <3>1, <3>2, <3>4
  <2>5. bytes = SubSeq(f.body, 1, m)
    <3>1. f.body \in Seq(Range(f.body))
      BY <1>0, FrameParts
    <3>2. Len(bytes) <= Len(f.body) /\ \A i \in 1 .. Len(bytes) : bytes[i] = f.body[i]
      BY <1>2, <2>3, <2>4
    <3>3. bytes = SubSeq(f.body, 1, Len(bytes))
      BY <2>2, <3>1, <3>2, PrefixIs
    <3> QED
      BY <2>3, <3>3
  <2>6. /\ pc' = "terminator" /\ UNCHANGED <<result, base>>
        /\ frame' = Made(f, Len(f.headers), SubSeq(f.body, 1, m))
        /\ rpos' = BodyAt(f) + m
    BY <1>1, <2>1, <2>3, <2>5 DEF Continue, Made
  <2>7. BodyAt(f)' = BodyAt(f) /\ Sized(f)'
    BY <1>f, <1>1, <2>6 DEF BodyAt, Sized
  <2>8. InTerminator(f)'
    BY <1>f, <1>2, <2>6, <2>7 DEF InTerminator
  <2> QED
    BY <2>6, <2>8
<1> QED
  BY <1>2, <1>3, <1>4 DEF f
LEMMA TerminatorInSync ==
    ASSUME IInv, NEW k, Reads(k), InTerminator(sent[k].frame), ReadTerminator
    PROVE  LET f == sent[k].frame
           IN \/ RecvFails(2)
              \/ Return(Got(Delivered(f))) /\ rpos' = End(sent[k])
              \/ \E n \in 1 .. Len(f.body) - 2 :
                    /\ SubSeq(f.body, n + 1, n + 2) = <<NUL, LF>>
                    /\ Return(Got(Made(f, Len(f.headers), SubSeq(f.body, 1, n))))
                    /\ Sized(f)
                    /\ base < rpos' /\ rpos' < End(sent[k])
              \/ /\ Return(Failed("APR_EGENERAL"))
                 /\ base < rpos' /\ rpos' < End(sent[k])
                 /\ \/ rpos' - rpos < 2
                    \/ Len(frame.body) < Len(f.body)
<1> DEFINE f == sent[k].frame
<1>0. f \in Frames /\ base \in Nat /\ rpos \in Nat
  BY ReadsAlong
<1>e. End(sent[k]) = base + Len(Encode(f))
  BY DEF End, Reads
<1>t. InTerminator(f)
  OBVIOUS
<1>b. \A m \in Nat : m >= 1 /\ m <= Len(Encode(f)) /\ base + m <= Len(stream)
                     => stream[base + m] = Encode(f)[m]
  BY ByteAhead
<1> HIDE DEF f
<1>1. PICK H \in Nat, B \in Nat : H = Len(f.headers) /\ B = Len(f.body)
  BY <1>0, FrameParts
<1>2. PICK n \in 1 .. B :
         /\ rpos = base + 3 + 4 * H + n
         /\ frame = Made(f, H, SubSeq(f.body, 1, n))
         /\ Sized(f)
  BY <1>1, <1>t DEF InTerminator, BodyAt
<1>3. /\ Len(Encode(f)) = 5 + 4 * H + B
      /\ \A i \in 1 .. B : Encode(f)[3 + 4 * H + i] = f.body[i]
      /\ Encode(f)[4 + 4 * H + B] = NUL /\ Encode(f)[5 + 4 * H + B] = LF
      /\ End(sent[k]) = base + 5 + 4 * H + B
  <2>1. Len(Encode(f)) = 5 + 4 * H + B
    <3>1. Encoded(f, H, B)
      BY <1>0, <1>1, EncodeIs
    <3> QED
      BY <3>1, <1>0, <1>1 DEF Encoded
  <2>2. End(sent[k]) = base + 5 + 4 * H + B
    BY <1>0, <1>e, <2>1
  <2> QED
    <3>1. Encoded(f, H, B)
      BY <1>0, <1>1, <2>1, <2>2, EncodeIs
    <3> QED
      BY <3>1, <1>0, <1>1, <2>1, <2>2 DEF Encoded
<1>4. /\ f.body \in Seq(Range(f.body)) /\ Len(f.body) = B
      /\ \A i \in 1 .. B : f.body[i] \in Range(f.body)
  BY <1>0, <1>1, FrameParts, ElementOfSeq
<1>5. SUFFICES ASSUME ~RecvFails(2)
               PROVE  \/ Return(Got(Delivered(f))) /\ rpos' = End(sent[k])
                      \/ \E m \in 1 .. B - 2 :
                            /\ SubSeq(f.body, m + 1, m + 2) = <<NUL, LF>>
                            /\ Return(Got(Made(f, H, SubSeq(f.body, 1, m))))
                            /\ Sized(f)
                            /\ base < rpos' /\ rpos' < End(sent[k])
                      \/ /\ Return(Failed("APR_EGENERAL"))
                         /\ base < rpos' /\ rpos' < End(sent[k])
                         /\ \/ rpos' - rpos < 2
                            \/ Len(frame.body) < B
  BY <1>1 DEF f
<1>6. PICK bytes \in Recv(2) :
         /\ rpos' = rpos + Len(bytes)
         /\ Return(IF bytes = <<NUL, LF>> THEN Got(frame) ELSE Failed("APR_EGENERAL"))
  BY <1>5 DEF ReadTerminator
<1>7. /\ bytes \in Seq(Bytes) /\ Len(bytes) \in 1 .. 2 /\ rpos + Len(bytes) <= Len(stream)
      /\ \A i \in 1 .. Len(bytes) : bytes[i] = stream[rpos + i]
  BY 2 \in Nat, RecvIs
<1>8. Len(stream) \in Nat
  BY ReadsAlong
<1>9. ASSUME NEW i \in 1 .. 2, i <= Len(bytes) PROVE bytes[i] = Encode(f)[3 + 4 * H + n + i]
  <2>1. /\ 3 + 4 * H + n + i \in Nat /\ 3 + 4 * H + n + i >= 1
        /\ 3 + 4 * H + n + i <= 5 + 4 * H + B
        /\ rpos + i = base + (3 + 4 * H + n + i)
    BY <1>0, <1>2
  <2>2. base + (3 + 4 * H + n + i) <= Len(stream)
    BY <1>0, <1>7, <1>8, <1>9, <2>1
  <2>3. stream[rpos + i] = Encode(f)[3 + 4 * H + n + i]
    BY <1>3, <1>b, <2>1, <2>2
  <2> QED
    BY <1>7, <1>9, <2>3
<1>10. Len(frame.body) = n
  <2>1. \A i \in 1 .. n : f.body[i] \in Range(f.body)
    BY <1>4
  <2>2. Len(SubSeq(f.body, 1, n)) = n
    BY <2>1, SubSeqProperties
  <2> QED
    BY <1>2, <2>2 DEF Made
<1>11. CASE bytes = <<NUL, LF>>
  <2>1. Len(bytes) = 2 /\ bytes[1] = NUL /\ bytes[2] = LF
    BY <1>11
  <2>2. /\ Encode(f)[3 + 4 * H + n + 1] = NUL /\ Encode(f)[3 + 4 * H + n + 2] = LF
        /\ rpos' = rpos + 2 /\ Return(Got(frame))
    BY <1>6, <1>9, <1>11, <2>1
  <2>3. CASE n = B
    <3>1. SubSeq(f.body, 1, n) = f.body
      BY <1>4, <2>3, SubSeqFull
    <3>2. frame = Delivered(f)
      BY <1>1, <1>2, <3>1, MadeIsDelivered
    <3>3. rpos' = End(sent[k])
      BY <1>0, <1>2, <1>3, <2>2, <2>3
    <3> QED
      BY <2>2, <3>2, <3>3
  <2>4. CASE n = B - 1
    <3>1. 3 + 4 * H + n + 2 = 5 + 4 * H + n /\ 3 + 4 * H + n + 2 = 4 + 4 * H + B
      BY <2>4
    <3> QED
      BY <1>3, <2>2, <3>1, Delimiters
  <2>5. CASE n < B - 1
    <3>1. n \in 1 .. B - 2 /\ n + 1 \in 1 .. B /\ n + 2 \in 1 .. B
      BY <2>5
    <3>2. f.body[n + 1] = NUL /\ f.body[n + 2] = LF
      <4>1. 3 + 4 * H + n + 1 = 3 + 4 * H + (n + 1) /\ 3 + 4 * H + n + 2 = 3 + 4 * H + (n + 2)
        OBVIOUS
      <4> QED
        BY <1>3, <2>2, <3>1, <4>1
    <3>3. SubSeq(f.body, n + 1, n + 2) = <<NUL, LF>>
      <4>1. f.body[n + 1] \in Range(f.body) /\ f.body[n + 2] \in Range(f.body)
        BY <1>4, <3>1
      <4>2. n + 1 \in Int /\ n + 2 \in Int /\ n + 2 = (n + 1) + 1
        OBVIOUS
      <4>3. SubSeq(f.body, n + 1, n + 2) = <<f.body[n + 1], f.body[n + 2]>>
        BY <4>1, <4>2, PairOf
      <4> QED
        BY <3>2, <4>3
    <3>4. base < rpos' /\ rpos' < End(sent[k])
      <4>1. /\ End(sent[k]) = base + 5 + 4 * H + B /\ rpos' = rpos + 2
            /\ rpos = base + 3 + 4 * H + n
        BY <1>2, <1>3, <2>2
      <4> QED
        BY <1>0, <2>5, <4>1
    <3> QED
      BY <1>2, <2>2, <3>1, <3>3, <3>4
  <2> QED
    BY <2>3, <2>4, <2>5
<1>12. CASE bytes # <<NUL, LF>>
  <2>1. Return(Failed("APR_EGENERAL"))
    BY <1>6, <1>12
  <2>2. Len(bytes) = 1 \/ Len(bytes) = 2
    BY <1>7
  <2>3. CASE Len(bytes) = 1
    <3>1. rpos' = rpos + 1
      BY <1>6, <2>3
    <3>2. base < rpos' /\ rpos' < End(sent[k]) /\ rpos' - rpos < 2
      BY <1>0, <1>2, <1>3, <3>1
    <3> QED
      BY <2>1, <3>2
  <2>4. CASE Len(bytes) = 2
    <3>1. rpos' = rpos + 2
      BY <1>6, <2>4
    <3>2. n # B
      <4>1. SUFFICES ASSUME n = B PROVE FALSE
        OBVIOUS
      <4>2. bytes[1] = Encode(f)[3 + 4 * H + n + 1] /\ bytes[2] = Encode(f)[3 + 4 * H + n + 2]
        BY <1>9, <2>4
      <4>3. 3 + 4 * H + n + 1 = 4 + 4 * H + B /\ 3 + 4 * H + n + 2 = 5 + 4 * H + B
        BY <4>1
      <4>4. bytes[1] = NUL /\ bytes[2] = LF
        BY <1>3, <4>2, <4>3
      <4>5. bytes = <<bytes[1], bytes[2]>>
        BY <1>7, <2>4, PairIs
      <4> QED
        BY <1>12, <4>4, <4>5
    <3>3. base < rpos' /\ rpos' < End(sent[k]) /\ n < B
      <4>1. /\ End(sent[k]) = base + 5 + 4 * H + B /\ rpos' = rpos + 2 /\ n # B
            /\ rpos = base + 3 + 4 * H + n
        BY <1>2, <1>3, <3>1, <3>2
      <4> QED
        BY <1>0, <4>1
    <3> QED
      BY <2>1, <3>3, <1>10
  <2> QED
    BY <2>2, <2>3, <2>4
<1> QED
  BY <1>11, <1>12

LEMMA RestInSync ==
    ASSUME IInv, NEW k, Reads(k), InRest(sent[k].frame), ReadRest, ~RecvFails(1)
    PROVE  /\ InRest(sent[k].frame)' \/ InEndline(sent[k].frame)'
           /\ UNCHANGED <<result, base>>
<1> DEFINE f == sent[k].frame
<1>f. f' = f
  BY DEF ReadRest, peer
<1>0. f \in Frames /\ base \in Nat /\ rpos \in Nat
  BY ReadsAlong
<1>t. InRest(f)
  OBVIOUS
<1>b. \A m \in Nat : m >= 1 /\ m <= Len(Encode(f)) /\ base + m <= Len(stream)
                     => stream[base + m] = Encode(f)[m]
  BY ByteAhead
<1> HIDE DEF f
<1>1. PICK H \in Nat, B \in Nat : H = Len(f.headers) /\ B = Len(f.body)
  BY <1>0, FrameParts
<1>2. PICK n \in 0 .. B :
         /\ rpos = base + 3 + 4 * H + n
         /\ frame = Made(f, H, SubSeq(f.body, 1, n))
         /\ ~Sized(f)
  BY <1>1, <1>t DEF InRest, BodyAt
<1>3. /\ Len(Encode(f)) = 5 + 4 * H + B
      /\ \A i \in 1 .. B : Encode(f)[3 + 4 * H + i] = f.body[i]
      /\ Encode(f)[4 + 4 * H + B] = NUL
  <2>1. Encoded(f, H, B)
    BY <1>0, <1>1, EncodeIs
  <2> QED
    BY <2>1, <1>0, <1>1 DEF Encoded
<1>4. /\ f.body \in Seq(Range(f.body)) /\ Len(f.body) = B
      /\ \A i \in 1 .. B : f.body[i] \in Range(f.body)
  BY <1>0, <1>1, FrameParts, ElementOfSeq
<1>5. NUL \notin Range(f.body)
  <2>1. WellFormed(f)
    BY <1>0, FramesAssumption
  <2>2. ContentLength \notin DOMAIN Delivered(f).headers
    BY <1>2 DEF Delivered, Sized
  <2> QED
    BY <2>1, <2>2 DEF WellFormed
<1>6. PICK bytes \in Recv(1) :
         /\ rpos' = rpos + 1
         /\ frame' = [frame EXCEPT !.body = @ \o bytes]
         /\ Continue(IF bytes = <<NUL>> THEN "endline" ELSE "rest")
  BY DEF ReadRest
<1>7. bytes = <<stream[rpos + 1]>> /\ rpos + 1 <= Len(stream) /\ Len(stream) \in Nat
  BY RecvOne, ReadsAlong
<1>8. stream[rpos + 1] = Encode(f)[4 + 4 * H + n]
  <2>1. /\ 4 + 4 * H + n \in Nat /\ 4 + 4 * H + n >= 1 /\ 4 + 4 * H + n <= 5 + 4 * H + B
        /\ rpos + 1 = base + (4 + 4 * H + n)
    BY <1>0, <1>2
  <2> QED
    BY <1>3, <1>7, <1>b, <2>1
<1> DEFINE b == stream[rpos + 1]
           p == SubSeq(f.body, 1, n)
<1>9. /\ frame' = Made(f, H, p \o <<b>>)
      /\ BodyAt(f)' = base + 3 + 4 * H /\ UNCHANGED <<result, base>>
      /\ rpos' = base + 3 + 4 * H + n + 1
  <2>1. UNCHANGED <<result, base>>
    BY <1>6 DEF Continue
  <2>2. frame' = Made(f, H, p \o <<b>>)
    <3> HIDE DEF p, b
    <3>1. frame = Made(f, H, p) /\ bytes = <<b>>
      BY <1>2, <1>7 DEF p, b
    <3> QED
      BY <1>6, <3>1 DEF Made
  <2> QED
    BY <1>f, <1>1, <1>2, <1>6, <2>1, <2>2 DEF BodyAt
<1>10. CASE n < B
  <2>1. b = f.body[n + 1] /\ n + 1 \in 1 .. B
    <3>1. n + 1 \in 1 .. B
      BY <1>10
    <3>2. 4 + 4 * H + n = 3 + 4 * H + (n + 1)
      OBVIOUS
    <3> QED
      BY <1>3, <1>8, <3>1, <3>2
  <2>2. b # NUL
    BY <1>4, <1>5, <2>1
  <2>3. pc' = "rest"
    BY <1>6, <1>7, <2>2 DEF Continue
  <2>4. p \o <<b>> = SubSeq(f.body, 1, n + 1)
    BY <1>4, <1>10, <2>1, PrefixNext
  <2>5. InRest(f)'
    <3>1. n + 1 \in 0 .. B /\ rpos' = BodyAt(f)' + (n + 1)
      BY <1>0, <1>9, <1>10
    <3> QED
      BY <1>f, <1>1, <1>2, <1>9, <2>3, <2>4, <3>1 DEF InRest, Sized
  <2> QED
    BY <1>9, <2>5 DEF f
<1>11. CASE n = B
  <2>1. b = NUL /\ bytes = <<NUL>>
    BY <1>3, <1>7, <1>8, <1>11
  <2>2. pc' = "endline"
    BY <1>6, <2>1 DEF Continue
  <2>3. p \o <<b>> = Append(f.body, NUL)
    <3> DEFINE X == Range(f.body) \cup {NUL}
    <3>1. p = f.body
      BY <1>4, <1>11, SubSeqFull
    <3>2. f.body \in Seq(X) /\ NUL \in X
      BY <1>4, SeqMonotonic
    <3> HIDE DEF X
    <3>3. Append(f.body, NUL) = f.body \o <<NUL>>
      BY <3>2, AppendIsConcat
    <3> QED
      BY <2>1, <3>1, <3>3
  <2>4. frame' = Delivered(f)
    BY <1>1, <1>2, <1>9, <2>3, MadeIsDelivered
  <2>5. InEndline(f)'
    <3>1. rpos' = BodyAt(f)' + B + 1
      BY <1>0, <1>9, <1>11
    <3> QED
      BY <1>f, <1>1, <1>2, <2>2, <2>4, <3>1 DEF InEndline, Sized
  <2> QED
    BY <1>9, <2>5 DEF f
<1> QED
  BY <1>10, <1>11

LEMMA EndlineInSync ==
    ASSUME IInv, NEW k, Reads(k), InEndline(sent[k].frame), ReadEndline
    PROVE  /\ base < rpos /\ rpos < End(sent[k])
           /\ \/ Return(Got(Delivered(sent[k].frame))) /\ rpos' = End(sent[k])
              \/ Return(Got(Delivered(sent[k].frame))) /\ rpos' = rpos /\ rpos' = End(sent[k]) - 1
              \/ Return(Failed("APR_EGENERAL")) /\ rpos' = rpos
<1> DEFINE f == sent[k].frame
<1>0. f \in Frames /\ base \in Nat /\ rpos \in Nat
  BY ReadsAlong
<1>e. End(sent[k]) = base + Len(Encode(f))
  BY DEF End, Reads
<1>t. InEndline(f)
  OBVIOUS
<1>b. \A m \in Nat : m >= 1 /\ m <= Len(Encode(f)) /\ base + m <= Len(stream)
                     => stream[base + m] = Encode(f)[m]
  BY ByteAhead
<1> HIDE DEF f
<1>1. PICK H \in Nat, B \in Nat : H = Len(f.headers) /\ B = Len(f.body)
  BY <1>0, FrameParts
<1>2. rpos = base + 3 + 4 * H + B + 1 /\ frame = Delivered(f)
  BY <1>1, <1>t DEF InEndline, BodyAt
<1>3. /\ Len(Encode(f)) = 5 + 4 * H + B /\ Encode(f)[5 + 4 * H + B] = LF
      /\ End(sent[k]) = base + 5 + 4 * H + B
  <2>1. Len(Encode(f)) = 5 + 4 * H + B
    <3>1. Encoded(f, H, B)
      BY <1>0, <1>1, EncodeIs
    <3> QED
      BY <3>1, <1>0, <1>1 DEF Encoded
  <2>2. End(sent[k]) = base + 5 + 4 * H + B
    BY <1>0, <1>e, <2>1
  <2> QED
    <3>1. Encoded(f, H, B)
      BY <1>0, <1>1, <2>1, <2>2, EncodeIs
    <3> QED
      BY <3>1, <1>0, <1>1, <2>1, <2>2 DEF Encoded
<1>4. base < rpos /\ rpos < End(sent[k]) /\ rpos + 1 = End(sent[k]) /\ rpos = End(sent[k]) - 1
  BY <1>0, <1>2, <1>3
<1>5. ASSUME NEW bytes \in Recv(1) PROVE bytes = <<LF>>
  <2>1. bytes = <<stream[rpos + 1]>> /\ rpos + 1 <= Len(stream) /\ Len(stream) \in Nat
    BY RecvOne, ReadsAlong
  <2>2. /\ 5 + 4 * H + B \in Nat /\ 5 + 4 * H + B >= 1
        /\ rpos + 1 = base + (5 + 4 * H + B)
    BY <1>0, <1>2
  <2> QED
    BY <1>3, <1>b, <2>1, <2>2
<1>6. \/ rpos' = rpos + 1 /\ Return(Got(frame))
      \/ rpos' = rpos /\ (Return(Got(frame)) \/ Return(Failed("APR_EGENERAL")))
  BY <1>5 DEF ReadEndline
<1> QED
  BY <1>2, <1>4, <1>6 DEF f
-----------------------------------------------------------------------------
(* Every step preserves the invariant. *)

LEMMA LineTypes ==
    ASSUME IInv, ReadLine, ~RecvFails(1)
    PROVE  /\ rpos' = rpos + 1 /\ rpos' \in rpos + 1 .. Len(stream)
           /\ \/ Return(Failed("APR_EGENERAL"))
              \/ /\ pc' \in {"command", "headers", "body", "rest"}
                 /\ UNCHANGED <<result, base>>
                 /\ line' \in Seq(Bytes \ {LF, NUL}) /\ FrameOK(frame')
<1>0. /\ line \in Seq(Bytes \ {LF, NUL}) /\ FrameOK(frame) /\ pc \in {"command", "headers"}
      /\ rpos \in Nat /\ Len(stream) \in Nat
  BY LenProperties DEF IInv, Built, TypeOK, ReadLine
<1>1. PICK bytes \in Recv(1) :
         /\ rpos' = rpos + 1
         /\ \/ bytes = <<LF>> /\ (EndOfCommand \/ HeaderLine \/ MalformedHeaderLine \/ EndOfHeaders)
            \/ bytes = <<NUL>> /\ Return(Failed("APR_EGENERAL"))
            \/ /\ bytes[1] \notin {LF, NUL}
               /\ line' = line \o bytes
               /\ UNCHANGED frame
               /\ Continue(pc)
  BY DEF ReadLine
<1>2. bytes = <<stream[rpos + 1]>> /\ stream[rpos + 1] \in Bytes /\ rpos + 1 <= Len(stream)
  BY RecvOne
<1>3. rpos' = rpos + 1 /\ rpos' \in rpos + 1 .. Len(stream)
  BY <1>0, <1>1, <1>2
<1>4. line \in Seq(Bytes) /\ <<>> \in Seq(Bytes \ {LF, NUL})
  BY <1>0, SeqMonotonic, EmptySeq
<1>5. CASE EndOfCommand
  <2>1. /\ pc' = "headers" /\ UNCHANGED <<result, base>> /\ line' = <<>>
        /\ frame' = [frame EXCEPT !.command = line]
    BY <1>5 DEF EndOfCommand, Continue
  <2>2. frame' = [command |-> line, headers |-> frame.headers, body |-> frame.body]
    BY <1>0, <2>1 DEF FrameOK
  <2>3. FrameOK(frame')
    BY <1>0, <1>4, <2>2 DEF FrameOK
  <2> QED
    BY <1>3, <1>4, <2>1, <2>3
<1>6. CASE HeaderLine
  <2> DEFINE c == ColonIn(line)
             key == SubSeq(line, 1, c - 1)
             value == SubSeq(line, c + 1, Len(line))
  <2>1. /\ pc' = "headers" /\ UNCHANGED <<result, base>> /\ line' = <<>>
        /\ frame' = [frame EXCEPT !.headers = apr_hash_set(frame.headers, key, value)]
        /\ Contains(line, COLON)
    BY <1>6 DEF HeaderLine, Continue
  <2>2. Len(line) \in Nat /\ \A i \in 1 .. Len(line) : line[i] \in Bytes
    BY <1>4, LenProperties, ElementOfSeq
  <2>3. c \in 1 .. Len(line)
    <3> DEFINE I == {i \in 1 .. Len(line) : line[i] = COLON}
    <3>1. I # {} /\ I \in SUBSET Nat
      BY <2>1, <2>2 DEF Contains
    <3>2. c = Min(I)
      BY <3>1 DEF ColonIn, SelectInSeq
    <3> HIDE DEF c
    <3>3. Min(I) \in I
      BY <3>1, MinExists
    <3> QED
      BY <3>2, <3>3
  <2> HIDE DEF c
  <2>4. key \in Seq(Bytes) /\ value \in Seq(Bytes)
    <3>1. /\ \A i \in 1 .. c - 1 : line[i] \in Bytes
          /\ \A i \in c + 1 .. Len(line) : line[i] \in Bytes
          /\ 1 \in Int /\ c - 1 \in Int /\ c + 1 \in Int /\ Len(line) \in Int
      BY <2>2, <2>3
    <3>2. SubSeq(line, 1, c - 1) \in Seq(Bytes)
      BY <3>1, SubSeqProperties
    <3>3. SubSeq(line, c + 1, Len(line)) \in Seq(Bytes)
      BY <3>1, SubSeqProperties
    <3> QED
      BY <3>2, <3>3
  <2> HIDE DEF key, value
  <2>5. /\ frame' = [command |-> frame.command, body |-> frame.body,
                     headers |-> apr_hash_set(frame.headers, key, value)]
    BY <1>0, <2>1 DEF FrameOK
  <2>6. FrameOK(frame')
    BY <1>0, <2>4, <2>5 DEF FrameOK, apr_hash_set
  <2> QED
    BY <1>3, <1>4, <2>1, <2>6
<1>7. CASE MalformedHeaderLine
  BY <1>3, <1>7 DEF MalformedHeaderLine
<1>8. CASE EndOfHeaders
  BY <1>0, <1>3, <1>8 DEF EndOfHeaders, Continue
<1>9. CASE bytes[1] \notin {LF, NUL} /\ line' = line \o bytes /\ UNCHANGED frame /\ Continue(pc)
  <2>1. bytes \in Seq(Bytes \ {LF, NUL})
    <3>1. stream[rpos + 1] \in Bytes \ {LF, NUL}
      BY <1>2, <1>9
    <3> QED
      BY <1>2, <3>1
  <2>2. line' \in Seq(Bytes \ {LF, NUL})
    BY <1>0, <1>9, <2>1, ConcatProperties
  <2> QED
    BY <1>0, <1>3, <1>9, <2>2 DEF Continue
<1> QED
  BY <1>1, <1>3, <1>5, <1>6, <1>7, <1>8, <1>9

\* How a call that began on frame k goes on or ends, in a step of the reader.
GoesOn(k) == UNCHANGED <<result, base>> /\ pc' # "idle" /\ Progress(sent[k].frame)'

RecvEnds(k) == \E n \in Nat :
    /\ RecvFails(n)
    /\ \/ rpos = base
       \/ base < rpos /\ rpos < End(sent[k])
    /\ n = 0 => /\ pc = "body" /\ rpos # base
               /\ apr_atoi64(frame.headers[ContentLength]) = 0

Whole(k) == /\ Return(Got(Delivered(sent[k].frame)))
            /\ rpos' = End(sent[k]) \/ rpos' = End(sent[k]) - 1

CutShort(k) == \E n \in 1 .. Len(sent[k].frame.body) - 2 :
    /\ SubSeq(sent[k].frame.body, n + 1, n + 2) = <<NUL, LF>>
    /\ Return(Got(Made(sent[k].frame, Len(sent[k].frame.headers),
                       SubSeq(sent[k].frame.body, 1, n))))
    /\ Sized(sent[k].frame)
    /\ base < rpos' /\ rpos' < End(sent[k])

Broken(k) == /\ Return(Failed("APR_EGENERAL"))
             /\ base < rpos' /\ rpos' < End(sent[k])
             /\ \/ pc = "endline" /\ rpos' = rpos
                \/ /\ pc = "terminator"
                   /\ \/ rpos' - rpos < 2
                      \/ Len(frame.body) < apr_atoi64(frame.headers[ContentLength])

LEMMA Middle ==
    ASSUME IInv, NEW k, Reads(k), rpos # base
    PROVE  base < rpos /\ rpos < End(sent[k])
<1> DEFINE f == sent[k].frame
<1>0. f \in Frames /\ base \in Nat /\ rpos \in Nat /\ Progress(f)
  BY ReadsAlong
<1>e. End(sent[k]) = base + Len(Encode(f))
  BY DEF End, Reads
<1> HIDE DEF f
<1>1. PICK H \in Nat, B \in Nat : H = Len(f.headers) /\ B = Len(f.body)
  BY <1>0, FrameParts
<1>2. Len(Encode(f)) = 5 + 4 * H + B
  <2>1. Encoded(f, H, B)
    BY <1>0, <1>1, EncodeIs
  <2> QED
    BY <2>1, <1>0, <1>1 DEF Encoded
<1>3. End(sent[k]) = base + 5 + 4 * H + B
  BY <1>0, <1>2, <1>e
<1>4. CASE InCommand(f)
  BY <1>0, <1>3, <1>4 DEF InCommand
<1>5. CASE InHeaders(f)
  <2>1. PICK j \in 0 .. H, n \in 0 .. 3 : (j = H => n = 0) /\ rpos = base + 2 + 4 * j + n
    BY <1>1, <1>5 DEF InHeaders
  <2> QED
    BY <1>0, <1>3, <2>1
<1>6. CASE InBody(f) \/ InTerminator(f) \/ InRest(f)
  <2>1. PICK n \in 0 .. B : rpos = base + 3 + 4 * H + n
    <3>1. InBody(f) => rpos = base + 3 + 4 * H + 0
      BY <1>0, <1>1 DEF InBody, BodyAt
    <3> QED
      BY <1>1, <1>6, <3>1 DEF InTerminator, InRest, BodyAt
  <2> QED
    BY <1>0, <1>3, <2>1
<1>7. CASE InEndline(f)
  <2>1. rpos = base + 3 + 4 * H + B + 1
    BY <1>1, <1>7 DEF InEndline, BodyAt
  <2> QED
    BY <1>0, <1>3, <2>1
<1> QED
  BY <1>0, <1>4, <1>5, <1>6, <1>7 DEF Progress

LEMMA Outcome ==
    ASSUME IInv, NEW k, Reads(k), ReadStep
    PROVE  GoesOn(k) \/ RecvEnds(k) \/ Whole(k) \/ CutShort(k) \/ Broken(k)
<1> DEFINE f == sent[k].frame
<1>0. Progress(f) /\ f \in Frames /\ base \in Nat /\ rpos \in Nat /\ base <= rpos
  BY ReadsAlong
<1>1. rpos = base \/ (base < rpos /\ rpos < End(sent[k]))
  BY Middle
<1>2. End(sent[k]) \in Nat /\ sent[k].start + 5 <= End(sent[k]) /\ sent[k].start = base
  BY SentParts DEF Reads, IInv
<1>3. Len(f.body) \in Nat
  BY <1>0, FrameParts
<1>4. ASSUME NEW n \in Nat, n # 0, RecvFails(n) PROVE RecvEnds(k)
  BY <1>1, <1>4 DEF RecvEnds
<1>5. CASE ReadLine
  <2>1. CASE RecvFails(1)
    BY <1>4, <2>1
  <2>2. CASE ~RecvFails(1)
    <3>1. InCommand(f) \/ InHeaders(f)
      BY <1>0, <1>5 DEF Progress, ReadLine, InBody, InTerminator, InRest, InEndline
    <3>2. UNCHANGED <<result, base>>
          /\ (InCommand(f)' \/ InHeaders(f)' \/ InBody(f)' \/ InRest(f)')
      BY <1>5, <2>2, <3>1, CommandInSync, HeadersInSync
    <3>3. Progress(f)' /\ pc' # "idle"
      BY <3>2 DEF Progress, InCommand, InHeaders, InBody, InRest
    <3> QED
      BY <3>2, <3>3 DEF GoesOn
  <2> QED
    BY <2>1, <2>2
<1>6. CASE ReadBody
  <2>1. InBody(f)
    BY <1>0, <1>6 DEF Progress, ReadBody, InCommand, InHeaders, InTerminator, InRest, InEndline
  <2>2. /\ apr_atoi64(frame.headers[ContentLength]) = Len(f.body)
        /\ \/ RecvFails(Len(f.body))
           \/ InTerminator(f)' /\ UNCHANGED <<result, base>>
    BY <1>6, <2>1, BodyInSync
  <2>3. CASE RecvFails(Len(f.body))
    <3>1. pc = "body" /\ rpos # base
      BY <2>1 DEF InBody, IInv, Fresh
    <3> QED
      BY <1>1, <1>3, <2>2, <2>3, <3>1 DEF RecvEnds
  <2>4. CASE InTerminator(f)' /\ UNCHANGED <<result, base>>
    BY <2>4 DEF GoesOn, Progress, InTerminator
  <2> QED
    BY <2>2, <2>3, <2>4
<1>7. CASE ReadTerminator
  <2>1. InTerminator(f) /\ pc = "terminator"
    BY <1>0, <1>7 DEF Progress, ReadTerminator, InCommand, InHeaders, InBody, InRest, InEndline
  <2>2. \/ RecvFails(2)
        \/ Return(Got(Delivered(f))) /\ rpos' = End(sent[k])
        \/ \E n \in 1 .. Len(f.body) - 2 :
              /\ SubSeq(f.body, n + 1, n + 2) = <<NUL, LF>>
              /\ Return(Got(Made(f, Len(f.headers), SubSeq(f.body, 1, n))))
              /\ Sized(f)
              /\ base < rpos' /\ rpos' < End(sent[k])
        \/ /\ Return(Failed("APR_EGENERAL"))
           /\ base < rpos' /\ rpos' < End(sent[k])
           /\ \/ rpos' - rpos < 2
              \/ Len(frame.body) < Len(f.body)
    BY <1>7, <2>1, TerminatorInSync
  <2>3. apr_atoi64(frame.headers[ContentLength]) = Len(f.body)
    <3>1. PICK n \in 1 .. Len(f.body) : frame = Made(f, Len(f.headers), SubSeq(f.body, 1, n))
      BY <2>1 DEF InTerminator
    <3>2. WellFormed(f) /\ Sized(f)
      BY <1>0, <2>1, FramesAssumption DEF InTerminator
    <3> HIDE DEF f
    <3> QED
      BY <3>1, <3>2 DEF WellFormed, Delivered, Made, Sized
  <2>4. CASE RecvFails(2)
    BY <1>4, <2>4
  <2>5. CASE Return(Got(Delivered(f))) /\ rpos' = End(sent[k])
    BY <2>5 DEF Whole
  <2>6. CASE \E n \in 1 .. Len(f.body) - 2 :
              /\ SubSeq(f.body, n + 1, n + 2) = <<NUL, LF>>
              /\ Return(Got(Made(f, Len(f.headers), SubSeq(f.body, 1, n))))
              /\ Sized(f)
              /\ base < rpos' /\ rpos' < End(sent[k])
    BY <2>6 DEF CutShort
  <2>7. CASE /\ Return(Failed("APR_EGENERAL"))
             /\ base < rpos' /\ rpos' < End(sent[k])
             /\ \/ rpos' - rpos < 2
                \/ Len(frame.body) < Len(f.body)
    BY <2>1, <2>3, <2>7 DEF Broken
  <2> QED
    BY <2>2, <2>4, <2>5, <2>6, <2>7
<1>8. CASE ReadRest
  <2>1. CASE RecvFails(1)
    BY <1>4, <2>1
  <2>2. CASE ~RecvFails(1)
    <3>1. InRest(f)
      BY <1>0, <1>8 DEF Progress, ReadRest, InCommand, InHeaders, InBody, InTerminator, InEndline
    <3>2. UNCHANGED <<result, base>> /\ (InRest(f)' \/ InEndline(f)')
      BY <1>8, <2>2, <3>1, RestInSync
    <3> QED
      BY <3>2 DEF GoesOn, Progress, InRest, InEndline
  <2> QED
    BY <2>1, <2>2
<1>9. CASE ReadEndline
  <2>1. InEndline(f) /\ pc = "endline"
    BY <1>0, <1>9 DEF Progress, ReadEndline, InCommand, InHeaders, InBody, InTerminator, InRest
  <2>2. /\ base < rpos /\ rpos < End(sent[k])
        /\ \/ Return(Got(Delivered(sent[k].frame))) /\ rpos' = End(sent[k])
           \/ Return(Got(Delivered(sent[k].frame))) /\ rpos' = rpos /\ rpos' = End(sent[k]) - 1
           \/ Return(Failed("APR_EGENERAL")) /\ rpos' = rpos
    BY <1>9, <2>1, EndlineInSync
  <2> QED
    BY <2>1, <2>2 DEF Whole, Broken
<1> QED
  BY <1>5, <1>6, <1>7, <1>8, <1>9 DEF ReadStep
Returns == \/ Return(Got(frame))
           \/ \E rc \in Chan!ReadError : Return(Failed(rc))

Proceeds == /\ rpos' \in rpos + 1 .. Len(stream)
            /\ pc' \in {"command", "headers", "body", "terminator", "rest", "endline"}
            /\ UNCHANGED <<result, base>>
            /\ line' \in Seq(Bytes \ {LF, NUL}) /\ FrameOK(frame')

LEMMA ReadTypes ==
    ASSUME IInv, ReadStep
    PROVE  UNCHANGED peer /\ rpos' \in rpos .. Len(stream) /\ (Returns \/ Proceeds)
<1>0. /\ line \in Seq(Bytes \ {LF, NUL}) /\ FrameOK(frame)
      /\ rpos \in Nat /\ Len(stream) \in Nat /\ rpos <= Len(stream)
  BY LenProperties DEF IInv, Built, TypeOK
<1>p. UNCHANGED peer /\ pc # "idle"
  BY DEF ReadStep, ReadLine, ReadBody, ReadTerminator, ReadRest, ReadEndline
<1>e. "APR_EGENERAL" \in Chan!ReadError
  BY DEF Chan!ReadError
<1>1. ASSUME NEW n, RecvFails(n) PROVE rpos' \in rpos .. Len(stream) /\ Returns
  <2>1. PICK rc \in RecvError(n) : Return(Failed(rc))
    BY <1>1 DEF RecvFails
  <2>2. rc \in Chan!ReadError
    BY RecvErrorIs DEF Chan!ReadError
  <2> QED
    BY <1>0, <1>1, <2>1, <2>2 DEF RecvFails, Returns
<1>2. CASE ReadLine
  <2>1. CASE RecvFails(1)
    BY <1>1, <1>p, <2>1
  <2>2. CASE ~RecvFails(1)
    BY <1>0, <1>2, <1>e, <1>p, <2>2, LineTypes DEF Returns, Proceeds
  <2> QED
    BY <2>1, <2>2
<1>3. CASE ReadBody
  <2> DEFINE n == apr_atoi64(frame.headers[ContentLength])
  <2>1. n \in Nat
    BY NumberIsNatural
  <2>2. CASE RecvFails(n)
    BY <1>1, <1>p, <2>2
  <2>3. CASE \E bytes \in Recv(n) :
                /\ rpos' = rpos + Len(bytes)
                /\ frame' = [frame EXCEPT !.body = bytes]
                /\ UNCHANGED line
                /\ Continue("terminator")
    <3> HIDE DEF n
    <3>1. PICK bytes \in Recv(n) :
                /\ rpos' = rpos + Len(bytes)
                /\ frame' = [frame EXCEPT !.body = bytes]
                /\ UNCHANGED line
                /\ Continue("terminator")
      BY <2>3
    <3>2. bytes \in Seq(Bytes) /\ Len(bytes) \in 1 .. n /\ rpos + Len(bytes) <= Len(stream)
      BY <2>1, RecvIs
    <3>3. rpos' \in rpos + 1 .. Len(stream)
      BY <1>0, <2>1, <3>1, <3>2
    <3>4. frame' = [command |-> frame.command, headers |-> frame.headers, body |-> bytes]
      BY <1>0, <3>1 DEF FrameOK
    <3>5. FrameOK(frame')
      BY <1>0, <3>2, <3>4 DEF FrameOK
    <3> QED
      BY <1>0, <1>p, <3>1, <3>3, <3>5 DEF Continue, Proceeds
  <2> QED
    BY <1>3, <2>2, <2>3 DEF ReadBody
<1>4. CASE ReadTerminator
  <2>1. CASE RecvFails(2)
    BY <1>1, <1>p, <2>1
  <2>2. CASE \E bytes \in Recv(2) :
                /\ rpos' = rpos + Len(bytes)
                /\ Return(IF bytes = <<NUL, LF>> THEN Got(frame) ELSE Failed("APR_EGENERAL"))
    <3>1. PICK bytes \in Recv(2) :
                /\ rpos' = rpos + Len(bytes)
                /\ Return(IF bytes = <<NUL, LF>> THEN Got(frame) ELSE Failed("APR_EGENERAL"))
      BY <2>2
    <3>2. Len(bytes) \in 1 .. 2 /\ rpos + Len(bytes) <= Len(stream)
      BY 2 \in Nat, RecvIs
    <3>3. rpos' \in rpos .. Len(stream)
      BY <1>0, <3>1, <3>2
    <3>4. Return(Got(frame)) \/ Return(Failed("APR_EGENERAL"))
      BY <3>1
    <3> QED
      BY <1>e, <1>p, <3>3, <3>4 DEF Returns
  <2> QED
    BY <1>4, <2>1, <2>2 DEF ReadTerminator
<1>5. CASE ReadRest
  <2>1. CASE RecvFails(1)
    BY <1>1, <1>p, <2>1
  <2>2. CASE ~RecvFails(1)
    <3>1. PICK bytes \in Recv(1) :
             /\ rpos' = rpos + 1
             /\ frame' = [frame EXCEPT !.body = @ \o bytes]
             /\ UNCHANGED line
             /\ Continue(IF bytes = <<NUL>> THEN "endline" ELSE "rest")
      BY <1>5, <2>2 DEF ReadRest
    <3>2. bytes \in Seq(Bytes) /\ rpos + 1 <= Len(stream)
      BY 1 \in Nat, RecvIs, RecvOne
    <3>3. rpos' \in rpos + 1 .. Len(stream) /\ rpos' \in rpos .. Len(stream)
      BY <1>0, <3>1, <3>2
    <3>4. frame' = [command |-> frame.command, headers |-> frame.headers,
                    body |-> frame.body \o bytes]
      BY <1>0, <3>1 DEF FrameOK
    <3>5. frame.body \o bytes \in Seq(Bytes)
      BY <1>0, <3>2, ConcatProperties DEF FrameOK
    <3>6. FrameOK(frame')
      BY <1>0, <3>4, <3>5 DEF FrameOK
    <3>7. pc' \in {"endline", "rest"} /\ UNCHANGED <<result, base>>
      BY <3>1 DEF Continue
    <3> QED
      BY <1>0, <1>p, <3>1, <3>3, <3>6, <3>7 DEF Proceeds
  <2> QED
    BY <2>1, <2>2
<1>6. CASE ReadEndline
  <2>1. rpos' = rpos \/ (rpos' = rpos + 1 /\ rpos + 1 <= Len(stream))
    BY <1>6, RecvOne DEF ReadEndline
  <2>2. Return(Got(frame)) \/ Return(Failed("APR_EGENERAL"))
    BY <1>6 DEF ReadEndline
  <2> QED
    BY <1>0, <1>e, <1>p, <2>1, <2>2 DEF Returns
<1> QED
  BY <1>2, <1>3, <1>4, <1>5, <1>6 DEF ReadStep

LEMMA ReadKeeps ==
    ASSUME IInv, ReadStep
    PROVE  IInv'
<1>1. UNCHANGED peer /\ rpos' \in rpos .. Len(stream) /\ (Returns \/ Proceeds)
  BY ReadTypes
<1>2. CASE Return(Got(frame))
  BY <1>1, <1>2, ReturnKeeps DEF Got
<1>3. CASE \E rc \in Chan!ReadError : Return(Failed(rc))
  BY <1>1, <1>3, ReturnKeeps DEF Failed
<1>4. CASE Proceeds
  <2>1. pc # "idle"
    BY DEF ReadStep, ReadLine, ReadBody, ReadTerminator, ReadRest, ReadEndline
  <2>2. ASSUME NEW k \in DOMAIN sent, sent[k].start = base
        PROVE  Progress(sent[k].frame)'
    <3>1. Reads(k)
      BY <2>1, <2>2 DEF Reads
    <3>2. pc' # "idle"
      BY <1>4 DEF Proceeds
    <3>3. GoesOn(k)
      BY <3>1, <3>2, Outcome
      DEF RecvEnds, RecvFails, Whole, CutShort, Broken, Return
    <3> QED
      BY <3>3 DEF GoesOn
  <2>3. Follows'
    BY <1>1, <1>4, <2>2 DEF Follows, Proceeds, peer
  <2> QED
    BY <1>1, <1>4, <2>3, ContinueKeeps DEF Proceeds
<1> QED
  BY <1>1, <1>2, <1>3, <1>4 DEF Returns

LEMMA StartKeeps ==
    ASSUME IInv, StartRead
    PROVE  IInv'
<1>1. /\ pc = "idle" /\ pc' = "command"
      /\ UNCHANGED <<stream, closed, sent, rpos, line, frame, result, base>>
  BY DEF StartRead, peer
<1>2. rpos = base /\ line = <<>> /\ frame = NewFrame
  BY <1>1 DEF IInv, Fresh
<1>3. TypeOK'
  BY <1>1 DEF IInv, TypeOK
<1>4. Sends' /\ Counted'
  BY <1>1, PeerKeeps DEF peer
<1>5. Fresh' /\ Built'
  BY <1>1, <1>2 DEF IInv, Fresh, Built
<1>6. Follows'
  BY <1>1, <1>2 DEF Follows, Progress, InCommand
<1> QED
  BY <1>3, <1>4, <1>5, <1>6 DEF IInv

\* What was sent before stays where it is.
LEMMA StillFollows ==
    ASSUME IInv, UNCHANGED <<rpos, pc, line, frame, base>>,
           NEW k \in DOMAIN sent, sent'[k] = sent[k], sent[k].start = base, pc # "idle"
    PROVE  Progress(sent[k].frame)'
<1>1. Progress(sent[k].frame)
  BY DEF IInv, Follows
<1> QED
  BY <1>1 DEF Progress, InCommand, InHeaders, InBody, InTerminator, InRest, InEndline, BodyAt

LEMMA SendKeeps ==
    ASSUME IInv, NEW f \in Frames, Send(f)
    PROVE  IInv'
<1> DEFINE e == Encode(f)
           new == [frame |-> f, start |-> Len(stream)]
<1>0. /\ ~closed /\ stream' = stream \o e /\ sent' = Append(sent, new)
      /\ UNCHANGED <<rpos, closed, pc, line, frame, result, base>>
  BY DEF Send
<1>1. PICK S \in Nat, L \in Nat, N \in Nat :
         S = Len(stream) /\ L = Len(e) /\ N = Len(sent) /\ L >= 5 /\ e \in Seq(Bytes)
  <2>1. PICK H \in Nat, B \in Nat : H = Len(f.headers) /\ B = Len(f.body)
    BY FrameParts
  <2>2. e \in Seq(Bytes) /\ Len(e) = 5 + 4 * H + B
    <3>1. Encoded(f, H, B)
      BY <2>1, EncodeIs
    <3> QED
      BY <3>1, <2>1 DEF Encoded
  <2>3. Len(stream) \in Nat /\ Len(sent) \in Nat
    BY LenProperties DEF IInv, TypeOK, Sends
  <2>4. Len(e) \in Nat /\ Len(e) >= 5
    BY <2>2
  <2> QED
    BY <2>2, <2>3, <2>4
<1> DEFINE Sent == [frame : Frames, start : Nat]
<1>2. /\ sent \in Seq(Sent) /\ new \in Sent /\ DOMAIN sent = 1 .. N
      /\ new.frame = f /\ new.start = S
  BY <1>1, LenProperties DEF IInv, Sends
<1>3. /\ stream \in Seq(Bytes)
      /\ Joins(Bytes, stream, e, S, L)
  BY <1>1, ConcatAt DEF IInv, TypeOK
<1> HIDE DEF e
<1>4. /\ stream' \in Seq(Bytes) /\ Len(stream') = S + L
      /\ \A i \in 1 .. S : stream'[i] = stream[i]
      /\ \A i \in 1 .. L : stream'[S + i] = e[i]
  BY <1>0, <1>3 DEF Joins
<1>5. /\ sent' \in Seq(Sent) /\ Len(sent') = N + 1 /\ DOMAIN sent' = 1 .. N + 1
      /\ \A i \in 1 .. N : sent'[i] = sent[i]
      /\ sent'[N + 1] = new /\ sent' # <<>>
  <2>1. /\ sent' \in Seq(Sent) /\ Len(sent') = Len(sent) + 1
        /\ \A i \in 1 .. Len(sent) : sent'[i] = sent[i]
        /\ sent'[Len(sent) + 1] = new /\ sent' # <<>>
    <3> HIDE DEF new, Sent
    <3> QED
      BY <1>0, <1>2, AppendProperties
  <2>2. DOMAIN sent' = 1 .. Len(sent')
    BY <2>1, LenProperties
  <2> QED
    BY <1>1, <2>1, <2>2
<1> HIDE DEF new
<1>6. End(new) = S + L /\ Encode(new.frame) = e
  BY <1>1, <1>2 DEF End, e
<1>7. /\ S = Ends
      /\ N = 0 => S = 0
      /\ N # 0 => S = End(sent[N])
  <2>1. S = Ends
    BY <1>0, <1>1 DEF IInv, Sends
  <2>2. N = 0 <=> sent = <<>>
    BY <1>1, <1>2, EmptySeq
  <2> QED
    BY <1>1, <2>1, <2>2 DEF Ends
<1>8. ASSUME NEW i \in 1 .. N
      PROVE  /\ sent[i].start \in Nat /\ End(sent[i]) \in Nat /\ End(sent[i]) <= S
             /\ sent[i].start < End(sent[i])
             /\ End(sent[i]) = sent[i].start + Len(Encode(sent[i].frame))
  <2>1. \A j \in 1 .. N : /\ sent[j].start \in Nat /\ End(sent[j]) \in Nat
                         /\ sent[j].start + 5 <= End(sent[j])
    BY <1>2, SentParts DEF IInv
  <2>2. N \in 1 .. N /\ (i = N \/ i < N)
    OBVIOUS
  <2>3. i < N => End(sent[i]) <= sent[N].start
    BY <1>2, <2>2 DEF IInv, Sends
  <2>4. End(sent[N]) = S
    BY <1>7, <2>2
  <2>5. End(sent[i]) = sent[i].start + Len(Encode(sent[i].frame))
    BY DEF End
  <2>6. /\ sent[i].start \in Nat /\ End(sent[i]) \in Nat /\ sent[i].start + 5 <= End(sent[i])
        /\ sent[N].start \in Nat /\ End(sent[N]) \in Nat /\ sent[N].start + 5 <= End(sent[N])
    BY <2>1, <2>2
  <2>7. End(sent[i]) <= S
    <3>1. CASE i = N
      BY <2>4, <3>1
    <3>2. CASE i < N
      BY <2>3, <2>4, <2>6, <3>2
    <3> QED
      BY <2>2, <3>1, <3>2
  <2> QED
    BY <2>5, <2>6, <2>7
<1>9. Sends'
  <2>1. ASSUME NEW i \in 1 .. N + 1
        PROVE  sent'[i].start = IF i = 1 THEN 0 ELSE End(sent'[i - 1])
    <3>1. CASE i \in 1 .. N
      <4>1. sent[i].start = IF i = 1 THEN 0 ELSE End(sent[i - 1])
        BY <1>2, <3>1 DEF IInv, Sends
      <4>2. sent'[i] = sent[i] /\ (i # 1 => sent'[i - 1] = sent[i - 1])
        BY <1>5, <3>1
      <4> QED
        BY <4>1, <4>2
    <3>2. CASE i = N + 1
      <4>1. sent'[i].start = S
        BY <1>2, <1>5, <3>2
      <4>2. N # 0 => sent'[i - 1] = sent[N]
        BY <1>5, <3>2
      <4> QED
        BY <1>7, <3>2, <4>1, <4>2
    <3> QED
      BY <3>1, <3>2
  <2>2. ASSUME NEW i \in 1 .. N + 1, NEW j \in 1 .. N + 1, i < j
        PROVE  End(sent'[i]) <= sent'[j].start
    <3>1. i \in 1 .. N /\ sent'[i] = sent[i]
      BY <1>5, <2>2
    <3>2. CASE j \in 1 .. N
      BY <1>2, <1>5, <2>2, <3>1, <3>2 DEF IInv, Sends
    <3>3. CASE j = N + 1
      BY <1>2, <1>5, <1>8, <3>1, <3>3
    <3> QED
      BY <3>2, <3>3
  <2>3. Ends' = S + L
    BY <1>5, <1>6 DEF Ends
  <2>4. ASSUME NEW i \in 1 .. N + 1, NEW n \in 1 .. Len(Encode(sent'[i].frame)),
               sent'[i].start + n <= Len(stream')
        PROVE  stream'[sent'[i].start + n] = Encode(sent'[i].frame)[n]
    <3>1. CASE i \in 1 .. N
      <4>1. sent'[i] = sent[i] /\ n \in 1 .. Len(Encode(sent[i].frame))
        BY <1>5, <3>1
      <4>2. PICK a \in Nat, b \in Nat : a = sent[i].start /\ b = Len(Encode(sent[i].frame))
        BY <1>2, <3>1, EncodeLength, SentParts DEF IInv
      <4>3. a + b = End(sent[i]) /\ End(sent[i]) <= S
        BY <1>8, <3>1, <4>2
      <4>4. n \in 1 .. b /\ a + n \in 1 .. S
        <5>1. n \in 1 .. b
          BY <4>1, <4>2
        <5>2. a + b <= S
          BY <4>3
        <5> QED
          BY <1>1, <5>1, <5>2
      <4>5. a + n <= Len(stream) /\ n \in 1 .. Len(Encode(sent[i].frame))
        BY <1>1, <4>4, <4>2
      <4>6. stream[a + n] = Encode(sent[i].frame)[n]
        BY <1>2, <3>1, <4>2, <4>5 DEF IInv, Sends
      <4> QED
        BY <1>4, <4>1, <4>2, <4>4, <4>6
    <3>2. CASE i = N + 1
      <4>1. sent'[i].start = S /\ Encode(sent'[i].frame) = e
        BY <1>2, <1>5, <1>6, <3>2
      <4>2. n \in 1 .. L
        BY <1>1, <2>4, <4>1
      <4> QED
        BY <1>4, <4>1, <4>2
    <3> QED
      BY <3>1, <3>2
  <2>5. sent' \in Seq([frame : Frames, start : Nat])
    BY <1>5
  <2>6. \A i \in DOMAIN sent' : sent'[i].start = IF i = 1 THEN 0 ELSE End(sent'[i - 1])
    BY <1>5, <2>1
  <2>7. \A i, j \in DOMAIN sent' : i < j => End(sent'[i]) <= sent'[j].start
    BY <1>5, <2>2
  <2>8. Len(stream') = Ends'
    BY <1>4, <2>3
  <2>9. Len(stream') <= Ends'
    BY <1>1, <1>4, <2>8
  <2>10. \A i \in DOMAIN sent' : \A n \in 1 .. Len(Encode(sent'[i].frame)) :
           sent'[i].start + n <= Len(stream') =>
               stream'[sent'[i].start + n] = Encode(sent'[i].frame)[n]
    BY <1>5, <2>4
  <2> QED
    BY <2>5, <2>6, <2>7, <2>8, <2>9, <2>10 DEF Sends, End
<1>10. Counted'
  <2>1. SUFFICES ASSUME NEW p \in 0 .. S + L
                 PROVE  \E n \in 0 .. N + 1 : \A i \in 1 .. N + 1 : i <= n <=> sent'[i].start < p
    BY <1>4, <1>5 DEF Counted, BeginBefore
  <2>2. CASE p <= S
    <3>0. p \in 0 .. Len(stream)
      BY <1>1, <2>2
    <3>1. PICK n \in 0 .. N : \A i \in 1 .. N : i <= n <=> sent[i].start < p
      BY <1>1, <1>2, <3>0 DEF IInv, Counted, BeginBefore
    <3>2. ASSUME NEW i \in 1 .. N + 1 PROVE i <= n <=> sent'[i].start < p
      <4>1. CASE i \in 1 .. N
        BY <1>5, <3>1, <4>1
      <4>2. CASE i = N + 1
        BY <1>2, <1>5, <2>2, <4>2
      <4> QED
        BY <4>1, <4>2
    <3>3. n \in 0 .. N + 1
      OBVIOUS
    <3> QED
      BY <3>2, <3>3
  <2>3. CASE p > S
    <3>1. ASSUME NEW i \in 1 .. N + 1 PROVE sent'[i].start < p
      <4>1. CASE i \in 1 .. N
        <5>1. /\ sent[i].start \in Nat /\ End(sent[i]) \in Nat /\ End(sent[i]) <= S
              /\ sent[i].start < End(sent[i]) /\ sent'[i] = sent[i]
          BY <1>5, <1>8, <4>1
        <5> QED
          BY <2>3, <5>1
      <4>2. CASE i = N + 1
        BY <1>2, <1>5, <2>3, <4>2
      <4> QED
        BY <4>1, <4>2
    <3>2. N + 1 \in 0 .. N + 1 /\ \A i \in 1 .. N + 1 : i <= N + 1
      OBVIOUS
    <3> QED
      BY <3>1, <3>2
  <2> QED
    BY <2>2, <2>3
<1>11. Fresh' /\ Built'
  BY <1>0 DEF IInv, Fresh, Built
<1>12. TypeOK'
  <2>1. rpos' \in 0 .. Len(stream')
    BY <1>0, <1>1, <1>4 DEF IInv, TypeOK
  <2> QED
    BY <1>0, <1>4, <2>1 DEF IInv, TypeOK
<1>13. Follows'
  <2>1. SUFFICES ASSUME pc' # "idle", NEW k \in 1 .. N + 1, sent'[k].start = base'
                 PROVE  Progress(sent[k].frame)'
    BY <1>5 DEF Follows
  <2>2. CASE k \in 1 .. N
    <3>1. sent'[k] = sent[k]
      BY <1>5, <2>2
    <3> QED
      BY <1>0, <1>2, <2>1, <2>2, <3>1, StillFollows
  <2>3. CASE k = N + 1
    <3>1. base = S
      BY <1>0, <1>2, <1>5, <2>1, <2>3
    <3>2. rpos = base
      BY <1>1, <3>1 DEF IInv, TypeOK
    <3>3. pc = "command" /\ line = <<>> /\ frame = NewFrame
      BY <1>0, <2>1, <3>2 DEF IInv, Fresh
    <3> QED
      BY <1>0, <3>2, <3>3 DEF Progress, InCommand
  <2> QED
    BY <2>2, <2>3
<1> QED
  BY <1>9, <1>10, <1>11, <1>12, <1>13 DEF IInv

LEMMA CloseKeeps ==
    ASSUME IInv, Close
    PROVE  IInv'
<1>1. closed' = TRUE /\ UNCHANGED <<stream, rpos, pc, line, frame, result, sent, base>>
  BY DEF Close
<1>2. TypeOK' /\ Counted' /\ Fresh' /\ Built'
  BY <1>1 DEF IInv, TypeOK, Counted, BeginBefore, Fresh, Built
<1>3. Sends'
  BY <1>1 DEF IInv, Sends, Ends, End
<1>4. Follows'
  BY <1>1, StillFollows DEF Follows
<1> QED
  BY <1>2, <1>3, <1>4 DEF IInv

LEMMA LoseKeeps ==
    ASSUME IInv, LoseByte
    PROVE  IInv'
<1>0. /\ closed /\ rpos < Len(stream) /\ stream' = Front(stream)
      /\ UNCHANGED <<rpos, closed, pc, line, frame, result, sent, base>>
  BY DEF LoseByte
<1>1. PICK S \in Nat : S = Len(stream)
  BY LenProperties DEF IInv, TypeOK
<1>2. stream \in Seq(Bytes) /\ rpos \in Nat /\ rpos <= S - 1
  BY <1>0, <1>1 DEF IInv, TypeOK
<1>3. /\ stream' \in Seq(Bytes) /\ Len(stream') = S - 1
      /\ \A i \in 1 .. S - 1 : stream'[i] = stream[i]
  <2>1. \A i \in 1 .. S - 1 : stream[i] \in Bytes
    BY <1>1, <1>2, ElementOfSeq
  <2>2. /\ SubSeq(stream, 1, S - 1) \in Seq(Bytes)
        /\ Len(SubSeq(stream, 1, S - 1)) = (IF 1 <= S - 1 THEN S - 1 - 1 + 1 ELSE 0)
        /\ \A i \in 1 .. S - 1 - 1 + 1 : SubSeq(stream, 1, S - 1)[i] = stream[1 + i - 1]
    BY <2>1, 1 \in Int, S - 1 \in Int, SubSeqProperties
  <2>3. stream' = SubSeq(stream, 1, S - 1)
    BY <1>0, <1>1 DEF Front
  <2> QED
    BY <1>2, <2>2, <2>3
<1>4. TypeOK'
  <2>1. rpos' \in 0 .. Len(stream')
    BY <1>0, <1>2, <1>3
  <2> QED
    BY <1>0, <1>3, <2>1 DEF IInv, TypeOK
<1>5. Sends'
  <2>1. /\ sent \in Seq([frame : Frames, start : Nat]) /\ S <= Ends
        /\ \A i \in DOMAIN sent : sent[i].start = IF i = 1 THEN 0 ELSE End(sent[i - 1])
        /\ \A i, j \in DOMAIN sent : i < j => End(sent[i]) <= sent[j].start
    BY <1>1 DEF IInv, Sends
  <2>2. Ends' = Ends
    BY <1>0 DEF Ends, End
  <2>3. S - 1 <= Ends
    <3>1. Ends \in Int
      <4>1. sent # <<>> => Len(sent) \in DOMAIN sent
        BY <2>1, LenProperties, EmptySeq
      <4> QED
        BY <4>1, SentParts DEF Ends, IInv
    <3> QED
      BY <2>1, <3>1
  <2>4. ASSUME NEW i \in DOMAIN sent, NEW n \in 1 .. Len(Encode(sent[i].frame)),
               sent[i].start + n <= S - 1
        PROVE  stream'[sent[i].start + n] = Encode(sent[i].frame)[n]
    <3>1. sent[i].start \in Nat
      BY SentParts DEF IInv
    <3>2. sent[i].start + n <= S /\ sent[i].start + n \in 1 .. S - 1
      BY <2>4, <3>1
    <3>3. stream[sent[i].start + n] = Encode(sent[i].frame)[n]
      BY <1>1, <3>2 DEF IInv, Sends
    <3> QED
      BY <1>3, <3>2, <3>3
  <2> QED
    BY <1>0, <1>3, <2>1, <2>2, <2>3, <2>4 DEF Sends, End
<1>6. Counted'
  <2>1. \A p \in 0 .. S - 1 : p \in 0 .. S
    OBVIOUS
  <2>2. \A p \in 0 .. S : \E n \in 0 .. Len(sent) : BeginBefore(n, p)
    BY <1>1 DEF IInv, Counted
  <2> QED
    BY <1>0, <1>3, <2>1, <2>2 DEF Counted, BeginBefore
<1>7. Fresh' /\ Built'
  BY <1>0 DEF IInv, Fresh, Built
<1>8. Follows'
  BY <1>0, StillFollows DEF Follows
<1> QED
  BY <1>4, <1>5, <1>6, <1>7, <1>8 DEF IInv

LEMMA InitIInv == Init => IInv
<1> SUFFICES ASSUME Init PROVE IInv
  OBVIOUS
<1>1. /\ stream = <<>> /\ sent = <<>> /\ closed = FALSE /\ rpos = 0 /\ base = 0
      /\ pc = "idle" /\ line = <<>> /\ frame = NewFrame /\ result = NoFrame
  BY DEF Init
<1>2. Len(stream) = 0 /\ Len(sent) = 0 /\ DOMAIN sent = {}
  BY <1>1
<1>3. TypeOK
  <2>1. <<>> \in Seq(Bytes) /\ <<>> \in Seq(Bytes \ {LF, NUL})
    BY EmptySeq
  <2>2. rpos \in 0 .. Len(stream) /\ base \in 0 .. rpos
    BY <1>1, <1>2
  <2>3. result.rc = "none"
    BY <1>1 DEF NoFrame
  <2> QED
    BY <1>1, <2>1, <2>2, <2>3, NewFrameOK DEF TypeOK, FrameOK
<1>4. Sends
  BY <1>1, <1>2, EmptySeq DEF Sends, Ends
<1>5. Counted
  BY <1>2 DEF Counted, BeginBefore
<1>6. Fresh /\ Built /\ Follows
  BY <1>1, NewFrameOK DEF Fresh, Built, Follows
<1> QED
  BY <1>3, <1>4, <1>5, <1>6 DEF IInv

LEMMA NextIInv == IInv /\ [Next]_vars => IInv'
<1> SUFFICES ASSUME IInv, [Next]_vars PROVE IInv'
  OBVIOUS
<1>1. CASE \E f \in Frames : Send(f)
  BY <1>1, SendKeeps
<1>2. CASE Close
  BY <1>2, CloseKeeps
<1>3. CASE LoseByte
  BY <1>3, LoseKeeps
<1>4. CASE StartRead
  BY <1>4, StartKeeps
<1>5. CASE ReadStep
  BY <1>5, ReadKeeps
<1>6. CASE UNCHANGED vars
  <2>1. /\ UNCHANGED <<stream, rpos, closed, pc, line, frame, result, sent, base>>
    BY <1>6 DEF vars
  <2>2. Sends' /\ Counted'
    BY <2>1, PeerKeeps DEF peer
  <2>3. TypeOK' /\ Fresh' /\ Built'
    BY <2>1 DEF IInv, TypeOK, Fresh, Built
  <2>4. Follows'
    BY <2>1, StillFollows DEF Follows
  <2> QED
    BY <2>2, <2>3, <2>4 DEF IInv
<1> QED
  BY <1>1, <1>2, <1>3, <1>4, <1>5, <1>6 DEF Next

LEMMA IInvHolds == Spec => []IInv
<1>1. Init => IInv
  BY InitIInv
<1>2. IInv /\ [Next]_vars => IInv'
  BY NextIInv
<1> QED
  BY <1>1, <1>2, PTL DEF Spec

\* The reader's state has its type: what is consumed has been sent, a line never holds
\* its delimiters, and a call returns one of the statuses its callers know.
THEOREM TypeCorrect == Spec => []TypeOK
<1>1. IInv => TypeOK
  BY DEF IInv
<1> QED
  BY <1>1, IInvHolds, PTL
-----------------------------------------------------------------------------
(* Why a read fails. *)

LEMMA EndsIs ==
    ASSUME IInv
    PROVE  Ends \in Int /\ Len(stream) \in Nat /\ Len(stream) <= Ends
<1>1. sent # <<>> => Len(sent) \in DOMAIN sent
  BY LenProperties, EmptySeq DEF IInv, Sends
<1>2. Ends \in Int
  BY <1>1, SentParts DEF Ends, IInv
<1> QED
  BY <1>2, LenProperties DEF IInv, Sends, TypeOK

\* A read that began at a boundary began on a frame, or at the end of all that was sent.
LEMMA InSyncReads ==
    ASSUME IInv, ReadStep, Boundary(base)
    PROVE  \/ \E k \in DOMAIN sent : Reads(k)
           \/ base = Len(stream) /\ rpos = base /\ UNCHANGED peer /\ RecvFails(1)
<1>1. /\ base \in Nat /\ rpos \in Nat /\ Len(stream) \in Nat
      /\ base <= rpos /\ rpos <= Len(stream) /\ pc # "idle"
  BY EndsIs DEF IInv, TypeOK, ReadStep, ReadLine, ReadBody, ReadTerminator, ReadRest, ReadEndline
<1>2. CASE base < Len(stream)
  <2>1. base < Ends
    BY <1>1, <1>2, EndsIs
  <2> QED
    BY <1>1, <2>1, BoundaryBegins DEF IInv, Reads
<1>3. CASE base = Len(stream)
  <2>1. rpos = base
    BY <1>1, <1>3
  <2>2. pc = "command"
    BY <1>1, <2>1 DEF IInv, Fresh
  <2>3. ReadLine
    BY <2>2 DEF ReadStep, ReadBody, ReadTerminator, ReadRest, ReadEndline
  <2>4. Recv(1) = {}
    <3>1. Len(stream) - rpos = 0 /\ 0 < 1
      BY <1>1, <1>3, <2>1
    <3>2. \A k \in 1 .. 0 : FALSE
      OBVIOUS
    <3> QED
      BY <3>1, <3>2 DEF Recv
  <2> QED
    BY <1>3, <2>1, <2>3, <2>4 DEF ReadLine
<1> QED
  BY <1>1, <1>2, <1>3

\* Reading a correctly sent frame from its first byte fails for lack of bytes only
\* (stomp_io.c, stomp_read).
THEOREM ErrorsExplained == Spec => ErrorsAreExplained
<1> DEFINE Explained ==
      pc # "idle" /\ pc' = "idle" /\ Boundary(base) /\ ~closed =>
         \/ result'.rc \in {"APR_SUCCESS", "APR_TIMEUP"}
         \/ result'.rc = "APR_EGENERAL" /\ pc = "terminator"
            /\ \/ rpos' - rpos < 2
               \/ Len(frame.body) < apr_atoi64(frame.headers[ContentLength])
         \/ result'.rc = "APR_EGENERAL" /\ pc = "endline" /\ rpos' = rpos
         \/ result'.rc = "APR_EOF" /\ pc = "body"
            /\ apr_atoi64(frame.headers[ContentLength]) = 0
<1>1. ASSUME IInv, [Next]_vars
      PROVE  Explained
  <2>1. SUFFICES ASSUME pc # "idle", pc' = "idle", Boundary(base), ~closed
                 PROVE  Explained
    OBVIOUS
  <2>2. ReadStep
    BY <1>1, <2>1 DEF Next, Send, Close, LoseByte, StartRead, vars
  <2>3. CASE RecvFails(1) /\ rpos = base
    <3>1. PICK rc \in RecvError(1) : Return(Failed(rc))
      BY <2>3 DEF RecvFails
    <3>2. rc = "APR_TIMEUP"
      BY <2>1, <3>1, RecvErrorIs
    <3> QED
      BY <3>1, <3>2 DEF Return, Failed
  <2>4. ASSUME NEW k \in DOMAIN sent, Reads(k)
        PROVE  Explained
    <3>1. ~GoesOn(k)
      BY <2>1 DEF GoesOn
    <3>2. CASE RecvEnds(k)
      <4>1. PICK n \in Nat :
               /\ RecvFails(n)
               /\ n = 0 => pc = "body" /\ apr_atoi64(frame.headers[ContentLength]) = 0
        BY <3>2 DEF RecvEnds
      <4>2. PICK rc \in RecvError(n) : Return(Failed(rc))
        BY <4>1 DEF RecvFails
      <4>3. rc = "APR_TIMEUP" \/ (rc = "APR_EOF" /\ n = 0)
        BY <2>1, <4>2, RecvErrorIs
      <4> QED
        BY <4>1, <4>2, <4>3 DEF Return, Failed
    <3>3. CASE Whole(k) \/ CutShort(k)
      BY <3>3 DEF Whole, CutShort, Return, Got
    <3>4. CASE Broken(k)
      BY <3>4 DEF Broken, Return, Failed
    <3> QED
      BY <1>1, <2>2, <2>4, <3>1, <3>2, <3>3, <3>4, Outcome
  <2> QED
    BY <1>1, <2>1, <2>2, <2>3, <2>4, InSyncReads
<1>2. IInv /\ [Next]_vars => [Explained]_vars
  BY <1>1
<1> QED
  BY <1>2, IInvHolds, PTL DEF Spec, ErrorsAreExplained
-----------------------------------------------------------------------------
(* The frames ahead of the reader. *)

\* Ahead, of any such list.
AheadOf(q, b, s) == [i \in 1 .. s - b |-> Delivered(q[b + i].frame)]

LEMMA AheadNow ==
    /\ \A p : Begun(p) = BegunOf(sent, p)
    /\ Ahead = AheadOf(sent, Begun(base), Begun(Len(stream)))
    /\ Ahead' = AheadOf(sent', BegunOf(sent', base'), BegunOf(sent', Len(stream')))
<1>1. \A p : Begun(p) = BegunOf(sent, p)
  BY DEF Begun, BegunOf, SelectLastInSeq
<1>2. Begun(base)' = BegunOf(sent', base')
  BY DEF Begun, BegunOf, SelectLastInSeq
<1>3. Begun(Len(stream))' = BegunOf(sent', Len(stream'))
  BY DEF Begun, BegunOf, SelectLastInSeq
<1> QED
  BY <1>1, <1>2, <1>3 DEF Ahead, AheadOf

LEMMA AheadOfIs ==
    ASSUME NEW q, NEW b \in Nat, NEW s \in Nat, b <= s,
           \A i \in 1 .. s : q[i].frame \in Frames
    PROVE  /\ AheadOf(q, b, s) \in Seq(Deliverable)
           /\ Len(AheadOf(q, b, s)) = s - b
           /\ \A i \in 1 .. s - b : AheadOf(q, b, s)[i] = Delivered(q[b + i].frame)
           /\ AheadOf(q, b, s) = <<>> <=> b = s
<1>1. PICK n \in Nat : n = s - b
  OBVIOUS
<1>2. \A i \in 1 .. n : Delivered(q[b + i].frame) \in Deliverable
  <2>1. \A i \in 1 .. n : b + i \in 1 .. s
    BY <1>1
  <2> QED
    BY <2>1 DEF Deliverable
<1>3. [i \in 1 .. n |-> Delivered(q[b + i].frame)] \in Seq(Deliverable)
  BY <1>2, IsASeq
<1>4. AheadOf(q, b, s) = [i \in 1 .. n |-> Delivered(q[b + i].frame)]
  BY <1>1 DEF AheadOf
<1>5. Len(AheadOf(q, b, s)) = n
  BY <1>3, <1>4, LenProperties
<1>6. AheadOf(q, b, s) = <<>> <=> n = 0
  BY <1>3, <1>4, <1>5, EmptySeq
<1> QED
  BY <1>1, <1>3, <1>4, <1>5, <1>6

\* The same, under a name.
Lists(q, b, s) == /\ AheadOf(q, b, s) \in Seq(Deliverable)
                  /\ Len(AheadOf(q, b, s)) = s - b
                  /\ \A i \in 1 .. s - b : AheadOf(q, b, s)[i] = Delivered(q[b + i].frame)

LEMMA AheadLists ==
    \A q : \A b, s \in Nat :
        b <= s /\ (\A i \in 1 .. s : q[i].frame \in Frames) => Lists(q, b, s)
BY AheadOfIs DEF Lists

Shrinks(q, b, s, n, m) ==
    AheadOf(q, b + n, s - m) = SubSeq(AheadOf(q, b, s), n + 1, Len(AheadOf(q, b, s)) - m)

LEMMA AheadTail ==
    ASSUME NEW q, NEW b \in Nat, NEW s \in Nat, b <= s,
           \A i \in 1 .. s : q[i].frame \in Frames,
           NEW n \in 0 .. s - b, NEW m \in 0 .. s - b - n
    PROVE  Shrinks(q, b, s, n, m)
<1> DEFINE a == AheadOf(q, b, s)
           t == AheadOf(q, b + n, s - m)
<1>1. /\ Len(a) = s - b /\ \A i \in 1 .. s - b : a[i] = Delivered(q[b + i].frame)
      /\ a \in Seq(Deliverable)
  BY AheadOfIs
<1>2. PICK d \in Nat, c \in Nat, u \in Nat : d = s - b /\ c = b + n /\ u = s - m /\ c <= u
  OBVIOUS
<1>3. /\ t \in Seq(Deliverable) /\ Len(t) = u - c
      /\ \A i \in 1 .. u - c : t[i] = Delivered(q[c + i].frame)
  <2>1. \A i \in 1 .. u : q[i].frame \in Frames
    BY <1>2
  <2>2. /\ AheadOf(q, c, u) \in Seq(Deliverable) /\ Len(AheadOf(q, c, u)) = u - c
        /\ \A i \in 1 .. u - c : AheadOf(q, c, u)[i] = Delivered(q[c + i].frame)
    <3>1. c \in Nat /\ u \in Nat /\ c <= u
      BY <1>2
    <3> QED
      BY <2>1, <3>1, AheadLists DEF Lists
  <2> QED
    BY <1>2, <2>2
<1>4. /\ SubSeq(a, n + 1, d - m) \in Seq(Deliverable)
      /\ Len(SubSeq(a, n + 1, d - m)) = IF n + 1 <= d - m THEN (d - m) - (n + 1) + 1 ELSE 0
      /\ \A i \in 1 .. (d - m) - (n + 1) + 1 : SubSeq(a, n + 1, d - m)[i] = a[(n + 1) + i - 1]
  <2>1. \A i \in n + 1 .. d - m : a[i] \in Deliverable
    BY <1>1, <1>2, ElementOfSeq
  <2> HIDE DEF a
  <2> QED
    BY <1>2, <2>1, n + 1 \in Int, d - m \in Int, SubSeqProperties
<1>5. Len(SubSeq(a, n + 1, d - m)) = Len(t)
  <2>1. (IF n + 1 <= d - m THEN (d - m) - (n + 1) + 1 ELSE 0) = u - c
    BY <1>2
  <2> QED
    BY <1>3, <1>4, <2>1
<1>6. ASSUME NEW i \in 1 .. Len(t) PROVE t[i] = SubSeq(a, n + 1, d - m)[i]
  <2>1. /\ i \in 1 .. u - c /\ i \in 1 .. (d - m) - (n + 1) + 1
        /\ (n + 1) + i - 1 = n + i /\ n + i \in 1 .. s - b /\ b + (n + i) = c + i
    BY <1>2, <1>3
  <2>2. t[i] = Delivered(q[c + i].frame)
    BY <1>3, <2>1
  <2>3. SubSeq(a, n + 1, d - m)[i] = a[n + i]
    BY <1>4, <2>1
  <2>4. a[n + i] = Delivered(q[b + (n + i)].frame)
    BY <1>1, <2>1
  <2> QED
    BY <2>1, <2>2, <2>3, <2>4
<1>7. t = SubSeq(a, n + 1, d - m)
  <2> HIDE DEF a, t
  <2> QED
    BY <1>3, <1>4, <1>5, <1>6, SeqEqual
<1> QED
  BY <1>1, <1>2, <1>7 DEF Shrinks

Grows(q, r, b, s, u, f) == AheadOf(r, b, u) = Append(AheadOf(q, b, s), Delivered(f))

LEMMA AheadGrows ==
    ASSUME NEW q, NEW r, NEW b \in Nat, NEW s \in Nat, b <= s, NEW u \in Nat, u = s + 1,
           \A i \in 1 .. s : q[i].frame \in Frames,
           \A i \in 1 .. s : r[i] = q[i],
           NEW f \in Frames, r[u].frame = f
    PROVE  Grows(q, r, b, s, u, f)
<1> DEFINE a == AheadOf(q, b, s)
           t == AheadOf(r, b, u)
<1>1. /\ Len(a) = s - b /\ \A i \in 1 .. s - b : a[i] = Delivered(q[b + i].frame)
      /\ a \in Seq(Deliverable)
  BY AheadOfIs
<1>2. b <= u
  OBVIOUS
<1>3. /\ t \in Seq(Deliverable) /\ Len(t) = u - b
      /\ \A i \in 1 .. u - b : t[i] = Delivered(r[b + i].frame)
  <2>1. \A i \in 1 .. u : r[i].frame \in Frames
    BY <1>2
  <2> QED
    BY <1>2, <2>1, AheadLists DEF Lists
<1>4. Delivered(f) \in Deliverable
  BY DEF Deliverable
<1>5. /\ Append(a, Delivered(f)) \in Seq(Deliverable)
      /\ Len(Append(a, Delivered(f))) = Len(a) + 1
      /\ \A i \in 1 .. Len(a) : Append(a, Delivered(f))[i] = a[i]
      /\ Append(a, Delivered(f))[Len(a) + 1] = Delivered(f)
  <2> DEFINE d == Delivered(f)
  <2>1. a \in Seq(Deliverable) /\ d \in Deliverable
    BY <1>1, <1>4
  <2> HIDE DEF a, d
  <2>2. /\ Append(a, d) \in Seq(Deliverable)
        /\ Len(Append(a, d)) = Len(a) + 1
        /\ \A i \in 1 .. Len(a) : Append(a, d)[i] = a[i]
        /\ Append(a, d)[Len(a) + 1] = d
    BY <2>1, AppendProperties
  <2> QED
    BY <2>2 DEF d
<1>6. Len(t) = Len(a) + 1
  BY <1>1, <1>2, <1>3
<1>7. ASSUME NEW i \in 1 .. Len(t) PROVE t[i] = Append(a, Delivered(f))[i]
  <2>1. t[i] = Delivered(r[b + i].frame)
    BY <1>3
  <2>2. CASE i \in 1 .. s - b
    <3>1. b + i \in 1 .. s
      BY <2>2
    <3>2. r[b + i] = q[b + i] /\ a[i] = Delivered(q[b + i].frame)
      BY <1>1, <2>2, <3>1
    <3> QED
      BY <1>1, <1>5, <2>1, <2>2, <3>2
  <2>3. CASE i = s - b + 1
    <3>1. b + i = s + 1
      BY <2>3
    <3> QED
      BY <1>1, <1>5, <2>1, <2>3, <3>1
  <2> QED
    BY <1>1, <1>6, <2>2, <2>3
<1> QED
  <2> HIDE DEF a, t
  <2>1. t = Append(a, Delivered(f))
    BY <1>3, <1>5, <1>6, <1>7, SeqEqual
  <2> QED
    BY <2>1 DEF a, t, Grows

\* The reader's place in the list of frames sent, as numbers.
Placed(b, s) == /\ b \in Nat /\ s \in Nat /\ b <= s /\ s <= Len(sent)
                /\ Begun(base) = b /\ Begun(Len(stream)) = s
                /\ Ahead = AheadOf(sent, b, s)
                /\ \A i \in 1 .. s : sent[i].frame \in Frames
                /\ BeginBefore(b, base) /\ BeginBefore(s, Len(stream))
                /\ Ahead \in Seq(Deliverable) /\ Len(Ahead) = s - b
                /\ Ahead = <<>> <=> b = s
                /\ \A i \in 1 .. s - b : Ahead[i] = Delivered(sent[b + i].frame)

LEMMA BegunGrows ==
    ASSUME Sends, NEW p \in Int, NEW q \in Int, p <= q,
           NEW m \in Nat, NEW n \in Nat, BeginBefore(m, p), BeginBefore(n, q)
    PROVE  m <= n
<1>1. Len(sent) \in Nat /\ DOMAIN sent = 1 .. Len(sent)
  BY LenProperties DEF Sends
<1>2. CASE m = 0
  BY <1>2
<1>3. CASE m > 0
  <2>1. m \in DOMAIN sent /\ sent[m].start < p
    BY <1>1, <1>3 DEF BeginBefore
  <2>2. sent[m].start < q
    BY <2>1, SentParts
  <2> QED
    BY <1>1, <2>1, <2>2 DEF BeginBefore
<1> QED
  BY <1>2, <1>3

LEMMA AheadPlaced ==
    ASSUME IInv
    PROVE  Placed(Begun(base), Begun(Len(stream)))
<1> DEFINE b == Begun(base)
           s == Begun(Len(stream))
<1>1. Sends /\ Counted /\ base \in 0 .. Len(stream) /\ Len(stream) \in 0 .. Len(stream)
      /\ Len(stream) \in Nat
  BY EndsIs DEF IInv, TypeOK
<1>2. Len(sent) \in Nat /\ DOMAIN sent = 1 .. Len(sent)
  BY LenProperties DEF IInv, Sends
<1>3. BeginBefore(b, base) /\ BeginBefore(s, Len(stream))
  BY <1>1, BegunCounts
<1>4. b \in Nat /\ s \in Nat /\ s <= Len(sent)
  BY <1>2, <1>3 DEF BeginBefore
<1>5. b <= s
  <2>1. base \in Int /\ Len(stream) \in Int /\ base <= Len(stream)
    BY <1>1
  <2> HIDE DEF b, s
  <2> QED
    BY <1>1, <1>3, <1>4, <2>1, BegunGrows
<1>6. \A i \in 1 .. s : sent[i].frame \in Frames
  BY <1>1, <1>2, <1>4, SentParts
<1>7. Ahead = AheadOf(sent, b, s)
  BY AheadNow
<1> HIDE DEF b, s
<1>8. /\ AheadOf(sent, b, s) \in Seq(Deliverable) /\ Len(AheadOf(sent, b, s)) = s - b
      /\ \A i \in 1 .. s - b : AheadOf(sent, b, s)[i] = Delivered(sent[b + i].frame)
      /\ AheadOf(sent, b, s) = <<>> <=> b = s
  BY <1>4, <1>5, <1>6, AheadOfIs
<1>9. Placed(b, s) <=> Begun(base) = b /\ Begun(Len(stream)) = s
  BY <1>3, <1>4, <1>5, <1>6, <1>7, <1>8 DEF Placed
<1> QED
  BY <1>9 DEF b, s

\* A call returns: the frames it has passed over are no longer ahead.
LEMMA Advance ==
    ASSUME IInv, UNCHANGED peer, base' \in base .. Len(stream), NEW n \in Nat,
           Begun(base') = Begun(base) + n
    PROVE  /\ n \in 0 .. Len(Ahead)
           /\ Ahead' = SubSeq(Ahead, n + 1, Len(Ahead))
           /\ Boundary(base)' = Boundary(base')
<1> DEFINE b == Begun(base)
           s == Begun(Len(stream))
           c == Begun(base')
<1>1. Placed(b, s)
  BY AheadPlaced
<1>2. UNCHANGED <<stream, sent, closed>>
  BY DEF peer
<1>3. Ahead' = AheadOf(sent, c, s)
  <2>1. Ahead' = AheadOf(sent', BegunOf(sent', base'), BegunOf(sent', Len(stream')))
    BY AheadNow
  <2>2. BegunOf(sent, base') = c /\ BegunOf(sent, Len(stream)) = s
    BY AheadNow
  <2> QED
    BY <1>2, <2>1, <2>2
<1>4. base' \in 0 .. Len(stream) /\ Len(stream) \in Nat /\ base \in Nat
  BY EndsIs DEF IInv, TypeOK
<1>5. BeginBefore(c, base')
  BY <1>4, BegunCounts DEF IInv
<1>6. c \in Nat
  BY <1>5, LenProperties DEF BeginBefore, IInv, Sends
<1>7. c <= s
  <2>1. base' \in Int /\ Len(stream) \in Int /\ base' <= Len(stream)
    BY <1>4
  <2>2. s \in Nat /\ BeginBefore(s, Len(stream))
    BY <1>1 DEF Placed
  <2> HIDE DEF c, s
  <2> QED
    BY <1>5, <1>6, <2>1, <2>2, BegunGrows DEF IInv
<1>8. Boundary(base)' = Boundary(base')
  BY <1>2 DEF Boundary, End
<1> HIDE DEF c, b, s
<1>9. /\ n \in 0 .. s - b /\ c = b + n /\ Len(Ahead) = s - b
      /\ b \in Nat /\ s \in Nat /\ b <= s
      /\ \A i \in 1 .. s : sent[i].frame \in Frames
      /\ Ahead = AheadOf(sent, b, s)
  BY <1>1, <1>6, <1>7 DEF Placed, c, b
<1>10. 0 \in 0 .. s - b - n /\ s - 0 = s /\ (s - b) - 0 = s - b
  BY <1>9
<1>11. AheadOf(sent, b + n, s - 0) = SubSeq(AheadOf(sent, b, s), n + 1, Len(AheadOf(sent, b, s)) - 0)
  <2>1. Shrinks(sent, b, s, n, 0)
    BY <1>9, <1>10, AheadTail
  <2> QED
    BY <2>1 DEF Shrinks
<1> QED
  BY <1>3, <1>8, <1>9, <1>10, <1>11
-----------------------------------------------------------------------------
(* Each step is a step of the frame channel, or none. *)

LEMMA SendRefines ==
    ASSUME IInv, NEW f \in Frames, Send(f)
    PROVE  Delivered(f) \in Deliverable /\ Chan!Send(Delivered(f))
<1> DEFINE e == Encode(f)
           new == [frame |-> f, start |-> Len(stream)]
           b == Begun(base)
           s == Begun(Len(stream))
<1>0. /\ ~closed /\ stream' = stream \o e /\ sent' = Append(sent, new)
      /\ UNCHANGED <<rpos, closed, pc, line, frame, result, base>>
  BY DEF Send
<1>1. PICK S \in Nat, L \in Nat, N \in Nat :
         S = Len(stream) /\ L = Len(e) /\ N = Len(sent) /\ L >= 5 /\ e \in Seq(Bytes)
  <2>1. PICK H \in Nat, B \in Nat : H = Len(f.headers) /\ B = Len(f.body)
    BY FrameParts
  <2>2. e \in Seq(Bytes) /\ Len(e) = 5 + 4 * H + B
    <3>1. Encoded(f, H, B)
      BY <2>1, EncodeIs
    <3> QED
      BY <3>1, <2>1 DEF Encoded
  <2>3. Len(stream) \in Nat /\ Len(sent) \in Nat
    BY LenProperties DEF IInv, TypeOK, Sends
  <2>4. Len(e) \in Nat /\ Len(e) >= 5
    BY <2>2
  <2> QED
    BY <2>2, <2>3, <2>4
<1>2. Len(stream') = S + L
  <2>1. stream \in Seq(Bytes)
    BY DEF IInv, TypeOK
  <2> HIDE DEF e
  <2> QED
    BY <1>0, <1>1, <2>1, ConcatProperties
<1>3. DOMAIN sent = 1 .. N /\ sent \in Seq([frame : Frames, start : Nat])
      /\ new \in [frame : Frames, start : Nat] /\ new.frame = f /\ new.start = S
  BY <1>1, LenProperties DEF IInv, Sends
<1>4. /\ Len(sent') = N + 1 /\ DOMAIN sent' = 1 .. N + 1
      /\ \A i \in 1 .. N : sent'[i] = sent[i]
      /\ sent'[N + 1] = new
  <2> HIDE DEF new
  <2>1. /\ sent' \in Seq([frame : Frames, start : Nat]) /\ Len(sent') = Len(sent) + 1
        /\ \A i \in 1 .. Len(sent) : sent'[i] = sent[i]
        /\ sent'[Len(sent) + 1] = new
    BY <1>0, <1>3, AppendProperties
  <2>2. DOMAIN sent' = 1 .. Len(sent')
    BY <2>1, LenProperties
  <2> QED
    BY <1>1, <2>1, <2>2
<1>5. Placed(b, s)
  BY AheadPlaced
<1>6. base \in Nat /\ base <= S /\ Ends = S
  BY <1>0, <1>1, EndsIs DEF IInv, TypeOK, Sends
<1>7. /\ b \in Nat /\ s \in Nat /\ b <= s /\ s <= N
      /\ \A i \in 1 .. N : i <= b <=> sent[i].start < base
      /\ \A i \in 1 .. N : i <= s <=> sent[i].start < S
      /\ \A i \in 1 .. s : sent[i].frame \in Frames
      /\ Ahead = AheadOf(sent, b, s)
  BY <1>1, <1>3, <1>5 DEF Placed, BeginBefore
<1> HIDE DEF b, s, new, e
\* All of the frames sent before begin before the end of the stream.
<1>8. s = N
  <2>1. CASE N = 0
    BY <1>7, <2>1
  <2>2. CASE N # 0
    <3>1. N \in DOMAIN sent /\ sent # <<>>
      BY <1>1, <1>3, <2>2, EmptySeq
    <3>2. sent[N].start \in Nat /\ sent[N].start + 5 <= End(sent[N])
          /\ End(sent[N]) \in Nat
      BY <3>1, SentParts DEF IInv
    <3>3. End(sent[N]) = S
      BY <1>1, <1>6, <3>1 DEF Ends
    <3>4. sent[N].start < S
      BY <1>1, <3>2, <3>3
    <3> QED
      BY <1>3, <1>7, <3>1, <3>4
  <2> QED
    BY <2>1, <2>2
<1>9. ASSUME NEW i \in 1 .. N + 1
      PROVE  /\ i <= b <=> sent'[i].start < base
             /\ i <= N + 1 <=> sent'[i].start < S + L
  <2>1. CASE i \in 1 .. N
    <3>1. sent'[i].start = sent[i].start /\ sent[i].start < S /\ sent[i].start \in Nat
      <4>1. sent[i].start \in Nat
        BY <1>3, <2>1, SentParts DEF IInv
      <4>2. sent[i].start < S
        BY <1>7, <1>8, <2>1
      <4> QED
        BY <1>4, <2>1, <4>1, <4>2
    <3>2. sent'[i].start < S + L /\ i <= N + 1
      BY <1>1, <2>1, <3>1
    <3> QED
      BY <1>7, <2>1, <3>1, <3>2
  <2>2. CASE i = N + 1
    <3>1. sent'[i].start = S
      BY <1>3, <1>4, <2>2
    <3>2. ~(i <= b) /\ ~(S < base) /\ S < S + L
      BY <1>1, <1>6, <1>7, <2>2
    <3> QED
      BY <2>2, <3>1, <3>2
  <2> QED
    BY <2>1, <2>2
<1>10. BegunOf(sent', base') = b /\ BegunOf(sent', Len(stream')) = N + 1
  <2>1. Len(sent') \in Nat /\ b \in 0 .. Len(sent') /\ N + 1 \in 0 .. Len(sent')
    BY <1>1, <1>4, <1>7
  <2>2. BegunOf(sent', base) = b
    BY <1>4, <1>9, <2>1, BegunOfIs
  <2>3. BegunOf(sent', S + L) = N + 1
    BY <1>4, <1>9, <2>1, BegunOfIs
  <2> QED
    BY <1>0, <1>2, <2>2, <2>3
<1>11. Ahead' = Append(Ahead, Delivered(f))
  <2>1. Ahead' = AheadOf(sent', b, s + 1)
    BY <1>8, <1>10, AheadNow
  <2>2. sent'[s + 1].frame = f /\ \A i \in 1 .. s : sent'[i] = sent[i]
    BY <1>3, <1>4, <1>8
  <2>3. AheadOf(sent', b, s + 1) = Append(AheadOf(sent, b, s), Delivered(f))
    <3>1. /\ b \in Nat /\ s \in Nat /\ b <= s /\ N + 1 \in Nat /\ N + 1 = s + 1
          /\ \A i \in 1 .. s : sent[i].frame \in Frames
      BY <1>7, <1>8
    <3>2. Grows(sent, sent', b, s, N + 1, f)
      BY <1>8, <2>2, <3>1, AheadGrows
    <3> QED
      BY <1>8, <3>2 DEF Grows
  <2> QED
    BY <1>7, <2>1, <2>3
<1>12. Boundary(base)' = Boundary(base)
  <2>1. ~(base = End(sent'[N + 1]))
    <3>1. End(sent'[N + 1]) = S + L
      BY <1>1, <1>3, <1>4 DEF End, e
    <3> QED
      BY <1>1, <1>6, <3>1
  <2>2. (\E i \in 1 .. N + 1 : base = End(sent'[i])) <=> (\E i \in 1 .. N : base = End(sent[i]))
    BY <1>4, <2>1
  <2> QED
    BY <1>0, <1>3, <1>4, <2>2 DEF Boundary, End
<1>13. Delivered(f) \in Deliverable
  BY DEF Deliverable
<1> QED
  BY <1>0, <1>11, <1>12, <1>13 DEF Chan!Send

LEMMA StutterRefines ==
    ASSUME UNCHANGED <<stream, sent, base>>
    PROVE  Ahead' = Ahead /\ Boundary(base)' = Boundary(base)
BY DEF Ahead, Begun, SelectLastInSeq, Boundary, End

LEMMA CloseRefines ==
    ASSUME Close
    PROVE  Chan!Close
BY StutterRefines DEF Close, Chan!Close

LEMMA LoseRefines ==
    ASSUME IInv, LoseByte
    PROVE  Chan!Lose \/ UNCHANGED Chan!chan
<1> DEFINE b == Begun(base)
           s == Begun(Len(stream))
           t == Begun(Len(stream) - 1)
<1>0. /\ closed /\ rpos < Len(stream) /\ stream' = Front(stream)
      /\ UNCHANGED <<rpos, closed, result, sent, base>>
  BY DEF LoseByte
<1>1. PICK S \in Nat, N \in Nat : S = Len(stream) /\ N = Len(sent) /\ DOMAIN sent = 1 .. N
  BY LenProperties DEF IInv, TypeOK, Sends
<1>2. base \in Nat /\ base <= S - 1 /\ S - 1 \in 0 .. Len(stream)
  BY <1>0, <1>1 DEF IInv, TypeOK
<1>3. Len(stream') = S - 1
  <2>1. \A i \in 1 .. S - 1 : stream[i] \in Bytes
    BY <1>1, ElementOfSeq DEF IInv, TypeOK
  <2>2. Len(SubSeq(stream, 1, S - 1)) = (IF 1 <= S - 1 THEN S - 1 - 1 + 1 ELSE 0)
    BY <2>1, 1 \in Int, S - 1 \in Int, SubSeqProperties
  <2>3. stream' = SubSeq(stream, 1, S - 1)
    BY <1>0, <1>1 DEF Front
  <2> QED
    BY <1>2, <2>2, <2>3
<1>4. Placed(b, s)
  BY AheadPlaced
<1>5. BeginBefore(t, S - 1)
  BY <1>1, <1>2, BegunCounts DEF IInv
<1>6. t \in Nat /\ t <= N /\ b \in Nat /\ s \in Nat /\ s <= N /\ b <= s
  BY <1>1, <1>4, <1>5 DEF Placed, BeginBefore
<1>7. Ahead' = AheadOf(sent, b, t) /\ Boundary(base)' = Boundary(base)
  <2>1. BegunOf(sent, base) = b /\ BegunOf(sent, S - 1) = t
    BY <1>1, AheadNow
  <2>2. Ahead' = AheadOf(sent, BegunOf(sent, base), BegunOf(sent, S - 1))
    BY <1>0, <1>3, AheadNow
  <2>3. Boundary(base)' = Boundary(base)
    BY <1>0 DEF Boundary, End
  <2> QED
    BY <2>1, <2>2, <2>3
<1>8. /\ Ahead = AheadOf(sent, b, s) /\ Len(Ahead) = s - b
      /\ (Ahead = <<>> <=> b = s)
      /\ \A i \in 1 .. s : sent[i].frame \in Frames
      /\ BeginBefore(b, base) /\ BeginBefore(s, S)
  BY <1>1, <1>4 DEF Placed
<1> HIDE DEF b, s, t
<1>9. b <= t /\ t <= s
  <2>1. Sends /\ base \in Int /\ S - 1 \in Int /\ S \in Int /\ S - 1 <= S
    BY <1>2 DEF IInv
  <2>2. b <= t
    BY <1>2, <1>5, <1>6, <1>8, <2>1, BegunGrows
  <2>3. t <= s
    BY <1>5, <1>6, <1>8, <2>1, BegunGrows
  <2> QED
    BY <2>2, <2>3
\* Of two frames that begin before the end, the first lies whole before the last byte.
<1>10. t = s \/ t = s - 1
  <2>1. SUFFICES ASSUME t + 1 < s PROVE FALSE
    BY <1>6, <1>9
  <2>2. t + 1 \in DOMAIN sent /\ s \in DOMAIN sent
    BY <1>1, <1>6, <2>1
  <2>3. /\ sent[t + 1].start \in Nat /\ End(sent[t + 1]) \in Nat
        /\ sent[t + 1].start + 5 <= End(sent[t + 1])
        /\ sent[s].start \in Nat
    BY <2>2, SentParts DEF IInv
  <2>4. End(sent[t + 1]) <= sent[s].start
    BY <2>1, <2>2 DEF IInv, Sends
  <2>5. ~(sent[t + 1].start < S - 1)
    BY <1>5, <1>6, <2>2 DEF BeginBefore
  <2>6. sent[s].start < S
    <3>1. \A i \in DOMAIN sent : i <= s <=> sent[i].start < S
      BY <1>8 DEF BeginBefore
    <3>2. s <= s
      BY <1>6
    <3> QED
      BY <2>2, <3>1, <3>2
  <2> QED
    BY <2>3, <2>4, <2>5, <2>6
<1>11. CASE t = s
  BY <1>0, <1>7, <1>8, <1>11 DEF Chan!chan
<1>12. CASE t = s - 1
  <2>1. b # s /\ 0 \in 0 .. s - b /\ 1 \in 0 .. s - b - 0 /\ b + 0 = b /\ 0 + 1 = 1
    BY <1>6, <1>9, <1>12
  <2>2. AheadOf(sent, b + 0, s - 1)
          = SubSeq(AheadOf(sent, b, s), 0 + 1, Len(AheadOf(sent, b, s)) - 1)
    <3>1. Shrinks(sent, b, s, 0, 1)
      BY <1>6, <1>8, <1>9, <2>1, AheadTail
    <3> QED
      BY <3>1 DEF Shrinks
  <2>3. Ahead' = SubSeq(Ahead, 1, Len(Ahead) - 1) /\ Ahead # <<>>
    BY <1>7, <1>8, <1>12, <2>1, <2>2
  <2> QED
    BY <1>0, <1>7, <2>3 DEF Chan!Lose
<1> QED
  BY <1>10, <1>11, <1>12

\* What a return leaves to the channel.
LEMMA Returned ==
    ASSUME IInv, UNCHANGED peer, rpos' \in rpos .. Len(stream), NEW r, Return(r)
    PROVE  /\ result' = r /\ closed' = closed
           /\ base' = rpos' /\ base' \in base .. Len(stream)
           /\ base \in Nat /\ base' \in Int
           /\ Boundary(base)' = Boundary(base') /\ Boundary(base') \in BOOLEAN
           /\ \E n \in 0 .. Len(Ahead) : Ahead' = SubSeq(Ahead, n + 1, Len(Ahead))
<1>1. result' = r /\ closed' = closed /\ base' = rpos'
  BY DEF Return, peer
<1>2. base \in Nat /\ rpos \in Nat /\ base <= rpos /\ Len(stream) \in Nat
  BY EndsIs DEF IInv, TypeOK
<1>3. base' \in base .. Len(stream) /\ base' \in Int
  BY <1>1, <1>2
<1>4. PICK n \in Nat : Begun(base') = Begun(base) + n
  <2> DEFINE b == Begun(base)
             c == Begun(base')
  <2>1. base \in 0 .. Len(stream) /\ base' \in 0 .. Len(stream)
    BY <1>2, <1>3
  <2>2. BeginBefore(b, base) /\ BeginBefore(c, base')
    BY <2>1, BegunCounts DEF IInv
  <2>3. b \in Nat /\ c \in Nat
    BY <2>2, LenProperties DEF BeginBefore, IInv, Sends
  <2>4. base \in Int /\ base <= base'
    BY <1>2, <1>3
  <2> HIDE DEF b, c
  <2>5. b <= c
    BY <1>3, <2>2, <2>3, <2>4, BegunGrows DEF IInv
  <2>6. c - b \in Nat /\ c = b + (c - b)
    BY <2>3, <2>5
  <2> QED
    BY <2>6 DEF b, c
<1>5. /\ n \in 0 .. Len(Ahead) /\ Ahead' = SubSeq(Ahead, n + 1, Len(Ahead))
      /\ Boundary(base)' = Boundary(base')
  BY <1>3, <1>4, Advance
<1> QED
  BY <1>1, <1>2, <1>3, <1>5 DEF Boundary

\* A read that began inside a frame.
LEMMA AstrayRefines ==
    ASSUME IInv, UNCHANGED peer, rpos' \in rpos .. Len(stream), Returns, ~Boundary(base)
    PROVE  Chan!ReadAstray
<1>1. PICK r : Return(r) /\ (r = Got(frame) \/ \E rc \in Chan!ReadError : r = Failed(rc))
  BY DEF Returns
<1>2. /\ result' = r /\ closed' = closed
      /\ Boundary(base)' \in BOOLEAN
      /\ \E n \in 0 .. Len(Ahead) : Ahead' = SubSeq(Ahead, n + 1, Len(Ahead))
  BY <1>1, Returned
<1>3. CASE r = Got(frame)
  <2>1. Known(frame) \in Deliverable \cup {Garbage}
    BY DEF Known
  <2>2. (IF result.rc = "APR_SUCCESS" THEN Got(Known(result.frame)) ELSE result)'
           = Chan!Got(Known(frame))
    BY <1>2, <1>3 DEF Got, Chan!Got, Known, Deliverable, Delivered, Garbage, NewFrame
  <2> QED
    BY <1>2, <2>1, <2>2 DEF Chan!ReadAstray
<1>4. ASSUME NEW rc \in Chan!ReadError, r = Failed(rc)
      PROVE  Chan!ReadAstray
  <2>1. (IF result.rc = "APR_SUCCESS" THEN Got(Known(result.frame)) ELSE result)'
           = Chan!Failed(rc)
    BY <1>2, <1>4 DEF Failed, Chan!Failed, Chan!ReadError
  <2> QED
    BY <1>2, <2>1 DEF Chan!ReadAstray
<1> QED
  BY <1>1, <1>3, <1>4

\* A recv of a read at a boundary fails before its first byte ...
LEMMA NothingRefines ==
    ASSUME IInv, UNCHANGED peer, rpos = base, Boundary(base), NEW n \in Nat \ {0}, RecvFails(n)
    PROVE  \E rc \in Chan!ReadError : Chan!ReadNothing(rc)
<1>1. PICK rc \in RecvError(n) : Return(Failed(rc))
  BY DEF RecvFails
<1>2. rc = "APR_TIMEUP" \/ (rc = "APR_EOF" /\ closed /\ rpos = Len(stream))
  BY <1>1, RecvErrorIs
<1>3. rpos' = rpos /\ rpos' \in rpos .. Len(stream) /\ base' = base
  BY <1>1, EndsIs DEF IInv, TypeOK, RecvFails, Return
<1>4. result' = Failed(rc) /\ closed' = closed
  BY <1>1, <1>3, Returned
<1>5. Ahead' = Ahead /\ Boundary(base)' = Boundary(base)
  BY <1>3, StutterRefines DEF peer
<1>6. rc = "APR_EOF" => closed /\ Ahead = <<>>
  BY <1>2, AheadPlaced DEF Placed
<1>7. (IF result.rc = "APR_SUCCESS" THEN Got(Known(result.frame)) ELSE result)'
         = Chan!Failed(rc)
  BY <1>2, <1>4 DEF Failed, Chan!Failed
<1>8. rc \in Chan!ReadError
  BY <1>2 DEF Chan!ReadError
<1>9. Chan!ReadNothing(rc)
  BY <1>2, <1>4, <1>5, <1>6, <1>7 DEF Chan!ReadNothing
<1> QED
  BY <1>8, <1>9

\* A call that began on frame k returns behind its first byte: it has taken that frame.
LEMMA TakesOne ==
    ASSUME IInv, UNCHANGED peer, rpos' \in rpos .. Len(stream), NEW r, Return(r),
           NEW k \in DOMAIN sent, Reads(k), base < rpos', rpos' <= End(sent[k])
    PROVE  /\ Boundary(base) /\ Boundary(base)' \in BOOLEAN
           /\ Ahead # <<>> /\ Head(Ahead) = Delivered(sent[k].frame)
           /\ Ahead' = Tail(Ahead)
           /\ rpos' < End(sent[k]) => Boundary(base)' = FALSE
           /\ result' = r /\ closed' = closed
<1>1. /\ result' = r /\ closed' = closed
      /\ base' = rpos' /\ base' \in base .. Len(stream) /\ base' \in Int /\ base \in Nat
      /\ Boundary(base)' = Boundary(base') /\ Boundary(base') \in BOOLEAN
  BY Returned
<1>2. sent[k].start = base /\ Sends /\ DOMAIN sent = 1 .. Len(sent) /\ k \in Nat \ {0}
  BY SentParts DEF Reads, IInv
<1>3. Begun(base) = k - 1
  BY <1>2, BeginsAt
<1>4. Begun(base') = k
  BY <1>1, <1>2, BegunInside
<1>5. 1 \in 0 .. Len(Ahead) /\ Ahead' = SubSeq(Ahead, 2, Len(Ahead))
  <2>1. Begun(base') = Begun(base) + 1 /\ 1 + 1 = 2
    BY <1>2, <1>3, <1>4
  <2> QED
    BY <1>1, <2>1, Advance
<1>6. Placed(k - 1, Begun(Len(stream)))
  BY <1>3, AheadPlaced
<1>7. Ahead \in Seq(Deliverable) /\ Ahead # <<>> /\ Ahead[1] = Delivered(sent[k].frame)
  <2>1. PICK s \in Nat : s = Begun(Len(stream)) /\ Placed(k - 1, s)
    BY <1>6 DEF Placed
  <2>2. Ahead \in Seq(Deliverable) /\ Len(Ahead) = s - (k - 1) /\ (Ahead = <<>> <=> k - 1 = s)
    BY <2>1 DEF Placed
  <2>3. 1 \in 1 .. s - (k - 1) /\ (k - 1) + 1 = k /\ k - 1 # s
    BY <1>2, <1>5, <2>1, <2>2
  <2>4. Ahead[1] = Delivered(sent[(k - 1) + 1].frame)
    BY <2>1, <2>3 DEF Placed
  <2> QED
    BY <2>2, <2>3, <2>4
<1>8. Ahead' = Tail(Ahead)
  BY <1>5, <1>7, TailIsSubSeq
<1>9. Boundary(base)
  <2>1. k = 1 => base = 0
    BY <1>2 DEF Sends
  <2>2. k # 1 => k - 1 \in DOMAIN sent /\ base = End(sent[k - 1])
    BY <1>2 DEF Sends
  <2> QED
    BY <2>1, <2>2 DEF Boundary
<1>10. ASSUME rpos' < End(sent[k]) PROVE Boundary(base)' = FALSE
  <2>1. ~Boundary(base')
    BY <1>1, <1>2, <1>10, InsideNoBoundary
  <2> QED
    BY <1>1, <2>1
<1>11. Boundary(base)' \in BOOLEAN
  BY <1>1
<1>12. Head(Ahead) = Delivered(sent[k].frame)
  BY <1>7
<1> QED
  BY <1>1, <1>7, <1>8, <1>9, <1>10, <1>11, <1>12

LEMMA PartRefines ==
    ASSUME IInv, UNCHANGED peer, rpos' \in rpos .. Len(stream),
           NEW rc \in Chan!ReadError, Return(Failed(rc)),
           NEW k \in DOMAIN sent, Reads(k), base < rpos', rpos' < End(sent[k])
    PROVE  Chan!ReadPart(rc)
<1>1. /\ Boundary(base) /\ Ahead # <<>> /\ Ahead' = Tail(Ahead) /\ Boundary(base)' = FALSE
      /\ result' = Failed(rc) /\ closed' = closed
  <2>1. rpos' <= End(sent[k])
    BY SentParts, EndsIs DEF IInv, TypeOK
  <2> QED
    BY <2>1, TakesOne
<1>2. (IF result.rc = "APR_SUCCESS" THEN Got(Known(result.frame)) ELSE result)'
         = Chan!Failed(rc)
  BY <1>1 DEF Failed, Chan!Failed, Chan!ReadError
<1> QED
  BY <1>1, <1>2 DEF Chan!ReadPart

LEMMA WholeRefines ==
    ASSUME IInv, UNCHANGED peer, rpos' \in rpos .. Len(stream),
           NEW k \in DOMAIN sent, Reads(k), Whole(k)
    PROVE  Chan!ReadFrame
<1> DEFINE d == Delivered(sent[k].frame)
<1>1. /\ sent[k].start = base /\ base \in Nat /\ End(sent[k]) \in Nat /\ base + 5 <= End(sent[k])
      /\ sent[k].frame \in Frames
  BY SentParts DEF Reads, IInv
<1>2. base < rpos' /\ rpos' <= End(sent[k]) /\ Return(Got(d))
  BY <1>1 DEF Whole
<1>3. /\ Boundary(base) /\ Boundary(base)' \in BOOLEAN
      /\ Ahead # <<>> /\ Head(Ahead) = d /\ Ahead' = Tail(Ahead)
      /\ result' = Got(d) /\ closed' = closed
  BY <1>2, TakesOne
<1>4. Known(d) = d
  BY <1>1 DEF Known, Deliverable
<1>5. (IF result.rc = "APR_SUCCESS" THEN Got(Known(result.frame)) ELSE result)'
         = Chan!Got(d)
  <2> HIDE DEF d
  <2> QED
    BY <1>3, <1>4 DEF Got, Chan!Got, Known
<1> QED
  BY <1>3, <1>5 DEF Chan!ReadFrame

LEMMA CutRefines ==
    ASSUME IInv, UNCHANGED peer, rpos' \in rpos .. Len(stream),
           NEW k \in DOMAIN sent, Reads(k), CutShort(k)
    PROVE  Chan!ReadCut
<1> DEFINE f == sent[k].frame
           d == Delivered(f)
           cut(n) == Made(f, Len(f.headers), SubSeq(f.body, 1, n))
<1>1. PICK n \in 1 .. Len(f.body) - 2 :
         /\ SubSeq(f.body, n + 1, n + 2) = <<NUL, LF>>
         /\ Return(Got(cut(n)))
         /\ Sized(f)
         /\ base < rpos' /\ rpos' < End(sent[k])
  BY DEF CutShort
<1>2. /\ f \in Frames /\ End(sent[k]) \in Nat /\ rpos' <= End(sent[k])
  BY <1>1, SentParts, EndsIs DEF IInv, TypeOK
<1>3. /\ Boundary(base) /\ Boundary(base)' = FALSE
      /\ Ahead # <<>> /\ Head(Ahead) = d /\ Ahead' = Tail(Ahead)
      /\ result' = Got(cut(n)) /\ closed' = closed
  BY <1>1, <1>2, TakesOne
<1>4. d = Made(f, Len(f.headers), f.body)
  BY <1>1, MadeIsDelivered
<1>5. [d EXCEPT !.body = SubSeq(@, 1, n)] = cut(n)
  <2> DEFINE c == <<f.command>>
             h == Merged(f.headers, Len(f.headers))
             b == f.body
  <2>1. d = [command |-> c, headers |-> h, body |-> b]
    BY <1>4 DEF Made
  <2>2. cut(n) = [command |-> c, headers |-> h, body |-> SubSeq(b, 1, n)]
    BY DEF Made
  <2> DEFINE x == SubSeq(b, 1, n)
  <2> HIDE DEF d, cut, c, h, b, x
  <2>3. d.body = b
    BY <2>1
  <2>4. [[command |-> c, headers |-> h, body |-> b] EXCEPT !.body = x]
          = [command |-> c, headers |-> h, body |-> x]
    OBVIOUS
  <2>5. [d EXCEPT !.body = x] = cut(n)
    BY <2>1, <2>2, <2>4 DEF x
  <2> QED
    BY <2>3, <2>5 DEF x
<1>6. ContentLength \in DOMAIN d.headers /\ d.body = f.body
  BY <1>1, <1>4 DEF Made, Sized
<1>7. d \in Deliverable
  BY <1>2 DEF Deliverable
<1>8. Known(cut(n)) \in Cuts(d)
  <2> HIDE DEF d, cut
  <2> QED
    BY <1>1, <1>5, <1>6 DEF Cuts
<1>9. (IF result.rc = "APR_SUCCESS" THEN Got(Known(result.frame)) ELSE result)'
         = Chan!Got(Known(cut(n)))
  <2> HIDE DEF cut
  <2> QED
    BY <1>3 DEF Got, Chan!Got, Known
<1>10. [x \in Deliverable |-> Cuts(x)][Head(Ahead)] = Cuts(d)
  BY <1>3, <1>7
<1> HIDE DEF d, cut
<1> QED
  BY <1>3, <1>8, <1>9, <1>10 DEF Chan!ReadCut

LEMMA ReadRefines ==
    ASSUME IInv, ReadStep
    PROVE  Chan!Read \/ UNCHANGED Chan!chan
<1>1. UNCHANGED peer /\ rpos' \in rpos .. Len(stream) /\ (Returns \/ Proceeds)
  BY ReadTypes
<1>2. CASE Proceeds
  <2>1. UNCHANGED <<stream, sent, base, closed, result>>
    BY <1>1, <1>2 DEF Proceeds, peer
  <2> QED
    BY <2>1, StutterRefines DEF Chan!chan
<1>3. CASE Returns /\ ~Boundary(base)
  BY <1>1, <1>3, AstrayRefines DEF Chan!Read
<1>4. CASE Returns /\ Boundary(base)
  <2>1. CASE rpos = base /\ RecvFails(1)
    BY <1>1, <1>4, <2>1, NothingRefines DEF Chan!Read
  <2>2. ASSUME NEW k \in DOMAIN sent, Reads(k)
        PROVE  Chan!Read
    <3>1. ~GoesOn(k)
      BY <1>4 DEF GoesOn, Returns, Return
    <3>2. CASE RecvEnds(k)
      <4>1. PICK n \in Nat : /\ RecvFails(n)
                             /\ rpos = base \/ (base < rpos /\ rpos < End(sent[k]))
                             /\ n = 0 => rpos # base
        BY <3>2 DEF RecvEnds
      <4>2. CASE rpos = base
        BY <1>1, <1>4, <4>1, <4>2, NothingRefines DEF Chan!Read
      <4>3. CASE base < rpos /\ rpos < End(sent[k])
        <5>1. PICK rc \in RecvError(n) : Return(Failed(rc))
          BY <4>1 DEF RecvFails
        <5>2. rc \in Chan!ReadError /\ rpos' = rpos
          BY <4>1, <5>1, RecvErrorIs DEF Chan!ReadError, RecvFails
        <5>3. Chan!ReadPart(rc)
          BY <1>1, <2>2, <4>3, <5>1, <5>2, PartRefines
        <5> QED
          BY <5>2, <5>3 DEF Chan!Read
      <4> QED
        BY <4>1, <4>2, <4>3
    <3>3. CASE Whole(k)
      BY <1>1, <2>2, <3>3, WholeRefines DEF Chan!Read
    <3>4. CASE CutShort(k)
      BY <1>1, <2>2, <3>4, CutRefines DEF Chan!Read
    <3>5. CASE Broken(k)
      <4>1. "APR_EGENERAL" \in Chan!ReadError
        BY DEF Chan!ReadError
      <4>2. Chan!ReadPart("APR_EGENERAL")
        BY <1>1, <2>2, <3>5, <4>1, PartRefines DEF Broken
      <4> QED
        BY <4>1, <4>2 DEF Chan!Read
    <3> QED
      BY <2>2, <3>1, <3>2, <3>3, <3>4, <3>5, Outcome
  <2> QED
    BY <1>4, <2>1, <2>2, InSyncReads
<1> QED
  BY <1>1, <1>2, <1>3, <1>4

LEMMA InitRefines == Init => Chan!Init
<1> SUFFICES ASSUME Init PROVE Chan!Init
  OBVIOUS
<1>1. stream = <<>> /\ sent = <<>> /\ closed = FALSE /\ base = 0 /\ result = NoFrame
  BY DEF Init
<1>2. Begun(base) = 0 /\ Begun(Len(stream)) = 0
  BY <1>1, BegunOfIs, AheadNow DEF BegunOf
<1>3. Ahead = <<>>
  BY <1>2 DEF Ahead
<1>4. Boundary(base) = TRUE
  BY <1>1 DEF Boundary
<1>5. (IF result.rc = "APR_SUCCESS" THEN Got(Known(result.frame)) ELSE result) = Chan!NoFrame
  BY <1>1 DEF NoFrame, Chan!NoFrame
<1> QED
  BY <1>1, <1>3, <1>4, <1>5 DEF Chan!Init

LEMMA NextRefines == IInv /\ [Next]_vars => [Chan!Next]_(Chan!chan)
<1> SUFFICES ASSUME IInv, [Next]_vars PROVE Chan!Next \/ UNCHANGED Chan!chan
  OBVIOUS
<1>1. ASSUME NEW f \in Frames, Send(f) PROVE Chan!Next
  BY <1>1, SendRefines DEF Chan!Next
<1>2. CASE Close
  BY <1>2, CloseRefines DEF Chan!Next
<1>3. CASE LoseByte
  BY <1>3, LoseRefines DEF Chan!Next
<1>4. CASE StartRead
  BY <1>4, StutterRefines DEF StartRead, peer, Chan!chan
<1>5. CASE ReadStep
  BY <1>5, ReadRefines DEF Chan!Next
<1>6. CASE UNCHANGED vars
  BY <1>6, StutterRefines DEF vars, Chan!chan
<1> QED
  BY <1>1, <1>2, <1>3, <1>4, <1>5, <1>6 DEF Next

\* stomp_read implements the frame channel: from the first byte of a frame it returns the
\* frames sent whole, unaltered and in order, a timeout before the first byte costs nothing,
\* and any other failure costs the frame it happened in (stomp_io.c, stomp_read).
THEOREM ReadImplementsChannel == Spec => ImplementsFrameChannel
<1>1. Init => Chan!Init
  BY InitRefines
<1>2. IInv /\ [Next]_vars => [Chan!Next]_(Chan!chan)
  BY NextRefines
<1> QED
  BY <1>1, <1>2, IInvHolds, PTL DEF Spec, Chan!Spec, ImplementsFrameChannel
=============================================================================
