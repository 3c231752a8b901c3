---------------------------- MODULE EpParse_proofs ----------------------------
(***************************************************************************)
(* Proofs about EpParse, for every set of messages, of this library or     *)
(* not, and every history of the caller's buffer and details: no array of  *)
(* the details is overrun, and a parser's work appears to its caller as    *)
(* one step, the one EpDetails describes.                                  *)
(***************************************************************************)
EXTENDS EpParse, TLAPS, NatLemmas

USE MessagesAssumption, UintAssumption, BoundsAssumption, NonEmptyAssumption

-----------------------------------------------------------------------------
(* The contents of a message.                                              *)

\* What f must be, on 0..n, to say what the first tokens say.
IsContents(f, toks, no, type, n) ==
  f = [k \in 0..n |-> IF k = 0 THEN <<>>
                      ELSE Further(f[k - 1], toks, no, type, k)]

(* The recursion that defines Contents has a solution: there is no         *)
(* shortest beginning of the tokens without one.                           *)
LEMMA ContentsExist ==
  ASSUME NEW toks, NEW no, NEW type, NEW n \in Nat
  PROVE  \E f : IsContents(f, toks, no, type, n)
<1> DEFINE Bad == {m \in Nat : ~ \E f : IsContents(f, toks, no, type, m)}
<1>1. SUFFICES ASSUME Bad # {} PROVE FALSE
  OBVIOUS
<1>2. PICK m \in Bad : \A h \in Bad : m <= h
  <2>1. Bad \in SUBSET Nat
    OBVIOUS
  <2> HIDE DEF Bad
  <2>2. QED
    BY <1>1, <2>1, LeastExists
<1>3. CASE m = 0
  <2> DEFINE f == [k \in 0..0 |-> <<>>]
  <2>1. IsContents(f, toks, no, type, 0)
    BY DEF IsContents
  <2>2. QED
    BY <1>3, <2>1
<1>4. CASE m # 0
  <2>1. m \in Nat /\ m - 1 \in Nat
    BY <1>4
  <2>2. m - 1 \notin Bad
    BY <1>2, <2>1
  <2>3. PICK f : IsContents(f, toks, no, type, m - 1)
    BY <2>1, <2>2
  <2> DEFINE g == [k \in 0..m |-> IF k = m
                     THEN Further(f[m - 1], toks, no, type, m) ELSE f[k]]
  <2>4. ASSUME NEW k \in 0..m
        PROVE  g[k] = IF k = 0 THEN <<>>
                      ELSE Further(g[k - 1], toks, no, type, k)
    <3>1. CASE k = m
      <4>1. g[k] = Further(f[m - 1], toks, no, type, m)
        BY <3>1
      <4>2. k - 1 \in 0..m /\ k - 1 # m /\ g[k - 1] = f[k - 1]
        BY <1>4, <2>1, <3>1
      <4>3. QED
        BY <1>4, <3>1, <4>1, <4>2
    <3>2. CASE k # m
      <4>1. k \in 0..(m - 1) /\ g[k] = f[k]
        BY <2>1, <3>2
      <4>2. f[k] = IF k = 0 THEN <<>>
                   ELSE Further(f[k - 1], toks, no, type, k)
        BY <2>3, <4>1 DEF IsContents
      <4>3. k # 0 => k - 1 \in 0..m /\ k - 1 # m /\ g[k - 1] = f[k - 1]
        BY <2>1, <4>1
      <4>4. QED
        BY <4>1, <4>2, <4>3
    <3>3. QED
      BY <3>1, <3>2
  <2>5. g = [k \in 0..m |-> g[k]]
    OBVIOUS
  <2>6. IsContents(g, toks, no, type, m)
    <3> HIDE DEF g
    <3> QED
      BY <2>4, <2>5 DEF IsContents
  <2>7. QED
    BY <2>6
<1>5. QED
  BY <1>3, <1>4

(* What arrives of a number is a number, and a list of users that fits.    *)
LEMMA ArrivesType ==
  ASSUME NEW t, t.num \in Nat, t.len \in Nat
  PROVE  /\ Arrives(t) \in Nat
         /\ t.type = "RNTI_REPORT" => Arrives(t) <= EP_RAN_USERS_MAX
<1>1. t.num \in Nat /\ t.len \div SizeofRnti \in Nat
  BY DEF SizeofRnti
<1>2. (t.num * U16) % U16 \in Nat
  <2> DEFINE a == t.num * U16
  <2>1. U16 \in Nat \ {0}
    BY DEF U16
  <2>2. a \in Int
    BY <1>1, <2>1, TimesNat
  <2> HIDE DEF a
  <2>3. a % U16 \in 0..(U16 - 1)
    BY <2>1, <2>2, ModRange
  <2>4. a % U16 \in Nat
    BY <2>1, <2>3
  <2>5. QED
    BY <2>4 DEF a
<1>3. QED
  BY <1>1, <1>2 DEF Arrives, AtMost, EP_RAN_USERS_MAX

(* The recursion, and the type, of the contents; there are none of a kind  *)
(* that no token is of.                                                    *)
LEMMA ContentsSteps ==
  ASSUME NEW toks \in Seq(Tokens), NEW no \in 0..MaxMsgs, NEW type
  PROVE  /\ Contents(toks, no, type)[0] = <<>>
         /\ \A k \in 1..Len(toks) :
              Contents(toks, no, type)[k] =
                Further(Contents(toks, no, type)[k - 1], toks, no, type, k)
         /\ \A k \in 0..Len(toks) : Contents(toks, no, type)[k] \in Seq(Entries)
         /\ \A k \in 0..Len(toks) :
              (\A j \in 1..k : toks[j].type # type)
                => Contents(toks, no, type)[k] = <<>>
<1> DEFINE C == Contents(toks, no, type)
           n == Len(toks)
<1>1. C = CHOOSE f : IsContents(f, toks, no, type, n)
  BY Zenon DEF Contents, IsContents
<1>2. n \in Nat
  OBVIOUS
<1>3. IsContents(C, toks, no, type, n)
  BY <1>1, <1>2, ContentsExist, Zenon
<1>4. ASSUME NEW k \in 1..n
      PROVE  /\ toks[k].type = type =>
                  Entry(no, k, Arrives(toks[k])) \in Entries
             /\ toks[k] \in Tokens
  <2>1. toks[k] \in Tokens /\ k \in Nat
    BY <1>2
  <2>2. toks[k].num \in Nat /\ toks[k].len \in Nat
    BY <2>1 DEF Tokens
  <2>3. Arrives(toks[k]) \in Nat
    BY <2>2, ArrivesType
  <2>4. QED
    BY <2>1, <2>3 DEF Entry, Entries
<1> HIDE DEF C, n
<1>5. /\ C[0] = <<>>
      /\ \A k \in 1..n : C[k] = Further(C[k - 1], toks, no, type, k)
  BY <1>2, <1>3 DEF IsContents
<1> DEFINE Good(k) == /\ C[k] \in Seq(Entries)
                      /\ (\A j \in 1..k : toks[j].type # type) => C[k] = <<>>
           Bad == {k \in 0..n : ~Good(k)}
<1>6. ASSUME NEW k \in 1..n, Good(k - 1) PROVE Good(k)
  <2>1. C[k] = Further(C[k - 1], toks, no, type, k)
    BY <1>5
  <2>2. CASE toks[k].type = type
    <3>1. C[k] = Append(C[k - 1], Entry(no, k, Arrives(toks[k])))
      BY <2>1, <2>2 DEF Further
    <3>2. QED
      BY <1>2, <1>4, <1>6, <2>2, <3>1
  <2>3. CASE toks[k].type # type
    <3>1. C[k] = C[k - 1]
      BY <2>1, <2>3 DEF Further
    <3>2. QED
      BY <1>2, <1>6, <2>3, <3>1
  <2>4. QED
    BY <2>2, <2>3
<1>7. Bad = {}
  <2>1. SUFFICES ASSUME Bad # {} PROVE FALSE
    OBVIOUS
  <2>2. Bad \in SUBSET Nat
    BY <1>2
  <2>3. PICK k \in Bad : \A h \in Bad : k <= h
    <3> HIDE DEF Bad
    <3> QED
      BY <2>1, <2>2, LeastExists
  <2>4. k \in 0..n /\ ~Good(k)
    OBVIOUS
  <2>5. k # 0
    <3>1. Good(0)
      BY <1>5
    <3> HIDE DEF Good
    <3>2. QED
      BY <2>4, <3>1
  <2>6. k - 1 \in 0..n /\ k \in 1..n
    BY <1>2, <2>4, <2>5
  <2>7. k - 1 \notin Bad
    BY <1>2, <2>3, <2>6
  <2>8. Good(k - 1)
    BY <2>6, <2>7
  <2> HIDE DEF Good, Bad
  <2>9. QED
    BY <1>6, <2>4, <2>6, <2>8
<1>8. \A k \in 0..n : Good(k)
  BY <1>7
<1>9. QED
  BY <1>5, <1>8 DEF C, n

-----------------------------------------------------------------------------
(* Type correctness.                                                       *)

LEMMA OneSeq ==
  ASSUME NEW S, NEW x \in S
  PROVE  /\ <<x>> \in Seq(S) /\ Len(<<x>>) = 1 /\ <<x>>[1] = x
         /\ <<>> \in Seq(S) /\ Len(<<>>) = 0
OBVIOUS

LEMMA AppendSeq ==
  ASSUME NEW S, NEW x \in S, NEW q \in Seq(S)
  PROVE  /\ Append(q, x) \in Seq(S) /\ Append(q, x) # <<>>
         /\ Len(q) \in Nat /\ Len(Append(q, x)) = Len(q) + 1
         /\ \A i \in 1..Len(q) : Append(q, x)[i] = q[i]
         /\ Append(q, x)[Len(q) + 1] = x
OBVIOUS

\* The same of any element.
LEMMA AppendAny ==
  ASSUME NEW S, NEW s \in Seq(S), NEW x
  PROVE  /\ Len(Append(s, x)) = Len(s) + 1
         /\ \A i \in 1..Len(s) : Append(s, x)[i] = s[i]
         /\ Append(s, x)[Len(s) + 1] = x
OBVIOUS

LEMMA SeqElement ==
  ASSUME NEW S, NEW q \in Seq(S), NEW i \in 1..Len(q)
  PROVE  q[i] \in S
OBVIOUS

LEMMA Limits ==
  ASSUME NEW f
  PROVE  Limit(f) \in Nat \ {0}
BY DEF Limit, EP_ECAP_CELL_MAX, EP_UE_RRC_MEAS_MAX

LEMMA MessageShape ==
  ASSUME NEW m \in Messages
  PROVE  /\ m.size \in Nat /\ m.whole \in BOOLEAN
         /\ m.parser.skip \in Nat /\ m.parser.taken \in Nat
         /\ m.parser.fixed \in Nat
         /\ m.parser.keeps \subseteq FixedParts
         /\ m.parser.takes \subseteq TokenTypes
         /\ m.parser.clears \subseteq m.parser.takes
         /\ m.toks \in Seq(Tokens)
         /\ m.offset \in [1..Len(m.toks) -> Nat]
<1>1. Shaped(m)
  OBVIOUS
<1>2. Parser(m.parser)
  BY <1>1 DEF Shaped
<1>3. QED
  BY <1>1, <1>2 DEF Shaped, Parser

LEMMA MsgFacts ==
  ASSUME TypeOK
  PROVE  /\ Len(rx) \in Nat \ {0}
         /\ \A i \in 1..Len(rx) : rx[i].m \in Messages /\ rx[i].no \in 0..MaxMsgs
         /\ msg.m \in Messages /\ msg.no \in 0..MaxMsgs
         /\ msg = rx[Len(rx)]
<1>1. rx \in Seq(Received) /\ rx # <<>>
  BY DEF TypeOK
<1>2. \A i \in 1..Len(rx) : rx[i] \in Received
  BY <1>1
<1>3. QED
  BY <1>1, <1>2 DEF Received, msg

(* A byte belongs to the last message that is long enough.                 *)
LEMMA OwnerIs ==
  ASSUME TypeOK, NEW o \in Int
  PROVE  /\ Owner(o) \in 0..Len(rx)
         /\ o < msg.m.size => Owner(o) = Len(rx)
         /\ Owner(o) # 0 => o < rx[Owner(o)].m.size
<1> DEFINE long == {i \in DOMAIN rx : rx[i].m.size > o}
           l == Len(rx)
<1>1. l \in Nat \ {0} /\ DOMAIN rx = 1..l /\ msg = rx[l]
  BY MsgFacts DEF TypeOK
<1>2. CASE long = {}
  <2>1. Owner(o) = 0
    BY <1>2 DEF Owner
  <2>2. ~(rx[l].m.size > o)
    BY <1>1, <1>2
  <2>3. rx[l].m.size \in Nat
    BY <1>1, MsgFacts, MessageShape
  <2>4. QED
    BY <1>1, <2>1, <2>2, <2>3
<1>3. CASE long # {}
  <2> DEFINE back == {l - i : i \in long}
  <2>1. long \subseteq 1..l
    BY <1>1
  <2> HIDE DEF long, l
  <2>2. back \in SUBSET Nat /\ back # {}
    <3>1. \A i \in long : l - i \in Nat
      BY <1>1, <2>1
    <3>2. PICK i \in long : TRUE
      BY <1>3
    <3>3. l - i \in back
      BY <3>2
    <3>4. QED
      BY <3>1, <3>3
  <2>3. PICK b \in back : \A h \in back : b <= h
    <3> HIDE DEF back
    <3> QED
      BY <2>2, LeastExists
  <2>4. PICK k \in long : b = l - k
    OBVIOUS
  <2>5. \A h \in long : h <= k
    <3> SUFFICES ASSUME NEW h \in long PROVE h <= k
      OBVIOUS
    <3>1. l - k <= l - h
      BY <2>3, <2>4
    <3>2. QED
      BY <1>1, <2>1, <3>1
  <2>6. Owner(o) \in long /\ \A h \in long : h <= Owner(o)
    <3>1. Owner(o) = CHOOSE i \in long : \A h \in long : h <= i
      BY <1>3 DEF Owner, long
    <3>2. QED
      BY <2>5, <3>1
  <2>7. o < rx[l].m.size => l \in long
    BY <1>1 DEF long
  <2>8. o < rx[l].m.size => Owner(o) = l
    <3>1. l \in long => Owner(o) \in 1..l /\ l <= Owner(o)
      BY <2>1, <2>6
    <3>2. l \in long => Owner(o) = l
      BY <1>1, <3>1
    <3>3. QED
      BY <2>7, <3>2
  <2>9. rx[Owner(o)].m.size > o
    BY <2>6 DEF long
  <2>10. Owner(o) \in 1..l /\ rx[Owner(o)].m.size \in Nat
    <3>1. Owner(o) \in 1..l
      BY <2>1, <2>6
    <3>2. QED
      BY <3>1, MsgFacts, MessageShape DEF l
  <2>11. QED
    BY <1>1, <2>8, <2>9, <2>10 DEF l
<1>4. QED
  BY <1>2, <1>3

(* What the loop can find under its cursor.                                *)
LEMMA ReadType ==
  ASSUME TypeOK, NEW t \in Read
  PROVE  /\ t.from \in 0..MaxMsgs /\ t.at \in Nat
         /\ t.num \in Nat /\ t.len \in Nat
<1> DEFINE k == Owner(c)
           r == rx[k]
           js == {j \in DOMAIN r.m.toks : r.m.offset[j] = c}
<1>1. c \in Nat /\ k \in 0..Len(rx)
  BY OwnerIs DEF TypeOK
<1>2. CASE t = Zeros
  BY <1>2 DEF Zeros
<1>3. CASE t \in Payload
  BY <1>3 DEF Payload
<1>4. ASSUME k # 0, NEW j \in js,
             t = [from |-> r.no, at |-> j, type |-> r.m.toks[j].type,
                  len |-> r.m.toks[j].len, num |-> r.m.toks[j].num]
      PROVE  /\ t.from \in 0..MaxMsgs /\ t.at \in Nat
             /\ t.num \in Nat /\ t.len \in Nat
  <2>1. k \in 1..Len(rx)
    BY <1>1, <1>4
  <2>2. r.m \in Messages /\ r.no \in 0..MaxMsgs
    BY <2>1, MsgFacts
  <2>3. r.m.toks \in Seq(Tokens)
    BY <2>2, MessageShape
  <2>4. j \in 1..Len(r.m.toks) /\ r.m.toks[j] \in Tokens
    BY <1>4, <2>3
  <2>5. r.m.toks[j].len \in Nat /\ r.m.toks[j].num \in Nat
    BY <2>4 DEF Tokens
  <2>6. j \in Nat
    BY <2>4
  <2> HIDE DEF js, r
  <2>7. QED
    BY <1>4, <2>2, <2>5, <2>6
<1>5. \/ t = Zeros \/ t \in Payload
      \/ k # 0 /\ \E j \in js :
           t = [from |-> r.no, at |-> j, type |-> r.m.toks[j].type,
                len |-> r.m.toks[j].len, num |-> r.m.toks[j].num]
  BY DEF Read
<1>6. QED
  BY <1>2, <1>3, <1>4, <1>5

\* Details that a caller can have: no array has more than it has room for.
DetOK(d) == /\ d \in [Fields -> Seq(Entries)]
            /\ \A f \in Fields : Len(d[f]) <= Limit(f)
            /\ \A e \in Range(d["RNTI_REPORT"]) : e.num <= EP_RAN_USERS_MAX

LEMMA NoDetailsOK == DetOK(NoDetails)
<1>1. NoDetails \in [Fields -> Seq(Entries)]
  BY DEF NoDetails
<1>2. \A f \in Fields : Len(NoDetails[f]) <= Limit(f)
  BY Limits DEF NoDetails
<1>3. Range(NoDetails["RNTI_REPORT"]) = {}
  BY DEF NoDetails, Range, Fields, TokenTypes
<1>4. QED
  BY <1>1, <1>2, <1>3 DEF DetOK

LEMMA PartType == TypeOK => Part \in Entries
<1> SUFFICES ASSUME TypeOK PROVE Part \in Entries
  OBVIOUS
<1>1. PartAt \in Int
  BY MsgFacts, MessageShape DEF p, PartAt, SizeofInterval
<1>2. Owner(PartAt) \in 0..Len(rx)
  BY <1>1, OwnerIs
<1>3. Owner(PartAt) # 0 => rx[Owner(PartAt)].no \in 0..MaxMsgs
  BY <1>2, MsgFacts
<1>4. QED
  BY <1>3 DEF Part, Entry, Entries

LEMMA OpenedOK == TypeOK /\ DetOK(det) => DetOK(Opened)
<1> SUFFICES ASSUME TypeOK, DetOK(det) PROVE DetOK(Opened)
  OBVIOUS
<1>1. p.keeps \subseteq FixedParts
  BY MsgFacts, MessageShape DEF p
<1>2. Part \in Entries
  BY PartType
<1>3. ASSUME NEW f \in Fields
      PROVE  Opened[f] \in Seq(Entries) /\ Len(Opened[f]) <= Limit(f)
  <2>1. Limit(f) \in Nat \ {0}
    BY Limits
  <2>2. det[f] \in Seq(Entries) /\ Len(det[f]) <= Limit(f)
    BY DEF DetOK
  <2>3. Opened[f] \in {<<Part>>, <<>>, det[f]}
    BY DEF Opened
  <2>4. /\ <<Part>> \in Seq(Entries) /\ Len(<<Part>>) = 1
        /\ <<>> \in Seq(Entries) /\ Len(<<>>) = 0
    BY <1>2, OneSeq
  <2> HIDE DEF Opened
  <2>5. CASE Opened[f] = <<Part>>
    BY <2>1, <2>4, <2>5
  <2>6. CASE Opened[f] = <<>>
    BY <2>1, <2>4, <2>6
  <2>7. QED
    BY <2>2, <2>3, <2>5, <2>6
<1>4. Opened = [f \in Fields |-> Opened[f]]
  BY DEF Opened
<1>5. Opened["RNTI_REPORT"] \in {<<>>, det["RNTI_REPORT"]}
  BY <1>1 DEF Opened, Fields, TokenTypes, FixedParts
<1>6. \A e \in Range(Opened["RNTI_REPORT"]) : e.num <= EP_RAN_USERS_MAX
  BY <1>5 DEF DetOK, Range
<1> HIDE DEF Opened
<1>7. QED
  BY <1>3, <1>4, <1>6 DEF DetOK

(* Storing a token changes one field.                                      *)
LEMMA StoredEffect ==
  ASSUME det \in [Fields -> Seq(Entries)], NEW t, t.type \in Fields
  PROVE  /\ Stored(t) \in [Fields -> UNION {Seq(Entries), {Stored(t)[t.type]}}]
         /\ \A f \in Fields : f # t.type => Stored(t)[f] = det[f]
         /\ Limit(t.type) = 1 =>
              Stored(t)[t.type] = <<Entry(t.from, t.at, Arrives(t))>>
         /\ Limit(t.type) # 1 =>
              Stored(t)[t.type] =
                IF Len(det[t.type]) < Limit(t.type)
                THEN Append(det[t.type], Entry(t.from, t.at, Arrives(t)))
                ELSE det[t.type]
BY DEF Stored

LEMMA StoredOK ==
  ASSUME TypeOK, DetOK(det), NEW t \in Read, t.type \in p.takes
  PROVE  DetOK(Stored(t))
<1> DEFINE e == Entry(t.from, t.at, Arrives(t))
           g == Stored(t)
<1>1. t.type \in Fields
  BY MsgFacts, MessageShape DEF p, Fields
<1>2. e \in Entries /\ (t.type = "RNTI_REPORT" => e.num <= EP_RAN_USERS_MAX)
  BY ReadType, ArrivesType DEF Entry, Entries
<1>3. det \in [Fields -> Seq(Entries)] /\ det[t.type] \in Seq(Entries)
  BY <1>1 DEF DetOK
<1>4. /\ \A f \in Fields : f # t.type => g[f] = det[f]
      /\ Limit(t.type) = 1 => g[t.type] = <<e>>
      /\ Limit(t.type) # 1 => g[t.type] = IF Len(det[t.type]) < Limit(t.type)
                                          THEN Append(det[t.type], e)
                                          ELSE det[t.type]
  BY <1>1, <1>3, StoredEffect
<1>5. g = [f \in Fields |-> g[f]]
  BY <1>3 DEF Stored
<1> HIDE DEF g, e
<1>6. g[t.type] \in Seq(Entries) /\ Len(g[t.type]) <= Limit(t.type)
  <2>1. Limit(t.type) \in Nat \ {0} /\ Len(det[t.type]) <= Limit(t.type)
    BY <1>1, Limits DEF DetOK
  <2>2. CASE Limit(t.type) = 1
    <3>1. e \in Entries
      BY <1>2
    <3>2. <<e>> \in Seq(Entries) /\ Len(<<e>>) = 1
      BY <3>1, OneSeq
    <3>3. g[t.type] = <<e>>
      BY <1>4, <2>2
    <3>4. Len(g[t.type]) = 1 /\ g[t.type] \in Seq(Entries)
      BY <3>2, <3>3, Zenon
    <3>5. QED
      BY <2>2, <3>4
  <2>3. CASE Limit(t.type) # 1
    <3> DEFINE s == Append(det[t.type], e)
    <3>1. /\ s \in Seq(Entries) /\ Len(s) = Len(det[t.type]) + 1
          /\ Len(det[t.type]) \in Nat
      BY <1>2, <1>3, AppendSeq
    <3>2. g[t.type] = s \/ g[t.type] = det[t.type]
      BY <1>4, <2>3
    <3>3. Len(det[t.type]) < Limit(t.type) \/ g[t.type] = det[t.type]
      BY <1>4, <2>3
    <3> HIDE DEF s
    <3>4. QED
      BY <1>3, <2>1, <3>1, <3>2, <3>3
  <2>4. QED
    BY <2>2, <2>3
<1>7. \A f \in Fields : g[f] \in Seq(Entries) /\ Len(g[f]) <= Limit(f)
  BY <1>4, <1>6 DEF DetOK
<1>8. \A i \in Range(g["RNTI_REPORT"]) : i.num <= EP_RAN_USERS_MAX
  <2>1. CASE t.type = "RNTI_REPORT"
    <3>1. g["RNTI_REPORT"] = <<e>>
      BY <1>4, <2>1 DEF Limit
    <3>2. QED
      BY <1>2, <2>1, <3>1 DEF Range
  <2>2. CASE t.type # "RNTI_REPORT"
    <3>1. g["RNTI_REPORT"] = det["RNTI_REPORT"]
      BY <1>4, <2>2 DEF Fields, TokenTypes
    <3>2. QED
      BY <3>1 DEF DetOK
  <2>3. QED
    BY <2>1, <2>2
<1>9. QED
  BY <1>5, <1>7, <1>8 DEF DetOK, g

LEMMA TypeDet == TypeOK => DetOK(det)
BY DEF TypeOK, DetOK

LEMMA TypeInit == Init => TypeOK
<1> SUFFICES ASSUME Init PROVE TypeOK
  OBVIOUS
<1>1. (CHOOSE m \in Messages : TRUE) \in Messages
  OBVIOUS
<1>2. rx \in Seq(Received) /\ rx # <<>>
  BY <1>1 DEF Init, Received
<1>3. DetOK(det) /\ was \in [Fields -> Seq(Entries)]
  BY NoDetailsOK DEF Init, DetOK
<1>4. given \in BOOLEAN /\ pc \in {"call", "loop", "done", "crash"}
      /\ c \in Nat /\ ret \in {"SUCCESS", "ERROR"}
  BY DEF Init
<1>5. QED
  BY <1>2, <1>3, <1>4 DEF TypeOK, DetOK

LEMMA TypeNext == TypeOK /\ [Next]_vars => TypeOK'
<1> SUFFICES ASSUME TypeOK, [Next]_vars PROVE TypeOK'
  OBVIOUS
<1>1. ASSUME NEW m \in Messages, NEW zb \in BOOLEAN, NEW zd \in BOOLEAN,
             Receive(m, zb, zd)
      PROVE  TypeOK'
  <2> DEFINE r == [m |-> m, no |-> msg.no + 1]
  <2>1. r \in Received
    BY <1>1, MsgFacts DEF Receive, Received
  <2>2. rx' \in Seq(Received) /\ rx' # <<>>
    <3>1. rx \in Seq(Received)
      BY DEF TypeOK
    <3>2. rx' = <<r>> \/ rx' = Append(rx, r)
      BY <1>1 DEF Receive
    <3> HIDE DEF r
    <3>3. <<r>> \in Seq(Received) /\ <<r>> # <<>>
      BY <2>1, OneSeq
    <3>4. Append(rx, r) \in Seq(Received) /\ Append(rx, r) # <<>>
      BY <2>1, <3>1, AppendSeq
    <3>5. QED
      BY <3>2, <3>3, <3>4
  <2>3. DetOK(det') /\ was' = det'
    BY <1>1, TypeDet, NoDetailsOK DEF Receive
  <2>4. given' \in BOOLEAN /\ pc' = "call" /\ c' = c /\ ret' = ret
    BY <1>1 DEF Receive
  <2>5. QED
    BY <2>2, <2>3, <2>4 DEF TypeOK, DetOK
<1>2. CASE Refuse \/ CrashAtOnce \/ Leave
  BY <1>2 DEF Refuse, CrashAtOnce, Leave, TypeOK
<1>3. CASE Open
  <2>1. DetOK(det')
    BY <1>3, TypeDet, OpenedOK DEF Open
  <2>2. c' \in Nat
    <3>1. p.skip \in Nat /\ p.fixed \in Nat
      BY MsgFacts, MessageShape DEF p
    <3>2. c' = p.skip + p.fixed
      BY <1>3 DEF Open
    <3>3. QED
      BY <3>1, <3>2
  <2>3. /\ rx' = rx /\ given' = given /\ was' = was /\ ret' = "SUCCESS"
        /\ pc' \in {"loop", "done"}
    BY <1>3 DEF Open
  <2>4. QED
    BY <2>1, <2>2, <2>3 DEF TypeOK, DetOK
<1>4. ASSUME NEW t \in Read, Turn(t) PROVE TypeOK'
  <2>1. DetOK(det')
    BY <1>4, TypeDet, StoredOK DEF Turn
  <2>2. c' \in Nat
    <3>1. c \in Nat /\ t.len \in Nat
      BY ReadType DEF TypeOK
    <3>2. c' = c + 4 + t.len
      BY <1>4 DEF Turn, Step, SizeofTLV
    <3>3. QED
      BY <3>1, <3>2
  <2>3. /\ rx' = rx /\ given' = given /\ was' = was /\ ret' = ret /\ pc' = pc
    BY <1>4 DEF Turn
  <2>4. QED
    BY <2>1, <2>2, <2>3 DEF TypeOK, DetOK
<1>5. ASSUME NEW t \in Read, CrashAtToken(t) PROVE TypeOK'
  BY <1>5 DEF CrashAtToken, TypeOK
<1>6. CASE UNCHANGED vars
  BY <1>6 DEF vars, TypeOK
<1>7. QED
  BY <1>1, <1>2, <1>3, <1>4, <1>5, <1>6 DEF Next, Parse

(* Every variable stays in its type: in particular no array of the details *)
(* is ever overrun and no list of users is longer than its 32 entries,     *)
(* whatever messages arrive in whatever order, of this library or not (any *)
(* size, tokens of any length at any offset), and whatever lies behind     *)
(* them.                                                                   *)
THEOREM ParseTypeCorrect == Spec => []TypeOK
BY TypeInit, TypeNext, PTL DEF Spec

-----------------------------------------------------------------------------
(* The token loop.                                                         *)

\* The loop has passed the first k tokens of the message, and stands at the
\* next one or, after the last, at or behind the end of the message.
Passed(k) == IF k < Len(msg.m.toks) THEN c = msg.m.offset[k + 1]
             ELSE msg.m.size <= c

\* The fields that the parser has nothing to do with.
Untouched == \A f \in Fields \ (p.takes \cup p.keeps) : det[f] = was[f]

\* What the details say of field f then: an array has what those tokens say,
\* and more only from behind the message.
First(f, k) == Contents(msg.m.toks, msg.no, f)[k]
Fitting(f, k) == AtMost(Len(First(f, k)), Limit(f))
ArrayAt(f, k) == /\ Fitting(f, k) <= Len(det[f])
                 /\ \A i \in 1..Fitting(f, k) : det[f][i] = First(f, k)[i]
                 /\ k < Len(msg.m.toks) \/ p.taken # 0 \/ ~Dirty =>
                      Len(det[f]) = Fitting(f, k)
TokenAt(f, k) == det[f] = IF First(f, k) # <<>> THEN First(f, k)
                          ELSE IF f \in p.clears THEN <<>> ELSE was[f]
FieldAt(f, k) == /\ f \in p.takes /\ Limit(f) > 1 => ArrayAt(f, k)
                 /\ f \in p.takes /\ Limit(f) = 1 => TokenAt(f, k)
                 /\ f \in p.keeps => det[f] = <<Part>>
                 /\ f \notin p.takes \cup p.keeps => det[f] = was[f]

\* After some of the tokens of the message.
Along == \E k \in 0..Len(msg.m.toks) :
           Passed(k) /\ \A f \in Fields : FieldAt(f, k)

LoopInv == /\ pc = "call" => det = was
           /\ pc = "loop" =>
                /\ p.walks /\ p.fixed <= msg.m.size - p.taken
                /\ given \/ p.null \notin {"error", "nothing"}
                /\ ret = "SUCCESS"
                /\ Untouched
                /\ WellFormed(msg.m) => Along

LEMMA ParserShape ==
  ASSUME NEW m \in Messages
  PROVE  /\ m.parser.taken \in {0, m.parser.skip}
         /\ m.parser.takes # {} => m.parser.walks
         /\ \A f \in m.parser.takes : Limit(f) > 1 => f \in m.parser.clears
         /\ m.parser.walks /\ m.parser.taken # m.parser.skip =>
              \A f \in m.parser.takes : Limit(f) > 1
         /\ m.parser.closed => m.parser.taken # m.parser.skip
         /\ m.parser.null \in {"error", "nothing", "at once", "with a token",
                               "none"}
<1>1. Parser(m.parser)
  BY DEF Shaped
<1>2. QED
  BY <1>1 DEF Parser

(* The tokens of a message lie one behind the other, up to its end.        *)
LEMMA Chain ==
  ASSUME NEW m \in Messages, WellFormed(m)
  PROVE  /\ m.parser.walks /\ Len(m.toks) = 0 =>
              m.size <= m.parser.skip + m.parser.fixed
         /\ Len(m.toks) > 0 => m.offset[1] = m.parser.skip + m.parser.fixed
         /\ \A j \in 1..Len(m.toks) :
              /\ m.toks[j] \in Tokens /\ m.toks[j].len \in Nat
              /\ m.offset[j] \in Nat
              /\ m.offset[j] + SizeofTLV + m.toks[j].len =
                   IF j = Len(m.toks) THEN m.size ELSE m.offset[j + 1]
         /\ \A i, j \in 1..Len(m.toks) :
              m.toks[i].type = m.toks[j].type /\ Limit(m.toks[i].type) = 1 => i = j
<1>1. WellFormed(m) /\ m.toks \in Seq(Tokens) /\ Len(m.toks) \in Nat
  BY MessageShape
<1>2. DOMAIN m.toks = 1..Len(m.toks)
  BY <1>1
<1>3. \A j \in 1..Len(m.toks) : m.toks[j] \in Tokens
  BY <1>1
<1>4. \A j \in 1..Len(m.toks) : m.toks[j].len \in Nat
  BY <1>3 DEF Tokens
<1>5. \A j \in 1..Len(m.toks) :
        /\ m.offset[j] = IF j = 1 THEN m.parser.skip + m.parser.fixed
                         ELSE m.offset[j - 1] + SizeofTLV + m.toks[j - 1].len
        /\ j = Len(m.toks) => m.offset[j] + SizeofTLV + m.toks[j].len = m.size
  BY <1>1, <1>2, Zenon DEF WellFormed
<1>6. m.parser.walks /\ Len(m.toks) = 0 => m.size <= m.parser.skip + m.parser.fixed
  <2>1. Len(m.toks) = 0 => m.toks = <<>>
    BY <1>1
  <2>2. QED
    BY <1>1, <2>1 DEF WellFormed
<1>7. \A j \in 1..Len(m.toks) :
        m.offset[j] + SizeofTLV + m.toks[j].len =
          IF j = Len(m.toks) THEN m.size ELSE m.offset[j + 1]
  <2> SUFFICES ASSUME NEW j \in 1..Len(m.toks), j # Len(m.toks)
               PROVE  m.offset[j] + SizeofTLV + m.toks[j].len = m.offset[j + 1]
    BY <1>5
  <2>1. j + 1 \in 1..Len(m.toks) /\ j + 1 # 1 /\ (j + 1) - 1 = j
    BY <1>1
  <2>2. QED
    BY <1>5, <2>1
<1>8. \A i, j \in 1..Len(m.toks) :
        m.toks[i].type = m.toks[j].type /\ Limit(m.toks[i].type) = 1 => i = j
  BY <1>1, <1>2 DEF WellFormed
<1>9. Len(m.toks) > 0 => m.offset[1] = m.parser.skip + m.parser.fixed
  BY <1>1, <1>5
<1>10. \A j \in 1..Len(m.toks) : m.offset[j] \in Nat
  BY MessageShape
<1>11. QED
  BY <1>3, <1>4, <1>6, <1>7, <1>8, <1>9, <1>10

LEMMA Ordered ==
  ASSUME NEW m \in Messages, WellFormed(m)
  PROVE  /\ \A i, j \in 1..Len(m.toks) : i < j => m.offset[i] < m.offset[j]
         /\ \A j \in 1..Len(m.toks) : m.offset[j] < m.size
<1> DEFINE L == Len(m.toks)
           off == m.offset
<1>1. L \in Nat /\ m.size \in Nat
  BY MessageShape
<1>2. \A j \in 1..L : off[j] \in Nat /\ off[j] < (IF j = L THEN m.size ELSE off[j + 1])
  <2> SUFFICES ASSUME NEW j \in 1..L
               PROVE  off[j] \in Nat
                      /\ off[j] < (IF j = L THEN m.size ELSE off[j + 1])
    OBVIOUS
  <2>1. /\ m.toks[j].len \in Nat /\ off[j] \in Nat
        /\ off[j] + 4 + m.toks[j].len = IF j = L THEN m.size ELSE off[j + 1]
    BY Chain DEF SizeofTLV
  <2>2. QED
    BY <2>1
<1> HIDE DEF L, off
<1>3. \A j \in 1..L : \A i \in 1..L : i < j => off[i] < off[j]
  <2> DEFINE Good(j) == \A i \in 1..L : i < j => off[i] < off[j]
             Bad == {j \in 1..L : ~Good(j)}
  <2>1. SUFFICES ASSUME Bad # {} PROVE FALSE
    OBVIOUS
  <2>2. Bad \in SUBSET Nat
    BY <1>1
  <2>3. PICK j \in Bad : \A h \in Bad : j <= h
    <3> HIDE DEF Bad
    <3> QED
      BY <2>1, <2>2, LeastExists
  <2>4. j \in 1..L /\ ~Good(j)
    OBVIOUS
  <2>5. PICK i \in 1..L : i < j /\ ~(off[i] < off[j])
    BY <2>4
  <2>6. j - 1 \in 1..L /\ j - 1 # L /\ (j - 1) + 1 = j
    BY <1>1, <2>4, <2>5
  <2>7. off[j - 1] < off[j] /\ off[j - 1] \in Nat /\ off[j] \in Nat
    BY <1>2, <2>4, <2>6
  <2>8. Good(j - 1)
    BY <1>1, <2>3, <2>4, <2>6
  <2>9. i # j - 1
    BY <2>5, <2>7
  <2>10. i < j - 1
    BY <1>1, <2>4, <2>5, <2>9
  <2>11. off[i] < off[j - 1] /\ off[i] \in Nat
    BY <1>2, <2>8, <2>10
  <2>12. QED
    BY <2>5, <2>7, <2>11
<1>4. ASSUME NEW j \in 1..L PROVE off[j] < m.size
  <2>1. L \in 1..L /\ off[L] < m.size /\ off[L] \in Nat /\ off[j] \in Nat
    BY <1>1, <1>2
  <2>2. j = L \/ off[j] < off[L]
    BY <1>1, <1>3, <2>1
  <2>3. QED
    BY <1>1, <2>1, <2>2
<1>5. QED
  BY <1>3, <1>4 DEF L, off

(* The size a body parser is given: no header is taken off that is not     *)
(* there.                                                                  *)
LEMMA RoomIs ==
  ASSUME TypeOK
  PROVE  /\ Room = msg.m.size - p.taken /\ Room \in Nat
         /\ p.taken \in Nat /\ p.skip \in Nat /\ p.fixed \in Nat
         /\ p.taken \in {0, p.skip}
         /\ msg.m.size \in Nat
         /\ End = p.skip + (msg.m.size - p.taken)
         /\ msg.m.size <= End
<1>1. msg.m \in Messages
  BY MsgFacts
<1>2. /\ msg.m.size \in Nat /\ p.taken \in Nat /\ p.skip \in Nat
      /\ p.fixed \in Nat /\ p.taken \in {0, p.skip}
  BY <1>1, MessageShape, ParserShape DEF p
<1>3. p.taken <= msg.m.size /\ msg.m.size < UintMod
  BY <1>1 DEF Shaped, p
<1> DEFINE a == msg.m.size - p.taken
<1>4. a \in Nat /\ a < UintMod /\ UintMod \in Nat
  BY <1>2, <1>3
<1>5. a % UintMod = a
  <2> HIDE DEF a
  <2> QED
    BY <1>4, ModSmall
<1>6. Room = a
  BY <1>5 DEF Room
<1>7. QED
  BY <1>2, <1>3, <1>4, <1>6 DEF End

(* Before the end of the message the loop finds the message's own tokens,  *)
(* whatever lay in the buffer before.                                      *)
LEMMA ReadOwn ==
  ASSUME TypeOK, WellFormed(msg.m),
         NEW k \in 0..Len(msg.m.toks), k < Len(msg.m.toks), Passed(k)
  PROVE  Read = {[from |-> msg.no, at |-> k + 1,
                  type |-> msg.m.toks[k + 1].type,
                  len |-> msg.m.toks[k + 1].len,
                  num |-> msg.m.toks[k + 1].num]}
<1> DEFINE m == msg.m
           L == Len(m.toks)
           js == {j \in DOMAIN m.toks : m.offset[j] = c}
<1>1. m \in Messages /\ msg = rx[Len(rx)] /\ Len(rx) # 0
  BY MsgFacts
<1>2. m.toks \in Seq(Tokens) /\ L \in Nat /\ DOMAIN m.toks = 1..L
  BY <1>1, MessageShape
<1>3. k + 1 \in 1..L /\ c = m.offset[k + 1]
  BY <1>2 DEF Passed
<1>4. c \in Nat /\ c < m.size
  <2>1. m.offset[k + 1] < m.size
    BY <1>1, <1>3, Ordered
  <2>2. QED
    BY <1>3, <2>1 DEF TypeOK
<1>5. Owner(c) = Len(rx) /\ rx[Owner(c)] = msg
  <2>1. c \in Int
    BY <1>4
  <2>2. Owner(c) = Len(rx)
    BY <1>4, <2>1, OwnerIs
  <2>3. QED
    BY <1>1, <2>2, Zenon
<1>6. js = {k + 1}
  <2>1. \A i \in 1..L : m.offset[i] = c => i = k + 1
    <3> SUFFICES ASSUME NEW i \in 1..L, m.offset[i] = c, i # k + 1 PROVE FALSE
      OBVIOUS
    <3>1. i < k + 1 \/ k + 1 < i
      BY <1>2, <1>3
    <3>2. m.offset[i] < m.offset[k + 1] \/ m.offset[k + 1] < m.offset[i]
      BY <1>1, <1>3, <3>1, Ordered
    <3>3. QED
      BY <1>3, <1>4, <3>2
  <2>2. QED
    BY <1>2, <1>3, <2>1
<1> HIDE DEF js
<1>7. Read = {[from |-> msg.no, at |-> j, type |-> m.toks[j].type,
               len |-> m.toks[j].len, num |-> m.toks[j].num] : j \in js}
  BY <1>1, <1>5, <1>6 DEF Read, js
<1>8. QED
  BY <1>6, <1>7

LEMMA FirstSteps ==
  ASSUME TypeOK, NEW f
  PROVE  /\ First(f, 0) = <<>>
         /\ \A k \in 1..Len(msg.m.toks) :
              First(f, k) = Further(First(f, k - 1), msg.m.toks, msg.no, f, k)
         /\ \A k \in 0..Len(msg.m.toks) : First(f, k) \in Seq(Entries)
         /\ \A k \in 0..Len(msg.m.toks) :
              (\A j \in 1..k : msg.m.toks[j].type # f) => First(f, k) = <<>>
         /\ Len(msg.m.toks) \in Nat
<1>1. msg.m \in Messages /\ msg.no \in 0..MaxMsgs
  BY MsgFacts
<1>2. msg.m.toks \in Seq(Tokens)
  BY <1>1, MessageShape
<1> DEFINE toks == msg.m.toks
           C == Contents(toks, msg.no, f)
<1>3. /\ C[0] = <<>>
      /\ \A k \in 1..Len(toks) : C[k] = Further(C[k - 1], toks, msg.no, f, k)
      /\ \A k \in 0..Len(toks) : C[k] \in Seq(Entries)
      /\ \A k \in 0..Len(toks) :
           (\A j \in 1..k : toks[j].type # f) => C[k] = <<>>
  BY <1>1, <1>2, ContentsSteps
<1>4. Len(toks) \in Nat
  BY <1>2
<1>5. \A k : First(f, k) = C[k]
  BY DEF First
<1> HIDE DEF C, toks
<1>6. QED
  BY <1>3, <1>4, <1>5 DEF toks

(* What goes further in the loop stays, but for the cursor and the         *)
(* details.                                                                *)
LEMMA SameCall ==
  ASSUME UNCHANGED <<rx, given, was>>
  PROVE  /\ msg' = msg /\ p' = p /\ Dirty' = Dirty /\ Part' = Part
         /\ \A f, k : First(f, k)' = First(f, k)
         /\ \A f, k : Fitting(f, k)' = Fitting(f, k)
<1>1. msg' = msg /\ Dirty' = Dirty
  BY DEF msg, Dirty
<1>2. p' = p
  BY <1>1 DEF p
<1>3. Part' = Part
  BY <1>2 DEF Part, PartAt, Owner
<1>4. \A f, k : First(f, k)' = First(f, k)
  BY <1>1 DEF First
<1>5. \A f, k : Fitting(f, k)' = Fitting(f, k)
  BY <1>4 DEF Fitting
<1>6. QED
  BY <1>1, <1>2, <1>3, <1>4, <1>5

\* What a turn over token t does to the details.
Taken(t) == IF t.type \in p.takes THEN Stored(t) ELSE det

(* A field that neither the turn nor the message's next token is about.    *)
LEMMA FieldStays ==
  ASSUME UNCHANGED <<rx, given, was>>, NEW f, NEW k, NEW h,
         FieldAt(f, k), det'[f] = det[f],
         f \in p.takes => First(f, h) = First(f, k),
         k < Len(msg.m.toks) \/ k = h
  PROVE  FieldAt(f, h)'
<1>1. /\ msg' = msg /\ p' = p /\ Dirty' = Dirty /\ Part' = Part
      /\ First(f, h)' = First(f, h) /\ Fitting(f, h)' = Fitting(f, h)
  BY SameCall
<1>2. f \in p.takes => Fitting(f, h) = Fitting(f, k)
  BY DEF Fitting
<1>3. ASSUME f \in p.takes, ArrayAt(f, k) PROVE ArrayAt(f, h)'
  BY <1>1, <1>2, <1>3 DEF ArrayAt
<1>4. ASSUME f \in p.takes, TokenAt(f, k) PROVE TokenAt(f, h)'
  BY <1>1, <1>4 DEF TokenAt
<1>5. QED
  BY <1>1, <1>3, <1>4 DEF FieldAt

(* The field of the message's next token.                                  *)
LEMMA FieldTakes ==
  ASSUME TypeOK, WellFormed(msg.m), UNCHANGED <<rx, given, was>>,
         NEW k \in 0..Len(msg.m.toks), k < Len(msg.m.toks),
         NEW t, t.from = msg.no, t.at = k + 1,
         t.type = msg.m.toks[k + 1].type,
         Arrives(t) = Arrives(msg.m.toks[k + 1]),
         t.type \in p.takes, det' = Stored(t), FieldAt(t.type, k)
  PROVE  FieldAt(t.type, k + 1)'
<1> DEFINE f == t.type
           e == Entry(t.from, t.at, Arrives(t))
           old == First(f, k)
           lim == Limit(f)
<1>1. /\ msg' = msg /\ p' = p /\ Dirty' = Dirty
      /\ First(f, k + 1)' = First(f, k + 1)
  BY SameCall
<1>2. f \in Fields /\ f \notin p.keeps
  <2>1. p.takes \subseteq TokenTypes /\ p.keeps \subseteq FixedParts
    BY MsgFacts, MessageShape DEF p
  <2>2. TokenTypes \cap FixedParts = {}
    BY DEF TokenTypes, FixedParts
  <2>3. QED
    BY <2>1, <2>2 DEF Fields
<1>3. k + 1 \in 1..Len(msg.m.toks) /\ k \in 0..Len(msg.m.toks) /\ (k + 1) - 1 = k
  BY FirstSteps
<1>4. /\ old \in Seq(Entries) /\ First(f, k + 1) = Append(old, e)
      /\ First(f, k + 1) \in Seq(Entries)
  <2>1. First(f, k + 1) = Further(old, msg.m.toks, msg.no, f, k + 1)
    BY <1>3, FirstSteps
  <2>2. First(f, k + 1) = Append(old, e)
    BY <2>1 DEF Further
  <2>3. k + 1 \in 0..Len(msg.m.toks)
    BY <1>3
  <2>4. First(f, k + 1) \in Seq(Entries) /\ old \in Seq(Entries)
    BY <1>3, <2>3, FirstSteps
  <2>5. QED
    BY <2>2, <2>4
<1>5. /\ det \in [Fields -> Seq(Entries)] /\ det[f] \in Seq(Entries)
      /\ Len(det[f]) <= lim /\ lim \in Nat \ {0}
  BY <1>2, Limits DEF TypeOK
<1>6. /\ lim = 1 => det'[f] = <<e>>
      /\ lim # 1 => det'[f] = IF Len(det[f]) < lim THEN Append(det[f], e)
                              ELSE det[f]
  BY <1>2, <1>5, StoredEffect
<1>7. CASE lim = 1
  <2>1. \A j \in 1..k : msg.m.toks[j].type # f
    <3>1. \A i, j \in 1..Len(msg.m.toks) :
            msg.m.toks[i].type = msg.m.toks[j].type
            /\ Limit(msg.m.toks[i].type) = 1 => i = j
      BY MsgFacts, Chain
    <3>2. \A j \in 1..k : j \in 1..Len(msg.m.toks) /\ j # k + 1
      BY <1>3
    <3>3. QED
      BY <1>3, <1>7, <3>1, <3>2
  <2>2. old = <<>>
    BY <1>3, <2>1, FirstSteps
  <2>3. First(f, k + 1) = <<e>>
    BY <1>4, <2>2
  <2>4. TokenAt(f, k + 1)'
    <3>1. First(f, k + 1)' = <<e>> /\ det'[f] = <<e>> /\ <<e>> # <<>>
      BY <1>1, <1>6, <1>7, <2>3
    <3> HIDE DEF e
    <3>2. QED
      BY <3>1 DEF TokenAt
  <2>5. QED
    BY <1>1, <1>2, <1>7, <2>4 DEF FieldAt
<1>8. CASE lim # 1
  <2>1. lim > 1
    BY <1>5, <1>8
  <2>2. ArrayAt(f, k)
    BY <2>1 DEF FieldAt
  <2> DEFINE w == Fitting(f, k)
             new == First(f, k + 1)
             v == Fitting(f, k + 1)
             d == det[f]
             g == det'[f]
  <2>3. /\ d \in Seq(Entries) /\ Len(d) = w /\ Len(d) <= lim /\ lim \in Nat
        /\ \A i \in 1..w : d[i] = old[i]
        /\ w = IF Len(old) <= lim THEN Len(old) ELSE lim
        /\ Len(old) \in Nat
    <3>1. Len(d) = w /\ \A i \in 1..w : d[i] = old[i]
      BY <2>2 DEF ArrayAt
    <3>2. w = IF Len(old) <= lim THEN Len(old) ELSE lim
      BY DEF Fitting, AtMost
    <3>3. Len(old) \in Nat
      BY <1>4
    <3>4. QED
      BY <1>5, <3>1, <3>2, <3>3
  <2>4. /\ new = Append(old, e) /\ Len(new) = Len(old) + 1
        /\ \A i \in 1..Len(old) : new[i] = old[i]
        /\ new[Len(old) + 1] = e
    <3>1. new = Append(old, e) /\ old \in Seq(Entries)
      BY <1>4
    <3> HIDE DEF new, old, e
    <3>2. QED
      BY <3>1, AppendAny
  <2>5. v = IF Len(new) <= lim THEN Len(new) ELSE lim
    BY DEF Fitting, AtMost
  <2>6. g = IF Len(d) < lim THEN Append(d, e) ELSE d
    BY <1>6, <1>8
  <2>7. v = Fitting(f, k + 1)'
    BY SameCall
  <2>8. e \in Entries
    <3>1. new \in Seq(Entries)
      BY <1>4
    <3> HIDE DEF new, old, e, d, w, lim
    <3>2. Len(old) + 1 \in 1..Len(new)
      BY <2>3, <2>4
    <3>3. new[Len(old) + 1] \in Entries
      BY <3>1, <3>2, SeqElement
    <3>4. QED
      BY <2>4, <3>3
  <2> HIDE DEF d, g, new, w, v, old, e, lim
  <2>9. Len(g) = v /\ \A i \in 1..v : g[i] = new[i]
    <3>1. CASE Len(d) < lim
      <4>1. Len(d) = Len(old) /\ v = Len(d) + 1
        BY <2>3, <2>4, <2>5, <3>1
      <4>2. /\ Len(g) = Len(d) + 1 /\ g[Len(d) + 1] = e
            /\ \A i \in 1..Len(d) : g[i] = d[i]
        BY <2>3, <2>6, <2>8, <3>1, AppendSeq
      <4>3. QED
        BY <2>3, <2>4, <4>1, <4>2
    <3>2. CASE ~(Len(d) < lim)
      <4>1. g = d /\ v = w /\ w <= Len(old)
        BY <2>3, <2>4, <2>5, <2>6, <3>2
      <4>2. QED
        BY <2>3, <2>4, <4>1
    <3>3. QED
      BY <3>1, <3>2
  <2>10. v \in Nat
    BY <2>3, <2>4, <2>5
  <2>11. ArrayAt(f, k + 1)'
    BY <1>1, <2>7, <2>9, <2>10 DEF ArrayAt, g, v, new
  <2>12. QED
    BY <1>1, <1>2, <1>8, <2>11 DEF FieldAt, lim
<1>9. QED
  BY <1>7, <1>8

LEMMA CleanIs == TypeOK /\ ~Dirty => Len(rx) = 1
<1> SUFFICES ASSUME TypeOK, ~Dirty PROVE Len(rx) = 1
  OBVIOUS
<1> DEFINE l == Len(rx)
<1>1. l \in Nat \ {0}
  BY MsgFacts
<1>2. ~(l > 1)
  BY DEF Dirty
<1> HIDE DEF l
<1>3. l = 1
  BY <1>1, <1>2
<1>4. QED
  BY <1>3 DEF l

(* Behind the end of the message the loop stores something only where the  *)
(* headers are not taken off the size, and then only in arrays.            *)
LEMMA FieldBehind ==
  ASSUME TypeOK, UNCHANGED <<rx, given, was>>, p.walks,
         msg.m.size <= c, c < End, NEW t \in Read,
         det' = Taken(t), NEW f \in Fields,
         NEW k, k = Len(msg.m.toks), FieldAt(f, k)
  PROVE  FieldAt(f, k)'
<1>1. /\ p.taken = 0 /\ p.taken # p.skip
  BY RoomIs DEF TypeOK
<1>2. CASE det'[f] = det[f]
  BY <1>2, FieldStays
<1>3. CASE det'[f] # det[f]
  <2>1. t.type \in p.takes /\ det' = Stored(t)
    BY <1>3 DEF Taken
  <2>2. p.takes \subseteq TokenTypes /\ p.keeps \subseteq FixedParts
    BY MsgFacts, MessageShape DEF p
  <2>3. t.type \in Fields /\ det \in [Fields -> Seq(Entries)]
    BY <2>1, <2>2 DEF Fields, TypeOK
  <2>4. f = t.type
    BY <1>3, <2>1, <2>3, StoredEffect
  <2>5. Limit(f) > 1
    <3>1. p.walks /\ p.taken # p.skip => \A h \in p.takes : Limit(h) > 1
      BY MsgFacts, ParserShape DEF p
    <3>2. QED
      BY <1>1, <2>1, <2>4, <3>1
  <2>6. f \notin p.keeps
    BY <2>1, <2>2, <2>4 DEF TokenTypes, FixedParts
  <2>7. Dirty
    <3> SUFFICES ASSUME ~Dirty PROVE FALSE
      OBVIOUS
    <3>1. Len(rx) = 1
      BY CleanIs
    <3>2. Owner(c) \in 0..1 /\ (Owner(c) # 0 => c < rx[Owner(c)].m.size)
      BY <3>1, OwnerIs DEF TypeOK
    <3>3. Owner(c) = 0
      <4>1. rx[1] = msg /\ msg.m.size \in Nat /\ c \in Nat
        BY <3>1, MsgFacts, RoomIs DEF TypeOK
      <4>2. Owner(c) = 1 => FALSE
        BY <3>2, <4>1
      <4>3. QED
        BY <3>2, <4>2
    <3>4. t = Zeros
      BY <3>3 DEF Read
    <3>5. t.type = "INVALID"
      BY <3>4 DEF Zeros
    <3>6. QED
      BY <2>1, <2>2, <3>5 DEF TokenTypes
  <2> DEFINE e == Entry(t.from, t.at, Arrives(t))
             d == det[f]
             g == det'[f]
             w == Fitting(f, k)
             s == First(f, k)
  <2>8. e \in Entries
    BY ReadType, ArrivesType DEF Entry, Entries
  <2>9. d \in Seq(Entries) /\ Len(d) \in Nat /\ g = Append(d, e)
    <3>1. g = IF Len(d) < Limit(f) THEN Append(d, e) ELSE d
      BY <2>1, <2>3, <2>4, <2>5, StoredEffect
    <3>2. QED
      BY <1>3, <2>3, <2>4, <3>1
  <2>10. w <= Len(d) /\ w \in Nat /\ \A i \in 1..w : d[i] = s[i]
    <3>1. ArrayAt(f, k)
      BY <2>1, <2>4, <2>5 DEF FieldAt
    <3>2. s \in Seq(Entries) /\ Limit(f) \in Nat
      <4>1. k \in 0..Len(msg.m.toks)
        BY FirstSteps
      <4>2. QED
        BY <4>1, FirstSteps, Limits
    <3>3. w \in Nat
      BY <3>2 DEF Fitting, AtMost
    <3>4. QED
      BY <3>1, <3>3 DEF ArrayAt
  <2> HIDE DEF d, g, e, w, s
  <2>11. w <= Len(g) /\ \A i \in 1..w : g[i] = s[i]
    <3>1. /\ Len(g) = Len(d) + 1
          /\ \A i \in 1..Len(d) : g[i] = d[i]
      BY <2>8, <2>9, AppendSeq
    <3>2. QED
      BY <2>9, <2>10, <3>1
  <2>12. /\ msg' = msg /\ p' = p /\ Dirty' = Dirty
         /\ First(f, k)' = First(f, k) /\ Fitting(f, k)' = Fitting(f, k)
    BY SameCall
  <2>13. ArrayAt(f, k)'
    BY <1>1, <2>7, <2>11, <2>12 DEF ArrayAt, g, w, s
  <2>14. QED
    BY <2>1, <2>4, <2>5, <2>6, <2>12, <2>13 DEF FieldAt
<1>4. QED
  BY <1>2, <1>3

(* When the loop is entered no token is passed, and the arrays are empty.  *)
LEMMA LoopEntry ==
  ASSUME TypeOK, LoopInv, Open, pc' = "loop"
  PROVE  LoopInv'
<1>1. pc = "call" /\ det = was /\ UNCHANGED <<rx, given, was>>
  BY DEF Open, LoopInv
<1>2. /\ given \/ p.null # "nothing"
      /\ det' = Opened /\ p.walks
  BY DEF Open
<1>3. /\ p.fixed <= msg.m.size - p.taken
      /\ given \/ p.null \notin {"error", "nothing"}
  <2>1. ~(Room < p.fixed) /\ ~(~given /\ p.null = "error")
    BY DEF Open, TooShort, NoDetailsGiven
  <2>2. QED
    BY <1>2, <2>1, RoomIs
<1>4. /\ msg' = msg /\ p' = p /\ Part' = Part
      /\ \A f : First(f, 0)' = First(f, 0) /\ Fitting(f, 0)' = Fitting(f, 0)
  BY <1>1, SameCall
<1>5. ASSUME WellFormed(msg.m) PROVE Passed(0)'
  <2>1. c' = p.skip + p.fixed
    BY DEF Open
  <2>2. /\ Len(msg.m.toks) = 0 => msg.m.size <= p.skip + p.fixed
        /\ Len(msg.m.toks) > 0 => msg.m.offset[1] = p.skip + p.fixed
    BY <1>2, <1>5, MsgFacts, Chain DEF p
  <2>3. Len(msg.m.toks) \in Nat
    BY FirstSteps
  <2>4. QED
    BY <1>4, <2>1, <2>2, <2>3 DEF Passed
<1>6. ASSUME NEW f \in Fields PROVE FieldAt(f, 0)'
  <2>1. First(f, 0) = <<>>
    BY FirstSteps
  <2>2. Fitting(f, 0) = 0
    BY <2>1, Limits DEF Fitting, AtMost
  <2>3. det'[f] = IF f \in p.keeps THEN <<Part>>
                  ELSE IF f \in p.clears THEN <<>> ELSE was[f]
    BY <1>1, <1>2 DEF Opened
  <2>4. /\ p.takes \subseteq TokenTypes /\ p.keeps \subseteq FixedParts
        /\ p.clears \subseteq p.takes
        /\ \A h \in p.takes : Limit(h) > 1 => h \in p.clears
    BY MsgFacts, MessageShape, ParserShape DEF p
  <2>5. f \in p.takes => f \notin p.keeps
    BY <2>4 DEF TokenTypes, FixedParts
  <2>6. f \in p.takes /\ Limit(f) > 1 => ArrayAt(f, 0)'
    <3> SUFFICES ASSUME f \in p.takes, Limit(f) > 1 PROVE ArrayAt(f, 0)'
      OBVIOUS
    <3>1. det'[f] = <<>>
      BY <2>3, <2>4, <2>5
    <3>2. Len(det'[f]) = 0 /\ Fitting(f, 0)' = 0
      BY <1>4, <2>2, <3>1
    <3>3. QED
      BY <3>2 DEF ArrayAt
  <2>7. f \in p.takes => TokenAt(f, 0)'
    BY <1>1, <1>4, <2>1, <2>3, <2>5 DEF TokenAt
  <2>8. QED
    BY <1>1, <1>4, <2>3, <2>4, <2>6, <2>7 DEF FieldAt
<1>7. 0 \in 0..Len(msg.m.toks)'
  BY <1>4, FirstSteps
<1>8. given' = given /\ ret' = "SUCCESS"
  BY <1>1 DEF Open
<1>9. WellFormed(msg.m) => Along'
  BY <1>5, <1>6, <1>7 DEF Along
<1>10. Untouched'
  BY <1>1, <1>4, <1>6 DEF FieldAt, Untouched
<1>11. QED
  BY <1>2, <1>3, <1>4, <1>8, <1>9, <1>10 DEF LoopInv

(* A turn of the loop: the next token of the message or, when there is     *)
(* none, something behind it.                                              *)
LEMMA LoopTurn ==
  ASSUME TypeOK, LoopInv, NEW t \in Read, Turn(t)
  PROVE  LoopInv'
<1>1. /\ pc = "loop" /\ pc' = "loop" /\ c < End /\ c' = Step(t)
      /\ UNCHANGED <<rx, given, was, ret>>
  BY DEF Turn
<1>2. det' = Taken(t)
  BY DEF Turn, Taken
<1>3. /\ p.walks /\ p.fixed <= msg.m.size - p.taken
      /\ given \/ p.null \notin {"error", "nothing"}
      /\ ret = "SUCCESS"
  BY <1>1 DEF LoopInv
<1>4. msg' = msg /\ p' = p
  BY <1>1, SameCall
<1>5. Len(msg.m.toks) \in Nat /\ c \in Nat /\ t.len \in Nat
  BY FirstSteps, ReadType DEF TypeOK
<1>6. Untouched'
  <2>1. ASSUME NEW f \in Fields, f \notin p.takes PROVE det'[f] = det[f]
    <3>1. CASE t.type \in p.takes
      <4>1. t.type \in Fields /\ det \in [Fields -> Seq(Entries)]
        BY <3>1, MsgFacts, MessageShape DEF p, Fields, TypeOK
      <4>2. QED
        BY <1>2, <2>1, <3>1, <4>1, StoredEffect DEF Taken
    <3>2. CASE t.type \notin p.takes
      BY <1>2, <3>2 DEF Taken
    <3>3. QED
      BY <3>1, <3>2
  <2>2. Untouched
    BY <1>1 DEF LoopInv
  <2>3. QED
    BY <1>1, <1>4, <2>1, <2>2 DEF Untouched
<1>7. ASSUME WellFormed(msg.m) PROVE Along'
  <2> PICK k \in 0..Len(msg.m.toks) :
         Passed(k) /\ \A f \in Fields : FieldAt(f, k)
    BY <1>1, <1>7 DEF LoopInv, Along
  <2>1. CASE k < Len(msg.m.toks)
    <3>1. /\ t.from = msg.no /\ t.at = k + 1
          /\ t.type = msg.m.toks[k + 1].type /\ t.len = msg.m.toks[k + 1].len
          /\ t.num = msg.m.toks[k + 1].num
      BY <1>7, <2>1, ReadOwn
    <3>2. k + 1 \in 1..Len(msg.m.toks) /\ k + 1 \in 0..Len(msg.m.toks)
          /\ (k + 1) - 1 = k
      BY <1>5, <2>1
    <3>3. Passed(k + 1)'
      <4>1. c = msg.m.offset[k + 1]
        BY <2>1 DEF Passed
      <4>2. msg.m.offset[k + 1] + SizeofTLV + msg.m.toks[k + 1].len =
              IF k + 1 = Len(msg.m.toks) THEN msg.m.size
              ELSE msg.m.offset[(k + 1) + 1]
        BY <1>7, <3>2, MsgFacts, Chain
      <4>3. c' = IF k + 1 = Len(msg.m.toks) THEN msg.m.size
                 ELSE msg.m.offset[(k + 1) + 1]
        BY <1>1, <3>1, <4>1, <4>2 DEF Step
      <4>4. msg.m.size \in Nat
        BY RoomIs
      <4>5. QED
        BY <1>4, <1>5, <3>2, <4>3, <4>4 DEF Passed
    <3>4. ASSUME NEW f \in Fields PROVE FieldAt(f, k + 1)'
      <4>1. FieldAt(f, k)
        OBVIOUS
      <4>2. CASE f = t.type /\ t.type \in p.takes
        <5>1. det' = Stored(t)
          BY <1>2, <4>2 DEF Taken
        <5>2. Arrives(t) = Arrives(msg.m.toks[k + 1])
          BY <3>1 DEF Arrives
        <5>3. QED
          BY <1>1, <1>7, <2>1, <3>1, <4>1, <4>2, <5>1, <5>2, FieldTakes
      <4>3. CASE ~(f = t.type /\ t.type \in p.takes)
        <5>1. det'[f] = det[f]
          <6>1. CASE t.type \in p.takes
            <7>1. t.type \in Fields /\ det \in [Fields -> Seq(Entries)]
              BY <6>1, MsgFacts, MessageShape DEF p, Fields, TypeOK
            <7>2. QED
              BY <1>2, <4>3, <6>1, <7>1, StoredEffect DEF Taken
          <6>2. CASE t.type \notin p.takes
            BY <1>2, <6>2 DEF Taken
          <6>3. QED
            BY <6>1, <6>2
        <5>2. f \in p.takes => First(f, k + 1) = First(f, k)
          <6>1. First(f, k + 1) =
                  Further(First(f, k), msg.m.toks, msg.no, f, k + 1)
            BY <3>2, FirstSteps
          <6>2. QED
            BY <3>1, <4>3, <6>1 DEF Further
        <5>3. QED
          BY <1>1, <2>1, <4>1, <5>1, <5>2, FieldStays
      <4>4. QED
        BY <4>2, <4>3
    <3>5. k + 1 \in 0..Len(msg'.m.toks)
      BY <1>4, <3>2
    <3>6. QED
      BY <3>3, <3>4, <3>5 DEF Along
  <2>2. CASE ~(k < Len(msg.m.toks))
    <3>1. k = Len(msg.m.toks)
      BY <1>5, <2>2
    <3>2. msg.m.size <= c
      BY <2>2 DEF Passed
    <3>3. Passed(k)'
      <4>1. c' = c + 4 + t.len
        BY <1>1 DEF Step, SizeofTLV
      <4>2. msg.m.size \in Nat
        BY RoomIs
      <4>3. msg.m.size <= c'
        BY <1>5, <3>2, <4>1, <4>2
      <4>4. QED
        BY <1>4, <2>2, <4>3 DEF Passed
    <3>4. ASSUME NEW f \in Fields PROVE FieldAt(f, k)'
      <4>1. FieldAt(f, k)
        OBVIOUS
      <4>2. QED
        BY <1>1, <1>2, <1>3, <3>1, <3>2, <4>1, FieldBehind
    <3>5. k \in 0..Len(msg'.m.toks)
      BY <1>4
    <3>6. QED
      BY <3>3, <3>4, <3>5 DEF Along
  <2>3. QED
    BY <2>1, <2>2
<1>8. QED
  BY <1>1, <1>3, <1>4, <1>6, <1>7 DEF LoopInv

LEMMA LoopInit == Init => LoopInv
BY DEF Init, LoopInv

LEMMA LoopNext == TypeOK /\ LoopInv /\ [Next]_vars => LoopInv'
<1> SUFFICES ASSUME TypeOK, LoopInv, [Next]_vars PROVE LoopInv'
  OBVIOUS
<1>1. ASSUME NEW m \in Messages, NEW zb \in BOOLEAN, NEW zd \in BOOLEAN,
             Receive(m, zb, zd)
      PROVE  LoopInv'
  <2>1. pc' = "call" /\ det' = was'
    BY <1>1 DEF Receive
  <2>2. QED
    BY <2>1 DEF LoopInv
<1>2. CASE Refuse \/ CrashAtOnce \/ Leave \/ (\E t \in Read : CrashAtToken(t))
           \/ (Open /\ pc' # "loop")
  <2>1. pc' \in {"done", "crash"}
    BY <1>2 DEF Refuse, CrashAtOnce, Leave, CrashAtToken, Open
  <2>2. QED
    BY <2>1 DEF LoopInv
<1>3. CASE Open /\ pc' = "loop"
  BY <1>3, LoopEntry
<1>4. ASSUME NEW t \in Read, Turn(t) PROVE LoopInv'
  BY <1>4, LoopTurn
<1>5. CASE UNCHANGED vars
  <2>1. UNCHANGED <<rx, given, was, c, det, pc, ret>>
    BY <1>5 DEF vars
  <2>2. msg' = msg /\ p' = p
    BY <2>1, SameCall
  <2>3. ASSUME NEW k, NEW f, FieldAt(f, k) PROVE FieldAt(f, k)'
    BY <2>1, <2>3, FieldStays
  <2>4. \A k : Passed(k) => Passed(k)'
    BY <2>1, <2>2 DEF Passed
  <2>5. (Along => Along') /\ (Untouched => Untouched')
    BY <2>1, <2>2, <2>3, <2>4 DEF Along, Untouched
  <2>6. QED
    BY <2>1, <2>2, <2>5 DEF LoopInv
<1>6. QED
  BY <1>1, <1>2, <1>3, <1>4, <1>5 DEF Next, Parse

-----------------------------------------------------------------------------
(* The refinement of EpDetails.                                            *)

LEMMA SubSeqSame ==
  ASSUME NEW S, NEW a \in Seq(S), NEW b \in Seq(S), NEW w \in Nat,
         w <= Len(a), w <= Len(b), \A i \in 1..w : a[i] = b[i]
  PROVE  /\ SubSeq(a, 1, w) = SubSeq(b, 1, w)
         /\ Len(SubSeq(b, 1, w)) = w
<1>1. /\ SubSeq(a, 1, w) \in Seq(S) /\ Len(SubSeq(a, 1, w)) = w
      /\ \A i \in 1..w : SubSeq(a, 1, w)[i] = a[i]
  OBVIOUS
<1>2. /\ SubSeq(b, 1, w) \in Seq(S) /\ Len(SubSeq(b, 1, w)) = w
      /\ \A i \in 1..w : SubSeq(b, 1, w)[i] = b[i]
  OBVIOUS
<1>3. QED
  BY <1>1, <1>2

LEMMA SameParser == Details!p = p
BY DEF Details!p, p

(* EpDetails has copies of the operators of EpParsers; they are the same.   *)
LEMMA SameLimits ==
  /\ \A a, b : Details!AtMost(a, b) = AtMost(a, b)
  /\ \A f : Details!Limit(f) = Limit(f)
  /\ Details!Fields = Fields
  /\ Details!NoDetails = NoDetails
<1>1. \A a, b : Details!AtMost(a, b) = AtMost(a, b)
  BY DEF Details!AtMost, AtMost
<1>2. \A f : Details!Limit(f) = Limit(f)
  BY Zenon DEF Details!Limit, Limit, Details!EP_ECAP_CELL_MAX, EP_ECAP_CELL_MAX,
               Details!EP_UE_RRC_MEAS_MAX, EP_UE_RRC_MEAS_MAX
<1>3. Details!Fields = Fields
  BY Zenon DEF Details!Fields, Fields, Details!TokenTypes, TokenTypes,
               Details!FixedParts, FixedParts
<1>4. Details!NoDetails = NoDetails
  BY <1>3, Zenon DEF Details!NoDetails, NoDetails
<1>5. QED
  BY <1>1, <1>2, <1>3, <1>4

LEMMA SameContents ==
  ASSUME NEW toks, NEW no, NEW type
  PROVE  Details!Contents(toks, no, type) = Contents(toks, no, type)
<1>1. \A from, at, num : Details!Entry(from, at, num) = Entry(from, at, num)
  BY Zenon DEF Details!Entry, Entry
<1>2. \A t : Details!Arrives(t) = Arrives(t)
  <2>1. /\ Details!U16 = U16 /\ Details!SizeofRnti = SizeofRnti
        /\ Details!EP_RAN_USERS_MAX = EP_RAN_USERS_MAX
    BY DEF Details!EP_RAN_USERS_MAX, EP_RAN_USERS_MAX, Details!U16, U16,
           Details!SizeofRnti, SizeofRnti
  <2>2. QED
    BY <2>1, SameLimits DEF Details!Arrives, Arrives
<1>3. \A seen, k : Details!Further(seen, toks, no, type, k) =
                     Further(seen, toks, no, type, k)
  BY <1>1, <1>2, Zenon DEF Details!Further, Further
<1>4. QED
  BY <1>3 DEF Details!Contents, Contents

LEMMA SameWellFormed ==
  ASSUME NEW m
  PROVE  Details!WellFormed(m) = WellFormed(m)
<1>1. /\ Details!TokenTypes = TokenTypes /\ Details!FixedParts = FixedParts
      /\ Details!SizeofTLV = SizeofTLV
      /\ Details!EP_ECAP_CELL_MAX = EP_ECAP_CELL_MAX
  BY Zenon DEF Details!TokenTypes, TokenTypes, Details!FixedParts, FixedParts,
               Details!SizeofTLV, SizeofTLV,
               Details!EP_ECAP_CELL_MAX, EP_ECAP_CELL_MAX
<1>2. Details!Tokens = Tokens
  BY <1>1, Zenon DEF Details!Tokens, Tokens
<1>3. \A f : Details!Limit(f) = Limit(f)
  BY SameLimits
<1>4. \A q : Details!Parser(q) = Parser(q)
  BY <1>1, <1>3, Zenon DEF Details!Parser, Parser
<1>5. Details!Shaped(m) = Shaped(m)
  BY <1>2, <1>4, Zenon DEF Details!Shaped, Shaped
<1>6. QED
  BY <1>1, <1>3, <1>5, Zenon DEF Details!WellFormed, WellFormed

LEMMA OwnIs ==
  ASSUME NEW f
  PROVE  Details!Own(f) = First(f, Len(msg.m.toks))
BY SameContents DEF Details!Own, First

(* The loop is not left before the last token of the message: a token that *)
(* ends with the message does not reach beyond the loop's bound.           *)
LEMMA LeaveAtEnd ==
  ASSUME TypeOK, WellFormed(msg.m), Leave,
         NEW k \in 0..Len(msg.m.toks), Passed(k)
  PROVE  k = Len(msg.m.toks)
<1> DEFINE L == Len(msg.m.toks)
<1>1. L \in Nat /\ c \in Nat /\ msg.m \in Messages
  BY FirstSteps, MsgFacts DEF TypeOK
<1> SUFFICES ASSUME k < L PROVE FALSE
  BY <1>1
<1>2. k + 1 \in 1..L /\ c = msg.m.offset[k + 1]
  BY <1>1 DEF Passed
<1>3. /\ c < msg.m.size
      /\ msg.m.toks[k + 1].len \in Nat
      /\ c + SizeofTLV + msg.m.toks[k + 1].len <= msg.m.size
  <2>1. c + SizeofTLV + msg.m.toks[k + 1].len =
          IF k + 1 = L THEN msg.m.size ELSE msg.m.offset[(k + 1) + 1]
    BY <1>1, <1>2, Chain
  <2>2. msg.m.size \in Nat
    BY RoomIs
  <2>3. k + 1 # L => /\ (k + 1) + 1 \in 1..L
                     /\ msg.m.offset[(k + 1) + 1] < msg.m.size
                     /\ msg.m.offset[(k + 1) + 1] \in Nat
    <3> SUFFICES ASSUME k + 1 # L
                 PROVE  /\ (k + 1) + 1 \in 1..L
                        /\ msg.m.offset[(k + 1) + 1] < msg.m.size
                        /\ msg.m.offset[(k + 1) + 1] \in Nat
      OBVIOUS
    <3>1. (k + 1) + 1 \in 1..L
      BY <1>1, <1>2
    <3>2. QED
      BY <1>1, <3>1, Ordered, Chain
  <2>4. c < msg.m.size /\ msg.m.toks[k + 1].len \in Nat
    BY <1>1, <1>2, Ordered, Chain
  <2>5. QED
    BY <2>1, <2>2, <2>3, <2>4
<1>4. msg.m.size <= End /\ msg.m.size \in Nat /\ End \in Int
  BY RoomIs
<1>5. c < End
  BY <1>1, <1>3, <1>4
<1>6. PICK t \in Read : Beyond(t)
  BY <1>5 DEF Leave
<1>7. t.len = msg.m.toks[k + 1].len
  BY <1>6, ReadOwn
<1>8. p.closed => msg.m.size < End
  <2>1. p.closed => p.taken # p.skip
    BY <1>1, ParserShape DEF p
  <2>2. p.closed => p.taken = 0 /\ p.skip > 0
    BY <2>1, RoomIs
  <2>3. QED
    BY <2>2, RoomIs
<1>9. ~Beyond(t)
  BY <1>1, <1>3, <1>4, <1>7, <1>8 DEF Beyond, SizeofTLV
<1>10. QED
  BY <1>6, <1>9

LEMMA PartIs ==
  ASSUME TypeOK, WellFormed(msg.m), p.keeps # {},
         p.fixed <= msg.m.size - p.taken, msg.m.whole
  PROVE  Part = Entry(msg.no, 0, 0)
<1>1. /\ msg.m \in Messages /\ msg = rx[Len(rx)]
      /\ Len(rx) \in Nat \ {0}
  BY MsgFacts
<1>2. /\ p.skip \in Nat /\ p.taken \in Nat /\ p.fixed \in Nat
      /\ msg.m.size \in Nat
  BY RoomIs
<1>3. p.skip < msg.m.size
  <2>1. /\ msg.m.parser.keeps # {} /\ msg.m.whole
        /\ msg.m.parser.taken + msg.m.parser.fixed <= msg.m.size
    BY <1>2 DEF p
  <2>2. QED
    BY <2>1 DEF WellFormed, p
<1>4. Owner(PartAt) = Len(rx) /\ Len(rx) # 0
  <2>1. PartAt \in Int /\ PartAt < msg.m.size
    BY <1>2, <1>3 DEF PartAt, SizeofInterval
  <2>2. QED
    BY <1>1, <2>1, OwnerIs
<1>5. QED
  BY <1>1, <1>4 DEF Part

(* What the details hold at the end is what EpDetails says.                *)
LEMMA FieldIsTaken ==
  ASSUME TypeOK, WellFormed(msg.m), NEW f \in Fields, FieldAt(f, Len(msg.m.toks)),
         p.fixed <= msg.m.size - p.taken
  PROVE  Details!FieldTaken(f, was[f], det[f])
<1> DEFINE k == Len(msg.m.toks)
           own == First(f, k)
           w == Fitting(f, k)
           d == det[f]
<1>1. /\ own \in Seq(Entries) /\ d \in Seq(Entries) /\ Len(d) <= Limit(f)
      /\ Limit(f) \in Nat \ {0}
  <2>1. k \in 0..Len(msg.m.toks)
    BY FirstSteps
  <2>2. QED
    BY <2>1, FirstSteps, Limits DEF TypeOK
<1>2. Details!Own(f) = own
  BY OwnIs
<1>3. w = AtMost(Len(own), Limit(f)) /\ w \in Nat /\ w <= Len(own)
  BY <1>1 DEF Fitting, AtMost
<1>4. ASSUME f \in p.takes, Limit(f) > 1 PROVE Details!ArrayTaken(f, d)
  <2>1. ArrayAt(f, k)
    BY <1>4 DEF FieldAt
  <2>2. /\ w <= Len(d) /\ \A i \in 1..w : d[i] = own[i]
        /\ p.taken # 0 \/ ~Dirty => Len(d) = w
    BY <2>1 DEF ArrayAt
  <2>3. Len(d) \in Nat
    BY <1>1
  <2> HIDE DEF own, w, d
  <2>4. /\ SubSeq(d, 1, w) = SubSeq(own, 1, w)
        /\ Len(SubSeq(own, 1, w)) = w
    BY <1>1, <1>3, <2>2, SubSeqSame
  <2>5. Details!p = p
    BY SameParser
  <2>6. QED
    BY <1>1, <1>2, <1>3, <2>2, <2>3, <2>4, <2>5, SameLimits
       DEF Details!ArrayTaken
<1>5. ASSUME f \in p.takes, Limit(f) = 1 PROVE Details!TokenTaken(f, was[f], d)
  BY <1>2, <1>5, SameParser DEF FieldAt, TokenAt, Details!TokenTaken
<1>6. ASSUME f \in p.keeps PROVE Details!PartTaken(f, d)
  <2>1. d = <<Part>>
    BY <1>6 DEF FieldAt
  <2>2. msg.m.whole => Part = Entry(msg.no, 0, 0)
    BY <1>6, PartIs
  <2>3. Len(d) = 1 /\ (msg.m.whole => d = <<Entry(msg.no, 0, 0)>>)
    BY <2>1, <2>2
  <2>4. QED
    BY <2>3 DEF Details!PartTaken, Details!Entry, Entry
<1>7. QED
  BY <1>4, <1>5, <1>6, SameParser, SameLimits DEF Details!FieldTaken

LEMMA DetailsInit == Init => Details!Init
<1> SUFFICES ASSUME Init PROVE Details!Init
  OBVIOUS
<1>1. /\ rx = <<[m |-> CHOOSE m \in Messages : TRUE, no |-> 0]>>
      /\ given = TRUE /\ det = NoDetails /\ pc = "done" /\ ret = "SUCCESS"
  BY DEF Init
<1>2. Len(rx) = 1 /\ rx[1] = [m |-> CHOOSE m \in Messages : TRUE, no |-> 0]
  BY <1>1
<1>3. msg = [m |-> CHOOSE m \in Messages : TRUE, no |-> 0] /\ Dirty = FALSE
  BY <1>2 DEF msg, Dirty
<1>4. Shown = NoDetails /\ Returned = "SUCCESS"
  BY <1>1 DEF Shown, Returned
<1>5. QED
  BY <1>1, <1>3, <1>4, SameLimits DEF Details!Init

LEMMA DetailsReceive ==
  ASSUME TypeOK, NEW m \in Messages, NEW zb \in BOOLEAN, NEW zd \in BOOLEAN,
         Receive(m, zb, zd)
  PROVE  Details!Arrive
<1> DEFINE r == [m |-> m, no |-> msg.no + 1]
<1>1. /\ pc = "done" /\ pc' = "call"
      /\ rx' = IF zb \/ msg.no = 0 THEN <<r>> ELSE Append(rx, r)
      /\ given' \in BOOLEAN
      /\ was' = IF zd THEN NoDetails ELSE det
      /\ msg.no < MaxMsgs
  BY DEF Receive
<1>2. msg.no \in 0..MaxMsgs /\ r \in Received
  <2>1. msg.no \in 0..MaxMsgs
    BY MsgFacts
  <2>2. msg.no + 1 \in 0..MaxMsgs
    BY <1>1, <2>1, BoundsAssumption
  <2>3. QED
    BY <2>1, <2>2 DEF Received
<1> HIDE DEF r
<1>3. msg' = r
  <2>1. CASE rx' = <<r>>
    BY <1>2, <2>1, OneSeq DEF msg
  <2>2. CASE rx' = Append(rx, r)
    <3>1. /\ Len(Append(rx, r)) = Len(rx) + 1
          /\ Append(rx, r)[Len(rx) + 1] = r
      BY <1>2 DEF TypeOK
    <3>2. QED
      BY <2>2, <3>1 DEF msg
  <2>3. QED
    BY <1>1, <2>1, <2>2
<1>4. msg'.m \in Messages /\ msg'.no = msg.no + 1
  BY <1>3 DEF r
<1>5. Dirty' \in BOOLEAN
  BY DEF Dirty
<1>6. Shown = det /\ Shown' = was' /\ Returned = ret /\ Returned' = "NONE"
  BY <1>1 DEF Shown, Returned
<1>7. Returned # "NONE"
  BY <1>6 DEF TypeOK
<1>8. Shown' \in {Shown, Details!NoDetails}
  BY <1>1, <1>6, SameLimits
<1>9. QED
  BY <1>1, <1>4, <1>5, <1>6, <1>7, <1>8 DEF Details!Arrive

\* A call that returns, with nothing new read and nothing else of it seen.
LEMMA SameMessage ==
  ASSUME UNCHANGED <<rx, given, was>>, pc \in {"call", "loop"}
  PROVE  /\ UNCHANGED <<msg, given, Dirty>>
         /\ Returned = "NONE" /\ Shown = was
         /\ pc' \in {"call", "loop"} => Returned' = "NONE" /\ Shown' = was
         /\ pc' = "crash" => Returned' = "CRASH" /\ Shown' = was
         /\ pc' = "done" => Returned' = ret' /\ Shown' = det'
BY SameCall DEF Returned, Shown

LEMMA WholeIs ==
  ASSUME TypeOK
  PROVE  Details!Whole <=> ~TooShort
BY RoomIs, SameParser DEF Details!Whole, TooShort

LEMMA DetailsRefuse ==
  ASSUME TypeOK, LoopInv, Refuse
  PROVE  Details!Refuse
<1>1. /\ pc = "call" /\ pc' = "done" /\ ret' = "ERROR"
      /\ NoDetailsGiven \/ TooShort
      /\ UNCHANGED <<rx, given, det, was>>
  BY DEF Refuse
<1>2. /\ UNCHANGED <<msg, given, Dirty>> /\ Returned = "NONE" /\ Shown = was
      /\ Returned' = "ERROR" /\ Shown' = det
  BY <1>1, SameMessage
<1>3. det = was
  BY <1>1 DEF LoopInv
<1>4. ~Details!Whole \/ (~given /\ Details!p.null = "error")
  BY <1>1, WholeIs, SameParser DEF NoDetailsGiven
<1>5. QED
  BY <1>2, <1>3, <1>4 DEF Details!Refuse

LEMMA DetailsCrash ==
  ASSUME CrashAtOnce \/ \E t \in Read : CrashAtToken(t)
  PROVE  Details!Crash
<1>1. /\ pc \in {"call", "loop"} /\ pc' = "crash"
      /\ ~given /\ p.null \in {"at once", "with a token"}
      /\ UNCHANGED <<rx, given, was>>
  BY DEF CrashAtOnce, CrashAtToken
<1>2. /\ UNCHANGED <<msg, given, Dirty>> /\ Returned = "NONE" /\ Shown = was
      /\ Returned' = "CRASH" /\ Shown' = was
  BY <1>1, SameMessage
<1>3. QED
  BY <1>1, <1>2, SameParser DEF Details!Crash

(* The end of a call in which the details are filled: where each of them   *)
(* is as EpDetails has it, it is a step of EpDetails.                      *)
LEMMA DetailsTaken ==
  ASSUME TypeOK', Shown = was, Shown' = det',
         \A f \in Fields \ (p.takes \cup p.keeps) : det'[f] = was[f],
         WellFormed(msg.m) =>
           \A f \in Fields : Details!FieldTaken(f, was[f], det'[f])
  PROVE  Details!Takes
<1>1. \A f \in Fields : Len(det'[f]) <= Limit(f)
  BY DEF TypeOK
<1>2. /\ Details!p = p /\ Details!Fields = Fields
      /\ Details!WellFormed(msg.m) = WellFormed(msg.m)
      /\ \A f : Details!Limit(f) = Limit(f)
  BY SameParser, SameLimits, SameWellFormed
<1>3. QED
  BY <1>1, <1>2, Zenon DEF Details!Takes

LEMMA DetailsOpen ==
  ASSUME TypeOK, TypeOK', LoopInv, Open, pc' = "done"
  PROVE  Details!Take
<1>1. /\ pc = "call" /\ det = was /\ UNCHANGED <<rx, given, was>>
      /\ ~NoDetailsGiven /\ ~TooShort /\ ret' = "SUCCESS"
  BY DEF Open, LoopInv
<1>2. /\ UNCHANGED <<msg, given, Dirty>> /\ Returned = "NONE" /\ Shown = was
      /\ Returned' = "SUCCESS" /\ Shown' = det'
  BY <1>1, SameMessage
<1>3. Details!Whole
  BY <1>1, WholeIs
<1>4. CASE given \/ p.null # "nothing"
  <2>1. det' = Opened /\ ~p.walks
    BY <1>4 DEF Open
  <2>2. p.takes = {} /\ p.clears = {}
    BY <2>1, MsgFacts, MessageShape, ParserShape DEF p
  <2>3. ASSUME NEW f \in Fields
        PROVE  /\ WellFormed(msg.m) => Details!FieldTaken(f, was[f], det'[f])
               /\ f \notin p.keeps => det'[f] = was[f]
    <3>1. det'[f] = IF f \in p.keeps THEN <<Part>> ELSE was[f]
      BY <1>1, <2>1, <2>2 DEF Opened
    <3>2. ASSUME WellFormed(msg.m), f \in p.keeps
          PROVE  Details!PartTaken(f, det'[f])
      <4>1. p.fixed <= msg.m.size - p.taken
        BY <1>1, RoomIs DEF TooShort
      <4>2. msg.m.whole => Part = Entry(msg.no, 0, 0)
        BY <3>2, <4>1, PartIs
      <4>3. Len(det'[f]) = 1 /\ (msg.m.whole => det'[f] = <<Entry(msg.no, 0, 0)>>)
        BY <3>1, <3>2, <4>2
      <4>4. QED
        BY <4>3 DEF Details!PartTaken, Details!Entry, Entry
    <3>3. WellFormed(msg.m) => Details!FieldTaken(f, was[f], det'[f])
      BY <2>2, <3>2, SameParser DEF Details!FieldTaken
    <3>4. QED
      BY <3>1, <3>3
  <2>4. Details!Takes
    BY <1>2, <2>2, <2>3, DetailsTaken
  <2>5. given \/ p.null \notin {"error", "nothing"}
    BY <1>1, <1>4 DEF NoDetailsGiven
  <2>6. QED
    BY <1>2, <1>3, <2>4, <2>5, SameParser DEF Details!Take
<1>5. CASE ~(given \/ p.null # "nothing")
  <2>1. det' = det
    BY <1>5 DEF Open
  <2>2. QED
    BY <1>1, <1>2, <1>3, <1>5, <2>1, SameParser DEF Details!Take
<1>6. QED
  BY <1>4, <1>5

LEMMA DetailsLeave ==
  ASSUME TypeOK, TypeOK', LoopInv, Leave
  PROVE  Details!Take
<1>1. pc = "loop" /\ pc' = "done" /\ UNCHANGED <<rx, given, det, was, ret>>
  BY DEF Leave
<1>2. /\ p.fixed <= msg.m.size - p.taken
      /\ given \/ p.null \notin {"error", "nothing"}
      /\ ret = "SUCCESS" /\ Untouched
  BY <1>1 DEF LoopInv
<1>3. ASSUME WellFormed(msg.m), NEW f \in Fields
      PROVE  FieldAt(f, Len(msg.m.toks))
  <2>1. PICK k \in 0..Len(msg.m.toks) :
           Passed(k) /\ \A g \in Fields : FieldAt(g, k)
    BY <1>1, <1>3 DEF LoopInv, Along
  <2>2. k = Len(msg.m.toks)
    BY <1>3, <2>1, LeaveAtEnd
  <2>3. QED
    BY <2>1, <2>2
<1>4. /\ UNCHANGED <<msg, given, Dirty>> /\ Returned = "NONE" /\ Shown = was
      /\ Returned' = "SUCCESS" /\ Shown' = det'
  BY <1>1, <1>2, SameMessage
<1>5. Details!Takes
  <2>1. ASSUME WellFormed(msg.m), NEW f \in Fields
        PROVE  Details!FieldTaken(f, was[f], det[f])
    BY <1>2, <1>3, <2>1, FieldIsTaken
  <2>2. \A f \in Fields \ (p.takes \cup p.keeps) : det[f] = was[f]
    BY <1>2 DEF Untouched
  <2>3. det' = det
    BY <1>1
  <2>4. QED
    BY <1>4, <2>1, <2>2, <2>3, DetailsTaken
<1>6. Details!Whole
  <2>1. ~TooShort
    BY <1>2, RoomIs DEF TooShort
  <2>2. QED
    BY <2>1, WholeIs
<1>7. QED
  BY <1>2, <1>4, <1>5, <1>6, SameParser DEF Details!Take

LEMMA DetailsNext ==
  TypeOK /\ TypeOK' /\ LoopInv /\ [Next]_vars
    => [Details!Next]_(Details!vars)
<1> SUFFICES ASSUME TypeOK, TypeOK', LoopInv, [Next]_vars
             PROVE  [Details!Next]_(Details!vars)
  OBVIOUS
<1>1. ASSUME NEW m \in Messages, NEW zb \in BOOLEAN, NEW zd \in BOOLEAN,
             Receive(m, zb, zd)
      PROVE  Details!Next
  BY <1>1, DetailsReceive DEF Details!Next
<1>2. CASE Refuse
  BY <1>2, DetailsRefuse DEF Details!Next
<1>3. CASE CrashAtOnce \/ \E t \in Read : CrashAtToken(t)
  BY <1>3, DetailsCrash DEF Details!Next
<1>4. CASE Open /\ pc' = "done"
  BY <1>4, DetailsOpen DEF Details!Next
<1>5. CASE Leave
  BY <1>5, DetailsLeave DEF Details!Next
<1>6. CASE (Open /\ pc' # "done") \/ (pc = "loop" /\ \E t \in Read : Turn(t))
  <2>1. /\ pc \in {"call", "loop"} /\ pc' \in {"call", "loop"}
        /\ UNCHANGED <<rx, given, was>>
    BY <1>6 DEF Open, Turn
  <2>2. UNCHANGED <<msg, given, Dirty, Shown, Returned>>
    BY <2>1, SameMessage
  <2>3. QED
    BY <2>2 DEF Details!vars
<1>7. CASE UNCHANGED vars
  <2>1. UNCHANGED <<msg, given, Dirty, Shown, Returned>>
    BY <1>7, SameCall DEF vars, Shown, Returned
  <2>2. QED
    BY <2>1 DEF Details!vars
<1>8. QED
  BY <1>1, <1>2, <1>3, <1>4, <1>5, <1>6, <1>7 DEF Next, Parse

(* Every public parser implements the transfer of a message's contents as  *)
(* one step, for whatever buffers and number of calls.  Of a well-formed   *)
(* message it finds the own tokens whatever lies behind them and stores    *)
(* them in order up to its limits; of any message it touches nothing else, *)
(* and fails only if it is too short for its fixed part or the details are *)
(* not given.                                                              *)
THEOREM ParserImplementsDetails == Spec => ImplementsDetails
<1>1. Spec => []LoopInv
  BY ParseTypeCorrect, LoopInit, LoopNext, PTL DEF Spec
<1>2. QED
  BY <1>1, ParseTypeCorrect, DetailsInit, DetailsNext, PTL
     DEF Spec, ImplementsDetails, Details!Spec

-----------------------------------------------------------------------------
(* What a careful caller finds.                                            *)

\* After a success the details are as the loop leaves them at the end of the
\* message.
FilledInv == pc = "done" /\ msg.no > 0 /\ ret = "SUCCESS" /\ given =>
               /\ p.fixed <= msg.m.size - p.taken
               /\ WellFormed(msg.m) =>
                    \A f \in Fields : FieldAt(f, Len(msg.m.toks))

LEMMA FilledInit == Init => FilledInv
<1> SUFFICES ASSUME Init PROVE FilledInv
  OBVIOUS
<1>1. rx = <<[m |-> CHOOSE m \in Messages : TRUE, no |-> 0]>>
  BY DEF Init
<1>2. msg = [m |-> CHOOSE m \in Messages : TRUE, no |-> 0]
  BY <1>1 DEF msg
<1>3. QED
  BY <1>2 DEF FilledInv

\* What a step changes neither message nor details of.
LEMMA FilledStays ==
  ASSUME FilledInv, UNCHANGED <<rx, given, det, was, pc, ret>>
  PROVE  FilledInv'
<1>1. UNCHANGED <<msg, p, Dirty, Part>>
  BY DEF msg, p, Dirty, Part, PartAt, Owner
<1>2. QED
  BY <1>1 DEF FilledInv, FieldAt, ArrayAt, TokenAt, Fitting, First

LEMMA FilledNext == TypeOK /\ LoopInv /\ FilledInv /\ [Next]_vars => FilledInv'
<1> SUFFICES ASSUME TypeOK, LoopInv, FilledInv, [Next]_vars PROVE FilledInv'
  OBVIOUS
<1>1. ASSUME pc' # "done" \/ ret' # "SUCCESS" PROVE FilledInv'
  BY <1>1 DEF FilledInv
<1>2. ASSUME NEW m \in Messages, NEW zb \in BOOLEAN, NEW zd \in BOOLEAN,
             Receive(m, zb, zd)
      PROVE  FilledInv'
  BY <1>1, <1>2 DEF Receive
<1>3. CASE Refuse \/ CrashAtOnce \/ \E t \in Read : Turn(t) \/ CrashAtToken(t)
  BY <1>1, <1>3 DEF Refuse, CrashAtOnce, CrashAtToken, Turn, LoopInv
<1>4. CASE Open /\ pc' = "done"
  <2>1. /\ pc = "call" /\ det = was /\ UNCHANGED <<rx, given, was>>
        /\ ~TooShort
    BY <1>4 DEF Open, LoopInv
  <2>2. UNCHANGED <<msg, p, Dirty, Part>>
    BY <2>1 DEF msg, p, Dirty, Part, PartAt, Owner
  <2>3. ASSUME given
        PROVE  \A f \in Fields : FieldAt(f, Len(msg.m.toks))'
    <3>1. det' = Opened /\ ~p.walks
      BY <1>4, <2>3 DEF Open
    <3>2. p.takes = {} /\ p.clears = {}
      BY <3>1, MsgFacts, MessageShape, ParserShape DEF p
    <3>3. ASSUME NEW f \in Fields
          PROVE  det'[f] = IF f \in p.keeps THEN <<Part>> ELSE was[f]
      BY <2>1, <3>1, <3>2 DEF Opened
    <3>4. QED
      BY <2>1, <2>2, <3>2, <3>3 DEF FieldAt
  <2>4. p.fixed <= msg.m.size - p.taken
    BY <2>1, RoomIs DEF TooShort
  <2>5. QED
    BY <2>1, <2>2, <2>3, <2>4 DEF FilledInv
<1>5. CASE Leave
  <2>1. pc = "loop" /\ pc' = "done" /\ UNCHANGED <<rx, given, det, was, ret>>
    BY <1>5 DEF Leave
  <2>2. UNCHANGED <<msg, p, Dirty, Part>>
    BY <2>1 DEF msg, p, Dirty, Part, PartAt, Owner
  <2>3. ASSUME WellFormed(msg.m)
        PROVE  \A f \in Fields : FieldAt(f, Len(msg.m.toks))'
    <3>1. PICK k \in 0..Len(msg.m.toks) :
             Passed(k) /\ \A f \in Fields : FieldAt(f, k)
      BY <2>1, <2>3 DEF LoopInv, Along
    <3>2. k = Len(msg.m.toks)
      BY <1>5, <2>3, <3>1, LeaveAtEnd
    <3>3. QED
      BY <2>1, <2>2, <3>1, <3>2 DEF FieldAt, ArrayAt, TokenAt, Fitting, First
  <2>4. p.fixed <= msg.m.size - p.taken
    BY <2>1 DEF LoopInv
  <2>5. QED
    BY <2>2, <2>3, <2>4 DEF FilledInv
<1>6. CASE Open /\ pc' # "done"
  BY <1>1, <1>6
<1>7. CASE UNCHANGED vars
  BY <1>7, FilledStays DEF vars
<1>8. QED
  BY <1>2, <1>3, <1>4, <1>5, <1>6, <1>7 DEF Next, Parse

\* A sequence of at most w elements is its own beginning.
LEMMA AllOfIt ==
  ASSUME NEW S, NEW s \in Seq(S), NEW w \in Nat, Len(s) <= w
  PROVE  SubSeq(s, 1, AtMost(Len(s), w)) = s
<1>1. AtMost(Len(s), w) = Len(s)
  BY DEF AtMost
<1>2. QED
  BY <1>1

LEMMA FilledIsClean == TypeOK /\ FilledInv => CleanDetails
<1> SUFFICES ASSUME TypeOK, FilledInv,
                    pc = "done", msg.no > 0, ret = "SUCCESS", given,
                    was = NoDetails, p.taken # 0 \/ ~Dirty,
                    msg.m.whole, WellFormed(msg.m),
                    NEW f \in Fields
             PROVE  det[f] = Told(f)
  BY DEF CleanDetails
<1> DEFINE n == Len(msg.m.toks)
           own == First(f, n)
           d == det[f]
<1>1. FieldAt(f, n) /\ p.fixed <= msg.m.size - p.taken
  BY DEF FilledInv
<1>2. was[f] = <<>>
  BY DEF NoDetails
<1>3. /\ own \in Seq(Entries) /\ d \in Seq(Entries)
      /\ Len(d) <= Limit(f) /\ Limit(f) \in Nat \ {0}
  <2>1. n \in 0..n
    BY FirstSteps
  <2>2. QED
    BY <2>1, FirstSteps, Limits DEF TypeOK
<1>4. Told(f) = IF f \in p.takes THEN SubSeq(own, 1, AtMost(Len(own), Limit(f)))
                ELSE IF f \in p.keeps THEN <<Entry(msg.no, 0, 0)>> ELSE <<>>
  BY DEF Told, First
<1>5. CASE f \in p.takes /\ Limit(f) > 1
  <2>1. ArrayAt(f, n)
    BY <1>1, <1>5 DEF FieldAt
  <2> DEFINE w == AtMost(Len(own), Limit(f))
  <2>2. /\ Len(d) = w /\ \A i \in 1..w : d[i] = own[i]
    BY <2>1 DEF ArrayAt, Fitting
  <2>3. w \in Nat /\ w <= Len(own)
    BY <1>3 DEF AtMost
  <2> HIDE DEF own, w, d
  <2>4. SubSeq(d, 1, w) = SubSeq(own, 1, w)
    BY <1>3, <2>2, <2>3, SubSeqSame
  <2>5. SubSeq(d, 1, w) = d
    BY <1>3, <2>2
  <2>6. QED
    BY <1>4, <1>5, <2>4, <2>5 DEF w, d
<1>6. CASE f \in p.takes /\ ~(Limit(f) > 1)
  <2>1. Limit(f) = 1 /\ TokenAt(f, n)
    BY <1>1, <1>3, <1>6 DEF FieldAt
  <2>2. d = own
    BY <1>2, <2>1 DEF TokenAt
  <2> HIDE DEF own, d
  <2>3. SubSeq(own, 1, AtMost(Len(own), Limit(f))) = own
    BY <1>3, <2>2, AllOfIt
  <2>4. QED
    BY <1>4, <1>6, <2>2, <2>3 DEF d
<1>7. CASE f \notin p.takes
  <2>1. f \in p.keeps => d = <<Entry(msg.no, 0, 0)>>
    BY <1>1, PartIs DEF FieldAt
  <2>2. f \notin p.keeps => d = <<>>
    BY <1>1, <1>2, <1>7 DEF FieldAt
  <2>3. QED
    BY <1>4, <1>7, <2>1, <2>2
<1>8. QED
  BY <1>5, <1>6, <1>7

(* A caller that zeroes its details finds in them, after a success, what   *)
(* a well-formed message says up to the limits and nothing else, for any   *)
(* number of calls and any earlier contents of the buffer, malformed       *)
(* messages among them; only where the parser counts the headers in must   *)
(* it zero the buffer too.                                                 *)
THEOREM CleanDetailsAlways == Spec => []CleanDetails
<1>1. Spec => []LoopInv
  BY ParseTypeCorrect, LoopInit, LoopNext, PTL DEF Spec
<1>2. QED
  BY <1>1, ParseTypeCorrect, FilledInit, FilledNext, FilledIsClean, PTL DEF Spec
=============================================================================
