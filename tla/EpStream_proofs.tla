---------------------------- MODULE EpStream_proofs ----------------------------
(***************************************************************************)
(* Proofs about EpStream, for every list of messages and however the bytes *)
(* come: a receiver keeps its place in the stream, and takes each message  *)
(* once, in order, for what it is, as long as what the formatters return   *)
(* fits the 16 bits of the length.                                         *)
(***************************************************************************)
EXTENDS EpStream, EpFormat_proofs

USE MessagesAssumption, SizesAssumption, NonEmptyAssumption, BoundsAssumption

(* The formatter at work in a stream is that of EpFormat.                  *)
LEMMA StreamFormats == StreamNext => [Next]_vars
BY DEF StreamNext, Compose, Formatting, Number, Transmit, Arrive, Announce,
       Deliver, senderVars, Next

LEMMA FormatterAlways == StreamSpec => [](TypeOK /\ HeadersInv)
<1>1. StreamInit => TypeOK /\ HeadersInv
  BY TypeInit, HeadersInit DEF StreamInit
<1>2. TypeOK /\ HeadersInv /\ [StreamNext]_streamVars => TypeOK' /\ HeadersInv'
  <2>1. [StreamNext]_streamVars => [Next]_vars
    BY StreamFormats DEF streamVars, senderVars, vars
  <2>2. QED
    BY <2>1, TypeNext, HeadersNext
<1>3. QED
  BY <1>1, <1>2, PTL DEF StreamSpec

-----------------------------------------------------------------------------
(* Type correctness.                                                       *)

(* A receiver that knows the message has its header.                       *)
StreamTypeInv == StreamTypeOK /\ (kind # NoKind => have >= SizeofHdr)

LEMMA EmptySeqs == \A S : <<>> \in Seq(S)
OBVIOUS

SentRecords == [of : Messages, head : Headers, from : Nat, to : Nat]

LEMMA WireType ==
  ASSUME StreamTypeOK
  PROVE  /\ wire \in Seq(SentRecords)
         /\ \A i \in DOMAIN wire : wire[i] \in SentRecords
<1>1. wire \in Seq(SentRecords)
  BY DEF StreamTypeOK, SentRecords
<1>2. QED
  BY <1>1

LEMMA WrittenType ==
  ASSUME StreamTypeOK
  PROVE  Written \in Nat
<1>1. CASE wire = <<>>
  BY <1>1 DEF Written
<1>2. CASE wire # <<>>
  <2>1. Len(wire) \in DOMAIN wire /\ wire[Len(wire)] \in SentRecords
    BY <1>2, WireType
  <2>2. QED
    BY <1>2, <2>1 DEF Written, SentRecords
<1>3. QED
  BY <1>1, <1>2

LEMMA SeenType ==
  ASSUME StreamTypeOK
  PROVE  Seen \in Headers
<1> DEFINE at == {i \in DOMAIN wire : wire[i].from = front}
           Field(f) == IF at # {} /\ have >= FieldEnd[f]
                       THEN wire[CHOOSE i \in at : TRUE].head[f] ELSE left[f]
           HdrFields == {"type", "dir", "seq", "len", "act", "op"}
<1>1. DOMAIN FieldEnd = HdrFields
  BY DEF FieldEnd
<1>2. Seen = [f \in HdrFields |-> Field(f)]
  BY <1>1 DEF Seen
<1>3. \/ \A f \in HdrFields : Field(f) = left[f]
      \/ \E h \in Headers : \A f \in HdrFields : Field(f) \in {h[f], left[f]}
  <2>1. CASE at = {}
    BY <2>1
  <2>2. CASE at # {}
    <3>1. wire[CHOOSE i \in at : TRUE].head \in Headers
      <4>1. (CHOOSE i \in at : TRUE) \in DOMAIN wire
        BY <2>2
      <4> HIDE DEF at
      <4>2. QED
        BY <4>1, WireType DEF SentRecords
    <3>2. QED
      BY <3>1
  <2>3. QED
    BY <2>1, <2>2
<1>4. PICK h \in Headers : \A f \in HdrFields : Field(f) \in {h[f], left[f]}
  BY <1>3 DEF StreamTypeOK
<1>5. /\ Field("type") \in MsgTypes /\ Field("dir") \in Dirs
      /\ Field("seq") \in 0..MaxSeq /\ Field("len") \in 0..(U16 - 1)
      /\ Field("act") \in Actions /\ Field("op") \in Ops
  <2>1. left \in Headers
    BY DEF StreamTypeOK
  <2> HIDE DEF Field
  <2>2. QED
    BY <1>4, <2>1 DEF Headers
<1>6. QED
  <2> HIDE DEF Field
  <2> QED
    BY <1>2, <1>5 DEF Headers

LEMMA StreamTypeInit == StreamInit => StreamTypeInv
<1> SUFFICES ASSUME StreamInit PROVE StreamTypeInv
  OBVIOUS
<1>1. TypeOK
  BY TypeInit DEF StreamInit
<1>2. NoKind \in Kinds
  BY DEF NoKind, Kinds, MsgTypes, Dirs, Actions, Ops
<1>3. /\ wire \in Seq([of : Messages, head : Headers, from : Nat, to : Nat])
      /\ taken \in Seq([kind : Kinds, seq : 0..MaxSeq])
  BY Zenon, EmptySeqs DEF StreamInit
<1>4. Written = 0 /\ left \in Headers
  BY <1>1 DEF StreamInit, Written, TypeOK
<1>5. got \in 0..Written /\ front \in 0..got
  BY <1>4 DEF StreamInit
<1>6. unsent \in BOOLEAN /\ kind = NoKind
  BY DEF StreamInit
<1>7. QED
  BY <1>2, <1>3, <1>4, <1>5, <1>6, Zenon DEF StreamTypeInv, StreamTypeOK

LEMMA StreamTypeNext ==
  TypeOK /\ StreamTypeInv /\ [StreamNext]_streamVars => StreamTypeInv'
<1> SUFFICES ASSUME TypeOK, StreamTypeInv, [StreamNext]_streamVars
             PROVE  StreamTypeInv'
  OBVIOUS
<1> USE DEF StreamTypeInv
<1>0. Written \in Nat /\ Seen \in Headers
  BY WrittenType, SeenType
<1>1. ASSUME NEW m \in Messages, NEW s \in Sizes, Compose(m, s)
      PROVE  StreamTypeInv'
  BY <1>1 DEF Compose, receiverVars, StreamTypeOK, Written, have
<1>2. CASE Formatting \/ Number
  BY <1>2 DEF Formatting, Number, receiverVars, StreamTypeOK, Written, have
<1>3. CASE Transmit
  <2> DEFINE r == [of |-> msg, head |-> hdr, from |-> Written,
                   to |-> Written + ret]
  <2>1. wire' = Append(wire, r) /\ r \in SentRecords
    BY <1>0, <1>3 DEF Transmit, TypeOK, SentRecords
  <2> HIDE DEF r
  <2>2. wire' \in Seq(SentRecords) /\ Len(wire') = Len(wire) + 1
        /\ wire'[Len(wire')] = r /\ wire' # <<>>
    BY <2>1, WireType
  <2>3. Written' = Written + ret /\ ret \in Nat
    BY <1>3, <2>2 DEF Written, r, Transmit, TypeOK
  <2>4. got' \in 0..Written'
    BY <1>0, <1>3, <2>3 DEF Transmit, StreamTypeOK
  <2>5. QED
    BY <1>3, <2>2, <2>4
       DEF Transmit, receiverVars, StreamTypeOK, SentRecords, have
<1>4. CASE Arrive
  BY <1>0, <1>4 DEF Arrive, senderVars, receiverVars, StreamTypeOK, Written,
                    have, SizeofHdr
<1>5. CASE Announce
  <2>1. have >= SizeofHdr
    BY <1>5 DEF Announce, epp_msg_type, have, StreamTypeOK, SizeofHdr
  <2>2. /\ epp_msg_type(Seen, have) \in MsgTypes \cup {"ERROR"}
        /\ epp_dir(Seen, have) \in Dirs \cup {"ERROR"}
        /\ EventType(Seen, have) \in Actions
        /\ EventOp(Seen, have) \in Ops \cup {"ERROR", Unknown}
    BY <1>0 DEF epp_msg_type, epp_dir, EventType, EventOp, Headers, Actions, Ops
  <2>3. kind' \in Kinds
    BY <1>5, <2>2 DEF Announce, Kinds
  <2>4. QED
    BY <1>5, <2>1, <2>3 DEF Announce, senderVars, StreamTypeOK, Written, have
<1>6. CASE Deliver
  <2>1. have >= SizeofHdr /\ ~(have < SizeofHdr)
    BY <1>6 DEF Deliver, have, StreamTypeOK, SizeofHdr
  <2>2. /\ epp_seq(Seen, have) \in 0..MaxSeq
        /\ epp_msg_length(Seen, have) \in Nat
    BY <1>0, <2>1 DEF epp_seq, epp_msg_length, Headers
  <2>3. front' \in 0..got'
    BY <1>6, <2>2 DEF Deliver, StreamTypeOK, have
  <2>4. taken' \in Seq([kind : Kinds, seq : 0..MaxSeq])
    BY <1>6, <2>2 DEF Deliver, StreamTypeOK
  <2>5. kind' = NoKind /\ NoKind \in Kinds
    BY <1>6 DEF Deliver, NoKind, Kinds, MsgTypes, Dirs, Actions, Ops
  <2>6. QED
    BY <1>0, <1>6, <2>3, <2>4, <2>5
       DEF Deliver, senderVars, StreamTypeOK, Written
<1>7. CASE UNCHANGED streamVars
  BY <1>7 DEF streamVars, senderVars, receiverVars, StreamTypeOK, Written, have
<1>8. QED
  BY <1>1, <1>2, <1>3, <1>4, <1>5, <1>6, <1>7 DEF StreamNext

LEMMA StreamTypeAlways ==
  StreamSpec => [](TypeOK /\ HeadersInv /\ StreamTypeInv)
BY FormatterAlways, StreamTypeInit, StreamTypeNext, PTL DEF StreamSpec

(* Every variable stays in its type, for messages of any length: among     *)
(* others, the receiver never takes off its buffer more than has come, and *)
(* never stores an error code as a sequence number.                        *)
THEOREM StreamTypeCorrect == StreamSpec => []StreamTypeOK
<1>1. StreamTypeInv => StreamTypeOK
  BY DEF StreamTypeInv
<1>2. QED
  BY <1>1, StreamTypeAlways, PTL

-----------------------------------------------------------------------------
(* The receiver's place.                                                   *)

(* Where message i of the stream starts, or the stream ends.               *)
Start(i) == IF i \in DOMAIN wire THEN wire[i].from ELSE Written

(* The messages sent lie one behind the other, each as long as its header  *)
(* says, and their headers are theirs.                                     *)
WireInv ==
  /\ \A i \in DOMAIN wire :
       /\ wire[i].from = (IF i = 1 THEN 0 ELSE wire[i - 1].to)
       /\ wire[i].head.len > 0
       /\ wire[i].to = wire[i].from + wire[i].head.len
       /\ wire[i].head.type = wire[i].of.evt
       /\ wire[i].head.dir = wire[i].of.dir
       /\ wire[i].head.act = wire[i].of.act
       /\ wire[i].head.op = wire[i].of.op
       /\ wire[i].head.seq = i
  /\ \A i, j \in DOMAIN wire : i < j => wire[i].to <= wire[j].from

(* The receiver's buffer starts with the message after those it has taken. *)
PlaceInv ==
  /\ Len(taken) <= Len(wire)
  /\ front = Start(Len(taken) + 1)
  /\ \A i \in DOMAIN taken : taken[i] = Meaning(wire[i].of, i)
  /\ kind # NoKind => /\ Len(taken) < Len(wire)
                      /\ LET i == Len(taken) + 1
                         IN  kind = Meaning(wire[i].of, i).kind

StreamInv == WireInv /\ PlaceInv

(* What a formatter returned fits the length field of its header.          *)
Short == Succeeded => ret < U16

LEMMA WrittenLast ==
  ASSUME StreamTypeOK, WireInv
  PROVE  /\ wire # <<>> => Written = wire[Len(wire)].to
         /\ \A i \in DOMAIN wire : wire[i].to <= Written
<1>1. wire # <<>> => Written = wire[Len(wire)].to
  BY DEF Written
<1>2. ASSUME NEW i \in DOMAIN wire PROVE wire[i].to <= Written
  <2>1. i \in 1..Len(wire) /\ Len(wire) \in DOMAIN wire /\ wire # <<>>
    BY WireType
  <2>2. /\ wire[i].to \in Nat /\ wire[Len(wire)].to \in Nat
        /\ wire[Len(wire)].from \in Nat
        /\ wire[Len(wire)].head.len \in Nat
    BY <2>1, WireType DEF SentRecords, Headers
  <2>3. CASE i = Len(wire)
    BY <1>1, <2>1, <2>2, <2>3
  <2>4. CASE i < Len(wire)
    <3>1. wire[i].to <= wire[Len(wire)].from
      BY <2>1, <2>4 DEF WireInv
    <3>2. wire[Len(wire)].to = wire[Len(wire)].from + wire[Len(wire)].head.len
      BY <2>1 DEF WireInv
    <3>3. QED
      BY <1>1, <2>1, <2>2, <3>1, <3>2
  <2>5. QED
    BY <2>1, <2>3, <2>4
<1>3. QED
  BY <1>1, <1>2

(* The fields at the front are those of the message that starts there, as  *)
(* far as its bytes have come: there is only one.                          *)
LEMMA SeenIsHead ==
  ASSUME StreamTypeOK, WireInv, NEW i \in DOMAIN wire, front = wire[i].from,
         NEW f \in DOMAIN FieldEnd, have >= FieldEnd[f]
  PROVE  Seen[f] = wire[i].head[f]
<1> DEFINE at == {j \in DOMAIN wire : wire[j].from = front}
<1>1. ASSUME NEW j \in at PROVE j = i
  <2>1. /\ i \in 1..Len(wire) /\ j \in 1..Len(wire)
        /\ wire[i].from = wire[j].from
    BY WireType
  <2>2. /\ wire[i].from \in Nat /\ wire[i].head.len \in Nat
        /\ wire[j].from \in Nat /\ wire[j].head.len \in Nat
    BY WireType DEF SentRecords, Headers
  <2>3. /\ wire[i].to > wire[i].from /\ wire[j].to > wire[j].from
        /\ i < j => wire[i].to <= wire[j].from
        /\ j < i => wire[j].to <= wire[i].from
        /\ wire[i].to \in Nat /\ wire[j].to \in Nat
    BY <2>2 DEF WireInv
  <2>4. QED
    BY <2>1, <2>2, <2>3
<1>2. i \in at
  OBVIOUS
<1>3. at # {} /\ (CHOOSE j \in at : TRUE) = i
  <2> HIDE DEF at
  <2> QED
    BY <1>1, <1>2
<1>4. QED
  BY <1>3 DEF Seen

LEMMA StreamInvInit == StreamInit => StreamInv
BY DEF StreamInit, StreamInv, WireInv, PlaceInv, Start, Written

(* A message is sent behind all others.                                    *)
LEMMA TransmitKeeps ==
  ASSUME TypeOK, HeadersInv, StreamTypeInv, StreamInv, Short, Transmit
  PROVE  StreamInv'
<1> DEFINE r == [of |-> msg, head |-> hdr, from |-> Written,
                 to |-> Written + ret]
<1>1. wire' = Append(wire, r) /\ r \in SentRecords
  BY WrittenType DEF Transmit, TypeOK, SentRecords, StreamTypeInv
<1>2. /\ hdr.type = msg.evt /\ hdr.dir = msg.dir
      /\ hdr.act = msg.act /\ hdr.op = msg.op
      /\ hdr.len = ret /\ ret > 0 /\ ret \in Nat
      /\ hdr.seq = Len(wire) + 1
  <2>1. ret < U16 /\ ret \in Nat /\ ret > 0
    BY DEF Short, Succeeded, Transmit, TypeOK
  <2>2. ret % U16 = ret
    BY <2>1, ModSmall DEF U16
  <2>3. QED
    BY <2>1, <2>2 DEF Transmit, HeadersInv, HeadersOfMessage, Succeeded, NextSeq
<1>3. /\ r.from = Written /\ r.to = Written + ret
      /\ r.of = msg /\ r.head = hdr
  OBVIOUS
<1> HIDE DEF r
<1>4. /\ wire \in Seq(SentRecords) /\ Len(wire) \in Nat
      /\ Len(wire') = Len(wire) + 1
      /\ DOMAIN wire' = 1..(Len(wire) + 1) /\ DOMAIN wire = 1..Len(wire)
      /\ \A i \in DOMAIN wire : wire'[i] = wire[i]
      /\ wire'[Len(wire) + 1] = r
  BY <1>1, WireType DEF StreamTypeInv
<1>5. Written \in Nat /\ Written' = Written + ret
  BY <1>2, <1>3, <1>4, WrittenType DEF Written, StreamTypeInv
<1>6. WireInv'
  <2>1. ASSUME NEW i \in DOMAIN wire'
        PROVE  /\ wire'[i].from = (IF i = 1 THEN 0 ELSE wire'[i - 1].to)
               /\ wire'[i].head.len > 0
               /\ wire'[i].to = wire'[i].from + wire'[i].head.len
               /\ wire'[i].head.type = wire'[i].of.evt
               /\ wire'[i].head.dir = wire'[i].of.dir
               /\ wire'[i].head.act = wire'[i].of.act
               /\ wire'[i].head.op = wire'[i].of.op
               /\ wire'[i].head.seq = i
    <3>1. CASE i \in DOMAIN wire
      <4>1. wire'[i] = wire[i] /\ (i # 1 => wire'[i - 1] = wire[i - 1])
        BY <1>4, <3>1
      <4>2. QED
        BY <3>1, <4>1 DEF StreamInv, WireInv
    <3>2. CASE i = Len(wire) + 1
      <4>1. Written = IF i = 1 THEN 0 ELSE wire'[i - 1].to
        BY <1>4, <3>2 DEF Written
      <4>2. QED
        BY <1>2, <1>3, <1>4, <3>2, <4>1
    <3>3. QED
      BY <1>4, <3>1, <3>2
  <2>2. ASSUME NEW i \in DOMAIN wire', NEW j \in DOMAIN wire', i < j
        PROVE  wire'[i].to <= wire'[j].from
    <3>1. i \in DOMAIN wire /\ wire'[i] = wire[i]
      BY <1>4, <2>2
    <3>2. CASE j \in DOMAIN wire
      BY <1>4, <2>2, <3>1, <3>2 DEF StreamInv, WireInv
    <3>3. CASE j = Len(wire) + 1
      BY <1>3, <1>4, <3>1, <3>3, WrittenLast DEF StreamInv, StreamTypeInv
    <3>4. QED
      BY <1>4, <3>2, <3>3
  <2>3. QED
    BY <2>1, <2>2 DEF WireInv
<1>7. PlaceInv'
  <2>1. UNCHANGED <<front, taken, kind>>
    BY DEF Transmit, receiverVars
  <2>2. taken \in Seq([kind : Kinds, seq : 0..MaxSeq])
        /\ Len(taken) <= Len(wire)
    BY DEF StreamInv, PlaceInv, StreamTypeInv, StreamTypeOK
  <2>3. front' = Start(Len(taken) + 1)'
    BY <1>3, <1>4, <2>1, <2>2 DEF StreamInv, PlaceInv, Start
  <2>4. \A i \in DOMAIN taken : i \in DOMAIN wire /\ wire'[i] = wire[i]
    BY <1>4, <2>2
  <2>5. kind # NoKind => wire'[Len(taken) + 1] = wire[Len(taken) + 1]
                         /\ Len(taken) < Len(wire')
    BY <1>4, <2>2 DEF StreamInv, PlaceInv
  <2>6. QED
    BY <1>4, <2>1, <2>2, <2>3, <2>4, <2>5 DEF StreamInv, PlaceInv
<1>8. QED
  BY <1>6, <1>7 DEF StreamInv

LEMMA AnnounceKeeps ==
  ASSUME StreamTypeInv, StreamInv, Announce
  PROVE  StreamInv'
<1> DEFINE i == Len(taken) + 1
           h == wire[i].head
<1>1. /\ got \in Nat /\ front \in Nat /\ have \in Int /\ Seen \in Headers
      /\ Written \in Nat /\ got <= Written /\ Len(taken) \in Nat
  BY WrittenType, SeenType DEF StreamTypeInv, StreamTypeOK, have
<1>2. /\ have >= SizeofHdr /\ ~(have < SizeofHdr)
      /\ ~(have < SizeofHdr + SizeofEvent(Seen.type))
  <2>1. ~(have < SizeofHdr)
    BY DEF Announce, epp_msg_type
  <2>2. ~(have < SizeofHdr + SizeofEvent(Seen.type))
    BY DEF Announce, EventType
  <2>3. QED
    BY <1>1, <2>1, <2>2 DEF SizeofHdr
<1>3. have >= 27
  BY <1>1, <1>2 DEF SizeofHdr, SizeofEvent, SizeofSchedule, SizeofSingle
<1>4. i \in DOMAIN wire /\ front = wire[i].from /\ Len(taken) < Len(wire)
  <2>1. front # Written
    BY <1>1, <1>3 DEF have
  <2>2. i \in DOMAIN wire
    BY <2>1 DEF StreamInv, PlaceInv, Start
  <2>3. QED
    BY <1>1, <2>2, WireType DEF StreamInv, PlaceInv, Start, StreamTypeInv
<1>5. /\ Seen.type = h.type /\ Seen.dir = h.dir
      /\ Seen.act = h.act /\ Seen.op = h.op
  <2>1. \A f \in DOMAIN FieldEnd : FieldEnd[f] <= 27
    BY DEF FieldEnd
  <2>2. \A f \in {"type", "dir", "act", "op"} :
          f \in DOMAIN FieldEnd /\ have >= FieldEnd[f]
    BY <1>1, <1>3 DEF FieldEnd
  <2>3. \A f \in {"type", "dir", "act", "op"} : Seen[f] = h[f]
    BY <1>4, <2>2, SeenIsHead DEF StreamTypeInv, StreamInv
  <2>4. QED
    BY <2>3
<1>6. kind' = Meaning(wire[i].of, i).kind
  <2>1. EventOp(Seen, have) = IF h.type = "SCHEDULE" THEN Unknown ELSE h.op
    BY <1>2, <1>5 DEF EventOp
  <2>2. /\ epp_msg_type(Seen, have) = h.type /\ epp_dir(Seen, have) = h.dir
        /\ EventType(Seen, have) = h.act
    BY <1>1, <1>2, <1>5 DEF epp_msg_type, epp_dir, EventType
  <2>3. /\ h.type = wire[i].of.evt /\ h.dir = wire[i].of.dir
        /\ h.act = wire[i].of.act /\ h.op = wire[i].of.op
    BY <1>4 DEF StreamInv, WireInv
  <2>4. kind' = [type |-> h.type, dir |-> h.dir, act |-> h.act,
                 op |-> EventOp(Seen, have)]
    BY <2>2 DEF Announce
  <2>5. QED
    BY <2>1, <2>3, <2>4 DEF Meaning
<1>7. UNCHANGED <<wire, front, taken>>
  BY DEF Announce
<1>8. WireInv'
  BY <1>7 DEF StreamInv, WireInv
<1>9. PlaceInv'
  BY <1>4, <1>6, <1>7 DEF StreamInv, PlaceInv, Start, Written
<1>10. QED
  BY <1>8, <1>9 DEF StreamInv

(* What Deliver does: the message after those taken is taken for what it   *)
(* is, and the next one comes to the front.                                *)
LEMMA DeliverTakes ==
  ASSUME StreamTypeInv, StreamInv, Deliver
  PROVE  LET i == Len(taken) + 1 IN
         /\ i \in DOMAIN wire
         /\ taken' = Append(taken, Meaning(wire[i].of, i))
         /\ Meaning(wire[i].of, i) \in [kind : Kinds, seq : 0..MaxSeq]
         /\ front' = wire[i].to
<1> DEFINE i == Len(taken) + 1
           h == wire[i].head
<1>1. /\ Len(taken) \in Nat /\ Len(taken) < Len(wire) /\ have >= SizeofHdr
      /\ have \in Int
  BY DEF Deliver, StreamInv, PlaceInv, StreamTypeInv, StreamTypeOK, have
<1>2. i \in DOMAIN wire
  BY <1>1, WireType DEF StreamTypeInv
<1>3. front = wire[i].from
  BY <1>2 DEF StreamInv, PlaceInv, Start
<1>4. Seen.len = h.len /\ Seen.seq = h.seq
  <2>1. \A f \in {"len", "seq"} : f \in DOMAIN FieldEnd /\ have >= FieldEnd[f]
    BY <1>1 DEF FieldEnd, SizeofHdr
  <2>2. QED
    BY <1>2, <1>3, <2>1, SeenIsHead DEF StreamTypeInv, StreamInv
<1>5. /\ epp_msg_length(Seen, have) = h.len /\ epp_seq(Seen, have) = i
  <2>1. ~(have < SizeofHdr)
    BY <1>1 DEF SizeofHdr
  <2>2. h.seq = i
    BY <1>2 DEF StreamInv, WireInv
  <2>3. QED
    BY <1>4, <2>1, <2>2 DEF epp_msg_length, epp_seq
<1>6. front' = wire[i].to
  BY <1>2, <1>3, <1>5 DEF Deliver, StreamInv, WireInv
<1>7. /\ taken' = Append(taken, Meaning(wire[i].of, i))
      /\ Meaning(wire[i].of, i) \in [kind : Kinds, seq : 0..MaxSeq]
  <2>1. kind = Meaning(wire[i].of, i).kind
    BY DEF Deliver, StreamInv, PlaceInv
  <2>2. [kind |-> kind, seq |-> i] = Meaning(wire[i].of, i)
    BY <2>1 DEF Meaning
  <2>3. kind \in Kinds /\ i \in 0..MaxSeq
    <3>1. h.seq \in 0..MaxSeq /\ h.seq = i
      BY <1>2, WireType DEF SentRecords, Headers, StreamTypeInv, StreamInv,
                            WireInv
    <3>2. QED
      BY <3>1 DEF StreamTypeInv, StreamTypeOK
  <2>4. [kind |-> kind, seq |-> i] \in [kind : Kinds, seq : 0..MaxSeq]
    BY <2>3
  <2>5. QED
    BY <1>5, <2>2, <2>4 DEF Deliver
<1>8. QED
  BY <1>2, <1>6, <1>7

LEMMA DeliverKeeps ==
  ASSUME StreamTypeInv, StreamInv, Deliver
  PROVE  StreamInv'
<1> DEFINE i == Len(taken) + 1
<1>1. /\ i \in DOMAIN wire
      /\ taken' = Append(taken, Meaning(wire[i].of, i))
      /\ Meaning(wire[i].of, i) \in [kind : Kinds, seq : 0..MaxSeq]
      /\ front' = wire[i].to
  BY DeliverTakes
<1>2. UNCHANGED wire /\ kind' = NoKind
  BY DEF Deliver
<1>3. WireInv'
  BY <1>2 DEF StreamInv, WireInv
<1>4. /\ Len(taken) \in Nat /\ Len(taken') = i
      /\ \A j \in DOMAIN taken : taken'[j] = taken[j]
      /\ taken'[i] = Meaning(wire[i].of, i)
      /\ DOMAIN taken' = 1..i /\ DOMAIN taken = 1..Len(taken)
  <2> DEFINE S == [kind : Kinds, seq : 0..MaxSeq]
             x == Meaning(wire[i].of, i)
  <2>1. taken \in Seq(S) /\ x \in S /\ taken' = Append(taken, x)
    BY <1>1 DEF StreamTypeInv, StreamTypeOK
  <2> HIDE DEF S, x
  <2>2. QED
    BY <2>1 DEF x
<1>5. DOMAIN wire = 1..Len(wire) /\ Len(wire) \in Nat
      /\ (wire = <<>> => Len(wire) = 0)
  BY WireType DEF StreamTypeInv
<1>6. front' = Start(i + 1)
  <2>1. CASE i + 1 \in DOMAIN wire
    BY <1>1, <1>4, <2>1 DEF Start, StreamInv, WireInv
  <2>2. CASE i + 1 \notin DOMAIN wire
    <3>1. i \in 1..Len(wire) /\ i + 1 \notin 1..Len(wire)
      BY <1>1, <1>5, <2>2
    <3>2. i = Len(wire) /\ wire # <<>>
      <4> HIDE DEF i
      <4>1. Len(wire) \in Nat
        BY <1>5
      <4>2. i = Len(wire) /\ Len(wire) # 0
        BY <3>1, <4>1
      <4>3. QED
        BY <1>5, <4>2, Zenon
    <3>3. QED
      BY <1>1, <2>2, <3>2 DEF Start, Written
  <2>3. QED
    BY <2>1, <2>2
<1>7. PlaceInv'
  <2>1. Len(taken') <= Len(wire')
    BY <1>1, <1>2, <1>4, <1>5
  <2>2. front' = Start(Len(taken) + 1)'
    <3>1. Written' = Written
      BY <1>2 DEF Written
    <3>2. Len(taken') + 1 = i + 1
      BY <1>4
    <3> HIDE DEF i
    <3>3. QED
      BY <1>2, <1>6, <3>1, <3>2 DEF Start
  <2>3. \A j \in DOMAIN taken' : taken'[j] = Meaning(wire[j].of, j)
    BY <1>4 DEF StreamInv, PlaceInv
  <2>4. \A j \in DOMAIN taken' : taken'[j] = Meaning(wire'[j].of, j)
    BY <1>2, <2>3
  <2>5. QED
    BY <1>2, <2>1, <2>2, <2>4 DEF PlaceInv
<1>8. QED
  BY <1>3, <1>7 DEF StreamInv

LEMMA StreamInvNext ==
  TypeOK /\ HeadersInv /\ StreamTypeInv /\ StreamInv /\ Short
    /\ [StreamNext]_streamVars => StreamInv'
<1> SUFFICES ASSUME TypeOK, HeadersInv, StreamTypeInv, StreamInv, Short,
                    [StreamNext]_streamVars
             PROVE  StreamInv'
  OBVIOUS
<1>1. ASSUME UNCHANGED <<wire, front, kind, taken>> PROVE StreamInv'
  BY <1>1 DEF StreamInv, WireInv, PlaceInv, Start, Written
<1>2. ASSUME NEW m \in Messages, NEW s \in Sizes, Compose(m, s)
      PROVE  StreamInv'
  BY <1>1, <1>2 DEF Compose, receiverVars
<1>3. CASE Formatting \/ Number \/ Arrive
  BY <1>1, <1>3 DEF Formatting, Number, Arrive, receiverVars
<1>4. CASE UNCHANGED streamVars
  BY <1>1, <1>4 DEF streamVars, receiverVars
<1>5. QED
  BY <1>2, <1>3, <1>4, TransmitKeeps, AnnounceKeeps, DeliverKeeps
     DEF StreamNext

LEMMA StreamAlways ==
  StreamSpec /\ []Short =>
    [](TypeOK /\ HeadersInv /\ StreamTypeInv /\ StreamInv)
BY StreamTypeAlways, StreamInvInit, StreamInvNext, PTL DEF StreamSpec

(* As long as no message is longer than the length in its header can say,  *)
(* the receiver keeps its place in the stream.                             *)
THEOREM ShortInPlace == StreamSpec /\ []Short => []InPlace
<1>1. StreamTypeInv /\ StreamInv => InPlace
  BY DEF StreamInv, PlaceInv, Start, InPlace
<1>2. QED
  BY <1>1, StreamAlways, PTL

-----------------------------------------------------------------------------
(* The refinement.                                                         *)

(* The safety part of ImplementsFifo: messages are taken once, in order.   *)
TakesInOrder == Fifo!Init /\ [][Fifo!Next]_Fifo!vars

LEMMA FifoInit == StreamInit => Fifo!Init
<1> SUFFICES ASSUME StreamInit PROVE Fifo!Init
  OBVIOUS
<1>1. wire = <<>> /\ taken = <<>>
  BY DEF StreamInit
<1>2. Sent = <<>>
  BY <1>1 DEF Sent
<1>3. QED
  BY <1>1, <1>2 DEF Fifo!Init

LEMMA FifoNext ==
  TypeOK /\ HeadersInv /\ StreamTypeInv /\ StreamInv
    /\ [StreamNext]_streamVars => [Fifo!Next]_Fifo!vars
<1> SUFFICES ASSUME TypeOK, HeadersInv, StreamTypeInv, StreamInv,
                    [StreamNext]_streamVars
             PROVE  [Fifo!Next]_Fifo!vars
  OBVIOUS
<1>1. ASSUME UNCHANGED <<wire, taken>> PROVE UNCHANGED Fifo!vars
  BY <1>1 DEF Fifo!vars, Sent
<1>2. CASE Transmit
  <2> DEFINE x == Meaning(msg, Len(wire) + 1)
             r == [of |-> msg, head |-> hdr, from |-> Written,
                   to |-> Written + ret]
  <2>1. /\ wire' = Append(wire, r) /\ r \in SentRecords /\ r.of = msg
        /\ wire \in Seq(SentRecords)
    BY <1>2, WireType, WrittenType
       DEF Transmit, TypeOK, SentRecords, StreamTypeInv
  <2> HIDE DEF r
  <2>2. /\ DOMAIN wire' = 1..(Len(wire) + 1) /\ DOMAIN wire = 1..Len(wire)
        /\ \A i \in DOMAIN wire : wire'[i] = wire[i]
        /\ wire'[Len(wire) + 1] = r /\ Len(wire) \in Nat
    BY <2>1
  <2>3. Sent' = Append(Sent, x)
    <3>1. Len(Sent) = Len(wire) /\ DOMAIN Sent = 1..Len(wire)
      BY <2>2 DEF Sent
    <3>2. \A i \in 1..Len(wire) : Sent'[i] = Sent[i]
      BY <2>2 DEF Sent
    <3>3. Sent'[Len(wire) + 1] = x
      BY <2>1, <2>2 DEF Sent
    <3>4. DOMAIN Sent' = 1..(Len(wire) + 1)
      BY <2>2 DEF Sent
    <3>5. Sent' = [i \in 1..(Len(wire) + 1) |-> Sent'[i]]
      BY <2>2 DEF Sent
    <3> HIDE DEF x
    <3>6. QED
      BY <2>2, <3>1, <3>2, <3>3, <3>4, <3>5
  <2>4. x \in Meanings
    <3>1. Len(wire) + 1 \in 1..MaxSeq
      BY <1>2, <2>2 DEF Transmit, NextSeq, TypeOK, Headers
    <3>2. QED
      BY <3>1 DEF TypeOK, Meanings
  <2> HIDE DEF x
  <2>5. UNCHANGED taken
    BY <1>2 DEF Transmit, receiverVars
  <2>6. Fifo!Send
    BY <2>3, <2>4, <2>5 DEF Fifo!Send
  <2>7. QED
    BY <2>6 DEF Fifo!Next
<1>3. CASE Deliver
  <2> DEFINE i == Len(taken) + 1
  <2>1. i \in DOMAIN wire /\ taken' = Append(taken, Meaning(wire[i].of, i))
    BY <1>3, DeliverTakes
  <2>2. Len(Sent) = Len(wire) /\ Sent[i] = Meaning(wire[i].of, i)
    BY <2>1, WireType DEF Sent, StreamTypeInv
  <2>3. Len(taken) < Len(Sent)
    BY <1>3, <2>2 DEF Deliver, StreamInv, PlaceInv
  <2>4. QED
    BY <1>3, <2>1, <2>2, <2>3 DEF Deliver, Fifo!Next, Fifo!Take, Sent
<1>4. ASSUME NEW m \in Messages, NEW s \in Sizes, Compose(m, s)
      PROVE  [Fifo!Next]_Fifo!vars
  BY <1>1, <1>4 DEF Compose, receiverVars
<1>5. CASE Formatting \/ Number \/ Arrive \/ Announce
  BY <1>1, <1>5 DEF Formatting, Number, Arrive, Announce, receiverVars
<1>6. CASE UNCHANGED streamVars
  BY <1>1, <1>6 DEF streamVars, receiverVars
<1>7. QED
  BY <1>2, <1>3, <1>4, <1>5, <1>6 DEF StreamNext

(* As long as no message is longer than the length in its header can say,  *)
(* the receiver is told of each message that was sent, once, in order, for *)
(* what it was meant to be, and of nothing else.                           *)
THEOREM ShortTakesInOrder == StreamSpec /\ []Short => TakesInOrder
BY FifoInit, FifoNext, StreamAlways, PTL DEF StreamSpec, TakesInOrder

-----------------------------------------------------------------------------
(* When messages are short enough.                                         *)

LEMMA FitAlways ==
  ASSUME \A m \in Messages : AsksForIt(m.body) /\ AsksForIt(m.inner)
  PROVE  StreamSpec => [](TypeOK /\ FitInv)
<1>1. StreamInit => FitInv
  BY FitInit DEF StreamInit
<1>2. TypeOK /\ FitInv /\ [StreamNext]_streamVars => FitInv'
  <2>1. [StreamNext]_streamVars => [Next]_vars
    BY StreamFormats DEF streamVars, senderVars, vars
  <2>2. QED
    BY <2>1, FitNext
<1>3. StreamSpec => []TypeOK
  BY FormatterAlways, PTL
<1>4. QED
  BY <1>1, <1>2, <1>3, PTL DEF StreamSpec

(* A sender whose formatters check each chunk for what they write, and     *)
(* whose buffer has less than 65536 bytes, keeps its receiver in place,    *)
(* also when the formatters drop the result of a callee or add a failure   *)
(* to the size; and the receiver takes every message in order.             *)
THEOREM SmallBuffersInPlace ==
  ASSUME \A m \in Messages : AsksForIt(m.body) /\ AsksForIt(m.inner),
         \A s \in Sizes : s < U16
  PROVE  StreamSpec => []InPlace /\ TakesInOrder
<1>1. TypeOK /\ FitInv => Short
  BY DEF TypeOK, FitInv, SuccessFits, Succeeded, Short, U16
<1>2. StreamSpec => []Short
  BY <1>1, FitAlways, PTL
<1>3. QED
  BY <1>2, ShortInPlace, ShortTakesInOrder, PTL

(* Nor do the buffers matter when the messages themselves are shorter than *)
(* that: a formatter that drops the result of a callee, or adds a failure  *)
(* to the size, returns less than its message has, never more.             *)
THEOREM ShortMessagesInPlace ==
  ASSUME \A m \in Messages : /\ AsksNoMore(m.body) /\ AsksNoMore(m.inner)
                             /\ WholeSize(m) < U16
  PROVE  StreamSpec => []InPlace /\ TakesInOrder
<1>1. StreamInit => SumInv /\ ReturnInv
  BY SumInit, ReturnInit DEF StreamInit
<1>2. TypeOK /\ HeadersInv /\ SumInv /\ ReturnInv /\ [StreamNext]_streamVars
        => SumInv' /\ ReturnInv'
  <2>1. [StreamNext]_streamVars => [Next]_vars
    BY StreamFormats DEF streamVars, senderVars, vars
  <2>2. \A m \in Messages : AsksNoMore(m.body) /\ AsksNoMore(m.inner)
    OBVIOUS
  <2>3. TypeOK /\ HeadersInv /\ SumInv /\ [Next]_vars => SumInv'
    BY <2>2, SumNext
  <2>4. QED
    BY <2>1, <2>3, ReturnNext
<1>3. TypeOK /\ SumInv /\ ReturnInv => Short
  <2> SUFFICES ASSUME TypeOK, SumInv, ReturnInv, Succeeded PROVE ret < U16
    BY DEF Short
  <2>1. ret <= WholeSize(msg) /\ WholeSize(msg) < U16 /\ WholeSize(msg) \in Nat
    BY SizesNat DEF ReturnInv, Succeeded, TypeOK
  <2>2. QED
    BY <2>1 DEF TypeOK, U16
<1>4. StreamSpec => [](TypeOK /\ HeadersInv)
  BY FormatterAlways, PTL
<1>5. StreamSpec => []Short
  BY <1>1, <1>2, <1>3, <1>4, PTL DEF StreamSpec
<1>6. QED
  BY <1>5, ShortInPlace, ShortTakesInOrder, PTL

(* That is every message of the library's formatters, for any number of    *)
(* cells, measurements, users and UEs that leaves it below 65536 bytes,    *)
(* whatever buffers they are given.                                        *)
THEOREM FormattersInPlace ==
  ASSUME Messages \subseteq FixedCalls \cup OddCalls \cup ArrayCalls
                             \cup SliceCalls \cup LooseCalls,
         \A m \in Messages : WholeSize(m) < U16
  PROVE  StreamSpec => []InPlace /\ TakesInOrder
<1>1. \A m \in Messages : AsksNoMore(m.body) /\ AsksNoMore(m.inner)
  BY FormattersAskNoMore
<1>2. QED
  BY <1>1, ShortMessagesInPlace
=============================================================================
