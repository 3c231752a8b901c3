---------------------------- MODULE EpFormat_proofs ----------------------------
(***************************************************************************)
(* Proofs about EpFormat, for every list of messages and every size of     *)
(* buffer: headers and length in a reused buffer are those of the last     *)
(* message that succeeded; a formatter that asks for what it writes never  *)
(* exceeds the buffer; one that asks for no more fails only for want of    *)
(* room; and what it returns is the size of the whole message.             *)
(***************************************************************************)
EXTENDS EpFormat, EpMessages_proofs

USE MessagesAssumption, SizesAssumption, NonEmptyAssumption, BoundsAssumption

LEMMA LoopType ==
  ASSUME NEW loops \in Seq(Loops), TypeOK, k <= Len(loops)
  PROVE  /\ loops[k].turns \in Nat
         /\ loops[k].need \in Nat
         /\ loops[k].put \in Nat
<1>1. k \in 1..Len(loops)
  BY DEF TypeOK
<1>2. loops[k] \in Loops
  BY <1>1
<1>3. QED
  BY <1>2 DEF Loops

LEMMA MsgType ==
  ASSUME TypeOK
  PROVE  /\ msg \in Messages
         /\ msg.evt \in MsgTypes /\ msg.dir \in Dirs
         /\ msg.act \in Actions /\ msg.op \in Ops
         /\ msg.body \in Seq(Loops) /\ msg.inner \in Seq(Loops)
BY DEF TypeOK, MsgTypes

\* A step that writes no header.
LEMMA PutEffect ==
  ASSUME NEW loops \in Seq(Loops), TypeOK, Put(loops)
  PROVE  /\ pos' \in Nat /\ pos' >= pos
         /\ room' \in Int /\ turn' \in Nat
         /\ pos' = pos + loops[k].put /\ room' = room - loops[k].put
         /\ loops[k].need <= room
         /\ k \in 1..Len(loops)
<1>1. k \in 1..Len(loops) /\ Turns(loops) /\ ~NoRoom(loops)
  BY DEF Put, Turns, TypeOK
<1>2. loops[k].put \in Nat /\ loops[k].need \in Nat
  BY <1>1, LoopType
<1>3. QED
  BY <1>1, <1>2 DEF Put, NoRoom, TypeOK

-----------------------------------------------------------------------------
(* Type correctness.                                                       *)

LEMMA TypeInit == Init => TypeOK
<1> SUFFICES ASSUME Init PROVE TypeOK
  OBVIOUS
<1>1. hdr \in Headers
  BY DEF Init, Headers, MsgTypes, Dirs, Actions, Ops, U16
<1>2. msg \in Messages /\ size \in Sizes
  BY DEF Init
<1>3. QED
  BY <1>1, <1>2 DEF Init, TypeOK

LEMMA TypeNext == TypeOK /\ [Next]_vars => TypeOK'
<1> SUFFICES ASSUME TypeOK, [Next]_vars PROVE TypeOK'
  OBVIOUS
<1> USE DEF TypeOK
<1>0. size \in Nat
  OBVIOUS
<1>1. ASSUME NEW m \in Messages, NEW s \in Sizes, Call(m, s) PROVE TypeOK'
  BY <1>1 DEF Call
<1>2. CASE SetSeq
  BY <1>2 DEF SetSeq, callVars, Headers
<1>3. CASE NoBuffer
  BY <1>3 DEF NoBuffer, Return, callVars
<1>4. CASE MasterHead
  <2>1. hdr' \in Headers
    BY <1>4, MsgType DEF MasterHead, Headers
  <2>2. pos' \in Nat /\ room' \in Int
    BY <1>0, <1>4 DEF MasterHead, SizeofHdr
  <2>3. ret' \in Nat \cup {-1} /\ pc' \in {"event", "done"}
    BY <1>4 DEF MasterHead, Return, SizeofHdr
  <2>4. QED
    BY <1>4, <2>1, <2>2, <2>3 DEF MasterHead, callVars
<1>5. CASE EventHead
  <2>1. hdr' \in Headers
    BY <1>5, MsgType DEF EventHead, EventFields, Headers
  <2>2. SizeofEvent(msg.evt) \in Nat
    BY DEF SizeofEvent, SizeofSingle, SizeofSchedule
  <2>3. pos' \in Nat /\ room' \in Int
    BY <1>0, <1>5, <2>2 DEF EventHead
  <2>4. ret' \in Nat \cup {-1} /\ pc' \in {"body", "done"}
    BY <1>5, <2>3 DEF EventHead, Return
  <2>5. QED
    BY <1>5, <2>1, <2>3, <2>4 DEF EventHead, callVars
<1>6. CASE Crash
  BY <1>6 DEF Crash, callVars
<1>7. ASSUME NEW loops \in Seq(Loops), Put(loops) PROVE TypeOK'
  BY <1>7, PutEffect DEF Put, callVars
<1>8. ASSUME NEW loops \in Seq(Loops), Leave(loops) PROVE TypeOK'
  BY <1>8 DEF Leave, callVars
<1>9. CASE BodyTurn \/ InnerTurn
  BY <1>7, <1>8, <1>9, MsgType DEF BodyTurn, InnerTurn
<1>10. CASE BodyFails
  BY <1>10 DEF BodyFails, Return, callVars
<1>11. CASE BodyEnds
  <2>1. (size - pos) % UintMod \in Int
    BY <1>0
  <2>2. QED
    BY <1>11, <2>1 DEF BodyEnds, callVars
<1>12. CASE InnerFails
  BY <1>12 DEF InnerFails, callVars
<1>13. CASE InnerEnds
  BY <1>13 DEF InnerEnds, callVars
<1>14. CASE Length
  <2>1. ret \in Int /\ U16 \in Nat \ {0}
    BY DEF U16
  <2>2. LengthField \in 0..(U16 - 1)
    BY <2>1, ModRange DEF LengthField
  <2>3. hdr' \in Headers
    BY <1>14, <2>2 DEF Length, Headers
  <2>4. QED
    BY <1>14, <2>3 DEF Length, Return, callVars
<1>15. CASE UNCHANGED vars
  BY <1>15 DEF vars
<1>16. QED
  BY <1>1, <1>2, <1>3, <1>4, <1>5, <1>6, <1>9, <1>10, <1>11, <1>12, <1>13,
     <1>14, <1>15 DEF Next, Format

(* Every variable stays in its type: among others, the length put in the   *)
(* header always fits its 16 bits.                                         *)
THEOREM TypeCorrect == Spec => []TypeOK
BY TypeInit, TypeNext, PTL DEF Spec

-----------------------------------------------------------------------------
(* Headers and length.                                                     *)

(* Once written, the headers are those of the call in progress, and what   *)
(* is to be returned is a size.                                            *)
HeadersInv ==
  /\ pc \in {"event", "body", "inner", "length"} =>
       hdr.type = msg.evt /\ hdr.dir = msg.dir
  /\ pc \in {"body", "inner", "length"} =>
       /\ hdr.act = msg.act /\ hdr.op = msg.op
       /\ ret \in Nat
       /\ pos >= SizeofHdr
  /\ pc = "event" => pos >= SizeofHdr
  /\ pc = "inner" => mark >= SizeofHdr
  /\ HeadersOfMessage

LEMMA HeadersInit == Init => HeadersInv
BY DEF Init, HeadersInv, HeadersOfMessage, Succeeded

LEMMA HeadersNext == TypeOK /\ HeadersInv /\ [Next]_vars => HeadersInv'
<1> SUFFICES ASSUME TypeOK, HeadersInv, [Next]_vars PROVE HeadersInv'
  OBVIOUS
<1> USE DEF HeadersInv, HeadersOfMessage, Succeeded
<1>1. ASSUME NEW m \in Messages, NEW s \in Sizes, Call(m, s)
      PROVE  HeadersInv'
  BY <1>1 DEF Call
<1>2. CASE SetSeq
  <2>1. PICK q \in 0..MaxSeq : hdr' = [hdr EXCEPT !.seq = q]
    BY <1>2 DEF SetSeq
  <2>2. /\ hdr'.type = hdr.type /\ hdr'.dir = hdr.dir
        /\ hdr'.act = hdr.act /\ hdr'.op = hdr.op /\ hdr'.len = hdr.len
    BY <2>1 DEF TypeOK, Headers
  <2>3. QED
    BY <1>2, <2>2 DEF SetSeq, callVars
<1>3. CASE NoBuffer
  BY <1>3 DEF NoBuffer, Return
<1>4. CASE MasterHead
  <2>1. CASE room < SizeofHdr
    BY <1>4, <2>1 DEF MasterHead, Return
  <2>2. CASE ~(room < SizeofHdr)
    <3>1. hdr' = [hdr EXCEPT !.type = msg.evt, !.dir = msg.dir]
      BY <1>4, <2>2 DEF MasterHead
    <3>2. hdr'.type = msg.evt /\ hdr'.dir = msg.dir
      BY <3>1 DEF TypeOK, Headers
    <3>3. QED
      BY <1>4, <2>2, <3>2 DEF MasterHead, callVars, SizeofHdr
  <2>3. QED
    BY <2>1, <2>2
<1>5. CASE EventHead
  <2>1. CASE room < EventNeed(msg.evt)
    BY <1>5, <2>1 DEF EventHead, Return
  <2>2. CASE ~(room < EventNeed(msg.evt))
    <3>1. hdr' = [hdr EXCEPT !.act = msg.act, !.op = msg.op]
      BY <1>5, <2>2 DEF EventHead, EventFields
    <3>2. /\ hdr'.type = hdr.type /\ hdr'.dir = hdr.dir
          /\ hdr'.act = msg.act /\ hdr'.op = msg.op
      BY <3>1 DEF TypeOK, Headers
    <3>3. pos' >= SizeofHdr /\ ret' \in Nat
      BY <1>5, <2>2 DEF EventHead, TypeOK, SizeofEvent, SizeofSingle,
                        SizeofSchedule, SizeofHdr
    <3>4. QED
      BY <1>5, <2>2, <3>2, <3>3 DEF EventHead, callVars
  <2>3. QED
    BY <2>1, <2>2
<1>6. CASE Crash
  BY <1>6 DEF Crash, callVars
<1>7. ASSUME NEW loops \in Seq(Loops), Put(loops) PROVE HeadersInv'
  BY <1>7, PutEffect DEF Put, callVars, TypeOK, SizeofHdr
<1>8. ASSUME NEW loops \in Seq(Loops), Leave(loops) PROVE HeadersInv'
  BY <1>8 DEF Leave, callVars
<1>9. CASE BodyTurn \/ InnerTurn
  BY <1>7, <1>8, <1>9, MsgType DEF BodyTurn, InnerTurn
<1>10. CASE BodyFails
  BY <1>10 DEF BodyFails, Return, callVars
<1>11. CASE BodyEnds
  BY <1>11 DEF BodyEnds, callVars, TypeOK
<1>12. CASE InnerFails
  BY <1>12 DEF InnerFails, callVars, TypeOK, SizeofHdr
<1>13. CASE InnerEnds
  BY <1>13 DEF InnerEnds, callVars, TypeOK
<1>14. CASE Length
  <2>1. hdr' = [hdr EXCEPT !.len = ret % U16]
    BY <1>14 DEF Length, LengthField
  <2>2. /\ hdr'.type = hdr.type /\ hdr'.dir = hdr.dir
        /\ hdr'.act = hdr.act /\ hdr'.op = hdr.op /\ hdr'.len = ret % U16
    BY <2>1 DEF TypeOK, Headers
  <2>3. QED
    BY <1>14, <2>2 DEF Length, Return, callVars
<1>15. CASE UNCHANGED vars
  BY <1>15 DEF vars
<1>16. QED
  BY <1>1, <1>2, <1>3, <1>4, <1>5, <1>6, <1>9, <1>10, <1>11, <1>12, <1>13,
     <1>14, <1>15 DEF Next, Format

LEMMA HeadersAlways == Spec => [](TypeOK /\ HeadersInv)
BY TypeCorrect, HeadersInit, HeadersNext, PTL DEF Spec

(* However often a buffer is used, and wherever earlier calls failed, the  *)
(* headers of a message that was formatted successfully are its own.       *)
THEOREM HeadersAreOfMessage == Spec => []HeadersOfMessage
<1>1. HeadersInv => HeadersOfMessage
  BY DEF HeadersInv
<1>2. QED
  BY <1>1, HeadersAlways, PTL

(* The length in the buffer changes only with a success.                   *)
THEOREM LengthChangesOnSuccess == Spec => LengthOnSuccess
<1>1. TypeOK /\ HeadersInv /\ [Next]_vars =>
        [hdr'.len # hdr.len => pc' = "done" /\ ret' >= 0]_vars
  <2> SUFFICES ASSUME TypeOK, HeadersInv, Next, hdr'.len # hdr.len
               PROVE  pc' = "done" /\ ret' >= 0
    OBVIOUS
  <2>1. CASE Length
    BY <2>1 DEF Length, Return, HeadersInv
  <2>2. CASE SetSeq \/ MasterHead \/ EventHead
    BY <2>2 DEF SetSeq, MasterHead, EventHead, EventFields, TypeOK, Headers
  <2>3. CASE hdr' = hdr
    BY <2>3
  <2>4. QED
    BY <2>1, <2>2, <2>3 DEF Next, Call, Format, NoBuffer, Crash, BodyTurn,
       BodyFails, BodyEnds, InnerTurn, InnerFails, InnerEnds, Put, Leave
<1>2. QED
  BY <1>1, HeadersAlways, PTL DEF Spec, LengthOnSuccess

(* From its call to its return no formatter changes the sequence number.   *)
THEOREM SeqAlwaysKept == Spec => SeqKept
<1>1. TypeOK /\ [Next]_vars =>
        [pc \notin {"idle", "done"} => hdr'.seq = hdr.seq]_vars
  <2> SUFFICES ASSUME TypeOK, Next, pc \notin {"idle", "done"}
               PROVE  hdr'.seq = hdr.seq
    OBVIOUS
  <2>1. CASE Length \/ MasterHead \/ EventHead
    BY <2>1 DEF Length, MasterHead, EventHead, EventFields, TypeOK, Headers
  <2>2. CASE hdr' = hdr
    BY <2>2
  <2>3. QED
    BY <2>1, <2>2 DEF Next, Call, SetSeq, Format, NoBuffer, Crash, BodyTurn,
       BodyFails, BodyEnds, InnerTurn, InnerFails, InnerEnds, Put, Leave
<1>2. QED
  BY <1>1, TypeCorrect, PTL DEF Spec, SeqKept

-----------------------------------------------------------------------------
(* The size.                                                               *)

\* Each check asks for at least what is written after it.
AsksForIt(loops) == \A i \in 1..Len(loops) : loops[i].put <= loops[i].need

(* What is laid out is within the buffer, and `room' is what is left.      *)
FitInv ==
  /\ pc = "head" => pos = 0 /\ room = size
  /\ pc \in {"event", "body", "inner"} => pos <= size /\ room = size - pos
  /\ pc \in {"event", "body", "inner", "length"} => ret <= size
  /\ pc = "inner" => mark <= size
  /\ SuccessFits

LEMMA FitInit == Init => FitInv
BY DEF Init, FitInv, SuccessFits, Succeeded

LEMMA FitNext ==
  ASSUME \A m \in Messages : AsksForIt(m.body) /\ AsksForIt(m.inner)
  PROVE  TypeOK /\ FitInv /\ [Next]_vars => FitInv'
<1> SUFFICES ASSUME TypeOK, FitInv, [Next]_vars PROVE FitInv'
  OBVIOUS
<1> USE DEF FitInv, SuccessFits, Succeeded
<1>0. size \in Nat /\ size < UintMod /\ UintMod \in Nat
  BY DEF TypeOK
<1>1. ASSUME NEW m \in Messages, NEW s \in Sizes, Call(m, s) PROVE FitInv'
  BY <1>1 DEF Call
<1>2. CASE SetSeq
  BY <1>2 DEF SetSeq, callVars
<1>3. CASE NoBuffer
  BY <1>3 DEF NoBuffer, Return
<1>4. CASE MasterHead
  BY <1>0, <1>4 DEF MasterHead, Return, callVars, SizeofHdr
<1>5. CASE EventHead
  <2>1. /\ SizeofEvent(msg.evt) \in Nat /\ EventNeed(msg.evt) \in Nat
        /\ SizeofEvent(msg.evt) <= EventNeed(msg.evt)
    BY DEF SizeofEvent, EventNeed, SizeofSingle, SizeofSchedule, SizeofHdr
  <2>2. QED
    BY <1>0, <1>5, <2>1 DEF EventHead, Return, callVars, TypeOK
<1>6. CASE Crash
  BY <1>6 DEF Crash, callVars
<1>7. ASSUME NEW loops \in Seq(Loops), AsksForIt(loops), Put(loops),
             pc \in {"body", "inner"}
      PROVE  FitInv'
  <2>1. loops[k].put <= loops[k].need /\ loops[k].put \in Nat
        /\ loops[k].need \in Nat
    BY <1>7, PutEffect, LoopType DEF AsksForIt, TypeOK
  <2>2. pos' <= size /\ room' = size - pos'
    BY <1>0, <1>7, <2>1, PutEffect DEF TypeOK
  <2>3. QED
    BY <1>7, <2>2 DEF Put, callVars
<1>8. ASSUME NEW loops \in Seq(Loops), Leave(loops) PROVE FitInv'
  BY <1>8 DEF Leave, callVars
<1>9. CASE BodyTurn \/ InnerTurn
  <2>1. /\ msg.body \in Seq(Loops) /\ AsksForIt(msg.body)
        /\ msg.inner \in Seq(Loops) /\ AsksForIt(msg.inner)
    BY MsgType
  <2>2. QED
    BY <1>7, <1>8, <1>9, <2>1 DEF BodyTurn, InnerTurn
<1>10. CASE BodyFails
  BY <1>10 DEF BodyFails, Return, callVars
<1>11. CASE BodyEnds
  <2>1. (size - pos) % UintMod = size - pos
    <3>1. size - pos \in Nat /\ size - pos < UintMod
      BY <1>0, <1>11 DEF BodyEnds, TypeOK
    <3>2. QED
      BY <1>0, <3>1, ModSmall
  <2>2. QED
    BY <1>0, <1>11, <2>1 DEF BodyEnds, callVars, TypeOK
<1>12. CASE InnerFails
  BY <1>0, <1>12 DEF InnerFails, callVars, TypeOK
<1>13. CASE InnerEnds
  BY <1>13 DEF InnerEnds, callVars, TypeOK
<1>14. CASE Length
  BY <1>14 DEF Length, Return, callVars
<1>15. CASE UNCHANGED vars
  BY <1>15 DEF vars
<1>16. QED
  BY <1>1, <1>2, <1>3, <1>4, <1>5, <1>6, <1>9, <1>10, <1>11, <1>12, <1>13,
     <1>14, <1>15 DEF Next, Format

(* A formatter whose every check asks for at least what is written after   *)
(* it never returns a size above the one it was given, for any number of   *)
(* tokens, also when the result of a callee is dropped or a failure is     *)
(* added to the size; and its unsigned difference never wraps around.      *)
THEOREM CheckedFits ==
  ASSUME \A m \in Messages : AsksForIt(m.body) /\ AsksForIt(m.inner)
  PROVE  Spec => []SuccessFits
<1>1. FitInv => SuccessFits
  BY DEF FitInv
<1>2. QED
  BY <1>1, TypeCorrect, FitInit, FitNext, PTL DEF Spec

-----------------------------------------------------------------------------
(* Which formatters these are.                                             *)

\* Each check asks for just what is written after it.
Exact(loops)  == \A i \in 1..Len(loops) : loops[i].put = loops[i].need
AsksForAll(m) == Exact(m.body) /\ Exact(m.inner)

\* A size of a chunk that EpMessages writes more than once, or optionally.
ChunkSizes == {SizeofCellCap, SizeofRanCaps, SizeofRrcReq, SizeofRrcRep,
               SizeofMacSched, SizeofSliceSched, SizeofRnti, SizeofHello,
               SizeofUeRepReq, SizeofPrbReq, SizeofHoReq, SizeofHoRep,
               SizeofSliceInf, SizeofRanSetup, SizeofSliceRes,
               SizeofTLV + SizeofRnti}

LEMMA ChunksAreNat == ChunkSizes \subseteq Nat
BY DEF ChunkSizes, SizeofCellCap, SizeofRanCaps, SizeofRrcReq, SizeofRrcRep,
       SizeofMacSched, SizeofSliceSched, SizeofRnti, SizeofHello,
       SizeofUeRepReq, SizeofPrbReq, SizeofHoReq, SizeofHoRep, SizeofSliceInf,
       SizeofRanSetup, SizeofSliceRes, SizeofTLV

\* The sequences of loops that ask for just what they write.
Asking == {loops \in Seq(Loops) : Exact(loops)}

LEMMA TimesAsks ==
  ASSUME NEW t \in Nat, NEW b \in ChunkSizes
  PROVE  Times(t, b) \in Asking
<1>1. b \in Nat
  BY ChunksAreNat
<1>2. Loop(t, b, b) \in Loops /\ Loop(t, b, b).put = Loop(t, b, b).need
  BY <1>1 DEF Loop, Loops
<1>3. QED
  BY <1>2 DEF Times, Asking, Exact

LEMMA NoneAsks == <<>> \in Asking
BY DEF Asking, Exact

LEMMA OnceAsks ==
  ASSUME NEW b \in ChunkSizes
  PROVE  Once(b) \in Asking
BY TimesAsks DEF Once

LEMMA OptAsks ==
  ASSUME NEW p \in BOOLEAN, NEW b \in ChunkSizes
  PROVE  Opt(p, b) \in Asking
BY TimesAsks DEF Opt

LEMMA ConcatAsks ==
  ASSUME NEW s \in Asking, NEW t \in Asking
  PROVE  s \o t \in Asking
<1>1. s \in Seq(Loops) /\ t \in Seq(Loops) /\ s \o t \in Seq(Loops)
  BY DEF Asking
<1>2. ASSUME NEW i \in 1..Len(s \o t)
      PROVE  (s \o t)[i].put = (s \o t)[i].need
  <2>1. CASE i <= Len(s)
    <3>1. i \in 1..Len(s) /\ (s \o t)[i] = s[i]
      BY <1>1, <2>1
    <3>2. QED
      BY <3>1 DEF Asking, Exact
  <2>2. CASE i > Len(s)
    <3>1. i - Len(s) \in 1..Len(t) /\ (s \o t)[i] = t[i - Len(s)]
      BY <1>1, <2>2
    <3>2. QED
      BY <3>1 DEF Asking, Exact
  <2>3. QED
    BY <1>1, <2>1, <2>2
<1>3. QED
  BY <1>1, <1>2 DEF Asking, Exact

LEMMA SliceTokensAsk ==
  ASSUME NEW b \in BOOLEAN, NEW users \in Nat
  PROVE  SliceTokens(b, users) \in Asking
<1>1. RntiReport(users) \in Asking
  <2>1. CASE users = 0
    BY <2>1, NoneAsks DEF RntiReport
  <2>2. CASE users # 0
    <3>1. Once(SizeofTLV + SizeofRnti) \in Asking
      BY OnceAsks DEF ChunkSizes
    <3>2. Times(users - 1, SizeofRnti) \in Asking
      BY <2>2, TimesAsks DEF ChunkSizes
    <3>3. QED
      BY <2>2, <3>1, <3>2, ConcatAsks DEF RntiReport
  <2>3. QED
    BY <2>1, <2>2
<1>2. Once(SizeofSliceRes) \in Asking /\ Opt(b, SizeofSliceSched) \in Asking
  BY OnceAsks, OptAsks DEF ChunkSizes
<1>3. Once(SizeofSliceRes) \o Opt(b, SizeofSliceSched) \in Asking
  BY <1>2, ConcatAsks
<1>4. QED
  BY <1>1, <1>3, ConcatAsks DEF SliceTokens

(* The slice messages that are sent to a base station, which write the     *)
(* list of users of any length.                                            *)
SliceCalls ==
  {epf_single_ran_slice_add(b, users) : b \in BOOLEAN, users \in Nat}
  \cup {epf_single_ran_slice_set(d, b, users) :
          d \in BOOLEAN, b \in BOOLEAN, users \in Nat}
  \cup {epf_single_ran_slice_req, epf_single_ran_slice_rem}

\* The messages with arrays, of any count.
ArrayCalls ==
  {epf_single_ecap_rep(cells, ran) : cells \in Nat, ran \in Nat}
  \cup {epf_trigger_uemeas_req(op, rrc) : op \in Ops, rrc \in Nat}
  \cup {epf_trigger_uemeas_rep(rrc) : rrc \in Nat}
  \cup {epf_single_ran_setup_rep(b) : b \in BOOLEAN}

\* The messages of one size each.
FixedCalls ==
  {epf_single_hello_req, epf_single_hello_rep, epf_sched_hello_req,
   epf_single_ecap_req,
   epf_trigger_uerep_rep_fail, epf_trigger_uemeas_rep_fail,
   epf_sched_cell_meas_req, epf_sched_cell_meas_fail, epf_sched_cell_meas_ns,
   epf_trigger_cell_meas_req, epf_trigger_cell_meas_fail,
   epf_trigger_cell_meas_ns,
   epf_single_ho_req, epf_single_ho_rep, epf_single_ho_rep_fail,
   epf_single_ho_rep_ns, epf_single_ran_setup_req}
  \cup {epf_trigger_uerep_req(op) : op \in Ops}
  \cup UNION {{epf_single_ran_rep_success(act), epf_single_ran_rep_fail(act),
               epf_single_ran_rep_ns(act)} : act \in Actions}

\* Those that drop what their body returns, or read details not given.
OddCalls == {epf_sched_hello_rep} \cup UnguardedCalls

\* The messages some chunk of which is not checked for what is written.
LooseCalls ==
  {epf_trigger_uerep_rep(ues) : ues \in Nat}
  \cup {epf_sched_cell_meas_rep(b) : b \in BOOLEAN}
  \cup {epf_trigger_cell_meas_rep(b) : b \in BOOLEAN}
  \cup {epf_single_ran_slice_rep(b, users) : b \in BOOLEAN, users \in Nat}

LEMMA FixedCallsShape ==
  ASSUME NEW m \in FixedCalls
  PROVE  /\ m.inner = <<>> /\ m.counted
         /\ m.body = <<>> \/ \E b \in ChunkSizes : m.body = Once(b)
<1> USE DEF Message, CellMeas, Handover, Ran, HelloReqBody, HelloRepBody,
            CellMeasReqBody, HoReqBody, HoRepBody, ChunkSizes
<1>1. CASE m \in {epf_single_hello_req, epf_single_hello_rep,
                  epf_sched_hello_req, epf_single_ecap_req,
                  epf_trigger_uerep_rep_fail, epf_trigger_uemeas_rep_fail}
  BY <1>1 DEF epf_single_hello_req, epf_single_hello_rep,
     epf_sched_hello_req, epf_single_ecap_req,
     epf_trigger_uerep_rep_fail, epf_trigger_uemeas_rep_fail
<1>2. CASE m \in {epf_sched_cell_meas_req, epf_sched_cell_meas_fail,
                  epf_sched_cell_meas_ns, epf_trigger_cell_meas_req,
                  epf_trigger_cell_meas_fail, epf_trigger_cell_meas_ns}
  BY <1>2 DEF epf_sched_cell_meas_req, epf_sched_cell_meas_fail,
     epf_sched_cell_meas_ns, epf_trigger_cell_meas_req,
     epf_trigger_cell_meas_fail, epf_trigger_cell_meas_ns
<1>3. CASE m \in {epf_single_ho_req, epf_single_ho_rep,
                  epf_single_ho_rep_fail, epf_single_ho_rep_ns,
                  epf_single_ran_setup_req}
  BY <1>3 DEF epf_single_ho_req, epf_single_ho_rep, epf_single_ho_rep_fail,
     epf_single_ho_rep_ns, epf_single_ran_setup_req
<1>4. CASE \E op \in Ops : m = epf_trigger_uerep_req(op)
  BY <1>4 DEF epf_trigger_uerep_req
<1>5. CASE \E act \in Actions :
             m \in {epf_single_ran_rep_success(act),
                    epf_single_ran_rep_fail(act), epf_single_ran_rep_ns(act)}
  BY <1>5 DEF epf_single_ran_rep_success, epf_single_ran_rep_fail,
     epf_single_ran_rep_ns
<1>6. QED
  BY <1>1, <1>2, <1>3, <1>4, <1>5 DEF FixedCalls

LEMMA FixedCallsAsk == \A m \in FixedCalls : AsksForAll(m)
<1>1. ASSUME NEW m, m.inner = <<>>,
             m.body = <<>> \/ \E b \in ChunkSizes : m.body = Once(b)
      PROVE  AsksForAll(m)
  BY <1>1, OnceAsks, NoneAsks DEF AsksForAll, Asking
<1>2. QED
  BY <1>1, FixedCallsShape

LEMMA SliceCallsAsk == \A m \in SliceCalls : AsksForAll(m)
<1>1. SliceId \in Asking /\ <<>> \in Asking
  BY OnceAsks, NoneAsks DEF SliceId, ChunkSizes
<1>2. ASSUME NEW b \in BOOLEAN, NEW users \in Nat
      PROVE  AsksForAll(epf_single_ran_slice_add(b, users))
  BY <1>1, SliceTokensAsk
     DEF AsksForAll, Asking, epf_single_ran_slice_add, Slice
<1>3. ASSUME NEW d \in BOOLEAN, NEW b \in BOOLEAN, NEW users \in Nat
      PROVE  AsksForAll(epf_single_ran_slice_set(d, b, users))
  BY <1>1, SliceTokensAsk
     DEF AsksForAll, Asking, epf_single_ran_slice_set, Slice
<1>4. AsksForAll(epf_single_ran_slice_req) /\ AsksForAll(epf_single_ran_slice_rem)
  BY <1>1 DEF AsksForAll, Asking, epf_single_ran_slice_req,
              epf_single_ran_slice_rem, Slice
<1>5. QED
  BY <1>2, <1>3, <1>4 DEF SliceCalls

LEMMA ArrayCallsAsk == \A m \in ArrayCalls : AsksForAll(m)
<1> USE NoneAsks
<1>1. ASSUME NEW cells \in Nat, NEW ran \in Nat
      PROVE  AsksForAll(epf_single_ecap_rep(cells, ran))
  <2>1. /\ AtMost(cells, EP_ECAP_CELL_MAX) \in Nat
        /\ AtMost(ran, EP_ECAP_CELL_MAX) \in Nat
    BY DEF AtMost, EP_ECAP_CELL_MAX
  <2>2. EcapBody(cells, ran) \in Asking
    BY <2>1, TimesAsks, ConcatAsks DEF EcapBody, ChunkSizes
  <2>3. QED
    BY <2>2 DEF AsksForAll, Asking, epf_single_ecap_rep, Message
<1>2. ASSUME NEW op \in Ops, NEW rrc \in Nat
      PROVE  /\ AsksForAll(epf_trigger_uemeas_req(op, rrc))
             /\ AsksForAll(epf_trigger_uemeas_rep(rrc))
  <2>1. AtMost(rrc, EP_UE_RRC_MEAS_MAX) \in Nat
    BY DEF AtMost, EP_UE_RRC_MEAS_MAX
  <2>2. /\ Times(AtMost(rrc, EP_UE_RRC_MEAS_MAX), SizeofRrcReq) \in Asking
        /\ Times(AtMost(rrc, EP_UE_RRC_MEAS_MAX), SizeofRrcRep) \in Asking
    BY <2>1, TimesAsks DEF ChunkSizes
  <2>3. QED
    BY <2>2 DEF AsksForAll, Asking, UeMeasReqBody, UeMeasRepBody,
                epf_trigger_uemeas_req,
                epf_trigger_uemeas_rep, Message
<1>3. ASSUME NEW b \in BOOLEAN
      PROVE  AsksForAll(epf_single_ran_setup_rep(b))
  <2>1. Once(SizeofRanSetup) \in Asking /\ Opt(b, SizeofMacSched) \in Asking
    BY OnceAsks, OptAsks DEF ChunkSizes
  <2>2. Once(SizeofRanSetup) \o Opt(b, SizeofMacSched) \in Asking
    BY <2>1, ConcatAsks
  <2>3. QED
    BY <2>2 DEF AsksForAll, Asking, epf_single_ran_setup_rep, RanSetupBody, Ran, Message
<1>4. QED
  BY <1>1, <1>2, <1>3 DEF ArrayCalls

LEMMA OddCallsAsk == \A m \in OddCalls : AsksForAll(m)
<1>1. AsksForAll(epf_sched_hello_rep)
  BY OnceAsks, NoneAsks
     DEF AsksForAll, Asking, epf_sched_hello_rep, Message, HelloRepBody,
         ChunkSizes
<1>2. AsksForAll(epf_single_ecap_rep_fail)
  BY NoneAsks DEF AsksForAll, Asking, epf_single_ecap_rep_fail, Unguarded, Message
<1>3. AsksForAll(Unguarded(epf_single_ecap_rep(0, 0)))
  <2>1. AsksForAll(epf_single_ecap_rep(0, 0))
    BY ArrayCallsAsk DEF ArrayCalls
  <2>2. QED
    BY <2>1 DEF AsksForAll, epf_single_ecap_rep, Unguarded, Message
<1>4. AsksForAll(Unguarded(epf_trigger_uemeas_req("ADD", 0)))
  <2>1. AsksForAll(epf_trigger_uemeas_req("ADD", 0))
    BY ArrayCallsAsk DEF ArrayCalls, Ops
  <2>2. QED
    BY <2>1 DEF AsksForAll, epf_trigger_uemeas_req, Unguarded, Message
<1>5. QED
  BY <1>1, <1>2, <1>3, <1>4 DEF OddCalls, UnguardedCalls

(* No formatter but those of LooseCalls returns a size above the one it    *)
(* was given, whatever the number of cells, measurements and users.        *)
THEOREM FormattersFit ==
  ASSUME Messages \subseteq FixedCalls \cup OddCalls \cup ArrayCalls
                             \cup SliceCalls
  PROVE  Spec => []SuccessFits
<1>1. \A m \in Messages : AsksForIt(m.body) /\ AsksForIt(m.inner)
  <2>1. \A m \in Messages : /\ AsksForAll(m)
                             /\ m.body \in Seq(Loops) /\ m.inner \in Seq(Loops)
    BY FixedCallsAsk, OddCallsAsk, SliceCallsAsk, ArrayCallsAsk
  <2>2. \A loops \in Seq(Loops) : Exact(loops) => AsksForIt(loops)
    <3> SUFFICES ASSUME NEW loops \in Seq(Loops), Exact(loops),
                        NEW i \in 1..Len(loops)
                 PROVE  loops[i].put <= loops[i].need
      BY DEF AsksForIt
    <3>1. loops[i] \in Loops
      OBVIOUS
    <3>2. QED
      BY <3>1 DEF Exact, Loops
  <2>3. QED
    BY <2>1, <2>2 DEF AsksForAll
<1>2. QED
  BY <1>1, CheckedFits

-----------------------------------------------------------------------------
(* The size of a message.                                                  *)

\* No check asks for more than what is written after it.
AsksNoMore(loops) == \A i \in 1..Len(loops) : loops[i].need <= loops[i].put

HeaderSize == SizeofHdr + SizeofEvent(msg.evt)

(* How a formatter that succeeds may return another size: it drops what    *)
(* its body returned, or its inner call had not the room.                  *)
WholeUnless == \/ ret = WholeSize(msg)
               \/ ~msg.counted
               \/ msg.inner # <<>> /\ size < WholeSize(msg)

(* The function at work has laid out `base' bytes before its loops, and    *)
(* what its turns have put since.                                          *)
At(loops, base) ==
  /\ k <= Len(loops) =>
       /\ turn <= loops[k].turns
       /\ pos = base + FirstBytes(loops)[k - 1] + turn * loops[k].put
  /\ k > Len(loops) => pos = base + Bytes(loops)

SumInv ==
  /\ pc = "head" => pos = 0 /\ room = size /\ k = 1 /\ turn = 0
  /\ pc = "event" =>
       pos = SizeofHdr /\ room = size - pos /\ k = 1 /\ turn = 0
  /\ pc = "body" => At(msg.body, HeaderSize) /\ room = size - pos
  /\ pc = "inner" => /\ mark = HeaderSize + Bytes(msg.body)
                     /\ At(msg.inner, mark)
                     /\ mark <= size => room = size - pos
                     /\ msg.inner # <<>>
  /\ pc = "length" \/ Succeeded => WholeUnless
  /\ FailsForRoom

LEMMA SizesNat ==
  ASSUME TypeOK
  PROVE  /\ HeaderSize \in Nat /\ HeaderSize >= SizeofHdr
         /\ Bytes(msg.body) \in Nat /\ Bytes(msg.inner) \in Nat
         /\ WholeSize(msg) = HeaderSize + Bytes(msg.body) + Bytes(msg.inner)
         /\ size \in Nat
<1>1. HeaderSize \in Nat /\ HeaderSize >= SizeofHdr
  BY DEF HeaderSize, SizeofHdr, SizeofEvent, SizeofSingle, SizeofSchedule
<1>2. Bytes(msg.body) \in Nat /\ Bytes(msg.inner) \in Nat
  BY MsgType, BytesSteps
<1>3. QED
  BY <1>1, <1>2 DEF WholeSize, HeaderSize, TypeOK

LEMMA SizesAreNat ==
  ASSUME TypeOK
  PROVE  WholeSize(msg) \in Nat
BY SizesNat

(* Where a formatter starts with its loops.                                *)
LEMMA AtStart ==
  ASSUME NEW loops \in Seq(Loops), NEW base \in Nat,
         k' = 1, turn' = 0, pos' = base
  PROVE  At(loops, base)'
<1>1. FirstBytes(loops)[0] = 0 /\ Bytes(loops) = FirstBytes(loops)[Len(loops)]
  BY BytesSteps
<1>2. CASE 1 <= Len(loops)
  <2>1. loops[1].turns \in Nat /\ loops[1].put \in Nat
    BY <1>2, LoopsAreNat
  <2>2. 0 * loops[1].put = 0
    BY <2>1
  <2>3. QED
    BY <1>1, <1>2, <2>1, <2>2 DEF At
<1>3. CASE ~(1 <= Len(loops))
  <2>1. Len(loops) = 0
    BY <1>3
  <2>2. QED
    BY <1>1, <2>1 DEF At
<1>4. QED
  BY <1>2, <1>3

LEMMA AtPut ==
  ASSUME TypeOK, NEW loops \in Seq(Loops), NEW base \in Nat, At(loops, base),
         Put(loops)
  PROVE  At(loops, base)' /\ (room = size - pos => room' = size - pos')
<1>1. k \in 1..Len(loops) /\ turn < loops[k].turns
  BY PutEffect DEF Put, Turns
<1>2. /\ loops[k].turns \in Nat /\ loops[k].put \in Nat
      /\ FirstBytes(loops)[k - 1] \in Nat
  <2>1. k - 1 \in 0..Len(loops)
    BY <1>1
  <2>2. QED
    BY <1>1, <2>1, LoopsAreNat, BytesSteps
<1>3. (turn + 1) * loops[k].put = turn * loops[k].put + loops[k].put
      /\ turn * loops[k].put \in Nat
  BY <1>1, <1>2, TimesGrows, TimesNat DEF TypeOK
<1>4. /\ k' = k /\ turn' = turn + 1
      /\ pos' = pos + loops[k].put /\ room' = room - loops[k].put
  BY DEF Put
<1>5. pos' = base + FirstBytes(loops)[k - 1] + turn' * loops[k].put
  <2> DEFINE a == FirstBytes(loops)[k - 1]
             p == loops[k].put
             x == turn * loops[k].put
             y == turn' * loops[k].put
  <2>1. y = x + p
    BY <1>3, <1>4
  <2>2. pos = base + a + x
    BY <1>1 DEF At
  <2>3. x \in Nat /\ p \in Nat /\ a \in Nat /\ pos' = pos + p
    BY <1>2, <1>3, <1>4
  <2> HIDE DEF a, p, x, y
  <2>4. pos' = base + a + y
    BY <2>1, <2>2, <2>3
  <2>5. QED
    BY <2>4 DEF a, y
<1>6. turn' <= loops[k].turns
  BY <1>1, <1>2, <1>4 DEF TypeOK
<1>7. At(loops, base)'
  BY <1>1, <1>4, <1>5, <1>6 DEF At
<1>8. room = size - pos => room' = size - pos'
  <2>1. size \in Nat
    BY SizesNat
  <2>2. QED
    BY <1>2, <1>4, <2>1 DEF TypeOK
<1>9. QED
  BY <1>7, <1>8

LEMMA AtLeave ==
  ASSUME TypeOK, NEW loops \in Seq(Loops), NEW base \in Nat, At(loops, base),
         Leave(loops)
  PROVE  At(loops, base)'
<1>1. k \in 1..Len(loops) /\ turn = loops[k].turns
      /\ k' = k + 1 /\ turn' = 0 /\ pos' = pos
  BY DEF Leave, TypeOK
<1>2. FirstBytes(loops)[k] = FirstBytes(loops)[k - 1]
                             + loops[k].turns * loops[k].put
      /\ Bytes(loops) = FirstBytes(loops)[Len(loops)]
      /\ k \in 0..Len(loops) /\ FirstBytes(loops)[k] \in Nat
      /\ k - 1 \in 0..Len(loops) /\ FirstBytes(loops)[k - 1] \in Nat
  <2>1. k \in 0..Len(loops) /\ k - 1 \in 0..Len(loops)
    BY <1>1
  <2>2. QED
    BY <1>1, <2>1, BytesSteps
<1>3. turn * loops[k].put \in Nat
  BY <1>1, LoopsAreNat, TimesNat
<1>4. pos' = base + FirstBytes(loops)[k]
  BY <1>1, <1>2, <1>3 DEF At
<1>5. CASE k' <= Len(loops)
  <2>1. k' \in 1..Len(loops)
    BY <1>1, <1>5
  <2>2. loops[k'].turns \in Nat /\ loops[k'].put \in Nat
    BY <2>1, LoopsAreNat
  <2>3. turn' * loops[k'].put = 0 /\ turn' <= loops[k'].turns
    BY <1>1, <2>2
  <2>4. k' - 1 = k /\ ~(k' > Len(loops))
    BY <1>1, <1>5
  <2>5. QED
    BY <1>2, <1>4, <2>3, <2>4 DEF At
<1>6. CASE ~(k' <= Len(loops))
  <2>1. k = Len(loops)
    BY <1>1, <1>6
  <2>2. QED
    BY <1>2, <1>4, <1>6, <2>1 DEF At
<1>7. QED
  BY <1>5, <1>6

(* A check that refuses the next turn refuses a part of the whole.         *)
LEMMA NoRoomWithin ==
  ASSUME TypeOK, NEW loops \in Seq(Loops), NEW base \in Nat, At(loops, base),
         AsksNoMore(loops), NoRoom(loops)
  PROVE  pos + room < base + Bytes(loops)
<1>1. k \in 1..Len(loops) /\ turn < loops[k].turns /\ loops[k].need > room
  BY DEF NoRoom, Turns, TypeOK
<1>2. loops[k].need \in Nat /\ loops[k].put \in Nat
      /\ loops[k].need <= loops[k].put
  BY <1>1, LoopsAreNat DEF AsksNoMore
<1>3. FirstBytes(loops)[k - 1] + turn * loops[k].put + loops[k].put
        <= Bytes(loops)
  BY <1>1, TurnWithin DEF TypeOK
<1>4. pos = base + FirstBytes(loops)[k - 1] + turn * loops[k].put
  BY <1>1 DEF At
<1>5. /\ FirstBytes(loops)[k - 1] \in Nat /\ turn * loops[k].put \in Nat
      /\ Bytes(loops) \in Nat
  <2>1. k - 1 \in 0..Len(loops)
    BY <1>1
  <2>2. QED
    BY <1>2, <2>1, BytesSteps, TimesNat DEF TypeOK
<1>6. room \in Int
  BY DEF TypeOK
<1> DEFINE a == FirstBytes(loops)[k - 1]
           x == turn * loops[k].put
           p == loops[k].put
<1>7. /\ a \in Nat /\ x \in Nat /\ p \in Nat /\ room < p
      /\ a + x + p <= Bytes(loops) /\ pos = base + a + x
  BY <1>1, <1>2, <1>3, <1>4, <1>5, <1>6
<1> HIDE DEF a, x, p
<1>8. QED
  BY <1>5, <1>6, <1>7

LEMMA SumInit == Init => SumInv
BY DEF Init, SumInv, Succeeded, FailsForRoom, OutOfRoom, Refuses

LEMMA SumNext ==
  ASSUME \A m \in Messages : AsksNoMore(m.body) /\ AsksNoMore(m.inner)
  PROVE  TypeOK /\ HeadersInv /\ SumInv /\ [Next]_vars => SumInv'
<1> SUFFICES ASSUME TypeOK, HeadersInv, SumInv, [Next]_vars PROVE SumInv'
  OBVIOUS
<1> USE DEF SumInv, Succeeded, FailsForRoom, OutOfRoom, Refuses
<1>0. /\ HeaderSize \in Nat /\ HeaderSize >= SizeofHdr
      /\ Bytes(msg.body) \in Nat /\ Bytes(msg.inner) \in Nat
      /\ WholeSize(msg) = HeaderSize + Bytes(msg.body) + Bytes(msg.inner)
      /\ size \in Nat
      /\ msg.body \in Seq(Loops) /\ msg.inner \in Seq(Loops)
      /\ AsksNoMore(msg.body) /\ AsksNoMore(msg.inner)
  BY SizesNat, MsgType
<1>1. ASSUME NEW m \in Messages, NEW s \in Sizes, Call(m, s) PROVE SumInv'
  BY <1>1 DEF Call
<1>2. CASE SetSeq
  BY <1>2 DEF SetSeq, callVars, WholeUnless
<1>3. CASE NoBuffer
  BY <1>3 DEF NoBuffer, Return, callVars
<1>4. CASE MasterHead
  <2>1. CASE room < SizeofHdr
    <3>1. size < WholeSize(msg)
      BY <1>0, <1>4, <2>1 DEF MasterHead, SizeofHdr
    <3>2. QED
      BY <1>4, <2>1, <3>1 DEF MasterHead, Return, callVars
  <2>2. CASE ~(room < SizeofHdr)
    BY <1>0, <1>4, <2>2 DEF MasterHead, callVars
  <2>3. QED
    BY <2>1, <2>2
<1>5. CASE EventHead
  <2>1. CASE room < EventNeed(msg.evt)
    <3>1. EventNeed(msg.evt) \in Nat
      BY DEF EventNeed, SizeofEvent, SizeofSingle, SizeofSchedule, SizeofHdr
    <3>2. size < SizeofHdr + EventNeed(msg.evt)
      BY <1>0, <1>5, <2>1, <3>1 DEF EventHead, SizeofHdr
    <3>3. \/ size < WholeSize(msg)
          \/ msg.evt = "SCHEDULE" /\ size < SizeofHdr + EventNeed("SCHEDULE")
      <4>1. CASE msg.evt = "SCHEDULE"
        BY <3>2, <4>1
      <4>2. CASE msg.evt # "SCHEDULE"
        <5>1. SizeofHdr + EventNeed(msg.evt) = HeaderSize
          BY <4>2 DEF EventNeed, HeaderSize
        <5>2. QED
          BY <1>0, <3>2, <5>1
      <4>3. QED
        BY <4>1, <4>2
    <3>4. QED
      BY <1>5, <2>1, <3>3 DEF EventHead, Return, callVars
  <2>2. CASE ~(room < EventNeed(msg.evt))
    <3>1. pos' = HeaderSize /\ k' = 1 /\ turn' = 0 /\ msg' = msg
          /\ size' = size /\ room' = size - pos' /\ pc' = "body"
      BY <1>5, <2>2 DEF EventHead, HeaderSize, callVars
    <3>2. At(msg.body, HeaderSize)'
      <4>1. \A loops \in Seq(Loops), base \in Nat :
              pos' = base => At(loops, base)'
        BY <3>1, AtStart
      <4>2. QED
        BY <1>0, <3>1, <4>1 DEF At, HeaderSize
    <3>3. QED
      BY <3>1, <3>2
  <2>3. QED
    BY <2>1, <2>2
<1>6. CASE Crash
  BY <1>6 DEF Crash, callVars
<1>7. CASE pc = "body" /\ (Put(msg.body) \/ Leave(msg.body))
  <2>1. msg' = msg /\ size' = size /\ pc' = pc
    BY <1>7 DEF Put, Leave, callVars
  <2>2. At(msg.body, HeaderSize)' /\ room' = size - pos'
    <3>1. \A loops \in Seq(Loops), base \in Nat :
            /\ At(loops, base)
            /\ Put(loops) \/ Leave(loops)
            => At(loops, base)'
      BY AtPut, AtLeave
    <3>2. room' = size - pos'
      <4>1. CASE Put(msg.body)
        BY <1>0, <1>7, <4>1, AtPut
      <4>2. CASE Leave(msg.body)
        BY <1>7, <4>2 DEF Leave
      <4>3. QED
        BY <1>7, <4>1, <4>2
    <3>3. QED
      BY <1>0, <1>7, <2>1, <3>1, <3>2 DEF At, HeaderSize
  <2>3. QED
    BY <1>7, <2>1, <2>2
<1>8. CASE InnerTurn
  <2>1. msg' = msg /\ size' = size /\ pc' = pc /\ mark' = mark /\ pc = "inner"
    BY <1>8 DEF InnerTurn, Put, Leave, callVars
  <2>2. At(msg.inner, mark)' /\ (mark <= size => room' = size - pos')
    <3>1. \A loops \in Seq(Loops), base \in Nat :
            /\ At(loops, base)
            /\ Put(loops) \/ Leave(loops)
            => At(loops, base)'
      BY AtPut, AtLeave
    <3>2. mark <= size => room' = size - pos'
      <4>1. CASE Put(msg.inner)
        BY <1>0, <2>1, <4>1, AtPut DEF TypeOK
      <4>2. CASE Leave(msg.inner)
        BY <2>1, <4>2 DEF Leave
      <4>3. QED
        BY <1>8, <4>1, <4>2 DEF InnerTurn
    <3>3. QED
      BY <1>0, <1>8, <2>1, <3>1, <3>2 DEF At, InnerTurn, TypeOK
  <2>3. QED
    BY <1>0, <2>1, <2>2 DEF HeaderSize
<1>9. CASE BodyFails
  <2>1. pos + room < HeaderSize + Bytes(msg.body)
    BY <1>0, <1>9, NoRoomWithin DEF BodyFails
  <2>2. size < WholeSize(msg)
    BY <1>0, <1>9, <2>1 DEF BodyFails, TypeOK
  <2>3. QED
    BY <1>9, <2>2 DEF BodyFails, Return, callVars, WholeUnless
<1>10. CASE BodyEnds
  <2>1. pos = HeaderSize + Bytes(msg.body)
    BY <1>0, <1>10 DEF BodyEnds, At
  <2>2. CASE msg.inner = <<>>
    <3>1. Bytes(<<>>) = 0
      BY BytesSteps, NoneAsks DEF Asking
    <3>2. WholeSize(msg) = pos
      BY <1>0, <2>1, <2>2, <3>1
    <3>3. QED
      BY <1>10, <2>2, <3>2 DEF BodyEnds, callVars, WholeUnless
  <2>3. CASE msg.inner # <<>>
    <3>1. /\ pc' = "inner" /\ k' = 1 /\ turn' = 0 /\ mark' = pos
          /\ pos' = pos /\ room' = (size - pos) % UintMod
          /\ msg' = msg /\ size' = size
      BY <1>10, <2>3 DEF BodyEnds, callVars
    <3>2. At(msg.inner, mark)'
      <4>1. \A loops \in Seq(Loops), base \in Nat :
              pos' = base => At(loops, base)'
        BY <3>1, AtStart
      <4>2. QED
        BY <1>0, <3>1, <4>1 DEF At, TypeOK
    <3>3. pos <= size => (size - pos) % UintMod = size - pos
      <4>1. UintMod \in Nat /\ size < UintMod /\ pos \in Nat
        BY <1>0 DEF TypeOK
      <4>2. ASSUME pos <= size
            PROVE  size - pos \in Nat /\ size - pos < UintMod
        BY <1>0, <4>1, <4>2
      <4>3. QED
        BY <4>1, <4>2, ModSmall
    <3>4. QED
      BY <1>0, <2>1, <2>3, <3>1, <3>2, <3>3 DEF HeaderSize
  <2>4. QED
    BY <2>2, <2>3
<1>11. CASE InnerFails
  <2>1. pos + room < mark + Bytes(msg.inner)
    BY <1>0, <1>11, NoRoomWithin DEF InnerFails, TypeOK
  <2>2. size < WholeSize(msg)
    <3>1. CASE mark <= size
      BY <1>0, <1>11, <2>1, <3>1 DEF InnerFails, TypeOK
    <3>2. CASE ~(mark <= size)
      BY <1>0, <1>11, <3>2 DEF InnerFails, TypeOK
    <3>3. QED
      BY <3>1, <3>2
  <2>3. QED
    BY <1>11, <2>2 DEF InnerFails, callVars, WholeUnless
<1>12. CASE InnerEnds
  BY <1>0, <1>12 DEF InnerEnds, callVars, WholeUnless, At
<1>13. CASE Length
  BY <1>13 DEF Length, Return, callVars, WholeUnless, HeadersInv
<1>14. CASE UNCHANGED vars
  BY <1>14 DEF vars, WholeUnless, At, HeaderSize
<1>15. QED
  BY <1>1, <1>2, <1>3, <1>4, <1>5, <1>6, <1>7, <1>8, <1>9, <1>10, <1>11, <1>12,
     <1>13, <1>14 DEF Next, Format, BodyTurn

LEMMA SumAlways ==
  ASSUME \A m \in Messages : AsksNoMore(m.body) /\ AsksNoMore(m.inner)
  PROVE  Spec => [](TypeOK /\ HeadersInv /\ SumInv)
BY HeadersAlways, SumInit, SumNext, PTL DEF Spec

(* What a formatter is about to return, also one that drops what its body  *)
(* returned or adds a failure to the size.                                 *)
ReturnInv ==
  /\ pc = "body" => ret = HeaderSize
  /\ pc \in {"length", "done"} => ret <= WholeSize(msg)

LEMMA ReturnInit == Init => ReturnInv
BY DEF Init, ReturnInv

LEMMA ReturnNext == TypeOK /\ SumInv /\ ReturnInv /\ [Next]_vars => ReturnInv'
<1> SUFFICES ASSUME TypeOK, SumInv, ReturnInv, [Next]_vars PROVE ReturnInv'
  OBVIOUS
<1> USE DEF ReturnInv
<1>0. /\ HeaderSize \in Nat /\ HeaderSize >= SizeofHdr
      /\ Bytes(msg.body) \in Nat /\ Bytes(msg.inner) \in Nat
      /\ WholeSize(msg) = HeaderSize + Bytes(msg.body) + Bytes(msg.inner)
      /\ WholeSize(msg) \in Nat /\ ret \in Int
  <2>1. ret \in Int
    BY DEF TypeOK
  <2>2. QED
    BY <2>1, SizesNat, SizesAreNat
<1>1. ASSUME NEW m \in Messages, NEW s \in Sizes, Call(m, s) PROVE ReturnInv'
  BY <1>1 DEF Call
<1>2. CASE SetSeq
  BY <1>2 DEF SetSeq, callVars
<1>3. CASE NoBuffer
  BY <1>0, <1>3 DEF NoBuffer, Return, callVars
<1>4. CASE MasterHead
  BY <1>0, <1>4 DEF MasterHead, Return, callVars
<1>5. CASE EventHead
  <2>1. CASE room < EventNeed(msg.evt)
    BY <1>0, <1>5, <2>1 DEF EventHead, Return, callVars
  <2>2. CASE ~(room < EventNeed(msg.evt))
    <3>1. pos = SizeofHdr
      BY <1>5 DEF EventHead, SumInv
    <3>2. QED
      BY <1>5, <2>2, <3>1 DEF EventHead, callVars, HeaderSize
  <2>3. QED
    BY <2>1, <2>2
<1>6. CASE Crash
  BY <1>6 DEF Crash, callVars
<1>7. CASE BodyTurn \/ InnerTurn
  BY <1>7 DEF BodyTurn, InnerTurn, Put, Leave, callVars, HeaderSize
<1>8. CASE BodyFails
  BY <1>0, <1>8 DEF BodyFails, Return, callVars
<1>9. CASE BodyEnds
  <2>1. pos = HeaderSize + Bytes(msg.body)
    BY <1>0, <1>9, MsgType DEF BodyEnds, SumInv, At
  <2>2. ret' <= WholeSize(msg)
    BY <1>0, <1>9, <2>1 DEF BodyEnds
  <2>3. QED
    BY <1>9, <2>2 DEF BodyEnds, callVars
<1>10. CASE InnerFails
  <2>1. mark = HeaderSize + Bytes(msg.body) /\ ret' = mark - 1
    BY <1>10 DEF InnerFails, SumInv
  <2>2. QED
    BY <1>0, <1>10, <2>1 DEF InnerFails, callVars
<1>11. CASE InnerEnds
  <2>1. pos = mark + Bytes(msg.inner) /\ mark = HeaderSize + Bytes(msg.body)
    BY <1>0, <1>11, MsgType DEF InnerEnds, SumInv, At
  <2>2. QED
    BY <1>0, <1>11, <2>1 DEF InnerEnds, callVars
<1>12. CASE Length
  BY <1>12 DEF Length, Return, callVars
<1>13. CASE UNCHANGED vars
  BY <1>13 DEF vars, HeaderSize
<1>14. QED
  BY <1>1, <1>2, <1>3, <1>4, <1>5, <1>6, <1>7, <1>8, <1>9, <1>10, <1>11, <1>12,
     <1>13 DEF Next, Format

(* A formatter whose checks ask for no more than what they write fails     *)
(* only without a buffer or details, or for want of room for its message   *)
(* (and, for a schedule event, of SizeofHdr bytes more than its headers).  *)
THEOREM FailsOnlyForRoom ==
  ASSUME \A m \in Messages : AsksNoMore(m.body) /\ AsksNoMore(m.inner)
  PROVE  Spec => []FailsForRoom
<1>1. SumInv => FailsForRoom
  BY DEF SumInv
<1>2. QED
  BY <1>1, SumAlways, PTL

(* What it returns on success is the size of the whole message, unless it  *)
(* drops what its body returned or its inner call had not the room.        *)
THEOREM SuccessIsWhole ==
  ASSUME \A m \in Messages : AsksNoMore(m.body) /\ AsksNoMore(m.inner)
  PROVE  Spec => [](Succeeded => WholeUnless)
<1>1. SumInv => (Succeeded => WholeUnless)
  BY DEF SumInv
<1>2. QED
  BY <1>1, SumAlways, PTL

(* A formatter that returns what its callees say, of a message that is     *)
(* shorter than 65536 bytes, returns the size of the whole message and     *)
(* puts it in the header.                                                  *)
THEOREM WholePacketAlways ==
  ASSUME \A m \in Messages : /\ AsksNoMore(m.body)
                             /\ m.counted /\ m.inner = <<>>
                             /\ WholeSize(m) < U16
  PROVE  Spec => []WholePacket
<1>1. \A m \in Messages : AsksNoMore(m.body) /\ AsksNoMore(m.inner)
  BY DEF AsksNoMore
<1>2. TypeOK /\ HeadersInv /\ SumInv => WholePacket
  <2> SUFFICES ASSUME TypeOK, HeadersInv, SumInv, Succeeded
               PROVE  ret = WholeSize(msg) /\ hdr.len = WholeSize(msg)
    BY DEF WholePacket
  <2>1. ret = WholeSize(msg)
    BY DEF SumInv, WholeUnless, TypeOK
  <2>2. ret \in Nat /\ ret < U16 /\ U16 \in Nat
    BY <2>1 DEF TypeOK, Succeeded, U16
  <2>3. hdr.len = ret
    BY <2>2, ModSmall DEF HeadersInv, HeadersOfMessage
  <2>4. QED
    BY <2>1, <2>3
<1>3. QED
  BY <1>1, <1>2, SumAlways, PTL

-----------------------------------------------------------------------------
(* Which formatters these are.                                             *)

LEMMA ExactAsksNoMore ==
  ASSUME NEW loops \in Asking
  PROVE  AsksNoMore(loops)
<1>1. loops \in Seq(Loops) /\ Exact(loops)
  BY DEF Asking
<1>2. ASSUME NEW i \in 1..Len(loops) PROVE loops[i].need <= loops[i].put
  BY <1>1, <1>2, LoopsAreNat DEF Exact
<1>3. QED
  BY <1>2 DEF AsksNoMore

LEMMA OneAsksNoMore ==
  ASSUME NEW t \in Nat, NEW a \in Nat, NEW b \in Nat, a <= b
  PROVE  AsksNoMore(<<Loop(t, a, b)>>)
BY DEF AsksNoMore, Loop

LEMMA LooseCallsAsk ==
  \A m \in LooseCalls : AsksNoMore(m.body) /\ AsksNoMore(m.inner)
<1>1. AsksNoMore(<<>>)
  BY NoneAsks, ExactAsksNoMore
<1>2. ASSUME NEW ues \in Nat
      PROVE  AsksNoMore(epf_trigger_uerep_rep(ues).body)
             /\ AsksNoMore(epf_trigger_uerep_rep(ues).inner)
  BY <1>1, OneAsksNoMore
     DEF epf_trigger_uerep_rep, Message, UeRepBody, SizeofUeId, SizeofUeIdTLV,
         SizeofTLV
<1>3. ASSUME NEW b \in BOOLEAN
      PROVE  /\ AsksNoMore(epf_sched_cell_meas_rep(b).body)
             /\ AsksNoMore(epf_sched_cell_meas_rep(b).inner)
             /\ AsksNoMore(epf_trigger_cell_meas_rep(b).body)
             /\ AsksNoMore(epf_trigger_cell_meas_rep(b).inner)
  <2>1. AsksNoMore(CellMeasRepBody(b))
    BY OneAsksNoMore DEF CellMeasRepBody, SizeofPrbRep
  <2>2. QED
    BY <1>1, <2>1 DEF epf_sched_cell_meas_rep, epf_trigger_cell_meas_rep,
                      CellMeas, Message
<1>4. ASSUME NEW b \in BOOLEAN, NEW users \in Nat
      PROVE  /\ AsksNoMore(epf_single_ran_slice_rep(b, users).body)
             /\ AsksNoMore(epf_single_ran_slice_rep(b, users).inner)
  <2>1. AsksNoMore(UncheckedSliceId)
    BY OneAsksNoMore DEF UncheckedSliceId, SizeofSliceInf
  <2>2. AsksNoMore(SliceTokens(b, users))
    BY SliceTokensAsk, ExactAsksNoMore
  <2>3. QED
    BY <2>1, <2>2 DEF epf_single_ran_slice_rep, Slice
<1>5. QED
  BY <1>2, <1>3, <1>4 DEF LooseCalls

LEMMA FormattersAskNoMore ==
  ASSUME Messages \subseteq FixedCalls \cup OddCalls \cup ArrayCalls
                             \cup SliceCalls \cup LooseCalls
  PROVE  \A m \in Messages : AsksNoMore(m.body) /\ AsksNoMore(m.inner)
<1>1. ASSUME NEW m \in Messages
      PROVE  AsksNoMore(m.body) /\ AsksNoMore(m.inner)
  <2>1. CASE m \in LooseCalls
    BY <2>1, LooseCallsAsk
  <2>2. CASE m \notin LooseCalls
    <3>1. m.body \in Asking /\ m.inner \in Asking
      BY <2>2, FixedCallsAsk, OddCallsAsk, SliceCallsAsk, ArrayCallsAsk
         DEF AsksForAll, Asking
    <3>2. QED
      BY <3>1, ExactAsksNoMore
  <2>3. QED
    BY <2>1, <2>2
<1>2. QED
  BY <1>1

(* Given its details, no formatter of the library fails when it has room   *)
(* for its message, whatever the number of cells, measurements, UEs and    *)
(* users, but for one of a schedule event with less than 55 bytes.         *)
THEOREM FormattersFailForRoom ==
  ASSUME Messages \subseteq FixedCalls \cup OddCalls \cup ArrayCalls
                             \cup SliceCalls \cup LooseCalls
  PROVE  Spec => []FailsForRoom
BY FormattersAskNoMore, FailsOnlyForRoom

(* Of a single or a triggered event, none fails when it has room.          *)
THEOREM FormattersFailOnlyShort ==
  ASSUME Messages \subseteq FixedCalls \cup OddCalls \cup ArrayCalls
                             \cup SliceCalls \cup LooseCalls,
         \A m \in Messages : m.evt # "SCHEDULE"
  PROVE  Spec => []FailsOnlyShort
<1>1. TypeOK /\ FailsForRoom => FailsOnlyShort
  BY DEF TypeOK, FailsForRoom, FailsOnlyShort
<1>2. QED
  BY <1>1, TypeCorrect, FormattersFailForRoom, PTL

-----------------------------------------------------------------------------
(* How long their messages are.                                            *)

\* A report has room in its 16 bits of length for that many UEs.
MaxReported == 2848

\* The messages whose whole size a formatter returns, and that are never
\* too long for it.
WholeCalls ==
  FixedCalls \cup ArrayCalls
  \cup {epf_trigger_uerep_rep(ues) : ues \in 0..MaxReported}
  \cup {epf_sched_cell_meas_rep(b) : b \in BOOLEAN}
  \cup {epf_trigger_cell_meas_rep(b) : b \in BOOLEAN}
  \cup {epf_single_ran_slice_req, epf_single_ran_slice_rem}

\* What WholePacketAlways asks of a message, but for its checks.
IsWhole(m) == m.counted /\ m.inner = <<>> /\ WholeSize(m) < U16

LEMMA BodyIsShort ==
  ASSUME NEW m, m.counted, m.inner = <<>>, Bytes(m.body) \in Nat,
         Bytes(m.body) <= 65504
  PROVE  IsWhole(m)
<1> DEFINE h == SizeofHdr + SizeofEvent(m.evt)
           b == Bytes(m.body)
<1>1. h \in Nat /\ h <= 31
  BY DEF SizeofHdr, SizeofEvent, SizeofSingle, SizeofSchedule
<1>2. Bytes(m.inner) = 0
  BY BytesNone
<1>3. WholeSize(m) = h + b + Bytes(m.inner)
  BY DEF WholeSize
<1> HIDE DEF h, b
<1>4. b \in Nat /\ b <= 65504
  BY DEF b
<1>5. WholeSize(m) < U16
  BY <1>1, <1>2, <1>3, <1>4 DEF U16
<1>6. QED
  BY <1>5 DEF IsWhole

LEMMA FixedAreWhole == \A m \in FixedCalls : IsWhole(m)
<1> SUFFICES ASSUME NEW m \in FixedCalls PROVE IsWhole(m)
  OBVIOUS
<1>1. m.inner = <<>> /\ m.counted
  BY FixedCallsShape
<1>2. CASE m.body = <<>>
  BY <1>1, <1>2, BytesNone, BodyIsShort
<1>3. ASSUME NEW b \in ChunkSizes, m.body = Once(b) PROVE IsWhole(m)
  <2>1. b \in Nat /\ b <= 24
    BY DEF ChunkSizes, SizeofCellCap, SizeofRanCaps, SizeofRrcReq, SizeofRrcRep,
       SizeofMacSched, SizeofSliceSched, SizeofRnti, SizeofHello,
       SizeofUeRepReq, SizeofPrbReq, SizeofHoReq, SizeofHoRep, SizeofSliceInf,
       SizeofRanSetup, SizeofSliceRes, SizeofTLV
  <2>2. Bytes(m.body) = 1 * b
    BY <1>3, <2>1, BytesOne DEF Once, Times
  <2>3. QED
    BY <1>1, <2>1, <2>2, BodyIsShort
<1>4. QED
  BY <1>2, <1>3, FixedCallsShape

LEMMA ArraysAreWhole == \A m \in ArrayCalls : IsWhole(m)
<1>1. ASSUME NEW n \in Nat
      PROVE  /\ AtMost(n, EP_ECAP_CELL_MAX) \in 0..8
             /\ AtMost(n, EP_UE_RRC_MEAS_MAX) \in 0..8
  BY DEF AtMost, EP_ECAP_CELL_MAX, EP_UE_RRC_MEAS_MAX
<1>2. ASSUME NEW cells \in Nat, NEW ran \in Nat
      PROVE  IsWhole(epf_single_ecap_rep(cells, ran))
  <2> DEFINE c == AtMost(cells, EP_ECAP_CELL_MAX)
             r == AtMost(ran, EP_ECAP_CELL_MAX)
  <2>1. c \in 0..8 /\ r \in 0..8
    BY <1>1
  <2>2. Bytes(EcapBody(cells, ran)) = c * 18 + r * 24
    <3>1. EcapBody(cells, ran) = Times(c, 18) \o Times(r, 24)
      BY DEF EcapBody, SizeofCellCap, SizeofRanCaps
    <3> HIDE DEF c, r
    <3>2. Bytes(Times(c, 18) \o Times(r, 24)) = c * 18 + r * 24
      <4>1. c \in Nat /\ r \in Nat /\ 18 \in Nat /\ 24 \in Nat
        BY <2>1
      <4>2. QED
        BY <4>1, BytesOfTwo
    <3>3. QED
      BY <3>1, <3>2
  <2>3. Bytes(EcapBody(cells, ran)) \in Nat /\ Bytes(EcapBody(cells, ran)) <= 336
    <3> HIDE DEF c, r
    <3> QED
      BY <2>1, <2>2
  <2>4. QED
    BY <2>3, BodyIsShort DEF epf_single_ecap_rep, Message
<1>3. ASSUME NEW op \in Ops, NEW rrc \in Nat
      PROVE  /\ IsWhole(epf_trigger_uemeas_req(op, rrc))
             /\ IsWhole(epf_trigger_uemeas_rep(rrc))
  <2> DEFINE n == AtMost(rrc, EP_UE_RRC_MEAS_MAX)
  <2>1. n \in 0..8
    BY <1>1
  <2>2. Bytes(UeMeasReqBody(rrc)) = n * 16 /\ Bytes(UeMeasRepBody(rrc)) = n * 12
    BY <2>1, BytesOne
       DEF UeMeasReqBody, UeMeasRepBody, Times, SizeofRrcReq, SizeofRrcRep
  <2>3. /\ Bytes(UeMeasReqBody(rrc)) \in Nat /\ Bytes(UeMeasReqBody(rrc)) <= 128
        /\ Bytes(UeMeasRepBody(rrc)) \in Nat /\ Bytes(UeMeasRepBody(rrc)) <= 128
    <3> HIDE DEF n
    <3> QED
      BY <2>1, <2>2
  <2>4. QED
    BY <2>3, BodyIsShort
       DEF epf_trigger_uemeas_req, epf_trigger_uemeas_rep, Message
<1>4. ASSUME NEW b \in BOOLEAN
      PROVE  IsWhole(epf_single_ran_setup_rep(b))
  <2> DEFINE t == IF b THEN 1 ELSE 0
  <2>1. t \in 0..1
    OBVIOUS
  <2>2. Bytes(RanSetupBody(b)) = 1 * 12 + t * 8
    <3>1. RanSetupBody(b) = Times(1, 12) \o Times(t, 8)
      BY DEF RanSetupBody, Once, Opt, SizeofRanSetup, SizeofMacSched
    <3> HIDE DEF t
    <3>2. Bytes(Times(1, 12) \o Times(t, 8)) = 1 * 12 + t * 8
      <4>1. t \in Nat /\ 1 \in Nat /\ 12 \in Nat /\ 8 \in Nat
        BY <2>1
      <4>2. QED
        BY <4>1, BytesOfTwo
    <3>3. QED
      BY <3>1, <3>2
  <2>3. Bytes(RanSetupBody(b)) \in Nat /\ Bytes(RanSetupBody(b)) <= 20
    <3> HIDE DEF t
    <3> QED
      BY <2>1, <2>2
  <2>4. QED
    BY <2>3, BodyIsShort DEF epf_single_ran_setup_rep, Ran, Message
<1>5. QED
  BY <1>2, <1>3, <1>4 DEF ArrayCalls

LEMMA ReportsAreWhole ==
  ASSUME NEW ues \in 0..MaxReported
  PROVE  IsWhole(epf_trigger_uerep_rep(ues))
<1>1. ues \in Nat /\ ues <= 2848
  BY DEF MaxReported
<1>2. Bytes(UeRepBody(ues)) = ues * 23
  BY <1>1, BytesOne DEF UeRepBody, SizeofUeIdTLV, SizeofUeId, SizeofTLV
<1>3. Bytes(UeRepBody(ues)) \in Nat /\ Bytes(UeRepBody(ues)) <= 65504
  BY <1>1, <1>2
<1>4. QED
  BY <1>3, BodyIsShort DEF epf_trigger_uerep_rep, Message

LEMMA OthersAreWhole ==
  /\ \A b \in BOOLEAN : IsWhole(epf_sched_cell_meas_rep(b))
                        /\ IsWhole(epf_trigger_cell_meas_rep(b))
  /\ IsWhole(epf_single_ran_slice_req) /\ IsWhole(epf_single_ran_slice_rem)
<1>1. ASSUME NEW b \in BOOLEAN
      PROVE  Bytes(CellMeasRepBody(b)) \in Nat /\ Bytes(CellMeasRepBody(b)) <= 14
  <2> DEFINE t == IF b THEN 1 ELSE 0
  <2>1. t \in 0..1
    OBVIOUS
  <2>2. Bytes(CellMeasRepBody(b)) = t * 14
    BY <2>1, BytesOne DEF CellMeasRepBody, SizeofPrbRep
  <2> HIDE DEF t
  <2>3. QED
    BY <2>1, <2>2
<1>2. Bytes(SliceId) = 1 * 8
  BY BytesOne DEF SliceId, Once, Times, SizeofSliceInf
<1>3. ASSUME NEW b \in BOOLEAN
      PROVE  IsWhole(epf_sched_cell_meas_rep(b))
             /\ IsWhole(epf_trigger_cell_meas_rep(b))
  BY <1>1, BodyIsShort DEF epf_sched_cell_meas_rep, epf_trigger_cell_meas_rep,
                           CellMeas, Message
<1>4. IsWhole(epf_single_ran_slice_req) /\ IsWhole(epf_single_ran_slice_rem)
  BY <1>2, BodyIsShort DEF epf_single_ran_slice_req, epf_single_ran_slice_rem,
                           Slice
<1>5. QED
  BY <1>3, <1>4

(* The formatters that return what their callees say, and have no second   *)
(* call, return the size of the whole message and put it in the header,    *)
(* for any number of cells and measurements and for up to 2848 UEs.        *)
THEOREM FormattersWhole ==
  ASSUME Messages \subseteq WholeCalls
  PROVE  Spec => []WholePacket
<1>1. ASSUME NEW m \in Messages PROVE AsksNoMore(m.body)
  <2>1. WholeCalls \subseteq FixedCalls \cup ArrayCalls \cup SliceCalls
                             \cup LooseCalls
    <3>1. 0..MaxReported \subseteq Nat
      BY DEF MaxReported
    <3>2. {epf_trigger_uerep_rep(ues) : ues \in 0..MaxReported}
            \subseteq {epf_trigger_uerep_rep(ues) : ues \in Nat}
      BY <3>1, Zenon
    <3>3. /\ {epf_trigger_uerep_rep(ues) : ues \in Nat} \subseteq LooseCalls
          /\ {epf_sched_cell_meas_rep(x) : x \in BOOLEAN} \subseteq LooseCalls
          /\ {epf_trigger_cell_meas_rep(x) : x \in BOOLEAN} \subseteq LooseCalls
          /\ {epf_single_ran_slice_req, epf_single_ran_slice_rem}
               \subseteq SliceCalls
      BY DEF LooseCalls, SliceCalls
    <3>4. QED
      BY <3>2, <3>3 DEF WholeCalls
  <2>2. CASE m \in LooseCalls
    BY <2>2, LooseCallsAsk
  <2>3. CASE m \in FixedCalls \cup ArrayCalls \cup SliceCalls
    <3>1. m.body \in Asking
      BY <2>3, FixedCallsAsk, OddCallsAsk, SliceCallsAsk, ArrayCallsAsk
         DEF AsksForAll, Asking
    <3>2. QED
      BY <3>1, ExactAsksNoMore
  <2>4. QED
    BY <2>1, <2>2, <2>3
<1>2. ASSUME NEW m \in Messages PROVE IsWhole(m)
  BY FixedAreWhole, ArraysAreWhole, ReportsAreWhole, OthersAreWhole
     DEF WholeCalls
<1>3. QED
  BY <1>1, <1>2, WholePacketAlways DEF IsWhole
=============================================================================
