---------------------------- MODULE EpUeRep_proofs ----------------------------
(***************************************************************************)
(* Proofs about EpUeRep: the table the parser of UE reports fills never    *)
(* holds an RNTI twice, whatever it is told; a slot in use keeps its UE    *)
(* during a parse; a table with a slot for each RNTI never overflows; and  *)
(* the table is a directory (UeDirectory) of what was reported.            *)
(***************************************************************************)
EXTENDS EpUeRep, TLAPS, FiniteSetTheorems, NatLemmas

LEMMA Sizes ==
  /\ SizeofUeIdTLV = 23 /\ SizeofTLV = 4 /\ SizeofUeId = 19
  /\ SizeofTrigHeaders = 27
BY DEF SizeofUeIdTLV, SizeofTLV, SizeofUeId, SizeofTrigHeaders, SizeofHdr,
       SizeofTrigger

(* What a token can be, also one that is read out of payload.              *)
Readable == [type : {"UE_REP_ID", "INVALID"}, len : Nat,
             rnti : Rntis \cup {NoRnti}, id : Ids \cup {NoId}]

(* The loop of epp_uerep_rep looks at most one cell, and some bytes of the *)
(* next, past the message: the token it looks at is in the receive buffer. *)
LEMMA CellsInBuffer ==
  ASSUME TypeOK, c < End
  PROVE  /\ (c \div 23) + 1 \in RxCells
         /\ ((c + 3) \div 23) + 1 \in RxCells
         /\ CellAt(c) = rx[(c \div 23) + 1]
         /\ CellAt(c + SizeofTLV - 1) = rx[((c + 3) \div 23) + 1]
<1>1. c \in Nat /\ n \in 0..AgentSlots /\ AgentSlots \in Nat
  BY SlotsAssumption DEF TypeOK
<1>2. c < 23 * n + 27
  BY <1>1, Sizes DEF End
<1>3. ASSUME NEW o \in Nat, o < 23 * n + 30 PROVE (o \div 23) + 1 \in RxCells
  <2>1. o \div 23 \in Int /\ 0 <= o \div 23 /\ 23 * (o \div 23) <= o
    BY <1>3
  <2>2. o \div 23 <= n + 1
    BY <1>1, <1>3, <2>1
  <2>3. QED
    BY <1>1, <2>1, <2>2 DEF RxCells
<1>4. (c \div 23) + 1 \in RxCells /\ ((c + 3) \div 23) + 1 \in RxCells
  BY <1>1, <1>2, <1>3
<1>5. c + 4 - 1 = c + 3
  BY <1>1
<1>6. QED
  BY <1>4, <1>5, Sizes DEF CellAt

LEMMA ReadTokens ==
  ASSUME TypeOK, c < End, NEW t \in Read
  PROVE  t \in Readable
<1>1. CASE OnCell
  <2>1. CellAt(c) \in Details \cup {Zero, Payload} /\ CellAt(c).rnti # NoRnti
    BY <1>1, CellsInBuffer DEF TypeOK, OnCell
  <2>2. CellAt(c) \in Details
    BY <2>1 DEF Zero, Payload
  <2>3. QED
    BY <1>1, <2>2, Sizes DEF Read, TokenOf, Readable, Details
<1>2. CASE ~OnCell /\ OnZeros
  BY <1>2 DEF Read, ZeroToken, Readable
<1>3. CASE ~OnCell /\ ~OnZeros
  <2>1. t \in AnyTokens
    BY <1>3 DEF Read
  <2>2. QED
    BY <2>1 DEF AnyTokens, Readable
<1>4. QED
  BY <1>1, <1>2, <1>3

(* What epp_uerep_rep_TLV does to the table: one slot, the first that held *)
(* the RNTI or, if none did, the first free one, gets the RNTI.            *)
LEMMA SelectedSlot ==
  ASSUME NEW r, NEW j \in Selected(r)
  PROVE  /\ j \in Slots
         /\ Holding(r) # {} => ues[j].rnti = r
         /\ Holding(r) = {} => ues[j].rnti = NoRnti
BY DEF Selected, FirstOf, Holding, Free

LEMMA StoreEffect ==
  ASSUME TypeOK, NEW t \in Readable, Store(t), ues' # ues
  PROVE  \E j \in Selected(t.rnti) :
            /\ j \in Slots
            /\ ues'[j] \in Entries
            /\ ues'[j].rnti = t.rnti /\ ues'[j].id = t.id
            /\ \A i \in Slots \ {j} : ues'[i] = ues[i]
            /\ ues' \in [Slots -> Entries]
<1>1. PICK j \in Selected(t.rnti) :
         ues' = [ues EXCEPT ![j] = [@ EXCEPT !.rnti = t.rnti, !.id = t.id]]
  BY DEF Store
<1>2. j \in Slots
  BY SelectedSlot
<1>3. ues[j] \in Entries
  BY <1>2 DEF TypeOK
<1>4. ues'[j] = [ues[j] EXCEPT !.rnti = t.rnti, !.id = t.id]
  BY <1>1, <1>2 DEF TypeOK
<1>5. ues'[j] \in Entries /\ ues'[j].rnti = t.rnti /\ ues'[j].id = t.id
  BY <1>3, <1>4 DEF Entries, Readable
<1>6. \A i \in Slots \ {j} : ues'[i] = ues[i]
  BY <1>1, <1>2 DEF TypeOK
<1>7. ues' \in [Slots -> Entries]
  BY <1>1, <1>2, <1>5, <1>6 DEF TypeOK
<1>8. QED
  BY <1>2, <1>5, <1>6, <1>7

LEMMA MessageSeq ==
  ASSUME NEW m \in Messages
  PROVE  /\ Len(m) \in 0..AgentSlots
         /\ DOMAIN m = 1..Len(m)
         /\ \A k \in DOMAIN m : m[k] \in Details
<1>1. PICK k \in 0..AgentSlots : m \in [1..k -> Details]
  BY DEF Messages
<1>2. Len(m) = k /\ DOMAIN m = 1..k
  BY <1>1
<1>3. QED
  BY <1>1, <1>2

LEMMA ZeroEntry == Zero \in Entries
BY DEF Zero, Entries

-----------------------------------------------------------------------------
(* Type correctness.                                                       *)

USE SlotsAssumption, RntisAssumption

LEMMA TypeInit == Init => TypeOK
<1> SUFFICES ASSUME Init PROVE TypeOK
  OBVIOUS
<1>1. aues \in [AgentIdx -> Details \cup {Zero}]
  BY DEF Init
<1>2. rx \in [RxCells -> Details \cup {Zero, Payload}]
  BY DEF Init
<1>3. ues \in [Slots -> Entries]
  BY ZeroEntry DEF Init
<1>4. wire \in Seq(Messages)
  BY DEF Init
<1>5. nof \in Nat /\ n \in 0..AgentSlots
  BY DEF Init
<1>6. QED
  BY <1>1, <1>2, <1>3, <1>4, <1>5 DEF Init, TypeOK

LEMMA TypeNext == TypeOK /\ [Next]_vars => TypeOK'
<1> SUFFICES ASSUME TypeOK, [Next]_vars PROVE TypeOK'
  OBVIOUS
<1>1. ASSUME NEW i \in AgentIdx, Attach(i) PROVE TypeOK'
  BY <1>1 DEF Attach, TypeOK
<1>2. ASSUME NEW i \in AgentIdx, Detach(i) PROVE TypeOK'
  BY <1>2 DEF Detach, TypeOK
<1>3. ASSUME NEW i \in AgentIdx, Mark(i) PROVE TypeOK'
  <2>1. PICK s \in States : aues' = [aues EXCEPT ![i].state = s]
    BY <1>3 DEF Mark
  <2>2. aues[i] \in Details
    BY <1>3 DEF Mark, Served, TypeOK, Zero
  <2>3. aues'[i] \in Details
    BY <2>1, <2>2 DEF Details, TypeOK
  <2>4. aues' \in [AgentIdx -> Details \cup {Zero}]
    BY <2>1, <2>3 DEF TypeOK
  <2>5. QED
    BY <1>3, <2>4 DEF Mark, TypeOK
<1>4. CASE Report
  <2>1. PICK at \in Orders :
           wire' = Append(wire, [k \in DOMAIN at |-> aues[at[k]]])
    BY <1>4 DEF Report
  <2>2. Served \subseteq AgentIdx /\ \A i \in Served : aues[i] \in Details
    BY DEF Served, TypeOK, Zero
  <2>3. Cardinality(Served) \in 0..AgentSlots
    <3>1. IsFiniteSet(AgentIdx) /\ Cardinality(AgentIdx) = AgentSlots
      BY FS_Interval DEF AgentIdx
    <3>2. QED
      BY <2>2, <3>1, FS_Subset, FS_CardinalityType
  <2>4. at \in [1..Cardinality(Served) -> Served]
    BY <2>1 DEF Orders
  <2>5. [k \in DOMAIN at |-> aues[at[k]]] \in Messages
    BY <2>2, <2>3, <2>4 DEF Messages
  <2>6. wire' \in Seq(Messages)
    BY <2>1, <2>5 DEF TypeOK
  <2>7. told' \subseteq Rntis \X Ids
    BY <1>4, <2>2 DEF Report, TypeOK, Details
  <2>8. QED
    BY <1>4, <2>6, <2>7 DEF Report, TypeOK
<1>5. CASE Receive
  <2>1. Head(wire) \in Messages /\ wire' \in Seq(Messages)
    BY <1>5 DEF Receive, TypeOK
  <2>2. n' \in 0..AgentSlots
    BY <1>5, <2>1, MessageSeq DEF Receive
  <2>3. rx' \in [RxCells -> Details \cup {Zero, Payload}]
    BY <1>5, <2>1, MessageSeq DEF Receive, Over, TypeOK
  <2>4. ues' \in [Slots -> Entries]
    BY <1>5, ZeroEntry DEF Receive, TypeOK
  <2>5. c' \in Nat /\ pc' \in {"idle", "null", "parse", "done"}
    BY <1>5 DEF Receive
  <2>6. aues' = aues /\ told' = told /\ nof' = nof /\ stray' = stray
    BY <1>5 DEF Receive
  <2>7. QED
    BY <2>1, <2>2, <2>3, <2>4, <2>5, <2>6 DEF TypeOK
<1>6. CASE ReceiveOther
  <2>1. PICK m \in RxCells, zero \in BOOLEAN :
           rx' = Over([k \in 1..m |-> Payload], zero)
    BY <1>6 DEF ReceiveOther
  <2>2. rx' \in [RxCells -> Details \cup {Zero, Payload}]
    BY <2>1 DEF Over, TypeOK
  <2>3. QED
    BY <1>6, <2>2 DEF ReceiveOther, TypeOK
<1>7. CASE ForgetUe
  BY <1>7, ZeroEntry DEF ForgetUe, TypeOK
<1>8. CASE ParseTurn
  <2>1. PICK t \in Read : ParseToken(t)
    BY <1>8 DEF ParseTurn
  <2>2. t \in Readable
    BY <2>1, ReadTokens DEF ParseToken
  <2>3. c' \in Nat
    BY <2>1, <2>2, Sizes DEF ParseToken, Advance, TypeOK, Readable
  <2>4. nof' \in Nat
    BY <2>1 DEF ParseToken, Count
  <2>5. ues' \in [Slots -> Entries]
    <3>1. CASE ues' = ues
      BY <3>1 DEF TypeOK
    <3>2. CASE ues' # ues
      BY <2>1, <2>2, <3>2, StoreEffect DEF ParseToken
    <3>3. QED
      BY <3>1, <3>2
  <2>6. stray' \in BOOLEAN
    BY <2>1 DEF ParseToken, Store, TypeOK
  <2>7. QED
    BY <2>1, <2>3, <2>4, <2>5, <2>6 DEF ParseToken, TypeOK, agentVars
<1>9. CASE ParseEnd
  BY <1>9 DEF ParseEnd, TypeOK, agentVars
<1>10. CASE Resume \/ Refuse
  BY <1>10 DEF Resume, Refuse, Leave, TypeOK, agentVars
<1>11. CASE UNCHANGED vars
  BY <1>11 DEF vars, TypeOK
<1>12. QED
  BY <1>1, <1>2, <1>3, <1>4, <1>5, <1>6, <1>7, <1>8, <1>9, <1>10, <1>11
     DEF Next

(* Every variable stays in its type, in particular the cells the parser    *)
(* reads and the entries it writes, for every size of table and array.     *)
THEOREM TypeCorrect == Spec => []TypeOK
BY TypeInit, TypeNext, PTL DEF Spec

-----------------------------------------------------------------------------
(* The table.                                                              *)

(* A parse step either leaves the RNTIs of the table alone or gives the    *)
(* RNTI of the token to one slot that held it or, when no slot held it,    *)
(* was free.                                                               *)
LEMMA ParseEffect ==
  ASSUME TypeOK, ParseTurn
  PROVE  \/ \A i \in Slots : ues'[i].rnti = ues[i].rnti
         \/ \E r \in Rntis, j \in Slots :
               /\ Holding(r) # {} => ues[j].rnti = r
               /\ Holding(r) = {} => ues[j].rnti = NoRnti
               /\ ues'[j].rnti = r
               /\ \A i \in Slots \ {j} : ues'[i] = ues[i]
<1>1. PICK t \in Read : ParseToken(t)
  BY DEF ParseTurn
<1>2. t \in Readable
  BY <1>1, ReadTokens DEF ParseToken
<1>3. CASE ues' = ues
  BY <1>3
<1>4. CASE ues' # ues
  <2>1. Store(t)
    BY <1>1, <1>4 DEF ParseToken
  <2>2. PICK j \in Selected(t.rnti) :
           /\ j \in Slots
           /\ ues'[j].rnti = t.rnti
           /\ \A i \in Slots \ {j} : ues'[i] = ues[i]
    BY <1>2, <1>4, <2>1, StoreEffect
  <2>3. /\ Holding(t.rnti) # {} => ues[j].rnti = t.rnti
        /\ Holding(t.rnti) = {} => ues[j].rnti = NoRnti
    BY <2>2, SelectedSlot
  <2>4. CASE t.rnti = NoRnti
    BY <2>2, <2>3, <2>4
  <2>5. CASE t.rnti \in Rntis
    BY <2>2, <2>3, <2>5
  <2>6. QED
    BY <1>2, <2>4, <2>5 DEF Readable
<1>5. QED
  BY <1>3, <1>4

LEMMA UniqueInit == Init => UniqueRnti
BY DEF Init, UniqueRnti, Used, Zero

(* The one step that could break it is a parse step that gives the RNTI to *)
(* a free slot: it does so only when no slot holds it.                     *)
LEMMA UniqueNext == TypeOK /\ UniqueRnti /\ [Next]_vars => UniqueRnti'
<1> SUFFICES ASSUME TypeOK, UniqueRnti, [Next]_vars PROVE UniqueRnti'
  OBVIOUS
<1>1. ASSUME NEW i \in AgentIdx, Attach(i) \/ Detach(i) \/ Mark(i)
      PROVE  UniqueRnti'
  BY <1>1 DEF Attach, Detach, Mark, UniqueRnti, Used
<1>2. CASE Report
  BY <1>2 DEF Report, UniqueRnti, Used
<1>3. CASE Receive
  <2>1. CASE ues' = ues
    BY <2>1 DEF UniqueRnti, Used
  <2>2. CASE ues' = [j \in Slots |-> Zero]
    BY <2>2 DEF UniqueRnti, Used, Zero
  <2>3. QED
    BY <1>3, <2>1, <2>2 DEF Receive
<1>4. CASE ForgetUe
  <2>1. PICK j \in Slots : ues' = [ues EXCEPT ![j] = Zero]
    BY <1>4 DEF ForgetUe
  <2>2. \A i \in Slots : i \in Used' => i \in Used /\ ues'[i] = ues[i]
    BY <2>1 DEF Used, Zero, TypeOK
  <2>3. QED
    BY <2>2 DEF UniqueRnti, Used
<1>5. CASE ParseTurn
  <2>1. CASE \A i \in Slots : ues'[i].rnti = ues[i].rnti
    BY <2>1 DEF UniqueRnti, Used
  <2>2. CASE ~(\A i \in Slots : ues'[i].rnti = ues[i].rnti)
    <3>1. PICK r \in Rntis, j \in Slots :
                 /\ Holding(r) # {} => ues[j].rnti = r
                 /\ Holding(r) = {} => ues[j].rnti = NoRnti
                 /\ ues'[j].rnti = r
                 /\ \A i \in Slots \ {j} : ues'[i] = ues[i]
      BY <1>5, <2>2, ParseEffect
    <3>2. r # NoRnti
      BY RntisAssumption
    <3>3. ASSUME NEW i \in Slots, ues'[i].rnti = r PROVE i = j
      <4>1. SUFFICES ASSUME i # j PROVE FALSE
        OBVIOUS
      <4>2. ues[i].rnti = r /\ i \in Holding(r)
        BY <3>1, <3>3, <4>1 DEF Holding
      <4>3. ues[j].rnti = r
        BY <3>1, <4>2
      <4>4. QED
        BY <3>2, <4>1, <4>2, <4>3 DEF UniqueRnti, Used
    <3>4. SUFFICES ASSUME NEW h \in Used', NEW i \in Used',
                          ues'[h].rnti = ues'[i].rnti
                   PROVE  h = i
      BY DEF UniqueRnti
    <3>5. h \in Slots /\ i \in Slots
      BY DEF Used
    <3>6. CASE h = j \/ i = j
      BY <3>1, <3>3, <3>4, <3>5, <3>6
    <3>7. CASE h # j /\ i # j
      BY <3>1, <3>4, <3>5, <3>7 DEF UniqueRnti, Used
    <3>8. QED
      BY <3>6, <3>7
  <2>3. QED
    BY <2>1, <2>2
<1>6. CASE ReceiveOther \/ Refuse \/ ParseEnd \/ Resume
  BY <1>6 DEF ReceiveOther, Refuse, ParseEnd, Resume, UniqueRnti, Used
<1>7. CASE UNCHANGED vars
  BY <1>7 DEF vars, UniqueRnti, Used
<1>8. QED
  BY <1>1, <1>2, <1>3, <1>4, <1>5, <1>6, <1>7 DEF Next

(* No two slots of the table ever hold the same RNTI, for any number of    *)
(* RNTIs and slots, any caller and any bytes after the message.            *)
THEOREM UniqueRntiAlways == Spec => []UniqueRnti
<1>1. Spec => []TypeOK
  BY TypeCorrect
<1>2. TypeOK /\ UniqueRnti /\ [Next]_vars => UniqueRnti'
  BY UniqueNext
<1>3. QED
  BY <1>1, <1>2, UniqueInit, PTL DEF Spec

(* While a report is parsed no slot in use is handed to another RNTI.      *)
THEOREM NoEvictionAlways == Spec => NoEviction
<1>1. TypeOK /\ [Next]_vars =>
        [pc = "parse" => \A j \in Used : ues'[j].rnti = ues[j].rnti]_vars
  <2> SUFFICES ASSUME TypeOK, Next, pc = "parse", NEW j \in Used
               PROVE  ues'[j].rnti = ues[j].rnti
    OBVIOUS
  <2>1. CASE ParseTurn
    <3>1. CASE \A i \in Slots : ues'[i].rnti = ues[i].rnti
      BY <3>1 DEF Used
    <3>2. CASE ~(\A i \in Slots : ues'[i].rnti = ues[i].rnti)
      <4>1. PICK r \in Rntis, h \in Slots :
                   /\ Holding(r) # {} => ues[h].rnti = r
                   /\ Holding(r) = {} => ues[h].rnti = NoRnti
                   /\ ues'[h].rnti = r
                   /\ \A i \in Slots \ {h} : ues'[i] = ues[i]
        BY <2>1, <3>2, ParseEffect
      <4>2. j \in Slots /\ ues[j].rnti # NoRnti
        BY DEF Used
      <4>3. QED
        BY <4>1, <4>2
    <3>3. QED
      BY <3>1, <3>2
  <2>2. CASE ~ParseTurn
    BY <2>2 DEF Next, Attach, Detach, Mark, Report, Receive, ReceiveOther,
                ForgetUe, Refuse, ParseEnd, Resume
  <2>3. QED
    BY <2>1, <2>2
<1>2. QED
  BY <1>1, TypeCorrect, PTL DEF Spec, NoEviction

-----------------------------------------------------------------------------
(* The cursor.                                                             *)

(* No byte of a message of another kind lies in the receive buffer: the    *)
(* caller does not use it for one, or has zeroed it since.                 *)
Plain == \A k \in RxCells : rx[k] # Payload

(* The receive buffer: the tokens of the message, then cells in which no   *)
(* token follows a cell of zeros.                                          *)
BufferInv ==
  /\ \A k \in 1..n : rx[k] \in Details
  /\ \A j, k \in RxCells : j < k /\ rx[j] = Zero => rx[k] = Zero
  /\ Buffer # "shared" => Plain
  /\ Buffer = "zeroed" /\ pc # "idle" => ZeroTail
  /\ pc = "idle" => n = 0

(* The cursor leaves the cells' first bytes only over zeros, and from then *)
(* on there are zeros only.                                                *)
CursorInv == pc = "parse" /\ Plain =>
               \/ c % SizeofUeIdTLV = 0
               \/ \A k \in RxCells : k > c \div SizeofUeIdTLV => rx[k] = Zero

LEMMA ZeroIsNoToken ==
  /\ Zero \notin Details /\ Payload \notin Details
  /\ Zero.rnti = NoRnti /\ Zero # Payload
  /\ \A u \in Details : u.rnti # NoRnti
BY DEF Zero, Payload, Details, CONNECTED

(* The cells of a message are filled from the first, over an older prefix. *)
LEMMA BufferReceive == TypeOK /\ BufferInv /\ Receive => BufferInv'
<1> SUFFICES ASSUME TypeOK, BufferInv, Receive PROVE BufferInv'
  OBVIOUS
<1> DEFINE m == Head(wire)
<1>1. m \in Messages
  BY DEF Receive, TypeOK
<1>2. /\ n' \in 0..AgentSlots /\ DOMAIN m = 1..n'
      /\ \A k \in 1..n' : m[k] \in Details
  BY <1>1, MessageSeq DEF Receive
<1>3. \A k \in 1..n' : k \in RxCells
  BY <1>2 DEF RxCells
<1>4. PICK zero \in Zeroing : rx' = Over(m, zero)
  BY DEF Receive
<1>5. \A k \in RxCells :
         rx'[k] = IF k \in 1..n' THEN m[k] ELSE IF zero THEN Zero ELSE rx[k]
  BY <1>2, <1>4 DEF Over
<1> HIDE DEF m
<1>6. \A k \in 1..n' : rx'[k] \in Details
  BY <1>2, <1>3, <1>5
<1>7. ASSUME NEW j \in RxCells, NEW k \in RxCells, j < k, rx'[j] = Zero
      PROVE  rx'[k] = Zero
  <2>1. j \notin 1..n'
    BY <1>6, <1>7, ZeroIsNoToken
  <2>2. k \notin 1..n'
    BY <1>2, <1>7, <2>1 DEF RxCells
  <2>3. QED
    BY <1>5, <1>7, <2>1, <2>2 DEF BufferInv
<1>8. Buffer # "shared" => Plain'
  BY <1>2, <1>5, ZeroIsNoToken DEF BufferInv, Plain
<1>9. Buffer = "zeroed" => ZeroTail'
  <2> SUFFICES ASSUME Buffer = "zeroed", NEW k \in RxCells, k > n'
               PROVE  rx'[k] = Zero
    BY DEF ZeroTail
  <2>1. zero = TRUE
    BY <1>4 DEF Zeroing
  <2>2. k \notin 1..n'
    BY <1>2
  <2>3. QED
    BY <1>5, <2>1, <2>2
<1>10. pc' # "idle"
  BY DEF Receive
<1>11. QED
  BY <1>6, <1>7, <1>8, <1>9, <1>10 DEF BufferInv

(* So they are by a message of another kind.                               *)
LEMMA BufferReceiveOther == TypeOK /\ BufferInv /\ ReceiveOther => BufferInv'
<1> SUFFICES ASSUME TypeOK, BufferInv, ReceiveOther PROVE BufferInv'
  OBVIOUS
<1>1. PICK m \in RxCells, zero \in BOOLEAN :
         rx' = Over([k \in 1..m |-> Payload], zero)
  BY DEF ReceiveOther
<1>2. \A k \in RxCells : rx'[k] = IF k \in 1..m THEN Payload
                                  ELSE IF zero THEN Zero ELSE rx[k]
  BY <1>1 DEF Over
<1>3. \A j, k \in RxCells : j < k /\ rx'[j] = Zero => rx'[k] = Zero
  BY <1>2, ZeroIsNoToken DEF BufferInv, RxCells
<1>4. Buffer = "shared"
  BY DEF ReceiveOther
<1>5. n' = 0 /\ pc' = "idle"
  BY DEF ReceiveOther, BufferInv
<1>6. QED
  BY <1>3, <1>4, <1>5 DEF BufferInv

(* In a buffer without payload the loop reads a token of a report, at its  *)
(* first byte, or zeros.                                                   *)
LEMMA ReadInStep ==
  ASSUME TypeOK, BufferInv, CursorInv, Plain, pc = "parse", c < End
  PROVE  \/ /\ OnCell
            /\ c % 23 = 0 /\ (c \div 23) + 1 \in RxCells
            /\ rx[(c \div 23) + 1] \in Details
            /\ Read = {TokenOf(rx[(c \div 23) + 1])}
         \/ /\ OnZeros
            /\ (c \div 23) + 1 \in RxCells
            /\ \A h \in RxCells : h > c \div 23 => rx[h] = Zero
            /\ Read = {ZeroToken}
<1> DEFINE k == (c \div 23) + 1
           l == ((c + 3) \div 23) + 1
<1>1. /\ k \in RxCells /\ l \in RxCells
      /\ CellAt(c) = rx[k] /\ CellAt(c + SizeofTLV - 1) = rx[l]
  BY CellsInBuffer
<1>2. c \in Nat /\ AgentSlots \in Nat
  BY DEF TypeOK
<1>3. rx[k] \in Details \/ rx[k] = Zero
  BY <1>1 DEF TypeOK, Plain
<1>4. k > c \div 23 /\ l >= k
  BY <1>2
<1>5. CASE rx[k] = Zero
  <2>1. \A h \in RxCells : h > c \div 23 => rx[h] = Zero
    <3> SUFFICES ASSUME NEW h \in RxCells, h > c \div 23 PROVE rx[h] = Zero
      OBVIOUS
    <3>1. h = k \/ k < h
      BY <1>2 DEF RxCells
    <3> HIDE DEF k
    <3>2. QED
      BY <1>1, <1>5, <3>1 DEF BufferInv
  <2>2. l > c \div 23
    BY <1>2
  <2>3. rx[l] = Zero
    BY <1>1, <2>1, <2>2
  <2>4. OnZeros /\ ~OnCell
    BY <1>1, <1>5, <2>3, ZeroIsNoToken DEF OnZeros, OnCell
  <2>5. QED
    BY <1>1, <2>1, <2>4 DEF Read
<1>6. CASE rx[k] \in Details
  <2>1. c % 23 = 0
    <3>1. rx[k] # Zero
      BY <1>6, ZeroIsNoToken
    <3>2. QED
      BY <1>1, <1>4, <3>1, Sizes DEF CursorInv
  <2>2. OnCell
    BY <1>1, <1>6, <2>1, ZeroIsNoToken, Sizes DEF OnCell
  <2>3. QED
    BY <1>1, <1>6, <2>1, <2>2 DEF Read
<1>7. QED
  BY <1>3, <1>5, <1>6

(* One turn of the loop: the cursor goes on by a token or by zeros.        *)
LEMMA CursorStep ==
  ASSUME TypeOK, BufferInv, CursorInv, Plain, NEW t \in Read, ParseToken(t)
  PROVE  /\ CursorInv'
         /\ \/ /\ c % 23 = 0 /\ c' = c + 23
               /\ (c \div 23) + 1 \in RxCells
               /\ rx[(c \div 23) + 1] \in Details
               /\ t = TokenOf(rx[(c \div 23) + 1])
            \/ /\ c' = c + 4 /\ t = ZeroToken
               /\ (c \div 23) + 1 \in RxCells
               /\ rx[(c \div 23) + 1] = Zero
               /\ ues' = ues /\ stray' = stray /\ nof' = 0
<1>1. /\ c \in Nat /\ pc = "parse" /\ rx' = rx /\ pc' = pc /\ c < End
      /\ c' = Advance(t)
  BY DEF TypeOK, ParseToken
<1>2. CASE /\ c % 23 = 0 /\ (c \div 23) + 1 \in RxCells
           /\ rx[(c \div 23) + 1] \in Details
           /\ Read = {TokenOf(rx[(c \div 23) + 1])}
  <2>1. t = TokenOf(rx[(c \div 23) + 1])
    BY <1>2
  <2>2. c' = c + 23
    BY <1>1, <2>1, Sizes DEF Advance, TokenOf
  <2>3. c' % 23 = 0
    BY <1>1, <1>2, <2>2
  <2>4. QED
    BY <1>2, <2>1, <2>2, <2>3, Sizes DEF CursorInv
<1>3. CASE /\ (c \div 23) + 1 \in RxCells
           /\ \A h \in RxCells : h > c \div 23 => rx[h] = Zero
           /\ Read = {ZeroToken}
  <2>1. t = ZeroToken
    BY <1>3
  <2>2. c' = c + 4
    BY <1>1, <2>1, Sizes DEF Advance, ZeroToken
  <2>3. c' \div 23 >= c \div 23
    BY <1>1, <2>2
  <2>4. \A h \in RxCells : h > c' \div 23 => rx'[h] = Zero
    BY <1>1, <1>3, <2>2, <2>3 DEF RxCells
  <2>5. CursorInv'
    BY <2>4, Sizes DEF CursorInv
  <2>6. rx[(c \div 23) + 1] = Zero
    BY <1>1, <1>3
  <2>7. ues' = ues /\ stray' = stray /\ nof' = 0
    BY <2>1 DEF ParseToken, ZeroToken, Count, Counts
  <2>8. QED
    BY <1>3, <2>1, <2>2, <2>5, <2>6, <2>7
<1>4. QED
  BY <1>1, <1>2, <1>3, ReadInStep

LEMMA CursorInit == Init => BufferInv /\ CursorInv
<1> SUFFICES ASSUME Init PROVE BufferInv /\ CursorInv
  OBVIOUS
<1>1. \A k \in RxCells : rx[k] = Zero
  BY DEF Init
<1>2. n = 0 /\ pc = "idle"
  BY DEF Init
<1>3. QED
  BY <1>1, <1>2, ZeroIsNoToken DEF BufferInv, CursorInv, Plain

LEMMA CursorNext ==
  TypeOK /\ BufferInv /\ CursorInv /\ [Next]_vars => BufferInv' /\ CursorInv'
<1> SUFFICES ASSUME TypeOK, BufferInv, CursorInv, [Next]_vars
             PROVE  BufferInv' /\ CursorInv'
  OBVIOUS
<1>1. CASE Receive
  <2>1. c' = 0
    BY <1>1 DEF Receive
  <2>2. CursorInv'
    BY <2>1, Sizes DEF CursorInv
  <2>3. QED
    BY <1>1, <2>2, BufferReceive
<1>2. CASE ReceiveOther
  <2>1. pc' = "idle"
    BY <1>2 DEF ReceiveOther
  <2>2. QED
    BY <1>2, <2>1, BufferReceiveOther DEF CursorInv
<1>3. CASE ParseTurn
  <2>1. PICK t \in Read : ParseToken(t)
    BY <1>3 DEF ParseTurn
  <2>2. rx' = rx /\ n' = n /\ pc' = "parse" /\ pc = "parse"
    BY <2>1 DEF ParseToken
  <2>3. BufferInv'
    BY <2>2 DEF BufferInv, Plain, ZeroTail
  <2>4. CursorInv'
    <3>1. CASE Plain
      BY <2>1, <3>1, CursorStep
    <3>2. CASE ~Plain
      BY <2>2, <3>2 DEF CursorInv, Plain
    <3>3. QED
      BY <3>1, <3>2
  <2>5. QED
    BY <2>3, <2>4
<1>4. CASE ParseEnd
  <2>1. rx' = rx /\ n' = n /\ pc = "parse" /\ pc' = "done"
    BY <1>4 DEF ParseEnd
  <2>2. QED
    BY <2>1 DEF BufferInv, CursorInv, Plain, ZeroTail
<1>5. CASE Refuse \/ Resume
  <2>1. rx' = rx /\ n' = 0 /\ pc' = "idle"
    BY <1>5 DEF Refuse, Resume, Leave
  <2>2. QED
    BY <2>1 DEF BufferInv, CursorInv, Plain
<1>6. CASE ~(Receive \/ ReceiveOther \/ ParseTurn \/ ParseEnd \/ Refuse \/ Resume)
  <2>1. rx' = rx /\ n' = n /\ pc' = pc /\ c' = c
    BY <1>6 DEF Next, Attach, Detach, Mark, Report, ForgetUe, vars
  <2>2. QED
    BY <2>1 DEF BufferInv, CursorInv, Plain, ZeroTail
<1>7. QED
  BY <1>1, <1>2, <1>3, <1>4, <1>5, <1>6

LEMMA CursorAlways == Spec => [](TypeOK /\ BufferInv /\ CursorInv)
BY TypeCorrect, CursorInit, CursorNext, PTL DEF Spec

(* The cursor of epp_uerep_rep never stands inside a token, for any number *)
(* of UEs, also over the stale tokens of an earlier and longer report, in  *)
(* a receive buffer that is used for UE reports only.                      *)
THEOREM InStepAlways ==
  ASSUME Buffer # "shared"
  PROVE  Spec => []InStep
<1>1. TypeOK /\ BufferInv /\ CursorInv => InStep
  BY ReadInStep DEF InStep, BufferInv
<1>2. QED
  BY <1>1, CursorAlways, PTL

-----------------------------------------------------------------------------
(* The slot search.                                                        *)

(* A set of slots that is not empty has a first one.                       *)
LEMMA FirstExists ==
  ASSUME NEW S \in SUBSET Slots, S # {}
  PROVE  FirstOf(S) # {}
<1>1. S \in SUBSET Nat
  BY DEF Slots
<1>2. PICK j \in S : \A h \in S : j <= h
  BY <1>1, LeastExists
<1>3. QED
  BY <1>2 DEF FirstOf

(* With a slot for each RNTI, a table that holds no RNTI twice has a free  *)
(* slot for every RNTI it does not hold.                                   *)
LEMMA SomeSlot ==
  ASSUME TypeOK, UniqueRnti, Cardinality(Rntis) <= MaxUes, NEW r \in Rntis
  PROVE  Selected(r) # {}
<1>1. CASE Holding(r) # {}
  BY <1>1, FirstExists DEF Selected, Holding
<1>2. CASE Holding(r) = {}
  <2>1. Free # {}
    <3> SUFFICES ASSUME Free = {} PROVE FALSE
      OBVIOUS
    <3> DEFINE held == [j \in Slots |-> ues[j].rnti]
    <3>1. held \in [Slots -> Rntis \ {r}]
      BY <1>2 DEF Free, Holding, TypeOK, Entries
    <3>2. IsFiniteSet(Slots) /\ Cardinality(Slots) = MaxUes
      BY FS_Interval, SlotsAssumption DEF Slots
    <3>3. /\ IsFiniteSet(Rntis \ {r})
          /\ Cardinality(Rntis \ {r}) = Cardinality(Rntis) - 1
      BY FS_RemoveElement, FiniteAssumption
    <3>4. Cardinality(Rntis) \in Nat
      BY FS_CardinalityType, FiniteAssumption
    <3>5. Cardinality(Rntis \ {r}) < Cardinality(Slots)
      BY <3>2, <3>3, <3>4, SlotsAssumption
    <3>6. PICK i, j \in Slots : i # j /\ held[i] = held[j]
      <4> HIDE DEF held
      <4> QED
        BY <3>1, <3>2, <3>3, <3>5, FS_PigeonHole
    <3>7. i \in Used /\ j \in Used /\ ues[i].rnti = ues[j].rnti
      BY <3>6 DEF Free, Used
    <3>8. QED
      BY <3>6, <3>7 DEF UniqueRnti
  <2>2. QED
    BY <1>2, <2>1, FirstExists DEF Selected, Free
<1>3. QED
  BY <1>1, <1>2

(* What a turn of the loop stores is a token of the buffer.                *)
LEMMA TurnStores ==
  ASSUME TypeOK, BufferInv, CursorInv, Plain, NEW t \in Read, ParseToken(t),
         ~(ues' = ues /\ stray' = stray)
  PROVE  /\ t.rnti \in Rntis /\ t \in Readable /\ Store(t)
         /\ \E k \in RxCells : /\ rx[k] \in Details
                               /\ t.rnti = rx[k].rnti /\ t.id = rx[k].id
<1> DEFINE k == (c \div 23) + 1
<1>1. k \in RxCells /\ rx[k] \in Details /\ t = TokenOf(rx[k])
  BY CursorStep
<1>2. t.rnti = rx[k].rnti /\ t.id = rx[k].id
  BY <1>1 DEF TokenOf
<1>3. t.rnti \in Rntis
  BY <1>1, <1>2 DEF Details
<1>4. t \in Readable
  BY ReadTokens DEF ParseToken
<1>5. Store(t)
  BY DEF ParseToken
<1> HIDE DEF k
<1>6. QED
  BY <1>1, <1>2, <1>3, <1>4, <1>5

(* The slot search always selects a slot of the table, in every history of *)
(* reports, when the table has as many slots as there are RNTIs and the    *)
(* receive buffer is used for UE reports only.                             *)
THEOREM SlotAlwaysFound ==
  ASSUME Cardinality(Rntis) <= MaxUes, Buffer # "shared"
  PROVE  Spec => []SlotFound
<1>1. Init => SlotFound
  BY DEF Init, SlotFound
<1>2. TypeOK /\ UniqueRnti /\ BufferInv /\ CursorInv /\ SlotFound /\ [Next]_vars
        => SlotFound'
  <2> SUFFICES ASSUME TypeOK, UniqueRnti, BufferInv, CursorInv, SlotFound,
                      [Next]_vars
               PROVE  SlotFound'
    OBVIOUS
  <2>1. CASE ParseTurn
    <3>1. PICK t \in Read : ParseToken(t)
      BY <2>1 DEF ParseTurn
    <3>2. SUFFICES ASSUME stray' # stray PROVE FALSE
      BY DEF SlotFound
    <3>3. t.rnti \in Rntis /\ Store(t)
      BY <3>1, <3>2, TurnStores DEF BufferInv
    <3>4. Selected(t.rnti) # {}
      BY <3>3, SomeSlot
    <3>5. QED
      BY <3>2, <3>3, <3>4 DEF Store
  <2>2. CASE ~ParseTurn
    BY <2>2 DEF Next, Attach, Detach, Mark, Report, Receive, ReceiveOther,
                ForgetUe, Refuse, ParseEnd, Resume, vars, SlotFound
  <2>3. QED
    BY <2>1, <2>2
<1>3. QED
  BY <1>1, <1>2, CursorAlways, UniqueRntiAlways, PTL DEF Spec

-----------------------------------------------------------------------------
(* The refinement of UeDirectory.                                          *)

Pair(u) == <<u.rnti, u.id>>

(* Every token on its way was told: those of the messages in flight, those *)
(* in the receive buffer, and so those of earlier messages behind the one  *)
(* that is parsed.                                                         *)
TokensTold == /\ \A h \in 1..Len(wire) : \A k \in DOMAIN wire[h] :
                    Pair(wire[h][k]) \in told
              /\ \A k \in RxCells : rx[k] \in Details => Pair(rx[k]) \in told

LEMMA ToldInit == Init => TokensTold
BY ZeroIsNoToken DEF Init, TokensTold

LEMMA ToldNext == TypeOK /\ TokensTold /\ [Next]_vars => TokensTold'
<1> SUFFICES ASSUME TypeOK, TokensTold, [Next]_vars PROVE TokensTold'
  OBVIOUS
<1>1. CASE Report
  <2>1. PICK at \in Orders :
           wire' = Append(wire, [k \in DOMAIN at |-> aues[at[k]]])
    BY <1>1 DEF Report
  <2>2. \A k \in DOMAIN at : at[k] \in Served
    BY <2>1 DEF Orders
  <2>3. \A k \in DOMAIN at : Pair(aues[at[k]]) \in told'
    BY <1>1, <2>2 DEF Report, Pair
  <2>4. told \subseteq told'
    BY <1>1 DEF Report
  <2>5. ASSUME NEW h \in 1..Len(wire'), NEW k \in DOMAIN wire'[h]
        PROVE  Pair(wire'[h][k]) \in told'
    <3>1. wire \in Seq(Messages) /\ Len(wire) \in Nat
      BY DEF TypeOK
    <3>2. Len(wire') = Len(wire) + 1
      BY <2>1, <3>1
    <3>3. CASE h = Len(wire) + 1
      <4>1. wire'[h] = [i \in DOMAIN at |-> aues[at[i]]]
        BY <2>1, <3>1, <3>3
      <4>2. QED
        BY <2>3, <4>1
    <3>4. CASE h # Len(wire) + 1
      <4>1. h \in 1..Len(wire)
        BY <3>1, <3>2, <3>4
      <4>2. wire'[h] = wire[h]
        BY <2>1, <3>1, <4>1
      <4>3. QED
        BY <2>4, <4>1, <4>2 DEF TokensTold
    <3>5. QED
      BY <3>3, <3>4
  <2>6. \A k \in RxCells : rx'[k] \in Details => Pair(rx'[k]) \in told'
    BY <1>1, <2>4 DEF Report, TokensTold
  <2>7. QED
    BY <2>5, <2>6 DEF TokensTold
<1>2. CASE Receive
  <2> DEFINE m == Head(wire)
  <2>1. wire \in Seq(Messages) /\ wire # <<>> /\ told' = told
    BY <1>2 DEF Receive, TypeOK
  <2>2. m = wire[1] /\ 1 \in 1..Len(wire)
    BY <2>1
  <2>3. \A k \in DOMAIN m : Pair(m[k]) \in told
    BY <2>2 DEF TokensTold
  <2>4. ASSUME NEW k \in RxCells, rx'[k] \in Details
        PROVE  Pair(rx'[k]) \in told'
    <3>1. PICK zero \in Zeroing : rx' = Over(m, zero)
      BY <1>2 DEF Receive
    <3>2. rx'[k] = IF k \in DOMAIN m THEN m[k] ELSE IF zero THEN Zero ELSE rx[k]
      BY <3>1 DEF Over
    <3>3. QED
      BY <2>1, <2>3, <2>4, <3>2, ZeroIsNoToken DEF TokensTold
  <2>5. ASSUME NEW h \in 1..Len(wire'), NEW k \in DOMAIN wire'[h]
        PROVE  Pair(wire'[h][k]) \in told'
    <3>1. wire' = Tail(wire)
      BY <1>2 DEF Receive
    <3>2. h + 1 \in 1..Len(wire) /\ wire'[h] = wire[h + 1]
      BY <2>1, <3>1
    <3>3. QED
      BY <2>1, <3>2 DEF TokensTold
  <2>6. QED
    BY <2>4, <2>5 DEF TokensTold
<1>3. CASE ReceiveOther
  <2>1. wire' = wire /\ told' = told
    BY <1>3 DEF ReceiveOther
  <2>2. PICK m \in RxCells, zero \in BOOLEAN :
           rx' = Over([k \in 1..m |-> Payload], zero)
    BY <1>3 DEF ReceiveOther
  <2>3. \A k \in RxCells : rx'[k] = IF k \in 1..m THEN Payload
                                    ELSE IF zero THEN Zero ELSE rx[k]
    BY <2>2 DEF Over
  <2>4. \A k \in RxCells : rx'[k] \in Details => rx'[k] = rx[k]
    BY <2>3, ZeroIsNoToken
  <2>5. QED
    BY <2>1, <2>4 DEF TokensTold
<1>4. CASE ~Report /\ ~Receive /\ ~ReceiveOther
  <2>1. wire' = wire /\ rx' = rx /\ told' = told
    BY <1>4 DEF Next, Attach, Detach, Mark, ForgetUe, Refuse, ParseTurn,
                ParseToken, ParseEnd, Resume, vars, agentVars
  <2>2. QED
    BY <2>1 DEF TokensTold
<1>5. QED
  BY <1>1, <1>2, <1>3, <1>4

(* What the directory says, read off a table that holds no RNTI twice.     *)
KnownFromTable ==
  /\ \A r \in Rntis, j \in Slots : ues[j].rnti = r => Known[r] = ues[j].id
  /\ \A r \in Rntis : (\A j \in Slots : ues[j].rnti # r) => Known[r] = NoId

LEMMA KnownFacts == UniqueRnti => KnownFromTable
<1> SUFFICES ASSUME UniqueRnti PROVE KnownFromTable
  OBVIOUS
<1>1. ASSUME NEW r \in Rntis, NEW j \in Slots, ues[j].rnti = r
      PROVE  Known[r] = ues[j].id
  <2>1. r # NoRnti
    OBVIOUS
  <2>2. Holding(r) = {j}
    BY <1>1, <2>1 DEF Holding, UniqueRnti, Used
  <2>3. (CHOOSE i \in Holding(r) : TRUE) = j
    BY <2>2
  <2>4. QED
    BY <2>2, <2>3 DEF Known
<1>2. ASSUME NEW r \in Rntis, \A j \in Slots : ues[j].rnti # r
      PROVE  Known[r] = NoId
  BY <1>2 DEF Known, Holding
<1>3. QED
  BY <1>1, <1>2 DEF KnownFromTable

LEMMA KnownFactsNext == UniqueRnti' => KnownFromTable'
BY KnownFacts, PTL

(* One slot changes, so one entry of the directory does.                   *)
LEMMA OneEntry ==
  ASSUME TypeOK, UniqueRnti, UniqueRnti',
         NEW s \in Rntis, NEW j \in Slots,
         ues[j].rnti \in {s, NoRnti},
         Holding(s) # {} => ues[j].rnti = s,
         ues'[j].rnti \in {s, NoRnti},
         \A i \in Slots \ {j} : ues'[i] = ues[i]
  PROVE  /\ \A r \in Rntis \ {s} : Known'[r] = Known[r]
         /\ Known'[s] = IF ues'[j].rnti = s THEN ues'[j].id ELSE NoId
<1> USE DEF KnownFromTable
<1>1. ASSUME NEW r \in Rntis \ {s} PROVE Known'[r] = Known[r]
  <2>1. r # NoRnti
    OBVIOUS
  <2>2. \A i \in Slots : ues'[i].rnti = r \/ ues[i].rnti = r => i # j
    BY <2>1
  <2>3. CASE \E i \in Slots : ues[i].rnti = r
    BY <2>2, <2>3, KnownFacts, KnownFactsNext
  <2>4. CASE \A i \in Slots : ues[i].rnti # r
    BY <2>2, <2>4, KnownFacts, KnownFactsNext
  <2>5. QED
    BY <2>3, <2>4
<1>2. CASE ues'[j].rnti = s
  BY <1>1, <1>2, KnownFactsNext
<1>3. CASE ues'[j].rnti # s
  <2>1. \A i \in Slots : ues'[i].rnti # s
    <3> SUFFICES ASSUME NEW i \in Slots, ues'[i].rnti = s PROVE FALSE
      OBVIOUS
    <3>1. i # j /\ ues[i].rnti = s
      BY <1>3
    <3>2. ues[j].rnti = s
      BY <3>1 DEF Holding
    <3>3. QED
      BY <3>1, <3>2 DEF UniqueRnti, Used
  <2>2. QED
    BY <1>1, <1>3, <2>1, KnownFactsNext
<1>4. QED
  BY <1>1, <1>2, <1>3

LEMMA KnownFunction == Known = [r \in Rntis |-> Known[r]]
BY DEF Known

LEMMA KnownFunctionNext == Known' = [r \in Rntis |-> Known'[r]]
BY DEF Known

LEMMA SameTable == ues' = ues => Known' = Known
BY DEF Known, Holding

(* A parse step learns one entry that was told, or nothing.                *)
LEMMA ParseLearns ==
  ASSUME TypeOK, UniqueRnti, UniqueRnti', TokensTold, BufferInv, CursorInv,
         Plain, ParseTurn
  PROVE  Directory!Learn \/ Known' = Known
<1>1. CASE ues' = ues
  BY <1>1, SameTable
<1>2. CASE ues' # ues
  <2>1. PICK t \in Read : ParseToken(t)
    BY DEF ParseTurn
  <2>2. /\ t.rnti \in Rntis /\ t \in Readable /\ Store(t)
        /\ \E k \in RxCells : /\ rx[k] \in Details
                              /\ t.rnti = rx[k].rnti /\ t.id = rx[k].id
    BY <1>2, <2>1, TurnStores
  <2>3. told' = told
    BY <2>1 DEF ParseToken, agentVars
  <2>4. PICK j \in Selected(t.rnti) :
           /\ j \in Slots
           /\ ues'[j].rnti = t.rnti /\ ues'[j].id = t.id
           /\ \A i \in Slots \ {j} : ues'[i] = ues[i]
    BY <1>2, <2>2, StoreEffect
  <2>5. <<t.rnti, t.id>> \in told
    BY <2>2 DEF TokensTold, Pair
  <2>6. /\ \A r \in Rntis \ {t.rnti} : Known'[r] = Known[r]
        /\ Known'[t.rnti] = t.id
    <3>1. /\ Holding(t.rnti) # {} => ues[j].rnti = t.rnti
          /\ Holding(t.rnti) = {} => ues[j].rnti = NoRnti
      BY <2>4, SelectedSlot
    <3>2. QED
      BY <2>2, <2>4, <3>1, OneEntry
  <2>7. Known' = [Known EXCEPT ![t.rnti] = t.id]
    BY <2>6, KnownFunction, KnownFunctionNext
  <2> DEFINE e == <<t.rnti, t.id>>
  <2>8. e[1] = t.rnti /\ e[2] = t.id
    OBVIOUS
  <2> HIDE DEF e
  <2>9. e \in told
    BY <2>5 DEF e
  <2>10. QED
    BY <2>3, <2>7, <2>8, <2>9 DEF Directory!Learn
<1>3. QED
  BY <1>1, <1>2

(* Zeroing one entry, or all, forgets what the directory says of it.       *)
LEMMA ForgetUeForgets ==
  ASSUME TypeOK, UniqueRnti, UniqueRnti', ForgetUe
  PROVE  Directory!Forget
<1>1. PICK j \in Slots : ues' = [ues EXCEPT ![j] = Zero]
  BY DEF ForgetUe
<1>2. ues'[j].rnti = NoRnti /\ \A i \in Slots \ {j} : ues'[i] = ues[i]
  BY <1>1 DEF TypeOK, Zero
<1>3. told' = told
  BY DEF ForgetUe
<1>4. CASE ues[j].rnti \in Rntis
  <2> DEFINE s == ues[j].rnti
  <2>1. s # NoRnti /\ Holding(s) # {}
    BY <1>4 DEF Holding
  <2>2. /\ \A r \in Rntis \ {s} : Known'[r] = Known[r]
        /\ Known'[s] = NoId
    BY <1>2, <1>4, <2>1, OneEntry
  <2>3. Known' = [r \in Rntis |-> IF r \in {s} THEN NoId ELSE Known[r]]
    BY <2>2, KnownFunctionNext
  <2>4. {s} \in SUBSET Rntis
    BY <1>4
  <2>5. QED
    BY <1>3, <2>3, <2>4 DEF Directory!Forget
<1>5. CASE ues[j].rnti \notin Rntis
  <2>1. ASSUME NEW r \in Rntis PROVE Known'[r] = Known[r]
    <3>1. r # NoRnti
      OBVIOUS
    <3>2. \A i \in Slots : ues'[i].rnti = r \/ ues[i].rnti = r => i # j
      BY <1>2, <1>5, <3>1
    <3>3. CASE \E i \in Slots : ues[i].rnti = r
      BY <1>2, <3>2, <3>3, KnownFacts, KnownFactsNext DEF KnownFromTable
    <3>4. CASE \A i \in Slots : ues[i].rnti # r
      BY <1>2, <3>2, <3>4, KnownFacts, KnownFactsNext DEF KnownFromTable
    <3>5. QED
      BY <3>3, <3>4
  <2>2. Known' = [r \in Rntis |-> IF r \in {} THEN NoId ELSE Known[r]]
    BY <2>1, KnownFunctionNext
  <2>3. {} \in SUBSET Rntis
    OBVIOUS
  <2>4. QED
    BY <1>3, <2>2, <2>3, Zenon DEF Directory!Forget
<1>6. QED
  BY <1>4, <1>5

LEMMA ReceiveForgets ==
  ASSUME TypeOK, Receive
  PROVE  Directory!Forget \/ Known' = Known
<1>1. CASE ues' = ues
  BY <1>1, SameTable
<1>2. CASE ues' = [j \in Slots |-> Zero]
  <2>1. \A j \in Slots : ues'[j].rnti = NoRnti
    BY <1>2 DEF Zero
  <2>2. \A r \in Rntis : Holding(r)' = {}
    BY <2>1 DEF Holding
  <2>3. Known' = [r \in Rntis |-> NoId]
    BY <2>2 DEF Known
  <2>4. Known' = [r \in Rntis |-> IF r \in Rntis THEN NoId ELSE Known[r]]
    BY <2>3
  <2>5. QED
    BY <2>4 DEF Receive, Directory!Forget
<1>3. QED
  BY <1>1, <1>2 DEF Receive

LEMMA ReportTells ==
  ASSUME TypeOK, Report
  PROVE  Directory!Tell
<1> DEFINE S == {<<aues[i].rnti, aues[i].id>> : i \in Served}
<1>1. \A i \in Served : aues[i] \in Details
  BY DEF Served, TypeOK, Zero
<1>2. S \in SUBSET (Rntis \X Ids)
  BY <1>1 DEF Details
<1>3. told' = told \cup S /\ ues' = ues
  BY DEF Report
<1>4. QED
  BY <1>2, <1>3, SameTable DEF Directory!Tell

LEMMA DirectoryInit == Init => Directory!Init
<1> SUFFICES ASSUME Init PROVE Directory!Init
  OBVIOUS
<1>1. \A r \in Rntis : Holding(r) = {}
  BY DEF Init, Holding, Zero
<1>2. QED
  BY <1>1 DEF Init, Known, Directory!Init

LEMMA DirectoryNext ==
  /\ TypeOK /\ UniqueRnti /\ UniqueRnti' /\ TokensTold
  /\ BufferInv /\ CursorInv /\ Plain
  /\ [Next]_vars
  => [Directory!Next]_(Directory!vars)
<1> SUFFICES ASSUME TypeOK, UniqueRnti, UniqueRnti', TokensTold, BufferInv,
                    CursorInv, Plain, [Next]_vars
             PROVE  Directory!Next \/ (told' = told /\ Known' = Known)
  BY DEF Directory!vars
<1>1. CASE Report
  BY <1>1, ReportTells DEF Directory!Next
<1>2. CASE Receive
  <2>1. told' = told
    BY <1>2 DEF Receive
  <2>2. QED
    BY <1>2, <2>1, ReceiveForgets DEF Directory!Next
<1>3. CASE ForgetUe
  BY <1>3, ForgetUeForgets DEF Directory!Next
<1>4. CASE ParseTurn
  <2>1. told' = told
    BY <1>4 DEF ParseTurn, ParseToken, agentVars
  <2>2. QED
    BY <1>4, <2>1, ParseLearns DEF Directory!Next
<1>5. CASE ~(Report \/ Receive \/ ForgetUe \/ ParseTurn)
  <2>1. told' = told /\ ues' = ues
    BY <1>5 DEF Next, Attach, Detach, Mark, ReceiveOther, Refuse, ParseEnd,
                Resume, vars, agentVars
  <2>2. QED
    BY <2>1, SameTable
<1>6. QED
  BY <1>1, <1>2, <1>3, <1>4, <1>5

(* The table that the parser of UE reports fills is a directory of what    *)
(* was reported, for any number of UEs, RNTIs, slots and reports in flight *)
(* and whatever tokens of earlier reports stand behind a message, in a     *)
(* receive buffer that is used for UE reports only: each step records one  *)
(* identity under the RNTI the base station told it for, forgets, or       *)
(* changes nothing.  (Behind a message of another kind epp_uerep_rep may   *)
(* read a token of an identity that nobody told: see the README.)          *)
THEOREM TableImplementsDirectory ==
  ASSUME Buffer # "shared"
  PROVE  Spec => ImplementsDirectory
<1>1. Spec => [](TypeOK /\ UniqueRnti /\ BufferInv /\ CursorInv)
  BY CursorAlways, UniqueRntiAlways, PTL
<1>2. Spec => []TokensTold
  BY TypeCorrect, ToldInit, ToldNext, PTL DEF Spec
<1>3. BufferInv => Plain
  BY DEF BufferInv
<1>4. QED
  BY <1>1, <1>2, <1>3, DirectoryInit, DirectoryNext, PTL
     DEF Spec, ImplementsDirectory, Directory!Spec

(* Every identity in the table was told by the base station for the RNTI   *)
(* it is stored under: the RNTI of one UE never stands beside the identity *)
(* of another, while the receive buffer is used for UE reports only.       *)
THEOREM TableHoldsWhatWasTold ==
  ASSUME Buffer # "shared"
  PROVE  Spec => []Directory!OnlyTold
<1> USE DEF Directory!OnlyTold
<1>1. Init => Directory!OnlyTold
  <2>1. Directory!Init => Directory!OnlyTold
    BY DEF Directory!Init
  <2>2. QED
    BY <2>1, DirectoryInit
<1>2. TypeOK /\ Directory!OnlyTold /\ [Directory!Next]_(Directory!vars)
        => Directory!OnlyTold'
  <2> SUFFICES ASSUME TypeOK, Directory!OnlyTold,
                      Directory!Next \/ (told' = told /\ Known' = Known)
               PROVE  Directory!OnlyTold'
    BY DEF Directory!vars
  <2>1. CASE Directory!Tell
    BY <2>1 DEF Directory!Tell
  <2>2. CASE Directory!Learn
    <3>1. PICK e \in told : Known' = [Known EXCEPT ![e[1]] = e[2]]
      BY <2>2 DEF Directory!Learn
    <3>2. e = <<e[1], e[2]>> /\ told' = told
      BY <2>2 DEF Directory!Learn, TypeOK
    <3>3. \A r \in Rntis : Known'[r] = IF r = e[1] THEN e[2] ELSE Known[r]
      BY <3>1, KnownFunction
    <3>4. QED
      BY <3>2, <3>3
  <2>3. CASE Directory!Forget
    BY <2>3 DEF Directory!Forget
  <2>4. QED
    BY <2>1, <2>2, <2>3 DEF Directory!Next
<1>3. /\ TypeOK /\ UniqueRnti /\ UniqueRnti' /\ TokensTold
      /\ BufferInv /\ CursorInv /\ [Next]_vars /\ Directory!OnlyTold
      => Directory!OnlyTold'
  BY <1>2, DirectoryNext DEF BufferInv
<1>4. Spec => []TokensTold
  BY TypeCorrect, ToldInit, ToldNext, PTL DEF Spec
<1>5. QED
  BY <1>1, <1>3, <1>4, CursorAlways, UniqueRntiAlways, PTL DEF Spec
=============================================================================
