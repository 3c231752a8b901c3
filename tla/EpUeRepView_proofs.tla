--------------------------- MODULE EpUeRepView_proofs ---------------------------
(***************************************************************************)
(* Proofs about what one parse of a UE report leaves in the table (EpUeRep *)
(* and what EpUeRep_proofs shows of every step): the number it returns is  *)
(* bounded, every reported UE is stored, and a caller that clears its      *)
(* table and its buffer gets the UEs of the report and no other.           *)
(***************************************************************************)
EXTENDS EpUeRep_proofs

USE SlotsAssumption, RntisAssumption

-----------------------------------------------------------------------------
(* The end of a parse.                                                     *)

(* A parse that is over has gone past the tokens of the message.           *)
DoneInv == pc = "done" /\ Plain => n * SizeofUeIdTLV <= c

(* The number returned is the last token's: at most one UE, a stored one.  *)
CountInv == Plain /\ (pc = "done" \/ (pc = "parse" /\ c > 0)) =>
              nof = 0 \/ (nof = 1 /\ Used # {})

ParseInv == BufferInv /\ CursorInv /\ DoneInv /\ CountInv

LEMMA ParseInit == Init => ParseInv
<1> SUFFICES ASSUME Init PROVE ParseInv
  OBVIOUS
<1>1. BufferInv /\ CursorInv
  BY CursorInit
<1>2. DoneInv /\ CountInv
  BY DEF Init, DoneInv, CountInv
<1>3. QED
  BY <1>1, <1>2 DEF ParseInv

(* The loop does not stop before the last token of the message.            *)
LEMMA EndBehindTokens ==
  ASSUME TypeOK, BufferInv, CursorInv, Plain, ParseEnd
  PROVE  n * SizeofUeIdTLV <= c /\ c > 0
<1> USE Sizes
<1> DEFINE k == (c \div 23) + 1
<1>1. c \in Nat /\ n \in 0..AgentSlots /\ pc = "parse" /\ End = n * 23 + 27
  BY DEF TypeOK, ParseEnd, End
<1>2. SUFFICES ASSUME c < 23 * n \/ c = 0 PROVE FALSE
  BY <1>1
<1>3. c < End
  BY <1>1, <1>2
<1>4. PICK t \in Read : Advance(t) > End
  BY <1>3 DEF ParseEnd
<1>5. CASE c % 23 = 0 /\ t = TokenOf(rx[k])
  <2>1. Advance(t) = c + 23
    BY <1>1, <1>5 DEF Advance, TokenOf
  <2>2. c + 23 <= 23 * n + 23
    BY <1>1, <1>2
  <2>3. QED
    BY <1>1, <1>4, <2>1, <2>2
<1>6. CASE t = ZeroToken /\ \A h \in RxCells : h > c \div 23 => rx[h] = Zero
  <2>1. Advance(t) = c + 4
    BY <1>1, <1>6 DEF Advance, ZeroToken
  <2>2. ~(c = 0)
    BY <1>1, <1>4, <2>1
  <2>3. k \in 1..n /\ k \in RxCells /\ k > c \div 23
    BY <1>1, <1>2, <2>2 DEF RxCells
  <2>4. rx[k] = Zero /\ rx[k] \in Details
    BY <1>6, <2>3 DEF BufferInv
  <2>5. QED
    BY <2>4, ZeroIsNoToken
<1>7. QED
  BY <1>1, <1>3, <1>5, <1>6, ReadInStep

(* Each turn returns its own count: one only when it met a free slot, and  *)
(* then it stored the UE.                                                  *)
LEMMA CountStep ==
  ASSUME TypeOK, BufferInv, CursorInv, Plain, ParseTurn
  PROVE  nof' = 0 \/ (nof' = 1 /\ Used' # {})
<1>1. PICK t \in Read : ParseToken(t)
  BY DEF ParseTurn
<1>2. CASE nof' = 0
  BY <1>2
<1>3. CASE nof' # 0
  <2> DEFINE k == (c \div 23) + 1
  <2>1. nof' = 1 /\ t.type = "UE_REP_ID" /\ Free # {}
    BY <1>1, <1>3 DEF ParseToken, Count, Counts
  <2>2. k \in RxCells /\ rx[k] \in Details /\ t = TokenOf(rx[k])
    BY <1>1, <1>3, CursorStep
  <2>3. t.rnti \in Rntis
    BY <2>2 DEF Details, TokenOf
  <2>4. t \in Readable /\ Store(t)
    BY <1>1, <2>1, ReadTokens DEF ParseToken
  <2>5. Selected(t.rnti) # {}
    BY <2>1, FirstExists DEF Selected, Free, Holding
  <2>6. PICK j \in Selected(t.rnti) :
           ues' = [ues EXCEPT ![j] = [@ EXCEPT !.rnti = t.rnti, !.id = t.id]]
    BY <2>4, <2>5 DEF Store
  <2>7. j \in Slots
    BY SelectedSlot
  <2>8. ues'[j].rnti = t.rnti
    <3>1. ues[j] \in Entries
      BY <2>7 DEF TypeOK
    <3>2. ues'[j] = [ues[j] EXCEPT !.rnti = t.rnti, !.id = t.id]
      BY <2>6, <2>7 DEF TypeOK
    <3>3. QED
      BY <3>1, <3>2 DEF Entries
  <2>9. QED
    BY <2>1, <2>3, <2>7, <2>8 DEF Used
<1>4. QED
  BY <1>2, <1>3

LEMMA ParseNext == TypeOK /\ ParseInv /\ [Next]_vars => ParseInv'
<1> SUFFICES ASSUME TypeOK, ParseInv, [Next]_vars PROVE ParseInv'
  OBVIOUS
<1> USE DEF ParseInv
<1>0. BufferInv' /\ CursorInv'
  BY CursorNext
<1>1. CASE Receive
  <2>1. c' = 0 /\ pc' \in {"parse", "null"}
    BY <1>1 DEF Receive
  <2>2. DoneInv' /\ CountInv'
    BY <2>1 DEF DoneInv, CountInv
  <2>3. QED
    BY <1>0, <2>2
<1>2. CASE ParseTurn
  <2>1. rx' = rx /\ pc' = "parse"
    BY <1>2 DEF ParseTurn, ParseToken
  <2>2. DoneInv' /\ CountInv'
    BY <1>2, <2>1, CountStep DEF DoneInv, CountInv, Plain
  <2>3. QED
    BY <1>0, <2>2
<1>3. CASE ParseEnd
  <2>1. rx' = rx /\ n' = n /\ c' = c /\ ues' = ues /\ nof' = nof
    BY <1>3 DEF ParseEnd
  <2>2. Plain => n * SizeofUeIdTLV <= c /\ c > 0
    BY <1>3, EndBehindTokens
  <2>3. DoneInv'
    BY <2>1, <2>2 DEF DoneInv, Plain
  <2>4. CountInv'
    BY <1>3, <2>1, <2>2 DEF ParseEnd, CountInv, Used, Plain
  <2>5. QED
    BY <1>0, <2>3, <2>4
<1>4. CASE ReceiveOther \/ ForgetUe \/ Refuse \/ Resume
  <2>1. pc' = "idle"
    BY <1>4 DEF ReceiveOther, ForgetUe, Refuse, Resume, Leave
  <2>2. QED
    BY <1>0, <2>1 DEF DoneInv, CountInv
<1>5. CASE ~(Receive \/ ReceiveOther \/ ParseTurn \/ ParseEnd \/ ForgetUe
             \/ Refuse \/ Resume)
  <2>1. /\ rx' = rx /\ n' = n /\ pc' = pc /\ c' = c /\ ues' = ues /\ nof' = nof
    BY <1>5 DEF Next, Attach, Detach, Mark, Report, vars
  <2>2. QED
    BY <1>0, <2>1 DEF DoneInv, CountInv, Used, Plain
<1>6. QED
  BY <1>1, <1>2, <1>3, <1>4, <1>5

LEMMA ParseAlways == Spec => [](TypeOK /\ ParseInv)
BY TypeCorrect, ParseInit, ParseNext, PTL DEF Spec

(* The number of UEs epp_uerep_rep returns never exceeds the slots in use, *)
(* for any table and any report, the empty one too, in a receive buffer    *)
(* that is used for UE reports only.                                       *)
THEOREM CountAlwaysBounded ==
  ASSUME Buffer # "shared"
  PROVE  Spec => []CountBounded
<1>1. TypeOK /\ ParseInv => CountBounded
  <2> SUFFICES ASSUME TypeOK, ParseInv, pc = "done"
               PROVE  nof <= Cardinality(Used)
    BY DEF CountBounded
  <2>1. IsFiniteSet(Slots)
    BY FS_Interval DEF Slots
  <2>2. IsFiniteSet(Used)
    BY <2>1, FS_Subset DEF Used
  <2>3. Cardinality(Used) \in Nat /\ (Used # {} => Cardinality(Used) # 0)
    BY <2>2, FS_CardinalityType, FS_EmptySet
  <2>4. QED
    BY <2>3 DEF ParseInv, CountInv, BufferInv
<1>2. QED
  BY <1>1, ParseAlways, PTL

-----------------------------------------------------------------------------
(* What is stored.                                                         *)

(* No report names an RNTI twice: the base station gives it to one UE.     *)
DistinctInv ==
  /\ \A h, k \in Served : aues[h].rnti = aues[k].rnti => h = k
  /\ \A h \in 1..Len(wire) : \A j, k \in DOMAIN wire[h] :
        wire[h][j].rnti = wire[h][k].rnti => j = k
  /\ \A j, k \in 1..n : rx[j].rnti = rx[k].rnti => j = k

(* Slot j holds the UE of token k.                                         *)
Holds(j, k) == ues[j].rnti = rx[k].rnti /\ ues[j].id = rx[k].id

(* The tokens the cursor has passed.                                       *)
Passed == {k \in 1..n : k * SizeofUeIdTLV <= c}

StoredInv == pc # "idle" /\ ZeroTail =>
               \A k \in Passed : \E j \in Slots : Holds(j, k)
OnlyInv   == pc # "idle" => \A j \in Used : \E k \in Passed : Holds(j, k)

LEMMA DistinctInit == Init => DistinctInv
<1> SUFFICES ASSUME Init PROVE DistinctInv
  OBVIOUS
<1>1. Served = {}
  BY DEF Init, Served, Zero
<1>2. Len(wire) = 0 /\ n = 0
  BY DEF Init
<1>3. QED
  BY <1>1, <1>2 DEF DistinctInv

LEMMA DistinctNext ==
  TypeOK /\ BufferInv /\ DistinctInv /\ [Next]_vars => DistinctInv'
<1> SUFFICES ASSUME TypeOK, BufferInv, DistinctInv, [Next]_vars
             PROVE  DistinctInv'
  OBVIOUS
<1> USE DEF DistinctInv
<1>1. ASSUME NEW i \in AgentIdx, Attach(i) PROVE DistinctInv'
  <2>1. PICK u \in Details : /\ \A h \in Served : aues[h].rnti # u.rnti
                             /\ aues' = [aues EXCEPT ![i] = u]
    BY <1>1 DEF Attach
  <2>2. /\ aues'[i] = u
        /\ \A h \in AgentIdx \ {i} : aues'[h] = aues[h]
    BY <2>1 DEF TypeOK
  <2>3. \A h, k \in Served' : aues'[h].rnti = aues'[k].rnti => h = k
    BY <2>1, <2>2 DEF Served
  <2>4. wire' = wire /\ rx' = rx /\ n' = n
    BY <1>1 DEF Attach
  <2>5. QED
    BY <2>3, <2>4
<1>2. ASSUME NEW i \in AgentIdx, Detach(i) PROVE DistinctInv'
  <2>1. /\ aues'[i] = Zero
        /\ \A h \in AgentIdx \ {i} : aues'[h] = aues[h]
    BY <1>2 DEF Detach, TypeOK
  <2>2. \A h, k \in Served' : aues'[h].rnti = aues'[k].rnti => h = k
    BY <2>1 DEF Served, Zero
  <2>3. wire' = wire /\ rx' = rx /\ n' = n
    BY <1>2 DEF Detach
  <2>4. QED
    BY <2>2, <2>3
<1>3. ASSUME NEW i \in AgentIdx, Mark(i) PROVE DistinctInv'
  <2>1. PICK s \in States : aues' = [aues EXCEPT ![i].state = s]
    BY <1>3 DEF Mark
  <2>2. aues[i] \in Details
    BY <1>3 DEF Mark, Served, TypeOK, Zero
  <2>3. aues'[i].rnti = aues[i].rnti
    BY <2>1, <2>2 DEF Details, TypeOK
  <2>4. \A h \in AgentIdx \ {i} : aues'[h] = aues[h]
    BY <2>1 DEF TypeOK
  <2>5. \A h, k \in Served' : aues'[h].rnti = aues'[k].rnti => h = k
    BY <2>3, <2>4 DEF Served
  <2>6. wire' = wire /\ rx' = rx /\ n' = n
    BY <1>3 DEF Mark
  <2>7. QED
    BY <2>5, <2>6
<1>4. CASE Report
  <2>1. PICK at \in Orders :
           wire' = Append(wire, [k \in DOMAIN at |-> aues[at[k]]])
    BY <1>4 DEF Report
  <2> DEFINE m == [k \in DOMAIN at |-> aues[at[k]]]
  <2>2. \A j, k \in DOMAIN m : m[j].rnti = m[k].rnti => j = k
    <3> SUFFICES ASSUME NEW j \in DOMAIN at, NEW k \in DOMAIN at,
                        aues[at[j]].rnti = aues[at[k]].rnti, j < k
                 PROVE  FALSE
      <4>1. Cardinality(Served) \in Nat
        <5>1. IsFiniteSet(AgentIdx)
          BY FS_Interval DEF AgentIdx
        <5>2. QED
          BY <5>1, FS_Subset, FS_CardinalityType DEF Served
      <4>2. DOMAIN at = 1..Cardinality(Served)
        BY DEF Orders
      <4>3. QED
        BY <4>1, <4>2
    <3>1. at[j] \in Served /\ at[k] \in Served /\ at[j] < at[k]
      BY DEF Orders
    <3>2. at[j] = at[k]
      BY <3>1
    <3>3. QED
      BY <3>1, <3>2 DEF Served, AgentIdx
  <2>3. ASSUME NEW h \in 1..Len(wire')
        PROVE  \A j, k \in DOMAIN wire'[h] :
                  wire'[h][j].rnti = wire'[h][k].rnti => j = k
    <3>1. wire \in Seq(Messages) /\ Len(wire') = Len(wire) + 1
      BY <2>1 DEF TypeOK
    <3>2. CASE h = Len(wire) + 1
      <4>1. wire'[h] = m
        BY <2>1, <3>1, <3>2
      <4>2. QED
        BY <2>2, <4>1
    <3>3. CASE h # Len(wire) + 1
      <4>1. h \in 1..Len(wire) /\ wire'[h] = wire[h]
        BY <2>1, <3>1, <3>3
      <4>2. QED
        BY <4>1
    <3>4. QED
      BY <3>2, <3>3
  <2>4. aues' = aues /\ rx' = rx /\ n' = n
    BY <1>4 DEF Report
  <2>5. QED
    BY <2>3, <2>4 DEF Served
<1>5. CASE Receive
  <2> DEFINE m == Head(wire)
  <2>1. /\ wire \in Seq(Messages) /\ wire # <<>>
        /\ wire' = Tail(wire) /\ aues' = aues
    BY <1>5 DEF Receive, TypeOK
  <2>2. m = wire[1] /\ 1 \in 1..Len(wire) /\ m \in Messages
    BY <2>1
  <2>3. DOMAIN m = 1..n' /\ n' \in 0..AgentSlots
    BY <1>5, <2>2, MessageSeq DEF Receive
  <2>4. \A k \in 1..n' : rx'[k] = m[k]
    BY <1>5, <2>3 DEF Receive, Over, RxCells
  <2>5. \A j, k \in 1..n' : rx'[j].rnti = rx'[k].rnti => j = k
    BY <2>2, <2>3, <2>4
  <2>6. ASSUME NEW h \in 1..Len(wire')
        PROVE  \A j, k \in DOMAIN wire'[h] :
                  wire'[h][j].rnti = wire'[h][k].rnti => j = k
    <3>1. h + 1 \in 1..Len(wire) /\ wire'[h] = wire[h + 1]
      BY <2>1
    <3>2. QED
      BY <3>1
  <2>7. QED
    BY <2>1, <2>5, <2>6 DEF Served
<1>6. CASE ForgetUe \/ ParseTurn \/ ParseEnd \/ UNCHANGED vars
  <2>1. aues' = aues /\ wire' = wire /\ rx' = rx /\ n' = n
    BY <1>6 DEF ForgetUe, ParseTurn, ParseToken, ParseEnd, vars, agentVars
  <2>2. QED
    BY <2>1 DEF Served
<1>7. CASE ReceiveOther \/ Refuse \/ Resume
  <2>1. aues' = aues /\ wire' = wire /\ n' = 0
    BY <1>7 DEF ReceiveOther, Refuse, Resume, Leave, agentVars, BufferInv
  <2>2. QED
    BY <2>1 DEF Served
<1>8. QED
  BY <1>1, <1>2, <1>3, <1>4, <1>5, <1>6, <1>7 DEF Next

LEMMA TailPlain == TypeOK /\ BufferInv /\ ZeroTail => Plain
<1> SUFFICES ASSUME TypeOK, BufferInv, ZeroTail, NEW k \in RxCells PROVE rx[k] # Payload
  BY DEF Plain
<1>1. CASE k \in 1..n
  BY <1>1, ZeroIsNoToken DEF BufferInv
<1>2. CASE rx[k] = Zero
  BY <1>2, ZeroIsNoToken
<1>3. CASE ~(k > n) /\ k \notin 1..n
  BY <1>3 DEF TypeOK, RxCells
<1>4. QED
  BY <1>1, <1>2, <1>3 DEF ZeroTail

(* A turn of the loop over zeros is behind the message; any other turn is  *)
(* the turn of the token after those that are passed.                      *)
LEMMA Turns ==
  ASSUME TypeOK, BufferInv, CursorInv, ZeroTail, NEW t \in Read, ParseToken(t)
  PROVE  \/ /\ t.type = "INVALID"
            /\ ues' = ues /\ stray' = stray /\ Passed' = Passed
         \/ \E k \in 1..n : /\ t = TokenOf(rx[k]) /\ rx[k] \in Details
                            /\ Passed = 1..(k - 1)
                            /\ Passed' = 1..k
<1> USE Sizes
<1> DEFINE k == (c \div 23) + 1
<1>1. c \in Nat /\ n \in 0..AgentSlots /\ n' = n /\ AgentSlots \in Nat
  BY DEF TypeOK, ParseToken
<1>2. Plain
  BY TailPlain
<1>3. CASE /\ c' = c + 4 /\ k \in RxCells /\ rx[k] = Zero /\ t = ZeroToken
           /\ ues' = ues /\ stray' = stray
  <2>1. k \notin 1..n
    BY <1>3, ZeroIsNoToken DEF BufferInv
  <2>2. 23 * n <= c
    BY <1>1, <2>1
  <2>3. Passed = 1..n /\ Passed' = 1..n
    BY <1>1, <1>3, <2>2 DEF Passed
  <2>4. QED
    BY <1>3, <2>3 DEF ZeroToken
<1>4. CASE /\ c % 23 = 0 /\ c' = c + 23 /\ k \in RxCells
           /\ rx[k] \in Details /\ t = TokenOf(rx[k])
  <2>1. k \in 1..n
    <3>1. ~(k > n)
      BY <1>4, ZeroIsNoToken DEF ZeroTail
    <3>2. QED
      BY <1>1, <3>1
  <2>2. c = 23 * (k - 1)
    BY <1>1, <1>4
  <2> HIDE DEF k
  <2>3. Passed = 1..(k - 1) /\ Passed' = 1..k
    BY <1>1, <1>4, <2>1, <2>2 DEF Passed
  <2>4. QED
    BY <1>4, <2>1, <2>3
<1>5. QED
  BY <1>2, <1>3, <1>4, CursorStep

(* Storing a token in the slot the search selects leaves the slots of the  *)
(* message's other UEs alone.                                              *)
LEMMA StoreKeeps ==
  ASSUME TypeOK, BufferInv, CursorInv, DistinctInv, ZeroTail, pc # "idle",
         NEW t \in Read, ParseToken(t),
         t.type = "UE_REP_ID" => Selected(t.rnti) # {}
  PROVE  /\ StoredInv => StoredInv'
         /\ OnlyInv => OnlyInv'
         /\ stray' = stray
<1>1. rx' = rx /\ n' = n
  BY DEF ParseToken
<1>2. CASE ues' = ues /\ stray' = stray /\ Passed' = Passed
  BY <1>1, <1>2 DEF StoredInv, OnlyInv, Holds, Used
<1>3. ASSUME NEW k \in 1..n, t = TokenOf(rx[k]), rx[k] \in Details,
             Passed = 1..(k - 1), Passed' = 1..k
      PROVE  (StoredInv => StoredInv') /\ (OnlyInv => OnlyInv') /\ stray' = stray
  <2>0. /\ t.rnti = rx[k].rnti /\ t.id = rx[k].id /\ t.type = "UE_REP_ID"
        /\ t.rnti \in Rntis
    BY <1>3 DEF TokenOf, Details
  <2>1. Store(t) /\ Selected(t.rnti) # {}
    BY <2>0 DEF ParseToken
  <2>2. PICK j \in Selected(t.rnti) :
           /\ ues' = [ues EXCEPT ![j] = [@ EXCEPT !.rnti = t.rnti, !.id = t.id]]
           /\ stray' = stray
    BY <2>1 DEF Store
  <2>3. j \in Slots /\ ues[j].rnti \in {t.rnti, NoRnti}
    BY SelectedSlot DEF Selected, FirstOf, Holding, Free
  <2>4. ues'[j].rnti = t.rnti /\ ues'[j].id = t.id
    <3>1. ues[j] \in Entries
      BY <2>3 DEF TypeOK
    <3>2. ues'[j] = [ues[j] EXCEPT !.rnti = t.rnti, !.id = t.id]
      BY <2>2, <2>3 DEF TypeOK
    <3>3. QED
      BY <3>1, <3>2 DEF Entries
  <2>5. \A i \in Slots \ {j} : ues'[i] = ues[i]
    BY <2>2, <2>3 DEF TypeOK
  <2>6. Holds(j, k)'
    BY <1>1, <2>0, <2>4 DEF Holds
  <2>7. n \in Nat
    BY DEF TypeOK
  <2>8. Passed \subseteq 1..n /\ k \notin Passed /\ Passed' = Passed \cup {k}
    BY <1>3, <2>7
  <2>9. ASSUME StoredInv, NEW h \in Passed' PROVE \E i \in Slots : Holds(i, h)'
    <3>1. CASE h = k
      BY <2>3, <2>6, <3>1
    <3>2. CASE h # k
      <4>1. h \in Passed
        BY <2>8, <2>9, <3>2
      <4>2. PICK i \in Slots : Holds(i, h)
        BY <2>9, <4>1 DEF StoredInv
      <4>3. rx[h] \in Details
        BY <2>8, <4>1 DEF BufferInv
      <4>4. rx[h].rnti # NoRnti /\ rx[h].rnti # t.rnti
        BY <2>0, <2>8, <3>2, <4>1, <4>3 DEF DistinctInv, Details
      <4>5. i # j
        BY <2>3, <4>2, <4>4 DEF Holds
      <4>6. QED
        BY <1>1, <2>5, <4>2, <4>5 DEF Holds
    <3>3. QED
      BY <3>1, <3>2
  <2>10. ASSUME OnlyInv, NEW i \in Used' PROVE \E h \in Passed' : Holds(i, h)'
    <3>1. CASE i = j
      BY <2>6, <2>8, <3>1
    <3>2. CASE i # j
      <4>1. i \in Slots /\ ues'[i] = ues[i] /\ i \in Used
        BY <2>5, <3>2, <2>10 DEF Used
      <4>2. PICK h \in Passed : Holds(i, h)
        BY <2>10, <4>1 DEF OnlyInv
      <4>3. QED
        BY <1>1, <2>8, <4>1, <4>2 DEF Holds
    <3>3. QED
      BY <3>1, <3>2
  <2>11. QED
    BY <2>2, <2>9, <2>10 DEF StoredInv, OnlyInv
<1>4. QED
  BY <1>2, <1>3, Turns

(* Every step but a turn of the loop keeps what is stored: the message and *)
(* the table stay as they are until the caller has used them.              *)
LEMMA StoredOtherwise ==
  ASSUME TypeOK, [Next]_vars, ~ParseTurn
  PROVE  /\ StoredInv => StoredInv'
         /\ OnlyInv /\ Caller = "clear" => OnlyInv'
         /\ stray' = stray
<1> USE Sizes
<1>1. CASE Receive
  <2>1. wire # <<>> /\ Head(wire) \in Messages
    BY <1>1 DEF Receive, TypeOK
  <2>2. n' \in Nat /\ c' = 0
    BY <1>1, <2>1, MessageSeq DEF Receive
  <2>3. Passed' = {}
    BY <2>2 DEF Passed
  <2>4. Caller = "clear" => Used' = {}
    BY <1>1 DEF Receive, Used, Zero
  <2>5. stray' = stray
    BY <1>1 DEF Receive
  <2>6. QED
    BY <2>3, <2>4, <2>5 DEF StoredInv, OnlyInv
<1>2. CASE ReceiveOther \/ ForgetUe \/ Refuse \/ Resume
  <2>1. pc' = "idle" /\ stray' = stray
    BY <1>2 DEF ReceiveOther, ForgetUe, Refuse, Resume, Leave
  <2>2. QED
    BY <2>1 DEF StoredInv, OnlyInv
<1>3. CASE ~(Receive \/ ReceiveOther \/ ForgetUe \/ Refuse \/ Resume)
  <2>1. /\ rx' = rx /\ n' = n /\ c' = c /\ ues' = ues /\ stray' = stray
        /\ (pc # "idle" <=> pc' # "idle")
    BY <1>3 DEF Next, Attach, Detach, Mark, Report, ParseEnd, vars, agentVars
  <2>2. QED
    BY <2>1 DEF StoredInv, OnlyInv, Passed, Holds, Used, ZeroTail
<1>4. QED
  BY <1>1, <1>2, <1>3

LEMMA ViewInit == Init => StoredInv /\ OnlyInv
BY DEF Init, StoredInv, OnlyInv

(* At the end every token of the message is passed.                        *)
LEMMA AllPassed ==
  TypeOK /\ ParseInv /\ ZeroTail /\ pc = "done" => Passed = 1..n
<1> SUFFICES ASSUME TypeOK, ParseInv, ZeroTail, pc = "done" PROVE Passed = 1..n
  OBVIOUS
<1>1. n \in Nat /\ c \in Nat /\ n * 23 <= c
  BY Sizes, TailPlain DEF TypeOK, ParseInv, DoneInv
<1>2. QED
  BY <1>1, Sizes DEF Passed

LEMMA StoredAtEnd == TypeOK /\ ParseInv /\ StoredInv => AllStored
BY AllPassed DEF AllStored, StoredInv, Stored, Reported, Holds

LEMMA OnlyAtEnd ==
  TypeOK /\ ParseInv /\ StoredInv /\ OnlyInv /\ Buffer = "zeroed" => CompleteView
<1> SUFFICES ASSUME TypeOK, ParseInv, StoredInv, OnlyInv, Buffer = "zeroed",
                    pc = "done"
             PROVE  CompleteView
  BY DEF CompleteView
<1>1. ZeroTail
  BY DEF ParseInv, BufferInv
<1>2. QED
  BY <1>1, AllPassed, StoredAtEnd
     DEF CompleteView, AllStored, OnlyInv, Reported, Holds

LEMMA StepInvs == Spec => [](TypeOK /\ UniqueRnti /\ ParseInv /\ DistinctInv)
<1>1. ParseInv => BufferInv
  BY DEF ParseInv
<1>2. QED
  BY <1>1, ParseAlways, UniqueRntiAlways, DistinctInit, DistinctNext, PTL
     DEF Spec

(* Once a report is parsed every UE in it is in the table, under its       *)
(* latest identity: for a table with as many slots as there are RNTIs,     *)
(* whatever was in it and whatever was read into the receive buffer        *)
(* before, if nothing but zeros lies behind the report.                    *)
THEOREM AllStoredAlways ==
  ASSUME Cardinality(Rntis) <= MaxUes
  PROVE  Spec => []AllStored
<1>1. TypeOK /\ UniqueRnti /\ ParseInv /\ DistinctInv /\ StoredInv /\ [Next]_vars
        => StoredInv'
  <2> SUFFICES ASSUME TypeOK, UniqueRnti, ParseInv, DistinctInv, StoredInv,
                      [Next]_vars
               PROVE  StoredInv'
    OBVIOUS
  <2>1. CASE ParseTurn
    <3>1. PICK t \in Read : ParseToken(t)
      BY <2>1 DEF ParseTurn
    <3>2. pc # "idle" /\ rx' = rx /\ n' = n
      BY <3>1 DEF ParseToken
    <3>3. ZeroTail /\ t.type = "UE_REP_ID" => Selected(t.rnti) # {}
      <4> SUFFICES ASSUME ZeroTail, t.type = "UE_REP_ID"
                   PROVE  Selected(t.rnti) # {}
        OBVIOUS
      <4>1. PICK k \in 1..n : t = TokenOf(rx[k]) /\ rx[k] \in Details
        BY <3>1, Turns DEF ParseInv
      <4>2. t.rnti \in Rntis
        BY <4>1 DEF TokenOf, Details
      <4>3. QED
        BY <4>2, SomeSlot
    <3>4. CASE ZeroTail
      BY <3>1, <3>2, <3>3, <3>4, StoreKeeps DEF ParseInv
    <3>5. CASE ~ZeroTail
      BY <3>2, <3>5 DEF StoredInv, ZeroTail
    <3>6. QED
      BY <3>4, <3>5
  <2>2. CASE ~ParseTurn
    BY <2>2, StoredOtherwise
  <2>3. QED
    BY <2>1, <2>2
<1>2. Init => StoredInv
  BY ViewInit
<1>3. QED
  BY <1>1, <1>2, StepInvs, StoredAtEnd, PTL DEF Spec

-----------------------------------------------------------------------------
(* The complete view.                                                      *)

(* A table that holds only UEs of the tokens passed so far has a slot for  *)
(* the next one, when it has a slot for each UE the base station can have. *)
LEMMA SlotForNext ==
  ASSUME TypeOK, UniqueRnti, BufferInv, CursorInv, OnlyInv, ZeroTail,
         AgentSlots <= MaxUes, NEW t \in Read, ParseToken(t),
         t.type = "UE_REP_ID"
  PROVE  Selected(t.rnti) # {}
<1>1. PICK k \in 1..n : Passed = 1..(k - 1)
  BY Turns
<1>2. Free # {}
  <2> SUFFICES ASSUME Free = {} PROVE FALSE
    OBVIOUS
  <2> DEFINE at == [j \in Slots |-> CHOOSE h \in Passed : Holds(j, h)]
  <2>1. \A j \in Slots : j \in Used
    BY DEF Free, Used
  <2>2. \A j \in Slots : at[j] \in Passed /\ Holds(j, at[j])
    BY <2>1 DEF OnlyInv, ParseToken
  <2>3. at \in [Slots -> Passed]
    BY <2>2
  <2>4. IsFiniteSet(Slots) /\ Cardinality(Slots) = MaxUes
    BY FS_Interval DEF Slots
  <2>5. IsFiniteSet(Passed) /\ Cardinality(Passed) = k - 1
    <3>1. n \in Nat /\ k - 1 \in Nat
      BY DEF TypeOK
    <3>2. IsFiniteSet(1..(k - 1)) /\ Cardinality(1..(k - 1)) = k - 1
      BY <3>1, FS_Interval
    <3>3. QED
      BY <1>1, <3>2
  <2>6. Cardinality(Passed) < Cardinality(Slots)
    BY <2>4, <2>5 DEF TypeOK
  <2>7. PICK i, j \in Slots : i # j /\ at[i] = at[j]
    <3> HIDE DEF at
    <3> QED
      BY <2>3, <2>4, <2>5, <2>6, FS_PigeonHole
  <2>8. ues[i].rnti = ues[j].rnti
    BY <2>2, <2>7 DEF Holds
  <2>9. QED
    BY <2>1, <2>7, <2>8 DEF UniqueRnti
<1>3. QED
  BY <1>2, FirstExists DEF Selected, Free, Holding

(* The README's complete view: a caller that zeroes its table and its      *)
(* buffer before each report, and has a slot for each UE the base station  *)
(* can have, gets the UEs of the report and no other, and no UE is written *)
(* outside the table, however many RNTIs come and go.                      *)
THEOREM CompleteViewAlways ==
  ASSUME Caller = "clear", Buffer = "zeroed", AgentSlots <= MaxUes
  PROVE  Spec => []CompleteView /\ []SlotFound
<1> DEFINE View == StoredInv /\ OnlyInv /\ SlotFound
<1>1. TypeOK /\ UniqueRnti /\ ParseInv /\ DistinctInv /\ View /\ [Next]_vars
        => View'
  <2> SUFFICES ASSUME TypeOK, UniqueRnti, ParseInv, DistinctInv, View,
                      [Next]_vars
               PROVE  View'
    OBVIOUS
  <2>1. CASE ParseTurn
    <3>1. PICK t \in Read : ParseToken(t)
      BY <2>1 DEF ParseTurn
    <3>2. pc # "idle"
      BY <3>1 DEF ParseToken
    <3>3. ZeroTail
      BY <3>2 DEF ParseInv, BufferInv
    <3>4. t.type = "UE_REP_ID" => Selected(t.rnti) # {}
      BY <3>1, <3>3, SlotForNext DEF ParseInv
    <3>5. QED
      BY <3>1, <3>2, <3>3, <3>4, StoreKeeps DEF ParseInv, SlotFound
  <2>2. CASE ~ParseTurn
    BY <2>2, StoredOtherwise DEF SlotFound
  <2>3. QED
    BY <2>1, <2>2
<1>2. Init => View
  BY ViewInit DEF Init, SlotFound
<1>3. TypeOK /\ ParseInv /\ View => CompleteView /\ SlotFound
  BY OnlyAtEnd
<1> HIDE DEF View
<1>4. QED
  BY <1>1, <1>2, <1>3, StepInvs, PTL DEF Spec
=============================================================================
