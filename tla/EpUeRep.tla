------------------------------- MODULE EpUeRep -------------------------------
(***************************************************************************)
(* The UE report (epuerep.c): a base station formats the UEs it serves as  *)
(* TLV tokens, the controller parses them into a table of ep_ue_details    *)
(* slots that it owns and may keep from one report to the next.            *)
(*                                                                         *)
(* The message is the whole trigger-event reply; its length is what both   *)
(* sides pass as `size'.  The parser steps over the two headers without    *)
(* taking them off `size', so its loop goes on for SizeofTrigHeaders bytes *)
(* after the last token, over what the receive buffer holds there.  The    *)
(* receive buffer is modelled as the cells of SizeofUeIdTLV bytes that     *)
(* follow the headers, each holding a token of a report, zeros, or payload *)
(* of another message, and the cursor of the loop as a number of bytes.    *)
(*                                                                         *)
(* The callers are not in the repository.  Their steps here are what the   *)
(* interface lets them do; what a caller does with its table between two   *)
(* calls and what it uses its receive buffer for are the constants Caller  *)
(* and Buffer.                                                             *)
(***************************************************************************)
EXTENDS EpWire, Sequences, FiniteSets

CONSTANTS Rntis,       \* the valid (nonzero) RNTIs
          NoRnti,      \* the RNTI 0, which marks an unused entry
          Ids,         \* what identifies a UE: its PLMN, IMSI and TMSI
          NoId,        \* the same fields, all zero
          States,      \* the values of `state' the base station reports
          AgentSlots,  \* nof_ues and max_ues given to the formatter
          MaxUes,      \* max_ues given to the parser: slots of the table
          TxRoom,      \* bytes left for the tokens in the sending buffer
          MaxWire,     \* bound: reports in flight
          Caller,      \* "keep": the table is left alone between reports,
                       \* "forget": entries may be zeroed one by one,
                       \* "clear": all of it is zeroed before each parse
          Buffer       \* "zeroed": the receive buffer is, for each report,
                       \* "reports": it is used for UE reports alone and
                       \* never zeroed, "shared": it is used for messages
                       \* of every kind, zeroed in between or not

ASSUME RntisAssumption  == NoRnti \notin Rntis
ASSUME SlotsAssumption  == AgentSlots \in Nat /\ MaxUes \in Nat
ASSUME BoundsAssumption == TxRoom \in Nat /\ MaxWire \in Nat
ASSUME CallerAssumption == /\ Caller \in {"keep", "forget", "clear"}
                           /\ Buffer \in {"zeroed", "reports", "shared"}
ASSUME FiniteAssumption == IsFiniteSet(Rntis)

VARIABLES aues,   \* base station: its array of UE details
          wire,   \* reports in flight, in order
          told,   \* history: the <<rnti, id>> pairs reported so far
          rx,     \* controller: receive buffer after the headers, in cells
          n,      \* tokens of the message being parsed
          pc,     \* "idle"; "parse" in epp_uerep_rep, "done" on its return;
                  \* "null": it is called without a table or a count
          c,      \* the cursor of epp_uerep_rep, in bytes
          ues,    \* the controller's table of UE details
          nof,    \* *nof_ues
          stray   \* history: a UE was written outside the table (slot -1)
agentVars == <<aues, wire, told>>
vars == <<aues, wire, told, rx, n, pc, c, ues, nof, stray>>

AgentIdx == 1..AgentSlots
Slots    == 0..(MaxUes - 1)
RxCells  == 1..(AgentSlots + 2)

\* The UE_REPORT_STATUS 0, so also what zeroed memory says.
CONNECTED == "connected"

Details  == [rnti : Rntis, id : Ids, state : States]
\* A zeroed entry: a free slot, and a cell of the buffer never written.
Zero     == [rnti |-> NoRnti, id |-> NoId, state |-> CONNECTED]
\* A cell that a message of another kind was read over, all or part of it.
Payload  == [rnti |-> NoRnti, id |-> NoId, state |-> "payload"]
Entries  == [rnti : Rntis \cup {NoRnti}, id : Ids \cup {NoId},
             state : States \cup {CONNECTED}]
Messages == UNION {[1..k -> Details] : k \in 0..AgentSlots}

TypeOK == /\ aues \in [AgentIdx -> Details \cup {Zero}]
          /\ wire \in Seq(Messages)
          /\ told \subseteq Rntis \X Ids
          /\ rx \in [RxCells -> Details \cup {Zero, Payload}]
          /\ n \in 0..AgentSlots
          /\ pc \in {"idle", "null", "parse", "done"}
          /\ c \in Nat
          /\ ues \in [Slots -> Entries]
          /\ nof \in Nat
          /\ stray \in BOOLEAN

Init == /\ aues = [i \in AgentIdx |-> Zero]
        /\ wire = <<>>
        /\ told = {}
        /\ rx = [k \in RxCells |-> Zero]
        /\ n = 0
        /\ pc = "idle"
        /\ c = 0
        /\ ues = [j \in Slots |-> Zero]
        /\ nof \in 0..MaxUes
        /\ stray = FALSE

-----------------------------------------------------------------------------
(* The base station.                                                       *)

Served == {i \in AgentIdx : aues[i].rnti # NoRnti}

\* External: a UE gets a free RNTI and a free entry of the array.
Attach(i) == /\ i \notin Served
             /\ \E u \in Details :
                   /\ \A h \in Served : aues[h].rnti # u.rnti
                   /\ aues' = [aues EXCEPT ![i] = u]
             /\ UNCHANGED <<wire, told, rx, n, pc, c, ues, nof, stray>>

\* External: a UE leaves, or is marked with another state.
Detach(i) == /\ i \in Served
             /\ aues' = [aues EXCEPT ![i] = Zero]
             /\ UNCHANGED <<wire, told, rx, n, pc, c, ues, nof, stray>>

Mark(i) == /\ i \in Served
           /\ \E s \in States : aues' = [aues EXCEPT ![i].state = s]
           /\ UNCHANGED <<wire, told, rx, n, pc, c, ues, nof, stray>>

\* Mutant of Orders: entries with an invalid RNTI are not skipped.
OrdersOfAll == {[i \in AgentIdx |-> i]}

\* The order of the tokens: the served entries, by increasing index.
Orders == {at \in [1..Cardinality(Served) -> Served] :
             \A h, k \in DOMAIN at : h < k => at[h] < at[k]}

\* epf_uerep_rep asks for room for the body of each token, not for its header.
Fits(k) == k = 0 \/ (k - 1) * SizeofUeIdTLV + SizeofUeId <= TxRoom

\* epf_trigger_uerep_rep, and the caller sending what it formatted.  Without
\* room it returns -1 and nothing is sent.
Report == /\ Fits(Cardinality(Served))
          /\ Len(wire) < MaxWire
          /\ \E at \in Orders :
                wire' = Append(wire, [k \in DOMAIN at |-> aues[at[k]]])
          /\ told' = told \cup {<<aues[i].rnti, aues[i].id>> : i \in Served}
          /\ UNCHANGED <<aues, rx, n, pc, c, ues, nof, stray>>

-----------------------------------------------------------------------------
(* The controller.                                                         *)

\* The buffer with a message read over its front, zeroed before or not.
Over(front, zero) == [k \in RxCells |-> IF k \in DOMAIN front THEN front[k]
                                        ELSE IF zero THEN Zero ELSE rx[k]]
Zeroing == IF Buffer = "zeroed" THEN {TRUE}
           ELSE IF Buffer = "reports" THEN {FALSE} ELSE BOOLEAN

\* External: a report is read into the buffer and given to the parser, with
\* pointers to a table and a count or not.
Receive == /\ pc = "idle"
           /\ wire # <<>>
           /\ \E zero \in Zeroing : rx' = Over(Head(wire), zero)
           /\ n' = Len(Head(wire))
           /\ wire' = Tail(wire)
           /\ ues' = IF Caller = "clear" THEN [j \in Slots |-> Zero] ELSE ues
           /\ c' = 0
           /\ pc' \in {"parse", "null"}
           /\ UNCHANGED <<aues, told, nof, stray>>

\* External: a message of another kind is read into the buffer, over its
\* first m cells, and given to its own parser.
ReceiveOther == /\ Buffer = "shared"
                /\ pc = "idle"
                /\ \E m \in RxCells, zero \in BOOLEAN :
                      rx' = Over([k \in 1..m |-> Payload], zero)
                /\ UNCHANGED <<aues, wire, told, n, pc, c, ues, nof, stray>>

\* External: the caller drops one entry of its table.
ForgetUe == /\ Caller = "forget"
            /\ pc = "idle"
            /\ \E j \in Slots : ues' = [ues EXCEPT ![j] = Zero]
            /\ UNCHANGED <<aues, wire, told, rx, n, pc, c, nof, stray>>

\* Mutant of End: the headers are taken off a size that never had them.
EndShort == n * SizeofUeIdTLV - SizeofTrigHeaders

\* buf + size of epp_uerep_rep, as a number of bytes after the headers.
End == n * SizeofUeIdTLV + SizeofTrigHeaders

\* What is read as a token: at a cell of a report its token, over zeros one
\* of type and length 0, over anything else any token: of a UE or not (the
\* parser looks at no other type), of each length up to one too long.
CellAt(o)  == rx[(o \div SizeofUeIdTLV) + 1]
OnCell     == c % SizeofUeIdTLV = 0 /\ CellAt(c).rnti # NoRnti
OnZeros    == CellAt(c) = Zero /\ CellAt(c + SizeofTLV - 1) = Zero
TokenOf(u) == [type |-> "UE_REP_ID", len |-> SizeofUeId, rnti |-> u.rnti,
               id |-> u.id]
ZeroToken  == [type |-> "INVALID", len |-> 0, rnti |-> NoRnti, id |-> NoId]
AnyTokens  == [type : {"UE_REP_ID"}, len : 0..(End - c),
               rnti : Rntis \cup {NoRnti}, id : Ids \cup {NoId}]
              \cup [type : {"INVALID"}, len : 0..(End - c),
                    rnti : {NoRnti}, id : {NoId}]
Read       == IF OnCell THEN {TokenOf(CellAt(c))}
              ELSE IF OnZeros THEN {ZeroToken} ELSE AnyTokens

\* Mutant of Advance: over the body only.
AdvanceBody(t) == c + t.len

\* Where the cursor goes next.
Advance(t) == c + SizeofTLV + t.len

\* Mutants of Free: any slot will do; the search stops one slot early.
AnySlot    == Slots
FreeShort  == {j \in 0..(MaxUes - 2) : ues[j].rnti = NoRnti}

Free       == {j \in Slots : ues[j].rnti = NoRnti}
Holding(r) == {j \in Slots : ues[j].rnti = r}
FirstOf(S) == {j \in S : \A h \in S : j <= h}

\* Mutant of Selected: the search stops at the first free slot.
SelectedEager(r) == IF Free # {} THEN FirstOf(Free) ELSE FirstOf(Holding(r))

\* The slot epp_uerep_rep_TLV selects: the first that holds the RNTI, else
\* the first free one.  None: the index stays -1.
Selected(r) == IF Holding(r) # {} THEN FirstOf(Holding(r)) ELSE FirstOf(Free)

\* Its count starts at 0 with each token; it counts a UE when it meets a free
\* slot before it finds the RNTI.
Counts(t) == t.type = "UE_REP_ID" /\ \E j \in Free :
               \A h \in Holding(t.rnti) : j <= h
\* Mutant of Count: it does not start at 0.
CountOn(t) == IF Counts(t) THEN nof + 1 ELSE nof
Count(t)   == IF Counts(t) THEN 1 ELSE 0

\* Mutant of Store: the identity is written to new entries only.
StoreNew(t) == IF Selected(t.rnti) = {}
               THEN stray' = TRUE /\ UNCHANGED ues
               ELSE /\ \E j \in Selected(t.rnti) :
                          ues' = [ues EXCEPT ![j] = IF @.rnti = t.rnti THEN @
                                    ELSE [@ EXCEPT !.rnti = t.rnti, !.id = t.id]]
                    /\ UNCHANGED stray

\* epp_uerep_rep_TLV writes everything but the state.
Store(t) == IF Selected(t.rnti) = {}
            THEN stray' = TRUE /\ UNCHANGED ues
            ELSE /\ \E j \in Selected(t.rnti) :
                       ues' = [ues EXCEPT ![j] = [@ EXCEPT !.rnti = t.rnti,
                                                          !.id = t.id]]
                 /\ UNCHANGED stray

\* The call is over: its size and its cursor are gone.
Leave == n' = 0 /\ c' = 0 /\ pc' = "idle"

\* epp_uerep_rep looks at its pointers first, and returns EP_ERROR.
Refuse == /\ pc = "null"
          /\ Leave
          /\ UNCHANGED <<agentVars, rx, ues, nof, stray>>

\* One turn of the loop of epp_uerep_rep, with the call of epp_uerep_rep_TLV.
ParseToken(t) == /\ pc = "parse"
                 /\ c < End /\ Advance(t) <= End
                 /\ IF t.type = "UE_REP_ID" THEN Store(t)
                    ELSE UNCHANGED <<ues, stray>>
                 /\ nof' = Count(t)
                 /\ c' = Advance(t)
                 /\ UNCHANGED <<agentVars, rx, n, pc>>
ParseTurn == \E t \in Read : ParseToken(t)

ParseEnd == /\ pc = "parse"
            /\ c < End => \E t \in Read : Advance(t) > End
            /\ pc' = "done"
            /\ UNCHANGED <<agentVars, rx, n, c, ues, nof, stray>>

\* External: the caller has used the result.
Resume == /\ pc = "done"
          /\ Leave
          /\ UNCHANGED <<agentVars, rx, ues, nof, stray>>

-----------------------------------------------------------------------------
Next == \/ \E i \in AgentIdx : Attach(i) \/ Detach(i) \/ Mark(i)
        \/ Report
        \/ Receive \/ ReceiveOther \/ ForgetUe
        \/ Refuse \/ ParseTurn \/ ParseEnd
        \/ Resume

Spec == Init /\ [][Next]_vars

\* epp_uerep_rep is a loop without blocking calls: once entered it runs on.
Fairness == WF_vars(ParseTurn \/ ParseEnd)
FairSpec == Spec /\ Fairness

-----------------------------------------------------------------------------
(* Properties.                                                             *)

\* The message being parsed: nobody writes the buffer before `idle'.
Reported == {rx[k] : k \in 1..n}
Used     == {j \in Slots : ues[j].rnti # NoRnti}

(* No two slots of the table ever hold the same RNTI, whatever the tokens  *)
(* and whichever slots the caller frees (the slot search of                *)
(* epp_uerep_rep_TLV, which stops at the first free slot it likes only     *)
(* after it has looked for the RNTI everywhere).                           *)
UniqueRnti == \A i, j \in Used : ues[i].rnti = ues[j].rnti => i = j

(* While a report is parsed a slot in use stays with the UE it was given   *)
(* to: parsing may refresh its identity, never hand it to another RNTI.    *)
NoEviction == [][pc = "parse" =>
                   \A j \in Used : ues'[j].rnti = ues[j].rnti]_vars

(* The slot search always selects a slot of the table; otherwise the UE    *)
(* would be written at index -1.                                           *)
SlotFound == ~stray

(* The cursor of epp_uerep_rep never stands inside a token: it is at the   *)
(* first byte of a cell or over zeros, also past the end of the message.   *)
InStep == pc = "parse" /\ c < End => OnCell \/ OnZeros

(* The number of UEs the parser returns, which it restarts at each token,  *)
(* never exceeds the number of slots in use, also after a report without   *)
(* UEs.                                                                    *)
CountBounded == pc = "done" => nof <= Cardinality(Used)

Stored == \A u \in Reported :
            \E j \in Slots : ues[j].rnti = u.rnti /\ ues[j].id = u.id

(* Once a report is parsed every UE in it is in the table, under its       *)
(* latest identity, whatever was in the table, if nothing but zeros lies   *)
(* behind the report in the receive buffer.                                *)
ZeroTail  == \A k \in RxCells : k > n => rx[k] = Zero
AllStored == pc = "done" /\ ZeroTail => Stored

(* The README's "complete view of the situation": for a caller that zeroes *)
(* its table first, the parsed table holds the UEs of the report and no    *)
(* other.                                                                  *)
CompleteView ==
  pc = "done" => /\ Stored
                 /\ \A j \in Used : \E u \in Reported :
                      ues[j].rnti = u.rnti /\ ues[j].id = u.id

(* The `state' field of ep_ue_details, "State of the UE": once a report is *)
(* parsed it says what the report says of that UE.                         *)
StateStored == pc = "done" => \A u \in Reported : \A j \in Slots :
                 ues[j].rnti = u.rnti => ues[j].state = u.state

(* A parse ends: the loop of epp_uerep_rep advances over every token, over *)
(* the tokens of length 0 too, up to the end it was given.                 *)
ParseTerminates == pc = "parse" ~> pc = "done"

-----------------------------------------------------------------------------
(* The table as a directory: the identity in the slot that holds an RNTI.  *)
Known == [r \in Rntis |-> IF Holding(r) = {} THEN NoId
                          ELSE ues[CHOOSE j \in Holding(r) : TRUE].id]

Directory == INSTANCE UeDirectory WITH dir <- Known

(* Parsing reports implements the directory: a step records at most one    *)
(* UE, under an identity the base station has told for its RNTI (never a   *)
(* mixture of two UEs, also when stale tokens are parsed), and nothing     *)
(* else of the directory changes.                                          *)
ImplementsDirectory == Directory!Spec
=============================================================================
