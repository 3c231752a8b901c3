------------------------------ MODULE EpParsers ------------------------------
(***************************************************************************)
(* What each public parser of the library does with a message: one         *)
(* operator per function epp_<event>_<message>, its name, as EpMessages    *)
(* has one per formatter.  A public parser skips the headers and calls the *)
(* parser of the body, which checks for a part of fixed size, copies it,   *)
(* and walks over type-length-value tokens; EpParse performs that.  (The   *)
(* reply of the UE report has its own module, EpUeRep.)                    *)
(***************************************************************************)
EXTENDS EpMessages

\* The tokens that some parser looks into.  All others are skipped.
TokenTypes == {"CELL_CAP", "RAN_CAP", "UE_RRC_REPORT", "UE_RRC_MEAS",
               "CELL_PRB_REPORT", "RAN_MAC_SCHED", "RAN_SLICE_MAC_RES",
               "RAN_SLICE_MAC_SCHED", "RNTI_REPORT"}
\* The parts of a message that are not tokens.
FixedParts == {"hello", "handover", "interval", "masks", "slice"}

\* A caller's details hold, for each of these, the entries stored so far:
\* none, one, or up to a limit for the arrays.
Fields  == TokenTypes \cup FixedParts
NoDetails == [f \in Fields |-> <<>>]

\* The arrays that are filled token by token, and their sizes.
Limit(type) == IF type \in {"CELL_CAP", "RAN_CAP"} THEN EP_ECAP_CELL_MAX
               ELSE IF type \in {"UE_RRC_REPORT", "UE_RRC_MEAS"}
               THEN EP_UE_RRC_MEAS_MAX
               ELSE 1

(* skip: bytes of headers stepped over.  taken: bytes taken off the size.  *)
(* fixed: bytes asked for in front of the tokens.  keeps: what is stored   *)
(* of them.  walks: there is a token loop.  takes: the tokens it looks     *)
(* into.  closed: it stops at a token that ends at its bound.  clears: the *)
(* details are zeroed first.  null: without details from the caller it     *)
(* returns an error, it stores nothing, it writes to them all the same at  *)
(* once or with the first token, or there are none to give.                *)
NoBody == [skip |-> 0, taken |-> 0, fixed |-> 0, keeps |-> {},
           walks |-> FALSE, takes |-> {}, closed |-> FALSE, clears |-> {},
           null |-> "none"]

\* A public parser: the body behind the headers, with the size that is left
\* or the size of the whole message.
Behind(skip, body)    == [body EXCEPT !.skip = skip, !.taken = skip]
Unreduced(skip, body) == [body EXCEPT !.skip = skip]

SingleSkip   == SizeofHdr + SizeofSingle
TriggerSkip  == SizeofHdr + SizeofTrigger
ScheduleSkip == SizeofHdr + SizeofSchedule

-----------------------------------------------------------------------------
(* Hello, handover, the request for a UE report.                           *)

FixedBody(fixed, part) ==
  [NoBody EXCEPT !.fixed = fixed, !.keeps = {part}, !.null = "nothing"]

epp_hello_req == FixedBody(SizeofHello, "hello")
epp_hello_rep == FixedBody(SizeofHello, "hello")
epp_ho_req    == FixedBody(SizeofHoReq, "handover")
epp_ho_rep    == FixedBody(SizeofHoRep, "handover")
epp_uerep_req == [NoBody EXCEPT !.fixed = SizeofUeRepReq]

epp_single_hello_req == Unreduced(SingleSkip, epp_hello_req)
epp_single_hello_rep == Unreduced(SingleSkip, epp_hello_rep)
epp_sched_hello_req  == Unreduced(ScheduleSkip, epp_hello_req)
epp_sched_hello_rep  == Unreduced(ScheduleSkip, epp_hello_rep)
epp_single_ho_req    == Unreduced(SingleSkip, epp_ho_req)
epp_single_ho_rep    == Unreduced(SingleSkip, epp_ho_rep)

\* Looks at the size of what starts with the headers.
epp_trigger_uerep_req == Unreduced(0, epp_uerep_req)

-----------------------------------------------------------------------------
(* eNB capabilities.                                                       *)

\* The tokens it looks into, as in all the definitions named ..._TLV.
epp_ecap_single_TLV == {"CELL_CAP", "RAN_CAP"}

epp_ecap_req == NoBody
epp_ecap_rep == [NoBody EXCEPT !.walks = TRUE, !.takes = epp_ecap_single_TLV,
                   !.closed = TRUE, !.clears = epp_ecap_single_TLV,
                   !.null = "error"]

epp_single_ecap_req == Unreduced(SingleSkip, epp_ecap_req)
epp_single_ecap_rep == Unreduced(SingleSkip, epp_ecap_rep)

-----------------------------------------------------------------------------
(* UE and cell measurements.                                               *)

\* The details are zeroed.
Cleared(types) == [NoBody EXCEPT !.walks = TRUE, !.takes = types,
                     !.clears = types, !.null = "error"]

epp_uemeas_rep_TLV    == {"UE_RRC_REPORT"}
epp_uemeas_req_TLV    == {"UE_RRC_MEAS"}
epp_cell_meas_rep_TLV == {"CELL_PRB_REPORT"}

epp_uemeas_rep    == Cleared(epp_uemeas_rep_TLV)
epp_uemeas_req    == Cleared(epp_uemeas_req_TLV)
epp_cell_meas_rep == Cleared(epp_cell_meas_rep_TLV)
epp_cell_meas_req == [NoBody EXCEPT !.walks = TRUE]

epp_trigger_uemeas_rep    == Behind(TriggerSkip, epp_uemeas_rep)
epp_trigger_uemeas_req    == Behind(TriggerSkip, epp_uemeas_req)
epp_sched_cell_meas_rep   == Behind(ScheduleSkip, epp_cell_meas_rep)
epp_trigger_cell_meas_rep == Behind(TriggerSkip, epp_cell_meas_rep)
epp_trigger_cell_meas_req == Behind(TriggerSkip, epp_cell_meas_req)
\* Stores the interval of the schedule header first.
epp_sched_cell_meas_req   ==
  [Behind(ScheduleSkip, epp_cell_meas_req) EXCEPT !.keeps = {"interval"},
     !.null = "at once"]

-----------------------------------------------------------------------------
(* RAN setup and slices.                                                   *)

epp_ran_eup_TLV == {"RAN_MAC_SCHED"}

epp_ran_euq == NoBody
epp_ran_eup == [FixedBody(SizeofRanSetup, "masks") EXCEPT
                  !.walks = TRUE, !.takes = epp_ran_eup_TLV]

epp_single_ran_setup_req == Behind(SingleSkip, epp_ran_euq)
epp_single_ran_setup_rep == Behind(SingleSkip, epp_ran_eup)

\* It does not ask whether there are details.
epp_ran_TLV == {"RAN_SLICE_MAC_RES", "RAN_SLICE_MAC_SCHED", "RNTI_REPORT"}

epp_ran_suq == FixedBody(SizeofSliceInf, "slice")
epp_ran_srq == FixedBody(SizeofSliceInf, "slice")

\* The slice's id and tokens; the details are not cleared.
SliceBody == [FixedBody(SizeofSliceInf, "slice") EXCEPT
                !.walks = TRUE, !.takes = epp_ran_TLV, !.null = "with a token"]
epp_ran_sup == SliceBody
epp_ran_saq == SliceBody
epp_ran_ssq == SliceBody

epp_single_ran_slice_req == Behind(SingleSkip, epp_ran_suq)
epp_single_ran_slice_rem == Behind(SingleSkip, epp_ran_srq)
epp_single_ran_slice_rep == Behind(SingleSkip, epp_ran_sup)
epp_single_ran_slice_add == Behind(SingleSkip, epp_ran_saq)
epp_single_ran_slice_set == Behind(SingleSkip, epp_ran_ssq)

-----------------------------------------------------------------------------
(* The tokens the formatters write, in order.  num: the number in a token  *)
(* that does not always arrive as it was asked for: the number of users,   *)
(* max_slices, the interval of a measurement.  asked: what it should be.   *)

Token(type, bytes, num) ==
  [type |-> type, len |-> bytes - SizeofTLV, num |-> num, asked |-> num]
Repeat(n, t)  == [i \in 1..n |-> t]
When(b, t)    == IF b THEN <<t>> ELSE <<>>

\* epf_ecap_rep
EcapOut(cells, ran, maxSlices) ==
  Repeat(AtMost(cells, EP_ECAP_CELL_MAX), Token("CELL_CAP", SizeofCellCap, 0))
  \o Repeat(AtMost(ran, EP_ECAP_CELL_MAX),
            Token("RAN_CAP", SizeofRanCaps, maxSlices))
UeMeasRepOut(rrc) == Repeat(AtMost(rrc, EP_UE_RRC_MEAS_MAX),
                            Token("UE_RRC_REPORT", SizeofRrcRep, 0))
\* epf_uemeas_req does not write the interval: it goes out as the sending
\* buffer has it.
UeMeasReqOut(rrc, interval, inBuffer) ==
  Repeat(AtMost(rrc, EP_UE_RRC_MEAS_MAX),
         [Token("UE_RRC_MEAS", SizeofRrcReq, inBuffer) EXCEPT !.asked = interval])
CellMeasRepOut(prb) == When(prb, Token("CELL_PRB_REPORT", SizeofPrbRep, 0))
CellMeasReqOut == <<Token("CELL_PRB_REQ", SizeofPrbReq, 0)>>
RanSetupOut(sched) == When(sched, Token("RAN_MAC_SCHED", SizeofMacSched, 0))
\* epf_ran_TLV, epf_TLV_rnti_report.  The length of the list is cut to the 16
\* bits of its field.
SliceOut(usched, users) ==
  <<Token("RAN_SLICE_MAC_RES", SizeofSliceRes, 0)>>
  \o When(usched, Token("RAN_SLICE_MAC_SCHED", SizeofSliceSched, 0))
  \o When(users > 0, Token("RNTI_REPORT",
                           SizeofTLV + ((users * SizeofRnti) % U16), users))

\* The bytes of the first i of a sequence of tokens, and of all of them.
FirstTokenBytes(toks) ==
  LET sum[i \in 0..Len(toks)] ==
        IF i = 0 THEN 0 ELSE sum[i - 1] + (SizeofTLV + toks[i].len)
  IN sum
TokenBytes(toks) == FirstTokenBytes(toks)[Len(toks)]

\* What a formatter returns, and so what is sent and given to the parser.
SizeSent(fmt) == IF fmt.counted THEN WholeSize(fmt)
                 ELSE SizeofHdr + SizeofEvent(fmt.evt)

\* A message under way: its size, are all its bytes sent, the parser it goes
\* to, the tokens in it and the offset of each: they are its last bytes (of a
\* message below U16 bytes, so that no token's length was cut).
Packet(fmt, parser, toks) ==
  [size |-> SizeSent(fmt), whole |-> fmt.counted, parser |-> parser,
   toks |-> toks,
   offset |-> [j \in 1..Len(toks) |-> WholeSize(fmt) - TokenBytes(toks)
                                      + FirstTokenBytes(toks)[j - 1]]]

\* A parser of this library: its arrays are counted from zero; it takes the
\* headers off the size or looks for arrays only; and it stops at a token
\* that ends at its bound only if it does not take them off.
Parser(q) ==
  /\ q \in [skip : Nat, taken : Nat, fixed : Nat, keeps : SUBSET FixedParts,
            walks : BOOLEAN, takes : SUBSET TokenTypes, closed : BOOLEAN,
            clears : SUBSET TokenTypes,
            null : {"error", "nothing", "at once", "with a token", "none"}]
  /\ q.taken \in {0, q.skip}
  /\ q.clears \subseteq q.takes
  /\ q.takes # {} => q.walks
  /\ \A f \in q.takes : Limit(f) > 1 => f \in q.clears
  /\ q.walks /\ q.taken # q.skip => \A f \in q.takes : Limit(f) > 1
  /\ q.closed => q.taken # q.skip

Tokens == [type : TokenTypes \cup {"CELL_PRB_REQ"}, len : Nat, num : Nat,
           asked : Nat]

\* A message of any peer: it has its headers and is called for its parser.
\* Where it has no token, its bytes are payload.
Shaped(m) ==
  /\ Parser(m.parser)
  /\ m.size \in Nat /\ m.parser.taken <= m.size
  /\ m.whole \in BOOLEAN
  /\ m.toks \in Seq(Tokens)
  /\ m.offset \in [1..Len(m.toks) -> Nat]

\* A message of a formatter, on its way to the parser of its kind: its tokens
\* lie one behind the other from the fixed part to its end.
WellFormed(m) ==
  /\ Shaped(m)
  /\ Len(m.toks) <= 2 * EP_ECAP_CELL_MAX
  /\ \A i, j \in DOMAIN m.toks :
       m.toks[i].type = m.toks[j].type /\ Limit(m.toks[i].type) = 1 => i = j
  /\ LET start   == m.parser.skip + m.parser.fixed
         ends(j) == m.offset[j] + SizeofTLV + m.toks[j].len IN
     /\ \A j \in DOMAIN m.toks :
          /\ m.offset[j] = IF j = 1 THEN start ELSE ends(j - 1)
          /\ j = Len(m.toks) => ends(j) = m.size
     /\ m.parser.walks /\ m.toks = <<>> => m.size <= start
  /\ m.whole /\ m.parser.keeps # {} /\ m.parser.taken + m.parser.fixed <= m.size
       => m.parser.skip < m.size

-----------------------------------------------------------------------------
\* The number as the parser of a token stores it.  epp_TLV_rnti_report counts
\* by the length and cuts the list; epp_ecap_single_TLV swaps max_slices as if
\* it had 32 bits, which leaves its upper half in a field of 16.
Arrives(t) == IF t.type = "RNTI_REPORT"
              THEN AtMost(t.len \div SizeofRnti, EP_RAN_USERS_MAX)
              ELSE IF t.type = "RAN_CAP" THEN (t.num * U16) % U16
              ELSE t.num

\* An entry of the details: token `at' of message `from' (0: a fixed part),
\* and its number.
Entry(from, at, num) == [from |-> from, at |-> at, num |-> num]

\* What the first k tokens of a message, its number `no', say of a kind of
\* token, in order: a function of k, each value of which goes further.
Further(seen, toks, no, type, k) ==
  IF toks[k].type = type THEN Append(seen, Entry(no, k, Arrives(toks[k])))
  ELSE seen
Contents(toks, no, type) ==
  LET first[k \in 0..Len(toks)] ==
        IF k = 0 THEN <<>> ELSE Further(first[k - 1], toks, no, type, k)
  IN first
=============================================================================
