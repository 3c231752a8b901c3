------------------------------ MODULE EpMessages ------------------------------
(***************************************************************************)
(* What each public formatter of the library lays out: one operator per    *)
(* function epf_<event>_<message>, its name, over the counts its arguments *)
(* decide.  They all fill the header (epf_head), then the event header     *)
(* (epf_single, epf_schedule or epf_trigger), then a body; EpFormat        *)
(* performs that.  A body is a sequence of loops, each of which checks for *)
(* room and writes one chunk per turn; a chunk written once is one turn.   *)
(***************************************************************************)
EXTENDS EpWire, Sequences

\* A loop of `turns' turns; in each `need' bytes are asked of the buffer and
\* `put' bytes are written.
Loop(turns, need, put) == [turns |-> turns, need |-> need, put |-> put]
Loops == [turns : Nat, need : Nat, put : Nat]
Times(turns, bytes)    == <<Loop(turns, bytes, bytes)>>
Once(bytes)            == Times(1, bytes)
Opt(b, bytes)          == Times(IF b THEN 1 ELSE 0, bytes)
AtMost(a, b)           == IF a <= b THEN a ELSE b

(* evt, dir, act, op: what the two headers say.  body: its loops.  inner:  *)
(* the loops of a second call, whose return value is added to the size     *)
(* unchecked.  counted: the return value of the body is used at all.       *)
(* det: the details the caller hands over: "ok", all that is needed;       *)
(* "refused", NULL, and the formatter looks; "read", NULL, and it does     *)
(* not; "short", fewer users in the array than its count says.             *)
Message(evt, dir, act, op, body) ==
  [evt |-> evt, dir |-> dir, act |-> act, op |-> op, body |-> body,
   inner |-> <<>>, counted |-> TRUE, det |-> "ok"]

\* The same call without its details.
Refused(m)   == [m EXCEPT !.det = "refused"]
Unguarded(m) == [m EXCEPT !.det = "read"]

SizeofEvent(evt) == IF evt = "SCHEDULE" THEN SizeofSchedule ELSE SizeofSingle

\* The bytes of the first i of a sequence of loops, of all of them, and of a
\* whole message.
FirstBytes(loops) ==
  LET sum[i \in 0..Len(loops)] ==
        IF i = 0 THEN 0 ELSE sum[i - 1] + loops[i].turns * loops[i].put
  IN sum
Bytes(loops) == FirstBytes(loops)[Len(loops)]
WholeSize(m) ==
  SizeofHdr + SizeofEvent(m.evt) + Bytes(m.body) + Bytes(m.inner)

-----------------------------------------------------------------------------
(* Hello, ephello.c                                                        *)

HelloReqBody == Once(SizeofHello)
HelloRepBody == Once(SizeofHello)

epf_single_hello_req ==
  Message("SINGLE", "REQ", "HELLO", "UNSPECIFIED", HelloReqBody)
epf_single_hello_rep ==
  Message("SINGLE", "REP", "HELLO", "SUCCESS", HelloRepBody)
epf_sched_hello_req ==
  Message("SCHEDULE", "REQ", "HELLO", "UNSPECIFIED", HelloReqBody)
\* Ignores what epf_hello_rep returned.
epf_sched_hello_rep ==
  [Message("SCHEDULE", "REP", "HELLO", "SUCCESS", HelloRepBody)
   EXCEPT !.counted = FALSE]

-----------------------------------------------------------------------------
(* eNB capabilities, epenbcap.c                                            *)

EP_ECAP_CELL_MAX == 8

\* epf_ecap_rep
EcapBody(cells, ran) ==
  Times(AtMost(cells, EP_ECAP_CELL_MAX), SizeofCellCap) \o
  Times(AtMost(ran, EP_ECAP_CELL_MAX), SizeofRanCaps)

epf_single_ecap_req == Message("SINGLE", "REQ", "ECAP", "UNSPECIFIED", <<>>)
epf_single_ecap_rep(cells, ran) ==
  Message("SINGLE", "REP", "ECAP", "UNSPECIFIED", EcapBody(cells, ran))
\* Calls epf_ecap_rep with a NULL det, which it reads.
epf_single_ecap_rep_fail ==
  Unguarded(Message("SINGLE", "REP", "ECAP", "FAIL", <<>>))

-----------------------------------------------------------------------------
(* UE report, epuerep.c; ues: the entries with a valid RNTI                *)

UeRepBody(ues) == <<Loop(ues, SizeofUeId, SizeofUeIdTLV)>>

epf_trigger_uerep_req(op) ==
  Message("TRIGGER", "REQ", "UE_REPORT", op, Once(SizeofUeRepReq))
epf_trigger_uerep_rep(ues) ==
  Message("TRIGGER", "REP", "UE_REPORT", "SUCCESS", UeRepBody(ues))
epf_trigger_uerep_rep_fail ==
  Message("TRIGGER", "REP", "UE_REPORT", "FAIL", <<>>)

-----------------------------------------------------------------------------
(* UE measurements, epuemeas.c                                             *)

EP_UE_RRC_MEAS_MAX == 8

\* epf_uemeas_req, epf_uemeas_rep
UeMeasReqBody(rrc) == Times(AtMost(rrc, EP_UE_RRC_MEAS_MAX), SizeofRrcReq)
UeMeasRepBody(rrc) == Times(AtMost(rrc, EP_UE_RRC_MEAS_MAX), SizeofRrcRep)

epf_trigger_uemeas_req(op, rrc) ==
  Message("TRIGGER", "REQ", "UE_MEASURE", op, UeMeasReqBody(rrc))
epf_trigger_uemeas_rep(rrc) ==
  Message("TRIGGER", "REP", "UE_MEASURE", "SUCCESS", UeMeasRepBody(rrc))
epf_trigger_uemeas_rep_fail ==
  Message("TRIGGER", "REP", "UE_MEASURE", "FAIL", <<>>)

-----------------------------------------------------------------------------
(* Cell measurements, epcellmeas.c; prb: there are PRBs to report          *)

CellMeasReqBody == Once(SizeofPrbReq)
\* epf_cell_meas_rep does not look at the size it is given.
CellMeasRepBody(prb) == <<Loop(IF prb THEN 1 ELSE 0, 0, SizeofPrbRep)>>

CellMeas(evt, dir, op, body) == Message(evt, dir, "CELL_MEASURE", op, body)

epf_sched_cell_meas_req ==
  CellMeas("SCHEDULE", "REQ", "UNSPECIFIED", CellMeasReqBody)
epf_sched_cell_meas_rep(prb) ==
  CellMeas("SCHEDULE", "REP", "SUCCESS", CellMeasRepBody(prb))
epf_sched_cell_meas_fail == CellMeas("SCHEDULE", "REP", "FAIL", <<>>)
epf_sched_cell_meas_ns   == CellMeas("SCHEDULE", "REP", "NOT_SUPPORTED", <<>>)
epf_trigger_cell_meas_req ==
  CellMeas("TRIGGER", "REQ", "UNSPECIFIED", CellMeasReqBody)
epf_trigger_cell_meas_rep(prb) ==
  CellMeas("TRIGGER", "REP", "SUCCESS", CellMeasRepBody(prb))
epf_trigger_cell_meas_fail == CellMeas("TRIGGER", "REP", "FAIL", <<>>)
epf_trigger_cell_meas_ns   == CellMeas("TRIGGER", "REP", "NOT_SUPPORTED", <<>>)

-----------------------------------------------------------------------------
(* Handover, epho.c                                                        *)

HoReqBody == Once(SizeofHoReq)   \* epf_ho_req
HoRepBody == Once(SizeofHoRep)   \* epf_ho_rep

Handover(dir, op, body) == Message("SINGLE", dir, "HANDOVER", op, body)

epf_single_ho_req == Handover("REQ", "UNSPECIFIED", HoReqBody)
epf_single_ho_rep == Handover("REP", "SUCCESS", HoRepBody)
epf_single_ho_rep_fail == Handover("REP", "FAIL", HoRepBody)
epf_single_ho_rep_ns   == Handover("REP", "NOT_SUPPORTED", HoRepBody)

-----------------------------------------------------------------------------
(* RAN setup and slices, epRAN.c; act: RAN_SETUP or RAN_SLICE              *)

Ran(dir, act, op, body) == Message("SINGLE", dir, act, op, body)

epf_single_ran_rep_success(act) == Ran("REP", act, "SUCCESS", <<>>)
epf_single_ran_rep_fail(act) ==
  Ran("REP", act, "FAIL", Once(SizeofSliceInf))
epf_single_ran_rep_ns(act) == Ran("REP", act, "NOT_SUPPORTED", <<>>)

epf_single_ran_setup_req == Ran("REQ", "RAN_SETUP", "UNSPECIFIED", <<>>)
\* epf_ran_eup; sched: the slice scheduler is valid
RanSetupBody(sched) == Once(SizeofRanSetup) \o Opt(sched, SizeofMacSched)
epf_single_ran_setup_rep(sched) ==
  Ran("REP", "RAN_SETUP", "UNSPECIFIED", RanSetupBody(sched))

\* epf_TLV_rnti_report checks each RNTI, the first after its own header.
RntiReport(users) ==
  IF users = 0 THEN <<>>
  ELSE Once(SizeofTLV + SizeofRnti) \o Times(users - 1, SizeofRnti)

\* epf_ran_TLV; usched: there is a user scheduler; users: nof_users
SliceTokens(usched, users) ==
  Once(SizeofSliceRes) \o Opt(usched, SizeofSliceSched) \o
  RntiReport(users)

\* epf_ran_suq, epf_ran_srq and the head of epf_ran_saq, epf_ran_ssq check
\* for room, epf_ran_sup does not.
SliceId          == Once(SizeofSliceInf)
UncheckedSliceId == <<Loop(1, 0, SizeofSliceInf)>>

\* The details have room for EP_RAN_USERS_MAX users; none of the formatters
\* compares nof_users with it.
EP_RAN_USERS_MAX == 32
Users(users) == IF users > EP_RAN_USERS_MAX THEN "short" ELSE "ok"

Slice(dir, op, body, tokens, det) ==
  [evt |-> "SINGLE", dir |-> dir, act |-> "RAN_SLICE", op |-> op,
   body |-> body, inner |-> tokens, counted |-> TRUE, det |-> det]

epf_single_ran_slice_req == Slice("REQ", "UNSPECIFIED", SliceId, <<>>, "ok")
epf_single_ran_slice_rep(usched, users) ==
  Slice("REP", "UNSPECIFIED", UncheckedSliceId, SliceTokens(usched, users),
        Users(users))
epf_single_ran_slice_add(usched, users) ==
  Slice("REQ", "ADD", SliceId, SliceTokens(usched, users), Users(users))
epf_single_ran_slice_rem == Slice("REQ", "REM", SliceId, <<>>, "ok")
\* det: the details are given; it does without them.
epf_single_ran_slice_set(det, usched, users) ==
  Slice("REQ", "SET", SliceId,
        IF det THEN SliceTokens(usched, users) ELSE <<>>,
        IF det THEN Users(users) ELSE "ok")

-----------------------------------------------------------------------------
(* Calls without details: the formatters that look, and those that do not. *)

RefusedCalls ==
  {Refused(epf_trigger_uerep_rep(1)), Refused(epf_trigger_uemeas_rep(0)),
   Refused(epf_sched_cell_meas_rep(FALSE)),
   Refused(epf_trigger_cell_meas_rep(FALSE)),
   Refused(epf_single_ran_setup_rep(FALSE)),
   Refused(epf_single_ran_slice_rep(FALSE, 0)),
   Refused(epf_single_ran_slice_add(FALSE, 0))}
UnguardedCalls ==
  {epf_single_ecap_rep_fail, Unguarded(epf_single_ecap_rep(0, 0)),
   Unguarded(epf_trigger_uemeas_req("ADD", 0))}
=============================================================================
