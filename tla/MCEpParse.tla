------------------------------ MODULE MCEpParse ------------------------------
(***************************************************************************)
(* EpParse for TLC: which messages a run considers.                        *)
(***************************************************************************)
EXTENDS EpParse

Plain(fmt, parser) == Packet(fmt, parser, <<>>)

\* Every byte of the fixed part is sent.
FixedMessages ==
  {Plain(epf_single_hello_req, epp_single_hello_req),
   Plain(epf_single_hello_rep, epp_single_hello_rep),
   Plain(epf_sched_hello_req, epp_sched_hello_req),
   Plain(epf_single_ho_req, epp_single_ho_req),
   Plain(epf_single_ho_rep_fail, epp_single_ho_rep),
   Plain(epf_trigger_uerep_req("ADD"), epp_trigger_uerep_req),
   Plain(epf_single_ecap_req, epp_single_ecap_req),
   Plain(epf_single_ran_setup_req, epp_single_ran_setup_req),
   Plain(epf_single_ran_slice_req, epp_single_ran_slice_req),
   Plain(epf_single_ran_slice_rem, epp_single_ran_slice_rem)}

HelloRep == {Plain(epf_sched_hello_rep, epp_sched_hello_rep)}

Ecap(cells, ran, maxSlices) ==
  Packet(epf_single_ecap_rep(cells, ran), epp_single_ecap_rep,
         EcapOut(cells, ran, maxSlices))
CellCaps     == {Ecap(cells, 0, 0) : cells \in {0, 1, 2, 9}}
RanCaps      == {Ecap(0, 1, 2), Ecap(1, 2, 2), Ecap(1, 9, 2)}
EcapMessages == CellCaps \cup RanCaps

UeMeasReq(rrc) ==
  Packet(epf_trigger_uemeas_req("ADD", rrc), epp_trigger_uemeas_req,
         UeMeasReqOut(rrc, 10, 77))
UeMeasRep(rrc) ==
  Packet(epf_trigger_uemeas_rep(rrc), epp_trigger_uemeas_rep, UeMeasRepOut(rrc))
\* A peer that is not of this library does not cut the list.
LongUeMeasRep ==
  Packet(Message("TRIGGER", "REP", "UE_MEASURE", "SUCCESS",
                 Times(9, SizeofRrcRep)), epp_trigger_uemeas_rep,
         Repeat(9, Token("UE_RRC_REPORT", SizeofRrcRep, 0)))
UeMeasMessages ==
  {UeMeasReq(1), UeMeasReq(2), UeMeasRep(0), UeMeasRep(2), LongUeMeasRep,
   Plain(epf_trigger_uemeas_rep_fail, epp_trigger_uemeas_rep)}

CellMeasMessages ==
  {Packet(epf_sched_cell_meas_req, epp_sched_cell_meas_req, CellMeasReqOut),
   Packet(epf_trigger_cell_meas_req, epp_trigger_cell_meas_req, CellMeasReqOut)}
  \cup UNION {
    {Packet(epf_sched_cell_meas_rep(b), epp_sched_cell_meas_rep,
            CellMeasRepOut(b)),
     Packet(epf_trigger_cell_meas_rep(b), epp_trigger_cell_meas_rep,
            CellMeasRepOut(b))} : b \in BOOLEAN}

\* The replies without details reach the parser of the reply with details.
RanSetupMessages ==
  {Packet(epf_single_ran_setup_rep(b), epp_single_ran_setup_rep,
          RanSetupOut(b)) : b \in BOOLEAN}
  \cup {Plain(epf_single_ran_rep_fail("RAN_SETUP"), epp_single_ran_setup_rep)}

SliceMessages ==
  {Plain(epf_single_ran_rep_success("RAN_SLICE"), epp_single_ran_slice_rep),
   Plain(epf_single_ran_rep_fail("RAN_SLICE"), epp_single_ran_slice_rep),
   Plain(epf_single_ran_slice_set(FALSE, FALSE, 0), epp_single_ran_slice_set)}
  \cup {Packet(epf_single_ran_slice_rep(b, u), epp_single_ran_slice_rep,
               SliceOut(b, u)) : b \in BOOLEAN, u \in {0, 2}}
  \cup {Packet(epf_single_ran_slice_set(TRUE, FALSE, 1),
               epp_single_ran_slice_set, SliceOut(FALSE, 1))}
LongSlice == {Packet(epf_single_ran_slice_add(TRUE, 33),
                     epp_single_ran_slice_add, SliceOut(TRUE, 33))}

\* Of a peer that does not keep to the format: payload all through.
Foreign(size, parser) ==
  [size |-> size, whole |-> TRUE, parser |-> parser, toks |-> <<>>,
   offset |-> <<>>]
ForeignMessages ==
  {Foreign(TriggerSkip + 12, epp_trigger_uemeas_rep),
   Foreign(SingleSkip + SizeofSliceInf + 8, epp_single_ran_slice_add)}

\* Replies about a slice with two users and with none.
UserMessages == {Packet(epf_single_ran_slice_rep(TRUE, u),
                        epp_single_ran_slice_rep, SliceOut(TRUE, u)) : u \in {0, 2}}

AllMessages == FixedMessages \cup HelloRep \cup EcapMessages \cup
               UeMeasMessages \cup CellMeasMessages \cup RanSetupMessages \cup
               SliceMessages \cup LongSlice \cup ForeignMessages
=============================================================================
