------------------------------- MODULE EpWire -------------------------------
(***************************************************************************)
(* The constants of the OpenEmpower wire format, version 1: the sizes of   *)
(* its packed structures, and the codes its headers carry.  The headers of *)
(* include/emproto/v1 declare them; every other module takes them from     *)
(* here.  A code is a string named as in the source: no property depends   *)
(* on its number, except that a zeroed memory reads as the code 0.         *)
(***************************************************************************)
EXTENDS Integers

\* Sizes in bytes, all __attribute__((packed)).
SizeofHdr      == 24   \* ep_hdr
SizeofSingle   == 3    \* ep_s_hdr
SizeofTrigger  == 3    \* ep_t_hdr
SizeofSchedule == 7    \* ep_c_hdr
SizeofTLV      == 4    \* ep_TLV
SizeofInterval == 4    \* interval, the last field of ep_c_hdr
SizeofRnti     == 2    \* rnti_id_t
SizeofUeId     == 19   \* ep_uerep_id
SizeofUeIdTLV  == SizeofTLV + SizeofUeId   \* ep_uerep_id_TLV
SizeofUeRepReq  == 1   \* ep_uerep_req
SizeofHello     == 4   \* ep_hello_req, ep_hello_rep
SizeofHoReq     == 13  \* ep_ho_req
SizeofHoRep     == 14  \* ep_ho_rep
SizeofCellCap   == 18  \* ep_ccap_TLV
SizeofRanCaps   == 24  \* ep_ran_caps_TLV
SizeofPrbRep    == 14  \* ep_cell_PRB_rep_TLV
SizeofPrbReq    == 4   \* ep_cell_PRB_meas_TLV
SizeofRrcRep    == 12  \* ep_ue_RRC_rep_TLV
SizeofRrcReq    == 16  \* ep_ue_RRC_meas_TLV
SizeofRanSetup  == 12  \* ep_ran_setup
SizeofMacSched  == 8   \* ep_ran_mac_sched_TLV
SizeofSliceInf  == 8   \* ep_ran_sinf, slice_id_t
SizeofSliceRes  == 6   \* ep_ran_sres_TLV
SizeofSliceSched == 8  \* ep_ran_ssch_TLV

\* What the public parsers skip in front of a trigger-event body.
SizeofTrigHeaders == SizeofHdr + SizeofTrigger

\* uint16_t of the length field of the header and of a TLV token.
U16 == 65536

\* ep_msg_type: the code 0 is the invalid one.
MsgTypes == {"INVALID", "SINGLE", "SCHEDULE", "TRIGGER"}

\* ep_act_type.  No function of the library sends or parses CCAP.
Actions == {"INVALID", "HELLO", "ECAP", "CCAP", "UE_REPORT", "UE_MEASURE",
            "CELL_MEASURE", "HANDOVER", "RAN_SETUP", "RAN_SLICE"}

\* ep_op_type: the code 0 is UNSPECIFIED.
Ops == {"UNSPECIFIED", "SUCCESS", "FAIL", "NOT_SUPPORTED", "ADD", "REM",
        "SET", "UNSET", "START", "STOP"}

\* The only bit of the flags of ep_hdr.
Dirs == {"REQ", "REP"}
=============================================================================
