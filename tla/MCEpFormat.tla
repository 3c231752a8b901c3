------------------------------ MODULE MCEpFormat ------------------------------
(***************************************************************************)
(* EpFormat for TLC: which messages and sizes a run considers.             *)
(***************************************************************************)
EXTENDS EpFormat, FiniteSets

\* Enough calls for each function with arguments that give no, one and
\* several tokens; counts past the limits EP_ECAP_CELL_MAX and
\* EP_UE_RRC_MEAS_MAX are cut by the code.
SingleMessages ==
  {epf_single_hello_req, epf_single_hello_rep, epf_single_ecap_req,
   epf_single_ho_req, epf_single_ho_rep, epf_single_ho_rep_fail,
   epf_single_ho_rep_ns, epf_single_ran_setup_req,
   epf_single_ran_slice_req, epf_single_ran_slice_rem}
  \cup {epf_single_ecap_rep(cells, ran) : cells, ran \in {0, 1, 9}}
  \cup {epf_single_ran_setup_rep(b) : b \in BOOLEAN}
  \cup UNION {{epf_single_ran_rep_success(act), epf_single_ran_rep_fail(act),
               epf_single_ran_rep_ns(act)} : act \in {"RAN_SETUP", "RAN_SLICE"}}
  \cup {epf_single_ran_slice_set(FALSE, FALSE, 0)}

ScheduleMessages ==
  {epf_sched_hello_req, epf_sched_cell_meas_req,
   epf_sched_cell_meas_rep(FALSE), epf_sched_cell_meas_fail,
   epf_sched_cell_meas_ns}

TriggerMessages ==
  {epf_trigger_uerep_rep(0), epf_trigger_uerep_rep_fail,
   epf_trigger_uemeas_rep_fail, epf_trigger_cell_meas_req,
   epf_trigger_cell_meas_rep(FALSE), epf_trigger_cell_meas_fail,
   epf_trigger_cell_meas_ns}
  \cup {epf_trigger_uerep_req(op) : op \in {"ADD", "REM"}}
  \cup {epf_trigger_uemeas_req("ADD", rrc) : rrc \in {0, 1, 3, 9}}
  \cup {epf_trigger_uemeas_rep(rrc) : rrc \in {0, 1, 3, 9}}

\* The messages whose formatters check each chunk for what they write and
\* return what a check says.
CheckedMessages == SingleMessages \cup ScheduleMessages \cup TriggerMessages

\* The longest report whose size, 65531, the length of a packet can say.
LongestReport == epf_trigger_uerep_rep(2848)

SizedMessages == CheckedMessages \cup {LongestReport}

\* Formatters that drop or misread what a callee returns, or check for less
\* than they write.
SliceDetails(users) ==
  {epf_single_ran_slice_add(b, users) : b \in BOOLEAN}
  \cup {epf_single_ran_slice_set(TRUE, b, users) : b \in BOOLEAN}
HelloSchedule     == {epf_sched_hello_rep}
UncountedMessages == HelloSchedule \cup SliceDetails(0)
\* Lists of more users than the details hold.
LongLists         == SliceDetails(EP_RAN_USERS_MAX + 1)

UeReports     == {epf_trigger_uerep_rep(ues) : ues \in {1, 2}}
SliceReplies  == {epf_single_ran_slice_rep(b, u) : b \in BOOLEAN, u \in {0, 2}}
CellReports   == {epf_sched_cell_meas_rep(TRUE), epf_trigger_cell_meas_rep(TRUE)}
UncheckedMessages == UeReports \cup SliceReplies \cup CellReports

\* All that never return more than the size they are given.
FittingMessages == CheckedMessages \cup HelloSchedule
                   \cup SliceDetails(0) \cup SliceDetails(2)
                   \cup LongLists \cup RefusedCalls \cup UnguardedCalls

\* Around the size of every message, also of the longest ones.
AllSizes  == (0..72) \cup {95, 96, 122, 123, 154, 155, 362, 363}
             \cup 65526..65531
FewSizes  == {10, 25, 34, 40, 60, 110, 130}
=============================================================================
