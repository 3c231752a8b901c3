------------------------------ MODULE MCEpStream ------------------------------
(***************************************************************************)
(* EpStream for TLC.                                                       *)
(***************************************************************************)
EXTENDS EpStream

\* One of each event.  The reply to a scheduled hello is sent without its
\* body; a slice may be added without the tokens it asks for.
StreamMessages == {epf_trigger_uerep_req("ADD"), epf_sched_hello_rep,
                   epf_single_ran_slice_add(FALSE, 1)}
\* Room for the headers of two, for one and the slice without tokens, for
\* all.
StreamSizes == {36, 60}
=============================================================================
