------------------------------- MODULE MCEpDbg -------------------------------
(***************************************************************************)
(* EpDbg for TLC.                                                          *)
(***************************************************************************)
EXTENDS EpDbg
=============================================================================
