------------------------------ MODULE MCEpUeRep ------------------------------
(***************************************************************************)
(* EpUeRep for TLC.  RNTIs and identities are interchangeable model        *)
(* values.                                                                 *)
(***************************************************************************)
EXTENDS EpUeRep, TLC

Symmetry == Permutations(Rntis) \cup Permutations(Ids)
=============================================================================
