----------------------------- MODULE UeDirectory -----------------------------
(***************************************************************************)
(* What a controller may expect of a table that is fed by UE reports: a    *)
(* directory that gives at most one identity to each RNTI, and only        *)
(* identities which the base station has told for that RNTI.  EpUeRep      *)
(* implements it; slots, tokens, buffers and cursors are its own affair.   *)
(***************************************************************************)
CONSTANTS Rntis,   \* the RNTIs a UE can be given
          Ids,     \* what identifies a UE: its IMSI, TMSI and PLMN
          NoId     \* the directory has nothing for an RNTI

VARIABLES told,    \* <<rnti, id>> pairs the base station has reported so far
          dir      \* the identity recorded for each RNTI
vars == <<told, dir>>

TypeOK == /\ told \subseteq Rntis \X Ids
          /\ dir \in [Rntis -> Ids \cup {NoId}]

Init == /\ told = {}
        /\ dir = [r \in Rntis |-> NoId]

\* The base station sends a report.
Tell == /\ \E S \in SUBSET (Rntis \X Ids) : told' = told \cup S
        /\ UNCHANGED dir

\* One entry of a report is recorded, in place of what was known.
Learn == /\ \E e \in told : dir' = [dir EXCEPT ![e[1]] = e[2]]
         /\ UNCHANGED told

\* The controller drops entries.
Forget == /\ \E R \in SUBSET Rntis :
                dir' = [r \in Rntis |-> IF r \in R THEN NoId ELSE dir[r]]
          /\ UNCHANGED told

Next == Tell \/ Learn \/ Forget

Spec == Init /\ [][Next]_vars

(* Every identity in the directory was told by the base station for the    *)
(* RNTI it is recorded under.                                              *)
OnlyTold == \A r \in Rntis : dir[r] # NoId => <<r, dir[r]>> \in told
=============================================================================
