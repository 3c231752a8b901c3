------------------------------- MODULE NatLemmas -------------------------------
(***************************************************************************)
(* Facts about natural numbers that the proofs of several components use.  *)
(***************************************************************************)
EXTENDS Integers, TLAPS, WellFoundedInduction

(* A set of natural numbers that is not empty has a least one.             *)
LEMMA LeastExists ==
  ASSUME NEW S \in SUBSET Nat, S # {}
  PROVE  \E j \in S : \A h \in S : j <= h
<1> DEFINE R == {ss \in Nat \X Nat : ss[1] < ss[2]}
<1>1. IsWellFoundedOn(R, Nat)
  BY NatLessThanWellFounded DEF OpToRel
<1>2. PICK j \in S : \A h \in S : <<h, j>> \notin R
  <2> HIDE DEF R
  <2> QED
    BY <1>1, WFMin
<1>3. ASSUME NEW h \in S, h < j PROVE FALSE
  <2>1. <<h, j>> \in Nat \X Nat
    OBVIOUS
  <2>2. <<h, j>>[1] < <<h, j>>[2]
    BY <1>3
  <2>3. <<h, j>> \in R
    BY <2>1, <2>2, Zenon
  <2>4. QED
    BY <1>2, <2>3
<1>4. QED
  BY <1>3

(* A remainder lies below the modulus.                                     *)
LEMMA ModRange ==
  ASSUME NEW a \in Int, NEW m \in Nat \ {0}
  PROVE  a % m \in 0..(m - 1)
OBVIOUS

(* It leaves what fits alone.                                              *)
LEMMA ModSmall == ASSUME NEW a \in Nat, NEW m \in Nat, a < m PROVE a % m = a
OBVIOUS

LEMMA TimesNat ==
  ASSUME NEW a \in Nat, NEW b \in Nat
  PROVE  a * b \in Nat
OBVIOUS
=============================================================================
