------------------------------ MODULE Counting ------------------------------
(***************************************************************************)
(* Induction over the elements of a list, in a form that the provers can   *)
(* use: about a set of numbers, not about a predicate.  A proof defines    *)
(* the set of the positions at which what it wants holds.                  *)
(***************************************************************************)
EXTENDS Naturals, WellFoundedInduction, TLAPS

\* A set of numbers that holds 0 and every successor up to n holds 0..n.
LEMMA ReachesEvery ==
  ASSUME NEW n \in Nat, NEW T \in SUBSET Nat, 0 \in T,
         \A m \in T : m < n => m + 1 \in T
  PROVE  \A m \in 0..n : m \in T
<1> DEFINE D == (0..n) \ T
           R == OpToRel(<, Nat)
<1>1. SUFFICES ASSUME D # {} PROVE FALSE
  OBVIOUS
<1>2. D \subseteq Nat /\ IsWellFoundedOn(R, Nat)
  <2>1. D \subseteq Nat
    OBVIOUS
  <2>2. IsWellFoundedOn(R, Nat)
    BY NatLessThanWellFounded
  <2> QED BY <2>1, <2>2
<1>3. PICK d \in D : \A e \in D : ~(<< e, d >> \in R)
  <2> HIDE DEF D, R
  <2> QED BY <1>1, <1>2, WFMin
<1>4. d \in Nat /\ d # 0 /\ d <= n /\ d - 1 \in Nat
  OBVIOUS
<1>5. d - 1 \notin D
  <2>1. << d - 1, d >> \in {ss \in Nat \X Nat : ss[1] < ss[2]}
    BY <1>4
  <2>2. R = {ss \in Nat \X Nat : ss[1] < ss[2]}
    BY Zenon DEF OpToRel
  <2> HIDE DEF D, R
  <2> QED BY <1>3, <2>1, <2>2
<1>6. d - 1 \in T /\ d - 1 < n /\ (d - 1) + 1 = d
  BY <1>4, <1>5
<1> QED BY <1>3, <1>6
=============================================================================
