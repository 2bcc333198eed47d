------------------------------ MODULE SetLemmas -----------------------------
(***************************************************************************)
(* Facts about sets of numbers that several proofs need.                   *)
(***************************************************************************)
EXTENDS Integers, FiniteSetsExt, WellFoundedInduction, TLAPS

\* Max is what its name says on a non-empty set of naturals with a bound.
LEMMA BoundedMax ==
  ASSUME NEW n \in Nat, NEW S \in SUBSET (0 .. n), S # {}
  PROVE  Max(S) \in S /\ \A y \in S : y <= Max(S)
<1> DEFINE T == {n - x : x \in S}
           R == {p \in Nat \X Nat : p[1] < p[2]}
<1>1. IsWellFoundedOn(R, Nat)
  BY NatLessThanWellFounded DEF OpToRel
<1>2. T \subseteq Nat
  OBVIOUS
<1>3. T # {}
  <2>1. PICK x \in S : TRUE
    OBVIOUS
  <2>2. n - x \in T
    OBVIOUS
  <2> QED BY <2>2
<1> HIDE DEF T, R
<1>4. PICK d \in T : \A y \in T : ~(<<y, d>> \in R)
  BY <1>1, <1>2, <1>3, WFMin
<1>5. PICK x \in S : d = n - x
  BY <1>4 DEF T
<1>6. \A y \in S : x >= y
  <2> TAKE y \in S
  <2>1. n - y \in T /\ n - y \in Nat /\ d \in Nat
    BY <1>2 DEF T
  <2>2. ~(n - y < d)
    BY <1>4, <2>1 DEF R
  <2> QED BY <1>5, <2>1, <2>2
<1> QED BY <1>6 DEF Max

\* And so is Min.
LEMMA BoundedMin ==
  ASSUME NEW S \in SUBSET Nat, S # {}
  PROVE  Min(S) \in S /\ \A y \in S : Min(S) <= y
<1> DEFINE R == {p \in Nat \X Nat : p[1] < p[2]}
<1>1. IsWellFoundedOn(R, Nat)
  BY NatLessThanWellFounded DEF OpToRel
<1> HIDE DEF R
<1>2. PICK x \in S : \A y \in S : ~(<<y, x>> \in R)
  BY <1>1, WFMin
<1>3. \A y \in S : x <= y
  <2> TAKE y \in S
  <2>1. x \in Nat /\ y \in Nat
    OBVIOUS
  <2>2. ~(y < x)
    BY <1>2, <2>1 DEF R
  <2> QED BY <2>1, <2>2
<1> QED BY <1>3 DEF Min

\* The larger and the smaller of two naturals.
LEMMA MaxOfTwo ==
  ASSUME NEW x \in Nat, NEW y \in Nat
  PROVE  Max({x, y}) \in Nat /\ x <= Max({x, y}) /\ y <= Max({x, y}) /\ Max({x, y}) \in {x, y}
BY DEF Max

LEMMA MinOfIntegers ==
  ASSUME NEW x \in Int, NEW y \in Int
  PROVE  Min({x, y}) \in Int /\ Min({x, y}) <= x /\ Min({x, y}) <= y
BY DEF Min

LEMMA MinOfTwo ==
  ASSUME NEW x \in Nat, NEW y \in Nat
  PROVE  Min({x, y}) \in Nat /\ Min({x, y}) <= x /\ Min({x, y}) <= y /\ Min({x, y}) \in {x, y}
BY DEF Min
=============================================================================
