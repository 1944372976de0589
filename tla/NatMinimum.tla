---------------------------- MODULE NatMinimum -----------------------------
(***************************************************************************)
(* The minimum of a set of naturals, as FiniteSetsExt defines it.          *)
(***************************************************************************)
EXTENDS Integers, FiniteSetsExt, TLAPS, WellFoundedInduction

Below == {ss \in Nat \X Nat : ss[1] < ss[2]}

\* The order of the naturals, as a relation, is well founded.
LEMMA BelowWellFounded == IsWellFoundedOn(Below, Nat)
BY Zenon, NatLessThanWellFounded DEF OpToRel, Below

\* A non-empty set of naturals has a minimum, which Min denotes.
LEMMA MinNat ==
    ASSUME NEW S, S \subseteq Nat, S # {}
    PROVE  Min(S) \in S /\ \A y \in S : Min(S) <= y
<1>1. \E x \in S : \A y \in S : ~ (<<y, x>> \in Below)
  BY BelowWellFounded, WFMin
<1>2. \A x, y \in S : ~ (<<y, x>> \in Below) => x <= y
  BY DEF Below
<1> QED BY <1>1, <1>2 DEF Min

\* A set of naturals with 0 and the successor of each of its members is all of Nat.
LEMMA AllNat ==
    ASSUME NEW T, T \subseteq Nat, 0 \in T, \A m \in T : m + 1 \in T
    PROVE  T = Nat
<1>1. SUFFICES ASSUME Nat \ T # {} PROVE FALSE
  OBVIOUS
<1> PICK S : S = Nat \ T
  OBVIOUS
<1>2. PICK m \in S : \A y \in S : m <= y
  BY <1>1, MinNat
<1>3. m \in Nat /\ m # 0 /\ m \notin T
  BY <1>2
<1>4. m - 1 \in Nat /\ m - 1 \in T
  BY <1>2, <1>3
<1>5. (m - 1) + 1 \in T
  BY <1>4
<1> QED BY <1>3, <1>5
============================================================================
