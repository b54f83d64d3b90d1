----------------------------- MODULE Induction -----------------------------
(***************************************************************************)
(* Induction over the natural numbers, with sets in the place of           *)
(* predicates: what the proofs about recursive definitions rest on.        *)
(***************************************************************************)
EXTENDS Integers, WellFoundedInduction, TLAPS

LEMMA Least ==
    ASSUME NEW T, T \subseteq Nat, T # {}
    PROVE  \E x \in T : \A y \in T : x <= y
<1> DEFINE R == OpToRel(<, Nat)
<1>1. IsWellFoundedOn(R, Nat)
  BY NatLessThanWellFounded
<1>2. \A x, y \in Nat : <<y, x>> \in R <=> y < x
  BY DEF OpToRel
<1> HIDE DEF R
<1>3. PICK x \in T : \A y \in T : ~ (<<y, x>> \in R)
  BY <1>1, WFMin
<1>4. x \in Nat /\ \A y \in T : y \in Nat
  OBVIOUS
<1>5. \A y \in T : ~ (y < x)
  BY <1>2, <1>3, <1>4
<1>6. \A y \in T : x <= y
  BY <1>4, <1>5
<1> QED
  BY <1>6

LEMMA UpTo ==
    ASSUME NEW n \in Nat, NEW T, 0 \in T, \A m \in 0..(n - 1) : m \in T => m + 1 \in T
    PROVE  \A m \in 0..n : m \in T
<1> DEFINE Bad == {m \in 0..n : m \notin T}
<1> SUFFICES ASSUME Bad # {} PROVE FALSE
  OBVIOUS
<1>1. Bad \subseteq Nat
  OBVIOUS
<1>2. \A m \in Bad : m \in 0..n /\ m \notin T
  OBVIOUS
<1>3. \A m \in 0..n : m \notin Bad => m \in T
  OBVIOUS
<1> HIDE DEF Bad
<1>4. PICK m \in Bad : \A y \in Bad : m <= y
  BY <1>1, Least
<1>5. m \in 0..n /\ m \notin T /\ m # 0
  BY <1>2, <1>4
<1>6. m - 1 \in 0..(n - 1) /\ m - 1 \in 0..n /\ ~ (m <= m - 1) /\ m - 1 + 1 = m
  BY <1>5
<1>7. m - 1 \in T
  BY <1>3, <1>4, <1>6
<1>8. m - 1 + 1 \in T
  BY <1>6, <1>7
<1> QED
  BY <1>5, <1>6, <1>8
=============================================================================
