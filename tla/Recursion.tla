----------------------------- MODULE Recursion -----------------------------
(***************************************************************************)
(* Lemmas about functions defined by recursion over 0 .. n, which the      *)
(* models use to go through a sequence.  They are first-order: instead of  *)
(* a predicate they are about the set of the numbers that have it, and a   *)
(* step of a recursion is a function.                                      *)
(***************************************************************************)
EXTENDS Integers, Sequences, WellFoundedInduction, TLAPS

\* A nonempty set of natural numbers has a least element.
LEMMA Least ==
  ASSUME NEW S \in SUBSET Nat, S # {}
  PROVE  \E m \in S : \A k \in S : m <= k
<1> DEFINE R == OpToRel(<, Nat)
<1>1. \E m \in S : \A k \in S : <<k, m>> \notin R
  <2> HIDE DEF R
  <2>1. IsWellFoundedOn(R, Nat)
    BY NatLessThanWellFounded DEF R
  <2> QED
    BY <2>1, WFMin
<1>2. \A k, m \in Nat : <<k, m>> \notin R => m <= k
  BY DEF OpToRel
<1> QED
  BY <1>1, <1>2

\* Induction over 0 .. n.
LEMMA Induction ==
  ASSUME NEW n \in Nat, NEW T, 0 \in T,
         \A i \in 1 .. n : i - 1 \in T => i \in T
  PROVE  0 .. n \subseteq T
<1> DEFINE Bad == {i \in 0 .. n : i \notin T}
<1> SUFFICES ASSUME Bad # {} PROVE FALSE
  OBVIOUS
<1>1. PICK m \in Bad : \A k \in Bad : m <= k
  <2>1. Bad \in SUBSET Nat
    OBVIOUS
  <2> HIDE DEF Bad
  <2> QED
    BY <2>1, Least
<1>2. m \in 1 .. n /\ m - 1 \in T
  BY <1>1
<1> QED
  BY <1>1, <1>2

\* f goes n steps from base.
Iterates(f, V, base, n, step) ==
  f \in [0 .. n -> V] /\ f[0] = base /\ \A i \in 1 .. n : f[i] = step[<<f[i - 1], i>>]

\* There is a function that does.
LEMMA Iteration ==
  ASSUME NEW V, NEW base \in V, NEW n \in Nat, NEW step \in [V \X (1 .. n) -> V]
  PROVE  \E f : Iterates(f, V, base, n, step)
<1> DEFINE T == {k \in 0 .. n : \E f : Iterates(f, V, base, k, step)}
<1>1. 0 \in T
  <2> DEFINE g == [i \in 0 .. 0 |-> base]
  <2>1. Iterates(g, V, base, 0, step)
    BY DEF Iterates
  <2> HIDE DEF g
  <2> QED
    BY <2>1
<1>2. ASSUME NEW m \in 1 .. n, m - 1 \in T PROVE m \in T
  <2>1. PICK f : Iterates(f, V, base, m - 1, step)
    BY <1>2
  <2> DEFINE g == [i \in 0 .. m |-> IF i = m THEN step[<<f[m - 1], m>>] ELSE f[i]]
  <2>2. f[m - 1] \in V /\ step[<<f[m - 1], m>>] \in V
    BY <2>1 DEF Iterates
  <2>3. g \in [0 .. m -> V] /\ g[0] = base
    BY <2>1, <2>2 DEF Iterates
  <2>4. ASSUME NEW i \in 1 .. m PROVE g[i] = step[<<g[i - 1], i>>]
    <3>1. CASE i = m
      <4>1. g[m] = step[<<f[m - 1], m>>] /\ g[m - 1] = f[m - 1]
        OBVIOUS
      <4> QED
        BY <3>1, <4>1
    <3>2. CASE i # m
      BY <3>2, <2>1 DEF Iterates
    <3> QED
      BY <3>1, <3>2
  <2>5. Iterates(g, V, base, m, step)
    BY <2>3, <2>4 DEF Iterates
  <2> HIDE DEF g
  <2> QED
    BY <2>5
<1>3. 0 .. n \subseteq T
  <2> HIDE DEF T
  <2> QED
    BY <1>1, <1>2, Induction
<1> QED
  BY <1>3
=============================================================================
