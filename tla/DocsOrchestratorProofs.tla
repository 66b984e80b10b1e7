----------------------- MODULE DocsOrchestratorProofs -----------------------
(***************************************************************************)
(* Proofs about DocsOrchestrator, for every engine, project and limit.     *)
(*                                                                         *)
(* First what the operators of DocsSteps compute: the selection from a     *)
(* sequence, the bundles, the features of a summary, the agenda, the next  *)
(* step and the sessions of a runner.  Then the invariants of the state    *)
(* machine.  That a question is not lost follows from where a waiting      *)
(* sidecar can be (WaitingInv): outside of group B of Phase 3 no runner    *)
(* goes on with one, and the main loop and the recovery never meet one.    *)
(* The types, the order of the phases, that no step is redone and that     *)
(* progress is kept follow from IInv: what a runner has in its memory and  *)
(* in the file, what it has yet to do, and that every step on record has   *)
(* all before it in the agenda done.  Then the refinement: what a runner   *)
(* has recorded is one step of DocsProgress away from the file (SavesInv), *)
(* the failures of the gate are counted (GateInv), and the last message of *)
(* a run is true (MessageInv).                                             *)
(***************************************************************************)
EXTENDS DocsOrchestrator, Recursion, FiniteSetTheorems, TLAPS

(***************************************************************************)
(* Only.                                                                   *)
(***************************************************************************)

\* f[n] is Only of the first n elements.
Selects(f, X, s, S) ==
  /\ f \in [0 .. Len(s) -> Seq(X)] /\ f[0] = <<>>
  /\ \A n \in 1 .. Len(s) :
       f[n] = IF s[n] \in S THEN Append(f[n - 1], s[n]) ELSE f[n - 1]

\* The recursion of Only has a result.
LEMMA OnlyRecursion ==
  ASSUME NEW X, NEW s \in Seq(X), NEW S
  PROVE  \E f : Selects(f, X, s, S) /\ f[Len(s)] = Only(s, S)
<1> DEFINE step == [p \in Seq(X) \X (1 .. Len(s)) |->
                      IF s[p[2]] \in S THEN Append(p[1], s[p[2]]) ELSE p[1]]
           Is(f) == f = [n \in 0 .. Len(s) |->
                           IF n = 0 THEN <<>>
                           ELSE IF s[n] \in S THEN Append(f[n - 1], s[n]) ELSE f[n - 1]]
<1>1. Len(s) \in Nat /\ <<>> \in Seq(X)
  OBVIOUS
<1>2. \E f : Is(f)
  <2>1. step \in [Seq(X) \X (1 .. Len(s)) -> Seq(X)]
    OBVIOUS
  <2>2. PICK f : Iterates(f, Seq(X), <<>>, Len(s), step)
    <3> HIDE DEF step
    <3> QED
      BY <1>1, <2>1, Iteration
  <2>3. ASSUME NEW n \in 1 .. Len(s)
        PROVE  f[n] = IF s[n] \in S THEN Append(f[n - 1], s[n]) ELSE f[n - 1]
    <3>1. f[n - 1] \in Seq(X)
      BY <1>1, <2>2 DEF Iterates
    <3> QED
      BY <2>2, <3>1 DEF Iterates
  <2>4. Is(f)
    <3>1. \A n \in 0 .. Len(s) :
            f[n] = IF n = 0 THEN <<>>
                   ELSE IF s[n] \in S THEN Append(f[n - 1], s[n]) ELSE f[n - 1]
      <4> SUFFICES ASSUME NEW n \in 0 .. Len(s)
                   PROVE  f[n] = IF n = 0 THEN <<>>
                                 ELSE IF s[n] \in S THEN Append(f[n - 1], s[n]) ELSE f[n - 1]
        OBVIOUS
      <4>1. CASE n = 0
        BY <2>2, <4>1 DEF Iterates
      <4>2. CASE n \in 1 .. Len(s)
        BY <2>3, <4>2
      <4> QED
        BY <1>1, <4>1, <4>2
    <3> QED
      BY <2>2, <3>1 DEF Iterates
  <2> QED
    BY <2>4
<1>3. PICK only : Is(only) /\ Only(s, S) = only[Len(s)]
  <2> DEFINE c == CHOOSE f : Is(f)
  <2>1. Is(c)
    <3> HIDE DEF Is
    <3> QED
      BY <1>2, Zenon
  <2>2. Only(s, S) = c[Len(s)]
    BY DEF Only
  <2> HIDE DEF c, Is
  <2> QED
    BY <2>1, <2>2
<1>4. DOMAIN only = 0 .. Len(s) /\ only[0] = <<>>
  BY <1>1, <1>3
<1>5. ASSUME NEW n \in 1 .. Len(s)
      PROVE  only[n] = IF s[n] \in S THEN Append(only[n - 1], s[n]) ELSE only[n - 1]
  <2>1. n \in 0 .. Len(s) /\ n # 0
    OBVIOUS
  <2> QED
    BY <1>3, <2>1
<1>6. \A n \in 0 .. Len(s) : only[n] \in Seq(X)
  <2> DEFINE T == {n \in 0 .. Len(s) : only[n] \in Seq(X)}
  <2>1. 0 \in T
    BY <1>1, <1>4
  <2>2. ASSUME NEW n \in 1 .. Len(s), n - 1 \in T PROVE n \in T
    <3>1. only[n - 1] \in Seq(X) /\ s[n] \in X /\ n \in 0 .. Len(s)
      BY <1>1, <2>2
    <3>2. Append(only[n - 1], s[n]) \in Seq(X)
      BY <3>1
    <3>3. only[n] \in Seq(X)
      BY <1>5, <3>1, <3>2
    <3> QED
      BY <3>1, <3>3
  <2>3. 0 .. Len(s) \subseteq T
    <3> HIDE DEF T
    <3> QED
      BY <1>1, <2>1, <2>2, Induction
  <2> QED
    BY <2>3
<1> QED
  <2>1. Selects(only, X, s, S)
    BY <1>3, <1>4, <1>5, <1>6 DEF Selects
  <2> QED
    BY <1>3, <2>1

\* The elements of Only(s, S) are at the places of s that g names, all of them in S.
Picks(g, t, s, n, S) ==
  /\ g \in [1 .. Len(t) -> 1 .. n]
  /\ \A k \in 1 .. Len(t) : t[k] = s[g[k]] /\ s[g[k]] \in S
  /\ \A k, l \in 1 .. Len(t) : k < l => g[k] < g[l]
  /\ \A i \in 1 .. n : s[i] \in S => \E k \in 1 .. Len(t) : g[k] = i

\* Only keeps the order: there is a growing function from its positions to those of s.
LEMMA OnlyPicks ==
  ASSUME NEW X, NEW s \in Seq(X), NEW S
  PROVE  Only(s, S) \in Seq(X) /\ \E g : Picks(g, Only(s, S), s, Len(s), S)
<1>1. PICK f : Selects(f, X, s, S) /\ f[Len(s)] = Only(s, S)
  BY OnlyRecursion
<1> DEFINE T == {n \in 0 .. Len(s) : \E g : Picks(g, f[n], s, n, S)}
<1>2. 0 \in T
  <2>1. Picks(<<>>, <<>>, s, 0, S)
    BY DEF Picks
  <2> QED
    BY <1>1, <2>1 DEF Selects
<1>3. ASSUME NEW n \in 1 .. Len(s), n - 1 \in T PROVE n \in T
  <2>1. PICK g : Picks(g, f[n - 1], s, n - 1, S)
    BY <1>3
  <2>2. f[n - 1] \in Seq(X) /\ s[n] \in X /\ n \in 0 .. Len(s)
    BY <1>1 DEF Selects
  <2>3. CASE s[n] \in S
    <3> DEFINE t == f[n - 1]
               h == [k \in 1 .. Len(t) + 1 |-> IF k = Len(t) + 1 THEN n ELSE g[k]]
    <3>1. f[n] = Append(t, s[n])
      BY <1>1, <2>3 DEF Selects
    <3>2. Len(f[n]) = Len(t) + 1 /\ f[n][Len(t) + 1] = s[n]
          /\ \A k \in 1 .. Len(t) : f[n][k] = t[k]
      BY <2>2, <3>1
    <3>3. /\ Len(t) \in Nat /\ g \in [1 .. Len(t) -> 1 .. n - 1]
          /\ \A k \in 1 .. Len(t) : t[k] = s[g[k]] /\ s[g[k]] \in S
          /\ \A k, l \in 1 .. Len(t) : k < l => g[k] < g[l]
      BY <2>1, <2>2 DEF Picks
    <3>4. /\ h \in [1 .. Len(t) + 1 -> 1 .. n]
          /\ h[Len(t) + 1] = n /\ \A k \in 1 .. Len(t) : h[k] = g[k] /\ g[k] \in 1 .. n - 1
      <4>1. ASSUME NEW k \in 1 .. Len(t) + 1 PROVE h[k] \in 1 .. n
        <5>1. CASE k = Len(t) + 1
          BY <5>1
        <5>2. CASE k \in 1 .. Len(t)
          BY <3>3, <5>2
        <5> QED
          BY <3>3, <5>1, <5>2
      <4>2. h \in [1 .. Len(t) + 1 -> 1 .. n]
        BY <4>1
      <4>3. h[Len(t) + 1] = n
        BY <3>3
      <4>4. ASSUME NEW k \in 1 .. Len(t) PROVE h[k] = g[k] /\ g[k] \in 1 .. n - 1
        <5>1. g[k] \in 1 .. n - 1
          BY <3>3
        <5>2. k \in 1 .. Len(t) + 1 /\ k # Len(t) + 1
          BY <3>3
        <5> QED
          BY <5>1, <5>2
      <4> QED
        BY <4>2, <4>3, <4>4
    <3> HIDE DEF h
    <3>5. ASSUME NEW k \in 1 .. Len(t) + 1 PROVE f[n][k] = s[h[k]] /\ s[h[k]] \in S
      <4>1. CASE k = Len(t) + 1
        BY <2>3, <3>2, <3>4, <4>1
      <4>2. CASE k \in 1 .. Len(t)
        BY <3>2, <3>3, <3>4, <4>2
      <4> QED
        BY <3>3, <4>1, <4>2
    <3>6. ASSUME NEW k \in 1 .. Len(t) + 1, NEW l \in 1 .. Len(t) + 1, k < l
          PROVE  h[k] < h[l]
      <4>1. CASE l = Len(t) + 1
        <5>1. k \in 1 .. Len(t)
          BY <3>3, <3>6, <4>1
        <5> QED
          BY <3>4, <4>1, <5>1
      <4>2. CASE l \in 1 .. Len(t)
        <5>1. k \in 1 .. Len(t)
          BY <3>3, <3>6, <4>2
        <5> QED
          BY <3>3, <3>4, <3>6, <4>2, <5>1
      <4>3. l = Len(t) + 1 \/ l \in 1 .. Len(t)
        BY <3>3
      <4> QED
        BY <4>1, <4>2, <4>3
    <3>7. ASSUME NEW i \in 1 .. n, s[i] \in S PROVE \E k \in 1 .. Len(t) + 1 : h[k] = i
      <4>1. CASE i = n
        BY <3>3, <3>4, <4>1
      <4>2. CASE i \in 1 .. n - 1
        BY <2>1, <3>3, <3>4, <3>7, <4>2 DEF Picks
      <4> QED
        BY <4>1, <4>2
    <3>8. Picks(h, f[n], s, n, S)
      BY <3>2, <3>4, <3>5, <3>6, <3>7 DEF Picks
    <3> QED
      BY <2>2, <3>8
  <2>4. CASE s[n] \notin S
    <3>1. f[n] = f[n - 1]
      BY <1>1, <2>4 DEF Selects
    <3>2. g \in [1 .. Len(f[n]) -> 1 .. n]
      BY <2>1, <2>2, <3>1 DEF Picks
    <3>3. \A i \in 1 .. n : s[i] \in S => i \in 1 .. n - 1
      BY <2>4
    <3>4. Picks(g, f[n], s, n, S)
      BY <2>1, <3>1, <3>2, <3>3 DEF Picks
    <3> QED
      BY <2>2, <3>4
  <2> QED
    BY <2>3, <2>4
<1>4. Len(s) \in T
  <2>1. Len(s) \in Nat
    OBVIOUS
  <2>2. 0 .. Len(s) \subseteq T
    <3> HIDE DEF T
    <3> QED
      BY <1>2, <1>3, <2>1, Induction
  <2> QED
    BY <2>1, <2>2
<1> QED
  BY <1>1, <1>4 DEF Selects


\* Only has the elements of s that are in S, none of them twice that is not twice in s.
LEMMA OnlyElements ==
  ASSUME NEW X, NEW s \in Seq(X), NEW S
  PROVE  /\ Only(s, S) \in Seq(X) /\ ToSet(Only(s, S)) = ToSet(s) \cap S
         /\ IsInjective(s) => IsInjective(Only(s, S))
<1> DEFINE t == Only(s, S)
<1>1. t \in Seq(X) /\ \E g : Picks(g, t, s, Len(s), S)
  BY OnlyPicks
<1> HIDE DEF t
<1>2. PICK g : Picks(g, t, s, Len(s), S)
  BY <1>1
<1>3. DOMAIN t = 1 .. Len(t) /\ DOMAIN s = 1 .. Len(s) /\ Len(t) \in Nat
  BY <1>1
<1>4. ToSet(t) = ToSet(s) \cap S
  <2>1. ASSUME NEW e \in ToSet(t) PROVE e \in ToSet(s) \cap S
    BY <1>2, <1>3, <2>1 DEF Picks, ToSet
  <2>2. ASSUME NEW e \in ToSet(s) \cap S PROVE e \in ToSet(t)
    <3>1. PICK i \in 1 .. Len(s) : s[i] = e
      BY <1>3, <2>2 DEF ToSet
    <3>2. PICK k \in 1 .. Len(t) : g[k] = i
      BY <1>2, <2>2, <3>1 DEF Picks
    <3>3. t[k] = e
      BY <1>2, <3>1, <3>2 DEF Picks
    <3> QED
      BY <1>3, <3>3 DEF ToSet
  <2> QED
    BY <2>1, <2>2
<1>5. ASSUME IsInjective(s), NEW k \in 1 .. Len(t), NEW l \in 1 .. Len(t), t[k] = t[l]
      PROVE  k = l
  <2>1. g[k] = g[l]
    BY <1>2, <1>3, <1>5 DEF Picks, IsInjective
  <2> QED
    BY <1>2, <1>3, <2>1 DEF Picks
<1>6. IsInjective(s) => IsInjective(t)
  BY <1>3, <1>5 DEF IsInjective
<1> QED
  BY <1>1, <1>4, <1>6 DEF t

\* Of two elements that are both taken the first stays the first.
LEMMA OnlyOrder ==
  ASSUME NEW X, NEW s \in Seq(X), NEW S,
         NEW i \in 1 .. Len(s), NEW j \in 1 .. Len(s), i < j, s[i] \in S, IsInjective(s),
         NEW l \in 1 .. Len(Only(s, S)), Only(s, S)[l] = s[j]
  PROVE  \E k \in 1 .. l - 1 : Only(s, S)[k] = s[i]
<1> DEFINE t == Only(s, S)
<1>1. t \in Seq(X) /\ \E g : Picks(g, t, s, Len(s), S)
  BY OnlyPicks
<1>2. l \in 1 .. Len(t) /\ t[l] = s[j]
  OBVIOUS
<1> HIDE DEF t
<1>3. PICK g : Picks(g, t, s, Len(s), S)
  BY <1>1
<1>4. PICK k \in 1 .. Len(t) : g[k] = i
  BY <1>3 DEF Picks
<1>5. g[l] = j
  <2>1. g[l] \in 1 .. Len(s) /\ s[g[l]] = s[j]
    BY <1>2, <1>3 DEF Picks
  <2> QED
    BY <2>1 DEF IsInjective
<1>6. k < l
  <2>1. Len(t) \in Nat
    BY <1>1
  <2> QED
    BY <1>2, <1>3, <1>4, <1>5, <2>1 DEF Picks
<1>7. k \in 1 .. l - 1 /\ t[k] = s[i]
  BY <1>2, <1>3, <1>4, <1>6 DEF Picks
<1> QED
  BY <1>7 DEF t


(***************************************************************************)
(* Bundles.                                                                *)
(***************************************************************************)

\* f[n] is the bundles of the first n features.
Bundling(f, X, xs) ==
  /\ f \in [0 .. Len(xs) -> Seq(SUBSET X)] /\ f[0] = <<>>
  /\ \A n \in 1 .. Len(xs) : f[n] = AddFeature(f[n - 1], xs[n])

\* The bundles c are the bundles b with x in the last one, or alone in a new one.
Takes(c, b, x) ==
  \/ /\ b # <<>> /\ Len(c) = Len(b)
     /\ \A k \in 1 .. Len(b) : c[k] = IF k = Len(b) THEN b[k] \cup {x} ELSE b[k]
  \/ /\ Len(c) = Len(b) + 1
     /\ \A k \in 1 .. Len(b) + 1 : c[k] = IF k = Len(b) + 1 THEN {x} ELSE b[k]

\* A further feature goes into the last bundle or into a new one.
LEMMA AddFeatureType ==
  ASSUME NEW X, NEW b \in Seq(SUBSET X), NEW x \in X
  PROVE  AddFeature(b, x) \in Seq(SUBSET X) /\ Takes(AddFeature(b, x), b, x)
<1>1. CASE b # <<>> /\ AddFeature(b, x) = [b EXCEPT ![Len(b)] = @ \cup {x}]
  <2> DEFINE c == [b EXCEPT ![Len(b)] = @ \cup {x}]
  <2>1. Len(b) \in Nat /\ Len(b) # 0
    BY <1>1
  <2>2. c \in Seq(SUBSET X) /\ Len(c) = Len(b)
    <3>1. b[Len(b)] \in SUBSET X
      BY <2>1
    <3> QED
      BY <2>1, <3>1
  <2>3. ASSUME NEW k \in 1 .. Len(b)
        PROVE  c[k] = IF k = Len(b) THEN b[k] \cup {x} ELSE b[k]
    <3>1. k \in DOMAIN b
      BY <2>1
    <3> QED
      BY <3>1
  <2> HIDE DEF c
  <2>4. AddFeature(b, x) = c
    BY <1>1 DEF c
  <2> QED
    BY <1>1, <2>2, <2>3, <2>4 DEF Takes
<1>2. CASE AddFeature(b, x) = Append(b, {x})
  BY <1>2 DEF Takes
<1> QED
  BY <1>1, <1>2 DEF AddFeature

\* The recursion of Bundles has a result.
LEMMA BundlesRecursion ==
  ASSUME NEW X, NEW xs \in Seq(X)
  PROVE  \E f : Bundling(f, X, xs) /\ f[Len(xs)] = Bundles(xs)
<1> DEFINE step == [p \in Seq(SUBSET X) \X (1 .. Len(xs)) |-> AddFeature(p[1], xs[p[2]])]
           Is(f) == f = [n \in 0 .. Len(xs) |->
                           IF n = 0 THEN <<>> ELSE AddFeature(f[n - 1], xs[n])]
<1>1. Len(xs) \in Nat /\ <<>> \in Seq(SUBSET X)
  OBVIOUS
<1>2. \E f : Is(f)
  <2>1. step \in [Seq(SUBSET X) \X (1 .. Len(xs)) -> Seq(SUBSET X)]
    <3>1. ASSUME NEW p \in Seq(SUBSET X) \X (1 .. Len(xs))
          PROVE  AddFeature(p[1], xs[p[2]]) \in Seq(SUBSET X)
      <4>1. p[1] \in Seq(SUBSET X) /\ xs[p[2]] \in X
        OBVIOUS
      <4> QED
        BY <4>1, AddFeatureType
    <3> QED
      BY <3>1
  <2>2. PICK f : Iterates(f, Seq(SUBSET X), <<>>, Len(xs), step)
    <3> HIDE DEF step
    <3> QED
      BY <1>1, <2>1, Iteration
  <2>3. ASSUME NEW n \in 1 .. Len(xs)
        PROVE  f[n] = AddFeature(f[n - 1], xs[n])
    <3>1. f[n - 1] \in Seq(SUBSET X)
      BY <1>1, <2>2 DEF Iterates
    <3> QED
      BY <2>2, <3>1 DEF Iterates
  <2>4. Is(f)
    <3>1. \A n \in 0 .. Len(xs) :
            f[n] = IF n = 0 THEN <<>> ELSE AddFeature(f[n - 1], xs[n])
      BY <2>2, <2>3 DEF Iterates
    <3> QED
      BY <2>2, <3>1 DEF Iterates
  <2> QED
    BY <2>4
<1>3. PICK bundles : Is(bundles) /\ Bundles(xs) = bundles[Len(xs)]
  <2> DEFINE c == CHOOSE f : Is(f)
  <2>1. Is(c)
    <3> HIDE DEF Is
    <3> QED
      BY <1>2, Zenon
  <2>2. Bundles(xs) = c[Len(xs)]
    BY DEF Bundles
  <2> HIDE DEF c, Is
  <2> QED
    BY <2>1, <2>2
<1>4. DOMAIN bundles = 0 .. Len(xs) /\ bundles[0] = <<>>
  BY <1>1, <1>3
<1>5. ASSUME NEW n \in 1 .. Len(xs)
      PROVE  bundles[n] = AddFeature(bundles[n - 1], xs[n])
  <2>1. n \in 0 .. Len(xs) /\ n # 0
    OBVIOUS
  <2> QED
    BY <1>3, <2>1
<1>6. \A n \in 0 .. Len(xs) : bundles[n] \in Seq(SUBSET X)
  <2> DEFINE T == {n \in 0 .. Len(xs) : bundles[n] \in Seq(SUBSET X)}
  <2>1. 0 \in T
    BY <1>1, <1>4
  <2>2. ASSUME NEW n \in 1 .. Len(xs), n - 1 \in T PROVE n \in T
    <3>1. bundles[n - 1] \in Seq(SUBSET X) /\ xs[n] \in X /\ n \in 0 .. Len(xs)
      BY <1>1, <2>2
    <3>2. AddFeature(bundles[n - 1], xs[n]) \in Seq(SUBSET X)
      BY <3>1, AddFeatureType
    <3>3. bundles[n] \in Seq(SUBSET X)
      BY <1>5, <3>2
    <3> QED
      BY <3>1, <3>3
  <2>3. 0 .. Len(xs) \subseteq T
    <3> HIDE DEF T
    <3> QED
      BY <1>1, <2>1, <2>2, Induction
  <2> QED
    BY <2>3
<1> QED
  <2>1. Bundling(bundles, X, xs)
    BY <1>3, <1>4, <1>5, <1>6 DEF Bundling
  <2> QED
    BY <1>3, <2>1

\* The bundles b of the first n of the features xs: none is empty, they are about those
\* features only, and, as no feature is there twice, no two are about the same.
Divides(b, xs, n) ==
  /\ \A k \in 1 .. Len(b) : b[k] # {} /\ \A x \in b[k] : \E i \in 1 .. n : xs[i] = x
  /\ \A k, l \in 1 .. Len(b) : k # l => b[k] \cap b[l] = {}

\* No bundle is empty, and none shares a feature with another (_build_feature_bundles).
LEMMA BundlesDivide ==
  ASSUME NEW X, NEW xs \in Seq(X), IsInjective(xs)
  PROVE  Bundles(xs) \in Seq(SUBSET X) /\ Divides(Bundles(xs), xs, Len(xs))
<1>1. PICK f : Bundling(f, X, xs) /\ f[Len(xs)] = Bundles(xs)
  BY BundlesRecursion
<1> DEFINE T == {n \in 0 .. Len(xs) : Divides(f[n], xs, n)}
<1>2. 0 \in T
  BY <1>1 DEF Bundling, Divides
<1>3. ASSUME NEW n \in 1 .. Len(xs), n - 1 \in T PROVE n \in T
  <2>1. /\ f[n - 1] \in Seq(SUBSET X) /\ xs[n] \in X /\ n \in 0 .. Len(xs)
        /\ f[n] = AddFeature(f[n - 1], xs[n])
    BY <1>1 DEF Bundling
  <2>2. Divides(f[n - 1], xs, n - 1)
    BY <1>3
  <2>3. PICK b \in Seq(SUBSET X) : b = f[n - 1]
    BY <2>1
  <2>4. ASSUME NEW k \in 1 .. Len(b) PROVE xs[n] \notin b[k]
    <3>1. SUFFICES ASSUME xs[n] \in b[k] PROVE FALSE
      OBVIOUS
    <3>2. PICK i \in 1 .. n - 1 : xs[i] = xs[n]
      BY <2>2, <2>3, <3>1 DEF Divides
    <3> QED
      BY <3>2 DEF IsInjective
  <2>5. \A k \in 1 .. Len(b) : b[k] # {} /\ \A x \in b[k] : \E i \in 1 .. n : xs[i] = x
    BY <2>2, <2>3 DEF Divides
  <2>6. \A k, l \in 1 .. Len(b) : k # l => b[k] \cap b[l] = {}
    BY <2>2, <2>3 DEF Divides
  <2>7. PICK c \in Seq(SUBSET X) : c = f[n]
    BY <2>1, AddFeatureType
  <2>8. \E i \in 1 .. n : xs[i] = xs[n]
    OBVIOUS
  <2>9. CASE /\ b # <<>> /\ Len(c) = Len(b)
             /\ \A k \in 1 .. Len(b) : c[k] = IF k = Len(b) THEN b[k] \cup {xs[n]} ELSE b[k]
    <3>1. \A k \in 1 .. Len(c) : c[k] # {} /\ \A x \in c[k] : \E i \in 1 .. n : xs[i] = x
      <4> TAKE k \in 1 .. Len(c)
      <4>1. k \in 1 .. Len(b) /\ (c[k] = b[k] \cup {xs[n]} \/ c[k] = b[k])
        BY <2>9
      <4>2. b[k] # {} /\ \A x \in b[k] : \E i \in 1 .. n : xs[i] = x
        BY <2>5, <4>1
      <4> QED
        BY <2>8, <4>1, <4>2
    <3>2. ASSUME NEW k \in 1 .. Len(c), NEW l \in 1 .. Len(c), k # l
          PROVE  c[k] \cap c[l] = {}
      <4>1. b[k] \cap b[l] = {} /\ xs[n] \notin b[k] /\ xs[n] \notin b[l]
        BY <2>4, <2>6, <2>9, <3>2
      <4>2. c[k] \subseteq b[k] \cup {xs[n]} /\ c[l] \subseteq b[l] \cup {xs[n]}
            /\ (c[k] = b[k] \/ c[l] = b[l])
        BY <2>9, <3>2
      <4> QED
        BY <4>1, <4>2
    <3> QED
      BY <2>1, <2>7, <3>1, <3>2 DEF Divides
  <2>10. CASE /\ Len(c) = Len(b) + 1
              /\ \A k \in 1 .. Len(b) + 1 : c[k] = IF k = Len(b) + 1 THEN {xs[n]} ELSE b[k]
    <3>1. Len(b) \in Nat /\ \A k \in 1 .. Len(c) : k = Len(b) + 1 \/ k \in 1 .. Len(b)
      BY <2>10
    <3>2. ASSUME NEW k \in 1 .. Len(c)
          PROVE  c[k] # {} /\ \A x \in c[k] : \E i \in 1 .. n : xs[i] = x
      <4>1. CASE k = Len(b) + 1
        BY <2>8, <2>10, <3>1, <4>1
      <4>2. CASE k \in 1 .. Len(b)
        <5>1. c[k] = b[k]
          BY <2>10, <3>1, <4>2
        <5> QED
          BY <2>5, <4>2, <5>1
      <4> QED
        BY <3>1, <4>1, <4>2
    <3>3. ASSUME NEW k \in 1 .. Len(c), NEW l \in 1 .. Len(c), k # l
          PROVE  c[k] \cap c[l] = {}
      BY <2>4, <2>6, <2>10, <3>1, <3>3
    <3> QED
      BY <2>1, <2>7, <3>2, <3>3 DEF Divides
  <2>11. c = AddFeature(b, xs[n])
    BY <2>1, <2>3, <2>7
  <2>12. xs[n] \in X
    BY <2>1
  <2>13. Takes(c, b, xs[n])
    BY <2>11, <2>12, AddFeatureType
  <2> QED
    BY <2>9, <2>10, <2>13 DEF Takes
<1>4. 0 .. Len(xs) \subseteq T
  <2>1. Len(xs) \in Nat
    OBVIOUS
  <2> HIDE DEF T
  <2> QED
    BY <1>2, <1>3, <2>1, Induction
<1> QED
  BY <1>1, <1>4 DEF Bundling

\* What a bundle may be: of short features at most MaxBundle, or one long feature.
Fits(bundle) ==
  /\ IsFiniteSet(bundle) /\ Cardinality(bundle) <= MaxBundle
  /\ \A x \in bundle \cap Long : bundle = {x}

\* A further feature leaves bundles that fit, and is in one of them.
LEMMA AddFeatureFits ==
  ASSUME NEW X, NEW b \in Seq(SUBSET X), NEW x \in X, \A k \in 1 .. Len(b) : Fits(b[k])
  PROVE  /\ \A k \in 1 .. Len(AddFeature(b, x)) : Fits(AddFeature(b, x)[k])
         /\ \E k \in 1 .. Len(AddFeature(b, x)) : x \in AddFeature(b, x)[k]
         /\ Len(b) <= Len(AddFeature(b, x))
         /\ \A k \in 1 .. Len(b) : b[k] \subseteq AddFeature(b, x)[k]
<1>1. MaxBundle \in Nat \ {0} /\ Len(b) \in Nat
  BY MaxBundleAssumption
<1>2. CASE b # <<>> /\ x \notin Long /\ TakesMore(Last(b))
  <2> DEFINE last == b[Len(b)]
             c == [b EXCEPT ![Len(b)] = @ \cup {x}]
  <2>1. Len(b) \in 1 .. Len(b) /\ Last(b) = last /\ AddFeature(b, x) = c
    BY <1>1, <1>2 DEF AddFeature, Last
  <2>2. /\ Len(c) = Len(b)
        /\ \A k \in 1 .. Len(b) : c[k] = IF k = Len(b) THEN last \cup {x} ELSE b[k]
    BY <2>1
  <2>3. Fits(last)
    BY <2>1
  <2>4. last \cap Long = {} /\ Cardinality(last) < MaxBundle
    BY <1>2, <2>1 DEF TakesMore
  <2> HIDE DEF c, last
  <2>5. /\ IsFiniteSet(last \cup {x})
        /\ Cardinality(last \cup {x}) =
             IF x \in last THEN Cardinality(last) ELSE Cardinality(last) + 1
    BY <2>3, FS_AddElement DEF Fits
  <2>6. Cardinality(last) \in Nat
    BY <2>3, FS_CardinalityType DEF Fits
  <2>7. Cardinality(last \cup {x}) <= MaxBundle
    BY <1>1, <2>4, <2>5, <2>6
  <2>8. Fits(last \cup {x})
    BY <1>2, <2>4, <2>5, <2>7 DEF Fits
  <2>9. \A k \in 1 .. Len(c) : Fits(c[k])
    BY <2>2, <2>8
  <2>10. x \in c[Len(b)] /\ Len(b) \in 1 .. Len(c)
    BY <2>1, <2>2
  <2>11. \A k \in 1 .. Len(b) : b[k] \subseteq c[k]
    BY <2>2 DEF last
  <2>12. Len(b) <= Len(c)
    BY <1>1, <2>2
  <2> QED
    BY <2>1, <2>9, <2>10, <2>11, <2>12
<1>3. CASE ~ (b # <<>> /\ x \notin Long /\ TakesMore(Last(b)))
  <2> DEFINE c == Append(b, {x})
  <2>1. AddFeature(b, x) = c
    BY <1>3 DEF AddFeature
  <2>2. /\ Len(c) = Len(b) + 1
        /\ \A k \in 1 .. Len(b) + 1 : c[k] = IF k = Len(b) + 1 THEN {x} ELSE b[k]
    OBVIOUS
  <2>3. Fits({x})
    <3>1. IsFiniteSet({x}) /\ Cardinality({x}) = 1
      BY FS_Singleton
    <3> QED
      BY <3>1, <1>1 DEF Fits
  <2> HIDE DEF c
  <2>4. \A k \in 1 .. Len(c) : Fits(c[k])
    <3> TAKE k \in 1 .. Len(c)
    <3>1. k = Len(b) + 1 \/ k \in 1 .. Len(b)
      BY <1>1, <2>2
    <3> QED
      BY <1>1, <2>2, <2>3, <3>1
  <2>5. x \in c[Len(b) + 1] /\ Len(b) + 1 \in 1 .. Len(c)
    BY <1>1, <2>2
  <2>6. \A k \in 1 .. Len(b) : b[k] \subseteq c[k]
    BY <1>1, <2>2
  <2>7. Len(b) <= Len(c)
    BY <1>1, <2>2
  <2> QED
    BY <2>1, <2>4, <2>5, <2>6, <2>7
<1> QED
  BY <1>2, <1>3

\* The bundles b fit, and the first n of the features xs are in them.
Covers(b, xs, n) ==
  /\ \A k \in 1 .. Len(b) : Fits(b[k])
  /\ \A i \in 1 .. n : \E k \in 1 .. Len(b) : xs[i] \in b[k]

\* For any threshold, size of a bundle and list of features, each feature is in one
\* bundle and in no other, no bundle is empty or has more than max_bundle_size
\* features, and a long feature is alone (_build_feature_bundles).
THEOREM FeaturesAreDivided ==
  ASSUME NEW X, NEW xs \in Seq(X), IsInjective(xs)
  PROVE  LET bundles == Bundles(xs)
         IN  /\ \A i \in 1 .. Len(xs) : \E k \in 1 .. Len(bundles) :
                  /\ xs[i] \in bundles[k]
                  /\ \A l \in 1 .. Len(bundles) : xs[i] \in bundles[l] => l = k
             /\ \A k \in 1 .. Len(bundles) :
                  /\ bundles[k] # {} /\ Cardinality(bundles[k]) <= MaxBundle
                  /\ bundles[k] \subseteq {xs[i] : i \in 1 .. Len(xs)}
                  /\ \A x \in bundles[k] \cap Long : bundles[k] = {x}
<1>1. PICK f : Bundling(f, X, xs) /\ f[Len(xs)] = Bundles(xs)
  BY BundlesRecursion
<1> DEFINE T == {n \in 0 .. Len(xs) : Covers(f[n], xs, n)}
<1>2. 0 \in T
  BY <1>1 DEF Bundling, Covers
<1>3. ASSUME NEW n \in 1 .. Len(xs), n - 1 \in T PROVE n \in T
  <2>1. /\ f[n - 1] \in Seq(SUBSET X) /\ xs[n] \in X /\ n \in 0 .. Len(xs)
        /\ f[n] = AddFeature(f[n - 1], xs[n])
    BY <1>1 DEF Bundling
  <2>2. Covers(f[n - 1], xs, n - 1)
    BY <1>3
  <2>3. PICK b \in Seq(SUBSET X) : b = f[n - 1]
    BY <2>1
  <2>4. PICK c : c = AddFeature(b, xs[n])
    OBVIOUS
  <2>5. /\ \A k \in 1 .. Len(c) : Fits(c[k])
        /\ \E k \in 1 .. Len(c) : xs[n] \in c[k]
        /\ Len(b) <= Len(c) /\ \A k \in 1 .. Len(b) : b[k] \subseteq c[k]
    <3>1. \A k \in 1 .. Len(b) : Fits(b[k])
      BY <2>2, <2>3 DEF Covers
    <3> QED
      BY <2>1, <2>4, <3>1, AddFeatureFits
  <2>6. ASSUME NEW i \in 1 .. n PROVE \E k \in 1 .. Len(c) : xs[i] \in c[k]
    <3>1. CASE i = n
      BY <2>5, <3>1
    <3>2. CASE i # n
      <4>1. i \in 1 .. n - 1
        BY <3>2
      <4>2. PICK k \in 1 .. Len(b) : xs[i] \in b[k]
        BY <2>2, <2>3, <4>1 DEF Covers
      <4>3. Len(b) \in Nat /\ Len(c) \in Nat
        BY <2>1, <2>4, AddFeatureType
      <4>4. k \in 1 .. Len(c)
        BY <2>5, <4>2, <4>3
      <4> QED
        BY <2>5, <4>2, <4>4
    <3> QED
      BY <3>1, <3>2
  <2>7. Covers(c, xs, n)
    BY <2>5, <2>6 DEF Covers
  <2> QED
    BY <2>1, <2>3, <2>4, <2>7
<1>4. 0 .. Len(xs) \subseteq T
  <2>1. Len(xs) \in Nat
    OBVIOUS
  <2> HIDE DEF T
  <2> QED
    BY <1>2, <1>3, <2>1, Induction
<1>5. Covers(Bundles(xs), xs, Len(xs))
  BY <1>1, <1>4
<1>6. Divides(Bundles(xs), xs, Len(xs))
  BY BundlesDivide
<1> DEFINE bundles == Bundles(xs)
<1> HIDE DEF bundles
<1>7. ASSUME NEW i \in 1 .. Len(xs)
      PROVE  \E k \in 1 .. Len(bundles) :
               xs[i] \in bundles[k] /\ \A l \in 1 .. Len(bundles) : xs[i] \in bundles[l] => l = k
  <2>1. PICK k \in 1 .. Len(bundles) : xs[i] \in bundles[k]
    BY <1>5 DEF Covers, bundles
  <2>2. \A l \in 1 .. Len(bundles) : l # k => bundles[l] \cap bundles[k] = {}
    BY <1>6 DEF Divides, bundles
  <2> QED
    BY <2>1, <2>2
<1>8. ASSUME NEW k \in 1 .. Len(bundles)
      PROVE  /\ bundles[k] # {} /\ Cardinality(bundles[k]) <= MaxBundle
             /\ bundles[k] \subseteq {xs[i] : i \in 1 .. Len(xs)}
             /\ \A x \in bundles[k] \cap Long : bundles[k] = {x}
  <2>1. bundles[k] # {} /\ \A x \in bundles[k] : \E i \in 1 .. Len(xs) : xs[i] = x
    BY <1>6 DEF Divides, bundles
  <2>2. Fits(bundles[k])
    BY <1>5 DEF Covers, bundles
  <2> QED
    BY <2>1, <2>2 DEF Fits
<1> QED
  BY <1>7, <1>8 DEF bundles


(***************************************************************************)
(* The features of a summary.                                              *)
(***************************************************************************)

\* f[n] is the first n sequences in one.
Flattening(f, X, seqs) ==
  /\ f \in [1 .. Len(seqs) -> Seq(X)]
  /\ \A n \in 1 .. Len(seqs) : f[n] = IF n = 1 THEN seqs[n] ELSE f[n - 1] \o seqs[n]

\* The recursion of FlattenSeq, a fold, has a result.
LEMMA FlattenRecursion ==
  ASSUME NEW X, NEW seqs \in Seq(Seq(X)), Len(seqs) # 0
  PROVE  \E f : Flattening(f, X, seqs) /\ f[Len(seqs)] = FlattenSeq(seqs)
<1> DEFINE step == [p \in Seq(X) \X (1 .. Len(seqs)) |-> p[1] \o seqs[p[2]]]
           Is(f) == f = [i \in 1 .. Len(seqs) |->
                           IF i = 1 THEN seqs[i] ELSE f[i - 1] \o seqs[i]]
<1>1. Len(seqs) \in Nat \ {0} /\ <<>> \in Seq(X)
  OBVIOUS
<1>2. \E f : Is(f)
  <2>1. step \in [Seq(X) \X (1 .. Len(seqs)) -> Seq(X)]
    <3>1. ASSUME NEW p \in Seq(X) \X (1 .. Len(seqs))
          PROVE  p[1] \o seqs[p[2]] \in Seq(X)
      <4>1. p[1] \in Seq(X) /\ seqs[p[2]] \in Seq(X)
        OBVIOUS
      <4> QED
        BY <4>1
    <3> QED
      BY <3>1
  <2>2. PICK g : Iterates(g, Seq(X), <<>>, Len(seqs), step)
    <3> HIDE DEF step
    <3> QED
      BY <1>1, <2>1, Iteration
  <2>3. ASSUME NEW n \in 1 .. Len(seqs)
        PROVE  g[n] = IF n = 1 THEN seqs[n] ELSE g[n - 1] \o seqs[n]
    <3>1. g[n - 1] \in Seq(X) /\ seqs[n] \in Seq(X)
      <4>1. n - 1 \in 0 .. Len(seqs)
        BY <1>1
      <4>2. g \in [0 .. Len(seqs) -> Seq(X)]
        BY <2>2 DEF Iterates
      <4> QED
        BY <4>1, <4>2
    <3>2. g[n] = g[n - 1] \o seqs[n]
      BY <2>2, <3>1 DEF Iterates
    <3>3. CASE n = 1
      <4>1. n - 1 = 0 /\ g[0] = <<>>
        BY <2>2, <3>3 DEF Iterates
      <4>2. g[n] = <<>> \o seqs[n]
        BY <3>2, <4>1
      <4> QED
        BY <3>1, <3>3, <4>2
    <3> QED
      BY <3>2, <3>3
  <2> DEFINE f == [n \in 1 .. Len(seqs) |-> g[n]]
  <2>4. Is(f)
    <3>1. ASSUME NEW n \in 1 .. Len(seqs)
          PROVE  f[n] = IF n = 1 THEN seqs[n] ELSE f[n - 1] \o seqs[n]
      <4>1. CASE n = 1
        BY <2>3, <4>1
      <4>2. CASE n # 1
        <5>1. f[n] = g[n] /\ f[n - 1] = g[n - 1]
          BY <1>1, <4>2
        <5> QED
          BY <2>3, <4>2, <5>1
      <4> QED
        BY <4>1, <4>2
    <3> HIDE DEF f
    <3>2. DOMAIN f = 1 .. Len(seqs) /\ f = [n \in 1 .. Len(seqs) |-> f[n]]
      BY DEF f
    <3> QED
      BY <3>1, <3>2
  <2> HIDE DEF f
  <2> QED
    BY <2>4
<1>3. PICK flatten : Is(flatten) /\ FlattenSeq(seqs) = flatten[Len(seqs)]
  <2> DEFINE c == CHOOSE f : Is(f)
  <2>1. Is(c)
    <3> HIDE DEF Is
    <3> QED
      BY <1>2, Zenon
  <2>2. FlattenSeq(seqs) = c[Len(seqs)]
    BY DEF FlattenSeq
  <2> HIDE DEF c, Is
  <2> QED
    BY <2>1, <2>2
<1>4. DOMAIN flatten = 1 .. Len(seqs)
  BY <1>3
<1>5. ASSUME NEW n \in 1 .. Len(seqs)
      PROVE  flatten[n] = IF n = 1 THEN seqs[n] ELSE flatten[n - 1] \o seqs[n]
  BY <1>3
<1>6. \A n \in 1 .. Len(seqs) : flatten[n] \in Seq(X)
  <2> DEFINE T == {n \in 0 .. Len(seqs) : n = 0 \/ flatten[n] \in Seq(X)}
  <2>1. 0 \in T
    BY <1>1
  <2>2. ASSUME NEW n \in 1 .. Len(seqs), n - 1 \in T PROVE n \in T
    <3>1. seqs[n] \in Seq(X) /\ n \in 0 .. Len(seqs) /\ (n = 1 \/ flatten[n - 1] \in Seq(X))
      BY <1>1, <2>2
    <3>2. CASE n = 1
      BY <1>5, <3>1, <3>2
    <3>3. CASE n # 1
      <4>1. flatten[n - 1] \o seqs[n] \in Seq(X)
        BY <3>1, <3>3
      <4> QED
        BY <1>5, <3>1, <3>3, <4>1
    <3> QED
      BY <3>2, <3>3
  <2>3. 0 .. Len(seqs) \subseteq T
    <3> HIDE DEF T
    <3> QED
      BY <1>1, <2>1, <2>2, Induction
  <2> QED
    BY <1>1, <2>3
<1> QED
  <2>1. Flattening(flatten, X, seqs)
    BY <1>3, <1>4, <1>5, <1>6 DEF Flattening
  <2> QED
    BY <1>3, <2>1

\* t has the elements of the first n sequences, each once.
Joins(t, seqs, n) ==
  /\ \A e : (\E k \in 1 .. Len(t) : t[k] = e) <=>
              \E i \in 1 .. n : \E j \in 1 .. Len(seqs[i]) : seqs[i][j] = e
  /\ \A k, l \in 1 .. Len(t) : t[k] = t[l] => k = l

\* One sequence more, with other elements.
LEMMA JoinsConcat ==
  ASSUME NEW X, NEW seqs \in Seq(Seq(X)), NEW n \in 1 .. Len(seqs), NEW t \in Seq(X),
         IsInjective(seqs[n]), Joins(t, seqs, n - 1),
         \A i \in 1 .. n - 1 : \A j \in 1 .. Len(seqs[i]) :
           \A k \in 1 .. Len(seqs[n]) : seqs[i][j] # seqs[n][k]
  PROVE  Joins(t \o seqs[n], seqs, n)
<1> DEFINE u == seqs[n]
<1>1. u \in Seq(X) /\ Len(t) \in Nat /\ Len(u) \in Nat /\ DOMAIN u = 1 .. Len(u)
  OBVIOUS
<1> HIDE DEF u
<1>2. PICK c \in Seq(X) : c = t \o u
  <2>1. t \o u \in Seq(X)
    BY <1>1
  <2> QED
    BY <2>1
<1>3. /\ Len(c) = Len(t) + Len(u)
      /\ \A k \in 1 .. Len(t) : c[k] = t[k]
      /\ \A k \in 1 .. Len(u) : c[Len(t) + k] = u[k]
  BY <1>1, <1>2
<1>4. \A k \in 1 .. Len(c) : k \in 1 .. Len(t) \/ \E l \in 1 .. Len(u) : k = Len(t) + l
  <2> SUFFICES ASSUME NEW k \in 1 .. Len(c), k \notin 1 .. Len(t)
               PROVE  \E l \in 1 .. Len(u) : k = Len(t) + l
    OBVIOUS
  <2>1. k - Len(t) \in 1 .. Len(u) /\ k = Len(t) + (k - Len(t))
    BY <1>1, <1>3
  <2> QED
    BY <2>1
<1>5. ASSUME NEW e
      PROVE  (\E k \in 1 .. Len(c) : c[k] = e) <=>
               \E i \in 1 .. n : \E j \in 1 .. Len(seqs[i]) : seqs[i][j] = e
  <2>1. (\E k \in 1 .. Len(c) : c[k] = e) <=>
          (\E k \in 1 .. Len(t) : t[k] = e) \/ \E k \in 1 .. Len(u) : u[k] = e
    <3>1. ASSUME NEW k \in 1 .. Len(t) PROVE k \in 1 .. Len(c)
      BY <1>1, <1>3
    <3>2. ASSUME NEW k \in 1 .. Len(u) PROVE Len(t) + k \in 1 .. Len(c)
      BY <1>1, <1>3
    <3>3. ASSUME NEW k \in 1 .. Len(c), c[k] = e
          PROVE  (\E l \in 1 .. Len(t) : t[l] = e) \/ \E l \in 1 .. Len(u) : u[l] = e
      BY <1>3, <1>4, <3>3
    <3>4. ASSUME NEW k \in 1 .. Len(t), t[k] = e PROVE \E l \in 1 .. Len(c) : c[l] = e
      BY <1>3, <3>1, <3>4
    <3>5. ASSUME NEW k \in 1 .. Len(u), u[k] = e PROVE \E l \in 1 .. Len(c) : c[l] = e
      BY <1>3, <3>2, <3>5
    <3> QED
      BY <3>3, <3>4, <3>5
  <2>2. (\E k \in 1 .. Len(t) : t[k] = e) <=>
          \E i \in 1 .. n - 1 : \E j \in 1 .. Len(seqs[i]) : seqs[i][j] = e
    BY DEF Joins
  <2>3. \A i : i \in 1 .. n <=> i \in 1 .. n - 1 \/ i = n
    OBVIOUS
  <2> QED
    BY <2>1, <2>2, <2>3 DEF u
<1>6. ASSUME NEW k \in 1 .. Len(t), NEW l \in 1 .. Len(u) PROVE t[k] # u[l]
  <2>1. PICK i \in 1 .. n - 1 : \E j \in 1 .. Len(seqs[i]) : seqs[i][j] = t[k]
    BY DEF Joins
  <2> QED
    BY <2>1 DEF u
<1>7. ASSUME NEW k \in 1 .. Len(c), NEW l \in 1 .. Len(c), c[k] = c[l] PROVE k = l
  <2>1. CASE k \in 1 .. Len(t) /\ l \in 1 .. Len(t)
    BY <1>3, <1>7, <2>1 DEF Joins
  <2>2. CASE k \in 1 .. Len(t) /\ l \notin 1 .. Len(t)
    BY <1>3, <1>4, <1>6, <1>7, <2>2
  <2>3. CASE k \notin 1 .. Len(t) /\ l \in 1 .. Len(t)
    BY <1>3, <1>4, <1>6, <1>7, <2>3
  <2>4. CASE k \notin 1 .. Len(t) /\ l \notin 1 .. Len(t)
    <3>1. PICK a \in 1 .. Len(u), b \in 1 .. Len(u) : k = Len(t) + a /\ l = Len(t) + b
      BY <1>4, <2>4
    <3>2. u[a] = u[b]
      BY <1>3, <1>7, <3>1
    <3> QED
      BY <1>1, <3>1, <3>2 DEF IsInjective, u
  <2> QED
    BY <2>1, <2>2, <2>3, <2>4
<1> QED
  BY <1>2, <1>5, <1>7 DEF Joins, u

\* FlattenSeq has the elements of each sequence, none twice.
LEMMA FlattenJoins ==
  ASSUME NEW X, NEW seqs \in Seq(Seq(X)), \A i \in 1 .. Len(seqs) : IsInjective(seqs[i]),
         \A i, l \in 1 .. Len(seqs) : i < l =>
           \A j \in 1 .. Len(seqs[i]) : \A k \in 1 .. Len(seqs[l]) : seqs[i][j] # seqs[l][k]
  PROVE  FlattenSeq(seqs) \in Seq(X) /\ Joins(FlattenSeq(seqs), seqs, Len(seqs))
<1>1. CASE Len(seqs) = 0
  BY <1>1 DEF FlattenSeq, Joins
<1>2. CASE Len(seqs) # 0
  <2>1. PICK f : Flattening(f, X, seqs) /\ f[Len(seqs)] = FlattenSeq(seqs)
    BY <1>2, FlattenRecursion
  <2>2. Len(seqs) \in Nat \ {0}
    BY <1>2
  <2> DEFINE T == {n \in 0 .. Len(seqs) : n = 0 \/ Joins(f[n], seqs, n)}
  <2>3. 0 \in T
    BY <2>2
  <2>4. ASSUME NEW n \in 1 .. Len(seqs), n - 1 \in T PROVE n \in T
    <3>1. seqs[n] \in Seq(X) /\ IsInjective(seqs[n])
      OBVIOUS
    <3>2. \A i \in 1 .. n - 1 : \A j \in 1 .. Len(seqs[i]) :
            \A k \in 1 .. Len(seqs[n]) : seqs[i][j] # seqs[n][k]
      <4>1. \A i \in 1 .. n - 1 : i \in 1 .. Len(seqs) /\ i < n
        BY <2>2
      <4> QED
        BY <4>1
    <3>3. CASE n = 1
      <4>1. Joins(<<>>, seqs, 0)
        BY DEF Joins
      <4>2. n - 1 = 0 /\ <<>> \in Seq(X)
        BY <3>3
      <4>3. Joins(<<>> \o seqs[n], seqs, n)
        BY <3>1, <3>2, <4>1, <4>2, JoinsConcat
      <4>4. <<>> \o seqs[n] = seqs[n] /\ f[n] = seqs[n]
        <5>1. f[n] = seqs[n]
          BY <2>1, <3>3 DEF Flattening
        <5> QED
          BY <3>1, <5>1
      <4> QED
        BY <2>2, <4>3, <4>4
    <3>4. CASE n # 1
      <4>1. f[n - 1] \in Seq(X) /\ f[n] = f[n - 1] \o seqs[n]
        <5>1. n - 1 \in 1 .. Len(seqs)
          BY <2>2, <3>4
        <5> QED
          BY <2>1, <3>4, <5>1 DEF Flattening
      <4>2. Joins(f[n - 1], seqs, n - 1)
        BY <2>4, <3>4
      <4>3. Joins(f[n - 1] \o seqs[n], seqs, n)
        BY <3>1, <3>2, <4>1, <4>2, JoinsConcat
      <4>4. Joins(f[n], seqs, n)
        BY <4>1, <4>3
      <4> QED
        BY <2>2, <4>4
    <3> QED
      BY <3>3, <3>4
  <2>5. 0 .. Len(seqs) \subseteq T
    <3> HIDE DEF T
    <3> QED
      BY <2>2, <2>3, <2>4, Induction
  <2> QED
    BY <2>1, <2>2, <2>5 DEF Flattening
<1> QED
  BY <1>1, <1>2

\* The features of a summary, each once, with its domain.
Pairs(summary) ==
  UNION {{<<part.domain, name>> : name \in ToSet(part.features)} : part \in ToSet(summary)}

\* The features of a summary are its pairs of a domain and a feature, none twice.
LEMMA FeaturesPairs ==
  ASSUME NEW summary, IsSummary(summary)
  PROVE  /\ FeaturesOf(summary) \in Seq(Pairs(summary)) /\ IsInjective(FeaturesOf(summary))
         /\ ToSet(FeaturesOf(summary)) = Pairs(summary)
<1> DEFINE X == Pairs(summary)
           seqs == [i \in DOMAIN summary |->
                      [j \in DOMAIN summary[i].features |->
                        <<summary[i].domain, summary[i].features[j]>>]]
<1>1. summary \in Seq(ToSet(summary)) /\ DOMAIN summary = 1 .. Len(summary) /\ Len(summary) \in Nat
  BY DEF IsSummary
<1>2. ASSUME NEW i \in DOMAIN summary
      PROVE  /\ summary[i].features \in Seq(ToSet(summary[i].features))
             /\ IsInjective(summary[i].features)
             /\ DOMAIN summary[i].features = 1 .. Len(summary[i].features)
             /\ Len(summary[i].features) \in Nat
  <2>1. summary[i] \in ToSet(summary)
    BY DEF ToSet
  <2> QED
    BY <2>1 DEF IsSummary
<1>3. ASSUME NEW i \in DOMAIN summary, NEW j \in DOMAIN summary[i].features
      PROVE  <<summary[i].domain, summary[i].features[j]>> \in X
  <2>1. summary[i] \in ToSet(summary) /\ summary[i].features[j] \in ToSet(summary[i].features)
    BY DEF ToSet
  <2> QED
    BY <2>1 DEF Pairs
<1>4. ASSUME NEW i \in DOMAIN summary
      PROVE  /\ seqs[i] \in Seq(X) /\ Len(seqs[i]) = Len(summary[i].features)
             /\ \A j \in 1 .. Len(seqs[i]) :
                  seqs[i][j] = <<summary[i].domain, summary[i].features[j]>>
  <2> DEFINE t == [j \in 1 .. Len(summary[i].features) |->
                     <<summary[i].domain, summary[i].features[j]>>]
  <2>1. seqs[i] = t
    BY <1>2
  <2>2. t \in Seq(X) /\ Len(t) = Len(summary[i].features)
    <3>1. t \in [1 .. Len(summary[i].features) -> X]
      BY <1>2, <1>3
    <3> HIDE DEF t, X
    <3> QED
      BY <1>2, <3>1
  <2>3. \A j \in 1 .. Len(t) : t[j] = <<summary[i].domain, summary[i].features[j]>>
    BY <2>2
  <2> HIDE DEF t, seqs, X
  <2> QED
    BY <2>1, <2>2, <2>3
<1>5. seqs \in Seq(Seq(X)) /\ Len(seqs) = Len(summary)
  <2>1. seqs \in [1 .. Len(summary) -> Seq(X)]
    BY <1>1, <1>4
  <2> HIDE DEF seqs
  <2> QED
    BY <1>1, <2>1
<1>6. FeaturesOf(summary) = FlattenSeq(seqs)
  BY DEF FeaturesOf
<1> HIDE DEF X, seqs
<1>7. ASSUME NEW i \in 1 .. Len(seqs) PROVE IsInjective(seqs[i])
  <2>1. i \in DOMAIN summary /\ DOMAIN seqs[i] = 1 .. Len(seqs[i])
    BY <1>1, <1>4, <1>5
  <2>2. ASSUME NEW j \in 1 .. Len(seqs[i]), NEW k \in 1 .. Len(seqs[i]), seqs[i][j] = seqs[i][k]
        PROVE  j = k
    <3>1. summary[i].features[j] = summary[i].features[k]
      BY <1>4, <2>1, <2>2
    <3> QED
      BY <1>2, <1>4, <2>1, <3>1 DEF IsInjective
  <2> QED
    BY <2>1, <2>2 DEF IsInjective
<1>8. ASSUME NEW i \in 1 .. Len(seqs), NEW l \in 1 .. Len(seqs), i < l,
             NEW j \in 1 .. Len(seqs[i]), NEW k \in 1 .. Len(seqs[l])
      PROVE  seqs[i][j] # seqs[l][k]
  <2>1. summary[i].domain # summary[l].domain
    <3>1. i \in DOMAIN DomainsOf(summary) /\ l \in DOMAIN DomainsOf(summary) /\ i # l
          /\ DomainsOf(summary)[i] = <<summary[i].domain>>
          /\ DomainsOf(summary)[l] = <<summary[l].domain>>
      BY <1>1, <1>5, <1>8 DEF DomainsOf
    <3>2. DomainsOf(summary)[i] # DomainsOf(summary)[l]
      BY <3>1 DEF IsSummary, IsInjective
    <3> QED
      BY <3>1, <3>2
  <2>2. /\ seqs[i][j] = <<summary[i].domain, summary[i].features[j]>>
        /\ seqs[l][k] = <<summary[l].domain, summary[l].features[k]>>
    BY <1>1, <1>4, <1>5
  <2> QED
    BY <2>1, <2>2
<1>9. FlattenSeq(seqs) \in Seq(X) /\ Joins(FlattenSeq(seqs), seqs, Len(seqs))
  BY <1>5, <1>7, <1>8, FlattenJoins
<1>10. IsInjective(FeaturesOf(summary))
  BY <1>6, <1>9 DEF Joins, IsInjective
<1>11. ASSUME NEW x \in X PROVE x \in ToSet(FeaturesOf(summary))
  <2>1. PICK i \in DOMAIN summary : \E name \in ToSet(summary[i].features) :
          x = <<summary[i].domain, name>>
    BY DEF X, Pairs, ToSet
  <2>2. PICK j \in DOMAIN summary[i].features : x = <<summary[i].domain, summary[i].features[j]>>
    BY <2>1 DEF ToSet
  <2>3. i \in 1 .. Len(seqs) /\ j \in 1 .. Len(seqs[i])
    BY <1>1, <1>2, <1>4, <1>5
  <2>4. seqs[i][j] = x
    BY <1>4, <2>2, <2>3
  <2>5. PICK k \in 1 .. Len(FlattenSeq(seqs)) : FlattenSeq(seqs)[k] = x
    BY <1>9, <2>3, <2>4 DEF Joins
  <2> QED
    BY <1>6, <1>9, <2>5 DEF ToSet
<1>12. ToSet(FeaturesOf(summary)) \subseteq X
  BY <1>6, <1>9 DEF ToSet
<1> QED
  BY <1>6, <1>9, <1>10, <1>11, <1>12 DEF X

-----------------------------------------------------------------------------
(***************************************************************************)
(* What steps and summaries are made of.                                   *)
(***************************************************************************)

Parts == ToSet(Scanned) \cup ToSet(Extracted)

\* The domains of a summary.
LEMMA DomainsType ==
  ASSUME NEW summary, IsSummary(summary)
  PROVE  /\ DomainsOf(summary) \in Seq(ToSet(DomainsOf(summary)))
         /\ ToSet(DomainsOf(summary)) = {<<part.domain>> : part \in ToSet(summary)}
<1>1. summary \in Seq(ToSet(summary)) /\ DOMAIN summary = 1 .. Len(summary) /\ Len(summary) \in Nat
  BY DEF IsSummary
<1> DEFINE t == [i \in 1 .. Len(summary) |-> <<summary[i].domain>>]
<1>2. DomainsOf(summary) = t
  BY <1>1 DEF DomainsOf
<1>3. t \in Seq(ToSet(t))
  <2>1. t \in [1 .. Len(summary) -> ToSet(t)]
    BY DEF ToSet
  <2> HIDE DEF t
  <2> QED
    BY <1>1, <2>1
<1>4. ToSet(t) = {<<part.domain>> : part \in ToSet(summary)}
  BY <1>1 DEF ToSet
<1> QED
  BY <1>2, <1>3, <1>4

\* The domains and features of a summary are names, none twice.
LEMMA SummaryNames ==
  ASSUME NEW summary, IsSummary(summary), ToSet(summary) \subseteq Parts
  PROVE  /\ DomainsOf(summary) \in Seq(Names) /\ IsInjective(DomainsOf(summary))
         /\ FeaturesOf(summary) \in Seq(Names) /\ IsInjective(FeaturesOf(summary))
<1>1. ASSUME NEW part \in Parts PROVE <<part.domain>> \in Names
  <2>1. CASE part \in ToSet(Scanned)
    BY <2>1, DomainsType, SummariesAssumption DEF Names
  <2>2. CASE part \in ToSet(Extracted)
    BY <2>2, DomainsType, SummariesAssumption DEF Names
  <2> QED
    BY <2>1, <2>2 DEF Parts
<1>2. ASSUME NEW part \in Parts, NEW name \in ToSet(part.features)
      PROVE  <<part.domain, name>> \in Names
  <2>1. CASE part \in ToSet(Scanned)
    <3>1. <<part.domain, name>> \in Pairs(Scanned)
      BY <2>1 DEF Pairs
    <3> QED
      BY <3>1, FeaturesPairs, SummariesAssumption DEF Names
  <2>2. CASE part \in ToSet(Extracted)
    <3>1. <<part.domain, name>> \in Pairs(Extracted)
      BY <2>2 DEF Pairs
    <3> QED
      BY <3>1, FeaturesPairs, SummariesAssumption DEF Names
  <2> QED
    BY <2>1, <2>2 DEF Parts
<1>3. ToSet(DomainsOf(summary)) \subseteq Names
  BY <1>1, DomainsType
<1>4. Pairs(summary) \subseteq Names
  BY <1>2 DEF Pairs
<1>5. DomainsOf(summary) \in Seq(Names)
  BY <1>3, DomainsType
<1>6. FeaturesOf(summary) \in Seq(Names)
  BY <1>4, FeaturesPairs
<1> QED
  BY <1>5, <1>6, FeaturesPairs DEF IsSummary

\* What Phase 1 finds of the extracts is a summary (_refresh_domains_from_extracts).
LEMMA ExtractedPart ==
  ASSUME NEW present
  PROVE  /\ IsSummary(Only(Extracted, present))
         /\ ToSet(Only(Extracted, present)) \subseteq ToSet(Extracted)
<1> DEFINE t == Only(Extracted, present)
<1>1. /\ Extracted \in Seq(ToSet(Extracted)) /\ IsInjective(DomainsOf(Extracted))
      /\ \A part \in ToSet(Extracted) :
           part.features \in Seq(ToSet(part.features)) /\ IsInjective(part.features)
  BY SummariesAssumption DEF IsSummary
<1>2. t \in Seq(ToSet(Extracted)) /\ ToSet(t) \subseteq ToSet(Extracted)
  BY <1>1, OnlyElements
<1>3. PICK g : Picks(g, t, Extracted, Len(Extracted), present)
  BY <1>1, OnlyPicks
<1> HIDE DEF t
<1>4. t \in Seq(ToSet(t))
  <2>1. DOMAIN t = 1 .. Len(t) /\ Len(t) \in Nat /\ t \in [1 .. Len(t) -> ToSet(t)]
    BY <1>2 DEF ToSet
  <2> QED
    BY <2>1
<1>5. ASSUME NEW k \in DOMAIN DomainsOf(t), NEW l \in DOMAIN DomainsOf(t),
             DomainsOf(t)[k] = DomainsOf(t)[l]
      PROVE  k = l
  <2>1. k \in 1 .. Len(t) /\ l \in 1 .. Len(t) /\ t[k].domain = t[l].domain
    BY <1>2, <1>5 DEF DomainsOf
  <2>2. g[k] \in 1 .. Len(Extracted) /\ g[l] \in 1 .. Len(Extracted)
        /\ Extracted[g[k]].domain = Extracted[g[l]].domain
    BY <1>3, <2>1 DEF Picks
  <2>3. g[k] = g[l]
    <3>1. /\ g[k] \in DOMAIN DomainsOf(Extracted) /\ g[l] \in DOMAIN DomainsOf(Extracted)
          /\ DomainsOf(Extracted)[g[k]] = DomainsOf(Extracted)[g[l]]
      BY <1>1, <2>2 DEF DomainsOf
    <3> QED
      BY <1>1, <3>1 DEF IsInjective
  <2>4. Len(t) \in Nat
    BY <1>2
  <2> QED
    BY <1>3, <2>1, <2>3, <2>4 DEF Picks
<1> QED
  BY <1>1, <1>2, <1>4, <1>5 DEF t, IsSummary, IsInjective


\* c is s and then t.
Spliced(c, s, t) ==
  /\ Len(c) = Len(s) + Len(t)
  /\ \A i \in 1 .. Len(s) : c[i] = s[i]
  /\ \A i \in 1 .. Len(t) : c[Len(s) + i] = t[i]
  /\ \A i \in 1 .. Len(c) : i \in 1 .. Len(s) \/ \E j \in 1 .. Len(t) : i = Len(s) + j

\* A concatenation has the first sequence in front and the second behind it.
LEMMA Concat ==
  ASSUME NEW X, NEW s \in Seq(X), NEW t \in Seq(X)
  PROVE  s \o t \in Seq(X) /\ Spliced(s \o t, s, t)
<1>1. Len(s) \in Nat /\ Len(t) \in Nat /\ s \o t \in Seq(X) /\ Len(s \o t) = Len(s) + Len(t)
  OBVIOUS
<1>2. ASSUME NEW i \in 1 .. Len(s) + Len(t), i \notin 1 .. Len(s)
      PROVE  \E j \in 1 .. Len(t) : i = Len(s) + j
  <2>1. i - Len(s) \in 1 .. Len(t) /\ i = Len(s) + (i - Len(s))
    BY <1>1, <1>2
  <2> QED
    BY <2>1
<1>3. \A i \in 1 .. Len(s) : (s \o t)[i] = s[i]
  OBVIOUS
<1>4. \A i \in 1 .. Len(t) : (s \o t)[Len(s) + i] = t[i]
  OBVIOUS
<1> QED
  BY <1>1, <1>2, <1>3, <1>4 DEF Spliced

Steps == {s \in Phases \X SUBSET Names : IsStep(s)}

\* The steps of Phase 5.
PlanSteps ==
  {s \in Steps : s[1] \in {"phase_5_outline", "phase_5_outline_unit",
                           "phase_5_outline_finalize", "phase_5_detail"}}

\* The steps from Phase 5 on.
LastSteps == PlanSteps \cup {Whole("done")}

\* A whole phase is a step.
LEMMA WholeSteps == \A phase \in Phases : Whole(phase) \in Steps
BY DEF Steps, IsStep, Whole

\* The steps of a phase over names, one for each name.
LEMMA ThingsType ==
  ASSUME NEW phase \in Phases, NEW names \in Seq(Names)
  PROVE  /\ Things(phase, names) \in Seq(Steps) /\ Len(Things(phase, names)) = Len(names)
         /\ \A i \in 1 .. Len(names) : Things(phase, names)[i] = <<phase, {names[i]}>>
<1>1. DOMAIN names = 1 .. Len(names) /\ Len(names) \in Nat
  OBVIOUS
<1>2. \A i \in 1 .. Len(names) : <<phase, {names[i]}>> \in Steps
  <2> TAKE i \in 1 .. Len(names)
  <2>1. names[i] \in Names
    OBVIOUS
  <2> QED
    BY <2>1 DEF Steps, IsStep
<1>3. Things(phase, names) \in [1 .. Len(names) -> Steps]
  BY <1>1, <1>2 DEF Things
<1>4. \A i \in 1 .. Len(names) : Things(phase, names)[i] = <<phase, {names[i]}>>
  BY <1>1 DEF Things
<1> QED
  BY <1>1, <1>3, <1>4

\* The steps of the first four phases, in their order.
First ==
  <<Whole("phase_0"), Whole("phase_1"), Whole("phase_1_5"), Whole("phase_2"),
    Whole("phase_3_A"), Whole("phase_3_B"), Whole("phase_3_C"), Whole("phase_3_D"),
    Whole("phase_4_1"), Whole("phase_4_2"), Whole("phase_4_3")>>

GoodSummary(summary) == IsSummary(summary) /\ ToSet(summary) \subseteq Parts

\* The outline steps come behind the eleven phases the agenda begins with.
LEMMA OutlineType ==
  ASSUME NEW st, NEW e, GoodSummary(st.summary)
  PROVE  OutlineSteps(st, e) \in Seq(PlanSteps)
<1>1. ASSUME NEW phase \in {"phase_5_outline", "phase_5_outline_unit", "phase_5_outline_finalize",
                            "phase_5_detail"}
      PROVE  phase \in Phases /\ <<Whole(phase)>> \in Seq(PlanSteps)
  <2>1. phase \in Phases /\ Whole(phase) \in PlanSteps
    BY WholeSteps DEF Phases, PlanSteps, Whole
  <2> QED
    BY <2>1
<1>2. ASSUME NEW names \in Seq(Names)
      PROVE  Things("phase_5_outline_unit", names) \in Seq(PlanSteps)
  <2> DEFINE t == Things("phase_5_outline_unit", names)
  <2>1. t \in Seq(Steps) /\ \A i \in 1 .. Len(t) : t[i][1] = "phase_5_outline_unit"
    BY <1>1, ThingsType
  <2> HIDE DEF t
  <2>2. t \in [1 .. Len(t) -> PlanSteps] /\ Len(t) \in Nat
    BY <2>1 DEF PlanSteps
  <2>3. t \in Seq(PlanSteps)
    BY <2>2
  <2> QED
    BY <2>3 DEF t
<1>3. FeaturesOf(st.summary) \in Seq(Names)
      /\ Only(DomainsOf(st.summary), {<<d>> : d \in Overviews}) \in Seq(Names)
  BY SummaryNames, OnlyElements DEF GoodSummary
<1>4. OutlineUnits(st) \in Seq(PlanSteps)
  BY <1>1, <1>2, <1>3, Concat DEF OutlineUnits
<1> QED
  BY <1>1, <1>4, Concat DEF OutlineSteps

\* The agenda, up to some place in Phase 5.
Begins(a) ==
  /\ a \in Seq(Steps \cup {Whole("done")}) /\ Len(a) >= 11
  /\ \A i \in 1 .. 11 : a[i] = First[i]
  /\ \A i \in 12 .. Len(a) : a[i] \in LastSteps

\* An agenda begins in the same way when steps are put behind it.
LEMMA BeginsConcat ==
  ASSUME NEW a, Begins(a), NEW t \in Seq(LastSteps)
  PROVE  Begins(a \o t) /\ Spliced(a \o t, a, t)
<1> DEFINE X == Steps \cup {Whole("done")}
<1>1. a \in Seq(X) /\ t \in Seq(X)
  BY DEF Begins, LastSteps, PlanSteps
<1>2. PICK c : c \in Seq(X) /\ Spliced(c, a, t) /\ c = a \o t
  BY <1>1, Concat
<1> HIDE DEF X
<1>3. Len(a) \in Nat /\ Len(t) \in Nat /\ Len(c) = Len(a) + Len(t) /\ Len(a) >= 11
  BY <1>1, <1>2 DEF Spliced, Begins
<1>4. ASSUME NEW i \in 12 .. Len(c) PROVE c[i] \in LastSteps
  <2>1. CASE i \in 1 .. Len(a)
    BY <1>2, <1>3, <2>1 DEF Begins, Spliced
  <2>2. CASE i \notin 1 .. Len(a)
    <3>1. PICK j \in 1 .. Len(t) : i = Len(a) + j
      BY <1>2, <1>3, <2>2 DEF Spliced
    <3> QED
      BY <1>2, <3>1 DEF Spliced
  <2> QED
    BY <2>1, <2>2
<1>5. \A i \in 1 .. 11 : c[i] = First[i]
  <2> TAKE i \in 1 .. 11
  <2>1. i \in 1 .. Len(a)
    BY <1>3
  <2>2. c[i] = a[i]
    BY <1>2, <2>1 DEF Spliced
  <2> QED
    BY <2>2 DEF Begins
<1>6. Begins(c)
  <2>1. c \in Seq(Steps \cup {Whole("done")})
    BY <1>2 DEF X
  <2>2. Len(c) >= 11
    BY <1>3
  <2> QED
    BY <1>4, <1>5, <2>1, <2>2 DEF Begins
<1> QED
  BY <1>2, <1>6

\* The agenda begins with the eleven phases before the outline and ends with "done".
LEMMA AgendaType ==
  ASSUME NEW st, NEW e, GoodSummary(st.summary)
  PROVE  /\ Begins(Agenda(st, e)) /\ Len(Agenda(st, e)) > 11
         /\ Agenda(st, e)[Len(Agenda(st, e))] = Whole("done")
         /\ \A i \in 1 .. Len(Agenda(st, e)) - 1 : Agenda(st, e)[i] \in Steps
<1> DEFINE details == Things("phase_5_detail", Plans)
           outline == OutlineSteps(st, e)
           done == <<Whole("done")>>
<1>1. Begins(First)
  <2>1. First[1] \in Steps /\ First[2] \in Steps /\ First[3] \in Steps /\ First[4] \in Steps
        /\ First[5] \in Steps /\ First[6] \in Steps /\ First[7] \in Steps /\ First[8] \in Steps
        /\ First[9] \in Steps /\ First[10] \in Steps /\ First[11] \in Steps
    BY WholeSteps DEF First, Phases
  <2>2. First \in Seq(Steps \cup {Whole("done")}) /\ Len(First) = 11
    BY <2>1 DEF First
  <2> QED
    BY <2>2 DEF Begins
<1>2. outline \in Seq(PlanSteps)
  BY OutlineType
<1>3. details \in Seq(PlanSteps)
  <2>1. Plans \in Seq(Names)
    <3>1. Plans \in Seq(ToSet(Plans)) /\ ToSet(Plans) \subseteq Names
      BY ListsAssumption DEF Names
    <3> QED
      BY <3>1
  <2>2. details \in Seq(Steps) /\ \A i \in 1 .. Len(details) : details[i][1] = "phase_5_detail"
    BY <2>1, ThingsType DEF Phases
  <2> HIDE DEF details
  <2>3. details \in [1 .. Len(details) -> PlanSteps] /\ Len(details) \in Nat
    BY <2>2 DEF PlanSteps
  <2> QED
    BY <2>2, <2>3
<1>4. done \in Seq(LastSteps) /\ Len(done) = 1 /\ done[1] = Whole("done")
  BY DEF LastSteps
<1>5. Agenda(st, e) = ((First \o outline) \o details) \o done
  BY DEF Agenda, First
<1> HIDE DEF details, outline, done
<1>6. Begins((First \o outline) \o details)
  <2>1. outline \in Seq(LastSteps) /\ details \in Seq(LastSteps)
    BY <1>2, <1>3 DEF LastSteps
  <2> QED
    BY <1>1, <2>1, BeginsConcat
<1>7. PICK b : Begins(b) /\ b = (First \o outline) \o details /\ b \in Seq(Steps)
  <2>1. First \in Seq(Steps) /\ outline \in Seq(Steps) /\ details \in Seq(Steps)
    BY <1>2, <1>3, WholeSteps DEF First, Phases, PlanSteps
  <2>2. (First \o outline) \o details \in Seq(Steps)
    BY <2>1, Concat
  <2> QED
    BY <1>6, <2>2
<1>8. PICK c : Begins(c) /\ Spliced(c, b, done) /\ c = b \o done
  BY <1>4, <1>7, BeginsConcat
<1>9. Len(b) \in Nat /\ Len(c) = Len(b) + 1 /\ c[Len(b) + 1] = Whole("done") /\ Len(b) >= 11
  <2>1. Len(b) \in Nat /\ Len(b) >= 11
    BY <1>7 DEF Begins
  <2>2. Len(c) = Len(b) + Len(done) /\ \A i \in 1 .. Len(done) : c[Len(b) + i] = done[i]
    BY <1>8 DEF Spliced
  <2>3. c[Len(b) + 1] = done[1]
    BY <1>4, <2>2
  <2> QED
    BY <1>4, <2>1, <2>2, <2>3
<1>10. \A i \in 1 .. Len(c) - 1 : c[i] \in Steps
  <2> TAKE i \in 1 .. Len(c) - 1
  <2>1. i \in 1 .. Len(b)
    BY <1>9
  <2>2. c[i] = b[i]
    BY <1>8, <2>1 DEF Spliced
  <2> QED
    BY <1>7, <2>1, <2>2
<1> QED
  BY <1>5, <1>7, <1>8, <1>9, <1>10

-----------------------------------------------------------------------------
(***************************************************************************)
(* The order of the steps.                                                 *)
(***************************************************************************)

\* What Phase 2 needs.
Prepared(st) == {Whole("phase_0"), Whole("phase_1"), Whole("phase_1_5")} \subseteq st.done

LatePhases ==
  {"phase_4_1", "phase_4_2", "phase_4_3", "phase_5_outline", "phase_5_outline_unit",
   "phase_5_outline_finalize", "phase_5_detail"}

\* The least element of a set of natural numbers.
LEMMA MinLeast ==
  ASSUME NEW S \in SUBSET Nat, S # {}
  PROVE  Min(S) \in S /\ \A k \in S : Min(S) <= k
<1>1. \E m \in S : \A k \in S : m <= k
  BY Least
<1> QED
  BY <1>1 DEF Min

\* step is at place k, and what is before it is done.
IsNextAt(st, e, step, k) ==
  /\ k \in 1 .. Len(Agenda(st, e)) /\ StandsFor(Agenda(st, e)[k], step)
  /\ \A i \in 1 .. k - 1 :
       \/ IsDone(st, Agenda(st, e)[i])
       \/ Agenda(st, e)[i] = Whole("phase_3_B") /\ step[1] \in {"phase_3_C", "phase_3_D"}

\* Before the first step of the agenda that is not done, all is done.
LEMMA AfterPlace ==
  ASSUME NEW st, NEW e, GoodSummary(st.summary), NEW step, NEW k, IsNextAt(st, e, step, k)
  PROVE  After(st, e, step)
<1> DEFINE a == Agenda(st, e)
<1>1. DOMAIN a = 1 .. Len(a) /\ Len(a) \in Nat
  BY AgendaType DEF Begins
<1> SUFFICES ASSUME NEW i \in 1 .. Len(a), \A j \in 1 .. i : ~ StandsFor(a[j], step)
             PROVE  \/ IsDone(st, a[i])
                    \/ a[i] = Whole("phase_3_B") /\ step[1] \in {"phase_3_C", "phase_3_D"}
  BY <1>1 DEF After
<1>2. i \in 1 .. k - 1
  <2>1. k \in 1 .. Len(a) /\ ~ (k \in 1 .. i)
    BY DEF IsNextAt
  <2> QED
    BY <1>1, <2>1
<1> QED
  BY <1>2 DEF IsNextAt

\* The first steps that a step needs, and that are enough for it.
LEMMA AfterFirst ==
  ASSUME NEW st, NEW e, GoodSummary(st.summary), NEW step
  PROVE  /\ step = Whole("phase_0") => After(st, e, step)
         /\ step[1] = "phase_1" /\ Whole("phase_0") \in st.done => After(st, e, step)
         /\ step = Whole("phase_1_5") /\ {Whole("phase_0"), Whole("phase_1")} \subseteq st.done
              => After(st, e, step)
         /\ step[1] \in {"phase_2", "phase_2_conflict", "phase_2_summary"} /\ Prepared(st)
              => After(st, e, step)
         /\ Prepared(st) /\ IsDone(st, Whole("phase_2")) =>
              /\ step = Whole("phase_3_A") => After(st, e, step)
              /\ Whole("phase_3_A") \in st.done =>
                   /\ step[1] = "phase_3_B" => After(st, e, step)
                   /\ step = Whole("phase_3_C") => After(st, e, step)
                   /\ Whole("phase_3_C") \in st.done /\ step = Whole("phase_3_D")
                        => After(st, e, step)
<1> DEFINE a == Agenda(st, e)
<1>1. /\ a[1] = Whole("phase_0") /\ a[2] = Whole("phase_1") /\ a[3] = Whole("phase_1_5")
      /\ a[4] = Whole("phase_2") /\ a[5] = Whole("phase_3_A") /\ a[6] = Whole("phase_3_B")
      /\ a[7] = Whole("phase_3_C") /\ a[8] = Whole("phase_3_D")
      /\ Len(a) \in Nat /\ Len(a) > 11
  <2>1. Begins(a) /\ Len(a) > 11
    BY AgendaType
  <2>2. \A i \in 1 .. 11 : a[i] = First[i]
    BY <2>1 DEF Begins
  <2> HIDE DEF a
  <2> QED
    BY <2>1, <2>2 DEF Begins, First
<1>2. \A phase \in Phases \ {"phase_2", "phase_3_B"} :
        IsDone(st, Whole(phase)) <=> Whole(phase) \in st.done
  BY DEF IsDone, Whole
<1>3. CASE step = Whole("phase_0")
  <2>1. StandsFor(a[1], step)
    BY <1>1, <1>3 DEF StandsFor, Whole
  <2>2. IsNextAt(st, e, step, 1)
    BY <1>1, <2>1 DEF IsNextAt
  <2>3. After(st, e, step)
    BY <2>2, AfterPlace
  <2> QED
    BY <1>3, <2>3
<1>4. ASSUME step[1] = "phase_1", Whole("phase_0") \in st.done PROVE After(st, e, step)
  <2>1. StandsFor(a[2], step)
    BY <1>1, <1>4 DEF StandsFor
  <2>2. \A i \in 1 .. 1 : IsDone(st, a[i])
    BY <1>1, <1>2, <1>4 DEF Phases
  <2>3. IsNextAt(st, e, step, 2)
    BY <1>1, <2>1, <2>2 DEF IsNextAt
  <2> QED
    BY <2>3, AfterPlace
<1>5. ASSUME step = Whole("phase_1_5"), {Whole("phase_0"), Whole("phase_1")} \subseteq st.done
      PROVE  After(st, e, step)
  <2>1. StandsFor(a[3], step)
    BY <1>1, <1>5 DEF StandsFor, Whole
  <2>2. \A i \in 1 .. 2 : IsDone(st, a[i])
    BY <1>1, <1>2, <1>5 DEF Phases
  <2>3. IsNextAt(st, e, step, 3)
    BY <1>1, <2>1, <2>2 DEF IsNextAt
  <2> QED
    BY <2>3, AfterPlace
<1>6. ASSUME Prepared(st) PROVE IsDone(st, a[1]) /\ IsDone(st, a[2]) /\ IsDone(st, a[3])
  BY <1>1, <1>2, <1>6 DEF Phases, Prepared
<1>7. ASSUME step[1] \in {"phase_2", "phase_2_conflict", "phase_2_summary"}, Prepared(st)
      PROVE  After(st, e, step)
  <2>1. StandsFor(a[4], step)
    BY <1>1, <1>7 DEF StandsFor
  <2>2. \A i \in 1 .. 3 : IsDone(st, a[i])
    BY <1>6, <1>7
  <2>3. IsNextAt(st, e, step, 4)
    BY <1>1, <2>1, <2>2 DEF IsNextAt
  <2> QED
    BY <2>3, AfterPlace
<1>8. ASSUME Prepared(st), IsDone(st, Whole("phase_2")), step = Whole("phase_3_A")
      PROVE  After(st, e, step)
  <2>1. StandsFor(a[5], step)
    BY <1>1, <1>8 DEF StandsFor, Whole
  <2>2. \A i \in 1 .. 4 : IsDone(st, a[i])
    BY <1>1, <1>6, <1>8
  <2>3. IsNextAt(st, e, step, 5)
    BY <1>1, <2>1, <2>2 DEF IsNextAt
  <2> QED
    BY <2>3, AfterPlace
<1>9. ASSUME Prepared(st), IsDone(st, Whole("phase_2")), Whole("phase_3_A") \in st.done
      PROVE  \A i \in 1 .. 5 : IsDone(st, a[i])
  <2>1. IsDone(st, a[5])
    BY <1>1, <1>2, <1>9 DEF Phases
  <2> QED
    BY <1>1, <1>6, <1>9, <2>1
<1>10. ASSUME Prepared(st), IsDone(st, Whole("phase_2")), Whole("phase_3_A") \in st.done,
              step[1] = "phase_3_B"
       PROVE  After(st, e, step)
  <2>1. StandsFor(a[6], step)
    BY <1>1, <1>10 DEF StandsFor
  <2>2. IsNextAt(st, e, step, 6)
    BY <1>1, <1>9, <1>10, <2>1 DEF IsNextAt
  <2> QED
    BY <2>2, AfterPlace
<1>11. ASSUME Prepared(st), IsDone(st, Whole("phase_2")), Whole("phase_3_A") \in st.done,
              step = Whole("phase_3_C")
       PROVE  After(st, e, step)
  <2>1. StandsFor(a[7], step) /\ step[1] = "phase_3_C"
    BY <1>1, <1>11 DEF StandsFor, Whole
  <2>2. \A i \in 1 .. 6 : IsDone(st, a[i]) \/ a[i] = Whole("phase_3_B")
    BY <1>1, <1>9, <1>11
  <2>3. IsNextAt(st, e, step, 7)
    BY <1>1, <2>1, <2>2 DEF IsNextAt
  <2> QED
    BY <2>3, AfterPlace
<1>12. ASSUME Prepared(st), IsDone(st, Whole("phase_2")), Whole("phase_3_A") \in st.done,
              Whole("phase_3_C") \in st.done, step = Whole("phase_3_D")
       PROVE  After(st, e, step)
  <2>1. StandsFor(a[8], step) /\ step[1] = "phase_3_D"
    BY <1>1, <1>12 DEF StandsFor, Whole
  <2>2. IsDone(st, a[7])
    BY <1>1, <1>2, <1>12 DEF Phases
  <2>3. \A i \in 1 .. 7 : IsDone(st, a[i]) \/ a[i] = Whole("phase_3_B")
    BY <1>1, <1>9, <1>12, <2>2
  <2>4. IsNextAt(st, e, step, 8)
    BY <1>1, <2>1, <2>3 DEF IsNextAt
  <2> QED
    BY <2>4, AfterPlace
<1> QED
  BY <1>3, <1>4, <1>5, <1>7, <1>8, <1>10, <1>11, <1>12

\* What a step that was started shows to be done.
LEMMA AfterNeeds ==
  ASSUME NEW st, NEW e, GoodSummary(st.summary), NEW step, After(st, e, step),
         step # Whole("phase_0")
  PROVE  /\ Whole("phase_0") \in st.done
         /\ step[1] # "phase_1" => Whole("phase_1") \in st.done
         /\ step[1] # "phase_1" /\ step # Whole("phase_1_5") => Whole("phase_1_5") \in st.done
<1> DEFINE a == Agenda(st, e)
<1>1. /\ a[1] = Whole("phase_0") /\ a[2] = Whole("phase_1") /\ a[3] = Whole("phase_1_5")
      /\ DOMAIN a = 1 .. Len(a) /\ Len(a) \in Nat /\ Len(a) > 11
  <2>1. Begins(a) /\ Len(a) > 11
    BY AgendaType
  <2>2. \A i \in 1 .. 11 : a[i] = First[i]
    BY <2>1 DEF Begins
  <2> HIDE DEF a
  <2> QED
    BY <2>1, <2>2 DEF Begins, First
<1>2. ~ StandsFor(a[1], step)
  BY <1>1 DEF StandsFor, Whole
<1>3. step[1] # "phase_1" => ~ StandsFor(a[2], step)
  BY <1>1 DEF StandsFor, Whole
<1>4. step # Whole("phase_1_5") => ~ StandsFor(a[3], step)
  BY <1>1 DEF StandsFor, Whole
<1>5. \A i \in 1 .. 3 : (\A j \in 1 .. i : ~ StandsFor(a[j], step)) => IsDone(st, a[i])
  BY <1>1 DEF After, Whole
<1>6. \A i \in 1 .. 3 : IsDone(st, a[i]) => a[i] \in st.done
  BY <1>1 DEF IsDone, Whole
<1>7. Whole("phase_0") \in st.done
  <2>1. \A j \in 1 .. 1 : ~ StandsFor(a[j], step)
    BY <1>2
  <2> QED
    BY <1>1, <1>5, <1>6, <2>1
<1>8. ASSUME step[1] # "phase_1" PROVE Whole("phase_1") \in st.done
  <2>1. \A j \in 1 .. 2 : ~ StandsFor(a[j], step)
    BY <1>2, <1>3, <1>8
  <2> QED
    BY <1>1, <1>5, <1>6, <2>1
<1>9. ASSUME step[1] # "phase_1", step # Whole("phase_1_5") PROVE Whole("phase_1_5") \in st.done
  <2>1. \A j \in 1 .. 3 : ~ StandsFor(a[j], step)
    BY <1>2, <1>3, <1>4, <1>9
  <2> QED
    BY <1>1, <1>5, <1>6, <2>1
<1> QED
  BY <1>7, <1>8, <1>9

\* More is done, and the summary is the same: no step is out of order for it.
LEMMA AfterMore ==
  ASSUME NEW st, NEW other, NEW e, NEW step, After(st, e, step),
         other.summary = st.summary, st.done \subseteq other.done
  PROVE  After(other, e, step)
<1>1. Agenda(other, e) = Agenda(st, e)
  BY DEF Agenda, OutlineSteps, OutlineUnits
<1>2. ASSUME NEW s, IsDone(st, s) PROVE IsDone(other, s)
  <2>1. \A phase : AllCovered(st, phase) => AllCovered(other, phase)
    BY DEF AllCovered, Covered
  <2> QED
    BY <1>2, <2>1 DEF IsDone
<1> QED
  BY <1>1, <1>2 DEF After

-----------------------------------------------------------------------------
(***************************************************************************)
(* The step that _determine_next_step returns.                             *)
(***************************************************************************)

GoodState(st) == GoodSummary(st.summary) /\ \A s \in st.done : IsStep(s)

\* The cases of the next step, each with what is done and what is not.
IsNext(st, e, next) ==
  \/ next[1] \in {"stop", "done"}
  \/ next = Whole("phase_0") /\ next \notin st.done
  \/ next = Whole("phase_1") /\ Whole("phase_0") \in st.done /\ next \notin st.done
  \/ /\ next = Whole("phase_1_5") /\ {Whole("phase_0"), Whole("phase_1")} \subseteq st.done
     /\ next \notin st.done /\ ~ OutOfRetries(st)
  \/ next = Whole("phase_2") /\ Prepared(st)
  \/ /\ next \in {Whole("phase_3_A"), Whole("phase_3_B"), Whole("phase_3_C"), Whole("phase_3_D")}
     /\ Prepared(st) /\ IsDone(st, Whole("phase_2"))
     /\ next = Whole("phase_3_A") \/ Whole("phase_3_A") \in st.done
     /\ next # Whole("phase_3_B") => next \notin st.done
     /\ next = Whole("phase_3_D") => Whole("phase_3_C") \in st.done
  \/ next[1] \in LatePhases /\ next \in Steps /\ next \notin st.done /\ After(st, e, next)

\* p is the place in the agenda of the first step that is not done, and decides.
Decides(st, e, p) ==
  LET a == Agenda(st, e)
  IN  /\ p \in 1 .. Len(a) /\ ~ IsDone(st, a[p]) /\ \A i \in 1 .. p - 1 : IsDone(st, a[i])
      /\ NextStep(st, e) = IF a[p] = Whole("phase_1_5") /\ OutOfRetries(st)
                           THEN Whole("stop") ELSE a[p]

\* There is such a place, since "done" is never recorded.
LEMMA NextStepPlace ==
  ASSUME NEW st, NEW e, GoodState(st)
  PROVE  \E p : Decides(st, e, p)
<1> DEFINE a == Agenda(st, e)
           I == {i \in 1 .. Len(a) : ~ IsDone(st, a[i])}
           p == Min(I)
<1>1. GoodSummary(st.summary) /\ \A s \in st.done : s \in Steps
  BY DEF GoodState, IsStep, Steps
<1>2. Len(a) > 11 /\ a[Len(a)] = Whole("done") /\ Len(a) \in Nat
  BY <1>1, AgendaType DEF Begins
<1>3. Len(a) \in I
  <2>1. Whole("done") \notin st.done
    BY <1>1 DEF Steps, Whole, Phases
  <2>2. ~ IsDone(st, Whole("done"))
    BY <2>1 DEF IsDone, Whole
  <2> QED
    BY <1>2, <2>2
<1>4. p \in I /\ \A k \in I : p <= k
  <2>1. I \in SUBSET Nat /\ I # {}
    BY <1>3
  <2> HIDE DEF I
  <2> QED
    BY <2>1, MinLeast
<1>5. NextStep(st, e) = IF a[p] = Whole("phase_1_5") /\ OutOfRetries(st)
                        THEN Whole("stop") ELSE a[p]
  <2>1. SelectInSeq(a, LAMBDA s : ~ IsDone(st, s)) = p
    BY <1>3 DEF SelectInSeq
  <2> QED
    BY <2>1 DEF NextStep
<1> HIDE DEF a, I, p
<1>6. p \in 1 .. Len(a) /\ ~ IsDone(st, a[p])
  BY <1>4 DEF I
<1>7. ASSUME NEW i \in 1 .. p - 1 PROVE IsDone(st, a[i])
  <2>1. i \in 1 .. Len(a) /\ ~ (p <= i)
    BY <1>2, <1>6
  <2> QED
    BY <1>4, <2>1 DEF I
<1> QED
  BY <1>5, <1>6, <1>7 DEF Decides, a

\* _determine_next_step returns the first step that is not done, or stops at the gate.
LEMMA NextStepIsNext ==
  ASSUME NEW st, NEW e, GoodState(st)
  PROVE  IsNext(st, e, NextStep(st, e))
<1> DEFINE a == Agenda(st, e)
<1>1. GoodSummary(st.summary) /\ \A s \in st.done : s \in Steps
  BY DEF GoodState, IsStep, Steps
<1>2. Begins(a) /\ Len(a) > 11 /\ Len(a) \in Nat
  <2>1. Begins(a) /\ Len(a) > 11
    BY <1>1, AgendaType
  <2> QED
    BY <2>1 DEF Begins
<1>3. PICK p : Decides(st, e, p)
  BY NextStepPlace
<1> DEFINE n == a[p]
<1>5. NextStep(st, e) = IF n = Whole("phase_1_5") /\ OutOfRetries(st) THEN Whole("stop") ELSE n
  BY <1>3 DEF Decides
<1>6. /\ a[1] = Whole("phase_0") /\ a[2] = Whole("phase_1") /\ a[3] = Whole("phase_1_5")
      /\ a[4] = Whole("phase_2") /\ a[5] = Whole("phase_3_A") /\ a[6] = Whole("phase_3_B")
      /\ a[7] = Whole("phase_3_C") /\ a[8] = Whole("phase_3_D") /\ a[9] = Whole("phase_4_1")
      /\ a[10] = Whole("phase_4_2") /\ a[11] = Whole("phase_4_3")
  <2>1. \A i \in 1 .. 11 : a[i] = First[i]
    BY <1>2 DEF Begins
  <2> HIDE DEF a
  <2> QED
    BY <2>1 DEF First
<1>7. \A i \in 12 .. Len(a) : a[i] \in LastSteps
  BY <1>2 DEF Begins
<1>8. p \in 1 .. Len(a) /\ ~ IsDone(st, n) /\ \A i \in 1 .. p - 1 : IsDone(st, a[i])
  BY <1>3 DEF Decides
<1> HIDE DEF a
<1>9. \A phase : phase \notin {"phase_2", "phase_3_B"} =>
        (IsDone(st, Whole(phase)) <=> Whole(phase) \in st.done)
  BY DEF IsDone, Whole
<1>10. CASE p = 1
  <2>1. n = Whole("phase_0") /\ n \notin st.done
    <3>1. n = Whole("phase_0")
      BY <1>6, <1>10
    <3> QED
      BY <1>8, <1>9, <3>1
  <2> QED
    BY <1>5, <2>1 DEF IsNext, Whole
<1>11. ASSUME p > 1 PROVE Whole("phase_0") \in st.done
  <2>1. 1 \in 1 .. p - 1
    BY <1>8, <1>11
  <2> QED
    BY <1>6, <1>8, <1>9, <2>1
<1>12. ASSUME p > 2 PROVE Whole("phase_1") \in st.done
  <2>1. 2 \in 1 .. p - 1
    BY <1>8, <1>12
  <2> QED
    BY <1>6, <1>8, <1>9, <2>1
<1>13. ASSUME p > 3 PROVE Whole("phase_1_5") \in st.done
  <2>1. 3 \in 1 .. p - 1
    BY <1>8, <1>13
  <2> QED
    BY <1>6, <1>8, <1>9, <2>1
<1>14. ASSUME p > 4 PROVE Prepared(st) /\ IsDone(st, Whole("phase_2"))
  <2>1. 4 \in 1 .. p - 1
    BY <1>8, <1>14
  <2>2. IsDone(st, Whole("phase_2"))
    BY <1>6, <1>8, <2>1
  <2> QED
    BY <1>8, <1>11, <1>12, <1>13, <1>14, <2>2 DEF Prepared
<1>15. ASSUME p > 5 PROVE Whole("phase_3_A") \in st.done
  <2>1. 5 \in 1 .. p - 1
    BY <1>8, <1>15
  <2> QED
    BY <1>6, <1>8, <1>9, <2>1
<1>16. ASSUME p > 7 PROVE Whole("phase_3_C") \in st.done
  <2>1. 7 \in 1 .. p - 1
    BY <1>8, <1>16
  <2> QED
    BY <1>6, <1>8, <1>9, <2>1
<1>17. CASE p = 2
  <2>1. n = Whole("phase_1") /\ Whole("phase_0") \in st.done /\ n \notin st.done
    <3>1. n = Whole("phase_1")
      BY <1>6, <1>17
    <3>2. n \notin st.done
      BY <1>8, <1>9, <3>1
    <3> QED
      BY <1>11, <1>17, <3>1, <3>2
  <2>2. NextStep(st, e) = n
    BY <1>5, <2>1 DEF Whole
  <2> QED
    BY <2>1, <2>2 DEF IsNext
<1>18. CASE p = 3
  <2>1. n = Whole("phase_1_5") /\ Whole("phase_0") \in st.done /\ Whole("phase_1") \in st.done
        /\ n \notin st.done
    <3>1. n = Whole("phase_1_5")
      BY <1>6, <1>18
    <3>2. n \notin st.done
      BY <1>8, <1>9, <3>1
    <3> QED
      BY <1>11, <1>12, <1>18, <3>1, <3>2
  <2> QED
    BY <1>5, <2>1 DEF IsNext, Whole
<1>19. CASE p = 4
  <2>1. NextStep(st, e) = Whole("phase_2") /\ Prepared(st)
    BY <1>5, <1>6, <1>11, <1>12, <1>13, <1>19 DEF Prepared, Whole
  <2> QED
    BY <2>1 DEF IsNext
<1>20. CASE p \in 5 .. 8
  <2>1. n \in {Whole("phase_3_A"), Whole("phase_3_B"), Whole("phase_3_C"), Whole("phase_3_D")}
        /\ n # Whole("phase_1_5")
    <3>1. p = 5 \/ p = 6 \/ p = 7 \/ p = 8
      BY <1>20
    <3>2. n \in {Whole("phase_3_A"), Whole("phase_3_B"), Whole("phase_3_C"), Whole("phase_3_D")}
      BY <1>6, <3>1
    <3> QED
      BY <3>2 DEF Whole
  <2>2. Prepared(st) /\ IsDone(st, Whole("phase_2"))
    BY <1>14, <1>20
  <2>3. n = Whole("phase_3_A") \/ Whole("phase_3_A") \in st.done
    BY <1>6, <1>15, <1>20
  <2>4. n # Whole("phase_3_B") => n \notin st.done
    BY <1>8, <1>9, <2>1
  <2>5. n = Whole("phase_3_D") => Whole("phase_3_C") \in st.done
    BY <1>6, <1>16, <1>20 DEF Whole
  <2> QED
    BY <1>5, <2>1, <2>2, <2>3, <2>4, <2>5 DEF IsNext
<1>21. CASE p \in 9 .. Len(a)
  <2>1. n = Whole("done") \/ (n[1] \in LatePhases /\ n \in Steps)
    <3>1. CASE p \in 9 .. 11
      <4>1. p = 9 \/ p = 10 \/ p = 11
        BY <3>1
      <4>2. n = Whole("phase_4_1") \/ n = Whole("phase_4_2") \/ n = Whole("phase_4_3")
        BY <1>6, <4>1
      <4> QED
        BY <4>2, WholeSteps DEF LatePhases, Phases, Whole
    <3>2. CASE p \in 12 .. Len(a)
      BY <1>7, <3>2 DEF LastSteps, PlanSteps, LatePhases
    <3> QED
      BY <1>2, <1>21, <3>1, <3>2
  <2>2. CASE n = Whole("done")
    BY <1>5, <2>2 DEF IsNext, Whole
  <2>3. CASE n[1] \in LatePhases /\ n \in Steps
    <3>1. NextStep(st, e) = n
      BY <1>5, <2>3 DEF LatePhases, Whole
    <3>2. n \notin st.done
      BY <1>8, <2>3 DEF IsDone, LatePhases, Whole
    <3>3. IsNextAt(st, e, n, p)
      <4>1. StandsFor(n, n)
        BY <2>3 DEF StandsFor, LatePhases
      <4> QED
        BY <1>8, <4>1 DEF IsNextAt, a
    <3>4. After(st, e, n)
      BY <1>1, <3>3, AfterPlace
    <3> QED
      BY <2>3, <3>1, <3>2, <3>4 DEF IsNext
  <2> QED
    BY <2>1, <2>2, <2>3
<1> QED
  BY <1>2, <1>8, <1>10, <1>17, <1>18, <1>19, <1>20, <1>21

-----------------------------------------------------------------------------
(***************************************************************************)
(* The sessions of a runner: what they may be, and that SessionsOf is such.*)
(***************************************************************************)

RunsPhase1(st, steps) ==
  /\ Whole("phase_0") \in st.done /\ Whole("phase_1") \notin st.done
  /\ \A k \in 1 .. Len(steps) : steps[k][1] = "phase_1"

RunsPhase2(st, steps) ==
  /\ Prepared(st)
  /\ \A k \in 1 .. Len(steps) : steps[k][1] \in {"phase_2", "phase_2_conflict"}

\* Group A is first, if it is there, and the groups C and D follow each other.
RunsPhase3(st, steps) ==
  /\ Prepared(st) /\ IsDone(st, Whole("phase_2"))
  /\ \A k \in 1 .. Len(steps) :
       /\ \/ steps[k] \in {Whole("phase_3_A"), Whole("phase_3_C"), Whole("phase_3_D")}
          \/ steps[k][1] = "phase_3_B"
       /\ steps[k] = Whole("phase_3_A") => k = 1
       /\ k = 1 /\ steps[k] # Whole("phase_3_A") => Whole("phase_3_A") \in st.done
       /\ steps[k] = Whole("phase_3_D") =>
            \/ Whole("phase_3_C") \in st.done
            \/ \E j \in 1 .. k - 1 : steps[j] = Whole("phase_3_C")

RunsOne(st, e, steps) ==
  Len(steps) = 1 /\ steps[1][1] \in LatePhases /\ After(st, e, steps[1])

Runs(st, e, steps) ==
  \/ RunsPhase1(st, steps) \/ RunsPhase2(st, steps) \/ RunsPhase3(st, steps)
  \/ RunsOne(st, e, steps)

\* No session has been spent on the step, nor on anything it is about.
Fresh(st, step) ==
  step[1] # "phase_1" =>
    step \notin st.done /\ \A x \in step[2] : ~ Covered(st.done, step[1], x)

Apart(step, other) ==
  step # other /\ (step[1] = other[1] => step[2] \cap other[2] = {})

AllApart(steps) == \A i, j \in 1 .. Len(steps) : i # j => Apart(steps[i], steps[j])

AllFresh(st, steps) == \A k \in 1 .. Len(steps) : Fresh(st, steps[k])

\* A step that is not about bundles is fresh if it is not on record.
LEMMA FreshAlone ==
  ASSUME NEW st, GoodState(st), NEW step \in Steps, step[1] \notin {"phase_2", "phase_3_B"},
         step \notin st.done
  PROVE  Fresh(st, step)
<1> SUFFICES ASSUME NEW x \in step[2], Covered(st.done, step[1], x) PROVE FALSE
  BY DEF Fresh
<1>1. PICK s \in st.done : s[1] = step[1] /\ x \in s[2]
  BY DEF Covered
<1>2. IsStep(s) /\ IsStep(step)
  BY DEF GoodState, Steps
<1>3. s[2] = {x} /\ step[2] = {x}
  BY <1>1, <1>2 DEF IsStep
<1>4. s = <<s[1], s[2]>> /\ step = <<step[1], step[2]>>
  BY <1>2 DEF IsStep
<1> QED
  BY <1>1, <1>3, <1>4

\* The sessions of one phase over things, each thing in one of them.
IsShare(st, phase, steps) ==
  /\ steps \in Seq(Steps)
  /\ \A k \in 1 .. Len(steps) : steps[k][1] = phase
  /\ AllApart(steps) /\ AllFresh(st, steps)

\* The bundles of what is not covered are fresh, and share no feature.
LEMMA BundleStepsShare ==
  ASSUME NEW st, GoodState(st), NEW phase \in {"phase_2", "phase_3_B"}
  PROVE  IsShare(st, phase, BundleSteps(st, phase))
<1> DEFINE xs == Uncovered(st, phase)
           b == Bundles(xs)
           steps == BundleSteps(st, phase)
           Free == {x \in ToSet(FeaturesOf(st.summary)) : ~Covered(st.done, phase, x)}
<1>1. FeaturesOf(st.summary) \in Seq(Names) /\ IsInjective(FeaturesOf(st.summary))
  BY SummaryNames DEF GoodState, GoodSummary
<1>2. xs \in Seq(Names) /\ IsInjective(xs) /\ ToSet(xs) \subseteq Free
  <2>1. xs = Only(FeaturesOf(st.summary), Free)
    BY DEF Uncovered
  <2> HIDE DEF xs, Free
  <2> QED
    BY <1>1, <2>1, OnlyElements
<1>3. b \in Seq(SUBSET Names) /\ Divides(b, xs, Len(xs))
  <2> HIDE DEF xs
  <2> QED
    BY <1>2, BundlesDivide
<1>4. steps = [i \in DOMAIN b |-> <<phase, b[i]>>]
  BY DEF BundleSteps
<1>5. \A i \in 1 .. Len(xs) : xs[i] \in Free
  <2> HIDE DEF xs, Free
  <2>1. \A i \in 1 .. Len(xs) : xs[i] \in ToSet(xs)
    BY <1>2 DEF ToSet
  <2> QED
    BY <1>2, <2>1
<1> HIDE DEF xs, b, steps
<1>6. Len(b) \in Nat /\ DOMAIN b = 1 .. Len(b) /\ Len(steps) = Len(b)
      /\ \A i \in 1 .. Len(b) : steps[i] = <<phase, b[i]>>
  BY <1>3, <1>4
<1>7. \A i \in 1 .. Len(b) : b[i] # {} /\ b[i] \subseteq Free /\ b[i] \subseteq Names
  BY <1>3, <1>5, <1>6 DEF Divides
<1>8. \A i, j \in 1 .. Len(b) : i # j => b[i] \cap b[j] = {}
  BY <1>3 DEF Divides
<1>9. \A i \in 1 .. Len(b) : steps[i] \in Steps
  <2> TAKE i \in 1 .. Len(b)
  <2>1. phase \in Phases /\ b[i] \in SUBSET Names /\ steps[i] = <<phase, b[i]>>
    BY <1>6, <1>7 DEF Phases
  <2> HIDE DEF steps
  <2> QED
    BY <2>1 DEF Steps, IsStep
<1>10. steps \in Seq(Steps)
  <2>1. steps \in [1 .. Len(b) -> Steps]
    BY <1>4, <1>6, <1>9
  <2> QED
    BY <1>6, <2>1
<1>11. AllApart(steps)
  BY <1>6, <1>7, <1>8 DEF AllApart, Apart
<1>12. AllFresh(st, steps)
  <2> SUFFICES ASSUME NEW k \in 1 .. Len(b) PROVE Fresh(st, steps[k])
    BY <1>6 DEF AllFresh
  <2>1. \A x \in b[k] : ~ Covered(st.done, phase, x)
    BY <1>7
  <2>2. steps[k] \notin st.done
    BY <1>6, <1>7, <2>1 DEF Covered
  <2> QED
    BY <1>6, <2>1, <2>2 DEF Fresh
<1>13. \A k \in 1 .. Len(steps) : steps[k][1] = phase
  BY <1>6
<1> QED
  BY <1>10, <1>11, <1>12, <1>13 DEF IsShare, steps

\* Sessions of different phases, one after the other.
LEMMA ShareConcat ==
  ASSUME NEW st, NEW s \in Seq(Steps), NEW t \in Seq(Steps), AllApart(s), AllApart(t),
         AllFresh(st, s), AllFresh(st, t),
         \A i \in 1 .. Len(s) : \A j \in 1 .. Len(t) : s[i][1] # t[j][1]
  PROVE  s \o t \in Seq(Steps) /\ AllApart(s \o t) /\ AllFresh(st, s \o t)
<1>1. PICK c : c = s \o t /\ c \in Seq(Steps) /\ Spliced(c, s, t)
  BY Concat
<1>2. Len(s) \in Nat /\ Len(t) \in Nat /\ Len(c) = Len(s) + Len(t)
  BY <1>1 DEF Spliced
<1>3. ASSUME NEW i \in 1 .. Len(c), NEW j \in 1 .. Len(c), i # j
      PROVE  Apart(c[i], c[j])
  <2>1. CASE i \in 1 .. Len(s) /\ j \in 1 .. Len(s)
    BY <1>1, <1>3, <2>1 DEF Spliced, AllApart
  <2>2. ASSUME i \in 1 .. Len(s), j \notin 1 .. Len(s) PROVE Apart(c[i], c[j])
    <3>1. PICK l \in 1 .. Len(t) : j = Len(s) + l
      BY <1>1, <2>2 DEF Spliced
    <3>2. c[i] = s[i] /\ c[j] = t[l]
      BY <1>1, <2>2, <3>1 DEF Spliced
    <3> QED
      BY <2>2, <3>2 DEF Apart
  <2>3. ASSUME i \notin 1 .. Len(s), j \in 1 .. Len(s) PROVE Apart(c[i], c[j])
    <3>1. PICK l \in 1 .. Len(t) : i = Len(s) + l
      BY <1>1, <2>3 DEF Spliced
    <3>2. c[j] = s[j] /\ c[i] = t[l]
      BY <1>1, <2>3, <3>1 DEF Spliced
    <3> QED
      BY <2>3, <3>2 DEF Apart
  <2>4. ASSUME i \notin 1 .. Len(s), j \notin 1 .. Len(s) PROVE Apart(c[i], c[j])
    <3>1. PICK l \in 1 .. Len(t) : i = Len(s) + l
      BY <1>1, <2>4 DEF Spliced
    <3>2. PICK k \in 1 .. Len(t) : j = Len(s) + k
      BY <1>1, <2>4 DEF Spliced
    <3>3. c[i] = t[l] /\ c[j] = t[k] /\ l # k
      BY <1>1, <1>3, <3>1, <3>2 DEF Spliced
    <3> QED
      BY <3>3 DEF AllApart
  <2> QED
    BY <2>1, <2>2, <2>3, <2>4
<1>4. ASSUME NEW i \in 1 .. Len(c) PROVE Fresh(st, c[i])
  <2>1. CASE i \in 1 .. Len(s)
    BY <1>1, <2>1 DEF Spliced, AllFresh
  <2>2. CASE i \notin 1 .. Len(s)
    <3>1. PICK l \in 1 .. Len(t) : i = Len(s) + l
      BY <1>1, <2>2 DEF Spliced
    <3>2. c[i] = t[l]
      BY <1>1, <3>1 DEF Spliced
    <3> QED
      BY <3>2 DEF AllFresh
  <2> QED
    BY <2>1, <2>2
<1>5. AllApart(c)
  BY <1>3 DEF AllApart
<1>6. AllFresh(st, c)
  BY <1>4 DEF AllFresh
<1> QED
  BY <1>1, <1>5, <1>6

\* Those of the steps that are not done.
LEMMA UndoneShare ==
  ASSUME NEW st, GoodState(st), NEW s \in Seq(Steps), IsInjective(s),
         \A k \in 1 .. Len(s) : s[k][1] \notin {"phase_2", "phase_3_B"},
         \A i, j \in 1 .. Len(s) : i # j => s[i][2] \cap s[j][2] = {}
  PROVE  LET t == Only(s, ToSet(s) \ st.done)
         IN  /\ t \in Seq(Steps) /\ AllApart(t) /\ AllFresh(st, t)
             /\ IsInjective(t) /\ ToSet(t) = ToSet(s) \ st.done
<1>1. PICK t : t = Only(s, ToSet(s) \ st.done)
  OBVIOUS
<1>2. t \in Seq(Steps) /\ ToSet(t) = ToSet(s) \ st.done /\ IsInjective(t)
  BY <1>1, OnlyElements
<1>3. \A k \in 1 .. Len(t) : t[k] \in ToSet(s) \ st.done
  <2>1. \A k \in 1 .. Len(t) : t[k] \in ToSet(t)
    BY <1>2 DEF ToSet
  <2> QED
    BY <1>2, <2>1
<1>4. \A k \in 1 .. Len(t) : \E i \in 1 .. Len(s) : s[i] = t[k]
  <2>1. \A x \in ToSet(s) : \E i \in 1 .. Len(s) : s[i] = x
    BY DEF ToSet
  <2> QED
    BY <1>3, <2>1
<1>5. ASSUME NEW k \in 1 .. Len(t) PROVE Fresh(st, t[k])
  <2>1. t[k] \in Steps /\ t[k] \notin st.done /\ t[k][1] \notin {"phase_2", "phase_3_B"}
    BY <1>2, <1>3, <1>4
  <2> QED
    BY <2>1, FreshAlone
<1>6. ASSUME NEW k \in 1 .. Len(t), NEW l \in 1 .. Len(t), k # l PROVE Apart(t[k], t[l])
  <2>1. PICK i \in 1 .. Len(s) : s[i] = t[k]
    BY <1>4
  <2>2. PICK j \in 1 .. Len(s) : s[j] = t[l]
    BY <1>4
  <2>3. t[k] # t[l]
    BY <1>2, <1>6 DEF IsInjective
  <2> QED
    BY <2>1, <2>2, <2>3 DEF Apart
<1> QED
  BY <1>1, <1>2, <1>5, <1>6 DEF AllApart, AllFresh

\* Steps about one thing each, and each about another thing.
LEMMA ThingsApart ==
  ASSUME NEW phase \in Phases, NEW names \in Seq(Names), IsInjective(names)
  PROVE  LET t == Things(phase, names)
         IN  /\ t \in Seq(Steps) /\ IsInjective(t) /\ AllApart(t)
             /\ \A k \in 1 .. Len(t) : t[k][1] = phase
             /\ \A i, j \in 1 .. Len(t) : i # j => t[i][2] \cap t[j][2] = {}
<1>1. PICK t : t = Things(phase, names)
  OBVIOUS
<1>2. /\ t \in Seq(Steps) /\ Len(t) = Len(names)
      /\ \A i \in 1 .. Len(names) : t[i] = <<phase, {names[i]}>>
  BY <1>1, ThingsType
<1>3. \A i, j \in 1 .. Len(names) : i # j => names[i] # names[j]
  BY DEF IsInjective
<1>4. \A i \in 1 .. Len(t) : t[i][2] = {names[i]} /\ t[i][2] # {}
  <2> TAKE i \in 1 .. Len(t)
  <2>1. t[i] = <<phase, {names[i]}>>
    BY <1>2
  <2> QED
    BY <2>1
<1>5. \A i, j \in 1 .. Len(t) : i # j => t[i][2] \cap t[j][2] = {}
  <2> TAKE i, j \in 1 .. Len(t)
  <2>1. t[i][2] = {names[i]} /\ t[j][2] = {names[j]} /\ (i # j => names[i] # names[j])
    BY <1>2, <1>3, <1>4
  <2> QED
    BY <2>1
<1>6. \A i, j \in 1 .. Len(t) : i # j => t[i] # t[j]
  <2> TAKE i, j \in 1 .. Len(t)
  <2>1. t[i][2] # {} /\ (i # j => t[i][2] \cap t[j][2] = {})
    BY <1>4, <1>5
  <2> QED
    BY <2>1
<1>7. \A k \in 1 .. Len(t) : t[k][1] = phase
  BY <1>2
<1>8. AllApart(t)
  BY <1>5, <1>6 DEF AllApart, Apart
<1>9. IsInjective(t)
  BY <1>2, <1>6 DEF IsInjective
<1> QED
  BY <1>1, <1>2, <1>5, <1>7, <1>8, <1>9

\* No step is done: all of Phase 1 is made anew.
LEMMA Phase1Sessions ==
  ASSUME NEW st, NEW e, GoodState(st), IsNext(st, e, Whole("phase_1"))
  PROVE  LET t == SessionsOf(Whole("phase_1"), st)
         IN  /\ t \in Seq(Steps) /\ t # <<>>
             /\ RunsPhase1(st, t) /\ AllApart(t) /\ AllFresh(st, t)
<1> DEFINE one == <<Whole("phase_1")>>
           each == Things("phase_1", DomainsOf(st.summary))
<1>1. Whole("phase_0") \in st.done /\ Whole("phase_1") \notin st.done
  BY DEF IsNext, Whole, LatePhases
<1>2. one \in Seq(Steps) /\ Len(one) = 1 /\ one[1] = Whole("phase_1")
  BY WholeSteps DEF Phases
<1>3. /\ each \in Seq(Steps) /\ AllApart(each)
      /\ \A k \in 1 .. Len(each) : each[k][1] = "phase_1" /\ each[k][2] # {}
  <2>1. DomainsOf(st.summary) \in Seq(Names) /\ IsInjective(DomainsOf(st.summary))
    BY SummaryNames DEF GoodState, GoodSummary
  <2>2. "phase_1" \in Phases
    BY DEF Phases
  <2>3. \A k \in 1 .. Len(each) : each[k] = <<"phase_1", {DomainsOf(st.summary)[k]}>>
    BY <2>1, <2>2, ThingsType
  <2> HIDE DEF each
  <2>4. \A k \in 1 .. Len(each) : each[k][1] = "phase_1" /\ each[k][2] # {}
    <3> TAKE k \in 1 .. Len(each)
    <3>1. PICK d : each[k] = <<"phase_1", {d}>>
      BY <2>3
    <3> QED
      BY <3>1
  <2> QED
    BY <2>1, <2>2, <2>4, ThingsApart DEF each
<1> HIDE DEF one, each
<1>4. PICK c : c = one \o each /\ c \in Seq(Steps) /\ Spliced(c, one, each)
  BY <1>2, <1>3, Concat
<1>5. Len(each) \in Nat /\ Len(c) = 1 + Len(each) /\ c[1] = Whole("phase_1")
  BY <1>2, <1>3, <1>4 DEF Spliced
<1>6. \A i \in 1 .. Len(c) : i = 1 \/ \E j \in 1 .. Len(each) : i = 1 + j /\ c[i] = each[j]
  BY <1>2, <1>4, <1>5 DEF Spliced
<1>7. AllApart(c)
  <2> SUFFICES ASSUME NEW i \in 1 .. Len(c), NEW j \in 1 .. Len(c), i # j
               PROVE  Apart(c[i], c[j])
    BY DEF AllApart
  <2>1. CASE i = 1
    <3>1. c[j][2] # {}
      BY <1>3, <1>6, <2>1
    <3> QED
      BY <1>5, <2>1, <3>1 DEF Apart, Whole
  <2>2. CASE j = 1
    <3>1. c[i][2] # {}
      BY <1>3, <1>6, <2>2
    <3> QED
      BY <1>5, <2>2, <3>1 DEF Apart, Whole
  <2>3. CASE i # 1 /\ j # 1
    <3>1. PICK k \in 1 .. Len(each) : i = 1 + k /\ c[i] = each[k]
      BY <1>6, <2>3
    <3>2. PICK l \in 1 .. Len(each) : j = 1 + l /\ c[j] = each[l]
      BY <1>6, <2>3
    <3> QED
      BY <1>3, <3>1, <3>2 DEF AllApart
  <2> QED
    BY <2>1, <2>2, <2>3
<1>8. \A k \in 1 .. Len(c) : c[k][1] = "phase_1"
  BY <1>3, <1>5, <1>6 DEF Whole
<1>9. AllApart(one) /\ \A k \in 1 .. Len(one) : one[k][1] = "phase_1"
  BY <1>2 DEF AllApart, Whole
<1>10. \A t : (\A k \in 1 .. Len(t) : t[k][1] = "phase_1") => RunsPhase1(st, t) /\ AllFresh(st, t)
  BY <1>1 DEF RunsPhase1, AllFresh, Fresh
<1>11. SessionsOf(Whole("phase_1"), st) = one \o (IF MultiSession THEN each ELSE <<>>)
  <2>1. /\ Whole("phase_1") # Whole("phase_2")
        /\ Whole("phase_1")[1] \notin {"phase_3_A", "phase_3_B", "phase_3_C", "phase_3_D"}
    BY DEF Whole
  <2> QED
    BY <2>1 DEF SessionsOf, one, each
<1>12. CASE MultiSession
  <2>1. c # <<>>
    BY <1>4, <1>5
  <2> QED
    BY <1>4, <1>7, <1>8, <1>10, <1>11, <1>12, <2>1
<1>13. CASE ~ MultiSession
  <2>1. one \o <<>> = one
    BY <1>2
  <2>2. one # <<>>
    BY <1>2
  <2> QED
    BY <1>2, <1>9, <1>10, <1>11, <1>13, <2>1, <2>2
<1> QED
  BY <1>12, <1>13

-----------------------------------------------------------------------------
\* A runner's sessions.
GoodSessions(st, e, steps) ==
  /\ steps \in Seq(Steps) /\ AllApart(steps) /\ AllFresh(st, steps)
  /\ steps # <<>> => Runs(st, e, steps)

\* The sessions of Phase 2.
LEMMA Phase2Sessions ==
  ASSUME NEW st, NEW e, GoodState(st), Prepared(st)
  PROVE  GoodSessions(st, e, SessionsOf(Whole("phase_2"), st))
<1> DEFINE conflicts == Things("phase_2_conflict", Conflicts)
           s == Only(conflicts, ToSet(conflicts) \ st.done)
           t == BundleSteps(st, "phase_2")
<1>1. SessionsOf(Whole("phase_2"), st) = s \o t
  <2>1. /\ Whole("phase_2") # Whole("phase_1")
        /\ Whole("phase_2")[1] \notin {"phase_3_A", "phase_3_B", "phase_3_C", "phase_3_D"}
    BY DEF Whole
  <2> QED
    BY <2>1 DEF SessionsOf
<1>2. /\ conflicts \in Seq(Steps) /\ IsInjective(conflicts)
      /\ \A k \in 1 .. Len(conflicts) : conflicts[k][1] = "phase_2_conflict"
      /\ \A i, j \in 1 .. Len(conflicts) : i # j => conflicts[i][2] \cap conflicts[j][2] = {}
  <2>1. Conflicts \in Seq(Names) /\ IsInjective(Conflicts) /\ "phase_2_conflict" \in Phases
    BY ListsAssumption DEF Names, Phases
  <2> QED
    BY <2>1, ThingsApart
<1>3. /\ s \in Seq(Steps) /\ AllApart(s) /\ AllFresh(st, s)
      /\ ToSet(s) = ToSet(conflicts) \ st.done
  <2> HIDE DEF conflicts
  <2> QED
    BY <1>2, UndoneShare
<1>4. \A k \in 1 .. Len(s) : s[k][1] = "phase_2_conflict"
  <2> HIDE DEF s, conflicts
  <2>1. \A k \in 1 .. Len(s) : s[k] \in ToSet(conflicts)
    <3>1. \A k \in 1 .. Len(s) : s[k] \in ToSet(s)
      BY <1>3 DEF ToSet
    <3> QED
      BY <1>3, <3>1
  <2>2. \A x \in ToSet(conflicts) : x[1] = "phase_2_conflict"
    BY <1>2 DEF ToSet
  <2> QED
    BY <2>1, <2>2
<1>5. IsShare(st, "phase_2", t)
  BY BundleStepsShare
<1> HIDE DEF conflicts, s, t
<1>6. /\ t \in Seq(Steps) /\ AllApart(t) /\ AllFresh(st, t)
      /\ \A k \in 1 .. Len(t) : t[k][1] = "phase_2"
  BY <1>5 DEF IsShare
<1>7. PICK c : c = s \o t /\ c \in Seq(Steps) /\ Spliced(c, s, t)
  BY <1>3, <1>6, Concat
<1>8. AllApart(c) /\ AllFresh(st, c)
  BY <1>3, <1>4, <1>6, <1>7, ShareConcat
<1>9. \A k \in 1 .. Len(c) : c[k][1] \in {"phase_2", "phase_2_conflict"}
  <2> TAKE k \in 1 .. Len(c)
  <2>1. CASE k \in 1 .. Len(s)
    BY <1>4, <1>7, <2>1 DEF Spliced
  <2>2. CASE k \notin 1 .. Len(s)
    <3>1. PICK j \in 1 .. Len(t) : k = Len(s) + j
      BY <1>7, <2>2 DEF Spliced
    <3> QED
      BY <1>6, <1>7, <3>1 DEF Spliced
  <2> QED
    BY <2>1, <2>2
<1> QED
  BY <1>1, <1>7, <1>8, <1>9 DEF GoodSessions, Runs, RunsPhase2

GroupsCD == <<Whole("phase_3_C"), Whole("phase_3_D")>>

\* The sessions of Phase 3.
LEMMA Phase3Sessions ==
  ASSUME NEW st, NEW e, GoodState(st), NEW next, IsNext(st, e, next),
         next \in {Whole("phase_3_A"), Whole("phase_3_B"), Whole("phase_3_C"), Whole("phase_3_D")}
  PROVE  GoodSessions(st, e, SessionsOf(next, st))
<1> DEFINE r == Only(<<Whole("phase_3_A")>>, ToSet(<<Whole("phase_3_A")>>) \ st.done)
           s == BundleSteps(st, "phase_3_B")
           t == Only(GroupsCD, ToSet(GroupsCD) \ st.done)
<1>1. SessionsOf(next, st) = (r \o s) \o t
  <2>1. /\ next # Whole("phase_1") /\ next # Whole("phase_2")
        /\ next[1] \in {"phase_3_A", "phase_3_B", "phase_3_C", "phase_3_D"}
    BY DEF Whole
  <2> QED
    BY <2>1 DEF SessionsOf, GroupsCD
<1>2. /\ Prepared(st) /\ IsDone(st, Whole("phase_2"))
      /\ next = Whole("phase_3_A") \/ Whole("phase_3_A") \in st.done
      /\ next = Whole("phase_3_A") => Whole("phase_3_A") \notin st.done
  BY DEF IsNext, Whole, LatePhases
<1>3. /\ Whole("phase_3_A") \in Steps /\ Whole("phase_3_C") \in Steps
      /\ Whole("phase_3_D") \in Steps
  BY WholeSteps DEF Phases
<1>4. /\ r \in Seq(Steps) /\ AllApart(r) /\ AllFresh(st, r) /\ IsInjective(r)
      /\ ToSet(r) = {Whole("phase_3_A")} \ st.done
  <2> DEFINE one == <<Whole("phase_3_A")>>
  <2>1. one \in Seq(Steps) /\ IsInjective(one) /\ Len(one) = 1 /\ one[1] = Whole("phase_3_A")
    BY <1>3 DEF IsInjective
  <2>2. ToSet(one) = {Whole("phase_3_A")}
    BY <2>1 DEF ToSet
  <2> HIDE DEF one
  <2>3. /\ \A k \in 1 .. Len(one) : one[k][1] \notin {"phase_2", "phase_3_B"}
        /\ \A i, j \in 1 .. Len(one) : i # j => one[i][2] \cap one[j][2] = {}
    BY <2>1 DEF Whole
  <2> QED
    BY <2>1, <2>2, <2>3, UndoneShare DEF one
<1>5. /\ GroupsCD \in Seq(Steps) /\ Len(GroupsCD) = 2 /\ IsInjective(GroupsCD)
      /\ GroupsCD[1] = Whole("phase_3_C") /\ GroupsCD[2] = Whole("phase_3_D")
      /\ ToSet(GroupsCD) = {Whole("phase_3_C"), Whole("phase_3_D")}
  BY <1>3 DEF GroupsCD, IsInjective, ToSet, Whole
<1>6. /\ t \in Seq(Steps) /\ AllApart(t) /\ AllFresh(st, t) /\ IsInjective(t)
      /\ ToSet(t) = {Whole("phase_3_C"), Whole("phase_3_D")} \ st.done
  <2>1. /\ \A k \in 1 .. Len(GroupsCD) : GroupsCD[k][1] \notin {"phase_2", "phase_3_B"}
        /\ \A i, j \in 1 .. Len(GroupsCD) : i # j => GroupsCD[i][2] \cap GroupsCD[j][2] = {}
    BY <1>5 DEF Whole
  <2> QED
    BY <1>5, <2>1, UndoneShare
<1>7. ASSUME NEW l \in 1 .. Len(t), t[l] = Whole("phase_3_D"), Whole("phase_3_C") \notin st.done
      PROVE  \E k \in 1 .. l - 1 : t[k] = Whole("phase_3_C")
  <2> DEFINE S == ToSet(GroupsCD) \ st.done
  <2>1. 1 \in 1 .. Len(GroupsCD) /\ 2 \in 1 .. Len(GroupsCD) /\ 1 < 2
        /\ GroupsCD[1] \in S /\ t[l] = GroupsCD[2]
    BY <1>5, <1>7
  <2>2. t = Only(GroupsCD, S)
    OBVIOUS
  <2> HIDE DEF S, t
  <2>3. ASSUME NEW i \in 1 .. Len(GroupsCD), NEW j \in 1 .. Len(GroupsCD), i < j,
               GroupsCD[i] \in S, l \in 1 .. Len(Only(GroupsCD, S)),
               Only(GroupsCD, S)[l] = GroupsCD[j]
        PROVE  \E k \in 1 .. l - 1 : Only(GroupsCD, S)[k] = GroupsCD[i]
    BY <1>5, <2>3, OnlyOrder
  <2> QED
    BY <1>5, <1>7, <2>1, <2>2, <2>3
<1>8. /\ s \in Seq(Steps) /\ AllApart(s) /\ AllFresh(st, s)
      /\ \A k \in 1 .. Len(s) : s[k][1] = "phase_3_B"
  BY BundleStepsShare DEF IsShare
<1> HIDE DEF r, s, t
<1>9. \A k \in 1 .. Len(r) : r[k] = Whole("phase_3_A") /\ r[k] \notin st.done
  <2>1. \A k \in 1 .. Len(r) : r[k] \in ToSet(r)
    BY <1>4 DEF ToSet
  <2> QED
    BY <1>4, <2>1
<1>10. \A k \in 1 .. Len(t) : t[k] \in {Whole("phase_3_C"), Whole("phase_3_D")}
  <2>1. \A k \in 1 .. Len(t) : t[k] \in ToSet(t)
    BY <1>6 DEF ToSet
  <2> QED
    BY <1>6, <2>1
<1>11. Len(r) \in 0 .. 1 /\ (Whole("phase_3_A") \notin st.done => Len(r) = 1)
  <2>1. Len(r) \in Nat /\ DOMAIN r = 1 .. Len(r)
    BY <1>4
  <2>2. ~ (1 \in 1 .. Len(r) /\ 2 \in 1 .. Len(r))
    BY <1>4, <1>9, <2>1 DEF IsInjective
  <2>3. Whole("phase_3_A") \notin st.done => \E k \in 1 .. Len(r) : r[k] = Whole("phase_3_A")
    BY <1>4 DEF ToSet
  <2> QED
    BY <2>1, <2>2, <2>3
<1>12. PICK q : q = r \o s /\ q \in Seq(Steps) /\ Spliced(q, r, s)
  BY <1>4, <1>8, Concat
<1>13. AllApart(q) /\ AllFresh(st, q)
  <2>1. \A i \in 1 .. Len(r) : \A j \in 1 .. Len(s) : r[i][1] # s[j][1]
    BY <1>8, <1>9 DEF Whole
  <2> QED
    BY <1>4, <1>8, <1>12, <2>1, ShareConcat
<1>14. \A k \in 1 .. Len(q) :
         \/ k = 1 /\ Len(r) = 1 /\ q[k] = Whole("phase_3_A")
         \/ q[k][1] = "phase_3_B" /\ (k = 1 => Len(r) = 0)
  <2> TAKE k \in 1 .. Len(q)
  <2>1. CASE k \in 1 .. Len(r)
    BY <1>9, <1>11, <1>12, <2>1 DEF Spliced
  <2>2. CASE k \notin 1 .. Len(r)
    <3>1. PICK j \in 1 .. Len(s) : k = Len(r) + j
      BY <1>12, <2>2 DEF Spliced
    <3>2. q[k][1] = "phase_3_B"
      BY <1>8, <1>12, <3>1 DEF Spliced
    <3> QED
      BY <1>11, <3>1, <3>2
  <2> QED
    BY <2>1, <2>2
<1>15. PICK c : c = q \o t /\ c \in Seq(Steps) /\ Spliced(c, q, t)
  BY <1>6, <1>12, Concat
<1>16. AllApart(c) /\ AllFresh(st, c)
  <2>1. \A i \in 1 .. Len(q) : \A j \in 1 .. Len(t) : q[i][1] # t[j][1]
    BY <1>10, <1>14 DEF Whole
  <2> QED
    BY <1>6, <1>12, <1>13, <1>15, <2>1, ShareConcat
<1>17. Len(q) \in Nat /\ (Len(r) = 1 => Len(q) > 0)
  <2>1. Len(r) \in Nat /\ Len(s) \in Nat /\ Len(q) = Len(r) + Len(s)
    BY <1>4, <1>8, <1>12 DEF Spliced
  <2> QED
    BY <2>1
<1>18. RunsPhase3(st, c)
  <2>1. ASSUME NEW k \in 1 .. Len(c)
        PROVE  /\ \/ c[k] \in {Whole("phase_3_A"), Whole("phase_3_C"), Whole("phase_3_D")}
                  \/ c[k][1] = "phase_3_B"
               /\ c[k] = Whole("phase_3_A") => k = 1
               /\ k = 1 /\ c[k] # Whole("phase_3_A") => Whole("phase_3_A") \in st.done
               /\ c[k] = Whole("phase_3_D") =>
                    \/ Whole("phase_3_C") \in st.done
                    \/ \E j \in 1 .. k - 1 : c[j] = Whole("phase_3_C")
    <3>1. CASE k \in 1 .. Len(q)
      <4>1. c[k] = q[k]
        BY <1>15, <3>1 DEF Spliced
      <4>2. c[k] # Whole("phase_3_D")
        BY <1>14, <3>1, <4>1 DEF Whole
      <4>3. \/ k = 1 /\ c[k] = Whole("phase_3_A")
            \/ c[k][1] = "phase_3_B" /\ (k = 1 => Len(r) = 0)
        BY <1>14, <3>1, <4>1
      <4>4. Len(r) = 0 => Whole("phase_3_A") \in st.done
        BY <1>11
      <4>5. Whole("phase_3_A")[1] # "phase_3_B"
        BY DEF Whole
      <4> QED
        BY <4>2, <4>3, <4>4, <4>5
    <3>2. ASSUME k \notin 1 .. Len(q), NEW l \in 1 .. Len(t), k = Len(q) + l
          PROVE  /\ c[k] \in {Whole("phase_3_C"), Whole("phase_3_D")}
                 /\ k = 1 => Whole("phase_3_A") \in st.done
                 /\ c[k] = Whole("phase_3_D") =>
                      \/ Whole("phase_3_C") \in st.done
                      \/ \E j \in 1 .. k - 1 : c[j] = Whole("phase_3_C")
      <4>1. c[k] = t[l]
        BY <1>15, <3>2 DEF Spliced
      <4>2. k = 1 => Whole("phase_3_A") \in st.done
        BY <1>11, <1>17, <3>2
      <4>3. ASSUME c[k] = Whole("phase_3_D"), Whole("phase_3_C") \notin st.done
            PROVE  \E j \in 1 .. k - 1 : c[j] = Whole("phase_3_C")
        <5>1. PICK i \in 1 .. l - 1 : t[i] = Whole("phase_3_C")
          BY <1>7, <4>1, <4>3
        <5>2. i \in 1 .. Len(t) /\ Len(q) + i \in 1 .. k - 1
          BY <1>17, <3>2, <5>1
        <5>3. c[Len(q) + i] = t[i]
          BY <1>15, <5>2 DEF Spliced
        <5> QED
          BY <5>1, <5>2, <5>3
      <4> QED
        BY <1>10, <4>1, <4>2, <4>3
    <3>3. k \notin 1 .. Len(q) => \E l \in 1 .. Len(t) : k = Len(q) + l
      BY <1>15 DEF Spliced
    <3>4. Whole("phase_3_A") \notin {Whole("phase_3_C"), Whole("phase_3_D")}
      BY DEF Whole
    <3> QED
      BY <3>1, <3>2, <3>3, <3>4
  <2> QED
    BY <1>2, <2>1 DEF RunsPhase3
<1> QED
  BY <1>1, <1>12, <1>15, <1>16, <1>18 DEF GoodSessions, Runs

\* The session of a step that is a runner of its own.
LEMMA LateSession ==
  ASSUME NEW st, NEW e, GoodState(st), NEW next, next \in Steps, next[1] \in LatePhases,
         next \notin st.done, After(st, e, next)
  PROVE  SessionsOf(next, st) # <<>> /\ GoodSessions(st, e, SessionsOf(next, st))
<1>1. /\ next # Whole("phase_1") /\ next # Whole("phase_2")
      /\ next[1] \notin {"phase_3_A", "phase_3_B", "phase_3_C", "phase_3_D"}
      /\ next[1] \notin {"phase_2", "phase_3_B"}
  BY DEF Whole, LatePhases
<1>2. SessionsOf(next, st) = <<next>>
  BY <1>1 DEF SessionsOf
<1>3. PICK one : one = <<next>>
  OBVIOUS
<1>4. one \in Seq(Steps) /\ Len(one) = 1 /\ one[1] = next /\ one # <<>>
  BY <1>3
<1>5. AllApart(one)
  BY <1>4 DEF AllApart
<1>6. AllFresh(st, one)
  BY <1>1, <1>4, FreshAlone DEF AllFresh
<1>8. RunsOne(st, e, one)
  BY <1>4 DEF RunsOne
<1> QED
  BY <1>2, <1>3, <1>4, <1>5, <1>6, <1>8 DEF GoodSessions, Runs

\* What EnterPhase gives the runner to do.  Only Phase 2 may have nothing to do.
LEMMA SessionsAreGood ==
  ASSUME NEW st, NEW e, GoodState(st), NEW next, IsNext(st, e, next),
         next[1] \notin {"phase_0", "phase_1_5", "done", "stop"}
  PROVE  /\ GoodSessions(st, e, SessionsOf(next, st))
         /\ SessionsOf(next, st) = <<>> => Prepared(st)
<1>1. \/ next = Whole("phase_1")
      \/ next = Whole("phase_2") /\ Prepared(st)
      \/ /\ next \in {Whole("phase_3_A"), Whole("phase_3_B"), Whole("phase_3_C"),
                      Whole("phase_3_D")}
         /\ Prepared(st)
      \/ next[1] \in LatePhases /\ next \in Steps /\ next \notin st.done /\ After(st, e, next)
  <2>1. next # Whole("phase_0") /\ next # Whole("phase_1_5")
    BY DEF Whole
  <2>2. ~ (next[1] \in {"stop", "done"})
    OBVIOUS
  <2> QED
    BY <2>1, <2>2 DEF IsNext
<1>2. CASE next = Whole("phase_1")
  BY <1>2, Phase1Sessions DEF GoodSessions, Runs
<1>3. CASE next = Whole("phase_2") /\ Prepared(st)
  BY <1>3, Phase2Sessions
<1>4. CASE /\ next \in {Whole("phase_3_A"), Whole("phase_3_B"), Whole("phase_3_C"),
                        Whole("phase_3_D")}
           /\ Prepared(st)
  BY <1>4, Phase3Sessions
<1>5. CASE next[1] \in LatePhases /\ next \in Steps /\ next \notin st.done /\ After(st, e, next)
  BY <1>5, LateSession
<1> QED
  BY <1>1, <1>2, <1>3, <1>4, <1>5

-----------------------------------------------------------------------------
(***************************************************************************)
(* How a runner goes through its sessions.                                 *)
(***************************************************************************)

RestFresh(st, steps) == \A k \in 2 .. Len(steps) : Fresh(st, steps[k])

\* The sessions that a runner has yet to go through, the first of them begun or not.
Serves(st, e, steps) ==
  /\ steps \in Seq(Steps) /\ steps # <<>>
  /\ Runs(st, e, steps) /\ AllApart(steps) /\ RestFresh(st, steps)

\* What is done is the same, and the summary is.
LEMMA SameProgress ==
  ASSUME NEW st, NEW other, NEW e, other.done = st.done, other.summary = st.summary
  PROVE  /\ \A step : After(other, e, step) <=> After(st, e, step)
         /\ \A step : IsDone(other, step) <=> IsDone(st, step)
         /\ \A step : Fresh(other, step) <=> Fresh(st, step)
         /\ Prepared(other) <=> Prepared(st)
         /\ \A steps : RunsPhase2(other, steps) <=> RunsPhase2(st, steps)
         /\ \A steps : Runs(other, e, steps) <=> Runs(st, e, steps)
         /\ \A steps : Serves(other, e, steps) <=> Serves(st, e, steps)
<1>1. \A step : IsDone(other, step) <=> IsDone(st, step)
  BY DEF IsDone, AllCovered
<1>2. Agenda(other, e) = Agenda(st, e)
  BY DEF Agenda, OutlineSteps, OutlineUnits
<1>3. \A step : After(other, e, step) <=> After(st, e, step)
  BY <1>1, <1>2 DEF After
<1>4. \A step : Fresh(other, step) <=> Fresh(st, step)
  BY DEF Fresh
<1>5. Prepared(other) <=> Prepared(st)
  BY DEF Prepared
<1>6. \A steps : RunsPhase2(other, steps) <=> RunsPhase2(st, steps)
  BY <1>5 DEF RunsPhase2
<1>7. \A steps : RunsPhase1(other, steps) <=> RunsPhase1(st, steps)
  BY DEF RunsPhase1
<1>8. \A steps : RunsPhase3(other, steps) <=> RunsPhase3(st, steps)
  BY <1>1, <1>5 DEF RunsPhase3
<1>9. \A steps : RunsOne(other, e, steps) <=> RunsOne(st, e, steps)
  BY <1>3 DEF RunsOne
<1>10. \A steps : Runs(other, e, steps) <=> Runs(st, e, steps)
  BY <1>6, <1>7, <1>8, <1>9 DEF Runs
<1>11. \A steps : Serves(other, e, steps) <=> Serves(st, e, steps)
  BY <1>4, <1>10 DEF Serves, RestFresh
<1> QED
  BY <1>1, <1>3, <1>4, <1>5, <1>6, <1>10, <1>11

\* The first session of a runner and those behind it.
LEMMA ServesFirst ==
  ASSUME NEW st, NEW e, NEW steps, Serves(st, e, steps)
  PROVE  /\ Len(steps) \in Nat \ {0} /\ DOMAIN steps = 1 .. Len(steps)
         /\ Head(steps) = steps[1] /\ Head(steps) \in Steps
         /\ Tail(steps) \in Seq(Steps) /\ Len(Tail(steps)) = Len(steps) - 1
         /\ \A k \in 1 .. Len(steps) - 1 : k + 1 \in 1 .. Len(steps) /\ Tail(steps)[k] = steps[k + 1]
BY DEF Serves

\* The first step has what it needs.
LEMMA ServesAfter ==
  ASSUME NEW st, NEW e, GoodSummary(st.summary), NEW steps, Serves(st, e, steps)
  PROVE  After(st, e, Head(steps))
<1>1. 1 \in 1 .. Len(steps) /\ Head(steps) = steps[1] /\ ~ \E j \in 1 .. 1 - 1 : TRUE
  BY ServesFirst
<1>2. CASE RunsPhase1(st, steps)
  BY <1>1, <1>2, AfterFirst DEF RunsPhase1
<1>3. CASE RunsPhase2(st, steps)
  BY <1>1, <1>3, AfterFirst DEF RunsPhase2
<1>4. CASE RunsPhase3(st, steps)
  <2>1. /\ Prepared(st) /\ IsDone(st, Whole("phase_2"))
        /\ \/ steps[1] \in {Whole("phase_3_A"), Whole("phase_3_C"), Whole("phase_3_D")}
           \/ steps[1][1] = "phase_3_B"
        /\ steps[1] # Whole("phase_3_A") => Whole("phase_3_A") \in st.done
        /\ steps[1] = Whole("phase_3_D") => Whole("phase_3_C") \in st.done
    BY <1>1, <1>4 DEF RunsPhase3
  <2> QED
    BY <1>1, <2>1, AfterFirst
<1>5. CASE RunsOne(st, e, steps)
  BY <1>1, <1>5 DEF RunsOne
<1> QED
  BY <1>2, <1>3, <1>4, <1>5 DEF Serves, Runs

\* Which runner it is, by its first step.
LEMMA ServesWhich ==
  ASSUME NEW st, NEW e, NEW steps, Serves(st, e, steps)
  PROVE  /\ Head(steps)[1] = "phase_1" => RunsPhase1(st, steps)
         /\ Head(steps)[1] \in {"phase_2", "phase_2_conflict"} => RunsPhase2(st, steps)
         /\ Head(steps)[1] = "phase_3_B" => RunsPhase3(st, steps)
         /\ Head(steps)[1] \notin {"phase_0", "phase_1_5"}
<1>1. 1 \in 1 .. Len(steps) /\ Head(steps) = steps[1]
  BY ServesFirst
<1>2. RunsPhase1(st, steps) => Head(steps)[1] = "phase_1"
  BY <1>1 DEF RunsPhase1
<1>3. RunsPhase2(st, steps) => Head(steps)[1] \in {"phase_2", "phase_2_conflict"}
  BY <1>1 DEF RunsPhase2
<1>4. RunsPhase3(st, steps) =>
        Head(steps)[1] \in {"phase_3_A", "phase_3_B", "phase_3_C", "phase_3_D"}
  BY <1>1 DEF RunsPhase3, Whole
<1>5. RunsOne(st, e, steps) => Head(steps)[1] \in LatePhases
  BY <1>1 DEF RunsOne
<1> QED
  BY <1>2, <1>3, <1>4, <1>5 DEF Serves, Runs, LatePhases

\* A session is recorded: nothing else that is to be done is.
LEMMA FreshNext ==
  ASSUME NEW st, NEW other, NEW step, NEW s, Fresh(st, step), Apart(s, step),
         other.done \subseteq st.done \cup {s}
  PROVE  Fresh(other, step)
<1> SUFFICES ASSUME step[1] # "phase_1"
             PROVE  step \notin other.done /\ \A x \in step[2] : ~ Covered(other.done, step[1], x)
  BY DEF Fresh
<1>1. step \notin other.done
  BY DEF Fresh, Apart
<1>2. ASSUME NEW x \in step[2], Covered(other.done, step[1], x) PROVE FALSE
  <2>1. PICK r \in other.done : r[1] = step[1] /\ x \in r[2]
    BY <1>2 DEF Covered
  <2>2. CASE r \in st.done
    BY <1>2, <2>1, <2>2 DEF Fresh, Covered
  <2>3. CASE r = s
    BY <1>2, <2>1, <2>3 DEF Apart
  <2> QED
    BY <2>2, <2>3
<1> QED
  BY <1>1, <1>2

\* The first step is recorded; one of Phase 1 need not be.
LEMMA ServesRecorded ==
  ASSUME NEW st, NEW other, NEW e, NEW steps, Serves(st, e, steps),
         other.summary = st.summary, st.done \subseteq other.done,
         other.done \subseteq st.done \cup {Head(steps)}
  PROVE  /\ RestFresh(other, steps)
         /\ RunsPhase2(st, steps) => Serves(other, e, steps) /\ RunsPhase2(other, steps)
<1>1. RestFresh(other, steps)
  <2> SUFFICES ASSUME NEW k \in 2 .. Len(steps) PROVE Fresh(other, steps[k])
    BY DEF RestFresh
  <2>1. Fresh(st, steps[k])
    BY DEF Serves, RestFresh
  <2>2. 1 \in 1 .. Len(steps) /\ k \in 1 .. Len(steps) /\ 1 # k /\ Head(steps) = steps[1]
    BY ServesFirst
  <2>3. Apart(Head(steps), steps[k])
    BY <2>2 DEF Serves, AllApart
  <2> QED
    BY <2>1, <2>3, FreshNext
<1>2. RunsPhase2(st, steps) => RunsPhase2(other, steps)
  BY DEF RunsPhase2, Prepared
<1> QED
  BY <1>1, <1>2 DEF Serves, Runs

\* The runner goes on: the first step is recorded, or it is the first one of Phase 1.
LEMMA ServesTail ==
  ASSUME NEW st, NEW other, NEW e, NEW steps, Serves(st, e, steps),
         other.summary = st.summary, st.done \subseteq other.done, RestFresh(other, steps),
         \/ Head(steps) \in other.done /\ Head(steps) # Whole("phase_1")
         \/ Head(steps) = Whole("phase_1"),
         Whole("phase_1") \in other.done => Whole("phase_1") \in st.done
  PROVE  LET t == Tail(steps)
         IN  /\ t \in Seq(Steps)
             /\ t # <<>> => Serves(other, e, t) /\ AllFresh(other, t)
             /\ RunsPhase2(st, steps) => RunsPhase2(other, t)
             /\ \A S : (\A k \in 1 .. Len(steps) : steps[k] \in S) =>
                         \A k \in 1 .. Len(t) : t[k] \in S
<1>1. PICK t : t = Tail(steps)
  OBVIOUS
<1>2. /\ Len(steps) \in Nat \ {0} /\ Head(steps) = steps[1]
      /\ t \in Seq(Steps) /\ Len(t) = Len(steps) - 1
      /\ \A k \in 1 .. Len(t) : k + 1 \in 1 .. Len(steps) /\ t[k] = steps[k + 1]
  BY <1>1, ServesFirst
<1>3. AllApart(t)
  <2> SUFFICES ASSUME NEW i \in 1 .. Len(t), NEW j \in 1 .. Len(t), i # j
               PROVE  Apart(t[i], t[j])
    BY DEF AllApart
  <2>1. i + 1 \in 1 .. Len(steps) /\ j + 1 \in 1 .. Len(steps) /\ i + 1 # j + 1
    BY <1>2
  <2>2. Apart(steps[i + 1], steps[j + 1])
    BY <2>1 DEF Serves, AllApart
  <2> QED
    BY <1>2, <2>2
<1>4. AllFresh(other, t)
  <2> SUFFICES ASSUME NEW k \in 1 .. Len(t) PROVE Fresh(other, t[k])
    BY DEF AllFresh
  <2>1. k + 1 \in 2 .. Len(steps) /\ t[k] = steps[k + 1]
    BY <1>2
  <2> QED
    BY <2>1 DEF RestFresh
<1>5. RestFresh(other, t)
  BY <1>2, <1>4 DEF AllFresh, RestFresh
<1>6. RunsPhase1(st, steps) => RunsPhase1(other, t)
  BY <1>2 DEF RunsPhase1
<1>7. RunsPhase2(st, steps) => RunsPhase2(other, t)
  BY <1>2 DEF RunsPhase2, Prepared
<1>8. ASSUME RunsPhase3(st, steps) PROVE RunsPhase3(other, t)
  <2>1. Prepared(other) /\ IsDone(other, Whole("phase_2"))
    <3>1. \A phase : AllCovered(st, phase) => AllCovered(other, phase)
      BY DEF AllCovered, Covered
    <3>2. ASSUME NEW s, IsDone(st, s) PROVE IsDone(other, s)
      BY <3>1, <3>2 DEF IsDone
    <3>3. Prepared(st) => Prepared(other)
      BY DEF Prepared
    <3> QED
      BY <1>8, <3>2, <3>3 DEF RunsPhase3
  <2>2. Head(steps) \in other.done
    <3>1. 1 \in 1 .. Len(steps)
      BY <1>2
    <3>2. steps[1][1] # "phase_1"
      BY <1>8, <3>1 DEF RunsPhase3, Whole
    <3> QED
      BY <1>2, <3>2 DEF Whole
  <2>3. Whole("phase_3_A") \in other.done
    <3>1. 1 \in 1 .. Len(steps)
      BY <1>2
    <3>2. steps[1] = Whole("phase_3_A") \/ Whole("phase_3_A") \in st.done
      BY <1>8, <3>1 DEF RunsPhase3
    <3> QED
      BY <1>2, <2>2, <3>2
  <2>4. ASSUME NEW k \in 1 .. Len(t)
        PROVE  /\ \/ t[k] \in {Whole("phase_3_A"), Whole("phase_3_C"), Whole("phase_3_D")}
                  \/ t[k][1] = "phase_3_B"
               /\ t[k] # Whole("phase_3_A")
               /\ t[k] = Whole("phase_3_D") =>
                    \/ Whole("phase_3_C") \in other.done
                    \/ \E j \in 1 .. k - 1 : t[j] = Whole("phase_3_C")
    <3>1. k + 1 \in 1 .. Len(steps) /\ k + 1 # 1 /\ t[k] = steps[k + 1] /\ k \in Nat
      BY <1>2
    <3>2. /\ \/ t[k] \in {Whole("phase_3_A"), Whole("phase_3_C"), Whole("phase_3_D")}
             \/ t[k][1] = "phase_3_B"
          /\ t[k] # Whole("phase_3_A")
          /\ t[k] = Whole("phase_3_D") =>
               \/ Whole("phase_3_C") \in st.done
               \/ \E j \in 1 .. (k + 1) - 1 : steps[j] = Whole("phase_3_C")
      BY <1>8, <3>1 DEF RunsPhase3
    <3>3. ASSUME NEW j \in 1 .. (k + 1) - 1, steps[j] = Whole("phase_3_C")
          PROVE  \/ Whole("phase_3_C") \in other.done
                 \/ \E i \in 1 .. k - 1 : t[i] = Whole("phase_3_C")
      <4>1. CASE j = 1
        BY <1>2, <2>2, <3>3, <4>1
      <4>2. CASE j # 1
        <5>1. j - 1 \in 1 .. k - 1 /\ j - 1 \in 1 .. Len(t) /\ (j - 1) + 1 = j
          BY <1>2, <3>1, <4>2
        <5>2. t[j - 1] = steps[j]
          BY <1>2, <5>1
        <5> QED
          BY <3>3, <5>1, <5>2
      <4> QED
        BY <4>1, <4>2
    <3> QED
      BY <3>2, <3>3
  <2> QED
    BY <2>1, <2>3, <2>4 DEF RunsPhase3
<1>9. RunsOne(st, e, steps) => t = <<>>
  BY <1>2 DEF RunsOne
<1>10. ASSUME t # <<>> PROVE Serves(other, e, t)
  <2>1. Runs(other, e, t)
    BY <1>6, <1>7, <1>8, <1>9, <1>10 DEF Serves, Runs
  <2> QED
    BY <1>2, <1>3, <1>5, <1>10, <2>1 DEF Serves
<1>11. \A S : (\A k \in 1 .. Len(steps) : steps[k] \in S) => \A k \in 1 .. Len(t) : t[k] \in S
  BY <1>2
<1> QED
  BY <1>1, <1>2, <1>4, <1>7, <1>10, <1>11

\* The groups C and D go on without group B.
LEMMA ServesGroups ==
  ASSUME NEW st, NEW e, NEW steps, Serves(st, e, steps), AllFresh(st, steps),
         Head(steps)[1] = "phase_3_B"
  PROVE  LET t == Only(steps, {Whole("phase_3_C"), Whole("phase_3_D")})
         IN  /\ t \in Seq(Steps)
             /\ \A k \in 1 .. Len(t) : t[k] \in {Whole("phase_3_C"), Whole("phase_3_D")}
             /\ t # <<>> => Serves(st, e, t) /\ AllFresh(st, t)
<1> DEFINE S == {Whole("phase_3_C"), Whole("phase_3_D")}
<1>1. PICK t : t = Only(steps, S)
  OBVIOUS
<1>2. steps \in Seq(Steps) /\ IsInjective(steps) /\ 1 \in 1 .. Len(steps) /\ Head(steps) = steps[1]
  <2>1. \A i, j \in 1 .. Len(steps) : i # j => steps[i] # steps[j]
    BY DEF Serves, AllApart, Apart
  <2> QED
    BY <2>1, ServesFirst DEF IsInjective, Serves
<1>3. RunsPhase3(st, steps)
  BY ServesWhich
<1>4. t \in Seq(Steps) /\ ToSet(t) = ToSet(steps) \cap S /\ IsInjective(t)
  BY <1>1, <1>2, OnlyElements
<1>5. \A k \in 1 .. Len(t) : t[k] \in S /\ \E i \in 1 .. Len(steps) : steps[i] = t[k]
  <2>1. \A k \in 1 .. Len(t) : t[k] \in ToSet(t)
    BY <1>4 DEF ToSet
  <2>2. \A k \in 1 .. Len(t) : t[k] \in S /\ t[k] \in ToSet(steps)
    BY <1>4, <2>1
  <2> QED
    BY <1>2, <2>2 DEF ToSet
<1>6. AllFresh(st, t)
  BY <1>5 DEF AllFresh
<1>7. RestFresh(st, t)
  <2>1. \A k \in 2 .. Len(t) : k \in 1 .. Len(t)
    BY <1>4
  <2> QED
    BY <1>6, <2>1 DEF AllFresh, RestFresh
<1>8. AllApart(t)
  <2> SUFFICES ASSUME NEW i \in 1 .. Len(t), NEW j \in 1 .. Len(t), i # j
               PROVE  Apart(t[i], t[j])
    BY DEF AllApart
  <2>1. t[i] # t[j]
    BY <1>4 DEF IsInjective
  <2>2. t[i] \in S /\ t[j] \in S
    BY <1>5
  <2> QED
    BY <2>1, <2>2 DEF Apart, Whole
<1>9. Whole("phase_3_A") \in st.done
  BY <1>2, <1>3 DEF RunsPhase3, Whole
<1>10. ASSUME NEW l \in 1 .. Len(t), t[l] = Whole("phase_3_D"), Whole("phase_3_C") \notin st.done
       PROVE  \E k \in 1 .. l - 1 : t[k] = Whole("phase_3_C")
  <2>1. PICK j \in 1 .. Len(steps) : steps[j] = t[l]
    BY <1>5
  <2>2. PICK i \in 1 .. j - 1 : steps[i] = Whole("phase_3_C")
    BY <1>3, <1>10, <2>1 DEF RunsPhase3
  <2>3. i \in 1 .. Len(steps) /\ i < j /\ steps[i] \in S
    BY <1>2, <2>2
  <2>4. l \in 1 .. Len(Only(steps, S)) /\ Only(steps, S)[l] = steps[j]
    BY <1>1, <2>1
  <2> HIDE DEF S
  <2>5. \E k \in 1 .. l - 1 : Only(steps, S)[k] = steps[i]
    BY <1>2, <2>3, <2>4, OnlyOrder
  <2> QED
    BY <1>1, <2>2, <2>5
<1>11. RunsPhase3(st, t)
  <2>1. Prepared(st) /\ IsDone(st, Whole("phase_2"))
    BY <1>3 DEF RunsPhase3
  <2>2. Whole("phase_3_A") \notin S
    BY DEF Whole
  <2> QED
    BY <1>5, <1>9, <1>10, <2>1, <2>2 DEF RunsPhase3
<1> QED
  BY <1>1, <1>4, <1>5, <1>6, <1>7, <1>8, <1>11 DEF Serves, Runs

-----------------------------------------------------------------------------
(***************************************************************************)
(* The state that the loop works on is the state file.                     *)
(***************************************************************************)

\* The loop works on the state that is on disk ("the helper's returned state is the
\* single source of truth"): wherever it decides what to do next, waits or lets a
\* session run, a crash loses nothing it knows.
MemoryIsDisk ==
  pc \in {"recover", "loop", "gate", "exec", "wait", "answered"} => mem = disk

LEMMA MemoryInit == Init => MemoryIsDisk
BY DEF Init, MemoryIsDisk

\* Every step keeps MemoryIsDisk.
LEMMA MemoryStep == MemoryIsDisk /\ [Next]_vars => MemoryIsDisk'
<1> SUFFICES ASSUME MemoryIsDisk, [Next]_vars PROVE MemoryIsDisk'
  OBVIOUS
<1>1. CASE UNCHANGED vars
  BY <1>1 DEF MemoryIsDisk, vars
<1>2. CASE Start \/ Crash
  BY <1>2 DEF MemoryIsDisk, Start, Launch, LaunchUnreadable, CliResume, Crash, Stop
<1>3. CASE Boot
  BY <1>3 DEF MemoryIsDisk, Boot, Stop
<1>4. CASE Recover \/ Phase0 \/ EnterGate \/ BeginStep
  BY <1>4 DEF MemoryIsDisk, Recover, Phase0, EnterGate, BeginStep, Leave
<1>5. CASE Ended \/ Phase0Aborts \/ EnterPhase
  BY <1>5 DEF MemoryIsDisk, Ended, Phase0Aborts, EnterPhase, Stop
<1>6. CASE GatePasses \/ GateFails \/ Summarise \/ Extract
  BY <1>6 DEF MemoryIsDisk, GatePasses, GateFails, Summarise, Extract, Leave
<1>7. CASE StepCompletes
  BY <1>7 DEF MemoryIsDisk, StepCompletes
<1>8. CASE StepFails
  BY <1>8 DEF MemoryIsDisk, StepFails, Leave, AfterSession
<1>9. CASE StepWaits
  BY <1>9 DEF MemoryIsDisk, StepWaits, Leave, AfterSession
<1>10. CASE Return
  BY <1>10 DEF MemoryIsDisk, Return
<1>11. CASE GiveUp \/ Answer
  BY <1>11 DEF MemoryIsDisk, GiveUp, Answer, Stop
<1>12. CASE ResumeCompletes \/ ResumeWaits \/ ResumeFails
  BY <1>12 DEF MemoryIsDisk, ResumeCompletes, ResumeWaits, ResumeFails, Stop
<1>13. CASE Answered \/ Refused
  BY <1>13 DEF MemoryIsDisk, Answered, Refused, Stop
<1> QED
  BY <1>1, <1>2, <1>3, <1>4, <1>5, <1>6, <1>7, <1>8, <1>9, <1>10, <1>11, <1>12, <1>13
     DEF Next, Run

\* Wherever run_docs_orchestrator decides, waits or lets a session run, its `state` is
\* the state file: the two ways to answer a session, which write the file behind the
\* main loop's back, leave it no older state to save.
THEOREM MemoryAgrees == Spec => []MemoryIsDisk
BY MemoryInit, MemoryStep, PTL DEF Spec


-----------------------------------------------------------------------------
(***************************************************************************)
(* A question is not lost.                                                 *)
(***************************************************************************)

Fields == {"step", "running", "done", "strikes", "summary"}

Records ==
  /\ DOMAIN disk = Fields /\ DOMAIN mem = Fields
  /\ DOMAIN side = {"state", "step"}

\* Outside of group B of Phase 3.
IsBlocking == side.state = "waiting" /\ side.step[1] # "phase_3_B"

WaitingInv ==
  /\ side.state = "waiting" => engine = "codex"
  /\ pc \in {"recover", "loop", "gate"} => side.state # "waiting"
  /\ pc \in {"begin", "exec", "extracted", "summary"} => ~ IsBlocking
  /\ pc = "return" /\ IsBlocking => mem = disk
  /\ pc = "answered" => side.step \in disk.done
  /\ pc = "refused" => ~ disk.running

\* Somebody has asked for the waiting session to be resolved.
Called ==
  pc \in {"wait", "resume", "answered", "refused"} =>
    ret \in {"startup", "main", "phase_2", "cli"}

\* Every step keeps Called.
LEMMA CalledStep == Called /\ [Next]_vars => Called'
<1> SUFFICES ASSUME Called, [Next]_vars PROVE Called'
  OBVIOUS
<1> USE DEF Called
<1>1. CASE UNCHANGED vars
  BY <1>1 DEF vars
<1>2. CASE \/ Start \/ Crash \/ Boot \/ Recover \/ Ended \/ Phase0Aborts \/ Phase0 \/ EnterGate
           \/ EnterPhase \/ GatePasses \/ GateFails \/ BeginStep \/ Extract \/ Summarise \/ Return
  BY <1>2 DEF Start, Launch, LaunchUnreadable, CliResume, Crash, Boot, Recover, Ended, Phase0Aborts,
              Phase0, EnterGate, EnterPhase, GatePasses, GateFails, BeginStep, Extract, Summarise,
              Return, Stop, Leave
<1>3. CASE StepCompletes \/ StepFails
  BY <1>3 DEF StepCompletes, StepFails, AfterSession, Leave
<1>4. CASE StepWaits
  BY <1>4 DEF StepWaits, AfterSession, Leave
<1>5. CASE GiveUp \/ Answer \/ ResumeCompletes \/ ResumeWaits \/ ResumeFails \/ Refused
  BY <1>5 DEF GiveUp, Answer, ResumeCompletes, ResumeWaits, ResumeFails, Refused, Stop
<1>6. CASE Answered
  <2>1. ret \in {"startup", "main", "phase_2", "cli"}
    BY <1>6 DEF Answered
  <2>2. CASE ret = "startup" \/ ret = "main"
    BY <1>6, <2>2 DEF Answered
  <2>3. CASE ret = "cli"
    BY <1>6, <2>3 DEF Answered
  <2>4. CASE ret = "phase_2"
    BY <1>6, <2>4 DEF Answered
  <2> QED
    BY <2>1, <2>2, <2>3, <2>4
<1> QED
  BY <1>1, <1>2, <1>3, <1>4, <1>5, <1>6 DEF Next, Run

\* Every step keeps Records.
LEMMA RecordsStep == Records /\ [Next]_vars => Records'
<1> SUFFICES ASSUME Records, [Next]_vars PROVE Records'
  OBVIOUS
<1> USE DEF Records
<1>1. DOMAIN Default = Fields /\ DOMAIN NoSide = {"state", "step"}
      /\ \A s : DOMAIN Waiting(s) = {"state", "step"}
  BY DEF Default, NoSide, Waiting, Fields
<1>2. ASSUME NEW st, DOMAIN st = Fields, NEW s
      PROVE  /\ DOMAIN Running(st, s) = Fields
             /\ DOMAIN Completed(st, s) = Fields
             /\ DOMAIN Errored(st) = Fields
  BY <1>2 DEF Running, Completed, Errored
<1>3. CASE UNCHANGED vars
  BY <1>3 DEF vars
<1>4. CASE Start \/ Crash
  BY <1>1, <1>4 DEF Start, Launch, LaunchUnreadable, CliResume, Crash, Stop
<1>5. CASE Boot
  BY <1>1, <1>5 DEF Boot, Stop
<1>6. CASE Recover
  BY <1>2, <1>6 DEF Recover
<1>7. CASE Phase0
  BY <1>7 DEF Phase0, Fields
<1>8. CASE Ended \/ Phase0Aborts \/ EnterPhase \/ GiveUp \/ Answer \/ Return
  BY <1>1, <1>8 DEF Ended, Phase0Aborts, EnterPhase, GiveUp, Answer, Return, Stop
<1>9. CASE EnterGate \/ BeginStep
  BY <1>2, <1>9 DEF EnterGate, BeginStep
<1>10. CASE GatePasses \/ Summarise
  BY <1>2, <1>10 DEF GatePasses, Summarise
<1>11. CASE GateFails
  BY <1>2, <1>11 DEF GateFails
<1>12. CASE StepCompletes \/ StepFails
  BY <1>2, <1>12 DEF StepCompletes, StepFails
<1>13. CASE StepWaits
  BY <1>1, <1>13 DEF StepWaits
<1>14. CASE Extract
  <2>1. PICK summary :
          mem' = [Completed(mem, Whole("phase_1")) EXCEPT !.summary = summary]
    BY <1>14 DEF Extract
  <2>2. DOMAIN mem' = Fields
    BY <1>2, <2>1
  <2> QED
    BY <1>14, <2>2 DEF Extract
<1>15. CASE ResumeCompletes \/ ResumeWaits \/ ResumeFails
  BY <1>1, <1>2, <1>15 DEF ResumeCompletes, ResumeWaits, ResumeFails, Stop
<1>16. CASE Answered \/ Refused
  BY <1>1, <1>16 DEF Answered, Refused, Stop
<1> QED
  BY <1>3, <1>4, <1>5, <1>6, <1>7, <1>8, <1>9, <1>10, <1>11, <1>12, <1>13, <1>14, <1>15, <1>16
     DEF Next, Run

\* Going on after a session, and leaving the phase's runner.
LEMMA RunnerLocations ==
  /\ \A next : AfterSession(next) => pc' \in {"begin", "extracted", "summary", "return"}
  /\ Leave => pc' = "return"
BY DEF AfterSession, Leave

\* Every step keeps WaitingInv.
LEMMA WaitingStep ==
  MemoryIsDisk /\ Records /\ WaitingInv /\ Called /\ [Next]_vars => WaitingInv'
<1> SUFFICES ASSUME MemoryIsDisk, Records, WaitingInv, Called, [Next]_vars PROVE WaitingInv'
  OBVIOUS
<1> USE DEF WaitingInv, IsBlocking
<1>1. CASE UNCHANGED vars
  BY <1>1 DEF vars
<1>2. CASE Start \/ Crash
  BY <1>2 DEF Start, Launch, LaunchUnreadable, CliResume, Crash, Stop
<1>3. CASE Boot
  BY <1>3 DEF Boot, Stop, NoSide
<1>4. CASE Recover \/ Phase0 \/ EnterGate \/ Ended \/ Phase0Aborts \/ EnterPhase
  BY <1>4 DEF Recover, Phase0, EnterGate, Ended, Phase0Aborts, EnterPhase, Stop, Leave
<1>5. CASE BeginStep
  BY <1>5 DEF BeginStep
<1>6. CASE GatePasses \/ GateFails \/ Summarise \/ Extract
  BY <1>6 DEF GatePasses, GateFails, Summarise, Extract, Leave
<1>7. CASE StepCompletes \/ StepFails
  <2>1. pc = "exec" /\ UNCHANGED <<engine, side>> /\ pc' \in {"begin", "extracted", "summary", "return"}
    BY <1>7, RunnerLocations DEF StepCompletes, StepFails
  <2> QED
    BY <2>1
<1>8. CASE StepWaits
  <2>1. /\ pc = "exec" /\ engine = "codex" /\ UNCHANGED <<engine, disk, mem>>
        /\ side' = Waiting(Head(todo))
        /\ side'.state = "waiting" /\ side'.step = Head(todo)
    BY <1>8 DEF StepWaits, Waiting
  <2>2. CASE Head(todo)[1] \in {"phase_2", "phase_2_conflict"}
    <3>1. pc' = "wait"
      BY <1>8, <2>2 DEF StepWaits
    <3> QED
      BY <2>1, <3>1
  <2>3. CASE Head(todo)[1] = "phase_3_B"
    <3>1. pc' \in {"begin", "extracted", "summary", "return"}
      BY <1>8, <2>3, RunnerLocations DEF StepWaits
    <3> QED
      BY <2>1, <2>3, <3>1
  <2>4. CASE Head(todo)[1] \notin {"phase_2", "phase_2_conflict", "phase_3_B"}
    <3>1. pc' = "return"
      BY <1>8, <2>4, RunnerLocations DEF StepWaits
    <3>2. mem = disk
      BY <2>1 DEF MemoryIsDisk
    <3> QED
      BY <2>1, <3>1, <3>2
  <2> QED
    BY <2>2, <2>3, <2>4
<1>9. CASE Return
  BY <1>9 DEF Return, IsWaiting
<1>10. CASE GiveUp \/ Answer
  BY <1>10 DEF GiveUp, Answer, Stop, MemoryIsDisk
<1>11. CASE ResumeCompletes
  <2>1. pc' = "answered" /\ disk' = Completed(disk, side.step) /\ UNCHANGED <<engine, side>>
    BY <1>11 DEF ResumeCompletes
  <2>2. side.step \in disk'.done
    BY <2>1 DEF Completed, Records, Fields
  <2> QED
    BY <2>1, <2>2
<1>12. CASE ResumeWaits
  BY <1>12 DEF ResumeWaits, Stop
<1>13. CASE ResumeFails
  <2>1. pc' = "refused" /\ disk' = Errored(disk) /\ UNCHANGED <<engine, side>>
    BY <1>13 DEF ResumeFails
  <2>2. ~ disk'.running
    BY <2>1 DEF Errored, Records, Fields
  <2> QED
    BY <2>1, <2>2
<1>14. CASE Answered
  <2>1. side'.state = "none"
    BY <1>14 DEF Answered, NoSide
  <2>2. pc' \notin {"answered", "refused"}
    <3>1. ret \in {"startup", "main", "phase_2", "cli"}
      BY <1>14 DEF Answered, Called
    <3>2. CASE ret = "startup"
      BY <1>14, <3>2 DEF Answered
    <3>3. CASE ret = "main"
      BY <1>14, <3>3 DEF Answered
    <3>4. CASE ret = "cli"
      BY <1>14, <3>4 DEF Answered
    <3>5. CASE ret = "phase_2"
      BY <1>14, <3>5 DEF Answered
    <3> QED
      BY <3>1, <3>2, <3>3, <3>4, <3>5
  <2> QED
    BY <2>1, <2>2
<1>15. CASE Refused
  <2>1. side'.state = "failed" /\ pc' \in {"return", "off"}
    BY <1>15 DEF Refused, Records, Stop
  <2> QED
    BY <2>1
<1> QED
  BY <1>1, <1>2, <1>3, <1>4, <1>5, <1>6, <1>7, <1>8, <1>9, <1>10, <1>11, <1>12, <1>13, <1>14,
     <1>15 DEF Next, Run

\* A step from a state with an open question: it stays open, or a session was resumed.
LEMMA AskedStep ==
  ASSUME MemoryIsDisk, WaitingInv, [Next]_vars, Asked, side.step[1] # "phase_3_B"
  PROVE  (Asked' /\ side'.step = side.step) \/ pc = "resume"
<1>1. IsBlocking /\ engine = "codex" /\ disk.running /\ disk.step = side.step
      /\ side.step \notin disk.done
  BY DEF Asked, IsBlocking, WaitingInv
<1>2. pc \notin {"recover", "loop", "gate", "begin", "exec", "extracted", "summary", "answered",
                 "refused"}
  BY <1>1 DEF WaitingInv, IsBlocking
<1>3. CASE UNCHANGED vars
  BY <1>3 DEF vars, Asked
<1>4. CASE Start \/ Crash \/ GiveUp \/ Answer
  BY <1>4 DEF Start, Launch, LaunchUnreadable, CliResume, Crash, GiveUp, Answer, Asked
<1>5. CASE Boot
  <2>1. UNCHANGED <<side, disk>>
    BY <1>1, <1>5 DEF Boot, IsStale
  <2> QED
    BY <2>1 DEF Asked
<1>6. CASE Return
  <2>1. UNCHANGED <<side, disk>>
    BY <1>1, <1>6 DEF Return, WaitingInv
  <2> QED
    BY <2>1 DEF Asked
<1>7. CASE ResumeCompletes \/ ResumeWaits \/ ResumeFails
  BY <1>7 DEF ResumeCompletes, ResumeWaits, ResumeFails
<1>8. ~ (\/ Recover \/ Ended \/ Phase0Aborts \/ Phase0 \/ EnterGate \/ EnterPhase
         \/ GatePasses \/ GateFails \/ BeginStep \/ StepCompletes \/ StepFails \/ StepWaits
         \/ Extract \/ Summarise \/ Answered \/ Refused)
  BY <1>2 DEF Recover, Ended, Phase0Aborts, Phase0, EnterGate, EnterPhase, GatePasses, GateFails,
              BeginStep, StepCompletes, StepFails, StepWaits, Extract, Summarise, Answered, Refused
<1> QED
  BY <1>3, <1>4, <1>5, <1>6, <1>7, <1>8 DEF Next, Run

\* The runtime sidecar's promise, over any crashes, restarts and command-line resumes: an
\* open question is only settled by the outcome of a resumed session.
THEOREM QuestionsAreKept == Spec => WaitingPreserved
<1> DEFINE IInv == MemoryIsDisk /\ Records /\ WaitingInv /\ Called
<1> DEFINE Kept ==
      Asked /\ side.step[1] # "phase_3_B" =>
        \/ Asked' /\ side'.step = side.step
        \/ pc = "resume"
<1>1. Init => IInv
  <2>1. Init => Records
    BY DEF Init, Records, Default, NoSide, Fields
  <2>2. Init => WaitingInv
    BY DEF Init, WaitingInv, IsBlocking, NoSide
  <2>3. Init => Called
    BY DEF Init, Called
  <2> QED
    BY <2>1, <2>2, <2>3, MemoryInit
<1>2. IInv /\ [Next]_vars => IInv'
  BY MemoryStep, RecordsStep, WaitingStep, CalledStep
<1>3. IInv /\ [Next]_vars => [Kept]_vars
  BY AskedStep
<1> QED
  BY <1>1, <1>2, <1>3, PTL DEF Spec, WaitingPreserved

-----------------------------------------------------------------------------
(***************************************************************************)
(* The inductive invariant.                                                *)
(***************************************************************************)

InOrder(st, e) == \A step \in Started(st) : After(st, e, step)

\* Phase 2 resolves a waiting session on the spot.
InPhase2 == pc \in {"wait", "resume", "answered"} /\ ret = "phase_2"

\* The memory of a runner, and the file it was started from.
MemoryInv ==
  /\ InPhase2 \/ pc = "refused" => mem = disk
  /\ pc \in {"begin", "extracted", "summary"} =>
       mem.done = disk.done /\ mem.summary = disk.summary /\ mem.strikes = disk.strikes
  /\ pc = "return" =>
       /\ mem.summary = disk.summary
       /\ \/ disk.done \subseteq mem.done
          \/ /\ side.state # "waiting" /\ mem.strikes > disk.strikes
             /\ \A s \in disk.done \ mem.done : s[1] = "phase_1"

OrderInv ==
  /\ InOrder(disk, engine) /\ InOrder(mem, engine)
  /\ side.state = "waiting" => After(disk, engine, side.step)

\* What the runner is in the middle of.
RunnerInv ==
  /\ pc \in {"begin", "exec"} \/ InPhase2 => Serves(mem, engine, todo)
  /\ pc \in {"begin", "exec"} \/ (InPhase2 /\ pc # "answered") => Fresh(mem, Head(todo))
  /\ InPhase2 => RunsPhase2(mem, todo) /\ Head(todo) = side.step
  /\ pc = "answered" /\ ret = "phase_2" => side.step \in mem.done
  /\ pc = "exec" => mem.running /\ mem.step = Head(todo)
  /\ pc = "gate" =>
       /\ mem.running /\ mem.step = Whole("phase_1_5") /\ mem.strikes < MaxStrikes
       /\ Whole("phase_1_5") \notin mem.done
       /\ Whole("phase_0") \in mem.done /\ Whole("phase_1") \in mem.done
  /\ pc = "extracted" => Whole("phase_0") \in mem.done /\ Whole("phase_1") \notin mem.done
  /\ pc = "summary" => Prepared(mem)

\* Where a waiting sidecar is.
SideInv ==
  /\ pc \in {"wait", "resume"} => side.state = "waiting"
  /\ pc \in {"extracted", "summary"} => side.state # "waiting"
  /\ pc \in {"begin", "exec"} /\ side.state = "waiting" =>
       \A k \in 1 .. Len(todo) : todo[k] \in {Whole("phase_3_C"), Whole("phase_3_D")}

BaseInv == Records /\ MemoryIsDisk /\ WaitingInv /\ Called

IInv == TypeOK /\ BaseInv /\ MemoryInv /\ OrderInv /\ RunnerInv /\ SideInv

(***************************************************************************)
(* What the updates of a state change.                                     *)
(***************************************************************************)

\* What _update_state_running changes.
LEMMA RunningFields ==
  ASSUME NEW st, DOMAIN st = Fields, NEW s
  PROVE  /\ Running(st, s).step = s /\ Running(st, s).running = TRUE
         /\ Running(st, s).done = st.done /\ Running(st, s).strikes = st.strikes
         /\ Running(st, s).summary = st.summary
BY DEF Running, Fields

\* What _update_state_completed changes.
LEMMA CompletedFields ==
  ASSUME NEW st, DOMAIN st = Fields, NEW s
  PROVE  /\ Completed(st, s).step = st.step /\ Completed(st, s).running = FALSE
         /\ Completed(st, s).done = st.done \cup {s} /\ Completed(st, s).strikes = st.strikes
         /\ Completed(st, s).summary = st.summary
BY DEF Completed, Fields

\* What _update_state_error changes.
LEMMA ErroredFields ==
  ASSUME NEW st, DOMAIN st = Fields
  PROVE  /\ Errored(st).step = st.step /\ Errored(st).running = FALSE
         /\ Errored(st).done = st.done /\ Errored(st).strikes = st.strikes
         /\ Errored(st).summary = st.summary
BY DEF Errored, Fields

\* _rollback_phase_1.
LEMMA GateFailsFields ==
  ASSUME Records, GateFails
  PROVE  /\ mem'.step = mem.step /\ mem'.running = FALSE
         /\ mem'.done = {s \in mem.done : s[1] # "phase_1"}
         /\ mem'.strikes = mem.strikes + 1 /\ mem'.summary = mem.summary
<1>1. PICK st : st = Errored(mem)
  OBVIOUS
<1>2. /\ st.step = mem.step /\ st.running = FALSE /\ st.done = mem.done
      /\ st.strikes = mem.strikes /\ st.summary = mem.summary
  BY <1>1, ErroredFields DEF Records
<1>3. DOMAIN st = Fields
  BY <1>1 DEF Errored, Records
<1>4. mem' = [st EXCEPT !.done = {s \in @ : s[1] # "phase_1"}, !.strikes = @ + 1]
  BY <1>1 DEF GateFails
<1> QED
  BY <1>2, <1>3, <1>4 DEF Fields

\* What _refresh_domains_from_extracts changes.
LEMMA ExtractFields ==
  ASSUME Records, Extract
  PROVE  /\ mem'.step = mem.step /\ mem'.running = FALSE
         /\ mem'.done = mem.done \cup {Whole("phase_1")} /\ mem'.strikes = mem.strikes
         /\ \/ mem'.summary = mem.summary
            \/ \E present \in SUBSET ToSet(Extracted) :
                 mem'.summary = Only(Extracted, present)
<1>1. PICK st : st = Completed(mem, Whole("phase_1"))
  OBVIOUS
<1>2. /\ st.step = mem.step /\ st.running = FALSE /\ st.done = mem.done \cup {Whole("phase_1")}
      /\ st.strikes = mem.strikes /\ st.summary = mem.summary
  BY <1>1, CompletedFields DEF Records
<1>3. DOMAIN st = Fields
  BY <1>1 DEF Completed, Records
<1>4. PICK present \in SUBSET ToSet(Extracted) :
        mem' = [st EXCEPT !.summary = IF present = {} THEN @ ELSE Only(Extracted, present)]
  BY <1>1 DEF Extract
<1> QED
  BY <1>2, <1>3, <1>4 DEF Fields

\* The next step of the main loop.
LEMMA NextUpIsNext ==
  ASSUME TypeOK
  PROVE  GoodState(mem) /\ GoodState(disk) /\ IsNext(mem, engine, NextUp)
<1>1. GoodState(mem) /\ GoodState(disk)
  BY DEF TypeOK, StateOK, GoodState, GoodSummary, Parts
<1> QED
  BY <1>1, NextStepIsNext DEF NextUp

-----------------------------------------------------------------------------
(***************************************************************************)
(* The memory and the file.                                                *)
(***************************************************************************)

\* Every step keeps MemoryInv.
LEMMA MemoryInvStep == IInv /\ [Next]_vars => MemoryInv'
<1> SUFFICES ASSUME IInv, [Next]_vars PROVE MemoryInv'
  OBVIOUS
<1>1. Records /\ MemoryIsDisk /\ MemoryInv /\ WaitingInv
  BY DEF IInv, BaseInv
<1>2. CASE UNCHANGED vars
  BY <1>1, <1>2 DEF MemoryInv, InPhase2, vars
<1>3. CASE Start \/ Crash \/ Boot \/ Recover
  BY <1>3 DEF MemoryInv, InPhase2, Start, Launch, LaunchUnreadable, CliResume, Crash, Boot, Recover,
              Stop
<1>4. CASE Ended \/ Phase0Aborts \/ EnterGate
  BY <1>4 DEF MemoryInv, InPhase2, Ended, Phase0Aborts, EnterGate, Stop
<1>5. CASE Phase0
  <2>1. pc' = "return" /\ mem' = disk'
    BY <1>5 DEF Phase0, Leave
  <2> QED
    BY <2>1 DEF MemoryInv, InPhase2
<1>6. CASE EnterPhase
  <2>1. pc' \in {"summary", "begin"} /\ mem' = disk'
    BY <1>1, <1>6 DEF EnterPhase, MemoryIsDisk
  <2> QED
    BY <2>1 DEF MemoryInv, InPhase2
<1>7. CASE GatePasses
  <2>1. pc' = "return" /\ disk' = mem /\ mem'.done = mem.done \cup {Whole("phase_1_5")}
        /\ mem'.summary = mem.summary
    BY <1>1, <1>7, CompletedFields DEF GatePasses, Leave, MemoryIsDisk, Records
  <2> QED
    BY <2>1 DEF MemoryInv, InPhase2
<1>8. CASE GateFails
  <2>1. pc' = "return" /\ disk' = mem /\ side' = side /\ side.state # "waiting"
    BY <1>1, <1>8 DEF GateFails, Leave, MemoryIsDisk, WaitingInv
  <2>2. mem.strikes \in Nat
    BY DEF IInv, TypeOK, StateOK
  <2>3. mem'.done = {s \in mem.done : s[1] # "phase_1"} /\ mem'.strikes > mem.strikes
        /\ mem'.summary = mem.summary
    BY <1>1, <1>8, <2>2, GateFailsFields
  <2> QED
    BY <2>1, <2>3 DEF MemoryInv, InPhase2
<1>9. CASE BeginStep
  <2>1. pc' = "exec"
    BY <1>9 DEF BeginStep
  <2> QED
    BY <2>1 DEF MemoryInv, InPhase2
<1>10. CASE StepCompletes
  <2>1. disk' = mem' /\ pc' \in {"begin", "extracted", "summary", "return"}
    BY <1>10, RunnerLocations DEF StepCompletes
  <2> QED
    BY <2>1 DEF MemoryInv, InPhase2
<1>11. CASE StepFails
  <2>1. /\ disk' = mem /\ pc' \in {"begin", "extracted", "summary", "return"}
        /\ mem'.done = mem.done /\ mem'.summary = mem.summary /\ mem'.strikes = mem.strikes
    BY <1>1, <1>11, RunnerLocations, ErroredFields DEF StepFails, MemoryIsDisk, Records
  <2> QED
    BY <2>1 DEF MemoryInv, InPhase2
<1>12. CASE StepWaits
  <2>1. disk' = mem' /\ pc' \in {"wait", "begin", "extracted", "summary", "return"}
    BY <1>1, <1>12, RunnerLocations DEF StepWaits, MemoryIsDisk
  <2> QED
    BY <2>1 DEF MemoryInv, InPhase2
<1>13. CASE Extract
  <2>1. disk' = mem' /\ pc' = "return"
    BY <1>13 DEF Extract, Leave
  <2> QED
    BY <2>1 DEF MemoryInv, InPhase2
<1>14. CASE Summarise
  <2>1. /\ disk' = disk /\ pc' = "return"
        /\ mem'.done = mem.done \cup {Whole("phase_2_summary")} /\ mem'.summary = mem.summary
    BY <1>1, <1>14, CompletedFields DEF Summarise, Leave, Records
  <2>2. mem.done = disk.done /\ mem.summary = disk.summary
    BY <1>1, <1>14 DEF MemoryInv, Summarise
  <2> QED
    BY <2>1, <2>2 DEF MemoryInv, InPhase2
<1>15. CASE Return
  <2>1. disk' = mem' /\ pc' \in {"wait", "loop"}
    BY <1>15 DEF Return
  <2> QED
    BY <2>1 DEF MemoryInv, InPhase2
<1>16. CASE GiveUp
  <2>1. pc' = "off" \/ (pc' = "return" /\ mem' = disk')
    BY <1>1, <1>16 DEF GiveUp, Stop, MemoryIsDisk
  <2> QED
    BY <2>1 DEF MemoryInv, InPhase2
<1>17. CASE Answer
  BY <1>1, <1>17 DEF Answer, MemoryInv, InPhase2
<1>18. CASE ResumeCompletes \/ ResumeWaits \/ ResumeFails
  <2>1. pc' = "off" \/ (pc' \in {"wait", "answered", "refused"} /\ mem' = disk')
    BY <1>18 DEF ResumeCompletes, ResumeWaits, ResumeFails, Stop
  <2> QED
    BY <2>1 DEF MemoryInv, InPhase2
<1>19. CASE Answered
  <2>1. mem' = disk' /\ ret' = "none" /\ pc = "answered"
    BY <1>1, <1>19 DEF Answered, MemoryIsDisk
  <2>2. pc' \in {"recover", "loop", "boot", "summary", "begin"}
    <3>1. ret \in {"startup", "main", "phase_2", "cli"}
      BY <2>1 DEF IInv, BaseInv, Called
    <3> QED
      BY <1>19, <3>1 DEF Answered
  <2> QED
    BY <2>1, <2>2 DEF MemoryInv, InPhase2
<1>20. CASE Refused
  <2>1. pc' = "off" \/ (pc' = "return" /\ mem' = disk')
    BY <1>1, <1>20 DEF Refused, Stop, MemoryInv
  <2> QED
    BY <2>1 DEF MemoryInv, InPhase2
<1> QED
  BY <1>2, <1>3, <1>4, <1>5, <1>6, <1>7, <1>8, <1>9, <1>10, <1>11, <1>12, <1>13, <1>14, <1>15,
     <1>16, <1>17, <1>18, <1>19, <1>20 DEF Next, Run

-----------------------------------------------------------------------------
(***************************************************************************)
(* The order of the steps.                                                 *)
(***************************************************************************)

\* More is done, and what was started before or has what it needs.
LEMMA InOrderMore ==
  ASSUME NEW st, NEW other, NEW e, InOrder(st, e),
         other.summary = st.summary, st.done \subseteq other.done,
         \A s \in Started(other) : s \in Started(st) \/ After(st, e, s)
  PROVE  InOrder(other, e)
<1> SUFFICES ASSUME NEW s \in Started(other) PROVE After(other, e, s)
  BY DEF InOrder
<1>1. After(st, e, s)
  BY DEF InOrder
<1> QED
  BY <1>1, AfterMore

\* An order survives an error, and the start or end of a step that is due.
LEMMA StepsInOrder ==
  ASSUME NEW st, DOMAIN st = Fields, NEW e, InOrder(st, e), NEW s
  PROVE  /\ InOrder(Errored(st), e)
         /\ s \in Started(st) \/ After(st, e, s) =>
              InOrder(Running(st, s), e) /\ InOrder(Completed(st, s), e)
<1>1. Started(Errored(st)) \subseteq Started(st)
  BY ErroredFields DEF Started
<1>2. Started(Running(st, s)) \subseteq Started(st) \cup {s}
  <2>1. /\ Running(st, s).done = st.done /\ Running(st, s).running = TRUE
        /\ Running(st, s).step = s
    BY RunningFields
  <2> QED
    BY <2>1 DEF Started
<1>3. Started(Completed(st, s)) \subseteq Started(st) \cup {s}
  <2>1. Completed(st, s).done = st.done \cup {s} /\ Completed(st, s).running = FALSE
    BY CompletedFields
  <2> QED
    BY <2>1 DEF Started
<1>4. InOrder(Errored(st), e)
  BY <1>1, ErroredFields, InOrderMore
<1>5. ASSUME s \in Started(st) \/ After(st, e, s)
      PROVE  InOrder(Running(st, s), e) /\ InOrder(Completed(st, s), e)
  <2>1. InOrder(Running(st, s), e)
    <3>1. st.done \subseteq Running(st, s).done /\ Running(st, s).summary = st.summary
      BY RunningFields
    <3> QED
      BY <1>2, <1>5, <3>1, InOrderMore
  <2>2. st.done \subseteq Completed(st, s).done /\ Completed(st, s).summary = st.summary
    BY CompletedFields
  <2>3. InOrder(Completed(st, s), e)
    BY <1>3, <1>5, <2>2, InOrderMore
  <2> QED
    BY <2>1, <2>3
<1> QED
  BY <1>4, <1>5

\* Before Phase 1 is recorded, and before the gate is, little can be done.
LEMMA EarlyDone ==
  ASSUME NEW st, NEW e, GoodSummary(st.summary), InOrder(st, e), NEW s \in st.done
  PROVE  /\ s # Whole("phase_0") => Whole("phase_0") \in st.done
         /\ Whole("phase_1") \notin st.done => s = Whole("phase_0") \/ s[1] = "phase_1"
         /\ Whole("phase_1_5") \notin st.done => s = Whole("phase_0") \/ s[1] = "phase_1"
<1>1. s # Whole("phase_0") => After(st, e, s)
  BY DEF InOrder, Started
<1>2. CASE s # Whole("phase_0")
  BY <1>1, <1>2, AfterNeeds
<1> QED
  BY <1>2

\* Only the first steps are done, on a new summary.
LEMMA FewInOrder ==
  ASSUME NEW st, NEW e, GoodSummary(st.summary), ~ st.running,
         \A s \in st.done : s = Whole("phase_0") \/ (s[1] = "phase_1" /\ Whole("phase_0") \in st.done)
  PROVE  InOrder(st, e)
<1> SUFFICES ASSUME NEW s \in st.done PROVE After(st, e, s)
  BY DEF InOrder, Started
<1> QED
  BY AfterFirst

\* A waiting session's step has still what it needs.
LEMMA SideStays ==
  ASSUME OrderInv, engine' = engine, side' = side,
         side.state = "waiting" => disk'.summary = disk.summary /\ disk.done \subseteq disk'.done
  PROVE  side'.state = "waiting" => After(disk', engine', side'.step)
<1>1. CASE side.state = "waiting"
  <2>1. After(disk, engine, side.step)
    BY <1>1 DEF OrderInv
  <2>2. After(disk', engine, side.step)
    BY <1>1, <2>1, AfterMore
  <2> QED
    BY <2>2
<1> QED
  BY <1>1

\* Every step keeps OrderInv.
LEMMA OrderStep == IInv /\ [Next]_vars => OrderInv'
<1> SUFFICES ASSUME IInv, [Next]_vars PROVE OrderInv'
  OBVIOUS
<1>1. /\ Records /\ MemoryIsDisk /\ MemoryInv /\ WaitingInv /\ OrderInv /\ RunnerInv /\ SideInv
      /\ DOMAIN mem = Fields /\ DOMAIN disk = Fields
  BY DEF IInv, BaseInv, Records
<1>2. InOrder(disk, engine) /\ InOrder(mem, engine)
  BY <1>1 DEF OrderInv
<1>3. /\ GoodState(mem) /\ GoodState(disk) /\ IsNext(mem, engine, NextUp)
      /\ GoodSummary(mem.summary) /\ GoodSummary(disk.summary)
  BY NextUpIsNext DEF IInv, GoodState
<1>4. InOrder(Default, engine)
  BY DEF InOrder, Started, Default
<1>5. CASE UNCHANGED vars
  BY <1>1, <1>5 DEF OrderInv, vars
<1>6. CASE Launch \/ LaunchUnreadable \/ CliResume \/ Answer
  <2>1. UNCHANGED <<engine, disk, mem, side>>
    BY <1>6 DEF Launch, LaunchUnreadable, CliResume, Answer
  <2> QED
    BY <1>1, <2>1 DEF OrderInv
<1>7. CASE Crash \/ Ended \/ Phase0Aborts
  <2>1. UNCHANGED <<engine, disk, side>> /\ mem' = Default
    BY <1>7 DEF Crash, Ended, Phase0Aborts, Stop
  <2> QED
    BY <1>1, <1>4, <2>1 DEF OrderInv
<1>8. CASE Boot
  <2>1. UNCHANGED <<engine, disk>> /\ mem' \in {disk, Default} /\ side' \in {side, NoSide}
    BY <1>8 DEF Boot, Stop
  <2> QED
    BY <1>1, <1>4, <2>1 DEF OrderInv, NoSide
<1>9. CASE Recover
  <2>1. UNCHANGED <<engine, side>> /\ disk' = mem' /\ side.state # "waiting"
    BY <1>1, <1>9 DEF Recover, WaitingInv
  <2>2. \/ mem' = mem \/ mem' = Errored(mem)
        \/ mem.running /\ mem' = Completed(mem, mem.step)
    BY <1>9 DEF Recover
  <2>3. mem.running => mem.step \in Started(mem)
    BY DEF Started
  <2>4. InOrder(mem', engine)
    BY <1>1, <1>2, <2>2, <2>3, StepsInOrder
  <2> QED
    BY <2>1, <2>4 DEF OrderInv
<1>10. CASE Phase0
  <2>1. UNCHANGED <<engine, side>> /\ disk' = mem' /\ side.state # "waiting"
    BY <1>1, <1>10 DEF Phase0, WaitingInv
  <2>2. mem'.done = {Whole("phase_0")} /\ mem'.running = FALSE /\ mem'.summary = Scanned
    BY <1>10 DEF Phase0
  <2>3. GoodSummary(mem'.summary)
    BY <2>2, SummariesAssumption DEF GoodSummary, Parts
  <2>4. InOrder(mem', engine)
    BY <2>2, <2>3, FewInOrder
  <2> QED
    BY <2>1, <2>4 DEF OrderInv
<1>11. CASE EnterGate
  <2>1. UNCHANGED <<engine, side>> /\ disk' = mem' /\ side.state # "waiting"
        /\ mem' = Running(mem, NextUp) /\ NextUp = Whole("phase_1_5")
    BY <1>1, <1>11 DEF EnterGate, WaitingInv
  <2>2. After(mem, engine, NextUp)
    <3>1. {Whole("phase_0"), Whole("phase_1")} \subseteq mem.done
      BY <1>3, <2>1 DEF IsNext, Whole, LatePhases
    <3> QED
      BY <1>3, <2>1, <3>1, AfterFirst
  <2>3. InOrder(mem', engine)
    BY <1>1, <1>2, <2>1, <2>2, StepsInOrder
  <2> QED
    BY <2>1, <2>3 DEF OrderInv
<1>12. CASE EnterPhase \/ GiveUp \/ Refused
  <2>1. /\ UNCHANGED <<engine, disk>> /\ mem' \in {mem, Default} /\ side'.step = side.step
        /\ side'.state = "waiting" => side.state = "waiting"
    BY <1>1, <1>12 DEF EnterPhase, GiveUp, Refused, Stop, Records
  <2> QED
    BY <1>1, <1>4, <2>1 DEF OrderInv
<1>13. CASE GatePasses
  <2>1. UNCHANGED <<engine, disk, side>> /\ mem' = Completed(mem, Whole("phase_1_5"))
        /\ pc = "gate"
    BY <1>13 DEF GatePasses
  <2>2. Whole("phase_1_5") \in Started(mem)
    BY <1>1, <2>1 DEF RunnerInv, Started
  <2>3. InOrder(mem', engine)
    BY <1>1, <1>2, <2>1, <2>2, StepsInOrder
  <2> QED
    BY <1>1, <2>1, <2>3 DEF OrderInv
<1>14. CASE GateFails
  <2>1. UNCHANGED <<engine, disk, side>> /\ pc = "gate"
    BY <1>14 DEF GateFails
  <2>2. /\ mem'.done = {s \in mem.done : s[1] # "phase_1"} /\ mem'.running = FALSE
        /\ mem'.summary = mem.summary
    BY <1>1, <1>14, GateFailsFields
  <2>3. \A s \in mem'.done : s = Whole("phase_0")
    <3>1. Whole("phase_1_5") \notin mem.done
      BY <1>1, <2>1 DEF RunnerInv
    <3> QED
      BY <1>2, <1>3, <2>2, <3>1, EarlyDone
  <2>4. InOrder(mem', engine)
    BY <1>3, <2>2, <2>3, FewInOrder
  <2> QED
    BY <1>1, <2>1, <2>4 DEF OrderInv
<1>15. CASE BeginStep
  <2>1. UNCHANGED <<engine, side>> /\ disk' = mem' /\ mem' = Running(mem, Head(todo)) /\ pc = "begin"
    BY <1>15 DEF BeginStep
  <2>2. After(mem, engine, Head(todo))
    BY <1>1, <1>3, <2>1, ServesAfter DEF RunnerInv
  <2>3. InOrder(mem', engine)
    BY <1>1, <1>2, <2>1, <2>2, StepsInOrder
  <2>4. disk'.summary = disk.summary /\ disk'.done = disk.done
    <3>1. mem'.summary = mem.summary /\ mem'.done = mem.done
      BY <1>1, <2>1, RunningFields
    <3> QED
      BY <1>1, <2>1, <3>1 DEF MemoryInv
  <2> QED
    BY <1>1, <2>1, <2>3, <2>4, SideStays DEF OrderInv
<1>16. CASE StepCompletes
  <2>1. /\ UNCHANGED <<engine, side>> /\ disk' = mem' /\ pc = "exec"
        /\ mem' = mem \/ mem' = Completed(mem, Head(todo))
    BY <1>16 DEF StepCompletes
  <2>2. Head(todo) \in Started(mem)
    BY <1>1, <2>1 DEF RunnerInv, Started
  <2>3. InOrder(mem', engine)
    BY <1>1, <1>2, <2>1, <2>2, StepsInOrder
  <2>4. disk'.summary = disk.summary /\ disk.done \subseteq disk'.done
    <3>1. mem = disk
      BY <1>1, <2>1 DEF MemoryIsDisk
    <3>2. \A s : /\ Completed(mem, s).summary = mem.summary
                 /\ Completed(mem, s).done = mem.done \cup {s}
      BY <1>1, CompletedFields
    <3> QED
      BY <2>1, <3>1, <3>2
  <2> QED
    BY <1>1, <2>1, <2>3, <2>4, SideStays DEF OrderInv
<1>17. CASE StepFails
  <2>1. UNCHANGED <<engine, disk, side>> /\ mem' = Errored(mem)
    BY <1>17 DEF StepFails
  <2>2. InOrder(mem', engine)
    BY <1>1, <1>2, <2>1, StepsInOrder
  <2> QED
    BY <1>1, <2>1, <2>2 DEF OrderInv
<1>18. CASE StepWaits
  <2>1. /\ UNCHANGED <<engine, disk, mem>> /\ side'.step = Head(todo) /\ mem = disk
        /\ pc = "exec"
    BY <1>1, <1>18 DEF StepWaits, Waiting, MemoryIsDisk
  <2>2. After(mem, engine, Head(todo))
    BY <1>1, <1>3, <2>1, ServesAfter DEF RunnerInv
  <2> QED
    BY <1>1, <2>1, <2>2 DEF OrderInv
<1>19. CASE Extract
  <2>1. UNCHANGED <<engine, side>> /\ disk' = mem' /\ pc = "extracted" /\ side.state # "waiting"
    BY <1>1, <1>19 DEF Extract, SideInv
  <2>2. /\ mem'.done = mem.done \cup {Whole("phase_1")} /\ mem'.running = FALSE
        /\ GoodSummary(mem'.summary)
    <3>1. \A present : GoodSummary(Only(Extracted, present))
      BY ExtractedPart DEF GoodSummary, Parts
    <3> QED
      BY <1>1, <1>3, <1>19, <3>1, ExtractFields
  <2>3. Whole("phase_0") \in mem.done /\ Whole("phase_1") \notin mem.done
    BY <1>1, <2>1 DEF RunnerInv
  <2>4. \A s \in mem'.done : s = Whole("phase_0")
                               \/ (s[1] = "phase_1" /\ Whole("phase_0") \in mem'.done)
    <3>1. \A s \in mem.done : s = Whole("phase_0") \/ s[1] = "phase_1"
      BY <1>2, <1>3, <2>3, EarlyDone
    <3> QED
      BY <2>2, <2>3, <3>1 DEF Whole
  <2>5. InOrder(mem', engine)
    BY <2>2, <2>4, FewInOrder
  <2> QED
    BY <2>1, <2>5 DEF OrderInv
<1>20. CASE Summarise
  <2>1. UNCHANGED <<engine, disk, side>> /\ mem' = Completed(mem, Whole("phase_2_summary"))
        /\ pc = "summary"
    BY <1>20 DEF Summarise
  <2>2. After(mem, engine, Whole("phase_2_summary"))
    <3>1. Prepared(mem) /\ Whole("phase_2_summary")[1] = "phase_2_summary"
      BY <1>1, <2>1 DEF RunnerInv, Whole
    <3> QED
      BY <1>3, <3>1, AfterFirst
  <2>3. InOrder(mem', engine)
    BY <1>1, <1>2, <2>1, <2>2, StepsInOrder
  <2> QED
    BY <1>1, <2>1, <2>3 DEF OrderInv
<1>21. CASE Return
  <2>1. UNCHANGED <<engine, mem, side>> /\ disk' = mem /\ pc = "return"
    BY <1>21 DEF Return
  <2>2. side.state = "waiting" => disk'.summary = disk.summary /\ disk.done \subseteq disk'.done
    BY <1>1, <2>1 DEF MemoryInv
  <2> QED
    BY <1>1, <1>2, <2>1, <2>2, SideStays DEF OrderInv
<1>22. CASE ResumeCompletes
  <2>1. UNCHANGED <<engine, side>> /\ disk' = mem' /\ mem' = Completed(disk, side.step)
        /\ pc = "resume"
    BY <1>22 DEF ResumeCompletes
  <2>2. side.state = "waiting" /\ After(disk, engine, side.step)
    BY <1>1, <2>1 DEF SideInv, OrderInv
  <2>3. InOrder(mem', engine)
    BY <1>1, <1>2, <2>1, <2>2, StepsInOrder
  <2>4. disk'.summary = disk.summary /\ disk.done \subseteq disk'.done
    <3>1. \A s : /\ Completed(disk, s).summary = disk.summary
                 /\ Completed(disk, s).done = disk.done \cup {s}
      BY <1>1, CompletedFields
    <3> QED
      BY <2>1, <3>1
  <2> QED
    BY <1>1, <2>1, <2>3, <2>4, SideStays DEF OrderInv
<1>23. CASE ResumeWaits
  <2>1. UNCHANGED <<engine, disk, side>> /\ mem' \in {Default, disk}
    BY <1>23 DEF ResumeWaits, Stop
  <2> QED
    BY <1>1, <1>4, <2>1 DEF OrderInv
<1>24. CASE ResumeFails
  <2>1. UNCHANGED <<engine, side>> /\ disk' = mem' /\ mem' = Errored(disk)
    BY <1>24 DEF ResumeFails
  <2>2. InOrder(mem', engine)
    BY <1>1, <1>2, <2>1, StepsInOrder
  <2>3. disk'.summary = disk.summary /\ disk'.done = disk.done
    BY <1>1, <2>1, ErroredFields
  <2> QED
    BY <1>1, <2>1, <2>2, <2>3, SideStays DEF OrderInv
<1>25. CASE Answered
  <2>1. UNCHANGED <<engine, disk, mem>> /\ side' = NoSide
    BY <1>25 DEF Answered
  <2> QED
    BY <1>1, <2>1 DEF OrderInv, NoSide
<1> QED
  BY <1>5, <1>6, <1>7, <1>8, <1>9, <1>10, <1>11, <1>12, <1>13, <1>14, <1>15, <1>16, <1>17, <1>18,
     <1>19, <1>20, <1>21, <1>22, <1>23, <1>24, <1>25 DEF Next, Run, Start

-----------------------------------------------------------------------------
(***************************************************************************)
(* What the runner is in the middle of.                                    *)
(***************************************************************************)

\* If the first session of a runner is fresh, they all are.
LEMMA ServesFresh ==
  ASSUME NEW st, NEW e, NEW steps, Serves(st, e, steps), Fresh(st, Head(steps))
  PROVE  AllFresh(st, steps)
<1> SUFFICES ASSUME NEW k \in 1 .. Len(steps) PROVE Fresh(st, steps[k])
  BY DEF AllFresh
<1>1. CASE k = 1
  BY <1>1, ServesFirst
<1>2. CASE k # 1
  <2>1. k \in 2 .. Len(steps)
    BY <1>2, ServesFirst
  <2> QED
    BY <2>1 DEF Serves, RestFresh
<1> QED
  BY <1>1, <1>2

\* The sessions a runner begins with.
LEMMA GoodServes ==
  ASSUME NEW st, NEW e, NEW steps, GoodSessions(st, e, steps), steps # <<>>
  PROVE  Serves(st, e, steps) /\ Fresh(st, Head(steps))
<1>1. steps \in Seq(Steps) /\ 1 \in 1 .. Len(steps) /\ Head(steps) = steps[1]
      /\ \A k \in 2 .. Len(steps) : k \in 1 .. Len(steps)
  BY DEF GoodSessions
<1> QED
  BY <1>1 DEF GoodSessions, Serves, AllFresh, RestFresh

\* The first of fresh sessions is fresh.
LEMMA FreshFirst ==
  ASSUME NEW st, NEW steps \in Seq(Steps), steps # <<>>, AllFresh(st, steps)
  PROVE  Fresh(st, Head(steps))
<1>1. 1 \in 1 .. Len(steps) /\ Head(steps) = steps[1]
  OBVIOUS
<1> QED
  BY <1>1 DEF AllFresh

\* Where there is nothing to say.
LEMMA RunnerElsewhere ==
  ASSUME \/ pc' \in {"off", "boot", "recover", "loop", "return", "refused"}
         \/ pc' \in {"wait", "resume", "answered"} /\ ret' # "phase_2"
  PROVE  RunnerInv'
BY DEF RunnerInv, InPhase2

\* A completed session leaves the runner the sessions that are still due.
LEMMA CompletesRunner ==
  ASSUME IInv, StepCompletes
  PROVE  RunnerInv'
<1> DEFINE t == Tail(todo)
<1>1. /\ Serves(mem, engine, todo) /\ Fresh(mem, Head(todo)) /\ DOMAIN mem = Fields
      /\ engine' = engine /\ AfterSession(t)
  BY DEF IInv, BaseInv, Records, RunnerInv, StepCompletes
<1>2. /\ mem'.summary = mem.summary /\ mem.done \subseteq mem'.done
      /\ mem'.done \subseteq mem.done \cup {Head(todo)}
      /\ \/ Head(todo) \in mem'.done /\ Head(todo) # Whole("phase_1")
         \/ Head(todo) = Whole("phase_1")
      /\ Whole("phase_1") \in mem'.done => Whole("phase_1") \in mem.done
  <2>1. CASE Head(todo) = Whole("phase_1")
    <3>1. mem' = mem
      BY <2>1 DEF StepCompletes
    <3> QED
      BY <2>1, <3>1
  <2>2. CASE Head(todo) # Whole("phase_1")
    <3>1. mem' = Completed(mem, Head(todo))
      BY <2>2 DEF StepCompletes
    <3>2. mem'.done = mem.done \cup {Head(todo)} /\ mem'.summary = mem.summary
      BY <1>1, <3>1, CompletedFields
    <3> QED
      BY <2>2, <3>2
  <2> QED
    BY <2>1, <2>2
<1>3. RestFresh(mem', todo)
  BY <1>1, <1>2, ServesRecorded
<1>4. /\ t \in Seq(Steps)
      /\ t # <<>> => Serves(mem', engine, t) /\ AllFresh(mem', t)
      /\ RunsPhase2(mem, todo) => RunsPhase2(mem', t)
  BY <1>1, <1>2, <1>3, ServesTail
<1> HIDE DEF t
<1>5. CASE t # <<>>
  <2>1. pc' = "begin" /\ todo' = t
    BY <1>1, <1>5 DEF AfterSession
  <2>2. Serves(mem', engine', todo') /\ Fresh(mem', Head(todo'))
    BY <1>1, <1>4, <1>5, <2>1, FreshFirst
  <2> QED
    BY <2>1, <2>2 DEF RunnerInv, InPhase2
<1>6. CASE t = <<>> /\ Head(todo)[1] = "phase_1"
  <2>1. pc' = "extracted"
    BY <1>1, <1>6 DEF AfterSession
  <2>2. Whole("phase_0") \in mem.done /\ Whole("phase_1") \notin mem.done
    BY <1>1, <1>6, ServesWhich DEF RunsPhase1
  <2> QED
    BY <1>2, <2>1, <2>2 DEF RunnerInv, InPhase2
<1>7. CASE t = <<>> /\ Head(todo)[1] \in {"phase_2", "phase_2_conflict"}
  <2>1. pc' = "summary"
    BY <1>1, <1>7 DEF AfterSession
  <2>2. Prepared(mem')
    BY <1>1, <1>4, <1>7, ServesWhich DEF RunsPhase2
  <2> QED
    BY <2>1, <2>2 DEF RunnerInv, InPhase2
<1>8. CASE t = <<>> /\ Head(todo)[1] \notin {"phase_1", "phase_2", "phase_2_conflict"}
  <2>1. pc' = "return"
    BY <1>1, <1>8 DEF AfterSession
  <2> QED
    BY <2>1, RunnerElsewhere
<1> QED
  BY <1>5, <1>6, <1>7, <1>8

\* Group B is given up, whether it fails or waits.
LEMMA SkipRunner ==
  ASSUME IInv, pc = "exec", Head(todo)[1] = "phase_3_B", AfterSession(SkipGroupB),
         mem'.done = mem.done, mem'.summary = mem.summary, engine' = engine
  PROVE  /\ RunnerInv' /\ pc' \in {"begin", "return"} /\ todo' \in Seq(Steps)
         /\ \A k \in 1 .. Len(todo') : todo'[k] \in {Whole("phase_3_C"), Whole("phase_3_D")}
<1> DEFINE t == SkipGroupB
<1>1. Serves(mem, engine, todo) /\ Fresh(mem, Head(todo))
  BY DEF IInv, RunnerInv
<1>2. AllFresh(mem, todo)
  BY <1>1, ServesFresh
<1>3. /\ t \in Seq(Steps)
      /\ \A k \in 1 .. Len(t) : t[k] \in {Whole("phase_3_C"), Whole("phase_3_D")}
      /\ t # <<>> => Serves(mem, engine, t) /\ AllFresh(mem, t)
  BY <1>1, <1>2, ServesGroups DEF SkipGroupB
<1> HIDE DEF t
<1>4. todo' = t /\ pc' = (IF t # <<>> THEN "begin" ELSE "return")
  BY DEF AfterSession, t
<1>5. CASE t # <<>>
  <2>1. Serves(mem', engine', todo') /\ Fresh(mem', Head(todo'))
    BY <1>3, <1>4, <1>5, SameProgress, FreshFirst
  <2>2. RunnerInv'
    BY <1>4, <1>5, <2>1 DEF RunnerInv, InPhase2
  <2> QED
    BY <1>3, <1>4, <1>5, <2>2
<1>6. CASE t = <<>>
  BY <1>3, <1>4, <1>6, RunnerElsewhere
<1> QED
  BY <1>5, <1>6

\* So does an answer given inside Phase 2.
LEMMA AnsweredRunner ==
  ASSUME IInv, Answered, ret = "phase_2"
  PROVE  RunnerInv' /\ todo' \in Seq(Steps)
<1> DEFINE t == Tail(todo)
<1>1. /\ pc = "answered" /\ mem' = mem /\ engine' = engine /\ ret' = "none"
      /\ todo' = t /\ pc' = (IF t = <<>> THEN "summary" ELSE "begin")
  BY DEF Answered
<1>2. /\ Serves(mem, engine, todo) /\ RunsPhase2(mem, todo)
      /\ Head(todo) = side.step /\ side.step \in mem.done
  BY <1>1 DEF IInv, RunnerInv, InPhase2
<1>3. Head(todo) # Whole("phase_1")
  <2>1. 1 \in 1 .. Len(todo) /\ Head(todo) = todo[1]
    BY <1>2, ServesFirst
  <2> QED
    BY <1>2, <2>1 DEF RunsPhase2, Whole
<1>4. RestFresh(mem, todo)
  BY <1>2 DEF Serves
<1>5. /\ t \in Seq(Steps)
      /\ t # <<>> => Serves(mem, engine, t) /\ AllFresh(mem, t)
      /\ RunsPhase2(mem, t)
  BY <1>2, <1>3, <1>4, ServesTail
<1> HIDE DEF t
<1>6. CASE t # <<>>
  <2>1. Serves(mem', engine', todo') /\ Fresh(mem', Head(todo'))
    BY <1>1, <1>5, <1>6, FreshFirst
  <2> QED
    BY <1>1, <1>5, <1>6, <2>1 DEF RunnerInv, InPhase2
<1>7. CASE t = <<>>
  <2>1. Prepared(mem')
    BY <1>1, <1>5 DEF RunsPhase2
  <2> QED
    BY <1>1, <1>5, <1>7, <2>1 DEF RunnerInv, InPhase2
<1> QED
  BY <1>6, <1>7

\* Every step keeps RunnerInv.
LEMMA RunnerStep == IInv /\ [Next]_vars => RunnerInv'
<1> SUFFICES ASSUME IInv, [Next]_vars PROVE RunnerInv'
  OBVIOUS
<1>1. /\ Records /\ MemoryIsDisk /\ MemoryInv /\ RunnerInv /\ Called
      /\ DOMAIN mem = Fields /\ DOMAIN disk = Fields
  BY DEF IInv, BaseInv, Records
<1>2. GoodState(mem) /\ IsNext(mem, engine, NextUp)
  BY NextUpIsNext DEF IInv
<1>3. CASE UNCHANGED vars
  BY <1>1, <1>3 DEF RunnerInv, InPhase2, vars
<1>4. CASE Start \/ Crash
  <2>1. pc' \in {"off", "boot"} \/ (pc' = "resume" /\ ret' # "phase_2")
    BY <1>4 DEF Start, Launch, LaunchUnreadable, CliResume, Crash, Stop
  <2> QED
    BY <2>1, RunnerElsewhere
<1>5. CASE Boot
  <2>1. pc' \in {"off", "recover"} \/ (pc' = "wait" /\ ret' # "phase_2")
    BY <1>5 DEF Boot, Stop
  <2> QED
    BY <2>1, RunnerElsewhere
<1>6. CASE Recover \/ Ended \/ Phase0Aborts \/ Phase0 \/ GatePasses \/ GateFails \/ Extract
           \/ Summarise \/ GiveUp \/ Refused \/ ResumeFails
  <2>1. pc' \in {"off", "loop", "return", "refused"}
    BY <1>6 DEF Recover, Ended, Phase0Aborts, Phase0, GatePasses, GateFails, Extract, Summarise,
                GiveUp, Refused, ResumeFails, Stop, Leave
  <2> QED
    BY <2>1, RunnerElsewhere
<1>7. CASE EnterGate
  <2>1. pc' = "gate" /\ mem' = Running(mem, NextUp) /\ NextUp = Whole("phase_1_5")
    BY <1>7 DEF EnterGate
  <2>2. /\ Whole("phase_1_5") \notin mem.done /\ ~ OutOfRetries(mem)
        /\ Whole("phase_0") \in mem.done /\ Whole("phase_1") \in mem.done
    BY <1>2, <2>1 DEF IsNext, Whole, LatePhases
  <2>3. mem.strikes < MaxStrikes
    <3>1. mem.strikes \in Nat
      BY DEF IInv, TypeOK, StateOK
    <3> QED
      BY <2>2, <3>1, MaxStrikesAssumption DEF OutOfRetries
  <2>4. mem'.running /\ mem'.step = Whole("phase_1_5") /\ mem'.done = mem.done
        /\ mem'.strikes = mem.strikes
    BY <1>1, <2>1, RunningFields
  <2> QED
    BY <2>1, <2>2, <2>3, <2>4 DEF RunnerInv, InPhase2
<1>8. CASE EnterPhase
  <2>1. /\ NextUp[1] \notin {"phase_0", "phase_1_5", "done", "stop"}
        /\ todo' = SessionsOf(NextUp, mem) /\ mem' = mem /\ engine' = engine
        /\ pc' = IF todo' = <<>> THEN "summary" ELSE "begin"
    BY <1>8 DEF EnterPhase
  <2>2. GoodSessions(mem, engine, todo') /\ (todo' = <<>> => Prepared(mem))
    BY <1>2, <2>1, SessionsAreGood
  <2>3. CASE todo' # <<>>
    <3>1. Serves(mem', engine', todo') /\ Fresh(mem', Head(todo'))
      BY <2>1, <2>2, <2>3, GoodServes
    <3> QED
      BY <2>1, <2>3, <3>1 DEF RunnerInv, InPhase2
  <2>4. CASE todo' = <<>>
    BY <2>1, <2>2, <2>4 DEF RunnerInv, InPhase2
  <2> QED
    BY <2>3, <2>4
<1>9. CASE BeginStep
  <2>1. /\ pc = "begin" /\ pc' = "exec" /\ mem' = Running(mem, Head(todo))
        /\ UNCHANGED <<todo, engine>>
    BY <1>9 DEF BeginStep
  <2>2. /\ mem'.done = mem.done /\ mem'.summary = mem.summary
        /\ mem'.running = TRUE /\ mem'.step = Head(todo)
    BY <1>1, <2>1, RunningFields
  <2>3. Serves(mem, engine, todo) /\ Fresh(mem, Head(todo))
    BY <1>1, <2>1 DEF RunnerInv
  <2>4. Serves(mem', engine', todo') /\ Fresh(mem', Head(todo'))
    BY <2>1, <2>2, <2>3, SameProgress
  <2> QED
    BY <2>1, <2>2, <2>4 DEF RunnerInv, InPhase2
<1>10. CASE StepCompletes
  BY <1>10, CompletesRunner
<1>11. CASE StepFails
  <2>1. /\ pc = "exec" /\ mem'.done = mem.done /\ mem'.summary = mem.summary /\ engine' = engine
        /\ (Head(todo)[1] = "phase_3_B" /\ AfterSession(SkipGroupB)) \/ Leave
    BY <1>1, <1>11, ErroredFields DEF StepFails
  <2> QED
    BY <2>1, SkipRunner, RunnerElsewhere DEF Leave
<1>12. CASE StepWaits
  <2>1. /\ pc = "exec" /\ mem' = mem /\ engine' = engine /\ side'.step = Head(todo)
        /\ Serves(mem, engine, todo) /\ Fresh(mem, Head(todo))
    BY <1>1, <1>12 DEF StepWaits, Waiting, RunnerInv
  <2>2. CASE Head(todo)[1] \in {"phase_2", "phase_2_conflict"}
    <3>1. pc' = "wait" /\ ret' = "phase_2" /\ todo' = todo
      BY <1>12, <2>2 DEF StepWaits
    <3>2. RunsPhase2(mem, todo)
      BY <2>1, <2>2, ServesWhich
    <3> QED
      BY <2>1, <3>1, <3>2 DEF RunnerInv, InPhase2
  <2>3. CASE Head(todo)[1] = "phase_3_B"
    <3>1. AfterSession(SkipGroupB)
      BY <1>12, <2>3 DEF StepWaits
    <3> QED
      BY <2>1, <2>3, <3>1, SkipRunner
  <2>4. CASE Head(todo)[1] \notin {"phase_2", "phase_2_conflict", "phase_3_B"}
    <3>1. pc' = "return"
      BY <1>12, <2>4, RunnerLocations DEF StepWaits
    <3> QED
      BY <3>1, RunnerElsewhere
  <2> QED
    BY <2>2, <2>3, <2>4
<1>13. CASE Return
  <2>1. pc' = "loop" \/ (pc' = "wait" /\ ret' # "phase_2")
    BY <1>13 DEF Return
  <2> QED
    BY <2>1, RunnerElsewhere
<1>14. CASE Answer
  <2>1. pc = "wait" /\ pc' = "resume" /\ UNCHANGED <<engine, mem, todo, ret, side>>
    BY <1>14 DEF Answer
  <2> QED
    BY <1>1, <2>1 DEF RunnerInv, InPhase2
<1>15. CASE ResumeCompletes
  <2>1. /\ pc = "resume" /\ pc' = "answered" /\ mem' = Completed(disk, side.step)
        /\ UNCHANGED <<engine, todo, ret, side>>
    BY <1>15 DEF ResumeCompletes
  <2>2. CASE ret # "phase_2"
    BY <2>1, <2>2, RunnerElsewhere
  <2>3. CASE ret = "phase_2"
    <3>1. /\ mem = disk /\ Serves(mem, engine, todo) /\ RunsPhase2(mem, todo)
          /\ Head(todo) = side.step
      BY <1>1, <2>1, <2>3 DEF RunnerInv, MemoryInv, InPhase2
    <3>2. mem'.done = mem.done \cup {Head(todo)} /\ mem'.summary = mem.summary
      <4>1. \A s : /\ Completed(disk, s).summary = disk.summary
                   /\ Completed(disk, s).done = disk.done \cup {s}
        BY <1>1, CompletedFields
      <4> QED
        BY <2>1, <3>1, <4>1
    <3>3. mem.done \subseteq mem'.done /\ mem'.done \subseteq mem.done \cup {Head(todo)}
          /\ Head(todo) \in mem'.done
      BY <3>2
    <3>4. Serves(mem', engine, todo) /\ RunsPhase2(mem', todo)
      BY <3>1, <3>2, <3>3, ServesRecorded
    <3> QED
      BY <2>1, <2>3, <3>1, <3>3, <3>4 DEF RunnerInv, InPhase2
  <2> QED
    BY <2>2, <2>3
<1>16. CASE ResumeWaits
  <2>1. CASE ret # "phase_2"
    <3>1. pc' = "off" \/ (pc' = "wait" /\ ret' # "phase_2")
      BY <1>16, <2>1 DEF ResumeWaits, Stop
    <3> QED
      BY <3>1, RunnerElsewhere
  <2>2. CASE ret = "phase_2"
    <3>1. /\ pc = "resume" /\ pc' = "wait" /\ mem' = disk
          /\ UNCHANGED <<engine, todo, ret, side>>
      BY <1>16, <2>2 DEF ResumeWaits
    <3>2. mem = disk
      BY <1>1, <2>2, <3>1 DEF MemoryInv, InPhase2
    <3> QED
      BY <1>1, <2>2, <3>1, <3>2 DEF RunnerInv, InPhase2
  <2> QED
    BY <2>1, <2>2
<1>17. CASE Answered
  <2>1. ret \in {"startup", "main", "phase_2", "cli"}
    BY <1>1, <1>17 DEF Called, Answered
  <2>2. CASE ret = "phase_2"
    BY <1>17, <2>2, AnsweredRunner
  <2>3. CASE ret # "phase_2"
    <3>1. pc' \in {"recover", "loop", "boot"}
      BY <1>17, <2>1, <2>3 DEF Answered
    <3> QED
      BY <3>1, RunnerElsewhere
  <2> QED
    BY <2>2, <2>3
<1> QED
  BY <1>3, <1>4, <1>5, <1>6, <1>7, <1>8, <1>9, <1>10, <1>11, <1>12, <1>13, <1>14, <1>15, <1>16,
     <1>17 DEF Next, Run

-----------------------------------------------------------------------------
(***************************************************************************)
(* Where a waiting sidecar is.                                             *)
(***************************************************************************)

\* Every step keeps SideInv.
LEMMA SideStep == IInv /\ [Next]_vars => SideInv'
<1> SUFFICES ASSUME IInv, [Next]_vars PROVE SideInv'
  OBVIOUS
<1>1. /\ Records /\ SideInv /\ WaitingInv /\ RunnerInv /\ Called /\ DOMAIN mem = Fields
  BY DEF IInv, BaseInv, Records
<1>2. CASE UNCHANGED vars
  BY <1>1, <1>2 DEF SideInv, vars
<1>3. CASE Start \/ Crash \/ Boot \/ Recover \/ Ended \/ Phase0Aborts \/ Phase0 \/ EnterGate
           \/ GatePasses \/ GateFails \/ Extract \/ Summarise \/ GiveUp \/ Refused \/ Return
           \/ ResumeCompletes \/ ResumeFails
  <2>1. \/ pc' \in {"off", "boot", "loop", "recover", "gate", "return", "answered", "refused"}
        \/ pc' \in {"wait", "resume"} /\ side'.state = "waiting"
    BY <1>3 DEF Start, Launch, LaunchUnreadable, CliResume, Crash, Boot, Recover, Ended,
                Phase0Aborts, Phase0, EnterGate, GatePasses, GateFails, Extract, Summarise, GiveUp,
                Refused, Return, ResumeCompletes, ResumeFails, Stop, Leave, IsWaiting
  <2> QED
    BY <2>1 DEF SideInv
<1>4. CASE EnterPhase
  <2>1. pc' \in {"begin", "summary"} /\ side' = side /\ side.state # "waiting"
    BY <1>1, <1>4 DEF EnterPhase, WaitingInv
  <2> QED
    BY <2>1 DEF SideInv
<1>5. CASE BeginStep
  <2>1. pc = "begin" /\ pc' = "exec" /\ UNCHANGED <<side, todo>>
    BY <1>5 DEF BeginStep
  <2> QED
    BY <1>1, <2>1 DEF SideInv
<1>6. CASE StepCompletes
  <2>1. pc = "exec" /\ side' = side /\ AfterSession(Tail(todo)) /\ Serves(mem, engine, todo)
    BY <1>1, <1>6 DEF StepCompletes, RunnerInv
  <2>2. CASE side.state # "waiting"
    <3>1. pc' \in {"begin", "extracted", "summary", "return"}
      BY <2>1, RunnerLocations
    <3> QED
      BY <2>1, <2>2, <3>1 DEF SideInv
  <2>3. CASE side.state = "waiting"
    <3>1. \A k \in 1 .. Len(todo) : todo[k] \in {Whole("phase_3_C"), Whole("phase_3_D")}
      BY <1>1, <2>1, <2>3 DEF SideInv
    <3>2. Head(todo)[1] \notin {"phase_1", "phase_2", "phase_2_conflict"}
      <4>1. Head(todo) = todo[1] /\ 1 \in 1 .. Len(todo)
        BY <2>1, ServesFirst
      <4> QED
        BY <3>1, <4>1 DEF Whole
    <3>3. pc' \in {"begin", "return"} /\ todo' = Tail(todo)
      BY <2>1, <3>2 DEF AfterSession
    <3>4. \A k \in 1 .. Len(Tail(todo)) :
            Tail(todo)[k] \in {Whole("phase_3_C"), Whole("phase_3_D")}
      BY <2>1, <3>1, ServesFirst
    <3> QED
      BY <3>3, <3>4 DEF SideInv
  <2> QED
    BY <2>2, <2>3
<1>7. CASE StepFails
  <2>1. /\ pc = "exec" /\ mem'.done = mem.done /\ mem'.summary = mem.summary /\ engine' = engine
        /\ (Head(todo)[1] = "phase_3_B" /\ AfterSession(SkipGroupB)) \/ Leave
    BY <1>1, <1>7, ErroredFields DEF StepFails
  <2>2. CASE Leave
    BY <2>2 DEF Leave, SideInv
  <2>3. CASE Head(todo)[1] = "phase_3_B" /\ AfterSession(SkipGroupB)
    <3>1. /\ pc' \in {"begin", "return"}
          /\ \A k \in 1 .. Len(todo') : todo'[k] \in {Whole("phase_3_C"), Whole("phase_3_D")}
      BY <2>1, <2>3, SkipRunner
    <3> QED
      BY <3>1 DEF SideInv
  <2> QED
    BY <2>1, <2>2, <2>3
<1>8. CASE StepWaits
  <2>1. pc = "exec" /\ mem' = mem /\ engine' = engine /\ side'.state = "waiting"
    BY <1>8 DEF StepWaits, Waiting
  <2>2. CASE Head(todo)[1] \in {"phase_2", "phase_2_conflict"}
    <3>1. pc' = "wait"
      BY <1>8, <2>2 DEF StepWaits
    <3> QED
      BY <2>1, <3>1 DEF SideInv
  <2>3. CASE Head(todo)[1] = "phase_3_B"
    <3>1. AfterSession(SkipGroupB)
      BY <1>8, <2>3 DEF StepWaits
    <3>2. /\ pc' \in {"begin", "return"}
          /\ \A k \in 1 .. Len(todo') : todo'[k] \in {Whole("phase_3_C"), Whole("phase_3_D")}
      BY <2>1, <2>3, <3>1, SkipRunner
    <3> QED
      BY <3>2 DEF SideInv
  <2>4. CASE Head(todo)[1] \notin {"phase_2", "phase_2_conflict", "phase_3_B"}
    <3>1. pc' = "return"
      BY <1>8, <2>4, RunnerLocations DEF StepWaits
    <3> QED
      BY <3>1 DEF SideInv
  <2> QED
    BY <2>2, <2>3, <2>4
<1>9. CASE Answer
  BY <1>1, <1>9 DEF Answer, SideInv
<1>10. CASE ResumeWaits
  BY <1>1, <1>10 DEF ResumeWaits, SideInv, Stop
<1>11. CASE Answered
  <2>1. side'.state = "none" /\ ret \in {"startup", "main", "phase_2", "cli"}
    BY <1>1, <1>11 DEF Answered, NoSide, Called
  <2>2. pc' \in {"recover", "loop", "boot", "summary", "begin"}
    BY <1>11, <2>1 DEF Answered
  <2> QED
    BY <2>1, <2>2 DEF SideInv
<1> QED
  BY <1>2, <1>3, <1>4, <1>5, <1>6, <1>7, <1>8, <1>9, <1>10, <1>11 DEF Next, Run

-----------------------------------------------------------------------------
(***************************************************************************)
(* Types.                                                                  *)
(***************************************************************************)

\* A sequence of steps has the type TypeOK asks for.
LEMMA StepsType ==
  ASSUME NEW t \in Seq(Steps)
  PROVE  t \in Seq(ToSet(t)) /\ \A s \in ToSet(t) : IsStep(s)
<1>1. DOMAIN t = 1 .. Len(t) /\ Len(t) \in Nat /\ \A i \in 1 .. Len(t) : t[i] \in Steps
  OBVIOUS
<1>2. t \in [1 .. Len(t) -> ToSet(t)]
  BY <1>1 DEF ToSet
<1>3. \A s \in ToSet(t) : IsStep(s)
  BY <1>1 DEF ToSet, Steps
<1> QED
  BY <1>1, <1>2, <1>3

\* The state of a new project is one.
LEMMA DefaultType == StateOK(Default)
<1>1. IsStep(Whole("phase_0"))
  BY WholeSteps DEF Phases, Steps
<1>2. IsSummary(<<>>)
  BY DEF IsSummary, DomainsOf, ToSet, IsInjective
<1>3. ToSet(<<>>) = {}
  BY DEF ToSet
<1> QED
  BY <1>1, <1>2, <1>3, MaxStrikesAssumption DEF StateOK, Default

\* The updates of a state keep its type.
LEMMA UpdatesType ==
  ASSUME NEW st, DOMAIN st = Fields, StateOK(st), NEW s, IsStep(s)
  PROVE  StateOK(Running(st, s)) /\ StateOK(Completed(st, s)) /\ StateOK(Errored(st))
<1>1. StateOK(Running(st, s))
  <2>1. PICK t : t = Running(st, s)
    OBVIOUS
  <2>2. /\ t.step = s /\ t.running = TRUE /\ t.done = st.done /\ t.strikes = st.strikes
        /\ t.summary = st.summary
    BY <2>1, RunningFields
  <2> QED
    BY <2>1, <2>2 DEF StateOK
<1>2. StateOK(Completed(st, s))
  <2>1. PICK t : t = Completed(st, s)
    OBVIOUS
  <2>2. /\ t.step = st.step /\ t.running = FALSE /\ t.done = st.done \cup {s}
        /\ t.strikes = st.strikes /\ t.summary = st.summary
    BY <2>1 DEF Completed, Fields
  <2> QED
    BY <2>1, <2>2 DEF StateOK
<1>3. StateOK(Errored(st))
  <2>1. PICK t : t = Errored(st)
    OBVIOUS
  <2>2. /\ t.step = st.step /\ t.running = FALSE /\ t.done = st.done /\ t.strikes = st.strikes
        /\ t.summary = st.summary
    BY <2>1, ErroredFields
  <2> QED
    BY <2>1, <2>2 DEF StateOK
<1> QED
  BY <1>1, <1>2, <1>3

Locations ==
  {"off", "boot", "recover", "loop", "gate", "begin", "exec", "extracted",
   "summary", "return", "wait", "resume", "answered", "refused"}

Askers == {"none", "startup", "main", "phase_2", "cli"}

\* The states, the sidecar, and the rest, which each action changes apart.
StatesOK == StateOK(disk) /\ StateOK(mem)
SideOK == side.state \in {"none", "waiting", "failed"} /\ IsStep(side.step)
ControlOK == engine \in Engines /\ readable \in BOOLEAN /\ pc \in Locations /\ ret \in Askers

\* TypeOK in parts.
LEMMA TypeParts ==
  /\ TypeOK => StatesOK /\ SideOK /\ ControlOK
  /\ StatesOK /\ SideOK /\ ControlOK /\ todo \in Seq(Steps) => TypeOK
BY StepsType DEF TypeOK, StatesOK, SideOK, ControlOK, Locations, Askers

\* The sessions of a runner are steps.
LEMMA TodoType == TypeOK => todo \in Seq(Steps)
<1> SUFFICES ASSUME TypeOK PROVE todo \in Seq(Steps)
  OBVIOUS
<1>1. todo \in Seq(ToSet(todo)) /\ \A s \in ToSet(todo) : s \in Steps
  BY DEF TypeOK, IsStep, Steps
<1>2. todo \in [1 .. Len(todo) -> Steps] /\ Len(todo) \in Nat
  BY <1>1
<1> QED
  BY <1>2

\* The steps that are completed by name.
LEMMA WholesOK ==
  /\ IsStep(Whole("phase_0")) /\ IsStep(Whole("phase_1")) /\ IsStep(Whole("phase_1_5"))
  /\ IsStep(Whole("phase_2_summary"))
BY WholeSteps DEF Phases, Steps

\* Every step keeps the types of the two states.
LEMMA StatesStep == IInv /\ [Next]_vars => StatesOK'
<1> SUFFICES ASSUME IInv, [Next]_vars PROVE StatesOK'
  OBVIOUS
<1>1. /\ StatesOK /\ SideOK /\ DOMAIN mem = Fields /\ DOMAIN disk = Fields /\ RunnerInv
      /\ IsStep(mem.step) /\ IsStep(disk.step) /\ IsStep(side.step)
  BY TypeParts DEF IInv, BaseInv, Records, TypeOK, StateOK
<1>2. \A s : IsStep(s) =>
        /\ StateOK(Running(mem, s)) /\ StateOK(Completed(mem, s)) /\ StateOK(Errored(mem))
        /\ StateOK(Completed(disk, s)) /\ StateOK(Errored(disk))
  BY <1>1, UpdatesType DEF StatesOK
<1>3. CASE \/ UNCHANGED vars \/ Start \/ EnterPhase \/ Return \/ Answer \/ Answered \/ StepWaits
  <2>1. disk' \in {disk, mem} /\ mem' = mem
    BY <1>3 DEF vars, Start, Launch, LaunchUnreadable, CliResume, EnterPhase, Return, Answer,
                Answered, StepWaits
  <2> QED
    BY <1>1, <2>1 DEF StatesOK
<1>4. CASE Crash \/ Boot \/ Ended \/ Phase0Aborts \/ GiveUp \/ Refused \/ ResumeWaits
  <2>1. disk' = disk /\ mem' \in {mem, disk, Default}
    BY <1>4 DEF Crash, Boot, Ended, Phase0Aborts, GiveUp, Refused, ResumeWaits, Stop
  <2> QED
    BY <1>1, <2>1, DefaultType DEF StatesOK
<1>5. CASE Recover
  <2>1. /\ disk' = mem'
        /\ mem' \in {mem, Errored(mem), Completed(mem, mem.step)}
    BY <1>5 DEF Recover
  <2> QED
    BY <1>1, <1>2, <2>1 DEF StatesOK
<1>6. CASE Phase0
  <2>1. /\ disk' = mem' /\ mem'.step = Whole("phase_1") /\ mem'.running = FALSE
        /\ mem'.done = {Whole("phase_0")} /\ mem'.strikes = 0 /\ mem'.summary = Scanned
    BY <1>6 DEF Phase0
  <2> QED
    <3>1. IsSummary(Scanned) /\ 0 \in 0 .. MaxStrikes
      BY SummariesAssumption, MaxStrikesAssumption
    <3>2. StateOK(mem')
      BY <2>1, <3>1, WholesOK DEF StateOK
    <3> QED
      BY <2>1, <3>2 DEF StatesOK
<1>7. CASE EnterGate
  <2>1. disk' = mem' /\ mem' = Running(mem, Whole("phase_1_5"))
    BY <1>7 DEF EnterGate
  <2> QED
    BY <1>2, <2>1, WholesOK DEF StatesOK
<1>8. CASE GatePasses
  <2>1. disk' = disk /\ mem' = Completed(mem, Whole("phase_1_5"))
    BY <1>8 DEF GatePasses
  <2> QED
    BY <1>1, <1>2, <2>1, WholesOK DEF StatesOK
<1>9. CASE GateFails
  <2>1. mem.strikes \in 0 .. MaxStrikes /\ mem.strikes < MaxStrikes
    BY <1>1, <1>9 DEF StatesOK, StateOK, RunnerInv, GateFails
  <2>2. mem.strikes + 1 \in 0 .. MaxStrikes
    BY <2>1, MaxStrikesAssumption
  <2>3. /\ mem'.step = mem.step /\ mem'.running = FALSE /\ mem'.done \subseteq mem.done
        /\ mem'.strikes = mem.strikes + 1 /\ mem'.summary = mem.summary
    BY <1>9, GateFailsFields DEF IInv, BaseInv
  <2>4. disk' = disk
    BY <1>9 DEF GateFails
  <2> QED
    BY <1>1, <2>2, <2>3, <2>4 DEF StatesOK, StateOK
<1>10. CASE BeginStep \/ StepCompletes
  <2>1. /\ disk' = mem'
        /\ mem' \in {mem, Running(mem, Head(todo)), Completed(mem, Head(todo))}
    BY <1>10 DEF BeginStep, StepCompletes
  <2>2. IsStep(Head(todo))
    <3>1. Serves(mem, engine, todo)
      BY <1>1, <1>10 DEF RunnerInv, BeginStep, StepCompletes
    <3> QED
      BY <3>1, ServesFirst DEF Steps
  <2> QED
    BY <1>1, <1>2, <2>1, <2>2 DEF StatesOK
<1>11. CASE StepFails
  <2>1. disk' = disk /\ mem' = Errored(mem)
    BY <1>11 DEF StepFails
  <2> QED
    BY <1>1, <1>2, <2>1 DEF StatesOK
<1>12. CASE Extract
  <2>1. /\ mem'.step = mem.step /\ mem'.running = FALSE
        /\ mem'.done = mem.done \cup {Whole("phase_1")} /\ mem'.strikes = mem.strikes
        /\ \/ mem'.summary = mem.summary
           \/ \E present : mem'.summary = Only(Extracted, present)
    BY <1>12, ExtractFields DEF IInv, BaseInv
  <2>2. IsSummary(mem'.summary) /\ ToSet(mem'.summary) \subseteq ToSet(Scanned) \cup ToSet(Extracted)
    <3>1. CASE mem'.summary = mem.summary
      BY <1>1, <3>1 DEF StatesOK, StateOK
    <3>2. CASE \E present : mem'.summary = Only(Extracted, present)
      BY <3>2, ExtractedPart
    <3> QED
      BY <2>1, <3>1, <3>2
  <2>3. disk' = mem'
    BY <1>12 DEF Extract
  <2> QED
    BY <1>1, <2>1, <2>2, <2>3, WholesOK DEF StatesOK, StateOK
<1>13. CASE Summarise
  <2>1. disk' = disk /\ mem' = Completed(mem, Whole("phase_2_summary"))
    BY <1>13 DEF Summarise
  <2> QED
    BY <1>1, <1>2, <2>1, WholesOK DEF StatesOK
<1>14. CASE ResumeCompletes \/ ResumeFails
  <2>1. disk' = mem' /\ mem' \in {Completed(disk, side.step), Errored(disk)}
    BY <1>14 DEF ResumeCompletes, ResumeFails
  <2> QED
    BY <1>1, <1>2, <2>1 DEF StatesOK
<1> QED
  BY <1>3, <1>4, <1>5, <1>6, <1>7, <1>8, <1>9, <1>10, <1>11, <1>12, <1>13, <1>14 DEF Next, Run

\* Every step keeps the type of the sidecar.
LEMMA SideTypeStep == IInv /\ [Next]_vars => SideOK'
<1> SUFFICES ASSUME IInv, [Next]_vars PROVE SideOK'
  OBVIOUS
<1>1. SideOK /\ DOMAIN side = {"state", "step"} /\ RunnerInv
  BY TypeParts DEF IInv, BaseInv, Records
<1>2. CASE StepWaits
  <2>1. pc = "exec" /\ side'.state = "waiting" /\ side'.step = Head(todo)
    BY <1>2 DEF StepWaits, Waiting
  <2>2. IsStep(Head(todo))
    <3>1. Serves(mem, engine, todo)
      BY <1>1, <2>1 DEF RunnerInv
    <3> QED
      BY <3>1, ServesFirst DEF Steps
  <2> QED
    BY <2>1, <2>2 DEF SideOK
<1>3. CASE Boot \/ Answered
  <2>1. side' \in {side, NoSide}
    BY <1>3 DEF Boot, Answered
  <2> QED
    BY <1>1, <2>1, WholesOK DEF SideOK, NoSide
<1>4. CASE Refused
  <2>1. side'.state = "failed" /\ side'.step = side.step
    BY <1>1, <1>4 DEF Refused
  <2> QED
    BY <1>1, <2>1 DEF SideOK
<1>5. ASSUME ~ StepWaits, ~ Boot, ~ Answered, ~ Refused PROVE side' = side
  BY <1>5 DEF Next, Run, vars, Start, Launch, LaunchUnreadable, CliResume, Crash, Recover, Ended,
              Phase0Aborts, Phase0, EnterGate, EnterPhase, GatePasses, GateFails, BeginStep,
              StepCompletes, StepFails, Extract, Summarise, Return, GiveUp, Answer,
              ResumeCompletes, ResumeWaits, ResumeFails
<1> QED
  BY <1>1, <1>2, <1>3, <1>4, <1>5 DEF SideOK

\* Every step keeps the types of pc, ret and outcome.
LEMMA ControlStep == IInv /\ [Next]_vars => ControlOK'
<1> SUFFICES ASSUME IInv, [Next]_vars PROVE ControlOK'
  OBVIOUS
<1>1. ControlOK /\ Called
  BY TypeParts DEF IInv, BaseInv
<1> USE DEF ControlOK, Locations, Askers
<1>2. CASE UNCHANGED vars \/ Start \/ Crash \/ Boot \/ Recover \/ Ended \/ Phase0Aborts \/ Phase0
  BY <1>1, <1>2 DEF vars, Start, Launch, LaunchUnreadable, CliResume, Crash, Boot, Recover, Ended,
                    Phase0Aborts, Phase0, Stop, Leave
<1>3. CASE EnterGate \/ EnterPhase \/ GatePasses \/ GateFails \/ BeginStep \/ Extract \/ Summarise
  BY <1>1, <1>3 DEF EnterGate, EnterPhase, GatePasses, GateFails, BeginStep, Extract, Summarise,
                    Leave
<1>4. CASE StepCompletes \/ StepFails
  <2>1. UNCHANGED <<engine, readable, ret>> /\ pc' \in {"begin", "extracted", "summary", "return"}
    BY <1>4, RunnerLocations DEF StepCompletes, StepFails, AfterSession, Leave
  <2> QED
    BY <1>1, <2>1
<1>5. CASE StepWaits
  <2>1. /\ UNCHANGED <<engine, readable>> /\ ret' \in {ret, "phase_2"}
        /\ pc' \in {"wait", "begin", "extracted", "summary", "return"}
    BY <1>5, RunnerLocations DEF StepWaits, AfterSession, Leave
  <2> QED
    BY <1>1, <2>1
<1>6. CASE Return \/ GiveUp \/ Answer \/ ResumeCompletes \/ ResumeWaits \/ ResumeFails \/ Refused
  BY <1>1, <1>6 DEF Return, GiveUp, Answer, ResumeCompletes, ResumeWaits, ResumeFails, Refused, Stop
<1>7. CASE Answered
  <2>1. ret \in {"startup", "main", "phase_2", "cli"}
    BY <1>1, <1>7 DEF Called, Answered
  <2>2. pc' \in {"recover", "loop", "boot", "summary", "begin"}
    BY <1>7, <2>1 DEF Answered
  <2>3. UNCHANGED <<engine, readable>> /\ ret' = "none"
    BY <1>7 DEF Answered
  <2> QED
    BY <1>1, <2>2, <2>3
<1> QED
  BY <1>2, <1>3, <1>4, <1>5, <1>6, <1>7 DEF Next, Run

\* Every step keeps the type of todo.
LEMMA TodoStep == IInv /\ [Next]_vars => (todo \in Seq(Steps))'
<1> SUFFICES ASSUME IInv, [Next]_vars PROVE todo' \in Seq(Steps)
  OBVIOUS
<1>1. /\ todo \in Seq(Steps) /\ RunnerInv /\ <<>> \in Seq(Steps) /\ Called
      /\ DOMAIN mem = Fields
  BY TodoType DEF IInv, BaseInv, Records
<1>2. CASE EnterPhase
  <2>1. /\ GoodState(mem) /\ IsNext(mem, engine, NextUp) /\ todo' = SessionsOf(NextUp, mem)
        /\ NextUp[1] \notin {"phase_0", "phase_1_5", "done", "stop"}
    BY <1>2, NextUpIsNext DEF IInv, EnterPhase
  <2> QED
    BY <2>1, SessionsAreGood DEF GoodSessions
<1>3. CASE StepCompletes
  <2>1. Serves(mem, engine, todo) /\ todo' = Tail(todo)
    BY <1>1, <1>3 DEF RunnerInv, StepCompletes, AfterSession
  <2> QED
    BY <2>1, ServesFirst
<1>4. CASE StepFails
  <2>1. /\ pc = "exec" /\ mem'.done = mem.done /\ mem'.summary = mem.summary /\ engine' = engine
        /\ (Head(todo)[1] = "phase_3_B" /\ AfterSession(SkipGroupB)) \/ Leave
    BY <1>1, <1>4, ErroredFields DEF StepFails
  <2> QED
    BY <1>1, <2>1, SkipRunner DEF Leave
<1>5. CASE StepWaits
  <2>1. /\ pc = "exec" /\ mem'.done = mem.done /\ mem'.summary = mem.summary /\ engine' = engine
        /\ \/ Head(todo)[1] = "phase_3_B" /\ AfterSession(SkipGroupB)
           \/ Leave \/ todo' = todo
    BY <1>5 DEF StepWaits
  <2> QED
    BY <1>1, <2>1, SkipRunner DEF Leave
<1>6. CASE Answered
  <2>1. ret = "phase_2" \/ todo' = todo
    BY <1>1, <1>6 DEF Called, Answered
  <2> QED
    BY <1>1, <1>6, <2>1, AnsweredRunner
<1>7. ASSUME ~ EnterPhase, ~ StepCompletes, ~ StepFails, ~ StepWaits, ~ Answered
      PROVE  todo' \in {todo, <<>>}
  BY <1>7 DEF Next, Run, vars, Start, Launch, LaunchUnreadable, CliResume, Crash, Boot, Recover,
              Ended, Phase0Aborts, Phase0, EnterGate, GatePasses, GateFails, BeginStep, Extract,
              Summarise, Return, GiveUp, Answer, ResumeCompletes, ResumeWaits, ResumeFails, Refused,
              Stop, Leave
<1> QED
  BY <1>1, <1>2, <1>3, <1>4, <1>5, <1>6, <1>7

\* Every step keeps the types.
LEMMA TypeStep == IInv /\ [Next]_vars => TypeOK'
<1> SUFFICES ASSUME IInv, [Next]_vars PROVE TypeOK'
  OBVIOUS
<1>1. StatesOK' /\ SideOK' /\ ControlOK' /\ todo' \in Seq(Steps)
  BY StatesStep, SideTypeStep, ControlStep, TodoStep
<1> QED
  BY <1>1, StepsType DEF TypeOK, StatesOK, SideOK, ControlOK, Locations, Askers

-----------------------------------------------------------------------------
(***************************************************************************)
(* The theorems.                                                           *)
(***************************************************************************)

\* The invariant holds at first.
LEMMA IInvInit == Init => IInv
<1> SUFFICES ASSUME Init PROVE IInv
  OBVIOUS
<1>1. /\ disk = Default /\ mem = Default /\ side = NoSide /\ pc = "off" /\ todo = <<>>
      /\ ret = "none" /\ engine \in Engines /\ readable = TRUE
  BY DEF Init
<1>2. TypeOK
  <2>1. todo \in Seq(Steps)
    BY <1>1
  <2>2. StatesOK /\ SideOK /\ ControlOK
    BY <1>1, DefaultType, WholesOK DEF StatesOK, SideOK, ControlOK, NoSide, Locations, Askers
  <2> QED
    BY <2>1, <2>2, TypeParts
<1>3. BaseInv
  BY <1>1, MemoryInit DEF BaseInv, Records, Default, NoSide, Fields, WaitingInv, IsBlocking, Called
<1>4. MemoryInv
  BY <1>1 DEF MemoryInv, InPhase2
<1>5. OrderInv
  BY <1>1 DEF OrderInv, InOrder, Started, Default, NoSide
<1>6. RunnerInv /\ SideInv
  BY <1>1 DEF RunnerInv, InPhase2, SideInv
<1> QED
  BY <1>2, <1>3, <1>4, <1>5, <1>6 DEF IInv

\* Every step keeps the invariant.
LEMMA IInvStep == IInv /\ [Next]_vars => IInv'
<1>1. IInv /\ [Next]_vars => BaseInv'
  BY MemoryStep, RecordsStep, WaitingStep, CalledStep DEF IInv, BaseInv
<1> QED
  BY <1>1, TypeStep, MemoryInvStep, OrderStep, RunnerStep, SideStep DEF IInv

\* The invariant.
LEMMA Inductive == Spec => []IInv
BY IInvInit, IInvStep, PTL DEF Spec

\* Types.  The gate's failures never exceed _PHASE_1_5_MAX_RETRIES, over all restarts, and
\* nothing but steps of the project is ever running, done or to be done.
THEOREM Types == Spec => []TypeOK
<1>1. IInv => TypeOK
  BY DEF IInv
<1> QED
  BY <1>1, Inductive, PTL

\* The order of the phases holds for whatever is running or completed, over any crashes,
\* recoveries, resumed sessions and failures of the gate (_determine_next_step).
THEOREM OrderOfPhases == Spec => []PhaseOrder
<1>1. IInv => PhaseOrder
  BY DEF IInv, OrderInv, InOrder, PhaseOrder
<1> QED
  BY <1>1, Inductive, PTL

\* No session is spent on a step that is recorded, nor on a feature that is: the bundles
\* are made of what is not done, and no feature is in two of them (_run_phase_2 and
\* _run_phase_3_group_b: "Filter out individually completed features before bundling").
THEOREM NothingIsRedone == Spec => NoStepRedone
<1> DEFINE Redone ==
      pc = "begin" /\ Head(todo)[1] # "phase_1" =>
        /\ Head(todo) \notin disk.done
        /\ \A x \in Head(todo)[2] : ~ Covered(disk.done, Head(todo)[1], x)
<1>1. IInv => Redone
  BY DEF IInv, RunnerInv, MemoryInv, Fresh
<1>2. IInv /\ [Next]_vars => [Redone]_vars
  BY <1>1
<1> QED
  BY <1>2, Inductive, PTL DEF Spec, NoStepRedone

\* Only a rollback takes a step off the record, a step of Phase 1, and counts itself.
LEMMA ProgressStep ==
  ASSUME IInv, [Next]_vars, NEW s \in disk.done \ disk'.done
  PROVE  s[1] = "phase_1" /\ disk'.strikes > disk.strikes
<1>1. /\ MemoryIsDisk /\ MemoryInv /\ DOMAIN mem = Fields /\ DOMAIN disk = Fields
  BY DEF IInv, BaseInv, Records
<1>2. \A r : /\ Running(mem, r).done = mem.done /\ Errored(mem).done = mem.done
             /\ Completed(mem, r).done = mem.done \cup {r}
             /\ Completed(disk, r).done = disk.done \cup {r} /\ Errored(disk).done = disk.done
  <2> TAKE r
  <2>1. Running(mem, r).done = mem.done /\ Errored(mem).done = mem.done
        /\ Errored(disk).done = disk.done
    BY <1>1, RunningFields, ErroredFields
  <2>2. Completed(mem, r).done = mem.done \cup {r}
    BY <1>1, CompletedFields
  <2>3. Completed(disk, r).done = disk.done \cup {r}
    BY <1>1, CompletedFields
  <2> QED
    BY <2>1, <2>2, <2>3
<1>3. ASSUME disk.done \subseteq disk'.done PROVE FALSE
  BY <1>3
<1>4. CASE Recover \/ EnterGate \/ BeginStep \/ StepCompletes
  <2>1. mem.done = disk.done
    BY <1>1, <1>4 DEF Recover, EnterGate, BeginStep, StepCompletes, MemoryIsDisk, MemoryInv
  <2>2. \E r : disk' \in {mem, Running(mem, r), Errored(mem), Completed(mem, r)}
    BY <1>4 DEF Recover, EnterGate, BeginStep, StepCompletes
  <2> QED
    BY <1>2, <1>3, <2>1, <2>2
<1>5. CASE Phase0
  <2>1. NextUp = Whole("phase_0") /\ mem = disk
    BY <1>1, <1>5 DEF Phase0, MemoryIsDisk
  <2>2. GoodSummary(disk.summary) /\ InOrder(disk, engine) /\ Whole("phase_0") \notin disk.done
    <3>1. GoodState(mem) /\ IsNext(mem, engine, NextUp) /\ InOrder(disk, engine)
      BY NextUpIsNext DEF IInv, OrderInv
    <3> QED
      BY <2>1, <3>1 DEF GoodState, IsNext, Whole, LatePhases
  <2>3. s = Whole("phase_0") \/ Whole("phase_0") \in disk.done
    BY <2>2, EarlyDone
  <2> QED
    BY <2>2, <2>3
<1>6. CASE Extract
  <2>1. mem'.done = mem.done \cup {Whole("phase_1")} /\ disk' = mem'
    BY <1>6, ExtractFields DEF IInv, BaseInv, Extract
  <2>2. mem.done = disk.done
    BY <1>1, <1>6 DEF MemoryInv, Extract
  <2> QED
    BY <1>3, <2>1, <2>2
<1>7. CASE Return
  BY <1>1, <1>7 DEF Return, MemoryInv
<1>8. CASE ResumeCompletes \/ ResumeFails
  BY <1>2, <1>3, <1>8 DEF ResumeCompletes, ResumeFails
<1>9. ASSUME ~ Recover, ~ EnterGate, ~ BeginStep, ~ StepCompletes, ~ Phase0, ~ Extract, ~ Return,
             ~ ResumeCompletes, ~ ResumeFails
      PROVE  disk' = disk
  BY <1>9 DEF Next, Run, vars, Start, Launch, LaunchUnreadable, CliResume, Crash, Boot, Ended,
              Phase0Aborts, EnterPhase, GatePasses, GateFails, StepFails, StepWaits, Summarise,
              GiveUp, Answer, ResumeWaits, Answered, Refused
<1> QED
  BY <1>3, <1>4, <1>5, <1>6, <1>7, <1>8, <1>9

\* What is recorded as done stays so; only a counted failure of the gate takes steps back,
\* and only those of Phase 1 (_rollback_phase_1).
THEOREM ProgressIsKept == Spec => ProgressKept
<1> DEFINE Kept ==
      \A s \in disk.done \ disk'.done : s[1] = "phase_1" /\ disk'.strikes > disk.strikes
<1>1. IInv /\ [Next]_vars => [Kept]_vars
  BY ProgressStep
<1> QED
  BY <1>1, Inductive, PTL DEF Spec, ProgressKept

-----------------------------------------------------------------------------
(***************************************************************************)
(* The state file and the last message implement DocsProgress.             *)
(***************************************************************************)

\* The gate is not passed once its retries are used up; it has only failed after Phase 0,
\* which no session is started for.
Counted(st) ==
  /\ OutOfRetries(st) => Whole("phase_1_5") \notin st.done
  /\ st.strikes # 0 => Whole("phase_0") \in st.done
  /\ st.running => st.step # Whole("phase_0")

GateInv ==
  /\ Counted(disk) /\ Counted(mem)
  /\ side.state = "waiting" => side.step \notin {Whole("phase_0"), Whole("phase_1_5")}

\* The updates of a state keep what is counted.
LEMMA CountedUpdates ==
  ASSUME NEW st, DOMAIN st = Fields, Counted(st), NEW s
  PROVE  /\ s # Whole("phase_0") => Counted(Running(st, s))
         /\ Counted(Errored(st))
         /\ s # Whole("phase_1_5") => Counted(Completed(st, s))
<1>1. /\ Running(st, s).done = st.done /\ Running(st, s).strikes = st.strikes
      /\ Running(st, s).step = s
  BY RunningFields
<1>2. /\ Errored(st).done = st.done /\ Errored(st).strikes = st.strikes
      /\ Errored(st).running = FALSE
  BY ErroredFields
<1>3. /\ Completed(st, s).done = st.done \cup {s} /\ Completed(st, s).strikes = st.strikes
      /\ Completed(st, s).running = FALSE
  BY CompletedFields
<1> QED
  BY <1>1, <1>2, <1>3 DEF Counted, OutOfRetries

\* What the runner is about to do is neither Phase 0 nor the gate.
LEMMA SessionSteps ==
  ASSUME IInv, pc \in {"begin", "exec"}
  PROVE  Head(todo) \notin {Whole("phase_0"), Whole("phase_1_5")}
<1>1. Serves(mem, engine, todo)
  BY DEF IInv, RunnerInv
<1>2. Head(todo)[1] \notin {"phase_0", "phase_1_5"}
  BY <1>1, ServesWhich
<1> QED
  BY <1>2 DEF Whole

\* Every step keeps GateInv.
LEMMA GateStep == IInv /\ GateInv /\ [Next]_vars => GateInv'
<1> SUFFICES ASSUME IInv, GateInv, [Next]_vars PROVE GateInv'
  OBVIOUS
<1> DEFINE none == {Whole("phase_0"), Whole("phase_1_5")}
<1>1. /\ Records /\ RunnerInv /\ DOMAIN mem = Fields /\ DOMAIN disk = Fields
      /\ Counted(disk) /\ Counted(mem) /\ side.state = "waiting" => side.step \notin none
  BY DEF IInv, BaseInv, Records, GateInv
<1>2. Counted(Default) /\ NoSide.state # "waiting"
  BY DEF Counted, Default, NoSide
<1>3. \A st, s : DOMAIN st = Fields /\ Counted(st) =>
        /\ s # Whole("phase_0") => Counted(Running(st, s))
        /\ Counted(Errored(st))
        /\ s # Whole("phase_1_5") => Counted(Completed(st, s))
  BY CountedUpdates
<1>4. Whole("phase_0") # Whole("phase_1_5") /\ Whole("phase_0") # Whole("phase_1")
      /\ Whole("phase_1_5") # Whole("phase_1") /\ Whole("phase_1_5") # Whole("phase_2_summary")
  BY DEF Whole
<1>5. CASE Recover
  <2>1. side' = side /\ disk' = mem' /\ (mem' \in {mem, Errored(mem)} \/
          (mem' = Completed(mem, mem.step) /\ FindsOutputFiles(mem.step)))
    BY <1>5 DEF Recover
  <2>2. FindsOutputFiles(mem.step) => mem.step # Whole("phase_1_5")
    BY DEF FindsOutputFiles, Whole
  <2> QED
    BY <1>1, <1>3, <2>1, <2>2 DEF GateInv
<1>6. CASE Phase0
  <2>1. /\ mem'.done = {Whole("phase_0")} /\ mem'.strikes = 0 /\ mem'.running = FALSE
        /\ disk' = mem' /\ side' = side
    BY <1>6 DEF Phase0
  <2> QED
    BY <1>1, <1>4, <2>1 DEF GateInv, Counted
<1>7. CASE EnterGate \/ BeginStep
  <2>1. side' = side /\ disk' = mem' /\ \E s : s # Whole("phase_0") /\ mem' = Running(mem, s)
    BY <1>4, <1>7, SessionSteps DEF EnterGate, BeginStep
  <2> QED
    BY <1>1, <1>3, <2>1 DEF GateInv
<1>8. CASE GatePasses
  <2>1. mem' = Completed(mem, Whole("phase_1_5")) /\ UNCHANGED <<disk, side>>
        /\ mem.strikes < MaxStrikes
    BY <1>1, <1>8 DEF GatePasses, RunnerInv
  <2>2. /\ mem'.strikes = mem.strikes /\ mem'.running = FALSE
        /\ mem'.done = mem.done \cup {Whole("phase_1_5")}
    BY <1>1, <2>1, CompletedFields
  <2>3. ~ OutOfRetries(mem')
    <3>1. mem.strikes \in Nat /\ MaxStrikes \in Nat
      BY MaxStrikesAssumption DEF IInv, TypeOK, StateOK
    <3> QED
      BY <2>1, <2>2, <3>1 DEF OutOfRetries
  <2> QED
    BY <1>1, <2>1, <2>2, <2>3 DEF GateInv, Counted
<1>9. CASE GateFails
  <2>1. /\ mem'.done = {s \in mem.done : s[1] # "phase_1"} /\ UNCHANGED <<disk, side>>
        /\ Whole("phase_1_5") \notin mem.done /\ Whole("phase_0") \in mem.done
        /\ mem'.running = FALSE
    BY <1>1, <1>9, GateFailsFields DEF GateFails, RunnerInv
  <2>2. Whole("phase_0") \in mem'.done
    BY <2>1 DEF Whole
  <2> QED
    BY <1>1, <2>1, <2>2 DEF GateInv, Counted
<1>10. CASE StepCompletes
  <2>1. side' = side /\ disk' = mem' /\ mem' \in {mem, Completed(mem, Head(todo))}
        /\ Head(todo) # Whole("phase_1_5")
    BY <1>10, SessionSteps DEF StepCompletes
  <2> QED
    BY <1>1, <1>3, <2>1 DEF GateInv
<1>11. CASE StepFails
  BY <1>1, <1>3, <1>11 DEF StepFails, GateInv
<1>12. CASE StepWaits
  <2>1. UNCHANGED <<disk, mem>> /\ side'.step = Head(todo) /\ Head(todo) \notin none
    BY <1>12, SessionSteps DEF StepWaits, Waiting
  <2> QED
    BY <1>1, <2>1 DEF GateInv
<1>13. CASE Extract
  <2>1. /\ side' = side /\ disk' = mem' /\ mem'.strikes = mem.strikes /\ mem'.running = FALSE
        /\ mem'.done = mem.done \cup {Whole("phase_1")}
    BY <1>1, <1>13, ExtractFields DEF Extract
  <2> QED
    BY <1>1, <1>4, <2>1 DEF GateInv, Counted, OutOfRetries
<1>14. CASE Summarise
  BY <1>1, <1>3, <1>4, <1>14 DEF Summarise, GateInv
<1>15. CASE ResumeCompletes
  <2>1. pc = "resume" /\ side' = side /\ disk' = mem' /\ mem' = Completed(disk, side.step)
    BY <1>15 DEF ResumeCompletes
  <2>2. side.state = "waiting"
    BY <2>1 DEF IInv, SideInv
  <2> QED
    BY <1>1, <1>3, <2>1, <2>2 DEF GateInv
<1>16. CASE ResumeFails
  BY <1>1, <1>3, <1>16 DEF ResumeFails, GateInv
<1>17. CASE Refused
  <2>1. disk' = disk /\ mem' \in {mem, Default} /\ side'.state = "failed"
    BY <1>1, <1>17 DEF Refused, Stop, Records
  <2> QED
    BY <1>1, <1>2, <2>1 DEF GateInv
<1>18. ASSUME ~ Recover, ~ Phase0, ~ EnterGate, ~ BeginStep, ~ GatePasses, ~ GateFails,
              ~ StepCompletes, ~ StepFails, ~ StepWaits, ~ Extract, ~ Summarise,
              ~ ResumeCompletes, ~ ResumeFails, ~ Refused
       PROVE  disk' \in {disk, mem} /\ mem' \in {mem, disk, Default} /\ side' \in {side, NoSide}
  BY <1>18 DEF Next, Run, vars, Start, Launch, LaunchUnreadable, CliResume, Crash, Boot, Ended,
               Phase0Aborts, EnterPhase, Return, GiveUp, Answer, ResumeWaits, Answered, Stop
<1>19. ASSUME disk' \in {disk, mem}, mem' \in {mem, disk, Default}, side' \in {side, NoSide}
       PROVE  GateInv'
  BY <1>1, <1>2, <1>19 DEF GateInv
<1> QED
  BY <1>5, <1>6, <1>7, <1>8, <1>9, <1>10, <1>11, <1>12, <1>13, <1>14, <1>15, <1>16, <1>17, <1>18,
     <1>19

(***************************************************************************)
(* The record.                                                             *)
(***************************************************************************)

SameRecord(st, other) ==
  other.done = st.done /\ other.strikes = st.strikes /\ other.summary = st.summary

\* One step of DocsProgress leads from the record of st to that of other, or none.
Moves(st, other, e) ==
  SameRecord(st, other) \/ Progress!Records(st, other, e) \/ Progress!RollsBack(st, other)

\* A step that is due is recorded, again or for the first time.
LEMMA Recorded ==
  ASSUME NEW st, NEW other, NEW e, NEW step, After(st, e, step),
         step = Whole("phase_1_5") => st.strikes < MaxStrikes,
         other.done = st.done \cup {step}, other.strikes = st.strikes,
         other.summary \in Summaries(st.summary, step),
         step \in st.done => other.summary = st.summary
  PROVE  Moves(st, other, e)
<1>1. CASE step \in st.done
  BY <1>1 DEF Moves, SameRecord
<1>2. CASE step \notin st.done
  <2>1. step \in other.done \ st.done
    BY <1>2
  <2>2. Progress!Records(st, other, e)
    BY <2>1 DEF Progress!Records
  <2> QED
    BY <2>2 DEF Moves
<1> QED
  BY <1>1, <1>2

\* A step of a session is recorded.
LEMMA SessionRecorded ==
  ASSUME NEW st, DOMAIN st = Fields, NEW e, NEW step, After(st, e, step),
         step # Whole("phase_0"), step = Whole("phase_1_5") => st.strikes < MaxStrikes
  PROVE  Moves(st, Completed(st, step), e)
<1>1. PICK other : other = Completed(st, step)
  OBVIOUS
<1>2. /\ other.done = st.done \cup {step} /\ other.strikes = st.strikes
      /\ other.summary = st.summary
  BY <1>1, CompletedFields
<1>3. other.summary \in Summaries(st.summary, step)
  BY <1>2 DEF Summaries
<1> QED
  BY <1>1, <1>2, <1>3, Recorded

\* The start and the failure of a step are not recorded.
LEMMA NotRecorded ==
  ASSUME NEW st, DOMAIN st = Fields, NEW s
  PROVE  SameRecord(st, st) /\ SameRecord(st, Running(st, s)) /\ SameRecord(st, Errored(st))
BY RunningFields, ErroredFields DEF SameRecord

\* What a runner has recorded in memory is one step away from the file.
SavesInv == pc = "return" => Moves(disk, mem, engine)

\* Whatever is written to the file is one step of DocsProgress, or none.
LEMMA FileMoves == IInv /\ GateInv /\ SavesInv /\ [Next]_vars => Moves(disk, disk', engine)
<1> SUFFICES ASSUME IInv, GateInv, SavesInv, [Next]_vars PROVE Moves(disk, disk', engine)
  OBVIOUS
<1>1. /\ Records /\ MemoryIsDisk /\ MemoryInv /\ RunnerInv /\ OrderInv /\ SideInv
      /\ DOMAIN mem = Fields /\ DOMAIN disk = Fields /\ Counted(disk) /\ Counted(mem)
      /\ InOrder(disk, engine)
  BY DEF IInv, BaseInv, Records, GateInv, OrderInv
<1>2. GoodSummary(disk.summary)
  BY NextUpIsNext DEF IInv, GoodState
<1>3. \A other : SameRecord(disk, other) => Moves(disk, other, engine)
  BY DEF Moves
<1>4. \A s : /\ SameRecord(disk, disk) /\ SameRecord(disk, Running(disk, s))
             /\ SameRecord(disk, Errored(disk))
  BY <1>1, NotRecorded
<1>5. \A step : /\ After(disk, engine, step) /\ step # Whole("phase_0")
                /\ step = Whole("phase_1_5") => disk.strikes < MaxStrikes
                => Moves(disk, Completed(disk, step), engine)
  BY <1>1, SessionRecorded
<1>6. disk.running => After(disk, engine, disk.step) /\ disk.step # Whole("phase_0")
  BY <1>1 DEF InOrder, Started, Counted
<1>7. CASE Recover
  <2>1. mem = disk
    BY <1>1, <1>7 DEF MemoryIsDisk, Recover
  <2>2. \/ disk' = disk \/ disk' = Errored(disk)
        \/ disk.running /\ disk' = Completed(disk, disk.step) /\ FindsOutputFiles(disk.step)
    BY <1>7, <2>1 DEF Recover
  <2>3. FindsOutputFiles(disk.step) => disk.step # Whole("phase_1_5")
    BY DEF FindsOutputFiles, Whole
  <2> QED
    BY <1>3, <1>4, <1>5, <1>6, <2>2, <2>3
<1>8. CASE Phase0
  <2>1. /\ mem = disk /\ NextUp = Whole("phase_0") /\ disk'.done = {Whole("phase_0")}
        /\ disk'.strikes = 0 /\ disk'.summary = Scanned
    BY <1>1, <1>8 DEF Phase0, MemoryIsDisk
  <2>2. Whole("phase_0") \notin disk.done
    <3>1. IsNext(disk, engine, Whole("phase_0"))
      BY <2>1, NextUpIsNext DEF IInv
    <3> QED
      BY <3>1 DEF IsNext, Whole, LatePhases
  <2>3. disk.done = {} /\ disk.strikes = 0
    <3>1. \A s \in disk.done : s = Whole("phase_0") \/ Whole("phase_0") \in disk.done
      BY <1>1, <1>2, EarlyDone
    <3> QED
      BY <1>1, <2>2, <3>1 DEF Counted
  <2>4. After(disk, engine, Whole("phase_0")) /\ Whole("phase_0") # Whole("phase_1_5")
    BY <1>2, AfterFirst DEF Whole
  <2>5. disk'.summary \in Summaries(disk.summary, Whole("phase_0"))
    <3>1. Whole("phase_0") # Whole("phase_1")
      BY DEF Whole
    <3> QED
      BY <2>1, <3>1 DEF Summaries
  <2> QED
    BY <2>1, <2>2, <2>3, <2>4, <2>5, Recorded
<1>9. CASE EnterGate \/ BeginStep
  <2>1. (\E s : disk' = Running(mem, s)) /\ SameRecord(disk, mem)
    BY <1>1, <1>9 DEF EnterGate, BeginStep, MemoryIsDisk, MemoryInv, SameRecord
  <2>2. SameRecord(mem, disk')
    BY <1>1, <2>1, NotRecorded
  <2>3. SameRecord(disk, disk')
    BY <2>1, <2>2 DEF SameRecord
  <2> QED
    BY <1>3, <2>3
<1>10. CASE StepCompletes
  <2>1. mem = disk /\ pc = "exec" /\ mem.running /\ mem.step = Head(todo)
    BY <1>1, <1>10 DEF StepCompletes, MemoryIsDisk, RunnerInv
  <2>2. disk' \in {disk, Completed(disk, disk.step)}
    BY <1>10, <2>1 DEF StepCompletes
  <2>3. disk.step # Whole("phase_1_5")
    BY <2>1, SessionSteps
  <2> QED
    BY <1>3, <1>4, <1>5, <1>6, <2>1, <2>2, <2>3
<1>11. CASE Extract
  <2>1. /\ disk' = mem' /\ SameRecord(disk, mem) /\ Whole("phase_1") \notin disk.done
        /\ Whole("phase_0") \in disk.done
    BY <1>1, <1>11 DEF Extract, MemoryInv, RunnerInv, SameRecord
  <2>2. /\ mem'.done = mem.done \cup {Whole("phase_1")} /\ mem'.strikes = mem.strikes
        /\ \/ mem'.summary = mem.summary
           \/ \E present \in SUBSET ToSet(Extracted) : mem'.summary = Only(Extracted, present)
    BY <1>1, <1>11, ExtractFields
  <2>3. mem'.summary \in Summaries(disk.summary, Whole("phase_1"))
    <3>1. Whole("phase_1") # Whole("phase_0")
      BY DEF Whole
    <3> QED
      BY <2>1, <2>2, <3>1 DEF Summaries, SameRecord
  <2>4. After(disk, engine, Whole("phase_1")) /\ Whole("phase_1") # Whole("phase_1_5")
    BY <1>2, <2>1, AfterFirst DEF Whole
  <2> QED
    BY <2>1, <2>2, <2>3, <2>4, Recorded DEF SameRecord
<1>12. CASE Return
  BY <1>12 DEF Return, SavesInv
<1>13. CASE ResumeCompletes
  <2>1. pc = "resume" /\ disk' = Completed(disk, side.step)
    BY <1>13 DEF ResumeCompletes
  <2>2. side.state = "waiting"
    BY <1>1, <2>1 DEF SideInv
  <2>3. After(disk, engine, side.step) /\ side.step \notin {Whole("phase_0"), Whole("phase_1_5")}
    BY <1>1, <2>2 DEF OrderInv, GateInv
  <2> QED
    BY <1>5, <2>1, <2>3
<1>14. CASE ResumeFails
  BY <1>3, <1>4, <1>14 DEF ResumeFails
<1>15. ASSUME ~ Recover, ~ Phase0, ~ EnterGate, ~ BeginStep, ~ StepCompletes, ~ Extract, ~ Return,
              ~ ResumeCompletes, ~ ResumeFails
       PROVE  disk' = disk
  BY <1>15 DEF Next, Run, vars, Start, Launch, LaunchUnreadable, CliResume, Crash, Boot, Ended,
               Phase0Aborts, EnterPhase, GatePasses, GateFails, StepFails, StepWaits, Summarise,
               GiveUp, Answer, ResumeWaits, Answered, Refused
<1> QED
  BY <1>3, <1>4, <1>7, <1>8, <1>9, <1>10, <1>11, <1>12, <1>13, <1>14, <1>15

\* Every step keeps SavesInv.
LEMMA SavesStep == IInv /\ GateInv /\ SavesInv /\ [Next]_vars => SavesInv'
<1> SUFFICES ASSUME IInv, SavesInv, [Next]_vars, pc' = "return"
             PROVE  Moves(disk', mem', engine')
  BY DEF SavesInv
<1>1. /\ Records /\ MemoryIsDisk /\ MemoryInv /\ RunnerInv /\ OrderInv
      /\ DOMAIN mem = Fields /\ DOMAIN disk = Fields /\ InOrder(disk, engine)
  BY DEF IInv, BaseInv, Records, OrderInv
<1>2. GoodSummary(disk.summary)
  BY NextUpIsNext DEF IInv, GoodState
<1>3. \A st : Moves(st, st, engine')
  BY DEF Moves, SameRecord
<1>4. CASE UNCHANGED vars
  <2>1. pc = "return" /\ UNCHANGED <<disk, mem, engine>>
    BY <1>4 DEF vars
  <2>2. Moves(disk, mem, engine)
    BY <2>1 DEF SavesInv
  <2> QED
    BY <2>1, <2>2
<1>5. CASE Phase0 \/ StepCompletes \/ Extract
  <2>1. disk' = mem'
    BY <1>5 DEF Phase0, StepCompletes, Extract
  <2> QED
    BY <1>3, <2>1
<1>6. CASE GatePasses
  <2>1. /\ mem = disk /\ mem' = Completed(mem, Whole("phase_1_5")) /\ UNCHANGED <<disk, engine>>
        /\ mem.running /\ mem.step = Whole("phase_1_5") /\ mem.strikes < MaxStrikes
    BY <1>1, <1>6 DEF GatePasses, MemoryIsDisk, RunnerInv
  <2>2. After(disk, engine, Whole("phase_1_5")) /\ Whole("phase_1_5") # Whole("phase_0")
    BY <1>1, <2>1 DEF InOrder, Started, Whole
  <2>3. Moves(disk, Completed(disk, Whole("phase_1_5")), engine)
    BY <1>1, <2>1, <2>2, SessionRecorded
  <2> QED
    BY <2>1, <2>3
<1>7. CASE GateFails
  <2>1. /\ mem = disk /\ UNCHANGED <<disk, engine>> /\ Whole("phase_1_5") \notin mem.done
        /\ Whole("phase_1") \in mem.done /\ mem.strikes < MaxStrikes
    BY <1>1, <1>7 DEF GateFails, MemoryIsDisk, RunnerInv
  <2>2. /\ mem'.done = {s \in mem.done : s[1] # "phase_1"}
        /\ mem'.strikes = mem.strikes + 1 /\ mem'.summary = mem.summary
    BY <1>1, <1>7, GateFailsFields
  <2>3. Progress!RollsBack(disk, mem')
    BY <2>1, <2>2 DEF Progress!RollsBack, Whole
  <2> QED
    BY <2>1, <2>3 DEF Moves
<1>8. CASE StepFails \/ StepWaits
  <2>1. mem = disk /\ UNCHANGED <<disk, engine>> /\ mem' \in {mem, Errored(mem)}
    BY <1>1, <1>8 DEF StepFails, StepWaits, MemoryIsDisk
  <2>2. SameRecord(disk, mem')
    BY <1>1, <2>1, NotRecorded
  <2> QED
    BY <2>1, <2>2 DEF Moves
<1>9. CASE Summarise
  <2>1. /\ mem' = Completed(mem, Whole("phase_2_summary")) /\ UNCHANGED <<disk, engine>>
        /\ SameRecord(disk, mem) /\ Prepared(mem)
    BY <1>1, <1>9 DEF Summarise, MemoryInv, RunnerInv, SameRecord
  <2>2. /\ mem'.done = mem.done \cup {Whole("phase_2_summary")}
        /\ mem'.strikes = mem.strikes /\ mem'.summary = mem.summary
    BY <1>1, <2>1, CompletedFields
  <2>3. After(disk, engine, Whole("phase_2_summary"))
    <3>1. Prepared(disk) /\ Whole("phase_2_summary")[1] = "phase_2_summary"
      BY <2>1 DEF Prepared, SameRecord, Whole
    <3> QED
      BY <1>2, <3>1, AfterFirst
  <2>4. mem'.summary \in Summaries(disk.summary, Whole("phase_2_summary"))
        /\ Whole("phase_2_summary") # Whole("phase_1_5")
    BY <2>1, <2>2 DEF Summaries, SameRecord, Whole
  <2>5. Moves(disk, mem', engine)
    BY <2>1, <2>2, <2>3, <2>4, Recorded DEF SameRecord
  <2> QED
    BY <2>1, <2>5
<1>10. CASE GiveUp \/ Refused
  <2>1. pc = "refused" \/ (pc = "wait" /\ ret = "phase_2")
    BY <1>10 DEF GiveUp, Refused, Stop
  <2>2. mem = disk
    BY <1>1, <2>1 DEF MemoryInv, InPhase2
  <2>3. disk' = disk /\ mem' = mem
    BY <1>10 DEF GiveUp, Refused, Stop
  <2> QED
    BY <1>3, <2>2, <2>3
<1>11. ASSUME ~ UNCHANGED vars, ~ Phase0, ~ StepCompletes, ~ Extract, ~ GatePasses, ~ GateFails,
              ~ StepFails, ~ StepWaits, ~ Summarise, ~ GiveUp, ~ Refused, ~ Answered
       PROVE  FALSE
  BY <1>11 DEF Next, Run, Start, Launch, LaunchUnreadable, CliResume, Crash, Boot, Recover, Ended,
               Phase0Aborts, EnterGate, EnterPhase, BeginStep, Return, Answer, ResumeCompletes,
               ResumeWaits, ResumeFails, Stop
<1>12. CASE Answered
  <2>1. ret \in {"startup", "main", "phase_2", "cli"}
    BY <1>12 DEF IInv, BaseInv, Called, Answered
  <2> QED
    BY <1>12, <2>1 DEF Answered
<1> QED
  BY <1>4, <1>5, <1>6, <1>7, <1>8, <1>9, <1>10, <1>11, <1>12

-----------------------------------------------------------------------------
(***************************************************************************)
(* How a run ends.  Its last message goes by the errors on record          *)
(* (run_docs_orchestrator), and not by what is left to do.                 *)
(***************************************************************************)

\* What the message of a run that has ended is about.
MessageInv ==
  /\ outcome # "none" => pc = "off"
  /\ outcome = "done" => side.state # "waiting" /\ AllDone(disk, engine)
  /\ outcome = "stopped" => OutOfRetries(disk) /\ Whole("phase_1_5") \notin disk.done

\* When there is no next step, everything is done, or the gate has stopped the run.
LEMMA NoNextStep ==
  ASSUME NEW st, NEW e, GoodState(st), Counted(st), NextStep(st, e)[1] \in {"done", "stop"}
  PROVE  IF OutOfRetries(st) THEN Whole("phase_1_5") \notin st.done ELSE AllDone(st, e)
<1> DEFINE a == Agenda(st, e)
<1>1. PICK p : Decides(st, e, p)
  BY NextStepPlace
<1>2. /\ Len(a) \in Nat /\ \A i \in 1 .. Len(a) - 1 : a[i] \in Steps
  <2>1. GoodSummary(st.summary)
    BY DEF GoodState
  <2>2. Begins(a) /\ \A i \in 1 .. Len(a) - 1 : a[i] \in Steps
    BY <2>1, AgendaType
  <2> HIDE DEF a
  <2> QED
    BY <2>2 DEF Begins
<1>3. p \in 1 .. Len(a) /\ \A i \in 1 .. p - 1 : IsDone(st, a[i])
  BY <1>1 DEF Decides
<1>4. CASE OutOfRetries(st)
  BY <1>4 DEF Counted
<1>5. CASE ~ OutOfRetries(st)
  <2>1. a[p][1] \in {"done", "stop"}
    BY <1>1, <1>5 DEF Decides
  <2>2. a[p] \notin Steps
    BY <2>1 DEF Steps, Phases
  <2> HIDE DEF a
  <2>3. p = Len(a)
    BY <1>2, <1>3, <2>2
  <2>4. AllDone(st, e)
    BY <1>3, <2>3 DEF AllDone, a
  <2> QED
    BY <1>5, <2>4
<1> QED
  BY <1>4, <1>5

\* Every step keeps MessageInv.
LEMMA MessageStep == IInv /\ GateInv /\ MessageInv /\ [Next]_vars => MessageInv'
<1> SUFFICES ASSUME IInv, GateInv, MessageInv, [Next]_vars PROVE MessageInv'
  OBVIOUS
<1>1. CASE Ended
  <2>1. /\ pc = "loop" /\ NextStep(mem, engine)[1] \in {"done", "stop"} /\ pc' = "off"
        /\ outcome' = IF OutOfRetries(mem) THEN "stopped" ELSE "done"
        /\ UNCHANGED <<engine, disk, side>>
    BY <1>1 DEF Ended, NextUp, Stop
  <2>2. mem = disk /\ side.state # "waiting"
    BY <2>1 DEF IInv, BaseInv, MemoryIsDisk, WaitingInv
  <2>3. GoodState(disk) /\ Counted(disk)
    BY NextUpIsNext DEF IInv, GateInv
  <2>4. IF OutOfRetries(disk) THEN Whole("phase_1_5") \notin disk.done ELSE AllDone(disk, engine)
    BY <2>1, <2>2, <2>3, NoNextStep
  <2>5. OutOfRetries(disk)' = OutOfRetries(disk) /\ AllDone(disk, engine)' = AllDone(disk, engine)
    BY <2>1 DEF OutOfRetries, AllDone, Agenda, OutlineSteps, OutlineUnits, IsDone, AllCovered
  <2> QED
    BY <2>1, <2>2, <2>4, <2>5 DEF MessageInv
<1>2. CASE UNCHANGED vars
  <2>1. UNCHANGED <<pc, outcome, engine, disk, side>>
    BY <1>2 DEF vars
  <2>2. OutOfRetries(disk)' = OutOfRetries(disk) /\ AllDone(disk, engine)' = AllDone(disk, engine)
    BY <2>1 DEF OutOfRetries, AllDone, Agenda, OutlineSteps, OutlineUnits, IsDone, AllCovered
  <2> QED
    BY <2>1, <2>2 DEF MessageInv
<1>3. CASE Start
  BY <1>3 DEF Start, Launch, LaunchUnreadable, CliResume, MessageInv
<1>4. CASE Run /\ ~ Ended
  <2>1. pc # "off"
    BY <1>4 DEF Run, Boot, Recover, Phase0Aborts, Phase0, EnterGate, EnterPhase, GatePasses,
                GateFails, BeginStep, StepCompletes, StepFails, StepWaits, Extract, Summarise,
                Return, GiveUp, Answer, ResumeCompletes, ResumeWaits, ResumeFails, Answered, Refused
  <2>2. outcome = "none"
    BY <2>1 DEF MessageInv
  <2>3. \/ outcome' = outcome
        \/ outcome' \in {"fatal", "aborted", "paused", "failed"} /\ pc' = "off"
    <3>1. CASE StepCompletes \/ StepFails \/ StepWaits
      BY <3>1 DEF StepCompletes, StepFails, StepWaits, AfterSession, Leave
    <3>2. CASE ~ (StepCompletes \/ StepFails \/ StepWaits)
      BY <1>4, <3>2 DEF Run, Boot, Recover, Phase0Aborts, Phase0, EnterGate, EnterPhase, GatePasses,
                GateFails, BeginStep, Extract, Summarise, Return, GiveUp, Answer, ResumeCompletes,
                ResumeWaits, ResumeFails, Answered, Refused, Stop, Leave
    <3> QED
      BY <3>1, <3>2
  <2> QED
    BY <2>2, <2>3 DEF MessageInv
<1>5. CASE Crash
  BY <1>5 DEF Crash, Stop, MessageInv
<1> QED
  BY <1>1, <1>2, <1>3, <1>4, <1>5 DEF Next

\* The last message of a run is true of the file it leaves.  It only says that all steps
\* are completed when each step of the agenda is recorded, every feature in Phases 2 and 3
\* among them, and no session waits for an answer; and it only blames the quality gate when
\* the gate has failed as often as it may and has not been passed (run_docs_orchestrator
\* tells the two by the errors on record, whatever has happened since they were recorded).
THEOREM LastMessage ==
  Spec => [](/\ outcome = "done" => side.state # "waiting" /\ AllDone(disk, engine)
             /\ outcome = "stopped" => OutOfRetries(disk) /\ Whole("phase_1_5") \notin disk.done)
<1>1. Init => GateInv /\ MessageInv
  BY DEF Init, GateInv, Counted, MessageInv, Default, NoSide, Whole
<1>2. IInv /\ GateInv /\ MessageInv /\ [Next]_vars => GateInv' /\ MessageInv'
  BY GateStep, MessageStep
<1>3. MessageInv =>
        /\ outcome = "done" => side.state # "waiting" /\ AllDone(disk, engine)
        /\ outcome = "stopped" => OutOfRetries(disk) /\ Whole("phase_1_5") \notin disk.done
  BY DEF MessageInv
<1> QED
  BY <1>1, <1>2, <1>3, Inductive, PTL DEF Spec

\* Everything a run has to record but the features of Phases 2 and 3, which are recorded in
\* bundles: the phases, for Codex an outline unit for each feature and for each overview of a
\* domain of the summary, and the detail of each plan.
WorkOf(st, e) ==
  {Whole(phase) : phase \in {"phase_0", "phase_1", "phase_1_5", "phase_2_summary", "phase_3_A",
                             "phase_3_C", "phase_3_D", "phase_4_1", "phase_4_2", "phase_4_3"}}
    \cup {<<"phase_5_detail", {p}>> : p \in ToSet(Plans)}
    \cup IF e = "codex"
         THEN {Whole("phase_5_outline_unit"), Whole("phase_5_outline_finalize")}
                \cup {<<"phase_5_outline_unit", {x}>> : x \in ToSet(FeaturesOf(st.summary))}
                \cup {<<"phase_5_outline_unit", {x}>> :
                        x \in ToSet(DomainsOf(st.summary)) \cap {<<d>> : d \in Overviews}}
         ELSE {Whole("phase_5_outline")}

\* s is an element of the sequence a.
Has(a, s) == \E i \in 1 .. Len(a) : a[i] = s

\* A concatenation has what its parts have.
LEMMA HasConcat ==
  ASSUME NEW X, NEW a \in Seq(X), NEW b \in Seq(X), NEW s
  PROVE  a \o b \in Seq(X) /\ (Has(a, s) \/ Has(b, s) => Has(a \o b, s))
<1>1. /\ Len(a) \in Nat /\ Len(b) \in Nat /\ Len(a \o b) = Len(a) + Len(b) /\ a \o b \in Seq(X)
      /\ \A i \in 1 .. Len(a) : (a \o b)[i] = a[i]
      /\ \A i \in 1 .. Len(b) : (a \o b)[Len(a) + i] = b[i]
  BY Concat DEF Spliced
<1>2. ASSUME NEW i \in 1 .. Len(a) PROVE i \in 1 .. Len(a \o b)
  BY <1>1
<1>3. ASSUME NEW i \in 1 .. Len(b) PROVE Len(a) + i \in 1 .. Len(a \o b)
  BY <1>1
<1> QED
  BY <1>1, <1>2, <1>3 DEF Has

\* So does one of four.
LEMMA HasParts ==
  ASSUME NEW X, NEW a \in Seq(X), NEW b \in Seq(X), NEW c \in Seq(X), NEW d \in Seq(X), NEW s,
         Has(a, s) \/ Has(b, s) \/ Has(c, s) \/ Has(d, s)
  PROVE  Has(((a \o b) \o c) \o d, s)
<1>1. a \o b \in Seq(X) /\ (Has(a, s) \/ Has(b, s) => Has(a \o b, s))
  BY HasConcat
<1>2. (a \o b) \o c \in Seq(X) /\ (Has(a \o b, s) \/ Has(c, s) => Has((a \o b) \o c, s))
  BY <1>1, HasConcat
<1>3. Has((a \o b) \o c, s) \/ Has(d, s) => Has(((a \o b) \o c) \o d, s)
  BY <1>2, HasConcat
<1> QED
  BY <1>1, <1>2, <1>3

\* There is a step for each name.
LEMMA HasThings ==
  ASSUME NEW X, NEW names \in Seq(X), NEW phase, NEW x \in ToSet(names)
  PROVE  Has(Things(phase, names), <<phase, {x}>>)
<1>1. DOMAIN names = 1 .. Len(names) /\ Len(names) \in Nat
  OBVIOUS
<1>2. PICK i \in 1 .. Len(names) : names[i] = x
  BY <1>1 DEF ToSet
<1>3. Things(phase, names) = [j \in 1 .. Len(names) |-> <<phase, {names[j]}>>]
  BY <1>1 DEF Things
<1>4. Len(Things(phase, names)) = Len(names)
  BY <1>1, <1>3
<1> QED
  BY <1>2, <1>3, <1>4 DEF Has

\* The outline steps are for every feature and every overview (_build_phase_5_outline_units).
LEMMA OutlineHas ==
  ASSUME NEW st, NEW e, GoodSummary(st.summary), NEW s \in WorkOf(st, e),
         s[1] \in {"phase_5_outline", "phase_5_outline_unit", "phase_5_outline_finalize"}
  PROVE  Has(OutlineSteps(st, e), s)
<1> DEFINE features == FeaturesOf(st.summary)
           overviews == Only(DomainsOf(st.summary), {<<d>> : d \in Overviews})
           unit == "phase_5_outline_unit"
           start == <<Whole(unit)>>
           end == <<Whole("phase_5_outline_finalize")>>
<1>1. /\ features \in Seq(Names) /\ overviews \in Seq(Names)
      /\ ToSet(overviews) = ToSet(DomainsOf(st.summary)) \cap {<<d>> : d \in Overviews}
  BY SummaryNames, OnlyElements DEF GoodSummary
<1>2. /\ Things(unit, features) \in Seq(Steps) /\ Things(unit, overviews) \in Seq(Steps)
  BY <1>1, ThingsType DEF Phases
<1>3. start \in Seq(Steps) /\ end \in Seq(Steps)
  BY WholeSteps DEF Phases
<1>4. CASE e # "codex"
  <2>1. s = Whole("phase_5_outline")
    BY <1>4 DEF WorkOf, Whole
  <2> QED
    BY <1>4, <2>1 DEF OutlineSteps, Has
<1>5. CASE e = "codex"
  <2>1. \/ s = Whole(unit) \/ s = Whole("phase_5_outline_finalize")
        \/ \E x \in ToSet(features) : s = <<unit, {x}>>
        \/ \E x \in ToSet(overviews) : s = <<unit, {x}>>
    <3>1. ~ \E p \in ToSet(Plans) : s = <<"phase_5_detail", {p}>>
      OBVIOUS
    <3>2. \A phase : s = Whole(phase) => s[1] = phase
      BY DEF Whole
    <3>3. s \in {Whole(unit), Whole("phase_5_outline_finalize")}
                 \cup {<<unit, {x}>> : x \in ToSet(features)}
                 \cup {<<unit, {x}>> : x \in ToSet(overviews)}
      BY <1>1, <1>5, <3>1, <3>2 DEF WorkOf
    <3> QED
      BY <3>3
  <2>2. \/ Has(start, s) \/ Has(end, s) \/ Has(Things(unit, features), s)
        \/ Has(Things(unit, overviews), s)
    <3>1. s = Whole(unit) => Has(start, s)
      BY DEF Has
    <3>2. s = Whole("phase_5_outline_finalize") => Has(end, s)
      BY DEF Has
    <3> QED
      BY <1>1, <2>1, <3>1, <3>2, HasThings
  <2>3. OutlineSteps(st, e) =
          ((start \o Things(unit, features)) \o Things(unit, overviews)) \o end
    BY <1>5 DEF OutlineSteps, OutlineUnits
  <2> HIDE DEF start, end, features, overviews, unit
  <2> QED
    BY <1>2, <1>3, <2>2, <2>3, HasParts
<1> QED
  BY <1>4, <1>5

\* The agenda has all the work in it, and Phases 2 and 3 with their features.
LEMMA AgendaHas ==
  ASSUME NEW st, NEW e, GoodSummary(st.summary), NEW s,
         s \in (WorkOf(st, e) \ {Whole("phase_2_summary")}) \cup {Whole("phase_2"), Whole("phase_3_B")}
  PROVE  \E i \in 1 .. Len(Agenda(st, e)) - 1 : Agenda(st, e)[i] = s
<1> DEFINE details == Things("phase_5_detail", Plans)
           outline == OutlineSteps(st, e)
           done == <<Whole("done")>>
           X == Steps \cup {Whole("done")}
<1>1. First \in Seq(X) /\ outline \in Seq(X) /\ done \in Seq(X)
  <2>1. First \in Seq(X)
    BY WholeSteps DEF First, Phases
  <2>2. outline \in Seq(PlanSteps) /\ PlanSteps \subseteq X
    BY OutlineType DEF PlanSteps
  <2>3. outline \in Seq(X)
    BY <2>2
  <2> QED
    BY <2>1, <2>3
<1>2. Plans \in Seq(Names)
  <2>1. Plans \in Seq(ToSet(Plans)) /\ ToSet(Plans) \subseteq Names
    BY ListsAssumption DEF Names
  <2> QED
    BY <2>1
<1>3. details \in Seq(X)
  BY <1>2, ThingsType DEF Phases
<1>4. Has(First, s) \/ Has(outline, s) \/ Has(details, s)
  <2>1. CASE s[1] \in {"phase_5_outline", "phase_5_outline_unit", "phase_5_outline_finalize"}
    BY <2>1, OutlineHas DEF Whole
  <2>2. CASE s[1] = "phase_5_detail"
    <3>1. \E p \in ToSet(Plans) : s = <<"phase_5_detail", {p}>>
      BY <2>2 DEF WorkOf, Whole
    <3> QED
      BY <1>2, <3>1, HasThings
  <2>3. CASE ~ (s[1] \in {"phase_5_outline", "phase_5_outline_unit", "phase_5_outline_finalize",
                          "phase_5_detail"})
    <3>1. s \in {Whole(phase) : phase \in {"phase_0", "phase_1", "phase_1_5", "phase_2", "phase_3_A",
                   "phase_3_B", "phase_3_C", "phase_3_D", "phase_4_1", "phase_4_2", "phase_4_3"}}
      BY <2>3 DEF WorkOf, Whole
    <3>2. Has(First, s)
      BY <3>1 DEF Has, First
    <3> QED
      BY <3>2
  <2> QED
    BY <2>1, <2>2, <2>3
<1>5. Agenda(st, e) = ((First \o outline) \o details) \o done
  BY DEF Agenda, First
<1> HIDE DEF details, outline, done, X
<1>6. PICK i \in 1 .. Len(Agenda(st, e)) : Agenda(st, e)[i] = s
  <2>1. Has(Agenda(st, e), s)
    BY <1>1, <1>3, <1>4, <1>5, HasParts
  <2> QED
    BY <2>1 DEF Has
<1>7. s # Whole("done")
  BY DEF WorkOf, Whole
<1>8. Len(Agenda(st, e)) \in Nat /\ Agenda(st, e)[Len(Agenda(st, e))] = Whole("done")
  BY AgendaType DEF Begins
<1> QED
  BY <1>6, <1>7, <1>8

\* "All steps completed!" leaves nothing out: every phase, every feature in Phase 2 and in
\* Phase 3, alone or in a bundle, for Codex the outline unit of every feature and of every
\* overview, and the detail of every plan are recorded in the state file.
THEOREM NothingIsLeftOut ==
  Spec => [](outcome = "done" =>
               /\ WorkOf(disk, engine) \subseteq disk.done
               /\ \A x \in ToSet(FeaturesOf(disk.summary)) :
                    Covered(disk.done, "phase_2", x) /\ Covered(disk.done, "phase_3_B", x))
<1> DEFINE Complete ==
      outcome = "done" =>
        /\ WorkOf(disk, engine) \subseteq disk.done
        /\ \A x \in ToSet(FeaturesOf(disk.summary)) :
             Covered(disk.done, "phase_2", x) /\ Covered(disk.done, "phase_3_B", x)
<1>1. ASSUME IInv, outcome = "done" => AllDone(disk, engine) PROVE Complete
  <2> SUFFICES ASSUME outcome = "done" PROVE Complete
    OBVIOUS
  <2>1. GoodSummary(disk.summary)
    BY <1>1, NextUpIsNext DEF IInv, GoodState
  <2>2. ASSUME NEW s \in (WorkOf(disk, engine) \ {Whole("phase_2_summary")})
                           \cup {Whole("phase_2"), Whole("phase_3_B")}
        PROVE  IsDone(disk, s)
    <3>1. PICK i \in 1 .. Len(Agenda(disk, engine)) - 1 : Agenda(disk, engine)[i] = s
      BY <2>1, <2>2, AgendaHas
    <3>2. AllDone(disk, engine)
      BY <1>1
    <3> QED
      BY <3>1, <3>2 DEF AllDone
  <2>3. Whole("phase_2") # Whole("phase_3_B")
    BY DEF Whole
  <2>4. IsDone(disk, Whole("phase_2")) /\ IsDone(disk, Whole("phase_3_B"))
    BY <2>2
  <2>5. /\ AllCovered(disk, "phase_2") /\ Whole("phase_2_summary") \in disk.done
        /\ AllCovered(disk, "phase_3_B")
    BY <2>3, <2>4 DEF IsDone
  <2>6. ASSUME NEW s \in WorkOf(disk, engine), s # Whole("phase_2_summary") PROVE s \in disk.done
    <3>1. s # Whole("phase_2") /\ s # Whole("phase_3_B")
      BY DEF WorkOf, Whole
    <3>2. IsDone(disk, s)
      BY <2>2, <2>6
    <3> QED
      BY <3>1, <3>2 DEF IsDone
  <2> QED
    BY <2>5, <2>6 DEF AllCovered
<1>2. IInv /\ (outcome = "done" => side.state # "waiting" /\ AllDone(disk, engine)) => Complete
  BY <1>1
<1> HIDE DEF Complete
<1>3. Spec => []Complete
  BY <1>2, Inductive, LastMessage, PTL
<1> QED
  BY <1>3 DEF Complete

-----------------------------------------------------------------------------
(***************************************************************************)
(* The refinement.                                                         *)
(***************************************************************************)

\* What the state file is for DocsProgress.
RecordOf(st) == [done |-> st.done, strikes |-> st.strikes, summary |-> st.summary]

\* What is due, and what is done, is so by the record alone.
LEMMA RecordsMove ==
  ASSUME NEW st, NEW other, NEW e, Moves(st, other, e)
  PROVE  \/ RecordOf(other) = RecordOf(st)
         \/ Progress!Records(RecordOf(st), RecordOf(other), e)
         \/ Progress!RollsBack(RecordOf(st), RecordOf(other))
<1>1. /\ RecordOf(st).done = st.done /\ RecordOf(st).strikes = st.strikes
      /\ RecordOf(st).summary = st.summary /\ RecordOf(other).done = other.done
      /\ RecordOf(other).strikes = other.strikes /\ RecordOf(other).summary = other.summary
  BY DEF RecordOf
<1>2. \A step : After(RecordOf(st), e, step) <=> After(st, e, step)
  BY <1>1, SameProgress
<1>3. CASE SameRecord(st, other)
  BY <1>3 DEF SameRecord, RecordOf
<1>4. CASE Progress!Records(st, other, e)
  BY <1>1, <1>2, <1>4 DEF Progress!Records
<1>5. CASE Progress!RollsBack(st, other)
  BY <1>1, <1>5 DEF Progress!RollsBack
<1> QED
  BY <1>3, <1>4, <1>5 DEF Moves

\* A run that speaks has left the file alone.
LEMMA SpeaksLast == [Next]_vars => engine' = engine /\ (outcome' = outcome \/ disk' = disk)
<1> SUFFICES ASSUME [Next]_vars PROVE engine' = engine /\ (outcome' = outcome \/ disk' = disk)
  OBVIOUS
<1>1. CASE StepCompletes \/ StepFails \/ StepWaits
  BY <1>1 DEF StepCompletes, StepFails, StepWaits, AfterSession, Leave
<1>2. CASE Boot \/ Recover \/ Ended \/ Phase0Aborts \/ Phase0 \/ EnterGate \/ EnterPhase
           \/ GatePasses \/ GateFails
  BY <1>2 DEF Boot, Recover, Ended, Phase0Aborts, Phase0, EnterGate, EnterPhase, GatePasses,
              GateFails, Stop, Leave
<1>3. CASE BeginStep \/ Extract \/ Summarise \/ Return \/ GiveUp \/ Answer \/ ResumeCompletes
           \/ ResumeWaits \/ ResumeFails \/ Answered \/ Refused
  BY <1>3 DEF BeginStep, Extract, Summarise, Return, GiveUp, Answer, ResumeCompletes, ResumeWaits,
              ResumeFails, Answered, Refused, Stop, Leave
<1>4. CASE Start \/ Crash \/ UNCHANGED vars
  BY <1>4 DEF Start, Launch, LaunchUnreadable, CliResume, Crash, Stop, vars
<1> QED
  BY <1>1, <1>2, <1>3, <1>4 DEF Next, Run

\* Over all crashes, recoveries and resumed sessions the state file and the last message
\* implement DocsProgress: the file records one step at a time, each when it is due, loses
\* none but to a counted failure of the gate, and the message is true of it.
THEOREM Refinement == Spec => KeepsProgress
<1>1. Init => GateInv /\ SavesInv /\ MessageInv
  BY DEF Init, GateInv, Counted, OutOfRetries, SavesInv, MessageInv, Default, NoSide, Whole
<1>2. IInv /\ GateInv /\ SavesInv /\ MessageInv /\ [Next]_vars => GateInv' /\ SavesInv' /\ MessageInv'
  BY GateStep, SavesStep, MessageStep
<1>3. Init => Progress!Init
  BY DEF Init, Default, Progress!Init
<1>4. IInv /\ GateInv /\ SavesInv /\ MessageInv' /\ [Next]_vars => [Progress!Next]_(Progress!progress)
  <2> SUFFICES ASSUME IInv, GateInv, SavesInv, MessageInv', [Next]_vars
               PROVE  [Progress!Next]_(Progress!progress)
    OBVIOUS
  <2>1. engine' = engine /\ (outcome' = outcome \/ disk' = disk)
    BY SpeaksLast
  <2>2. CASE outcome' = outcome
    <3>1. \/ RecordOf(disk') = RecordOf(disk)
          \/ Progress!Records(RecordOf(disk), RecordOf(disk'), engine)
          \/ Progress!RollsBack(RecordOf(disk), RecordOf(disk'))
      BY FileMoves, RecordsMove
    <3> QED
      BY <2>1, <2>2, <3>1 DEF RecordOf, Progress!Next, Progress!Save, Progress!progress
  <2>3. CASE disk' = disk
    <3>1. /\ outcome' = "done" => AllDone(disk, engine)'
          /\ outcome' = "stopped" => OutOfRetries(disk)' /\ Whole("phase_1_5") \notin disk'.done
      BY DEF MessageInv
    <3>2. AllDone(disk, engine)' => AllDone(RecordOf(disk), engine)
      BY <2>1, <2>3 DEF AllDone, Agenda, OutlineSteps, OutlineUnits, IsDone, AllCovered, RecordOf
    <3>3. OutOfRetries(disk)' => RecordOf(disk).strikes >= MaxStrikes
      BY <2>3 DEF OutOfRetries, RecordOf
    <3> QED
      BY <2>1, <2>3, <3>1, <3>2, <3>3 DEF RecordOf, Progress!Next, Progress!Say
  <2> QED
    BY <2>1, <2>2, <2>3
<1> QED
  BY <1>1, <1>2, <1>3, <1>4, Inductive, PTL DEF Spec, KeepsProgress, Progress!Spec

=============================================================================
