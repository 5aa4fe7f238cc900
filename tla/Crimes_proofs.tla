----------------------------- MODULE Crimes_proofs ------------------------------
(***************************************************************************)
(* The list of wanted characters and the crimes that are recorded, for any *)
(* number of characters, bounties and messages under way.  A reply that    *)
(* brings the crimes of a character overwrites what the server has; that   *)
(* it never clears the crimes of somebody who is on the list already rests *)
(* on AskInv: a record is asked for once, by a character that waits for it. *)
(***************************************************************************)
EXTENDS Crimes, SequenceTheorems, FiniteSetTheorems, WellFoundedInduction, TLAPS

-----------------------------------------------------------------------------
(* Induction, from the minimal elements of a well-founded order. *)

LEMMA NatInd == ASSUME NEW T \in SUBSET Nat, 0 \in T, \A n \in T : n+1 \in T PROVE T = Nat
<1> DEFINE F == {0 .. m : m \in Nat \ T}
<1>1. SUFFICES ASSUME Nat \ T # {} PROVE FALSE
  OBVIOUS
<1>2. F \subseteq FiniteSubsetsOf(Nat)
  <2>1. ASSUME NEW m \in Nat PROVE IsFiniteSet(0 .. m) /\ 0 .. m \in SUBSET Nat
    BY <2>1, FS_Interval
  <2> QED BY <2>1 DEF FiniteSubsetsOf
<1>3. F # {}
  BY <1>1
<1>4. IsWellFoundedOn(StrictSubsetOrdering(Nat), FiniteSubsetsOf(Nat))
  BY FS_StrictSubsetOrderingWellFounded
<1>5. PICK X \in F : \A Y \in F : ~(<<Y, X>> \in StrictSubsetOrdering(Nat))
  <2> HIDE DEF F
  <2> QED
  BY <1>2, <1>3, <1>4, WFMin
<1>6. PICK m \in Nat \ T : X = 0 .. m
  BY <1>5
<1>7. m # 0
  OBVIOUS
<1>8. m - 1 \in Nat /\ m - 1 \notin T
  <2>1. m - 1 \in Nat
    BY <1>7
  <2>2. (m - 1) + 1 = m
    BY <1>6
  <2> QED BY <2>1, <2>2
<1>9. 0 .. (m - 1) \in F
  BY <1>8
<1>10. <<0 .. (m - 1), X>> \in StrictSubsetOrdering(Nat)
  <2>1. 0 .. (m-1) \subseteq X /\ m \in X /\ m \notin 0 .. (m-1)
    BY <1>6, <1>8
  <2>2. X \in SUBSET Nat /\ 0 .. (m-1) \in SUBSET Nat
    BY <1>6, <1>8
  <2> QED BY <2>1, <2>2 DEF StrictSubsetOrdering
<1> QED BY <1>5, <1>9, <1>10

\* the same up to a number
LEMMA Upto ==
    ASSUME NEW N \in Nat, NEW T, 0 \in T, \A n \in Nat : n \in T /\ n < N => n + 1 \in T
    PROVE  \A n \in 0 .. N : n \in T
<1> DEFINE F == {n \in Nat : n <= N => n \in T}
<1>1. F \in SUBSET Nat /\ 0 \in F
  OBVIOUS
<1>2. ASSUME NEW n \in F PROVE n + 1 \in F
  OBVIOUS
<1> HIDE DEF F
<1>3. F = Nat
  BY ONLY <1>1, <1>2, NatInd
<1> QED BY <1>3 DEF F

\* what holds of a set when it holds of its proper subsets holds of all
LEMMA SubsetsInduction ==
    ASSUME NEW S, IsFiniteSet(S), NEW T,
           \A s \in SUBSET S : (\A t \in SUBSET s : t # s => t \in T) => s \in T
    PROVE  \A s \in SUBSET S : s \in T
<1> DEFINE F == {s \in SUBSET S : s \notin T}
<1>1. SUFFICES ASSUME F # {} PROVE FALSE
  OBVIOUS
<1>2. FiniteSubsetsOf(S) = SUBSET S
  BY FS_FiniteSubsetsOfFinite
<1>3. IsWellFoundedOn(StrictSubsetOrdering(S), SUBSET S)
  BY <1>2, FS_StrictSubsetOrderingWellFounded
<1>4. F \subseteq SUBSET S
  OBVIOUS
<1> HIDE DEF F
<1>5. PICK s \in F : \A t \in F : ~(<<t, s>> \in StrictSubsetOrdering(S))
  BY <1>1, <1>3, <1>4, WFMin
<1>6. ASSUME NEW t \in SUBSET s, t # s PROVE t \in T
  <2>1. <<t, s>> \in StrictSubsetOrdering(S)
    BY <1>4, <1>6 DEF StrictSubsetOrdering
  <2>2. t \in SUBSET S
    BY <1>4
  <2> QED BY <1>5, <2>1, <2>2 DEF F
<1> QED BY <1>4, <1>5, <1>6 DEF F

-----------------------------------------------------------------------------
(* Sums (SumFunctionOnSet), by their terms. *)

Ch(s) == CHOOSE x \in s : TRUE

LEMMA ChIn == ASSUME NEW s, s # {} PROVE Ch(s) \in s /\ s \ {Ch(s)} \in SUBSET s /\ s \ {Ch(s)} # s
BY DEF Ch

\* the function of which SumFunctionOnSet is a value
Partial(g, f, S) ==
    g = [s \in SUBSET S |-> IF s = {} THEN 0 ELSE f[Ch(s)] + g[s \ {Ch(s)}]]

LEMMA PartialIs ==
    ASSUME NEW f, NEW S, NEW g, Partial(g, f, S)
    PROVE  \A s \in SUBSET S : /\ s = {} => g[s] = 0
                               /\ s # {} => g[s] = f[Ch(s)] + g[s \ {Ch(s)}]
BY DEF Partial

LEMMA PartialsAgree ==
    ASSUME NEW S, IsFiniteSet(S), NEW R \in SUBSET S, NEW f, NEW e,
           \A x \in R : e[x] = f[x],
           NEW g, NEW h, Partial(g, f, S), Partial(h, e, R)
    PROVE  \A s \in SUBSET R : g[s] = h[s]
<1> DEFINE T == {s \in SUBSET R : g[s] = h[s]}
<1>1. IsFiniteSet(R)
  BY FS_Subset
<1>g. \A s \in SUBSET S : s # {} => g[s] = f[Ch(s)] + g[s \ {Ch(s)}]
  BY PartialIs
<1>h. \A s \in SUBSET R : s # {} => h[s] = e[Ch(s)] + h[s \ {Ch(s)}]
  BY PartialIs
<1>2. ASSUME NEW s \in SUBSET R, \A t \in SUBSET s : t # s => t \in T
      PROVE  s \in T
  <2>1. s \in SUBSET S
    OBVIOUS
  <2>2. CASE s = {}
    BY <2>1, <2>2, PartialIs
  <2>3. CASE s # {}
    <3>1. Ch(s) \in s /\ s \ {Ch(s)} \in T
      BY <1>2, <2>3, ChIn
    <3>2. g[s] = f[Ch(s)] + g[s \ {Ch(s)}]
      BY <1>g, <2>1, <2>3
    <3>3. h[s] = e[Ch(s)] + h[s \ {Ch(s)}]
      BY <1>h, <2>3
    <3> QED BY <3>1, <3>2, <3>3
  <2> QED BY <2>2, <2>3
<1> HIDE DEF T
<1>3. \A s \in SUBSET R : s \in T
  BY ONLY <1>1, <1>2, SubsetsInduction
<1> QED BY <1>3 DEF T

LEMMA PartialExists ==
    ASSUME NEW S, IsFiniteSet(S), NEW f
    PROVE  \E g : Partial(g, f, S)
<1> DEFINE T == {s \in SUBSET S : \E g : Partial(g, f, s)}
           of(s) == (CHOOSE g : Partial(g, f, s))[s]
<1>1. ASSUME NEW R \in SUBSET S, \A t \in SUBSET R : t # R => t \in T
      PROVE  R \in T
  <2> DEFINE g == [s \in SUBSET R |-> IF s = {} THEN 0 ELSE f[Ch(s)] + of(s \ {Ch(s)})]
  <2>0. \A s \in SUBSET R : g[s] = IF s = {} THEN 0 ELSE f[Ch(s)] + of(s \ {Ch(s)})
    OBVIOUS
  <2> HIDE DEF g
  <2>1. ASSUME NEW t \in SUBSET R, t # R
        PROVE  g[t] = of(t)
    <3>1. PICK h : Partial(h, f, t) /\ of(t) = h[t]
      <4>1. \E h : Partial(h, f, t)
        BY <1>1, <2>1
      <4> QED BY <4>1
    <3>2. CASE t = {}
      <4>1. t \in SUBSET t
        OBVIOUS
      <4>2. h[t] = 0
        <5>1. Partial(h, f, t)
          BY <3>1
        <5>2. \A s \in SUBSET t : s = {} => h[s] = 0
          BY ONLY <5>1, PartialIs
        <5> QED BY ONLY <3>2, <4>1, <5>2
      <4> HIDE DEF of
      <4> QED BY <2>0, <3>1, <3>2, <4>2
    <3>3. CASE t # {}
      <4> DEFINE u == t \ {Ch(t)}
      <4>1. u \in SUBSET t /\ u \in SUBSET R /\ u # R
        BY <2>1, <3>3, ChIn
      <4>2. PICK k : Partial(k, f, u) /\ of(u) = k[u]
        <5>1. \E k : Partial(k, f, u)
          BY <1>1, <4>1
        <5> QED BY <5>1
      <4>3. IsFiniteSet(t)
        BY FS_Subset
      <4> HIDE DEF of
      <4>4. h[u] = k[u]
        <5> HIDE DEF u
        <5>1. \A x \in u : f[x] = f[x]
          OBVIOUS
        <5>2. \A s \in SUBSET u : h[s] = k[s]
          BY ONLY <3>1, <4>1, <4>2, <4>3, <5>1, PartialsAgree
        <5> QED BY <5>2
      <4>5. h[t] = f[Ch(t)] + h[u]
        BY <3>1, <3>3, PartialIs
      <4>6. g[t] = f[Ch(t)] + of(u)
        BY <2>0, <3>3
      <4> QED BY <3>1, <4>2, <4>4, <4>5, <4>6
    <3> QED BY <3>2, <3>3
  <2>2. \A s \in SUBSET R : s # {} => g[s \ {Ch(s)}] = of(s \ {Ch(s)})
    <3> SUFFICES ASSUME NEW s \in SUBSET R, s # {} PROVE g[s \ {Ch(s)}] = of(s \ {Ch(s)})
      OBVIOUS
    <3>1. s \ {Ch(s)} \in SUBSET R /\ s \ {Ch(s)} # R
      BY ChIn
    <3> HIDE DEF of
    <3> QED BY <2>1, <3>1
  <2>3. Partial(g, f, R)
    <3> HIDE DEF of
    <3>1. \A s \in SUBSET R : g[s] = IF s = {} THEN 0 ELSE f[Ch(s)] + g[s \ {Ch(s)}]
      BY <2>0, <2>2
    <3>2. g = [s \in SUBSET R |-> g[s]]
      BY DEF g
    <3> QED BY <3>1, <3>2 DEF Partial
  <2> QED BY <2>3
<1> HIDE DEF T
<1>2. \A s \in SUBSET S : s \in T
  BY ONLY IsFiniteSet(S), <1>1, SubsetsInduction
<1> QED BY <1>2 DEF T

LEMMA SumOf ==
    ASSUME NEW S, IsFiniteSet(S), NEW f
    PROVE  \E g : Partial(g, f, S) /\ g[S] = SumFunctionOnSet(f, S)
<1> DEFINE c == CHOOSE g : Partial(g, f, S)
<1>1. Partial(c, f, S)
  BY PartialExists
<1>2. SumFunctionOnSet(f, S) = c[S]
  BY DEF SumFunctionOnSet, FoldFunctionOnSet, MapThenFoldSet, Partial, Ch
<1> QED BY <1>1, <1>2

\* a sum of integers, by one of its terms
LEMMA SumEmpty == ASSUME NEW f PROVE SumFunctionOnSet(f, {}) = 0
<1>1. IsFiniteSet({})
  BY FS_EmptySet
<1>2. PICK g : Partial(g, f, {}) /\ g[{}] = SumFunctionOnSet(f, {})
  BY <1>1, SumOf
<1>3. {} \in SUBSET {}
  OBVIOUS
<1>4. g[{}] = 0
  BY ONLY <1>2, <1>3, PartialIs
<1> QED BY <1>2, <1>4

LEMMA SumFirst ==
    ASSUME NEW S, IsFiniteSet(S), S # {}, NEW f
    PROVE  SumFunctionOnSet(f, S) = f[Ch(S)] + SumFunctionOnSet(f, S \ {Ch(S)})
<1> DEFINE R == S \ {Ch(S)}
<1>1. R \in SUBSET S /\ IsFiniteSet(R)
  BY FS_Subset
<1>2. PICK g : Partial(g, f, S) /\ g[S] = SumFunctionOnSet(f, S)
  BY SumOf
<1>3. g[S] = f[Ch(S)] + g[R]
  BY <1>2, PartialIs
<1> HIDE DEF R
<1>4. PICK h : Partial(h, f, R) /\ h[R] = SumFunctionOnSet(f, R)
  BY <1>1, SumOf
<1>5. \A x \in R : f[x] = f[x]
  OBVIOUS
<1>6. \A s \in SUBSET R : g[s] = h[s]
  BY ONLY IsFiniteSet(S), <1>1, <1>2, <1>4, <1>5, PartialsAgree
<1> QED BY <1>2, <1>3, <1>4, <1>6 DEF R

LEMMA SumSame ==
    ASSUME NEW S, IsFiniteSet(S), NEW f, NEW e, \A x \in S : e[x] = f[x]
    PROVE  SumFunctionOnSet(e, S) = SumFunctionOnSet(f, S)
<1>1. PICK g : Partial(g, f, S) /\ g[S] = SumFunctionOnSet(f, S)
  BY SumOf
<1>2. PICK h : Partial(h, e, S) /\ h[S] = SumFunctionOnSet(e, S)
  BY SumOf
<1>3. S \in SUBSET S
  OBVIOUS
<1>4. \A s \in SUBSET S : g[s] = h[s]
  BY ONLY IsFiniteSet(S), <1>1, <1>2, <1>3, \A x \in S : e[x] = f[x], PartialsAgree
<1> QED BY <1>1, <1>2, <1>3, <1>4

\* the terms of f are numbers
Terms(f, S) == \A x \in S : f[x] \in Int

LEMMA SumInt ==
    ASSUME NEW S, IsFiniteSet(S), NEW f, Terms(f, S)
    PROVE  SumFunctionOnSet(f, S) \in Int
<1> DEFINE T == {s \in SUBSET S : SumFunctionOnSet(f, s) \in Int}
<1>1. ASSUME NEW R \in SUBSET S, \A t \in SUBSET R : t # R => t \in T
      PROVE  R \in T
  <2>1. CASE R = {}
    BY <2>1, SumEmpty
  <2>2. CASE R # {}
    <3>1. Ch(R) \in R /\ R \ {Ch(R)} \in T
      BY <1>1, <2>2, ChIn
    <3>2. IsFiniteSet(R)
      BY FS_Subset
    <3>3. SumFunctionOnSet(f, R) = f[Ch(R)] + SumFunctionOnSet(f, R \ {Ch(R)})
      BY <2>2, <3>2, SumFirst
    <3>4. f[Ch(R)] \in Int
      BY <3>1 DEF Terms
    <3> QED BY <3>1, <3>3, <3>4
  <2> QED BY <2>1, <2>2
<1> HIDE DEF T
<1>2. \A s \in SUBSET S : s \in T
  BY ONLY IsFiniteSet(S), <1>1, SubsetsInduction
<1> QED BY <1>2 DEF T

LEMMA SumWithout ==
    ASSUME NEW S, IsFiniteSet(S), NEW f, Terms(f, S), NEW x \in S
    PROVE  SumFunctionOnSet(f, S) = f[x] + SumFunctionOnSet(f, S \ {x})
<1> DEFINE T == {s \in SUBSET S : \A y \in s :
                    SumFunctionOnSet(f, s) = f[y] + SumFunctionOnSet(f, s \ {y})}
<1>1. ASSUME NEW R \in SUBSET S, \A t \in SUBSET R : t # R => t \in T
      PROVE  R \in T
  <2> SUFFICES ASSUME NEW y \in R
               PROVE  SumFunctionOnSet(f, R) = f[y] + SumFunctionOnSet(f, R \ {y})
    OBVIOUS
  <2> DEFINE c == Ch(R)
             u == R \ {c}
             v == R \ {y}
             w == R \ {c, y}
  <2>1. c \in R
    BY ChIn
  <2>2. IsFiniteSet(R)
    BY FS_Subset
  <2>3. SumFunctionOnSet(f, R) = f[c] + SumFunctionOnSet(f, u)
    BY <2>2, SumFirst
  <2>4. CASE c = y
    BY <2>3, <2>4
  <2>5. CASE c # y
    <3>1. u \in T /\ v \in T
      BY <1>1, <2>1
    <3>2. y \in u /\ c \in v /\ u \ {y} = w /\ v \ {c} = w /\ w \in SUBSET S
      BY <2>1, <2>5
    <3>3. SumFunctionOnSet(f, u) = f[y] + SumFunctionOnSet(f, w)
      BY <3>1, <3>2
    <3>4. SumFunctionOnSet(f, v) = f[c] + SumFunctionOnSet(f, w)
      BY <3>1, <3>2
    <3>5. f[c] \in Int /\ f[y] \in Int /\ IsFiniteSet(w) /\ Terms(f, w)
      BY <2>1, <3>2, FS_Subset DEF Terms
    <3> HIDE DEF c, u, v, w
    <3>6. SumFunctionOnSet(f, w) \in Int
      BY ONLY <3>5, SumInt
    <3> QED BY <2>3, <3>3, <3>4, <3>5, <3>6 DEF v
  <2> QED BY <2>4, <2>5
<1> HIDE DEF T
<1>2. \A s \in SUBSET S : s \in T
  BY ONLY IsFiniteSet(S), <1>1, SubsetsInduction
<1> QED BY <1>2 DEF T

\* one term changes
LEMMA SumChanged ==
    ASSUME NEW S, IsFiniteSet(S), NEW f, NEW e, Terms(f, S), Terms(e, S), NEW x \in S,
           \A y \in S : y # x => e[y] = f[y]
    PROVE  SumFunctionOnSet(e, S) = SumFunctionOnSet(f, S) + (e[x] - f[x])
<1> DEFINE R == S \ {x}
<1>1. SumFunctionOnSet(f, S) = f[x] + SumFunctionOnSet(f, R)
  BY SumWithout
<1>2. SumFunctionOnSet(e, S) = e[x] + SumFunctionOnSet(e, R)
  BY SumWithout
<1>3. IsFiniteSet(R) /\ (\A y \in R : e[y] = f[y]) /\ Terms(f, R)
  BY FS_Subset DEF Terms
<1> HIDE DEF R
<1>4. SumFunctionOnSet(e, R) = SumFunctionOnSet(f, R)
  BY ONLY <1>3, SumSame
<1>5. SumFunctionOnSet(f, R) \in Int
  BY ONLY <1>3, SumInt
<1>6. f[x] \in Int /\ e[x] \in Int
  BY DEF Terms
<1> QED BY <1>1, <1>2, <1>4, <1>5, <1>6

\* some terms are greater by d
LEMMA SumShared ==
    ASSUME NEW S, IsFiniteSet(S), NEW f, NEW e, Terms(f, S), NEW K \in SUBSET S, NEW d \in Int,
           \A y \in S : e[y] = IF y \in K THEN f[y] + d ELSE f[y]
    PROVE  SumFunctionOnSet(e, S) = SumFunctionOnSet(f, S) + Cardinality(K) * d
<1> DEFINE g(P) == [y \in S |-> IF y \in P THEN f[y] + d ELSE f[y]]
           T == {P \in SUBSET S :
                    SumFunctionOnSet(g(P), S) = SumFunctionOnSet(f, S) + Cardinality(P) * d}
<1>0. \A P : Terms(g(P), S)
  BY DEF Terms
<1>f. SumFunctionOnSet(f, S) \in Int
  BY SumInt
<1>1. ASSUME NEW R \in SUBSET S, \A t \in SUBSET R : t # R => t \in T
      PROVE  R \in T
  <2>1. CASE R = {}
    <3>1. \A y \in S : g(R)[y] = f[y]
      BY <2>1
    <3> HIDE DEF g
    <3>2. SumFunctionOnSet(g(R), S) = SumFunctionOnSet(f, S)
      BY ONLY IsFiniteSet(S), <3>1, SumSame
    <3>3. Cardinality(R) * d = 0
      <4>1. Cardinality(R) = 0
        BY <2>1, FS_EmptySet
      <4> QED BY <4>1
    <3> QED BY <1>f, <3>2, <3>3
  <2>2. CASE R # {}
    <3>1. PICK x \in R : TRUE
      BY <2>2
    <3> DEFINE Q == R \ {x}
    <3>2. Q \in T /\ x \in S
      BY <1>1, <3>1
    <3>3. Cardinality(R) = Cardinality(Q) + 1 /\ Cardinality(Q) \in Nat
      <4>1. IsFiniteSet(R) /\ IsFiniteSet(Q)
        BY FS_Subset
      <4>2. x \in R
        BY <3>1
      <4>3. Cardinality(Q) = Cardinality(R) - 1
        BY ONLY <4>1, <4>2, FS_RemoveElement
      <4>4. Cardinality(R) \in Nat /\ Cardinality(Q) \in Nat
        BY ONLY <4>1, FS_CardinalityType
      <4> HIDE DEF Q
      <4> QED BY ONLY <4>3, <4>4
    <3>4. \A y \in S : y # x => g(R)[y] = g(Q)[y]
      OBVIOUS
    <3>5. g(R)[x] = f[x] + d /\ g(Q)[x] = f[x] /\ f[x] \in Int
      BY <3>1, <3>2 DEF Terms
    <3> HIDE DEF g, Q
    <3>6. SumFunctionOnSet(g(R), S) = SumFunctionOnSet(g(Q), S) + (g(R)[x] - g(Q)[x])
      <4>1. Terms(g(R), S) /\ Terms(g(Q), S) /\ x \in S
        BY <1>0, <3>2
      <4> QED BY ONLY IsFiniteSet(S), <4>1, <3>4, SumChanged
    <3>7. SumFunctionOnSet(g(Q), S) = SumFunctionOnSet(f, S) + Cardinality(Q) * d
      BY <3>2
    <3>8. Cardinality(R) * d = Cardinality(Q) * d + d
      <4> PICK n \in Nat : n = Cardinality(Q)
        BY <3>3
      <4>1. (n + 1) * d = n * d + d
        OBVIOUS
      <4> QED BY <3>3, <4>1
    <3>9. Cardinality(Q) * d \in Int
      BY <3>3
    <3> QED BY <1>f, <3>5, <3>6, <3>7, <3>8, <3>9
  <2> QED BY <2>1, <2>2
<1>2. \A y \in S : e[y] = g(K)[y]
  OBVIOUS
<1> HIDE DEF T
<1>3. \A s \in SUBSET S : s \in T
  BY ONLY IsFiniteSet(S), <1>1, SubsetsInduction
<1>4. SumFunctionOnSet(g(K), S) = SumFunctionOnSet(f, S) + Cardinality(K) * d
  BY <1>3 DEF T
<1> HIDE DEF g
<1>5. SumFunctionOnSet(e, S) = SumFunctionOnSet(g(K), S)
  BY ONLY IsFiniteSet(S), <1>2, SumSame
<1> QED BY <1>4, <1>5

\* sums over the places of sequences: one place more, at the end
LEMMA SumLonger ==
    ASSUME NEW n \in Nat, NEW f, NEW e, Terms(e, 1 .. n + 1), \A i \in 1 .. n : e[i] = f[i]
    PROVE  SumFunctionOnSet(e, 1 .. n + 1) = SumFunctionOnSet(f, 1 .. n) + e[n + 1]
<1> PICK k : k = n + 1
  OBVIOUS
<1>1. k \in 1 .. k /\ (1 .. k) \ {k} = 1 .. n
  OBVIOUS
<1>2. IsFiniteSet(1 .. k) /\ IsFiniteSet(1 .. n)
  BY FS_Interval
<1>3. SumFunctionOnSet(e, 1 .. k) = e[k] + SumFunctionOnSet(e, (1 .. k) \ {k})
  <2>1. Terms(e, 1 .. k)
    OBVIOUS
  <2> QED BY ONLY <1>1, <1>2, <2>1, SumWithout
<1>4. SumFunctionOnSet(e, 1 .. n) = SumFunctionOnSet(f, 1 .. n)
  BY ONLY <1>2, \A i \in 1 .. n : e[i] = f[i], SumSame
<1>5. e[k] \in Int
  BY <1>1 DEF Terms
<1>6. SumFunctionOnSet(e, 1 .. n) \in Int
  <2>1. Terms(e, 1 .. n)
    BY DEF Terms
  <2> QED BY ONLY <1>2, <2>1, SumInt
<1>7. SumFunctionOnSet(e, 1 .. k) = e[k] + SumFunctionOnSet(f, 1 .. n)
  BY ONLY <1>1, <1>3, <1>4
<1>8. SumFunctionOnSet(f, 1 .. n) \in Int
  BY <1>4, <1>6
<1>9. SumFunctionOnSet(e, 1 .. k) = SumFunctionOnSet(f, 1 .. n) + e[k]
  BY ONLY <1>5, <1>7, <1>8
<1> QED BY <1>9

\* terms of 0 at the end
LEMMA SumZeros ==
    ASSUME NEW n \in Nat, NEW k \in Nat, NEW f, NEW e, Terms(f, 1 .. n),
           \A i \in 1 .. n : e[i] = f[i], \A i \in 1 .. n + k : i > n => e[i] = 0
    PROVE  SumFunctionOnSet(e, 1 .. n + k) = SumFunctionOnSet(f, 1 .. n)
<1> DEFINE T == {j \in Nat : SumFunctionOnSet(e, 1 .. n + j) = SumFunctionOnSet(f, 1 .. n)}
<1>1. 0 \in T
  <2>1. IsFiniteSet(1 .. n)
    BY FS_Interval
  <2>2. SumFunctionOnSet(e, 1 .. n) = SumFunctionOnSet(f, 1 .. n)
    BY ONLY <2>1, \A i \in 1 .. n : e[i] = f[i], SumSame
  <2> QED BY <2>2
<1>2. ASSUME NEW j \in Nat, j \in T, j < k PROVE j + 1 \in T
  <2> PICK m : m = n + j
    OBVIOUS
  <2>1. m \in Nat /\ m + 1 = n + (j + 1) /\ m + 1 > n /\ m + 1 \in 1 .. n + k
    BY <1>2
  <2>2. Terms(e, 1 .. m + 1)
    <3> SUFFICES ASSUME NEW i \in 1 .. m + 1 PROVE e[i] \in Int
      BY DEF Terms
    <3>1. CASE i \in 1 .. n
      BY <3>1 DEF Terms
    <3>2. CASE i > n
      BY <1>2, <2>1, <3>2
    <3> QED BY <2>1, <3>1, <3>2
  <2>3. SumFunctionOnSet(e, 1 .. m + 1) = SumFunctionOnSet(e, 1 .. m) + e[m + 1]
    <3>1. m \in Nat /\ \A i \in 1 .. m : e[i] = e[i]
      BY <2>1
    <3> QED BY ONLY <2>2, <3>1, SumLonger
  <2>4. e[m + 1] = 0
    BY <2>1
  <2>5. SumFunctionOnSet(f, 1 .. n) \in Int
    <3>1. IsFiniteSet(1 .. n)
      BY FS_Interval
    <3> QED BY ONLY <3>1, Terms(f, 1 .. n), SumInt
  <2>6. SumFunctionOnSet(e, 1 .. m) = SumFunctionOnSet(f, 1 .. n)
    BY <1>2
  <2> QED BY <2>1, <2>3, <2>4, <2>5, <2>6
<1> HIDE DEF T
<1>3. \A j \in 0 .. k : j \in T
  BY ONLY k \in Nat, <1>1, <1>2, Upto
<1> QED BY <1>3 DEF T

\* one place less, at the front
LEMMA SumShorter ==
    ASSUME NEW n \in Nat, NEW f, NEW e, Terms(f, 1 .. n + 1), \A i \in 1 .. n : e[i] = f[i + 1]
    PROVE  SumFunctionOnSet(f, 1 .. n + 1) = f[1] + SumFunctionOnSet(e, 1 .. n)
<1> DEFINE T == {m \in Nat : SumFunctionOnSet(f, 1 .. m + 1) = f[1] + SumFunctionOnSet(e, 1 .. m)}
<1>1. 0 \in T
  <2>1. 0 \in Nat /\ Terms(f, 1 .. 0 + 1) /\ \A i \in 1 .. 0 : f[i] = f[i]
    BY DEF Terms
  <2>2. SumFunctionOnSet(f, 1 .. 0 + 1) = SumFunctionOnSet(f, 1 .. 0) + f[0 + 1]
    BY ONLY <2>1, SumLonger
  <2>3. 1 .. 0 = {} /\ f[1] \in Int
    BY DEF Terms
  <2>4. SumFunctionOnSet(f, {}) = 0 /\ SumFunctionOnSet(e, {}) = 0
    BY SumEmpty
  <2> QED BY <2>2, <2>3, <2>4
<1>2. ASSUME NEW m \in Nat, m \in T, m < n PROVE m + 1 \in T
  <2> PICK k : k = m + 1
    OBVIOUS
  <2>1. k \in Nat /\ k \in 1 .. n
    BY <1>2
  <2>2. Terms(f, 1 .. k + 1) /\ \A i \in 1 .. k : f[i] = f[i]
    BY <2>1 DEF Terms
  <2>3. SumFunctionOnSet(f, 1 .. k + 1) = SumFunctionOnSet(f, 1 .. k) + f[k + 1]
    BY ONLY <2>1, <2>2, SumLonger
  <2>4. Terms(e, 1 .. m + 1) /\ \A i \in 1 .. m : e[i] = e[i]
    <3> SUFFICES ASSUME NEW i \in 1 .. m + 1 PROVE e[i] \in Int
      BY DEF Terms
    <3>1. i \in 1 .. n /\ i + 1 \in 1 .. n + 1
      BY <1>2
    <3> QED BY <3>1 DEF Terms
  <2>5. SumFunctionOnSet(e, 1 .. m + 1) = SumFunctionOnSet(e, 1 .. m) + e[m + 1]
    BY ONLY m \in Nat, <2>4, SumLonger
  <2>6. SumFunctionOnSet(f, 1 .. k) = f[1] + SumFunctionOnSet(e, 1 .. m)
    BY <1>2
  <2>7. e[k] = f[k + 1] /\ e[k] \in Int
    BY <2>1, <2>4 DEF Terms
  <2>8. f[1] \in Int
    BY DEF Terms
  <2>9. SumFunctionOnSet(e, 1 .. m) \in Int
    <3>1. IsFiniteSet(1 .. m) /\ Terms(e, 1 .. m)
      BY <2>4, FS_Interval DEF Terms
    <3> QED BY ONLY <3>1, SumInt
  <2> HIDE DEF T
  <2>10. SumFunctionOnSet(f, 1 .. k + 1) = f[1] + SumFunctionOnSet(e, 1 .. k)
    BY <2>3, <2>5, <2>6, <2>7, <2>8, <2>9
  <2> QED BY <2>1, <2>10 DEF T
<1> HIDE DEF T
<1>3. \A m \in 0 .. n : m \in T
  BY ONLY n \in Nat, <1>1, <1>2, Upto
<1> QED BY <1>3 DEF T

\* what is shared out is not more than there was
LEMMA Shares ==
    ASSUME NEW b \in Nat, NEW n \in Nat, n # 0
    PROVE  n * (b \div n) <= b /\ b \div n \in Nat
OBVIOUS


Good    == {r \in Crime : CrimesCount(r)}
Request == [type : {"get"}, char : Chars \union {None}]
           \union [type : {"write"}, char : Chars, data : Good]
           \union [type : {"place"}, char : Chars \union {None},
                   target : Chars \union {None}, amount : Bounties]
Reply   == [type : {"get"}, char : Chars \union {None}, data : Good]
           \union [type : {"place"}, char : Chars \union {None}, amount : Bounties, ok : BOOLEAN]

Typed ==
    /\ at \in [Chars -> {Out, Chosen, In}]
    /\ gold \in [Chars -> Nat]
    /\ crimes \in [Chars -> Good] /\ row \in [Chars -> Good]
    /\ wanted \subseteq Chars
    /\ req \in Seq(Request) /\ rep \in Seq(Reply)

Asks(m, c) == m.type = "get" /\ m.char = c

\* a record that is asked for, or on its way, is awaited, and there is only one
AskInv ==
    \A c \in Chars :
        /\ \A i \in 1 .. Len(req) : Asks(req[i], c) =>
              /\ at[c] = Chosen
              /\ \A j \in 1 .. Len(req) : Asks(req[j], c) => i = j
              /\ \A j \in 1 .. Len(rep) : ~Asks(rep[j], c)
        /\ \A i \in 1 .. Len(rep) : Asks(rep[i], c) =>
              /\ at[c] = Chosen
              /\ \A j \in 1 .. Len(rep) : Asks(rep[j], c) => i = j

HuntInv == Typed /\ AskInv /\ NoInnocentHunted

-----------------------------------------------------------------------------
(* Records. *)

LEMMA GoodFields ==
    ASSUME NEW r \in Good
    PROVE  /\ r.criminal \in BOOLEAN /\ r.murders \in 0 .. MaxCrimes
           /\ r.pockets \in 0 .. MaxCrimes /\ r.bounty \in Nat
           /\ r.criminal <=> r.murders + r.pockets > 0
           /\ \A b \in Nat : [r EXCEPT !.bounty = @ + b] \in Good
                             /\ [r EXCEPT !.bounty = @ + b].criminal = r.criminal
<1>1. /\ r \in Crime
      /\ r.criminal <=> r.murders + r.pockets > 0
  BY DEF Good, CrimesCount
<1>2. /\ r.criminal \in BOOLEAN /\ r.murders \in 0 .. MaxCrimes
      /\ r.pockets \in 0 .. MaxCrimes /\ r.bounty \in Nat
  BY <1>1 DEF Crime
<1>3. ASSUME NEW b \in Nat
      PROVE  /\ [r EXCEPT !.bounty = @ + b] \in Good
             /\ [r EXCEPT !.bounty = @ + b].criminal = r.criminal
  BY <1>1, <1>2 DEF Good, CrimesCount, Crime
<1> QED BY <1>1, <1>2, <1>3

LEMMA NewCrimes ==
    ASSUME NEW r \in Good
    PROVE  /\ r.pockets < MaxCrimes => Theft(r) \in Good
           /\ r.murders < MaxCrimes => Murder(r) \in Good
           /\ Theft(r).criminal /\ Murder(r).criminal
           /\ Clear(r) \in Good
<1>1. r \in Crime /\ MaxCrimes \in Nat
  BY CrimesConstants DEF Good
<1>0. /\ r.murders \in 0 .. MaxCrimes /\ r.pockets \in 0 .. MaxCrimes
      /\ r.criminal \in BOOLEAN /\ (r.criminal <=> r.murders + r.pockets > 0)
  BY GoodFields
<1>2. r.pockets < MaxCrimes => Theft(r) \in Good
  <2> HAVE r.pockets < MaxCrimes
  <2> DEFINE n == r.pockets + 1
             x == [r EXCEPT !.criminal = TRUE, !.pockets = n]
  <2>0. n \in 0 .. MaxCrimes /\ Theft(r) = x
    BY <1>0, <1>1 DEF Theft
  <2> HIDE DEF n
  <2>a. x \in Crime
    BY <2>0, <1>1 DEF Crime
  <2>b. x.criminal = TRUE
    BY <1>1 DEF Crime
  <2>c. x.pockets = n
    BY <1>1 DEF Crime
  <2>d. x.murders = r.murders
    BY <1>1 DEF Crime
  <2> HIDE DEF x
  <2>1. /\ Theft(r) \in Crime /\ Theft(r).criminal = TRUE
        /\ Theft(r).pockets = r.pockets + 1 /\ Theft(r).murders = r.murders
    BY <2>0, <2>a, <2>b, <2>c, <2>d DEF n
  <2>2. Theft(r).murders + Theft(r).pockets > 0
    BY <1>0, <1>1, <2>1
  <2> QED BY <2>1, <2>2 DEF Good, CrimesCount
<1>3. r.murders < MaxCrimes => Murder(r) \in Good
  <2> HAVE r.murders < MaxCrimes
  <2> DEFINE n == r.murders + 1
             x == [r EXCEPT !.criminal = TRUE, !.murders = n]
  <2>0. n \in 0 .. MaxCrimes /\ Murder(r) = x
    BY <1>0, <1>1 DEF Murder
  <2> HIDE DEF n
  <2>a. x \in Crime
    BY <2>0, <1>1 DEF Crime
  <2>b. x.criminal = TRUE
    BY <1>1 DEF Crime
  <2>c. x.murders = n
    BY <1>1 DEF Crime
  <2>d. x.pockets = r.pockets
    BY <1>1 DEF Crime
  <2> HIDE DEF x
  <2>1. /\ Murder(r) \in Crime /\ Murder(r).criminal = TRUE
        /\ Murder(r).murders = r.murders + 1 /\ Murder(r).pockets = r.pockets
    BY <2>0, <2>a, <2>b, <2>c, <2>d DEF n
  <2>2. Murder(r).murders + Murder(r).pockets > 0
    BY <1>0, <1>1, <2>1
  <2> QED BY <2>1, <2>2 DEF Good, CrimesCount
<1>4. Clear(r) \in Good
  <2> DEFINE m == IF r.murders > 0 THEN r.murders - 1 ELSE 0
             b == r.criminal /\ m # 0
  <2>1. m \in 0 .. MaxCrimes
    BY <1>0, <1>1
  <2>2. m # 0 => r.criminal
    BY <1>0, <1>1
  <2>3. Clear(r) = [r EXCEPT !.pockets = 0, !.murders = m, !.bounty = 0, !.criminal = b]
    BY DEF Clear
  <2>4. b \in BOOLEAN /\ (b <=> m # 0)
    BY <2>2
  <2> HIDE DEF m, b
  <2> DEFINE x == [r EXCEPT !.pockets = 0, !.murders = m, !.bounty = 0, !.criminal = b]
  <2>0. 0 \in 0 .. MaxCrimes
    BY <1>1
  <2>a. x \in Crime
    <3>1. r \in Crime /\ m \in 0 .. MaxCrimes /\ b \in BOOLEAN
      BY <1>1, <2>1, <2>4
    <3> QED BY ONLY <2>0, <3>1 DEF Crime, x
  <2>b. x.murders = m
    BY <1>1 DEF Crime
  <2>c. x.pockets = 0
    BY <1>1 DEF Crime
  <2>d. x.criminal = b
    BY <1>1 DEF Crime
  <2> HIDE DEF x
  <2>5. /\ Clear(r) \in Crime /\ Clear(r).murders = m /\ Clear(r).pockets = 0
        /\ Clear(r).criminal = b
    BY <2>3, <2>a, <2>b, <2>c, <2>d DEF x
  <2>6. m + 0 > 0 <=> m # 0
    BY <1>1, <2>1
  <2> QED BY <2>4, <2>5, <2>6 DEF Good, CrimesCount
<1>5. Theft(r).criminal /\ Murder(r).criminal
  BY <1>1 DEF Theft, Murder, Crime
<1> QED BY <1>2, <1>3, <1>4, <1>5

LEMMA Messages ==
    /\ \A m \in Request :
         /\ m.type = "write" => m.data \in Good
         /\ m.type = "place" => m.amount \in Nat
         /\ m.type # "write" => m.char \in Chars \union {None}
    /\ \A m \in Reply :
         /\ m.char \in Chars \union {None}
         /\ m.type = "get" => m.data \in Good
         /\ m.type = "place" => m.amount \in Nat
BY CrimesConstants DEF Request, Reply

LEMMA OrderFacts ==
    ASSUME NEW K \in SUBSET Chars, NEW order \in SetToSeqs(K)
    PROVE  /\ order \in Seq(Chars) /\ Len(order) \in Nat
           /\ \A i \in 1 .. Len(order) : order[i] \in Chars
           /\ \A c : Contains(order, c) <=> \E i \in 1 .. Len(order) : order[i] = c
<1>1. IsFiniteSet(K) /\ Cardinality(K) \in Nat
  BY CrimesConstants, FS_Subset, FS_CardinalityType
<1>2. order \in [1 .. Cardinality(K) -> K]
  BY DEF SetToSeqs
<1>3. order \in Seq(Chars) /\ Len(order) = Cardinality(K)
  BY <1>1, <1>2
<1> QED BY <1>1, <1>2, <1>3 DEF Contains

-----------------------------------------------------------------------------
(* Messages that are sent. *)

\* nothing that is sent asks for a record
NoAsk(ws) == ws \in Seq(Request) /\ \A i \in 1 .. Len(ws) : ws[i].type # "get"

LEMMA SentMore ==
    ASSUME Typed, AskInv, NEW ws, NoAsk(ws), at' = at, rep' = rep, req' = req \o ws
    PROVE  req' \in Seq(Request) /\ AskInv'
<1>1. /\ req' \in Seq(Request)
      /\ \A i \in 1 .. Len(req') : \/ i \in 1 .. Len(req) /\ req'[i] = req[i]
                                   \/ req'[i].type # "get"
  <2>1. req \in Seq(Request) /\ ws \in Seq(Request)
    BY DEF Typed, NoAsk
  <2>2. /\ req' \in Seq(Request) /\ Len(req') = Len(req) + Len(ws)
        /\ \A i \in 1 .. Len(req) + Len(ws) :
              req'[i] = IF i <= Len(req) THEN req[i] ELSE ws[i - Len(req)]
    BY <2>1, ConcatProperties
  <2>3. Len(req) \in Nat /\ Len(ws) \in Nat
    BY <2>1, LenProperties
  <2> SUFFICES ASSUME NEW i \in 1 .. Len(req'), i \notin 1 .. Len(req)
               PROVE  req'[i].type # "get"
    <3> SUFFICES ASSUME NEW i \in 1 .. Len(req')
                 PROVE  \/ i \in 1 .. Len(req) /\ req'[i] = req[i]
                        \/ req'[i].type # "get"
      BY <2>2
    <3>1. CASE i \in 1 .. Len(req)
      BY <2>2, <2>3, <3>1
    <3> QED BY <3>1
  <2> DEFINE n == Len(req)
             k == Len(ws)
  <2>4. i \in 1 .. n + k /\ i \notin 1 .. n /\ n \in Nat /\ k \in Nat
    BY <2>2, <2>3
  <2>5. req'[i] = IF i <= n THEN req[i] ELSE ws[i - n]
    BY <2>2, <2>4
  <2> HIDE DEF n, k
  <2>6. i - n \in 1 .. k /\ req'[i] = ws[i - n]
    BY <2>4, <2>5
  <2> QED BY <2>6 DEF NoAsk, k
<1>2. \A c \in Chars : \A i \in 1 .. Len(req') :
         Asks(req'[i], c) => i \in 1 .. Len(req) /\ Asks(req[i], c)
  BY <1>1 DEF Asks
<1> QED BY <1>1, <1>2 DEF AskInv

\* a write of a good record
WriteOf(c, r) == [type |-> "write", char |-> c, data |-> r]

LEMMA OneWrite ==
    ASSUME NEW c \in Chars, NEW r \in Good
    PROVE  NoAsk(<<WriteOf(c, r)>>)
BY DEF NoAsk, WriteOf, Request

LEMMA Writes ==
    ASSUME NEW order \in Seq(Chars), NEW new,
           \A i \in 1 .. Len(order) : new[order[i]] \in Good
    PROVE  NoAsk([i \in 1 .. Len(order) |->
                    [type |-> "write", char |-> order[i], data |-> new[order[i]]]])
<1> DEFINE ws == [i \in 1 .. Len(order) |->
                    [type |-> "write", char |-> order[i], data |-> new[order[i]]]]
<1>1. Len(order) \in Nat /\ \A i \in 1 .. Len(order) : order[i] \in Chars
  BY LenProperties, ElementOfSeq
<1>2. \A i \in 1 .. Len(order) : ws[i] \in Request /\ ws[i].type = "write"
  BY <1>1 DEF Request
<1>3. ws \in Seq(Request) /\ Len(ws) = Len(order)
  <2> HIDE DEF ws
  <2>1. ws \in [1 .. Len(order) -> Request]
    <3>1. ws = [i \in 1 .. Len(order) |-> ws[i]]
      BY DEF ws
    <3> QED BY <1>2, <3>1
  <2> QED BY <1>1, <2>1
<1> HIDE DEF ws
<1>4. NoAsk(ws)
  BY <1>2, <1>3 DEF NoAsk
<1> QED BY <1>4 DEF ws

LEMMA Joined ==
    ASSUME NEW ws, NEW xs, NoAsk(ws), NoAsk(xs)
    PROVE  NoAsk(ws \o xs)
<1> DEFINE n == Len(ws)
           k == Len(xs)
           ys == ws \o xs
<1>1. ws \in Seq(Request) /\ xs \in Seq(Request)
  BY DEF NoAsk
<1>2. /\ ys \in Seq(Request) /\ Len(ys) = n + k
      /\ \A i \in 1 .. n + k : ys[i] = IF i <= n THEN ws[i] ELSE xs[i - n]
  BY <1>1, ConcatProperties
<1>3. n \in Nat /\ k \in Nat
  BY <1>1, LenProperties
<1>4. (\A i \in 1 .. n : ws[i].type # "get") /\ (\A i \in 1 .. k : xs[i].type # "get")
  BY DEF NoAsk
<1> HIDE DEF n, k, ys
<1>5. \A i \in 1 .. Len(ys) : ys[i].type # "get"
  <2> SUFFICES ASSUME NEW i \in 1 .. n + k PROVE ys[i].type # "get"
    BY <1>2
  <2>1. CASE i <= n
    BY <1>2, <1>3, <1>4, <2>1
  <2>2. CASE ~(i <= n)
    <3>1. i - n \in 1 .. k
      BY <1>3, <2>2
    <3> QED BY <1>2, <1>4, <2>2, <3>1
  <2> QED BY <2>1, <2>2
<1>6. NoAsk(ys)
  BY <1>2, <1>5 DEF NoAsk
<1> QED BY <1>6 DEF ys

-----------------------------------------------------------------------------
(* Crimes and deaths. *)

LEMMA UpdateInv ==
    ASSUME HuntInv, NEW order \in Seq(Chars), NEW new,
           \A i \in 1 .. Len(order) : new[order[i]] \in Good /\ at[order[i]] = In,
           Update(new, order), UNCHANGED <<at, gold, row, rep>>
    PROVE  HuntInv'
<1> DEFINE ws == [i \in 1 .. Len(order) |->
                    [type |-> "write", char |-> order[i], data |-> new[order[i]]]]
<1>1. /\ crimes' = [c \in Chars |-> IF Contains(order, c) THEN new[c] ELSE crimes[c]]
      /\ wanted' = {c \in Chars : IF Contains(order, c) THEN c \notin wanted /\ new[c].criminal
                                  ELSE c \in wanted}
      /\ req' = req \o ws
  BY DEF Update
<1>2. NoAsk(ws)
  BY Writes
<1> HIDE DEF ws
<1>3. req' \in Seq(Request) /\ AskInv'
  BY <1>1, <1>2, SentMore DEF HuntInv
<1>4. \A c \in Chars : Contains(order, c) => new[c] \in Good /\ at[c] = In
  BY DEF Contains
<1>5. crimes' \in [Chars -> Good]
  BY <1>1, <1>4 DEF HuntInv, Typed
<1>6. Typed'
  BY <1>1, <1>3, <1>5 DEF HuntInv, Typed
<1>7. NoInnocentHunted'
  <2> SUFFICES ASSUME NEW c \in wanted' PROVE at'[c] = In /\ crimes'[c].criminal
    BY DEF NoInnocentHunted
  <2>1. c \in Chars
    BY <1>1
  <2>2. CASE Contains(order, c)
    BY <1>1, <1>4, <2>1, <2>2
  <2>3. CASE ~Contains(order, c)
    BY <1>1, <2>1, <2>3 DEF HuntInv, NoInnocentHunted
  <2> QED BY <2>2, <2>3
<1> QED BY <1>3, <1>6, <1>7 DEF HuntInv

LEMMA RobInv ==
    ASSUME HuntInv, NEW c \in Chars, Rob(c)
    PROVE  HuntInv'
<1> DEFINE new == [crimes EXCEPT ![c] = Theft(@)]
<1>1. Update(new, <<c>>) /\ at[c] = In /\ UNCHANGED <<at, gold, row, rep>>
  BY DEF Rob
<1>2. crimes[c] \in Good /\ crimes[c].pockets < MaxCrimes
  BY DEF HuntInv, Typed, Rob
<1>3. new[c] \in Good
  BY <1>2, NewCrimes DEF HuntInv, Typed
<1>4. <<c>> \in Seq(Chars) /\ \A i \in 1 .. Len(<<c>>) : <<c>>[i] = c
  OBVIOUS
<1>5. \A i \in 1 .. Len(<<c>>) : new[<<c>>[i]] \in Good /\ at[<<c>>[i]] = In
  BY <1>1, <1>3, <1>4
<1> HIDE DEF new
<1> QED BY <1>1, <1>4, <1>5, UpdateInv

\* the characters that stood against the victim
LEMMA Killers ==
    ASSUME HuntInv, NEW v \in Chars, NEW K \in SUBSET Chars, NEW order \in SetToSeqs(K),
           Die(v, order)
    PROVE  /\ order \in Seq(Chars) /\ Len(order) \in Nat /\ at[v] = In
           /\ \A i \in 1 .. Len(order) :
                 order[i] \in Chars /\ at[order[i]] = In /\ order[i] # v
           /\ UNCHANGED <<at, row, rep>>
BY OrderFacts DEF Die

LEMMA KillInnocentInv ==
    ASSUME HuntInv, NEW v \in Chars, NEW K \in SUBSET Chars, NEW order \in SetToSeqs(K),
           Die(v, order), KillInnocent(v, order)
    PROVE  HuntInv'
<1> DEFINE new == [c \in Chars |-> Murder(crimes[c])]
<1>1. Update(new, order) /\ gold' = gold
      /\ \A i \in 1 .. Len(order) : crimes[order[i]].murders < MaxCrimes
  BY DEF KillInnocent
<1>2. \A i \in 1 .. Len(order) : new[order[i]] \in Good /\ at[order[i]] = In
  <2> SUFFICES ASSUME NEW i \in 1 .. Len(order)
               PROVE  new[order[i]] \in Good /\ at[order[i]] = In
    OBVIOUS
  <2>1. order[i] \in Chars /\ at[order[i]] = In
    BY Killers
  <2>2. crimes[order[i]] \in Good
    BY <2>1 DEF HuntInv, Typed
  <2> QED BY <1>1, <2>1, <2>2, NewCrimes
<1> HIDE DEF new
<1> QED BY <1>1, <1>2, Killers, UpdateInv

LEMMA KillCriminalInv ==
    ASSUME HuntInv, NEW v \in Chars, NEW K \in SUBSET Chars, NEW order \in SetToSeqs(K),
           Die(v, order), KillCriminal(v, order)
    PROVE  HuntInv'
<1> DEFINE share == IF order = <<>> THEN 0 ELSE crimes[v].bounty \div Len(order)
           paid == IF share = 0 THEN <<>> ELSE order
           ws == [i \in 1 .. Len(paid) |->
                    [type |-> "write", char |-> paid[i], data |-> crimes[paid[i]]]]
           last == <<WriteOf(v, crimes'[v])>>
<1>1. /\ gold' = [c \in Chars |-> IF Contains(paid, c) THEN gold[c] + share ELSE gold[c]]
      /\ crimes' = [crimes EXCEPT ![v] = Clear(@)]
      /\ wanted' = IF v \notin wanted /\ crimes'[v].criminal THEN wanted \union {v}
                   ELSE wanted \ {v}
      /\ req' = req \o ws \o last
  BY DEF KillCriminal, WriteOf
<1>2. /\ order \in Seq(Chars) /\ Len(order) \in Nat /\ at[v] = In
      /\ at' = at /\ row' = row /\ rep' = rep
  BY Killers
<1>3. crimes \in [Chars -> Good] /\ gold \in [Chars -> Nat] /\ req \in Seq(Request)
      /\ wanted \subseteq Chars
  BY DEF HuntInv, Typed
<1>4. share \in Nat
  <2>1. crimes[v].bounty \in Nat
    BY <1>3, GoodFields
  <2>2. order # <<>> => Len(order) # 0
    BY <1>2
  <2> QED BY <1>2, <2>1, <2>2
<1>5. gold' \in [Chars -> Nat]
  <2> HIDE DEF share, paid
  <2> QED BY <1>1, <1>3, <1>4
<1>6. crimes'[v] \in Good /\ crimes' \in [Chars -> Good]
      /\ \A c \in Chars : c # v => crimes'[c] = crimes[c]
  BY <1>1, <1>3, NewCrimes
<1>7. NoAsk(ws \o last)
  <2>1. paid \in Seq(Chars)
    BY <1>2
  <2> HIDE DEF paid
  <2>2. \A i \in 1 .. Len(paid) : crimes[paid[i]] \in Good
    BY <1>3, <2>1, ElementOfSeq
  <2>3. NoAsk(ws)
    BY <2>1, <2>2, Writes
  <2>4. NoAsk(last)
    BY <1>6, OneWrite
  <2> HIDE DEF ws, last
  <2> QED BY <2>3, <2>4, Joined
<1>8. req' = req \o (ws \o last)
  <2>1. ws \in Seq(Request) /\ last \in Seq(Request)
    <3>1. paid \in Seq(Chars)
      BY <1>2
    <3> HIDE DEF paid
    <3>2. \A i \in 1 .. Len(paid) : crimes[paid[i]] \in Good
      BY <1>3, <3>1, ElementOfSeq
    <3>3. NoAsk(ws) /\ NoAsk(last)
      BY <1>6, <3>1, <3>2, Writes, OneWrite
    <3> QED BY <3>3 DEF NoAsk
  <2> HIDE DEF ws, last
  <2>2. req' = (req \o ws) \o last /\ req \in Seq(Request)
    BY ONLY <1>1, <1>3
  <2>3. (req \o ws) \o last = req \o (ws \o last)
    BY ONLY <2>1, <2>2, ConcatAssociative
  <2> QED BY ONLY <2>2, <2>3
<1> HIDE DEF share, paid, ws, last
<1>9. req' \in Seq(Request) /\ AskInv'
  BY <1>2, <1>7, <1>8, SentMore DEF HuntInv
<1>10. Typed'
  BY <1>1, <1>2, <1>3, <1>5, <1>6, <1>9 DEF HuntInv, Typed
<1>11. NoInnocentHunted'
  <2> SUFFICES ASSUME NEW c \in wanted' PROVE at'[c] = In /\ crimes'[c].criminal
    BY DEF NoInnocentHunted
  <2>1. CASE c = v
    BY <1>1, <1>2, <2>1
  <2>2. CASE c # v
    <3>1. c \in wanted /\ c \in Chars
      BY <1>1, <1>3, <2>2
    <3> QED BY <1>2, <1>6, <2>2, <3>1 DEF HuntInv, NoInnocentHunted
  <2> QED BY <2>1, <2>2
<1> QED BY <1>9, <1>10, <1>11 DEF HuntInv

-----------------------------------------------------------------------------
(* Bounties. *)

LEMMA BountyOnlineInv ==
    ASSUME HuntInv, NEW c \in Chars, NEW x \in Chars, NEW b \in Bounties, BountyOnline(c, x, b)
    PROVE  HuntInv'
<1>1. /\ gold[c] >= b /\ gold' = [gold EXCEPT ![c] = @ - b]
      /\ crimes' = [crimes EXCEPT ![x].bounty = @ + b]
      /\ req' = req \o <<WriteOf(x, crimes'[x])>>
      /\ at' = at /\ row' = row /\ wanted' = wanted /\ rep' = rep
  <2>1. req' = Append(req, WriteOf(x, crimes'[x])) /\ req \in Seq(Request)
    BY DEF BountyOnline, WriteOf, HuntInv, Typed
  <2> QED BY <2>1, AppendIsConcat DEF BountyOnline
<1>2. crimes \in [Chars -> Good] /\ gold \in [Chars -> Nat] /\ b \in Nat
  BY CrimesConstants DEF HuntInv, Typed
<1>3. gold' \in [Chars -> Nat]
  <2>1. gold[c] - b \in Nat
    BY <1>1, <1>2
  <2> QED BY <1>1, <1>2, <2>1
<1>4. /\ crimes'[x] \in Good /\ crimes'[x].criminal = crimes[x].criminal
      /\ \A d \in Chars : d # x => crimes'[d] = crimes[d]
      /\ crimes' \in [Chars -> Good]
  <2> DEFINE r == [crimes[x] EXCEPT !.bounty = @ + b]
  <2>1. r \in Good /\ r.criminal = crimes[x].criminal
    BY <1>2, GoodFields
  <2>2. crimes' = [crimes EXCEPT ![x] = r]
    BY <1>1
  <2> HIDE DEF r
  <2> QED BY <1>2, <2>1, <2>2
<1>5. req' \in Seq(Request) /\ AskInv'
  BY <1>1, <1>4, OneWrite, SentMore DEF HuntInv
<1>6. Typed'
  BY <1>1, <1>3, <1>4, <1>5 DEF HuntInv, Typed
<1>7. NoInnocentHunted'
  BY <1>1, <1>4 DEF HuntInv, Typed, NoInnocentHunted
<1> QED BY <1>5, <1>6, <1>7 DEF HuntInv

LEMMA BountyOfflineInv ==
    ASSUME HuntInv, NEW c \in Chars, NEW x \in Chars \union {None}, NEW b \in Bounties,
           BountyOffline(c, x, b)
    PROVE  HuntInv'
<1> DEFINE m == [type |-> "place", char |-> c, target |-> x, amount |-> b]
<1>1. /\ gold[c] >= b /\ gold' = [gold EXCEPT ![c] = @ - b] /\ req' = Append(req, m)
      /\ at' = at /\ crimes' = crimes /\ row' = row /\ wanted' = wanted /\ rep' = rep
  BY DEF BountyOffline
<1>2. gold \in [Chars -> Nat] /\ b \in Nat /\ req \in Seq(Request)
  BY CrimesConstants DEF HuntInv, Typed
<1>3. gold' \in [Chars -> Nat]
  <2>1. gold[c] - b \in Nat
    BY <1>1, <1>2
  <2> QED BY <1>1, <1>2, <2>1
<1>4. NoAsk(<<m>>) /\ m \in Request
  BY DEF NoAsk, Request
<1> HIDE DEF m
<1>5. req' \in Seq(Request) /\ AskInv'
  <2>1. req' = req \o <<m>>
    BY <1>1, <1>2, <1>4, AppendIsConcat
  <2> QED BY <1>1, <1>4, <2>1, SentMore DEF HuntInv
<1>6. Typed'
  BY <1>1, <1>3, <1>5 DEF HuntInv, Typed
<1>7. NoInnocentHunted'
  BY <1>1 DEF HuntInv, NoInnocentHunted
<1> QED BY <1>5, <1>6, <1>7 DEF HuntInv

-----------------------------------------------------------------------------
(* Coming and going. *)

LEMMA ClearedCrimes ==
    ASSUME Typed, NEW c \in Chars
    PROVE  NoCrimes \in Good /\ [crimes EXCEPT ![c] = NoCrimes] \in [Chars -> Good]
<1>1. NoCrimes \in Crime
  BY CrimesConstants DEF NoCrimes, Crime
<1>2. NoCrimes \in Good
  BY <1>1 DEF NoCrimes, Good, CrimesCount
<1> QED BY <1>2 DEF Typed

LEMMA ChooseInv ==
    ASSUME HuntInv, NEW c \in Chars, Choose(c)
    PROVE  HuntInv'
<1> DEFINE m == [type |-> "get", char |-> c]
           n == Len(req)
<1>1. /\ at[c] = Out /\ at' = [at EXCEPT ![c] = Chosen]
      /\ crimes' = [crimes EXCEPT ![c] = NoCrimes] /\ req' = Append(req, m)
      /\ gold' = gold /\ row' = row /\ wanted' = wanted /\ rep' = rep
  BY DEF Choose
<1>2. /\ at \in [Chars -> {Out, Chosen, In}] /\ req \in Seq(Request) /\ n \in Nat
      /\ m \in Request
  BY LenProperties DEF HuntInv, Typed, Request
<1>3. /\ req' \in Seq(Request) /\ Len(req') = n + 1 /\ req'[n + 1] = m
      /\ \A i \in 1 .. n : req'[i] = req[i]
  BY <1>1, <1>2, AppendProperties
<1>4. m.type = "get" /\ m.char = c
  OBVIOUS
<1>5. at'[c] = Chosen /\ \A d \in Chars : d # c => at'[d] = at[d]
  BY <1>1, <1>2
<1>6. /\ \A i \in 1 .. n : ~Asks(req[i], c)
      /\ \A i \in 1 .. Len(rep) : ~Asks(rep[i], c)
  BY <1>1, CrimesConstants DEF HuntInv, AskInv
<1> HIDE DEF m
<1>7. AskInv'
  <2> HIDE DEF n
  <2>0. Len(req') = n + 1 /\ rep' = rep
    BY <1>1, <1>3
  <2> SUFFICES ASSUME NEW d \in Chars
               PROVE  /\ \A i \in 1 .. n + 1 : Asks(req'[i], d) =>
                            /\ at'[d] = Chosen
                            /\ \A j \in 1 .. n + 1 : Asks(req'[j], d) => i = j
                            /\ \A j \in 1 .. Len(rep) : ~Asks(rep[j], d)
                      /\ \A i \in 1 .. Len(rep) : Asks(rep[i], d) =>
                            /\ at'[d] = Chosen
                            /\ \A j \in 1 .. Len(rep) : Asks(rep[j], d) => i = j
    BY <2>0 DEF AskInv, Asks
  <2>1. \A i \in 1 .. n + 1 :
           \/ i \in 1 .. n /\ (Asks(req'[i], d) <=> Asks(req[i], d))
           \/ i = n + 1 /\ (Asks(req'[i], d) <=> d = c)
    BY <1>2, <1>3, <1>4 DEF Asks
  <2>2. CASE d = c
    BY <1>5, <1>6, <2>1, <2>2
  <2>3. CASE d # c
    <3>1. /\ \A i \in 1 .. n : Asks(req[i], d) =>
                /\ at[d] = Chosen
                /\ \A j \in 1 .. n : Asks(req[j], d) => i = j
                /\ \A j \in 1 .. Len(rep) : ~Asks(rep[j], d)
          /\ \A i \in 1 .. Len(rep) : Asks(rep[i], d) =>
                /\ at[d] = Chosen
                /\ \A j \in 1 .. Len(rep) : Asks(rep[j], d) => i = j
      BY DEF HuntInv, AskInv, n
    <3> QED BY <1>5, <2>1, <2>3, <3>1
  <2> QED BY <2>2, <2>3
<1>8. Typed'
  BY <1>1, <1>2, <1>3, ClearedCrimes DEF HuntInv, Typed
<1>9. NoInnocentHunted'
  <2>1. c \notin wanted
    BY <1>1, CrimesConstants DEF HuntInv, NoInnocentHunted
  <2> QED BY <1>1, <1>5, <2>1 DEF HuntInv, Typed, NoInnocentHunted
<1> QED BY <1>7, <1>8, <1>9 DEF HuntInv

\* a message of c loses its name, any other stays
Anon(m, x, c) ==
    /\ Asks(x, c) => FALSE
    /\ \A d \in Chars : Asks(x, d) => Asks(m, d)

LEMMA HungUpInv ==
    ASSUME HuntInv, NEW c \in Chars, HungUp(c)
    PROVE  HuntInv'
<1> DEFINE f(m) == IF m.type # "write" /\ m.char = c THEN [m EXCEPT !.char = None] ELSE m
           g(m) == IF m.char = c THEN [m EXCEPT !.char = None] ELSE m
<1>1. /\ at[c] # Out /\ at' = [at EXCEPT ![c] = Out]
      /\ crimes' = [crimes EXCEPT ![c] = NoCrimes] /\ wanted' = wanted \ {c}
      /\ req' = [i \in 1 .. Len(req) |-> f(req[i])]
      /\ rep' = [i \in 1 .. Len(rep) |-> g(rep[i])]
      /\ gold' = gold /\ row' = row
  BY DEF HungUp
<1>2. /\ at \in [Chars -> {Out, Chosen, In}]
      /\ req \in Seq(Request) /\ Len(req) \in Nat /\ \A i \in 1 .. Len(req) : req[i] \in Request
      /\ rep \in Seq(Reply) /\ Len(rep) \in Nat /\ \A i \in 1 .. Len(rep) : rep[i] \in Reply
  BY LenProperties, ElementOfSeq DEF HuntInv, Typed
<1>3. \A m \in Request : f(m) \in Request /\ Anon(m, f(m), c)
  <2> SUFFICES ASSUME NEW m \in Request PROVE f(m) \in Request /\ Anon(m, f(m), c)
    OBVIOUS
  <2>1. f(m) \in Request
    BY DEF Request
  <2>2. Anon(m, f(m), c)
    BY CrimesConstants DEF Request, Anon, Asks
  <2> QED BY <2>1, <2>2
<1>4. \A m \in Reply : g(m) \in Reply /\ Anon(m, g(m), c)
  <2> SUFFICES ASSUME NEW m \in Reply PROVE g(m) \in Reply /\ Anon(m, g(m), c)
    OBVIOUS
  <2>1. g(m) \in Reply
    BY DEF Reply
  <2>2. Anon(m, g(m), c)
    BY CrimesConstants DEF Reply, Anon, Asks
  <2> QED BY <2>1, <2>2
<1> HIDE DEF f, g
<1>5. /\ req' \in Seq(Request) /\ Len(req') = Len(req)
      /\ \A i \in 1 .. Len(req) : Anon(req[i], req'[i], c)
  BY <1>1, <1>2, <1>3
<1>6. /\ rep' \in Seq(Reply) /\ Len(rep') = Len(rep)
      /\ \A i \in 1 .. Len(rep) : Anon(rep[i], rep'[i], c)
  BY <1>1, <1>2, <1>4
<1>7. \A d \in Chars : d # c => at'[d] = at[d]
  BY <1>1, <1>2
<1>8. AskInv'
  <2> SUFFICES ASSUME NEW d \in Chars
               PROVE  /\ \A i \in 1 .. Len(req) : Asks(req'[i], d) =>
                            /\ at'[d] = Chosen
                            /\ \A j \in 1 .. Len(req) : Asks(req'[j], d) => i = j
                            /\ \A j \in 1 .. Len(rep) : ~Asks(rep'[j], d)
                      /\ \A i \in 1 .. Len(rep) : Asks(rep'[i], d) =>
                            /\ at'[d] = Chosen
                            /\ \A j \in 1 .. Len(rep) : Asks(rep'[j], d) => i = j
    BY <1>5, <1>6 DEF AskInv, Asks
  <2>1. /\ \A i \in 1 .. Len(req) : Asks(req'[i], d) => Asks(req[i], d) /\ d # c
        /\ \A i \in 1 .. Len(rep) : Asks(rep'[i], d) => Asks(rep[i], d) /\ d # c
    BY <1>5, <1>6 DEF Anon
  <2>2. /\ \A i \in 1 .. Len(req) : Asks(req[i], d) =>
              /\ at[d] = Chosen
              /\ \A j \in 1 .. Len(req) : Asks(req[j], d) => i = j
              /\ \A j \in 1 .. Len(rep) : ~Asks(rep[j], d)
        /\ \A i \in 1 .. Len(rep) : Asks(rep[i], d) =>
              /\ at[d] = Chosen
              /\ \A j \in 1 .. Len(rep) : Asks(rep[j], d) => i = j
    BY DEF HuntInv, AskInv
  <2> QED BY <1>7, <2>1, <2>2
<1>9. Typed'
  BY <1>1, <1>2, <1>5, <1>6, ClearedCrimes DEF HuntInv, Typed
<1>10. NoInnocentHunted'
  BY <1>1, <1>7 DEF HuntInv, Typed, NoInnocentHunted
<1> QED BY <1>8, <1>9, <1>10 DEF HuntInv

-----------------------------------------------------------------------------
(* Messages that are taken. *)

LEMMA Taken ==
    ASSUME NEW R, NEW s \in Seq(R), s # <<>>
    PROVE  /\ Head(s) = s[1] /\ 1 \in 1 .. Len(s) /\ s[1] \in R /\ Len(s) \in Nat
           /\ Tail(s) \in Seq(R)
           /\ \A i \in 1 .. Len(Tail(s)) : i + 1 \in 1 .. Len(s) /\ Tail(s)[i] = s[i + 1]
<1> DEFINE n == Len(s)
           t == Tail(s)
<1>1. /\ Head(s) = s[1] /\ n \in Nat /\ 1 \in 1 .. n /\ t \in Seq(R) /\ Len(t) = n - 1
      /\ \A i \in 1 .. n - 1 : t[i] = s[i + 1]
  <2>1. Len(s) \in Nat /\ Len(s) # 0
    BY LenProperties, EmptySeq
  <2>2. Head(s) = s[1] /\ t \in Seq(R) /\ Len(t) = n - 1
    BY HeadTailProperties
  <2>3. \A i \in 1 .. Len(t) : t[i] = s[i + 1]
    BY HeadTailProperties
  <2> HIDE DEF t
  <2> QED BY <2>1, <2>2, <2>3
<1>2. s[1] \in R
  BY <1>1, ElementOfSeq
<1> HIDE DEF n, t
<1>3. \A i \in 1 .. Len(t) : i + 1 \in 1 .. n /\ t[i] = s[i + 1]
  BY <1>1
<1> QED BY <1>1, <1>2, <1>3 DEF n, t

\* a request becomes at most one reply, which names whom the request names
LEMMA AskAnswered ==
    ASSUME Typed, AskInv, req # <<>>, req' = Tail(req), at' = at, NEW x \in Reply,
           \/ rep' = rep
           \/ rep' = Append(rep, x) /\ \A d \in Chars : Asks(x, d) => Asks(req[1], d)
    PROVE  req' \in Seq(Request) /\ rep' \in Seq(Reply) /\ AskInv'
<1> DEFINE k == Len(rep)
<1>0. req \in Seq(Request) /\ rep \in Seq(Reply) /\ k \in Nat
  BY LenProperties DEF Typed
<1>1. /\ req' \in Seq(Request) /\ 1 \in 1 .. Len(req) /\ Len(req) \in Nat
      /\ \A i \in 1 .. Len(req') : i + 1 \in 1 .. Len(req) /\ req'[i] = req[i + 1]
  BY <1>0, Taken
<1>2. /\ rep' \in Seq(Reply)
      /\ \A i \in 1 .. Len(rep') :
            \/ i \in 1 .. k /\ rep'[i] = rep[i]
            \/ i = k + 1 /\ rep'[i] = x /\ \A d \in Chars : Asks(x, d) => Asks(req[1], d)
  <2>1. CASE rep' = rep
    BY <1>0, <2>1
  <2>2. CASE rep' = Append(rep, x) /\ \A d \in Chars : Asks(x, d) => Asks(req[1], d)
    <3>1. /\ rep' \in Seq(Reply) /\ Len(rep') = k + 1 /\ rep'[k + 1] = x
          /\ \A i \in 1 .. k : rep'[i] = rep[i]
      BY <1>0, <2>2, AppendProperties
    <3> HIDE DEF k
    <3> QED BY <1>0, <2>2, <3>1
  <2> QED BY <2>1, <2>2
<1>3. ASSUME NEW d \in Chars
      PROVE  /\ \A i \in 1 .. Len(req') : Asks(req'[i], d) =>
                   /\ at'[d] = Chosen
                   /\ \A j \in 1 .. Len(req') : Asks(req'[j], d) => i = j
                   /\ \A j \in 1 .. Len(rep') : ~Asks(rep'[j], d)
             /\ \A i \in 1 .. Len(rep') : Asks(rep'[i], d) =>
                   /\ at'[d] = Chosen
                   /\ \A j \in 1 .. Len(rep') : Asks(rep'[j], d) => i = j
  <2>1. /\ \A i \in 1 .. Len(req) : Asks(req[i], d) =>
              /\ at[d] = Chosen
              /\ \A j \in 1 .. Len(req) : Asks(req[j], d) => i = j
              /\ \A j \in 1 .. k : ~Asks(rep[j], d)
        /\ \A i \in 1 .. k : Asks(rep[i], d) =>
              /\ at[d] = Chosen
              /\ \A j \in 1 .. k : Asks(rep[j], d) => i = j
    BY DEF AskInv
  <2>2. \A i \in 1 .. Len(req') : Asks(req'[i], d) =>
              i + 1 \in 1 .. Len(req) /\ Asks(req[i + 1], d) /\ i \in Nat
    BY <1>1
  <2>3. \A i \in 1 .. Len(rep') : Asks(rep'[i], d) =>
              \/ i \in 1 .. k /\ Asks(rep[i], d)
              \/ i = k + 1 /\ Asks(req[1], d)
    BY <1>2
  <2> HIDE DEF k
  <2>4. \A i \in 1 .. Len(req') : Asks(req'[i], d) =>
              /\ at'[d] = Chosen
              /\ \A j \in 1 .. Len(req') : Asks(req'[j], d) => i = j
              /\ \A j \in 1 .. Len(rep') : ~Asks(rep'[j], d)
    <3> SUFFICES ASSUME NEW i \in 1 .. Len(req'), Asks(req'[i], d)
                 PROVE  /\ at[d] = Chosen
                        /\ \A j \in 1 .. Len(req') : Asks(req'[j], d) => i = j
                        /\ \A j \in 1 .. Len(rep') : ~Asks(rep'[j], d)
      OBVIOUS
    <3>1. i + 1 \in 1 .. Len(req) /\ Asks(req[i + 1], d) /\ i \in Nat /\ i + 1 # 1
      BY <2>2
    <3>2. ~Asks(req[1], d)
      BY <1>1, <2>1, <3>1
    <3> QED BY <2>1, <2>2, <2>3, <3>1, <3>2
  <2>5. \A i \in 1 .. Len(rep') : Asks(rep'[i], d) =>
              /\ at'[d] = Chosen
              /\ \A j \in 1 .. Len(rep') : Asks(rep'[j], d) => i = j
    BY <1>1, <2>1, <2>3
  <2> QED BY <2>4, <2>5
<1>4. AskInv'
  BY <1>3 DEF AskInv, Asks
<1> QED BY <1>1, <1>2, <1>4

LEMMA DmReceiveInv ==
    ASSUME HuntInv, DmReceive
    PROVE  HuntInv'
<1> DEFINE m == Head(req)
<1>1. /\ req # <<>> /\ req' = Tail(req) /\ rep' = rep \o Answer(m)
      /\ row' = [c \in Chars |-> After(row[c], m, c)]
      /\ at' = at /\ gold' = gold /\ crimes' = crimes /\ wanted' = wanted
  BY DEF DmReceive
<1>2. req \in Seq(Request) /\ rep \in Seq(Reply) /\ row \in [Chars -> Good]
  BY DEF HuntInv, Typed
<1>3. m = req[1] /\ m \in Request
  BY <1>1, <1>2, Taken
<1> HIDE DEF m
<1>4. row' \in [Chars -> Good]
  <2>1. ASSUME NEW c \in Chars PROVE After(row[c], m, c) \in Good
    <3>1. row[c] \in Good
      BY <1>2
    <3>2. /\ m.type = "write" => m.data \in Good
          /\ m.type = "place" => m.amount \in Nat
      BY <1>3, Messages
    <3> QED BY <3>1, <3>2, GoodFields DEF After
  <2> QED BY <1>1, <2>1
<1>5. PICK x \in Reply : \/ rep' = rep
                         \/ rep' = Append(rep, x) /\ \A d \in Chars : Asks(x, d) => Asks(m, d)
  <2>1. CASE m.type = "get" /\ m.char # None
    <3> DEFINE x == [type |-> "get", char |-> m.char, data |-> row[m.char]]
    <3>1. m.char \in Chars
      BY <1>3, <2>1, Messages
    <3>2. x \in Reply
      BY <1>2, <3>1 DEF Reply
    <3>3. \A d \in Chars : Asks(x, d) => Asks(m, d)
      BY <2>1 DEF Asks
    <3>4. rep' = rep \o <<x>>
      BY <1>1, <2>1 DEF Answer
    <3> HIDE DEF x
    <3>5. rep' = Append(rep, x)
      BY <1>2, <3>2, <3>4, AppendIsConcat
    <3> QED BY <3>2, <3>3, <3>5
  <2>2. CASE m.type = "place"
    <3> DEFINE x == [type |-> "place", char |-> m.char, amount |-> m.amount,
                     ok |-> m.target \in Chars]
    <3>1. x \in Reply
      BY <1>3, <2>2 DEF Request, Reply
    <3>2. \A d \in Chars : ~Asks(x, d)
      BY DEF Asks
    <3>3. rep' = rep \o <<x>>
      BY <1>1, <2>2 DEF Answer
    <3> HIDE DEF x
    <3>4. rep' = Append(rep, x)
      BY <1>2, <3>1, <3>3, AppendIsConcat
    <3> QED BY <3>1, <3>2, <3>4
  <2>3. CASE ~(m.type = "get" /\ m.char # None) /\ m.type # "place"
    <3>1. rep' = rep
      BY <1>1, <1>2, <2>3, ConcatEmptySeq DEF Answer
    <3>2. \E x : x \in Reply
      <4>1. NoCrimes \in Good
        <5>1. NoCrimes \in Crime
          BY CrimesConstants DEF NoCrimes, Crime
        <5> QED BY <5>1 DEF NoCrimes, Good, CrimesCount
      <4>2. [type |-> "get", char |-> None, data |-> NoCrimes] \in Reply
        BY <4>1 DEF Reply
      <4> QED BY <4>2
    <3> QED BY <3>1, <3>2
  <2> QED BY <2>1, <2>2, <2>3
<1>6. req' \in Seq(Request) /\ rep' \in Seq(Reply) /\ AskInv'
  BY <1>1, <1>3, <1>5, AskAnswered DEF HuntInv
<1>7. Typed'
  BY <1>1, <1>4, <1>6 DEF HuntInv, Typed
<1>8. NoInnocentHunted'
  BY <1>1 DEF HuntInv, NoInnocentHunted
<1> QED BY <1>6, <1>7, <1>8 DEF HuntInv

LEMMA ReceiveInv ==
    ASSUME HuntInv, Receive
    PROVE  HuntInv'
<1> DEFINE m == Head(rep)
<1>1. /\ rep # <<>> /\ rep' = Tail(rep) /\ (ConfigReply(m) \/ BountyReply(m))
      /\ row' = row /\ wanted' = wanted /\ req' = req
  BY DEF Receive
<1>2. /\ req \in Seq(Request) /\ rep \in Seq(Reply) /\ gold \in [Chars -> Nat]
      /\ crimes \in [Chars -> Good] /\ at \in [Chars -> {Out, Chosen, In}]
  BY DEF HuntInv, Typed
<1>3. /\ m = rep[1] /\ m \in Reply /\ 1 \in 1 .. Len(rep) /\ Len(rep) \in Nat
      /\ rep' \in Seq(Reply)
      /\ \A i \in 1 .. Len(rep') : i + 1 \in 1 .. Len(rep) /\ rep'[i] = rep[i + 1]
  <2>1. rep # <<>> /\ rep' = Tail(rep) /\ rep \in Seq(Reply)
    BY <1>1, <1>2
  <2>2. /\ m = rep[1] /\ 1 \in 1 .. Len(rep) /\ rep[1] \in Reply /\ Len(rep) \in Nat
        /\ Tail(rep) \in Seq(Reply)
        /\ \A i \in 1 .. Len(Tail(rep)) : i + 1 \in 1 .. Len(rep) /\ Tail(rep)[i] = rep[i + 1]
    BY <2>1, Taken
  <2> HIDE DEF m
  <2> QED BY ONLY <2>1, <2>2
<1> HIDE DEF m
<1>4. /\ m.char \in Chars \union {None}
      /\ m.type = "get" => m.data \in Good
      /\ m.type = "place" => m.amount \in Nat
  BY <1>3, Messages
<1>5. PICK c : c = m.char
  OBVIOUS
<1>0. req' = req
  BY <1>1
\* what is left asks for nobody whose record has come
<1>6. CASE m.type = "get" /\ c # None
  <2>1. /\ c \in Chars /\ at' = [at EXCEPT ![c] = In]
        /\ crimes' = [crimes EXCEPT ![c] = m.data] /\ gold' = gold
    BY <1>1, <1>4, <1>5, <1>6 DEF ConfigReply, BountyReply
  <2>2. Asks(rep[1], c)
    BY <1>3, <1>5, <1>6 DEF Asks
  <2>3. /\ at[c] = Chosen
        /\ \A j \in 1 .. Len(rep) : Asks(rep[j], c) => j = 1
        /\ \A i \in 1 .. Len(req) : ~Asks(req[i], c)
    BY <1>3, <2>1, <2>2 DEF HuntInv, AskInv
  <2>4. \A d \in Chars : d # c => at'[d] = at[d]
    BY <1>2, <2>1
  <2>5. ASSUME NEW d \in Chars
        PROVE  /\ \A i \in 1 .. Len(req) : Asks(req[i], d) =>
                     /\ at'[d] = Chosen
                     /\ \A j \in 1 .. Len(req) : Asks(req[j], d) => i = j
                     /\ \A j \in 1 .. Len(rep') : ~Asks(rep'[j], d)
               /\ \A i \in 1 .. Len(rep') : Asks(rep'[i], d) =>
                     /\ at'[d] = Chosen
                     /\ \A j \in 1 .. Len(rep') : Asks(rep'[j], d) => i = j
    <3>1. \A i \in 1 .. Len(rep') : Asks(rep'[i], d) =>
             i + 1 \in 1 .. Len(rep) /\ Asks(rep[i + 1], d) /\ d # c /\ i \in Nat
      BY <1>3, <2>3
    <3>2. /\ \A i \in 1 .. Len(req) : Asks(req[i], d) =>
                /\ at[d] = Chosen
                /\ \A j \in 1 .. Len(req) : Asks(req[j], d) => i = j
                /\ \A j \in 1 .. Len(rep) : ~Asks(rep[j], d)
          /\ \A i \in 1 .. Len(rep) : Asks(rep[i], d) =>
                /\ at[d] = Chosen
                /\ \A j \in 1 .. Len(rep) : Asks(rep[j], d) => i = j
      BY DEF HuntInv, AskInv
    <3>3. \A i \in 1 .. Len(req) : Asks(req[i], d) => d # c
      BY <2>3
    <3>4. CASE d = c
      BY <3>1, <3>3, <3>4
    <3>5. CASE d # c
      BY <2>4, <3>1, <3>2, <3>5
    <3> QED BY <3>4, <3>5
  <2>6. AskInv'
    BY <1>0, <2>5 DEF AskInv, Asks
  <2>7. Typed'
    BY <1>1, <1>2, <1>3, <1>4, <1>6, <2>1 DEF HuntInv, Typed
  <2>8. NoInnocentHunted'
    <3>1. c \notin wanted
      BY <2>3, CrimesConstants DEF HuntInv, NoInnocentHunted
    <3> QED BY <1>1, <1>2, <2>1, <2>4, <3>1 DEF HuntInv, Typed, NoInnocentHunted
  <2> QED BY <2>6, <2>7, <2>8 DEF HuntInv
<1>7. CASE ~(m.type = "get" /\ c # None)
  <2>1. at' = at /\ crimes' = crimes /\ gold' \in [Chars -> Nat]
    <3>1. CASE ConfigReply(m)
      BY <1>2, <1>5, <1>7, <3>1 DEF ConfigReply
    <3>2. CASE BountyReply(m)
      <4>1. /\ at' = at /\ crimes' = crimes /\ m.amount \in Nat
            /\ gold' = IF c # None /\ ~m.ok THEN [gold EXCEPT ![c] = @ + m.amount] ELSE gold
        BY <1>4, <1>5, <3>2 DEF BountyReply
      <4>2. c # None => gold[c] + m.amount \in Nat
        BY <1>2, <1>4, <1>5, <4>1
      <4> QED BY <1>2, <4>1, <4>2
    <3> QED BY <1>1, <3>1, <3>2
  <2>2. AskInv'
    <3> SUFFICES ASSUME NEW d \in Chars
                 PROVE  /\ \A i \in 1 .. Len(req) : Asks(req[i], d) =>
                              /\ at[d] = Chosen
                              /\ \A j \in 1 .. Len(req) : Asks(req[j], d) => i = j
                              /\ \A j \in 1 .. Len(rep') : ~Asks(rep'[j], d)
                        /\ \A i \in 1 .. Len(rep') : Asks(rep'[i], d) =>
                              /\ at[d] = Chosen
                              /\ \A j \in 1 .. Len(rep') : Asks(rep'[j], d) => i = j
      BY <1>0, <2>1 DEF AskInv, Asks
    <3>1. \A i \in 1 .. Len(rep') : Asks(rep'[i], d) =>
             i + 1 \in 1 .. Len(rep) /\ Asks(rep[i + 1], d) /\ i \in Nat
      BY <1>3
    <3>2. /\ \A i \in 1 .. Len(req) : Asks(req[i], d) =>
                /\ at[d] = Chosen
                /\ \A j \in 1 .. Len(req) : Asks(req[j], d) => i = j
                /\ \A j \in 1 .. Len(rep) : ~Asks(rep[j], d)
          /\ \A i \in 1 .. Len(rep) : Asks(rep[i], d) =>
                /\ at[d] = Chosen
                /\ \A j \in 1 .. Len(rep) : Asks(rep[j], d) => i = j
      BY DEF HuntInv, AskInv
    <3> QED BY <3>1, <3>2
  <2>3. Typed'
    BY <1>1, <1>2, <1>3, <2>1 DEF HuntInv, Typed
  <2>4. NoInnocentHunted'
    BY <1>1, <2>1 DEF HuntInv, NoInnocentHunted
  <2> QED BY <2>2, <2>3, <2>4 DEF HuntInv
<1> QED BY <1>6, <1>7

-----------------------------------------------------------------------------
(* The invariant. *)

LEMMA HuntInit == Init => HuntInv
<1> SUFFICES ASSUME Init PROVE HuntInv
  OBVIOUS
<1>1. NoCrimes \in Crime
  BY CrimesConstants DEF NoCrimes, Crime
<1>2. NoCrimes \in Good
  BY <1>1 DEF NoCrimes, Good, CrimesCount
<1>3. Typed
  BY <1>2, CrimesConstants DEF Init, Typed
<1>4. AskInv /\ NoInnocentHunted
  BY DEF Init, AskInv, NoInnocentHunted
<1> QED BY <1>3, <1>4 DEF HuntInv

(* HuntInv is inductive: whoever steals, kills, dies, comes, goes or places *)
(* a bounty, and whichever message arrives next, it holds again.           *)
THEOREM HuntInvStep ==
    ASSUME HuntInv, [Next]_vars
    PROVE  HuntInv'
<1>1. CASE \E c \in Chars : Act(c)
  <2>1. PICK c \in Chars : Act(c)
    BY <1>1
  <2>2. CASE Choose(c) \/ HungUp(c) \/ Rob(c)
    BY <2>2, ChooseInv, HungUpInv, RobInv
  <2>3. CASE \E K \in SUBSET Chars : \E order \in SetToSeqs(K) : Die(c, order)
    <3>1. PICK K \in SUBSET Chars : \E order \in SetToSeqs(K) : Die(c, order)
      BY <2>3
    <3>2. PICK order \in SetToSeqs(K) : Die(c, order)
      BY <3>1
    <3>3. KillInnocent(c, order) \/ KillCriminal(c, order)
      BY <3>2 DEF Die
    <3> QED BY <3>2, <3>3, KillInnocentInv, KillCriminalInv
  <2>4. CASE \E b \in Bounties :
                \/ \E x \in Chars : BountyOnline(c, x, b)
                \/ \E x \in Chars \union {None} : BountyOffline(c, x, b)
    BY <2>4, BountyOnlineInv, BountyOfflineInv
  <2> QED BY <2>1, <2>2, <2>3, <2>4 DEF Act
<1>2. CASE DmReceive
  BY <1>2, DmReceiveInv
<1>3. CASE Receive
  BY <1>3, ReceiveInv
<1>4. CASE UNCHANGED vars
  <2>1. Typed' /\ AskInv' /\ NoInnocentHunted'
    BY <1>4 DEF vars, HuntInv, Typed, AskInv, Asks, NoInnocentHunted
  <2> QED BY <2>1 DEF HuntInv
<1> QED BY <1>1, <1>2, <1>3, <1>4 DEF Next

(* HuntInv holds in every reachable state.                                 *)
THEOREM HuntInvHolds == Spec => []HuntInv
<1>1. HuntInv /\ [Next]_vars => HuntInv'
  BY HuntInvStep
<1> QED BY <1>1, HuntInit, PTL DEF Spec

(* gWantedList, from which the magistrate takes whom he hunts: whoever is   *)
(* on it is in the game and is a criminal, though being listed is toggled   *)
(* by updateWanted and the record it rests on is overwritten by replies.    *)
THEOREM NoInnocentHuntedHolds == Spec => []NoInnocentHunted
<1>1. HuntInv => NoInnocentHunted
  BY DEF HuntInv
<1> QED BY <1>1, HuntInvHolds, PTL

(* CrimeData: in memory and in every row, a character is a criminal exactly *)
(* as long as it has a murder or a theft to pay for.                       *)
THEOREM CrimesCounted ==
    Spec => [](\A c \in Chars : CrimesCount(crimes[c]) /\ CrimesCount(row[c]))
<1>1. HuntInv => \A c \in Chars : CrimesCount(crimes[c]) /\ CrimesCount(row[c])
  BY DEF HuntInv, Typed, Good
<1> QED BY <1>1, HuntInvHolds, PTL

-----------------------------------------------------------------------------
(* The records that requests leave. *)

\* the records that requests q leave of r one after the other
Chain(h, r, q, c) ==
    h = [n \in 0 .. Len(q) |-> IF n = 0 THEN r ELSE After(h[n - 1], q[n], c)]

LEMMA ChainIs ==
    ASSUME NEW R, NEW q \in Seq(R), NEW r, NEW c, NEW h, Chain(h, r, q, c)
    PROVE  /\ Len(q) \in Nat /\ h[0] = r
           /\ \A n \in Nat : n < Len(q) => h[n + 1] = After(h[n], q[n + 1], c)
<1>1. Len(q) \in Nat
  BY LenProperties
<1> DEFINE N == Len(q)
<1>2. h = [n \in 0 .. N |-> IF n = 0 THEN r ELSE After(h[n - 1], q[n], c)]
  BY DEF Chain
<1> HIDE DEF N
<1>3. h[0] = r
  BY <1>1, <1>2 DEF N
<1>4. ASSUME NEW n \in Nat, n < N PROVE h[n + 1] = After(h[n], q[n + 1], c)
  <2> PICK k : k = n + 1
    OBVIOUS
  <2>1. k \in 0 .. N /\ k # 0 /\ k - 1 = n
    BY <1>1, <1>4 DEF N
  <2>2. h[k] = After(h[k - 1], q[k], c)
    BY <1>2, <2>1
  <2> QED BY <2>1, <2>2
<1> QED BY <1>1, <1>3, <1>4 DEF N

LEMMA ChainMade ==
    ASSUME NEW R, NEW q \in Seq(R), NEW r, NEW c, NEW h,
           h[0] = r, \A n \in Nat : n < Len(q) => h[n + 1] = After(h[n], q[n + 1], c)
    PROVE  Chain([n \in 0 .. Len(q) |-> h[n]], r, q, c)
<1> DEFINE N == Len(q)
           k == [n \in 0 .. N |-> h[n]]
<1>1. N \in Nat
  BY LenProperties
<1>2. ASSUME NEW n \in 0 .. N
      PROVE  k[n] = IF n = 0 THEN r ELSE After(k[n - 1], q[n], c)
  <2> HIDE DEF N
  <2>1. CASE n = 0
    BY <2>1
  <2>2. CASE n # 0
    <3> PICK m : m = n - 1
      OBVIOUS
    <3>1. m \in Nat /\ m < N /\ m \in 0 .. N /\ n = m + 1
      BY <1>1, <2>2
    <3>2. h[n] = After(h[m], q[n], c)
      BY <3>1 DEF N
    <3> QED BY <2>2, <3>1, <3>2
  <2> QED BY <2>1, <2>2
<1>3. k = [n \in 0 .. N |-> k[n]]
  OBVIOUS
<1> HIDE DEF k, N
<1>4. k = [n \in 0 .. N |-> IF n = 0 THEN r ELSE After(k[n - 1], q[n], c)]
  BY <1>2, <1>3
<1>5. Chain(k, r, q, c)
  BY <1>4 DEF Chain, N
<1> QED BY <1>5 DEF k, N

LEMMA ChainExists ==
    ASSUME NEW R, NEW q \in Seq(R), NEW r, NEW c
    PROVE  \E h : Chain(h, r, q, c)
<1> DEFINE N == Len(q)
           Up(h, n) == h[0] = r /\ \A i \in Nat : i < n => h[i + 1] = After(h[i], q[i + 1], c)
           T == {n \in Nat : \E h : Up(h, n)}
<1>1. N \in Nat
  BY LenProperties
<1>2. 0 \in T
  <2> DEFINE h == [n \in {0} |-> r]
  <2>1. Up(h, 0)
    OBVIOUS
  <2> QED BY <2>1
<1>3. ASSUME NEW n \in Nat, n \in T, n < N PROVE n + 1 \in T
  <2>1. PICK h : Up(h, n)
    BY <1>3
  <2> DEFINE k == [i \in Nat |-> IF i <= n THEN h[i] ELSE After(h[n], q[n + 1], c)]
  <2>2. k[0] = r
    BY <2>1
  <2>3. ASSUME NEW i \in Nat, i < n + 1 PROVE k[i + 1] = After(k[i], q[i + 1], c)
    <3>1. i <= n /\ i + 1 \in Nat /\ k[i] = h[i]
      BY <2>3
    <3>2. CASE i < n
      <4>1. k[i + 1] = h[i + 1]
        BY <3>1, <3>2
      <4> QED BY <2>1, <3>1, <3>2, <4>1
    <3>3. CASE i = n
      <4>1. k[i + 1] = After(h[n], q[n + 1], c)
        BY <3>1, <3>3
      <4> QED BY <3>1, <3>3, <4>1
    <3> QED BY <3>1, <3>2, <3>3
  <2> HIDE DEF k
  <2>4. Up(k, n + 1)
    BY <2>2, <2>3
  <2> QED BY <2>4
<1> HIDE DEF T
<1>4. \A n \in 0 .. N : n \in T
  <2> HIDE DEF N
  <2> QED BY ONLY <1>1, <1>2, <1>3, Upto
<1>5. PICK h : Up(h, N)
  BY <1>1, <1>4 DEF T
<1> QED BY <1>5, ChainMade

LEMMA ChainsAgree ==
    ASSUME NEW R, NEW q \in Seq(R), NEW r, NEW c, NEW h, NEW k,
           Chain(h, r, q, c), Chain(k, r, q, c)
    PROVE  h = k
<1> DEFINE N == Len(q)
           T == {n \in Nat : h[n] = k[n]}
<1>1. /\ N \in Nat /\ h[0] = r
      /\ \A n \in Nat : n < N => h[n + 1] = After(h[n], q[n + 1], c)
  BY ChainIs
<1>2. /\ k[0] = r
      /\ \A n \in Nat : n < N => k[n + 1] = After(k[n], q[n + 1], c)
  BY ChainIs
<1>3. 0 \in T /\ \A n \in Nat : n \in T /\ n < N => n + 1 \in T
  BY <1>1, <1>2
<1> HIDE DEF T
<1>4. \A n \in 0 .. N : n \in T
  <2> HIDE DEF N
  <2> QED BY ONLY <1>1, <1>3, Upto
<1>5. h = [n \in 0 .. N |-> h[n]] /\ k = [n \in 0 .. N |-> k[n]]
  BY DEF Chain
<1>6. \A n \in 0 .. N : h[n] = k[n]
  BY <1>4 DEF T
<1> HIDE DEF N
<1> QED BY <1>5, <1>6

LEMMA LaterIs ==
    ASSUME NEW R, NEW q \in Seq(R), NEW r, NEW c, NEW h, Chain(h, r, q, c)
    PROVE  Later(r, q, c) = h[Len(q)]
<1> DEFINE k == CHOOSE g : Chain(g, r, q, c)
<1>1. Chain(k, r, q, c)
  OBVIOUS
<1>2. Later(r, q, c) = k[Len(q)]
  BY DEF Later, Chain
<1> HIDE DEF k
<1>3. h = k
  BY <1>1, ChainsAgree
<1> QED BY <1>2, <1>3

\* the same, without the domain
LEMMA LaterOf ==
    ASSUME NEW R, NEW q \in Seq(R), NEW r, NEW c, NEW h,
           h[0] = r, \A n \in Nat : n < Len(q) => h[n + 1] = After(h[n], q[n + 1], c)
    PROVE  Later(r, q, c) = h[Len(q)]
<1> DEFINE k == [n \in 0 .. Len(q) |-> h[n]]
<1>1. Chain(k, r, q, c)
  BY ChainMade
<1>2. k[Len(q)] = h[Len(q)]
  BY LenProperties
<1> HIDE DEF k
<1> QED BY <1>1, <1>2, LaterIs

\* the records in between
Between(h, r, q, c) ==
    /\ h[0] = r /\ h[Len(q)] = Later(r, q, c)
    /\ \A n \in Nat : n < Len(q) => h[n + 1] = After(h[n], q[n + 1], c)

LEMMA LaterHas ==
    ASSUME NEW R, NEW q \in Seq(R), NEW r, NEW c
    PROVE  \E h : Between(h, r, q, c)
<1>1. PICK h : Chain(h, r, q, c)
  BY ChainExists
<1>2. Later(r, q, c) = h[Len(q)]
  BY <1>1, LaterIs
<1>3. /\ h[0] = r
      /\ \A n \in Nat : n < Len(q) => h[n + 1] = After(h[n], q[n + 1], c)
  BY <1>1, ChainIs
<1> QED BY <1>2, <1>3 DEF Between

LEMMA LaterSame ==
    ASSUME NEW R, NEW q \in Seq(R), NEW p \in Seq(R), NEW r, NEW c, Len(p) = Len(q),
           \A i \in 1 .. Len(q) : \A x : After(x, p[i], c) = After(x, q[i], c)
    PROVE  Later(r, p, c) = Later(r, q, c)
<1>0. PICK h : Between(h, r, q, c)
  BY LaterHas
<1>1. /\ h[0] = r /\ h[Len(q)] = Later(r, q, c)
      /\ \A n \in Nat : n < Len(q) => h[n + 1] = After(h[n], q[n + 1], c)
  BY <1>0 DEF Between
<1>2. ASSUME NEW n \in Nat, n < Len(p) PROVE h[n + 1] = After(h[n], p[n + 1], c)
  <2>1. n + 1 \in 1 .. Len(q)
    BY <1>2, LenProperties
  <2> QED BY <1>1, <1>2, <2>1
<1>3. h[0] = r /\ p \in Seq(R)
  BY <1>1
<1>4. Later(r, p, c) = h[Len(p)]
  BY ONLY <1>2, <1>3, LaterOf
<1> QED BY <1>1, <1>4

LEMMA LaterFirst ==
    ASSUME NEW R, NEW q \in Seq(R), NEW r, NEW c, q # <<>>
    PROVE  Later(r, q, c) = Later(After(r, q[1], c), Tail(q), c)
<1> DEFINE N == Len(q)
           t == Tail(q)
<1>0. PICK h : Between(h, r, q, c)
  BY LaterHas
<1>1. /\ h[0] = r /\ h[N] = Later(r, q, c)
      /\ \A n \in Nat : n < N => h[n + 1] = After(h[n], q[n + 1], c)
  BY <1>0 DEF Between
<1>2. /\ N \in Nat /\ N # 0 /\ t \in Seq(R) /\ Len(t) = N - 1
      /\ \A i \in 1 .. N - 1 : t[i] = q[i + 1]
  <2>1. N \in Nat /\ N # 0
    BY LenProperties, EmptySeq
  <2>2. t \in Seq(R) /\ Len(t) = N - 1
    BY HeadTailProperties
  <2>3. \A i \in 1 .. Len(t) : t[i] = q[i + 1]
    BY HeadTailProperties
  <2> HIDE DEF N, t
  <2> QED BY <2>1, <2>2, <2>3
<1> DEFINE k == [n \in Nat |-> h[n + 1]]
<1> PICK x : x = After(r, q[1], c)
  OBVIOUS
<1>3. k[0] = x
  <2>1. 0 \in Nat /\ 0 < N /\ 0 + 1 = 1
    BY <1>2
  <2>2. k[0] = h[1]
    OBVIOUS
  <2> HIDE DEF k, N
  <2> QED BY <1>1, <2>1, <2>2
<1>4. ASSUME NEW n \in Nat, n < Len(t) PROVE k[n + 1] = After(k[n], t[n + 1], c)
  <2> PICK m : m = n + 1
    OBVIOUS
  <2>1. m \in Nat /\ m < N /\ m \in 1 .. N - 1
    BY <1>2, <1>4
  <2>2. k[n] = h[m] /\ k[m] = h[m + 1]
    BY <2>1
  <2> HIDE DEF k, N, t
  <2> QED BY <1>1, <1>2, <2>1, <2>2
<1>5. Later(x, t, c) = k[Len(t)]
  <2>1. t \in Seq(R)
    BY <1>2
  <2> HIDE DEF k, N, t
  <2> QED BY ONLY <2>1, <1>3, <1>4, LaterOf
<1>6. k[Len(t)] = h[N]
  BY <1>2
<1> QED BY <1>1, <1>5, <1>6

LEMMA LaterMore ==
    ASSUME NEW R, NEW q \in Seq(R), NEW m \in R, NEW r, NEW c
    PROVE  Later(r, Append(q, m), c) = After(Later(r, q, c), m, c)
<1> DEFINE N == Len(q)
           s == Append(q, m)
<1>0. PICK h : Between(h, r, q, c)
  BY LaterHas
<1>1. /\ h[0] = r /\ h[N] = Later(r, q, c)
      /\ \A n \in Nat : n < N => h[n + 1] = After(h[n], q[n + 1], c)
  BY <1>0 DEF Between
<1>2. /\ s \in Seq(R) /\ Len(s) = N + 1 /\ s[N + 1] = m /\ N \in Nat
      /\ \A i \in 1 .. N : s[i] = q[i]
  BY AppendProperties, LenProperties
<1> DEFINE k == [n \in Nat |-> IF n = N + 1 THEN After(h[N], m, c) ELSE h[n]]
<1>3. k[0] = r /\ k[N + 1] = After(h[N], m, c)
  BY <1>1, <1>2
<1>4. ASSUME NEW n \in Nat, n < Len(s) PROVE k[n + 1] = After(k[n], s[n + 1], c)
  <2> HIDE DEF N, s
  <2>1. n <= N /\ k[n] = h[n]
    BY <1>2, <1>4
  <2>2. CASE n = N
    BY <1>2, <1>3, <2>1, <2>2
  <2>3. CASE n # N
    <3> HIDE DEF k
    <3> PICK j : j = n + 1
      OBVIOUS
    <3>1. j \in 1 .. N /\ n < N /\ j # N + 1 /\ j \in Nat
      BY <1>2, <2>1, <2>3
    <3>2. k[j] = h[j]
      BY <3>1 DEF k
    <3> QED BY <1>1, <1>2, <2>1, <3>1, <3>2
  <2> QED BY <2>2, <2>3
<1>5. Later(r, s, c) = k[Len(s)]
  <2>1. s \in Seq(R) /\ k[0] = r
    BY <1>2, <1>3
  <2> HIDE DEF k, N, s
  <2> QED BY ONLY <2>1, <1>4, LaterOf
<1> QED BY <1>1, <1>2, <1>3, <1>5

\* a message that changes the record of c
Concerns(m, c) == (m.type = "write" /\ m.char = c) \/ (m.type = "place" /\ m.target = c)

LEMMA Unconcerned == \A m, c, r : ~Concerns(m, c) => After(r, m, c) = r
BY DEF Concerns, After

LEMMA LaterCalm ==
    ASSUME NEW R, NEW q \in Seq(R), NEW r, NEW c, \A i \in 1 .. Len(q) : ~Concerns(q[i], c)
    PROVE  Later(r, q, c) = r
<1> DEFINE h == [n \in Nat |-> r]
<1>1. h[0] = r /\ h[Len(q)] = r
  BY LenProperties
<1>2. ASSUME NEW n \in Nat, n < Len(q) PROVE h[n + 1] = After(h[n], q[n + 1], c)
  <2>1. n + 1 \in 1 .. Len(q)
    BY <1>2, LenProperties
  <2>2. h[n] = r /\ h[n + 1] = r
    OBVIOUS
  <2> HIDE DEF h
  <2> QED BY <2>1, <2>2, Unconcerned
<1> HIDE DEF h
<1>3. Later(r, q, c) = h[Len(q)]
  BY <1>1, <1>2, LaterOf
<1> QED BY <1>1, <1>3

LEMMA AfterGood ==
    ASSUME NEW r \in Good, NEW m \in Request, NEW c
    PROVE  After(r, m, c) \in Good
<1>1. /\ m.type = "write" => m.data \in Good
      /\ m.type = "place" => m.amount \in Nat
  BY Messages
<1> QED BY <1>1, GoodFields DEF After

LEMMA LaterGood ==
    ASSUME NEW q \in Seq(Request), NEW r \in Good, NEW c
    PROVE  Later(r, q, c) \in Good
<1> DEFINE N == Len(q)
<1>0. PICK h : Between(h, r, q, c)
  BY LaterHas
<1>1. /\ h[0] = r /\ h[N] = Later(r, q, c)
      /\ \A n \in Nat : n < N => h[n + 1] = After(h[n], q[n + 1], c)
  BY <1>0 DEF Between
<1> DEFINE T == {n \in Nat : h[n] \in Good}
<1>2. N \in Nat
  BY LenProperties
<1>3. 0 \in T
  BY <1>1
<1>4. ASSUME NEW n \in Nat, n \in T, n < N PROVE n + 1 \in T
  <2>1. n + 1 \in 1 .. N
    BY <1>2, <1>4
  <2>2. q[n + 1] \in Request
    BY <2>1, ElementOfSeq
  <2>3. After(h[n], q[n + 1], c) \in Good
    BY <1>4, <2>2, AfterGood
  <2> QED BY <1>1, <1>4, <2>3
<1> HIDE DEF T
<1>5. \A n \in 0 .. N : n \in T
  <2> HIDE DEF N
  <2> QED BY ONLY <1>2, <1>3, <1>4, Upto
<1> QED BY <1>1, <1>2, <1>5 DEF T

\* requests that write the records D of some characters
AreWrites(ws, D) ==
    /\ ws \in Seq(Request)
    /\ \A i \in 1 .. Len(ws) : ws[i].type = "write" /\ ws[i].data = D[ws[i].char]
Writes1(ws, c) == \E i \in 1 .. Len(ws) : ws[i].char = c

LEMMA LaterWrites ==
    ASSUME NEW q \in Seq(Request), NEW ws, NEW D, AreWrites(ws, D), NEW r, NEW c
    PROVE  Later(r, q \o ws, c) = IF Writes1(ws, c) THEN D[c] ELSE Later(r, q, c)
<1> DEFINE N == Len(q)
           M == Len(ws)
           s == q \o ws
<1>0. PICK h : Between(h, r, q, c)
  BY LaterHas
<1>1. /\ h[0] = r /\ h[N] = Later(r, q, c)
      /\ \A n \in Nat : n < N => h[n + 1] = After(h[n], q[n + 1], c)
  BY <1>0 DEF Between
<1>2. ws \in Seq(Request)
  BY DEF AreWrites
<1>3. /\ s \in Seq(Request) /\ Len(s) = N + M /\ N \in Nat /\ M \in Nat
      /\ \A i \in 1 .. N : s[i] = q[i]
      /\ \A i \in 1 .. M : s[N + i] = ws[i]
  <2>1. s \in Seq(Request) /\ Len(s) = N + M
    BY <1>2, ConcatProperties
  <2>2. \A i \in 1 .. N + M : s[i] = IF i <= N THEN q[i] ELSE ws[i - N]
    BY <1>2, <2>1, ConcatProperties
  <2>3. N \in Nat /\ M \in Nat
    BY <1>2, LenProperties
  <2> HIDE DEF s, N, M
  <2>4. ASSUME NEW i \in 1 .. M PROVE s[N + i] = ws[i]
    <3> PICK j : j = N + i
      OBVIOUS
    <3>1. j \in 1 .. N + M /\ ~(j <= N) /\ j - N = i
      BY <2>3
    <3> QED BY <2>2, <3>1
  <2>5. ASSUME NEW i \in 1 .. N PROVE s[i] = q[i]
    BY <2>2, <2>3
  <2> QED BY <2>1, <2>3, <2>4, <2>5
<1> DEFINE E(n) == \E i \in 1 .. n : ws[i].char = c
           k == [n \in Nat |-> IF n <= N THEN h[n] ELSE IF E(n - N) THEN D[c] ELSE h[N]]
<1>4. k[0] = r
  BY <1>1, <1>3
<1>5. ASSUME NEW n \in Nat, n < Len(s) PROVE k[n + 1] = After(k[n], s[n + 1], c)
  <2> HIDE DEF N, M, s
  <2>1. CASE n < N
    <3> PICK j : j = n + 1
      OBVIOUS
    <3>1. j \in 1 .. N /\ j \in Nat /\ n <= N /\ j <= N
      BY <1>3, <2>1
    <3>2. k[n] = h[n] /\ k[j] = h[j]
      BY <3>1
    <3> HIDE DEF k
    <3> QED BY <1>1, <1>3, <2>1, <3>1, <3>2
  <2>2. CASE ~(n < N)
    <3> PICK i : i = n - N
      OBVIOUS
    <3> PICK j : j = i + 1
      OBVIOUS
    <3>1. /\ i \in Nat /\ j \in 1 .. M /\ j \in Nat /\ n + 1 = N + j /\ n = N + i
          /\ ~(n + 1 <= N) /\ (n <= N <=> i = 0) /\ (n + 1) - N = j
      BY <1>3, <1>5, <2>2
    <3>2. k[n] = IF E(i) THEN D[c] ELSE h[N]
      <4> HIDE DEF E
      <4>1. k[n] = IF n <= N THEN h[n] ELSE IF E(n - N) THEN D[c] ELSE h[N]
        OBVIOUS
      <4>2. ~E(0)
        BY DEF E
      <4> HIDE DEF k
      <4> QED BY <1>3, <3>1, <4>1, <4>2
    <3>3. k[n + 1] = IF E(j) THEN D[c] ELSE h[N]
      <4> HIDE DEF E
      <4>1. n + 1 \in Nat
        OBVIOUS
      <4> QED BY <3>1, <4>1
    <3>4. s[n + 1] = ws[j]
      BY <1>3, <3>1
    <3>5. ws[j].type = "write" /\ ws[j].data = D[ws[j].char]
      BY <3>1 DEF AreWrites, M
    <3>6. \A x : After(x, ws[j], c) = IF ws[j].char = c THEN D[c] ELSE x
      BY <3>5 DEF After
    <3>7. E(j) <=> E(i) \/ ws[j].char = c
      <4>1. 1 .. j = (1 .. i) \union {j}
        BY <3>1
      <4> HIDE DEF k
      <4> QED BY <4>1
    <3> HIDE DEF k, E
    <3> QED BY <3>2, <3>3, <3>4, <3>6, <3>7
  <2> QED BY <2>1, <2>2
<1>6. Later(r, s, c) = k[Len(s)]
  <2>1. s \in Seq(Request)
    BY <1>3
  <2> HIDE DEF k, N, s
  <2> QED BY ONLY <2>1, <1>4, <1>5, LaterOf
<1>7. k[N + M] = IF E(M) THEN D[c] ELSE h[N]
  <2> HIDE DEF E, N, M
  <2>1. N + M \in Nat /\ (N + M) - N = M /\ (N + M <= N <=> M = 0)
    BY <1>3
  <2>2. ~E(0)
    BY DEF E
  <2>3. k[N + M] = IF N + M <= N THEN h[N + M] ELSE IF E((N + M) - N) THEN D[c] ELSE h[N]
    BY <2>1
  <2> HIDE DEF k
  <2>4. CASE M = 0
    BY <1>3, <2>1, <2>2, <2>3, <2>4
  <2>5. CASE M # 0
    BY <2>1, <2>3, <2>5
  <2> QED BY <2>4, <2>5
<1> HIDE DEF k
<1> QED BY <1>1, <1>3, <1>6, <1>7 DEF Writes1

-----------------------------------------------------------------------------
(* Records of who plays, of who waits, and of their rows. *)

\* whoever waits for its record is not written about: what comes is up to date
CalmInv ==
    \A c \in Chars :
        /\ \A i \in 1 .. Len(req) : Asks(req[i], c) =>
              \A j \in i + 1 .. Len(req) : ~Concerns(req[j], c)
        /\ \A i \in 1 .. Len(rep) : Asks(rep[i], c) =>
              /\ rep[i].data = row[c]
              /\ \A j \in 1 .. Len(req) : ~Concerns(req[j], c)

AgreeInv == \A c \in Chars : at[c] = In => crimes[c] = Pending(c)

RecordInv == HuntInv /\ CalmInv /\ AgreeInv

\* requests ws that bring the rows of characters in the game up to date
Written(ws) ==
    /\ AreWrites(ws, crimes') /\ req' = req \o ws
    /\ \A i \in 1 .. Len(ws) : at[ws[i].char] = In
    /\ at' = at /\ row' = row /\ rep' = rep
    /\ \A c \in Chars : ~Writes1(ws, c) => crimes'[c] = crimes[c]

LEMMA Joins ==
    ASSUME NEW R, NEW q \in Seq(R), NEW ws \in Seq(R)
    PROVE  /\ q \o ws \in Seq(R) /\ Len(q) \in Nat
           /\ \A i \in 1 .. Len(q \o ws) :
                 \/ i \in 1 .. Len(q) /\ (q \o ws)[i] = q[i]
                 \/ \E k \in 1 .. Len(ws) : i > Len(q) /\ (q \o ws)[i] = ws[k]
<1> DEFINE n == Len(q)
           k == Len(ws)
           s == q \o ws
<1>1. /\ s \in Seq(R) /\ Len(s) = n + k
      /\ \A i \in 1 .. n + k : s[i] = IF i <= n THEN q[i] ELSE ws[i - n]
  BY ConcatProperties
<1>2. n \in Nat /\ k \in Nat
  BY LenProperties
<1> HIDE DEF n, k, s
<1>3. ASSUME NEW i \in 1 .. Len(s)
      PROVE  \/ i \in 1 .. n /\ s[i] = q[i]
             \/ \E j \in 1 .. k : i > n /\ s[i] = ws[j]
  <2>1. CASE i <= n
    BY <1>1, <1>2, <2>1
  <2>2. CASE ~(i <= n)
    <3>1. i - n \in 1 .. k /\ s[i] = ws[i - n] /\ i > n
      BY <1>1, <1>2, <2>2
    <3> QED BY <3>1
  <2> QED BY <2>1, <2>2
<1> QED BY <1>1, <1>2, <1>3 DEF n, k, s

\* what is sent neither asks for a record nor concerns one that is awaited
LEMMA SentCalm ==
    ASSUME HuntInv, CalmInv, NEW ws \in Seq(Request), req' = req \o ws, rep' = rep, row' = row,
           \A i \in 1 .. Len(ws) : \A c \in Chars :
              ~Asks(ws[i], c) /\ (Concerns(ws[i], c) => at[c] # Chosen)
    PROVE  CalmInv'
<1>1. req \in Seq(Request)
  BY DEF HuntInv, Typed
<1>2. /\ Len(req) \in Nat
      /\ \A i \in 1 .. Len(req') :
            \/ i \in 1 .. Len(req) /\ req'[i] = req[i]
            \/ \E k \in 1 .. Len(ws) : i > Len(req) /\ req'[i] = ws[k]
  BY <1>1, Joins
<1>3. Len(req') \in Nat
  BY <1>1, Joins, LenProperties
<1> SUFFICES ASSUME NEW c \in Chars
             PROVE  /\ \A i \in 1 .. Len(req') : Asks(req'[i], c) =>
                          \A j \in i + 1 .. Len(req') : ~Concerns(req'[j], c)
                    /\ \A i \in 1 .. Len(rep) : Asks(rep[i], c) =>
                          /\ rep[i].data = row[c]
                          /\ \A j \in 1 .. Len(req') : ~Concerns(req'[j], c)
  BY DEF CalmInv, Asks, Concerns
<1>4. /\ \A i \in 1 .. Len(req) : Asks(req[i], c) =>
            /\ at[c] = Chosen
            /\ \A j \in i + 1 .. Len(req) : ~Concerns(req[j], c)
      /\ \A i \in 1 .. Len(rep) : Asks(rep[i], c) =>
            /\ rep[i].data = row[c] /\ at[c] = Chosen
            /\ \A j \in 1 .. Len(req) : ~Concerns(req[j], c)
  BY DEF HuntInv, AskInv, CalmInv
<1>5. ASSUME at[c] = Chosen, NEW j \in 1 .. Len(req'), Concerns(req'[j], c)
      PROVE  j \in 1 .. Len(req) /\ Concerns(req[j], c)
  <2>1. CASE \E k \in 1 .. Len(ws) : j > Len(req) /\ req'[j] = ws[k]
    BY <1>5, <2>1
  <2> QED BY <1>2, <1>5, <2>1
<1>6. ASSUME NEW i \in 1 .. Len(req'), Asks(req'[i], c), NEW j \in i + 1 .. Len(req')
      PROVE  ~Concerns(req'[j], c)
  <2>1. i \in 1 .. Len(req) /\ Asks(req[i], c)
    <3>1. CASE \E k \in 1 .. Len(ws) : i > Len(req) /\ req'[i] = ws[k]
      BY <1>6, <3>1
    <3> QED BY <1>2, <1>6, <3>1
  <2>2. at[c] = Chosen /\ ((j \in i + 1 .. Len(req)) => ~Concerns(req[j], c))
    BY <1>4, <2>1
  <2>3. j \in 1 .. Len(req')
    BY <1>3, <2>1
  <2>4. j \in 1 .. Len(req) => j \in i + 1 .. Len(req)
    BY <1>2, <1>3, <2>1
  <2> QED BY <1>5, <2>2, <2>3, <2>4
<1>7. ASSUME NEW i \in 1 .. Len(rep), Asks(rep[i], c)
      PROVE  /\ rep[i].data = row[c]
             /\ \A j \in 1 .. Len(req') : ~Concerns(req'[j], c)
  BY <1>4, <1>5, <1>7
<1> QED BY <1>6, <1>7

LEMMA WrittenInv ==
    ASSUME RecordInv, NEW ws, Written(ws)
    PROVE  /\ CalmInv' /\ AgreeInv'
           /\ \A c \in Chars : at[c] # In => Pending(c)' = Pending(c)
<1>1. /\ req \in Seq(Request) /\ ws \in Seq(Request)
      /\ \A i \in 1 .. Len(ws) : ws[i].type = "write" /\ at[ws[i].char] = In
      /\ req' = req \o ws /\ at' = at /\ row' = row /\ rep' = rep
  BY DEF RecordInv, HuntInv, Typed, Written, AreWrites
<1>2. \A i \in 1 .. Len(ws) : \A c \in Chars :
         ~Asks(ws[i], c) /\ (Concerns(ws[i], c) => at[c] # Chosen)
  BY <1>1, CrimesConstants DEF Asks, Concerns
<1>3. CalmInv'
  BY <1>1, <1>2, SentCalm DEF RecordInv
<1>4. ASSUME NEW c \in Chars
      PROVE  Pending(c)' = IF Writes1(ws, c) THEN crimes'[c] ELSE Pending(c)
  <2> DEFINE r == row[c]
             D == crimes'
  <2>1. req \in Seq(Request) /\ AreWrites(ws, D)
    BY <1>1 DEF Written
  <2> HIDE DEF r, D
  <2>2. Later(r, req \o ws, c) = IF Writes1(ws, c) THEN D[c] ELSE Later(r, req, c)
    BY ONLY <2>1, LaterWrites
  <2> QED BY <1>1, <2>2 DEF Pending, r, D
<1>5. AgreeInv'
  <2> SUFFICES ASSUME NEW c \in Chars, at[c] = In PROVE crimes'[c] = Pending(c)'
    BY <1>1 DEF AgreeInv
  <2>1. crimes[c] = Pending(c)
    BY DEF RecordInv, AgreeInv
  <2> QED BY <1>4, <2>1 DEF Written
<1>6. \A c \in Chars : at[c] # In => ~Writes1(ws, c)
  BY <1>1 DEF Writes1
<1> QED BY <1>3, <1>4, <1>5, <1>6

\* the writes of some characters, for their new records
LEMMA ManyWrites ==
    ASSUME NEW order \in Seq(Chars), NEW new,
           \A i \in 1 .. Len(order) : new[order[i]] \in Good
    PROVE  LET ws == [i \in 1 .. Len(order) |->
                        [type |-> "write", char |-> order[i], data |-> new[order[i]]]]
           IN  /\ AreWrites(ws, new) /\ Len(ws) = Len(order)
               /\ \A i \in 1 .. Len(order) : ws[i].char = order[i]
<1> DEFINE ws == [i \in 1 .. Len(order) |->
                    [type |-> "write", char |-> order[i], data |-> new[order[i]]]]
<1>1. NoAsk(ws)
  BY Writes
<1>2. Len(ws) = Len(order)
  BY LenProperties
<1>3. \A i \in 1 .. Len(order) :
         ws[i].char = order[i] /\ ws[i].type = "write" /\ ws[i].data = new[order[i]]
  OBVIOUS
<1> HIDE DEF ws
<1>4. AreWrites(ws, new)
  BY <1>1, <1>2, <1>3 DEF AreWrites, NoAsk
<1> QED BY <1>2, <1>3, <1>4 DEF ws

LEMMA UpdateWrites ==
    ASSUME HuntInv, NEW order \in Seq(Chars), NEW new,
           \A i \in 1 .. Len(order) : new[order[i]] \in Good /\ at[order[i]] = In,
           Update(new, order), UNCHANGED <<at, row, rep>>
    PROVE  \E ws : Written(ws)
<1> DEFINE ws == [i \in 1 .. Len(order) |->
                    [type |-> "write", char |-> order[i], data |-> new[order[i]]]]
<1>1. /\ AreWrites(ws, new) /\ Len(ws) = Len(order)
      /\ \A i \in 1 .. Len(order) : ws[i].char = order[i]
  BY ManyWrites
<1>2. req' = req \o ws
      /\ crimes' = [c \in Chars |-> IF Contains(order, c) THEN new[c] ELSE crimes[c]]
  BY DEF Update
<1> HIDE DEF ws
<1>3. \A i \in 1 .. Len(order) : order[i] \in Chars /\ Contains(order, order[i])
  BY ElementOfSeq, LenProperties DEF Contains
<1>4. AreWrites(ws, crimes')
  BY <1>1, <1>2, <1>3 DEF AreWrites
<1>5. \A c \in Chars : ~Writes1(ws, c) => ~Contains(order, c)
  BY <1>1 DEF Writes1, Contains
<1>6. Written(ws)
  BY <1>1, <1>2, <1>4, <1>5 DEF Written
<1> QED BY <1>6

LEMMA RobWrites ==
    ASSUME HuntInv, NEW c \in Chars, Rob(c)
    PROVE  \E ws : Written(ws)
<1> DEFINE new == [crimes EXCEPT ![c] = Theft(@)]
<1>1. Update(new, <<c>>) /\ at[c] = In /\ UNCHANGED <<at, row, rep>>
  BY DEF Rob
<1>2. crimes[c] \in Good /\ crimes[c].pockets < MaxCrimes
  BY DEF HuntInv, Typed, Rob
<1>3. new[c] \in Good
  BY <1>2, NewCrimes DEF HuntInv, Typed
<1>4. <<c>> \in Seq(Chars) /\ \A i \in 1 .. Len(<<c>>) : <<c>>[i] = c
  OBVIOUS
<1>5. \A i \in 1 .. Len(<<c>>) : new[<<c>>[i]] \in Good /\ at[<<c>>[i]] = In
  BY <1>1, <1>3, <1>4
<1> HIDE DEF new
<1> QED BY <1>1, <1>4, <1>5, UpdateWrites

LEMMA KillInnocentWrites ==
    ASSUME HuntInv, NEW v \in Chars, NEW K \in SUBSET Chars, NEW order \in SetToSeqs(K),
           Die(v, order), KillInnocent(v, order)
    PROVE  \E ws : Written(ws)
<1> DEFINE new == [c \in Chars |-> Murder(crimes[c])]
<1>1. Update(new, order)
      /\ \A i \in 1 .. Len(order) : crimes[order[i]].murders < MaxCrimes
  BY DEF KillInnocent
<1>2. \A i \in 1 .. Len(order) : new[order[i]] \in Good /\ at[order[i]] = In
  <2> SUFFICES ASSUME NEW i \in 1 .. Len(order)
               PROVE  new[order[i]] \in Good /\ at[order[i]] = In
    OBVIOUS
  <2>1. order[i] \in Chars /\ at[order[i]] = In
    BY Killers
  <2>2. crimes[order[i]] \in Good
    BY <2>1 DEF HuntInv, Typed
  <2> QED BY <1>1, <2>1, <2>2, NewCrimes
<1>3. order \in Seq(Chars) /\ UNCHANGED <<at, row, rep>>
  BY Killers
<1> HIDE DEF new
<1> QED BY <1>1, <1>2, <1>3, UpdateWrites

\* requests s, which are ws and a last one that writes the record of v
LastWrite(s, ws, D, v) ==
    /\ AreWrites(s, D) /\ Writes1(s, v)
    /\ \A i \in 1 .. Len(s) : s[i].char = v \/ \E k \in 1 .. Len(ws) : s[i] = ws[k]

LEMMA OneMore ==
    ASSUME NEW D, NEW ws, AreWrites(ws, D), NEW v \in Chars, D[v] \in Good
    PROVE  LastWrite(ws \o <<WriteOf(v, D[v])>>, ws, D, v)
<1> DEFINE x == WriteOf(v, D[v])
           s == ws \o <<x>>
           n == Len(ws)
<1>1. x \in Request /\ x.type = "write" /\ x.char = v /\ x.data = D[v]
  BY DEF WriteOf, Request
<1> HIDE DEF x
<1>2. ws \in Seq(Request) /\ n \in Nat
  BY LenProperties DEF AreWrites
<1>3. s = Append(ws, x)
  BY <1>1, <1>2, AppendIsConcat
<1>4. /\ s \in Seq(Request) /\ Len(s) = n + 1 /\ s[n + 1] = x
      /\ \A i \in 1 .. n : s[i] = ws[i]
  BY <1>1, <1>2, <1>3, AppendProperties
<1> HIDE DEF s
<1>5. \A i \in 1 .. n : ws[i].type = "write" /\ ws[i].data = D[ws[i].char]
  BY DEF AreWrites
<1> HIDE DEF n
<1>6. ASSUME NEW i \in 1 .. Len(s) PROVE s[i] = x \/ \E k \in 1 .. n : s[i] = ws[k]
  <2>1. i = n + 1 \/ i \in 1 .. n
    BY <1>2, <1>4
  <2> QED BY <1>4, <2>1
<1>7. AreWrites(s, D)
  BY <1>1, <1>4, <1>5, <1>6 DEF AreWrites
<1>8. Writes1(s, v)
  <2>1. n + 1 \in 1 .. Len(s)
    BY <1>2, <1>4
  <2> QED BY <1>1, <1>4, <2>1 DEF Writes1
<1>9. LastWrite(s, ws, D, v)
  BY <1>1, <1>6, <1>7, <1>8 DEF LastWrite, n
<1> QED BY <1>9 DEF s, x

LEMMA BountyWrites ==
    ASSUME HuntInv, ~Early, NEW c \in Chars, NEW x \in Chars, NEW b \in Bounties,
           BountyOnline(c, x, b)
    PROVE  \E ws : Written(ws)
<1> DEFINE D == crimes'
<1>1. /\ crimes' = [crimes EXCEPT ![x].bounty = @ + b] /\ at[x] = In
      /\ req' = Append(req, WriteOf(x, D[x]))
      /\ at' = at /\ row' = row /\ rep' = rep
  BY DEF BountyOnline, WriteOf
<1>2. crimes \in [Chars -> Good] /\ b \in Nat /\ req \in Seq(Request)
  BY CrimesConstants DEF HuntInv, Typed
<1>3. D[x] \in Good /\ \A d \in Chars : d # x => D[d] = crimes[d]
  <2> DEFINE r == [crimes[x] EXCEPT !.bounty = @ + b]
  <2>1. r \in Good
    BY <1>2, GoodFields
  <2>2. crimes' = [crimes EXCEPT ![x] = r]
    BY <1>1
  <2> HIDE DEF r
  <2> QED BY <1>2, <2>1, <2>2
<1> HIDE DEF D
<1> DEFINE ws == <<WriteOf(x, D[x])>>
<1>4. WriteOf(x, D[x]) \in Request
  BY <1>3 DEF WriteOf, Request
<1>5. req' = req \o ws
  BY <1>1, <1>2, <1>4, AppendIsConcat
<1>6. AreWrites(ws, D) /\ \A i \in 1 .. Len(ws) : ws[i].char = x
  BY <1>4 DEF AreWrites, WriteOf
<1>7. Writes1(ws, x)
  BY DEF Writes1, WriteOf
<1> HIDE DEF ws
<1>8. \A d \in Chars : ~Writes1(ws, d) => D[d] = crimes[d]
  BY <1>3, <1>7
<1>9. Written(ws)
  BY <1>1, <1>5, <1>6, <1>8 DEF Written, D
<1> QED BY <1>9

LEMMA KillCriminalWrites ==
    ASSUME HuntInv, NEW v \in Chars, NEW K \in SUBSET Chars, NEW order \in SetToSeqs(K),
           Die(v, order), KillCriminal(v, order)
    PROVE  \E ws : Written(ws)
<1> DEFINE share == IF order = <<>> THEN 0 ELSE crimes[v].bounty \div Len(order)
           paid == IF share = 0 THEN <<>> ELSE order
           D == crimes'
           ws == [i \in 1 .. Len(paid) |->
                    [type |-> "write", char |-> paid[i], data |-> crimes[paid[i]]]]
           last == <<WriteOf(v, D[v])>>
<1>1. /\ crimes' = [crimes EXCEPT ![v] = Clear(@)]
      /\ req' = req \o ws \o last
  BY DEF KillCriminal, WriteOf
<1>2. /\ order \in Seq(Chars) /\ Len(order) \in Nat /\ at[v] = In
      /\ \A i \in 1 .. Len(order) : order[i] \in Chars /\ at[order[i]] = In /\ order[i] # v
      /\ at' = at /\ row' = row /\ rep' = rep
  BY Killers
<1>3. crimes \in [Chars -> Good] /\ req \in Seq(Request)
  BY DEF HuntInv, Typed
<1>4. D[v] \in Good /\ \A c \in Chars : c # v => D[c] = crimes[c]
  BY <1>1, <1>3, NewCrimes
<1> HIDE DEF share
<1>5. /\ paid \in Seq(Chars)
      /\ \A i \in 1 .. Len(paid) : paid[i] \in Chars /\ at[paid[i]] = In /\ paid[i] # v
  BY <1>2
<1> HIDE DEF D, paid
<1>6. \A i \in 1 .. Len(paid) : crimes[paid[i]] \in Good
  BY <1>3, <1>5
<1>7. /\ AreWrites(ws, crimes) /\ Len(ws) = Len(paid)
      /\ \A i \in 1 .. Len(paid) : ws[i].char = paid[i]
  BY <1>5, <1>6, ManyWrites
<1> HIDE DEF ws
<1>8. AreWrites(ws, D)
  BY <1>4, <1>5, <1>7 DEF AreWrites
<1> DEFINE us == ws \o last
<1>9. LastWrite(us, ws, D, v)
  <2>1. D[v] \in Good
    BY <1>4
  <2> QED BY ONLY v \in Chars, <1>8, <2>1, OneMore
<1>10. req' = req \o (ws \o last)
  <2>1. ws \in Seq(Request)
    BY <1>8 DEF AreWrites
  <2>2. last \in Seq(Request)
    <3>1. WriteOf(v, D[v]) \in Request
      BY <1>4 DEF WriteOf, Request
    <3> QED BY <3>1
  <2> HIDE DEF last
  <2>3. (req \o ws) \o last = req \o (ws \o last)
    BY ONLY <1>3, <2>1, <2>2, ConcatAssociative
  <2> QED BY ONLY <1>1, <2>3
<1>11. \A i \in 1 .. Len(us) : at[us[i].char] = In
  <2> HIDE DEF last, us
  <2> SUFFICES ASSUME NEW i \in 1 .. Len(us) PROVE at[us[i].char] = In
    OBVIOUS
  <2>1. us[i].char = v \/ \E k \in 1 .. Len(ws) : us[i] = ws[k]
    BY <1>9 DEF LastWrite
  <2>2. \A k \in 1 .. Len(ws) : at[ws[k].char] = In
    BY <1>5, <1>7
  <2> QED BY <1>2, <2>1, <2>2
<1>12. \A c \in Chars : ~Writes1(us, c) => D[c] = crimes[c]
  <2> HIDE DEF last, us
  <2> QED BY <1>4, <1>9 DEF LastWrite
<1> HIDE DEF last, us
<1>13. Written(us)
  BY <1>2, <1>9, <1>10, <1>11, <1>12 DEF Written, LastWrite, D, us
<1> QED BY <1>13

\* one request that writes nothing and concerns nobody who waits or plays
LEMMA SentOne ==
    ASSUME RecordInv, NEW m \in Request, req' = Append(req, m), rep' = rep, row' = row,
           m.type # "write",
           \A c \in Chars : Asks(m, c) => at[c] = Out,
           \A c \in Chars : Concerns(m, c) => at[c] = Out
    PROVE  /\ CalmInv'
           /\ \A c \in Chars : Pending(c)' = After(Pending(c), m, c)
<1> DEFINE n == Len(req)
<1>1. req \in Seq(Request)
  BY DEF RecordInv, HuntInv, Typed
<1>2. \A c \in Chars : Pending(c)' = After(Pending(c), m, c)
  <2> SUFFICES ASSUME NEW c \in Chars PROVE Pending(c)' = After(Pending(c), m, c)
    OBVIOUS
  <2> PICK r : r = row[c]
    OBVIOUS
  <2>1. Later(r, Append(req, m), c) = After(Later(r, req, c), m, c)
    BY ONLY <1>1, m \in Request, LaterMore
  <2> QED BY <2>1 DEF Pending
<1>3. /\ n \in Nat /\ Len(req') = n + 1 /\ req'[n + 1] = m
      /\ \A i \in 1 .. n : req'[i] = req[i]
  BY <1>1, AppendProperties, LenProperties
<1> HIDE DEF n
<1>4. ASSUME NEW c \in Chars
      PROVE  /\ \A i \in 1 .. n + 1 : Asks(req'[i], c) =>
                   \A j \in i + 1 .. n + 1 : ~Concerns(req'[j], c)
             /\ \A i \in 1 .. Len(rep) : Asks(rep[i], c) =>
                   /\ rep[i].data = row[c]
                   /\ \A j \in 1 .. n + 1 : ~Concerns(req'[j], c)
  <2>1. /\ \A i \in 1 .. n : Asks(req[i], c) =>
              /\ at[c] = Chosen
              /\ \A j \in i + 1 .. n : ~Concerns(req[j], c)
        /\ \A i \in 1 .. Len(rep) : Asks(rep[i], c) =>
              /\ rep[i].data = row[c] /\ at[c] = Chosen
              /\ \A j \in 1 .. n : ~Concerns(req[j], c)
    BY DEF RecordInv, HuntInv, AskInv, CalmInv, n
  <2>2. at[c] = Chosen => ~Concerns(m, c)
    BY CrimesConstants
  <2>3. ASSUME NEW i \in 1 .. n + 1, Asks(req'[i], c), NEW j \in i + 1 .. n + 1
        PROVE  ~Concerns(req'[j], c)
    <3>1. i \in 1 .. n /\ (j \in i + 1 .. n \/ j = n + 1)
      BY <1>3
    <3>2. Asks(req[i], c)
      BY <1>3, <2>3, <3>1
    <3>3. CASE j \in i + 1 .. n
      <4>1. j \in 1 .. n
        BY <1>3, <3>1, <3>3
      <4> QED BY <1>3, <2>1, <3>1, <3>2, <3>3, <4>1
    <3>4. CASE j = n + 1
      BY <1>3, <2>1, <2>2, <3>1, <3>2, <3>4
    <3> QED BY <3>1, <3>3, <3>4
  <2>4. ASSUME NEW i \in 1 .. Len(rep), Asks(rep[i], c)
        PROVE  /\ rep[i].data = row[c]
               /\ \A j \in 1 .. n + 1 : ~Concerns(req'[j], c)
    <3>1. \A j \in 1 .. n + 1 : j \in 1 .. n \/ j = n + 1
      BY <1>3
    <3> QED BY <1>3, <2>1, <2>2, <2>4, <3>1
  <2> QED BY <2>3, <2>4
<1>5. CalmInv'
  BY <1>3, <1>4 DEF CalmInv, Asks, Concerns
<1> QED BY <1>2, <1>5

LEMMA ChooseRec ==
    ASSUME RecordInv, NEW c \in Chars, Choose(c)
    PROVE  /\ CalmInv' /\ AgreeInv'
           /\ \A d \in Chars : Pending(d)' = Pending(d)
<1> DEFINE m == [type |-> "get", char |-> c]
<1>1. /\ at[c] = Out /\ at' = [at EXCEPT ![c] = Chosen]
      /\ crimes' = [crimes EXCEPT ![c] = NoCrimes] /\ req' = Append(req, m)
      /\ row' = row /\ rep' = rep
  BY DEF Choose
<1>2. /\ m \in Request /\ m.type # "write"
      /\ \A d \in Chars : Asks(m, d) => d = c
      /\ \A d \in Chars : ~Concerns(m, d)
  BY DEF Request, Asks, Concerns
<1> HIDE DEF m
<1>3. \A d \in Chars : Asks(m, d) => at[d] = Out
  BY <1>1, <1>2
<1>4. \A d \in Chars : Concerns(m, d) => at[d] = Out
  BY <1>2
<1>5. CalmInv' /\ \A d \in Chars : Pending(d)' = After(Pending(d), m, d)
  BY <1>1, <1>2, <1>3, <1>4, SentOne
<1>6. \A d \in Chars : Pending(d)' = Pending(d)
  BY <1>2, <1>5, Unconcerned
<1>7. AgreeInv'
  <2> SUFFICES ASSUME NEW d \in Chars, at'[d] = In PROVE crimes'[d] = Pending(d)'
    BY DEF AgreeInv
  <2>1. at \in [Chars -> {Out, Chosen, In}] /\ crimes \in [Chars -> Good]
    BY DEF RecordInv, HuntInv, Typed
  <2>2. d # c /\ at[d] = In /\ crimes'[d] = crimes[d]
    BY <1>1, <2>1, CrimesConstants
  <2> QED BY <1>6, <2>2 DEF RecordInv, AgreeInv
<1> QED BY <1>5, <1>6, <1>7

LEMMA OfflineRec ==
    ASSUME RecordInv, NEW c \in Chars, NEW x \in Chars \union {None}, NEW b \in Bounties,
           BountyOffline(c, x, b)
    PROVE  /\ CalmInv' /\ AgreeInv'
           /\ \A d \in Chars : d # x => Pending(d)' = Pending(d)
           /\ x \in Chars => Pending(x)' = [Pending(x) EXCEPT !.bounty = @ + b]
<1> DEFINE m == [type |-> "place", char |-> c, target |-> x, amount |-> b]
<1>1. /\ req' = Append(req, m) /\ x \notin Online
      /\ at' = at /\ crimes' = crimes /\ row' = row /\ rep' = rep
  BY DEF BountyOffline
<1>2. /\ m \in Request /\ m.type # "write"
      /\ \A d \in Chars : ~Asks(m, d)
      /\ \A d \in Chars : Concerns(m, d) => d = x
      /\ \A r : After(r, m, x) = [r EXCEPT !.bounty = @ + b]
  BY DEF Request, Asks, Concerns, After
<1> HIDE DEF m
<1>3. \A d \in Chars : Asks(m, d) => at[d] = Out
  BY <1>2
<1>4. \A d \in Chars : Concerns(m, d) => at[d] = Out
  BY <1>1, <1>2 DEF Online
<1>5. CalmInv' /\ \A d \in Chars : Pending(d)' = After(Pending(d), m, d)
  BY <1>1, <1>2, <1>3, <1>4, SentOne
<1>6. \A d \in Chars : d # x => Pending(d)' = Pending(d)
  BY <1>2, <1>5, Unconcerned
<1>7. x \in Chars => Pending(x)' = [Pending(x) EXCEPT !.bounty = @ + b]
  BY <1>2, <1>5
<1>8. AgreeInv'
  <2> SUFFICES ASSUME NEW d \in Chars, at[d] = In PROVE crimes[d] = Pending(d)'
    BY <1>1 DEF AgreeInv
  <2>1. d # x
    BY <1>1, CrimesConstants DEF Online
  <2> QED BY <1>6, <2>1 DEF RecordInv, AgreeInv
<1> QED BY <1>5, <1>6, <1>7, <1>8

\* a message whose sender is forgotten
Faded(m, x, c) ==
    /\ \A d \in Chars : Asks(x, d) => Asks(m, d)
    /\ \A d \in Chars : Concerns(x, d) <=> Concerns(m, d)
    /\ \A d \in Chars : \A r : After(r, x, d) = After(r, m, d)
    /\ Asked(x) = Asked(m)

LEMMA HungUpRec ==
    ASSUME RecordInv, NEW c \in Chars, HungUp(c), HuntInv'
    PROVE  /\ CalmInv' /\ AgreeInv'
           /\ \A d \in Chars : Pending(d)' = Pending(d)
           /\ Len(req') = Len(req) /\ \A i \in 1 .. Len(req) : Asked(req'[i]) = Asked(req[i])
           /\ Len(rep') = Len(rep) /\ \A i \in 1 .. Len(rep) : Back(rep'[i]) = Back(rep[i])
<1> DEFINE f(m) == IF m.type # "write" /\ m.char = c THEN [m EXCEPT !.char = None] ELSE m
           g(m) == IF m.char = c THEN [m EXCEPT !.char = None] ELSE m
<1>1. /\ at[c] # Out /\ at' = [at EXCEPT ![c] = Out]
      /\ crimes' = [crimes EXCEPT ![c] = NoCrimes]
      /\ req' = [i \in 1 .. Len(req) |-> f(req[i])]
      /\ rep' = [i \in 1 .. Len(rep) |-> g(rep[i])]
      /\ row' = row
  BY DEF HungUp
<1>2. /\ at \in [Chars -> {Out, Chosen, In}] /\ crimes \in [Chars -> Good]
      /\ req \in Seq(Request) /\ Len(req) \in Nat /\ \A i \in 1 .. Len(req) : req[i] \in Request
      /\ rep \in Seq(Reply) /\ Len(rep) \in Nat /\ \A i \in 1 .. Len(rep) : rep[i] \in Reply
      /\ req' \in Seq(Request)
  BY LenProperties, ElementOfSeq DEF RecordInv, HuntInv, Typed
<1>3. \A m \in Request : Faded(m, f(m), c)
  <2> SUFFICES ASSUME NEW m \in Request PROVE Faded(m, f(m), c)
    OBVIOUS
  <2>1. CASE m.type # "write" /\ m.char = c
    <3>1. /\ f(m).type = m.type /\ f(m).char = None
          /\ m.type = "place" => f(m).target = m.target /\ f(m).amount = m.amount
      BY <2>1 DEF Request
    <3> HIDE DEF f
    <3>2. \A d \in Chars : ~Asks(f(m), d)
      BY <3>1, CrimesConstants DEF Asks
    <3> QED BY <2>1, <3>1, <3>2 DEF Faded, Concerns, After, Asked
  <2>2. CASE ~(m.type # "write" /\ m.char = c)
    BY <2>2 DEF Faded
  <2> QED BY <2>1, <2>2
<1>4. \A m \in Reply : /\ \A d \in Chars : Asks(g(m), d) => Asks(m, d) /\ g(m).data = m.data
                       /\ Back(g(m)) = Back(m)
  <2> SUFFICES ASSUME NEW m \in Reply
               PROVE  /\ \A d \in Chars : Asks(g(m), d) => Asks(m, d) /\ g(m).data = m.data
                      /\ Back(g(m)) = Back(m)
    OBVIOUS
  <2>1. CASE m.char = c
    <3>1. /\ g(m).type = m.type /\ g(m).char = None
          /\ m.type = "place" => g(m).ok = m.ok /\ g(m).amount = m.amount
      BY <2>1 DEF Reply
    <3> HIDE DEF g
    <3>2. \A d \in Chars : ~Asks(g(m), d)
      BY <3>1, CrimesConstants DEF Asks
    <3>3. Back(g(m)) = Back(m)
      BY <3>1 DEF Back
    <3> QED BY <3>2, <3>3
  <2>2. CASE m.char # c
    BY <2>2
  <2> QED BY <2>1, <2>2
<1> HIDE DEF f, g
<1>5. Len(req') = Len(req) /\ \A i \in 1 .. Len(req) : Faded(req[i], req'[i], c)
  BY <1>1, <1>2, <1>3
<1>6. Len(rep') = Len(rep)
      /\ \A i \in 1 .. Len(rep) :
            /\ \A d \in Chars : Asks(rep'[i], d) => Asks(rep[i], d) /\ rep'[i].data = rep[i].data
            /\ Back(rep'[i]) = Back(rep[i])
  BY <1>1, <1>2, <1>4
<1>7. \A d \in Chars : Pending(d)' = Pending(d)
  <2> SUFFICES ASSUME NEW d \in Chars PROVE Pending(d)' = Pending(d)
    OBVIOUS
  <2> PICK r : r = row[d]
    OBVIOUS
  <2> PICK p : p = req'
    OBVIOUS
  <2>1. /\ p \in Seq(Request) /\ req \in Seq(Request) /\ Len(p) = Len(req)
    BY <1>2, <1>5
  <2>2. \A i \in 1 .. Len(req) : \A x : After(x, p[i], d) = After(x, req[i], d)
    BY <1>5 DEF Faded
  <2>3. Later(r, p, d) = Later(r, req, d)
    BY ONLY <2>1, <2>2, LaterSame
  <2> QED BY <1>1, <2>3 DEF Pending
<1>8. CalmInv'
  <2> SUFFICES ASSUME NEW d \in Chars
               PROVE  /\ \A i \in 1 .. Len(req) : Asks(req'[i], d) =>
                            \A j \in i + 1 .. Len(req) : ~Concerns(req'[j], d)
                      /\ \A i \in 1 .. Len(rep) : Asks(rep'[i], d) =>
                            /\ rep'[i].data = row'[d]
                            /\ \A j \in 1 .. Len(req) : ~Concerns(req'[j], d)
    BY <1>5, <1>6 DEF CalmInv, Asks, Concerns
  <2>1. \A i \in 1 .. Len(req) : (Asks(req'[i], d) => Asks(req[i], d))
                                 /\ (Concerns(req'[i], d) => Concerns(req[i], d))
    BY <1>5 DEF Faded
  <2>2. /\ \A i \in 1 .. Len(req) : Asks(req[i], d) =>
              \A j \in i + 1 .. Len(req) : ~Concerns(req[j], d)
        /\ \A i \in 1 .. Len(rep) : Asks(rep[i], d) =>
              /\ rep[i].data = row[d]
              /\ \A j \in 1 .. Len(req) : ~Concerns(req[j], d)
    BY DEF RecordInv, CalmInv
  <2>3. \A i \in 1 .. Len(req) : \A j \in i + 1 .. Len(req) : j \in 1 .. Len(req)
    BY <1>2
  <2> QED BY <1>1, <1>6, <2>1, <2>2, <2>3
<1>9. AgreeInv'
  <2> SUFFICES ASSUME NEW d \in Chars, at'[d] = In PROVE crimes'[d] = Pending(d)'
    BY DEF AgreeInv
  <2>1. d # c /\ at[d] = In /\ crimes'[d] = crimes[d]
    BY <1>1, <1>2, CrimesConstants
  <2> QED BY <1>7, <2>1 DEF RecordInv, AgreeInv
<1>10. \A i \in 1 .. Len(req) : Asked(req'[i]) = Asked(req[i])
  BY <1>5 DEF Faded
<1> QED BY <1>5, <1>6, <1>7, <1>8, <1>9, <1>10

LEMMA DmReceiveRec ==
    ASSUME RecordInv, DmReceive
    PROVE  /\ CalmInv' /\ AgreeInv'
           /\ \A d \in Chars : Pending(d)' = Pending(d)
<1> DEFINE m == Head(req)
           k == Len(rep)
<1>1. /\ req # <<>> /\ req' = Tail(req) /\ rep' = rep \o Answer(m)
      /\ row' = [c \in Chars |-> After(row[c], m, c)]
      /\ at' = at /\ crimes' = crimes
  BY DEF DmReceive
<1>2. req \in Seq(Request) /\ rep \in Seq(Reply) /\ row \in [Chars -> Good] /\ k \in Nat
  BY LenProperties DEF RecordInv, HuntInv, Typed
<1>3. m = req[1] /\ m \in Request /\ 1 \in 1 .. Len(req) /\ Len(req) \in Nat
      /\ \A i \in 1 .. Len(req') : i + 1 \in 1 .. Len(req) /\ req'[i] = req[i + 1]
  <2>1. req # <<>> /\ req \in Seq(Request)
    BY <1>1, <1>2
  <2>2. /\ m = req[1] /\ 1 \in 1 .. Len(req) /\ req[1] \in Request /\ Len(req) \in Nat
        /\ \A i \in 1 .. Len(Tail(req)) : i + 1 \in 1 .. Len(req) /\ Tail(req)[i] = req[i + 1]
    BY <2>1, Taken
  <2> HIDE DEF m
  <2> QED BY <1>1, <2>2
<1>4. \A d \in Chars : Pending(d)' = Pending(d)
  <2> SUFFICES ASSUME NEW d \in Chars PROVE Pending(d)' = Pending(d)
    OBVIOUS
  <2> PICK r : r = row[d]
    OBVIOUS
  <2>1. req # <<>> /\ req \in Seq(Request)
    BY <1>1, <1>2
  <2>2. Later(r, req, d) = Later(After(r, req[1], d), Tail(req), d)
    BY ONLY <2>1, LaterFirst
  <2>3. row'[d] = After(r, m, d)
    BY <1>1
  <2> HIDE DEF m
  <2> QED BY <1>1, <1>3, <2>2, <2>3 DEF Pending
<1> HIDE DEF m
<1>5. AgreeInv'
  BY <1>1, <1>4 DEF RecordInv, AgreeInv
\* what the answer is, if it brings a record
<1>6. PICK a : a = Answer(m)
  OBVIOUS
<1>7. \/ a = <<>>
      \/ \E x \in Reply : /\ a = <<x>>
                          /\ \A d \in Chars : Asks(x, d) => Asks(m, d) /\ x.data = row[d]
  <2>1. CASE m.type = "get" /\ m.char # None
    <3> DEFINE x == [type |-> "get", char |-> m.char, data |-> row[m.char]]
    <3>1. m.char \in Chars
      BY <1>3, <2>1, Messages
    <3>2. x \in Reply /\ a = <<x>>
      BY <1>2, <1>6, <2>1, <3>1 DEF Reply, Answer
    <3>3. \A d \in Chars : Asks(x, d) => Asks(m, d) /\ x.data = row[d]
      BY <2>1 DEF Asks
    <3> QED BY <3>2, <3>3
  <2>2. CASE m.type = "place"
    <3> DEFINE x == [type |-> "place", char |-> m.char, amount |-> m.amount,
                     ok |-> m.target \in Chars]
    <3>1. x \in Reply /\ a = <<x>>
      BY <1>3, <1>6, <2>2 DEF Request, Reply, Answer
    <3>2. \A d \in Chars : ~Asks(x, d)
      BY DEF Asks
    <3> QED BY <3>1, <3>2
  <2>3. CASE ~(m.type = "get" /\ m.char # None) /\ m.type # "place"
    BY <1>6, <2>3 DEF Answer
  <2> QED BY <2>1, <2>2, <2>3
<1>8. \A i \in 1 .. Len(rep') :
         \/ i \in 1 .. k /\ rep'[i] = rep[i]
         \/ \A d \in Chars : Asks(rep'[i], d) => Asks(m, d) /\ rep'[i].data = row[d]
  <2>1. CASE a = <<>>
    <3>1. rep' = rep
      BY <1>1, <1>2, <1>6, <2>1, ConcatEmptySeq
    <3> QED BY <3>1
  <2>2. ASSUME NEW x \in Reply, a = <<x>>,
               \A d \in Chars : Asks(x, d) => Asks(m, d) /\ x.data = row[d]
        PROVE  \A i \in 1 .. Len(rep') :
                  \/ i \in 1 .. k /\ rep'[i] = rep[i]
                  \/ \A d \in Chars : Asks(rep'[i], d) => Asks(m, d) /\ rep'[i].data = row[d]
    <3>1. rep' = Append(rep, x)
      BY <1>1, <1>2, <1>6, <2>2, AppendIsConcat
    <3>2. /\ Len(rep') = k + 1 /\ rep'[k + 1] = x
          /\ \A i \in 1 .. k : rep'[i] = rep[i]
      BY <1>2, <3>1, AppendProperties
    <3>3. \A i \in 1 .. Len(rep') : i \in 1 .. k \/ i = k + 1
      <4> HIDE DEF k
      <4> QED BY <1>2, <3>2
    <3> QED BY <2>2, <3>2, <3>3
  <2> QED BY <1>7, <2>1, <2>2
<1> HIDE DEF k
<1>9. CalmInv'
  <2> SUFFICES ASSUME NEW d \in Chars
               PROVE  /\ \A i \in 1 .. Len(req') : Asks(req'[i], d) =>
                            \A j \in i + 1 .. Len(req') : ~Concerns(req'[j], d)
                      /\ \A i \in 1 .. Len(rep') : Asks(rep'[i], d) =>
                            /\ rep'[i].data = row'[d]
                            /\ \A j \in 1 .. Len(req') : ~Concerns(req'[j], d)
    BY DEF CalmInv, Asks, Concerns
  <2>1. /\ \A i \in 1 .. Len(req) : Asks(req[i], d) =>
              \A j \in i + 1 .. Len(req) : ~Concerns(req[j], d)
        /\ \A i \in 1 .. k : Asks(rep[i], d) =>
              /\ rep[i].data = row[d]
              /\ \A j \in 1 .. Len(req) : ~Concerns(req[j], d)
    BY DEF RecordInv, CalmInv, k
  <2>2. ~Concerns(m, d) => row'[d] = row[d]
    BY <1>1, Unconcerned
  <2>3. ASSUME NEW i \in 1 .. Len(req'), Asks(req'[i], d), NEW j \in i + 1 .. Len(req')
        PROVE  ~Concerns(req'[j], d)
    <3>1. Len(req') \in Nat /\ j \in 1 .. Len(req')
      <4>1. Tail(req) \in Seq(Request)
        BY <1>1, <1>2, Taken
      <4>2. Len(req') \in Nat
        BY <1>1, <4>1, LenProperties
      <4> QED BY <4>2
    <3> PICK p : p = i + 1
      OBVIOUS
    <3> PICK q : q = j + 1
      OBVIOUS
    <3>2. p \in 1 .. Len(req) /\ q \in 1 .. Len(req) /\ q \in p + 1 .. Len(req)
          /\ req'[i] = req[p] /\ req'[j] = req[q]
      BY <1>3, <3>1
    <3> QED BY <2>1, <2>3, <3>2
  <2>4. ASSUME NEW i \in 1 .. Len(rep'), Asks(rep'[i], d)
        PROVE  /\ rep'[i].data = row'[d]
               /\ \A j \in 1 .. Len(req') : ~Concerns(req'[j], d)
    <3>1. CASE i \in 1 .. k /\ rep'[i] = rep[i]
      <4>1. /\ rep[i].data = row[d]
            /\ \A j \in 1 .. Len(req) : ~Concerns(req[j], d)
        BY <2>1, <2>4, <3>1
      <4>2. ~Concerns(m, d)
        BY <1>3, <4>1
      <4> QED BY <1>3, <2>2, <3>1, <4>1, <4>2
    <3>2. CASE Asks(m, d) /\ rep'[i].data = row[d]
      <4>1. ~Concerns(m, d)
        BY <3>2 DEF Asks, Concerns
      <4>2. \A j \in 1 .. Len(req') : ~Concerns(req'[j], d)
        <5> SUFFICES ASSUME NEW j \in 1 .. Len(req') PROVE ~Concerns(req'[j], d)
          OBVIOUS
        <5> PICK q : q = j + 1
          OBVIOUS
        <5>1. q \in 1 .. Len(req) /\ q \in 1 + 1 .. Len(req) /\ req'[j] = req[q]
          BY <1>3
        <5> QED BY <1>3, <2>1, <3>2, <5>1
      <4> QED BY <2>2, <3>2, <4>1, <4>2
    <3> QED BY <1>8, <2>4, <3>1, <3>2
  <2> QED BY <2>3, <2>4
<1> QED BY <1>4, <1>5, <1>9

LEMMA ReceiveRec ==
    ASSUME RecordInv, Receive
    PROVE  /\ CalmInv' /\ AgreeInv'
           /\ \A d \in Chars : Pending(d)' = Pending(d)
<1> DEFINE m == Head(rep)
<1>1. /\ rep # <<>> /\ rep' = Tail(rep) /\ (ConfigReply(m) \/ BountyReply(m))
      /\ row' = row /\ req' = req
  BY DEF Receive
<1>2. /\ req \in Seq(Request) /\ rep \in Seq(Reply)
      /\ crimes \in [Chars -> Good] /\ at \in [Chars -> {Out, Chosen, In}]
  BY DEF RecordInv, HuntInv, Typed
<1>3. /\ m = rep[1] /\ m \in Reply /\ 1 \in 1 .. Len(rep) /\ Len(rep) \in Nat
      /\ \A i \in 1 .. Len(rep') : i + 1 \in 1 .. Len(rep) /\ rep'[i] = rep[i + 1]
  <2>1. rep # <<>> /\ rep' = Tail(rep) /\ rep \in Seq(Reply)
    BY <1>1, <1>2
  <2>2. /\ m = rep[1] /\ 1 \in 1 .. Len(rep) /\ rep[1] \in Reply /\ Len(rep) \in Nat
        /\ \A i \in 1 .. Len(Tail(rep)) : i + 1 \in 1 .. Len(rep) /\ Tail(rep)[i] = rep[i + 1]
    BY <2>1, Taken
  <2> HIDE DEF m
  <2> QED BY ONLY <2>1, <2>2
<1> HIDE DEF m
<1>4. \A d \in Chars : Pending(d)' = Pending(d)
  BY <1>1 DEF Pending
<1>5. CalmInv'
  <2>1. req' = req /\ row' = row
    BY <1>1
  <2> SUFFICES ASSUME NEW d \in Chars
               PROVE  /\ \A i \in 1 .. Len(req) : Asks(req[i], d) =>
                            \A j \in i + 1 .. Len(req) : ~Concerns(req[j], d)
                      /\ \A i \in 1 .. Len(rep') : Asks(rep'[i], d) =>
                            /\ rep'[i].data = row[d]
                            /\ \A j \in 1 .. Len(req) : ~Concerns(req[j], d)
    BY <2>1 DEF CalmInv, Asks, Concerns
  <2>2. /\ \A i \in 1 .. Len(req) : Asks(req[i], d) =>
              \A j \in i + 1 .. Len(req) : ~Concerns(req[j], d)
        /\ \A i \in 1 .. Len(rep) : Asks(rep[i], d) =>
              /\ rep[i].data = row[d]
              /\ \A j \in 1 .. Len(req) : ~Concerns(req[j], d)
    BY DEF RecordInv, CalmInv
  <2> QED BY <1>3, <2>2
<1>6. AgreeInv'
  <2> SUFFICES ASSUME NEW d \in Chars, at'[d] = In PROVE crimes'[d] = Pending(d)
    BY <1>4 DEF AgreeInv
  <2>1. CASE at[d] = In /\ crimes'[d] = crimes[d]
    BY <2>1 DEF RecordInv, AgreeInv
  <2>2. CASE m.type = "get" /\ m.char = d /\ crimes'[d] = m.data
    <3>1. Asks(rep[1], d)
      BY <1>3, <2>2 DEF Asks
    <3>2. /\ m.data = row[d]
          /\ \A j \in 1 .. Len(req) : ~Concerns(req[j], d)
      BY <1>3, <3>1 DEF RecordInv, CalmInv
    <3> PICK r : r = row[d]
      OBVIOUS
    <3>3. Later(r, req, d) = r
      BY ONLY <1>2, <3>2, LaterCalm
    <3> QED BY <2>2, <3>2, <3>3 DEF Pending
  <2>3. CASE ConfigReply(m)
    <3>1. CASE m.char = None
      BY <2>1, <2>3, <3>1 DEF ConfigReply
    <3>2. CASE m.char # None
      <4>1. /\ m.type = "get" /\ at' = [at EXCEPT ![m.char] = In]
            /\ crimes' = [crimes EXCEPT ![m.char] = m.data]
        BY <2>3, <3>2 DEF ConfigReply
      <4>2. CASE d = m.char
        BY <1>2, <2>2, <4>1, <4>2
      <4>3. CASE d # m.char
        BY <1>2, <2>1, <4>1, <4>3
      <4> QED BY <4>2, <4>3
    <3> QED BY <3>1, <3>2
  <2>4. CASE BountyReply(m)
    BY <2>1, <2>4 DEF BountyReply
  <2> QED BY <1>1, <2>3, <2>4
<1> QED BY <1>4, <1>5, <1>6

\* the steps that write records, and those that leave all that is pending
Writing == \E ws : Written(ws)

LEMMA DeathWrites ==
    ASSUME HuntInv, NEW c \in Chars, \E K \in SUBSET Chars : \E order \in SetToSeqs(K) : Die(c, order)
    PROVE  Writing
<1>1. PICK K \in SUBSET Chars : \E order \in SetToSeqs(K) : Die(c, order)
  OBVIOUS
<1>2. PICK order \in SetToSeqs(K) : Die(c, order)
  BY <1>1
<1>3. KillInnocent(c, order) \/ KillCriminal(c, order)
  BY <1>2 DEF Die
<1> QED BY <1>2, <1>3, KillInnocentWrites, KillCriminalWrites DEF Writing

LEMMA WritingRec ==
    ASSUME RecordInv, Writing
    PROVE  CalmInv' /\ AgreeInv'
<1>1. PICK ws : Written(ws)
  BY DEF Writing
<1> QED BY <1>1, WrittenInv

LEMMA RecordInit == Init => RecordInv
<1> SUFFICES ASSUME Init PROVE RecordInv
  OBVIOUS
<1>1. req = <<>> /\ rep = <<>> /\ \A c \in Chars : at[c] = Out
  BY DEF Init
<1>2. CalmInv /\ AgreeInv
  BY <1>1, CrimesConstants DEF CalmInv, AgreeInv
<1> QED BY <1>2, HuntInit DEF RecordInv

(* RecordInv is inductive: between the record that is asked for and the     *)
(* reply nothing is written about its character, and whoever plays has what *)
(* its row will be once all that was sent has been read.                   *)
THEOREM RecordInvStep ==
    ASSUME ~Early, RecordInv, [Next]_vars
    PROVE  RecordInv'
<1>1. HuntInv'
  BY HuntInvStep DEF RecordInv
<1>2. CASE \E c \in Chars : Act(c)
  <2>1. PICK c \in Chars : Act(c)
    BY <1>2
  <2>2. CASE Choose(c) \/ HungUp(c)
    BY <1>1, <2>2, ChooseRec, HungUpRec DEF RecordInv
  <2>3. CASE Rob(c)
    <3>1. Writing
      BY <2>3, RobWrites DEF RecordInv, Writing
    <3> QED BY <1>1, <3>1, WritingRec DEF RecordInv
  <2>4. CASE \E K \in SUBSET Chars : \E order \in SetToSeqs(K) : Die(c, order)
    <3>1. Writing
      BY <2>4, DeathWrites DEF RecordInv
    <3> QED BY <1>1, <3>1, WritingRec DEF RecordInv
  <2>5. CASE \E b \in Bounties : \E x \in Chars : BountyOnline(c, x, b)
    <3>1. Writing
      BY <2>5, BountyWrites DEF RecordInv, Writing
    <3> QED BY <1>1, <3>1, WritingRec DEF RecordInv
  <2>6. CASE \E b \in Bounties : \E x \in Chars \union {None} : BountyOffline(c, x, b)
    BY <1>1, <2>6, OfflineRec DEF RecordInv
  <2> QED BY <2>1, <2>2, <2>3, <2>4, <2>5, <2>6 DEF Act
<1>3. CASE DmReceive
  BY <1>1, <1>3, DmReceiveRec DEF RecordInv
<1>4. CASE Receive
  BY <1>1, <1>4, ReceiveRec DEF RecordInv
<1>5. CASE UNCHANGED vars
  <2>1. CalmInv' /\ AgreeInv'
    BY <1>5 DEF vars, RecordInv, CalmInv, AgreeInv, Asks, Concerns, Pending
  <2> QED BY <1>1, <2>1 DEF RecordInv
<1> QED BY <1>2, <1>3, <1>4, <1>5 DEF Next

(* The crimes of a character that plays are those its row will have when     *)
(* the data manager has read all that was sent to it: updateWanted and       *)
(* cmdBounty write every change, and the record that CONFIG_INFO_GET brings  *)
(* is not out of date, as long as nobody places a bounty on a character      *)
(* whose record has not come.                                                *)
THEOREM RecordsAgreeHolds ==
    ASSUME ~Early
    PROVE  Spec => []RecordsAgree
<1>1. RecordInv /\ [Next]_vars => RecordInv'
  BY RecordInvStep
<1>2. RecordInv => RecordsAgree
  <2> SUFFICES ASSUME RecordInv PROVE RecordsAgree
    OBVIOUS
  <2>1. Typed /\ NoInnocentHunted /\ AgreeInv
    BY DEF RecordInv, HuntInv
  <2>2. wanted \subseteq Online
    BY <2>1, CrimesConstants DEF NoInnocentHunted, Typed, Online
  <2>3. TypeOK
    BY <2>1, <2>2 DEF Typed, TypeOK, Good
  <2>4. \A c \in Chars : CrimesCount(crimes[c]) /\ CrimesCount(row[c])
    BY <2>1 DEF Typed, Good
  <2> QED BY <2>1, <2>3, <2>4 DEF RecordsAgree, AgreeInv
<1> QED BY <1>1, <1>2, RecordInit, PTL DEF Spec

-----------------------------------------------------------------------------
(* Gold. *)

\* what requests bring back, or have brought back already
Awaited(q) == SumFunction([i \in 1 .. Len(q) |-> Asked(q[i])])
Owed(r)    == SumFunction([i \in 1 .. Len(r) |-> Back(r[i])])

LEMMA Amounts ==
    /\ \A m \in Request : Asked(m) \in Int
    /\ \A m \in Reply : Back(m) \in Int
BY Messages DEF Asked, Back

LEMMA AwaitedIs ==
    ASSUME NEW q \in Seq(Request), NEW f, \A i \in 1 .. Len(q) : f[i] = Asked(q[i])
    PROVE  /\ Awaited(q) = SumFunctionOnSet(f, 1 .. Len(q))
           /\ Terms(f, 1 .. Len(q)) /\ Awaited(q) \in Int
<1> DEFINE N == 1 .. Len(q)
           g == [i \in N |-> Asked(q[i])]
<1>1. IsFiniteSet(N)
  BY FS_Interval, LenProperties
<1>2. Awaited(q) = SumFunctionOnSet(g, N)
  BY DEF Awaited, SumFunction
<1>3. \A i \in N : f[i] = g[i]
  OBVIOUS
<1>4. Terms(f, N)
  <2> SUFFICES ASSUME NEW i \in N PROVE f[i] \in Int
    BY DEF Terms
  <2>1. q[i] \in Request
    BY ElementOfSeq
  <2> QED BY <2>1, Amounts
<1> HIDE DEF g, N
<1>5. SumFunctionOnSet(f, N) = SumFunctionOnSet(g, N)
  BY ONLY <1>1, <1>3, SumSame
<1>6. SumFunctionOnSet(f, N) \in Int
  BY ONLY <1>1, <1>4, SumInt
<1> QED BY <1>2, <1>4, <1>5, <1>6 DEF N

LEMMA OwedIs ==
    ASSUME NEW q \in Seq(Reply), NEW f, \A i \in 1 .. Len(q) : f[i] = Back(q[i])
    PROVE  /\ Owed(q) = SumFunctionOnSet(f, 1 .. Len(q))
           /\ Terms(f, 1 .. Len(q)) /\ Owed(q) \in Int
<1> DEFINE N == 1 .. Len(q)
           g == [i \in N |-> Back(q[i])]
<1>1. IsFiniteSet(N)
  BY FS_Interval, LenProperties
<1>2. Owed(q) = SumFunctionOnSet(g, N)
  BY DEF Owed, SumFunction
<1>3. \A i \in N : f[i] = g[i]
  OBVIOUS
<1>4. Terms(f, N)
  <2> SUFFICES ASSUME NEW i \in N PROVE f[i] \in Int
    BY DEF Terms
  <2>1. q[i] \in Reply
    BY ElementOfSeq
  <2> QED BY <2>1, Amounts
<1> HIDE DEF g, N
<1>5. SumFunctionOnSet(f, N) = SumFunctionOnSet(g, N)
  BY ONLY <1>1, <1>3, SumSame
<1>6. SumFunctionOnSet(f, N) \in Int
  BY ONLY <1>1, <1>4, SumInt
<1> QED BY <1>2, <1>4, <1>5, <1>6 DEF N

LEMMA AwaitedSame ==
    ASSUME NEW q \in Seq(Request), NEW p \in Seq(Request), Len(p) = Len(q),
           \A i \in 1 .. Len(q) : Asked(p[i]) = Asked(q[i])
    PROVE  Awaited(p) = Awaited(q)
<1> DEFINE f == [i \in 1 .. Len(q) |-> Asked(q[i])]
<1>1. \A i \in 1 .. Len(q) : f[i] = Asked(q[i])
  OBVIOUS
<1>2. \A i \in 1 .. Len(p) : f[i] = Asked(p[i])
  BY <1>1
<1> HIDE DEF f
<1>3. Awaited(q) = SumFunctionOnSet(f, 1 .. Len(q))
  BY <1>1, AwaitedIs
<1>4. Awaited(p) = SumFunctionOnSet(f, 1 .. Len(p))
  BY <1>2, AwaitedIs
<1> QED BY <1>3, <1>4

LEMMA OwedSame ==
    ASSUME NEW q \in Seq(Reply), NEW p \in Seq(Reply), Len(p) = Len(q),
           \A i \in 1 .. Len(q) : Back(p[i]) = Back(q[i])
    PROVE  Owed(p) = Owed(q)
<1> DEFINE f == [i \in 1 .. Len(q) |-> Back(q[i])]
<1>1. \A i \in 1 .. Len(q) : f[i] = Back(q[i])
  OBVIOUS
<1>2. \A i \in 1 .. Len(p) : f[i] = Back(p[i])
  BY <1>1
<1> HIDE DEF f
<1>3. Owed(q) = SumFunctionOnSet(f, 1 .. Len(q))
  BY <1>1, OwedIs
<1>4. Owed(p) = SumFunctionOnSet(f, 1 .. Len(p))
  BY <1>2, OwedIs
<1> QED BY <1>3, <1>4

LEMMA AwaitedMore ==
    ASSUME NEW q \in Seq(Request), NEW m \in Request
    PROVE  Awaited(Append(q, m)) = Awaited(q) + Asked(m)
<1> DEFINE n == Len(q)
           s == Append(q, m)
<1>1. /\ s \in Seq(Request) /\ Len(s) = n + 1 /\ s[n + 1] = m /\ n \in Nat
      /\ \A i \in 1 .. n : s[i] = q[i]
  BY AppendProperties, LenProperties
<1> DEFINE e == [i \in 1 .. n + 1 |-> Asked(s[i])]
<1>2. \A i \in 1 .. n + 1 : e[i] = Asked(s[i])
  OBVIOUS
<1> HIDE DEF s, e
<1>3. /\ Awaited(s) = SumFunctionOnSet(e, 1 .. n + 1) /\ Terms(e, 1 .. n + 1)
  BY <1>1, <1>2, AwaitedIs
<1>4. \A i \in 1 .. n : e[i] = Asked(q[i])
  <2> SUFFICES ASSUME NEW i \in 1 .. n PROVE e[i] = Asked(q[i])
    OBVIOUS
  <2>1. i \in 1 .. n + 1 /\ s[i] = q[i]
    BY <1>1
  <2> QED BY <1>2, <2>1
<1>5. Awaited(q) = SumFunctionOnSet(e, 1 .. n)
  BY <1>4, AwaitedIs
<1> HIDE DEF n
<1>6. n \in Nat /\ \A i \in 1 .. n : e[i] = e[i]
  BY <1>1
<1>7. SumFunctionOnSet(e, 1 .. n + 1) = SumFunctionOnSet(e, 1 .. n) + e[n + 1]
  BY ONLY <1>3, <1>6, SumLonger
<1>8. e[n + 1] = Asked(m)
  BY <1>1, <1>2
<1> QED BY <1>3, <1>5, <1>7, <1>8 DEF s

LEMMA OwedMore ==
    ASSUME NEW q \in Seq(Reply), NEW m \in Reply
    PROVE  Owed(Append(q, m)) = Owed(q) + Back(m)
<1> DEFINE n == Len(q)
           s == Append(q, m)
<1>1. /\ s \in Seq(Reply) /\ Len(s) = n + 1 /\ s[n + 1] = m /\ n \in Nat
      /\ \A i \in 1 .. n : s[i] = q[i]
  BY AppendProperties, LenProperties
<1> DEFINE e == [i \in 1 .. n + 1 |-> Back(s[i])]
<1>2. \A i \in 1 .. n + 1 : e[i] = Back(s[i])
  OBVIOUS
<1> HIDE DEF s, e
<1>3. /\ Owed(s) = SumFunctionOnSet(e, 1 .. n + 1) /\ Terms(e, 1 .. n + 1)
  BY <1>1, <1>2, OwedIs
<1>4. \A i \in 1 .. n : e[i] = Back(q[i])
  <2> SUFFICES ASSUME NEW i \in 1 .. n PROVE e[i] = Back(q[i])
    OBVIOUS
  <2>1. i \in 1 .. n + 1 /\ s[i] = q[i]
    BY <1>1
  <2> QED BY <1>2, <2>1
<1>5. Owed(q) = SumFunctionOnSet(e, 1 .. n)
  BY <1>4, OwedIs
<1> HIDE DEF n
<1>6. n \in Nat /\ \A i \in 1 .. n : e[i] = e[i]
  BY <1>1
<1>7. SumFunctionOnSet(e, 1 .. n + 1) = SumFunctionOnSet(e, 1 .. n) + e[n + 1]
  BY ONLY <1>3, <1>6, SumLonger
<1>8. e[n + 1] = Back(m)
  BY <1>1, <1>2
<1> QED BY <1>3, <1>5, <1>7, <1>8 DEF s

LEMMA TailParts ==
    ASSUME NEW R, NEW q \in Seq(R), q # <<>>
    PROVE  \E n \in Nat : /\ Len(q) = n + 1 /\ Tail(q) \in Seq(R) /\ Len(Tail(q)) = n
                          /\ \A i \in 1 .. n : Tail(q)[i] = q[i + 1]
<1>1. Len(q) \in Nat /\ Len(q) # 0
  BY LenProperties, EmptySeq
<1>2. Tail(q) \in Seq(R) /\ Len(Tail(q)) = Len(q) - 1
  BY HeadTailProperties
<1>3. \A i \in 1 .. Len(Tail(q)) : Tail(q)[i] = q[i + 1]
  BY HeadTailProperties
<1> PICK n : n = Len(q) - 1
  OBVIOUS
<1>4. n \in Nat /\ Len(q) = n + 1
  BY <1>1
<1> QED BY <1>2, <1>3, <1>4

LEMMA AwaitedTail ==
    ASSUME NEW q \in Seq(Request), q # <<>>
    PROVE  Awaited(q) = Asked(q[1]) + Awaited(Tail(q))
<1> DEFINE t == Tail(q)
<1>1. PICK n \in Nat : /\ Len(q) = n + 1 /\ t \in Seq(Request) /\ Len(t) = n
                       /\ \A i \in 1 .. n : t[i] = q[i + 1]
  BY TailParts
<1> HIDE DEF t
<1> DEFINE f == [i \in 1 .. n + 1 |-> Asked(q[i])]
           e == [i \in 1 .. n |-> Asked(t[i])]
<1>2. \A i \in 1 .. n + 1 : f[i] = Asked(q[i])
  OBVIOUS
<1>3. \A i \in 1 .. n : e[i] = Asked(t[i])
  OBVIOUS
<1> HIDE DEF f, e
<1>4. Awaited(q) = SumFunctionOnSet(f, 1 .. n + 1) /\ Terms(f, 1 .. n + 1)
  BY <1>1, <1>2, AwaitedIs
<1>5. Awaited(t) = SumFunctionOnSet(e, 1 .. n)
  BY <1>1, <1>3, AwaitedIs
<1>6. \A i \in 1 .. n : e[i] = f[i + 1]
  <2> SUFFICES ASSUME NEW i \in 1 .. n PROVE e[i] = f[i + 1]
    OBVIOUS
  <2>1. i + 1 \in 1 .. n + 1 /\ t[i] = q[i + 1]
    BY <1>1
  <2> QED BY <1>2, <1>3, <2>1
<1>7. SumFunctionOnSet(f, 1 .. n + 1) = f[1] + SumFunctionOnSet(e, 1 .. n)
  BY ONLY n \in Nat, <1>4, <1>6, SumShorter
<1>8. f[1] = Asked(q[1])
  BY <1>2
<1> QED BY <1>4, <1>5, <1>7, <1>8 DEF t

LEMMA OwedTail ==
    ASSUME NEW q \in Seq(Reply), q # <<>>
    PROVE  Owed(q) = Back(q[1]) + Owed(Tail(q))
<1> DEFINE t == Tail(q)
<1>1. PICK n \in Nat : /\ Len(q) = n + 1 /\ t \in Seq(Reply) /\ Len(t) = n
                       /\ \A i \in 1 .. n : t[i] = q[i + 1]
  BY TailParts
<1> HIDE DEF t
<1> DEFINE f == [i \in 1 .. n + 1 |-> Back(q[i])]
           e == [i \in 1 .. n |-> Back(t[i])]
<1>2. \A i \in 1 .. n + 1 : f[i] = Back(q[i])
  OBVIOUS
<1>3. \A i \in 1 .. n : e[i] = Back(t[i])
  OBVIOUS
<1> HIDE DEF f, e
<1>4. Owed(q) = SumFunctionOnSet(f, 1 .. n + 1) /\ Terms(f, 1 .. n + 1)
  BY <1>1, <1>2, OwedIs
<1>5. Owed(t) = SumFunctionOnSet(e, 1 .. n)
  BY <1>1, <1>3, OwedIs
<1>6. \A i \in 1 .. n : e[i] = f[i + 1]
  <2> SUFFICES ASSUME NEW i \in 1 .. n PROVE e[i] = f[i + 1]
    OBVIOUS
  <2>1. i + 1 \in 1 .. n + 1 /\ t[i] = q[i + 1]
    BY <1>1
  <2> QED BY <1>2, <1>3, <2>1
<1>7. SumFunctionOnSet(f, 1 .. n + 1) = f[1] + SumFunctionOnSet(e, 1 .. n)
  BY ONLY n \in Nat, <1>4, <1>6, SumShorter
<1>8. f[1] = Back(q[1])
  BY <1>2
<1> QED BY <1>4, <1>5, <1>7, <1>8 DEF t

LEMMA AwaitedWrites ==
    ASSUME NEW q \in Seq(Request), NEW ws, NEW D, AreWrites(ws, D)
    PROVE  Awaited(q \o ws) = Awaited(q)
<1> DEFINE n == Len(q)
           k == Len(ws)
           s == q \o ws
<1>1. ws \in Seq(Request) /\ \A i \in 1 .. k : Asked(ws[i]) = 0
  BY DEF AreWrites, Asked
<1>2. /\ s \in Seq(Request) /\ Len(s) = n + k
      /\ \A i \in 1 .. n + k : s[i] = IF i <= n THEN q[i] ELSE ws[i - n]
  BY <1>1, ConcatProperties
<1>3. n \in Nat /\ k \in Nat
  BY <1>1, LenProperties
<1> DEFINE e == [i \in 1 .. n + k |-> Asked(s[i])]
<1>4. \A i \in 1 .. n + k : e[i] = Asked(s[i])
  OBVIOUS
<1> HIDE DEF s, e
<1>5. Awaited(s) = SumFunctionOnSet(e, 1 .. n + k)
  BY <1>2, <1>4, AwaitedIs
<1>6. \A i \in 1 .. n : e[i] = Asked(q[i])
  <2> HIDE DEF n, k
  <2> SUFFICES ASSUME NEW i \in 1 .. n PROVE e[i] = Asked(q[i])
    OBVIOUS
  <2>1. i \in 1 .. n + k /\ i <= n
    BY <1>3
  <2> QED BY <1>2, <1>4, <2>1
<1>7. \A i \in 1 .. n + k : i > n => e[i] = 0
  <2> HIDE DEF n, k
  <2> SUFFICES ASSUME NEW i \in 1 .. n + k, i > n PROVE e[i] = 0
    OBVIOUS
  <2>1. ~(i <= n) /\ i - n \in 1 .. k
    BY <1>3
  <2> QED BY <1>1, <1>2, <1>4, <2>1
<1>8. Awaited(q) = SumFunctionOnSet(e, 1 .. n) /\ Terms(e, 1 .. n)
  BY <1>6, AwaitedIs
<1> HIDE DEF n, k
<1>9. \A i \in 1 .. n : e[i] = e[i]
  OBVIOUS
<1>10. SumFunctionOnSet(e, 1 .. n + k) = SumFunctionOnSet(e, 1 .. n)
  BY ONLY <1>3, <1>7, <1>8, <1>9, SumZeros
<1> QED BY <1>5, <1>8, <1>10 DEF s

Mine == SumFunctionOnSet(Held, Chars)

LEMMA WorthIs ==
    ASSUME HuntInv
    PROVE  /\ Worth = Mine + Owed(rep) + Awaited(req)
           /\ Mine \in Int /\ Owed(rep) \in Int /\ Awaited(req) \in Int
           /\ IsFiniteSet(Chars) /\ Terms(Held, Chars)
           /\ \A c \in Chars : /\ Held[c] = gold[c] + Pending(c).bounty
                               /\ gold[c] \in Nat /\ Pending(c).bounty \in Nat
<1>1. /\ gold \in [Chars -> Nat] /\ row \in [Chars -> Good]
      /\ req \in Seq(Request) /\ rep \in Seq(Reply)
  BY DEF HuntInv, Typed
<1>2. IsFiniteSet(Chars)
  BY CrimesConstants
<1>3. \A c \in Chars : Pending(c).bounty \in Nat
  BY <1>1, LaterGood, GoodFields DEF Pending
<1>4. \A c \in Chars : Held[c] = gold[c] + Pending(c).bounty
  BY DEF Held
<1>5. Terms(Held, Chars)
  <2> SUFFICES ASSUME NEW c \in Chars PROVE Held[c] \in Int
    BY DEF Terms
  <2>1. gold[c] \in Nat /\ Pending(c).bounty \in Nat
    BY <1>1, <1>3
  <2> QED BY <1>4, <2>1
<1>6. Mine \in Int
  BY <1>2, <1>5, SumInt DEF Mine
<1>7. Owed(rep) \in Int
  <2> DEFINE f == [i \in 1 .. Len(rep) |-> Back(rep[i])]
  <2>1. \A i \in 1 .. Len(rep) : f[i] = Back(rep[i])
    OBVIOUS
  <2> HIDE DEF f
  <2> QED BY <1>1, <2>1, OwedIs
<1>8. Awaited(req) \in Int
  <2> DEFINE f == [i \in 1 .. Len(req) |-> Asked(req[i])]
  <2>1. \A i \in 1 .. Len(req) : f[i] = Asked(req[i])
    OBVIOUS
  <2> HIDE DEF f
  <2> QED BY <1>1, <2>1, AwaitedIs
<1>9. Worth = Mine + Owed(rep) + Awaited(req)
  <2>1. SumFunction(Held) = Mine
    BY DEF SumFunction, Held, Mine
  <2> QED BY <2>1 DEF Worth, Owed, Awaited
<1> QED BY <1>1, <1>2, <1>3, <1>4, <1>5, <1>6, <1>7, <1>8, <1>9

\* the same of the next state
LEMMA NextWorthIs ==
    ASSUME HuntInv'
    PROVE  /\ Worth' = Mine' + Owed(rep') + Awaited(req')
           /\ Mine' \in Int /\ Owed(rep') \in Int /\ Awaited(req') \in Int
           /\ Terms(Held', Chars)
           /\ \A c \in Chars : /\ Held'[c] = gold'[c] + Pending(c)'.bounty
                               /\ gold'[c] \in Nat /\ Pending(c)'.bounty \in Nat
<1>1. /\ gold' \in [Chars -> Nat] /\ row' \in [Chars -> Good]
      /\ req' \in Seq(Request) /\ rep' \in Seq(Reply)
  BY DEF HuntInv, Typed
<1>2. IsFiniteSet(Chars)
  BY CrimesConstants
<1>3. \A c \in Chars : Pending(c)'.bounty \in Nat
  <2> PICK q : q = req'
    OBVIOUS
  <2> SUFFICES ASSUME NEW c \in Chars PROVE Pending(c)'.bounty \in Nat
    OBVIOUS
  <2> PICK r : r = row'[c]
    OBVIOUS
  <2>1. q \in Seq(Request) /\ r \in Good
    BY <1>1
  <2>2. Later(r, q, c) \in Good
    BY ONLY <2>1, LaterGood
  <2>3. Later(r, q, c).bounty \in Nat
    BY <2>2, GoodFields
  <2> QED BY <2>3 DEF Pending
<1>4. \A c \in Chars : Held'[c] = gold'[c] + Pending(c)'.bounty
  BY DEF Held
<1>5. Terms(Held', Chars)
  <2> SUFFICES ASSUME NEW c \in Chars PROVE Held'[c] \in Int
    BY DEF Terms
  <2>1. gold'[c] \in Nat /\ Pending(c)'.bounty \in Nat
    BY <1>1, <1>3
  <2> QED BY <1>4, <2>1
<1>6. Mine' \in Int
  <2> PICK h : h = Held'
    OBVIOUS
  <2>1. Terms(h, Chars)
    BY <1>5
  <2>2. SumFunctionOnSet(h, Chars) \in Int
    BY ONLY <1>2, <2>1, SumInt
  <2> QED BY <2>2 DEF Mine
<1>7. Owed(rep') \in Int
  <2> PICK r : r = rep'
    OBVIOUS
  <2>1. r \in Seq(Reply)
    BY <1>1
  <2> DEFINE f == [i \in 1 .. Len(r) |-> Back(r[i])]
  <2>2. \A i \in 1 .. Len(r) : f[i] = Back(r[i])
    OBVIOUS
  <2> HIDE DEF f
  <2>3. Owed(r) \in Int
    BY <2>1, <2>2, OwedIs
  <2> QED BY <2>3
<1>8. Awaited(req') \in Int
  <2> PICK r : r = req'
    OBVIOUS
  <2>1. r \in Seq(Request)
    BY <1>1
  <2> DEFINE f == [i \in 1 .. Len(r) |-> Asked(r[i])]
  <2>2. \A i \in 1 .. Len(r) : f[i] = Asked(r[i])
    OBVIOUS
  <2> HIDE DEF f
  <2>3. Awaited(r) \in Int
    BY <2>1, <2>2, AwaitedIs
  <2> QED BY <2>3
<1>9. Worth' = Mine' + Owed(rep') + Awaited(req')
  <2>1. SumFunction(Held)' = Mine'
    BY DEF SumFunction, Held, Mine
  <2> QED BY <2>1 DEF Worth, Owed, Awaited
<1> QED BY <1>1, <1>3, <1>4, <1>5, <1>6, <1>7, <1>8, <1>9

\* nobody's gold and nobody's bounty changes
LEMMA MineSame ==
    ASSUME HuntInv, HuntInv',
           \A d \in Chars : gold'[d] = gold[d] /\ Pending(d)'.bounty = Pending(d).bounty
    PROVE  Mine' = Mine
<1>1. IsFiniteSet(Chars)
  BY WorthIs
<1> PICK f : f = Held
  OBVIOUS
<1> PICK e : e = Held'
  OBVIOUS
<1>2. \A d \in Chars : e[d] = f[d]
  <2> SUFFICES ASSUME NEW d \in Chars PROVE e[d] = f[d]
    OBVIOUS
  <2>1. f[d] = gold[d] + Pending(d).bounty /\ e[d] = gold'[d] + Pending(d)'.bounty
    BY DEF Held
  <2> QED BY <2>1
<1>3. SumFunctionOnSet(e, Chars) = SumFunctionOnSet(f, Chars)
  BY ONLY <1>1, <1>2, SumSame
<1> QED BY <1>3 DEF Mine

\* somebody's changes by a, then somebody's changes by b
LEMMA MineMoved ==
    ASSUME HuntInv, HuntInv', NEW c \in Chars, NEW x \in Chars, NEW a \in Int, NEW b \in Int,
           \A d \in Chars : Held'[d] = Held[d] + (IF d = c THEN a ELSE 0) + (IF d = x THEN b ELSE 0)
    PROVE  Mine' = Mine + a + b
<1>1. IsFiniteSet(Chars) /\ Terms(Held, Chars) /\ Terms(Held', Chars)
  BY WorthIs, NextWorthIs
<1> PICK f : f = Held
  OBVIOUS
<1> PICK e : e = Held'
  OBVIOUS
<1> DEFINE g == [d \in Chars |-> IF d = c THEN f[d] + a ELSE f[d]]
<1>2. IsFiniteSet(Chars) /\ Terms(f, Chars) /\ Terms(e, Chars) /\ Terms(g, Chars)
  BY <1>1 DEF Terms
<1>3. g[c] = f[c] + a /\ \A d \in Chars : d # c => g[d] = f[d]
  OBVIOUS
<1>4. /\ e[x] = g[x] + b
      /\ \A d \in Chars : d # x => e[d] = g[d]
  <2>1. \A d \in Chars : e[d] = f[d] + (IF d = c THEN a ELSE 0) + (IF d = x THEN b ELSE 0)
    OBVIOUS
  <2>2. \A d \in Chars : f[d] \in Int
    BY <1>2 DEF Terms
  <2> QED BY <2>1, <2>2
<1>5. f[c] \in Int /\ g[x] \in Int
  BY <1>2 DEF Terms
<1> HIDE DEF g
<1>6. SumFunctionOnSet(g, Chars) = SumFunctionOnSet(f, Chars) + (g[c] - f[c])
  <2>1. \A d \in Chars : d # c => g[d] = f[d]
    BY <1>3
  <2> QED BY ONLY <1>2, <2>1, c \in Chars, SumChanged
<1>7. SumFunctionOnSet(e, Chars) = SumFunctionOnSet(g, Chars) + (e[x] - g[x])
  <2>1. \A d \in Chars : d # x => e[d] = g[d]
    BY <1>4
  <2> QED BY ONLY <1>2, <2>1, x \in Chars, SumChanged
<1>8. SumFunctionOnSet(f, Chars) \in Int /\ SumFunctionOnSet(g, Chars) \in Int
  BY ONLY <1>2, SumInt
<1>9. SumFunctionOnSet(e, Chars) = SumFunctionOnSet(f, Chars) + a + b
  BY <1>3, <1>4, <1>5, <1>6, <1>7, <1>8
<1> QED BY <1>9 DEF Mine

\* the requests are written records: what is awaited stays
LEMMA WrittenAwaits ==
    ASSUME HuntInv, Writing
    PROVE  Awaited(req') = Awaited(req) /\ Owed(rep') = Owed(rep)
<1>1. PICK ws : Written(ws)
  BY DEF Writing
<1> PICK D : D = crimes'
  OBVIOUS
<1>2. AreWrites(ws, D) /\ req' = req \o ws /\ rep' = rep
  BY <1>1 DEF Written
<1>3. req \in Seq(Request)
  BY DEF HuntInv, Typed
<1>4. Awaited(req \o ws) = Awaited(req)
  BY ONLY <1>2, <1>3, AwaitedWrites
<1> QED BY <1>2, <1>4

\* what the row of a character will be, by what it has in memory
LEMMA WrittenPending ==
    ASSUME RecordInv, RecordInv', Writing, NEW c \in Chars
    PROVE  \/ at[c] = In /\ Pending(c) = crimes[c] /\ Pending(c)' = crimes'[c]
           \/ at[c] # In /\ Pending(c)' = Pending(c)
<1>1. PICK ws : Written(ws)
  BY DEF Writing
<1>2. at' = at /\ \A d \in Chars : at[d] # In => Pending(d)' = Pending(d)
  BY <1>1, WrittenInv DEF Written
<1> QED BY <1>2 DEF RecordInv, AgreeInv

\* records change, bounties and gold do not
LEMMA WrittenWorth ==
    ASSUME RecordInv, RecordInv', Writing, gold' = gold,
           \A c \in Chars : at[c] = In => crimes'[c].bounty = crimes[c].bounty
    PROVE  Worth' = Worth
<1>1. HuntInv /\ HuntInv'
  BY DEF RecordInv
<1>2. \A d \in Chars : gold'[d] = gold[d] /\ Pending(d)'.bounty = Pending(d).bounty
  BY WrittenPending
<1>3. Mine' = Mine
  BY <1>1, <1>2, MineSame
<1>4. Awaited(req') = Awaited(req) /\ Owed(rep') = Owed(rep)
  BY <1>1, WrittenAwaits
<1> QED BY <1>1, <1>3, <1>4, WorthIs, NextWorthIs

LEMMA RobWorth ==
    ASSUME RecordInv, RecordInv', NEW c \in Chars, Rob(c)
    PROVE  Worth' = Worth
<1>1. HuntInv /\ crimes \in [Chars -> Good]
  BY DEF RecordInv, HuntInv, Typed
<1>2. Writing
  BY <1>1, RobWrites DEF Writing
<1>3. gold' = gold
      /\ crimes' = [d \in Chars |-> IF Contains(<<c>>, d) THEN [crimes EXCEPT ![c] = Theft(@)][d]
                                    ELSE crimes[d]]
  BY DEF Rob, Update
<1>4. Theft(crimes[c]).bounty = crimes[c].bounty
  BY <1>1 DEF Theft, Good, Crime
<1>5. ASSUME NEW d \in Chars PROVE crimes'[d].bounty = crimes[d].bounty
  BY <1>1, <1>3, <1>4
<1> QED BY <1>2, <1>3, <1>5, WrittenWorth

LEMMA KillInnocentWorth ==
    ASSUME RecordInv, RecordInv', NEW v \in Chars, NEW K \in SUBSET Chars,
           NEW order \in SetToSeqs(K), Die(v, order), KillInnocent(v, order)
    PROVE  Worth' = Worth
<1>1. HuntInv /\ crimes \in [Chars -> Good]
  BY DEF RecordInv, HuntInv, Typed
<1>2. Writing
  BY <1>1, KillInnocentWrites DEF Writing
<1>3. gold' = gold
      /\ crimes' = [d \in Chars |-> IF Contains(order, d) THEN [c \in Chars |-> Murder(crimes[c])][d]
                                    ELSE crimes[d]]
  BY DEF KillInnocent, Update
<1>4. \A d \in Chars : Murder(crimes[d]).bounty = crimes[d].bounty
  BY <1>1 DEF Murder, Good, Crime
<1>5. ASSUME NEW d \in Chars PROVE crimes'[d].bounty = crimes[d].bounty
  BY <1>1, <1>3, <1>4
<1> QED BY <1>2, <1>3, <1>5, WrittenWorth

\* a bounty: gold of c for the head of x
LEMMA BountyOnlineWorth ==
    ASSUME ~Early, RecordInv, RecordInv', NEW c \in Chars, NEW x \in Chars, NEW b \in Bounties,
           BountyOnline(c, x, b)
    PROVE  Worth' = Worth
<1>1. HuntInv /\ HuntInv' /\ crimes \in [Chars -> Good] /\ gold \in [Chars -> Nat] /\ b \in Nat
  BY CrimesConstants DEF RecordInv, HuntInv, Typed
<1>2. Writing
  BY <1>1, BountyWrites DEF Writing
<1>3. /\ gold' = [gold EXCEPT ![c] = @ - b] /\ at[x] = In
      /\ crimes' = [crimes EXCEPT ![x].bounty = @ + b]
  BY DEF BountyOnline
<1>4. crimes[x].bounty \in Nat /\ crimes'[x].bounty = crimes[x].bounty + b
      /\ \A d \in Chars : d # x => crimes'[d] = crimes[d]
  <2>1. crimes[x].bounty \in Nat
    BY <1>1, GoodFields
  <2>2. crimes' = [crimes EXCEPT ![x] = [crimes[x] EXCEPT !.bounty = @ + b]]
    BY <1>1, <1>3
  <2>3. [crimes[x] EXCEPT !.bounty = @ + b].bounty = crimes[x].bounty + b
    BY <1>1 DEF Good, Crime
  <2> QED BY <1>1, <2>1, <2>2, <2>3
<1>5. ASSUME NEW d \in Chars
      PROVE  Held'[d] = Held[d] + (IF d = c THEN 0 - b ELSE 0) + (IF d = x THEN b ELSE 0)
  <2>1. /\ Held[d] = gold[d] + Pending(d).bounty /\ Held'[d] = gold'[d] + Pending(d)'.bounty
        /\ gold[d] \in Nat /\ Pending(d).bounty \in Nat
    BY <1>1, WorthIs, NextWorthIs
  <2>2. gold'[d] = gold[d] + (IF d = c THEN 0 - b ELSE 0)
    BY <1>1, <1>3, <2>1
  <2>3. Pending(d)'.bounty = Pending(d).bounty + (IF d = x THEN b ELSE 0)
    <3>1. \/ at[d] = In /\ Pending(d) = crimes[d] /\ Pending(d)' = crimes'[d]
          \/ at[d] # In /\ Pending(d)' = Pending(d)
      BY <1>2, WrittenPending
    <3>2. CASE d = x
      <4>1. Pending(d) = crimes[x] /\ Pending(d)' = crimes'[x]
        BY <1>3, <3>1, <3>2
      <4>2. Pending(d)'.bounty = Pending(d).bounty + b
        BY <1>4, <4>1
      <4> QED BY <3>2, <4>2
    <3>3. CASE d # x
      <4>1. Pending(d)' = Pending(d)
        BY <1>4, <3>1, <3>3
      <4> QED BY <2>1, <3>3, <4>1
    <3> QED BY <3>2, <3>3
  <2> HIDE DEF Held
  <2> QED BY <1>1, <2>1, <2>2, <2>3
<1>6. 0 - b \in Int /\ b \in Int
  BY <1>1
<1>7. Mine' = Mine + (0 - b) + b
  BY <1>1, <1>5, <1>6, MineMoved
<1>8. Awaited(req') = Awaited(req) /\ Owed(rep') = Owed(rep)
  BY <1>1, <1>2, WrittenAwaits
<1>9. /\ Worth = Mine + Owed(rep) + Awaited(req) /\ Mine \in Int
      /\ Worth' = Mine' + Owed(rep') + Awaited(req')
  BY <1>1, WorthIs, NextWorthIs
<1> QED BY <1>6, <1>7, <1>8, <1>9

LEMMA BountyOfflineWorth ==
    ASSUME RecordInv, RecordInv', NEW c \in Chars, NEW x \in Chars \union {None},
           NEW b \in Bounties, BountyOffline(c, x, b)
    PROVE  Worth' = Worth
<1> DEFINE m == [type |-> "place", char |-> c, target |-> x, amount |-> b]
<1>1. HuntInv /\ HuntInv' /\ gold \in [Chars -> Nat] /\ b \in Nat /\ req \in Seq(Request)
  BY CrimesConstants DEF RecordInv, HuntInv, Typed
<1>2. gold' = [gold EXCEPT ![c] = @ - b] /\ req' = Append(req, m) /\ rep' = rep
  BY DEF BountyOffline
<1>3. m \in Request /\ Asked(m) = IF x = None THEN b ELSE 0
  BY DEF Request, Asked
<1> HIDE DEF m
<1>4. Awaited(req') = Awaited(req) + (IF x = None THEN b ELSE 0)
  BY <1>1, <1>2, <1>3, AwaitedMore
<1>5. /\ \A d \in Chars : d # x => Pending(d)' = Pending(d)
      /\ x \in Chars => Pending(x)' = [Pending(x) EXCEPT !.bounty = @ + b]
  BY OfflineRec
<1>6. x \in Chars => Pending(x)'.bounty = Pending(x).bounty + b
  <2>1. x \in Chars => Pending(x) \in Good
    BY <1>1, LaterGood DEF RecordInv, HuntInv, Typed, Pending
  <2> QED BY <1>5, <2>1 DEF Good, Crime
<1>7. /\ Worth = Mine + Owed(rep) + Awaited(req) /\ Mine \in Int
      /\ Owed(rep) \in Int /\ Awaited(req) \in Int
      /\ Worth' = Mine' + Owed(rep') + Awaited(req')
  BY <1>1, WorthIs, NextWorthIs
<1>8. ASSUME NEW d \in Chars
      PROVE  Held'[d] = Held[d] + (IF d = c THEN 0 - b ELSE 0) + (IF d = x THEN b ELSE 0)
  <2>1. /\ Held[d] = gold[d] + Pending(d).bounty /\ Held'[d] = gold'[d] + Pending(d)'.bounty
        /\ gold[d] \in Nat /\ Pending(d).bounty \in Nat
    BY <1>1, WorthIs, NextWorthIs
  <2>2. gold'[d] = gold[d] + (IF d = c THEN 0 - b ELSE 0)
    BY <1>1, <1>2, <2>1
  <2>3. Pending(d)'.bounty = Pending(d).bounty + (IF d = x THEN b ELSE 0)
    BY <1>1, <1>5, <1>6, <2>1
  <2> HIDE DEF Held
  <2> QED BY <1>1, <2>1, <2>2, <2>3
<1>9. 0 - b \in Int /\ b \in Int /\ 0 \in Int
  BY <1>1
<1>10. CASE x \in Chars
  <2>1. Mine' = Mine + (0 - b) + b
    BY <1>1, <1>8, <1>9, <1>10, MineMoved
  <2>2. x # None
    BY <1>10, CrimesConstants
  <2> QED BY <1>2, <1>4, <1>7, <1>9, <2>1, <2>2
<1>11. CASE x = None
  <2>1. \A d \in Chars : Held'[d] = Held[d] + (IF d = c THEN 0 - b ELSE 0) + (IF d = c THEN 0 ELSE 0)
    <3> SUFFICES ASSUME NEW d \in Chars
                 PROVE Held'[d] = Held[d] + (IF d = c THEN 0 - b ELSE 0) + (IF d = c THEN 0 ELSE 0)
      OBVIOUS
    <3>1. d # x
      BY <1>11, CrimesConstants
    <3> QED BY <1>8, <3>1
  <2>2. Mine' = Mine + (0 - b) + 0
    BY <1>1, <1>9, <2>1, MineMoved
  <2> QED BY <1>2, <1>4, <1>7, <1>9, <1>11, <2>2
<1> QED BY <1>10, <1>11

LEMMA ChooseWorth ==
    ASSUME RecordInv, RecordInv', NEW c \in Chars, Choose(c)
    PROVE  Worth' = Worth
<1> DEFINE m == [type |-> "get", char |-> c]
<1>1. HuntInv /\ HuntInv' /\ req \in Seq(Request)
  BY DEF RecordInv, HuntInv, Typed
<1>2. gold' = gold /\ req' = Append(req, m) /\ rep' = rep
  BY DEF Choose
<1>3. m \in Request /\ Asked(m) = 0
  BY DEF Request, Asked
<1> HIDE DEF m
<1>4. Awaited(req') = Awaited(req) + 0
  BY <1>1, <1>2, <1>3, AwaitedMore
<1>5. \A d \in Chars : Pending(d)' = Pending(d)
  BY ChooseRec
<1>6. Mine' = Mine
  BY <1>1, <1>2, <1>5, MineSame
<1>7. /\ Worth = Mine + Owed(rep) + Awaited(req) /\ Awaited(req) \in Int
      /\ Worth' = Mine' + Owed(rep') + Awaited(req')
  BY <1>1, WorthIs, NextWorthIs
<1> QED BY <1>2, <1>4, <1>6, <1>7

LEMMA HungUpWorth ==
    ASSUME RecordInv, RecordInv', NEW c \in Chars, HungUp(c)
    PROVE  Worth' = Worth
<1>1. /\ HuntInv /\ HuntInv' /\ req \in Seq(Request) /\ rep \in Seq(Reply)
      /\ req' \in Seq(Request) /\ rep' \in Seq(Reply) /\ gold' = gold
  BY DEF RecordInv, HuntInv, Typed, HungUp
<1>2. /\ \A d \in Chars : Pending(d)' = Pending(d)
      /\ Len(req') = Len(req) /\ \A i \in 1 .. Len(req) : Asked(req'[i]) = Asked(req[i])
      /\ Len(rep') = Len(rep) /\ \A i \in 1 .. Len(rep) : Back(rep'[i]) = Back(rep[i])
  BY <1>1, HungUpRec
<1>3. Mine' = Mine
  BY <1>1, <1>2, MineSame
<1>4. Awaited(req') = Awaited(req)
  <2> PICK p : p = req'
    OBVIOUS
  <2>1. /\ req \in Seq(Request) /\ p \in Seq(Request) /\ Len(p) = Len(req)
        /\ \A i \in 1 .. Len(req) : Asked(p[i]) = Asked(req[i])
    BY <1>1, <1>2
  <2>2. Awaited(p) = Awaited(req)
    BY ONLY <2>1, AwaitedSame
  <2> QED BY <2>2
<1>5. Owed(rep') = Owed(rep)
  <2> PICK p : p = rep'
    OBVIOUS
  <2>1. /\ rep \in Seq(Reply) /\ p \in Seq(Reply) /\ Len(p) = Len(rep)
        /\ \A i \in 1 .. Len(rep) : Back(p[i]) = Back(rep[i])
    BY <1>1, <1>2
  <2>2. Owed(p) = Owed(rep)
    BY ONLY <2>1, OwedSame
  <2> QED BY <2>2
<1> QED BY <1>1, <1>3, <1>4, <1>5, WorthIs, NextWorthIs

\* what a criminal's head brings to those who killed it
LEMMA KillCriminalWorth ==
    ASSUME RecordInv, RecordInv', NEW v \in Chars, NEW K \in SUBSET Chars,
           NEW order \in SetToSeqs(K), Die(v, order), KillCriminal(v, order)
    PROVE  Worth' <= Worth
<1> DEFINE share == IF order = <<>> THEN 0 ELSE crimes[v].bounty \div Len(order)
           paid == IF share = 0 THEN <<>> ELSE order
           P == {c \in Chars : Contains(paid, c)}
<1>1. HuntInv /\ HuntInv' /\ crimes \in [Chars -> Good] /\ gold \in [Chars -> Nat]
  BY DEF RecordInv, HuntInv, Typed
<1>2. Writing
  BY <1>1, KillCriminalWrites DEF Writing
<1>3. /\ gold' = [c \in Chars |-> IF Contains(paid, c) THEN gold[c] + share ELSE gold[c]]
      /\ crimes' = [crimes EXCEPT ![v] = Clear(@)]
  BY DEF KillCriminal
<1>4. /\ order \in Seq(Chars) /\ Len(order) \in Nat /\ at[v] = In
      /\ \A i \in 1 .. Len(order) : order[i] \in Chars /\ order[i] # v
  BY <1>1, Killers
<1>5. PICK b \in Nat : b = crimes[v].bounty
  BY <1>1, GoodFields
<1>6. /\ IsFiniteSet(K) /\ Cardinality(K) \in Nat /\ Len(order) = Cardinality(K)
      /\ \A c \in Chars : Contains(order, c) => c \in K
  <2>1. IsFiniteSet(K) /\ Cardinality(K) \in Nat
    BY CrimesConstants, FS_Subset, FS_CardinalityType
  <2>2. order \in [1 .. Cardinality(K) -> K]
    BY DEF SetToSeqs
  <2> QED BY <1>4, <2>1, <2>2 DEF Contains
<1>7. share \in Nat /\ Cardinality(P) \in Nat /\ Cardinality(P) * share \in Int
      /\ Cardinality(P) * share <= b /\ v \notin P
  <2>1. CASE share = 0
    <3>1. P = {}
      BY <2>1 DEF Contains
    <3>2. Cardinality(P) = 0
      BY <3>1, FS_EmptySet
    <3> HIDE DEF P, share
    <3> QED BY <2>1, <3>1, <3>2
  <2>2. CASE share # 0
    <3>1. order # <<>> /\ share = b \div Len(order)
      BY <1>5, <2>2
    <3>2. Len(order) # 0
      BY <1>4, <3>1
    <3>3. P = {c \in Chars : Contains(order, c)}
      BY <2>2
    <3>4. v \notin P /\ P \subseteq K
      BY <1>4, <1>6, <3>3 DEF Contains
    <3> HIDE DEF P, share
    <3>5. Cardinality(P) \in Nat /\ Cardinality(P) <= Len(order)
      BY <1>6, <3>4, FS_Subset, FS_CardinalityType
    <3> PICK n \in Nat : n = Len(order)
      BY <1>4
    <3> PICK p \in Nat : p = Cardinality(P)
      BY <3>5
    <3>6. n * share <= b /\ share \in Nat
      BY <3>1, <3>2, Shares
    <3>7. p * share <= n * share
      <4>1. p <= n
        BY <3>5
      <4> PICK k \in Nat : n = p + k
        <5>1. n - p \in Nat /\ n = p + (n - p)
          BY <4>1
        <5> QED BY <5>1
      <4>2. (p + k) * share = p * share + k * share
        BY <3>6
      <4>3. k * share \in Nat /\ p * share \in Nat
        BY <3>6
      <4> QED BY <4>2, <4>3
    <3>8. p * share \in Int /\ n * share \in Int
      BY <3>6
    <3>9. p * share <= b
      BY <3>6, <3>7, <3>8
    <3> QED BY <3>4, <3>5, <3>6, <3>8, <3>9
  <2> QED BY <2>1, <2>2
<1>8. /\ crimes'[v].bounty = 0
      /\ \A d \in Chars : d # v => crimes'[d] = crimes[d]
  <2>1. Clear(crimes[v]).bounty = 0
    BY <1>1 DEF Clear, Good, Crime
  <2> QED BY <1>1, <1>3, <2>1
<1>9. \A d \in Chars : gold'[d] = IF d \in P THEN gold[d] + share ELSE gold[d]
  <2> HIDE DEF share, paid
  <2> QED BY <1>3
<1> HIDE DEF share, paid, P
<1>10. ASSUME NEW d \in Chars
       PROVE  Held'[d] = (IF d \in P THEN Held[d] + share ELSE Held[d])
                         + (IF d = v THEN 0 - b ELSE 0)
  <2>1. /\ Held[d] = gold[d] + Pending(d).bounty /\ Held'[d] = gold'[d] + Pending(d)'.bounty
        /\ gold[d] \in Nat /\ Pending(d).bounty \in Nat
    BY <1>1, WorthIs, NextWorthIs
  <2>2. \/ at[d] = In /\ Pending(d) = crimes[d] /\ Pending(d)' = crimes'[d]
        \/ at[d] # In /\ Pending(d)' = Pending(d)
    BY <1>2, WrittenPending
  <2> HIDE DEF Held
  <2>3. CASE d = v
    <3>1. Pending(d).bounty = b /\ Pending(d)'.bounty = 0
      BY <1>4, <1>5, <1>8, <2>2, <2>3
    <3>2. gold'[d] = gold[d] /\ d \notin P
      BY <1>7, <1>9, <2>3
    <3> QED BY <2>1, <2>3, <3>1, <3>2
  <2>4. CASE d # v
    <3>1. Pending(d)' = Pending(d)
      BY <1>8, <2>2, <2>4
    <3>2. CASE d \in P
      BY <1>7, <1>9, <2>1, <2>4, <3>1, <3>2
    <3>3. CASE d \notin P
      BY <1>9, <2>1, <2>4, <3>1, <3>3
    <3> QED BY <3>2, <3>3
  <2> QED BY <2>3, <2>4
<1>11. Mine' = Mine + Cardinality(P) * share - b
  <2>1. IsFiniteSet(Chars) /\ Terms(Held, Chars) /\ Terms(Held', Chars) /\ Mine \in Int
    BY <1>1, WorthIs, NextWorthIs
  <2> PICK f : f = Held
    OBVIOUS
  <2> PICK e : e = Held'
    OBVIOUS
  <2> DEFINE g == [d \in Chars |-> IF d \in P THEN f[d] + share ELSE f[d]]
  <2>2. IsFiniteSet(Chars) /\ Terms(f, Chars) /\ Terms(e, Chars) /\ Terms(g, Chars)
    BY <1>7, <2>1 DEF Terms
  <2>3. \A y \in Chars : g[y] = IF y \in P THEN f[y] + share ELSE f[y]
    OBVIOUS
  <2> HIDE DEF g
  <2>4. P \in SUBSET Chars /\ share \in Int
    BY <1>7 DEF P
  <2>5. SumFunctionOnSet(g, Chars) = SumFunctionOnSet(f, Chars) + Cardinality(P) * share
    BY ONLY <2>2, <2>3, <2>4, SumShared
  <2>6. e[v] = g[v] - b /\ \A y \in Chars : y # v => e[y] = g[y]
    <3>1. \A d \in Chars : e[d] = g[d] + (IF d = v THEN 0 - b ELSE 0)
      BY <1>10, <2>3
    <3>2. \A d \in Chars : g[d] \in Int
      BY <2>2 DEF Terms
    <3> QED BY <3>1, <3>2
  <2>7. SumFunctionOnSet(e, Chars) = SumFunctionOnSet(g, Chars) + (e[v] - g[v])
    <3>1. \A y \in Chars : y # v => e[y] = g[y]
      BY <2>6
    <3> QED BY ONLY <2>2, <3>1, v \in Chars, SumChanged
  <2>8. g[v] \in Int /\ SumFunctionOnSet(f, Chars) \in Int
    BY <2>1, <2>2 DEF Terms, Mine
  <2> PICK k \in Int : k = Cardinality(P) * share
    BY <1>7
  <2>9. SumFunctionOnSet(e, Chars) = SumFunctionOnSet(f, Chars) + k - b
    BY <2>5, <2>6, <2>7, <2>8
  <2> QED BY <2>9 DEF Mine
<1>12. Awaited(req') = Awaited(req) /\ Owed(rep') = Owed(rep)
  BY <1>1, <1>2, WrittenAwaits
<1>13. /\ Worth = Mine + Owed(rep) + Awaited(req) /\ Mine \in Int
       /\ Owed(rep) \in Int /\ Awaited(req) \in Int
       /\ Worth' = Mine' + Owed(rep') + Awaited(req')
  BY <1>1, WorthIs, NextWorthIs
<1> PICK k \in Int : k = Cardinality(P) * share
  BY <1>7
<1>14. k <= b /\ Mine' = Mine + k - b
  BY <1>7, <1>11
<1> QED BY <1>12, <1>13, <1>14

LEMMA DmReceiveWorth ==
    ASSUME RecordInv, RecordInv', DmReceive
    PROVE  Worth' = Worth
<1> DEFINE m == Head(req)
<1>1. /\ req # <<>> /\ req' = Tail(req) /\ rep' = rep \o Answer(m) /\ gold' = gold
  BY DEF DmReceive
<1>2. /\ HuntInv /\ HuntInv' /\ req \in Seq(Request) /\ rep \in Seq(Reply)
      /\ row \in [Chars -> Good]
  BY DEF RecordInv, HuntInv, Typed
<1>3. m = req[1] /\ m \in Request
  BY <1>1, <1>2, Taken
<1> HIDE DEF m
<1>4. Mine' = Mine
  <2>1. \A d \in Chars : Pending(d)' = Pending(d)
    BY DmReceiveRec
  <2> QED BY <1>1, <1>2, <2>1, MineSame
<1>5. Awaited(req) = Asked(m) + Awaited(req')
  BY <1>1, <1>2, <1>3, AwaitedTail
<1>6. Owed(rep') = Owed(rep) + Asked(m)
  <2>0. Owed(rep) \in Int
    BY <1>2, WorthIs
  <2>1. CASE m.type = "get" /\ m.char # None
    <3> DEFINE x == [type |-> "get", char |-> m.char, data |-> row[m.char]]
    <3>1. m.char \in Chars
      BY <1>3, <2>1, Messages
    <3>2. x \in Reply /\ Back(x) = 0
      BY <1>2, <3>1 DEF Reply, Back
    <3>3. rep' = rep \o <<x>>
      BY <1>1, <2>1 DEF Answer
    <3>4. Asked(m) = 0
      BY <2>1 DEF Asked
    <3> HIDE DEF x
    <3>5. rep' = Append(rep, x)
      BY <1>2, <3>2, <3>3, AppendIsConcat
    <3>6. Owed(Append(rep, x)) = Owed(rep) + Back(x)
      BY ONLY <1>2, <3>2, OwedMore
    <3> QED BY <3>2, <3>4, <3>5, <3>6
  <2>2. CASE m.type = "place"
    <3> DEFINE x == [type |-> "place", char |-> m.char, amount |-> m.amount,
                     ok |-> m.target \in Chars]
    <3>1. x \in Reply /\ m.target \in Chars \union {None}
      BY <1>3, <2>2 DEF Request, Reply
    <3>2. Back(x) = Asked(m)
      <4>1. m.target = None <=> m.target \notin Chars
        BY <3>1, CrimesConstants
      <4> QED BY <2>2, <4>1 DEF Back, Asked
    <3>3. rep' = rep \o <<x>>
      BY <1>1, <2>2 DEF Answer
    <3> HIDE DEF x
    <3>4. rep' = Append(rep, x)
      BY <1>2, <3>1, <3>3, AppendIsConcat
    <3>5. Owed(Append(rep, x)) = Owed(rep) + Back(x)
      BY ONLY <1>2, <3>1, OwedMore
    <3> QED BY <3>2, <3>4, <3>5
  <2>3. CASE ~(m.type = "get" /\ m.char # None) /\ m.type # "place"
    <3>1. rep' = rep
      BY <1>1, <1>2, <2>3, ConcatEmptySeq DEF Answer
    <3>2. Asked(m) = 0
      BY <2>3 DEF Asked
    <3> QED BY <2>0, <3>1, <3>2
  <2> QED BY <2>1, <2>2, <2>3
<1>7. /\ Worth = Mine + Owed(rep) + Awaited(req) /\ Mine \in Int
      /\ Owed(rep) \in Int /\ Awaited(req) \in Int /\ Awaited(req') \in Int
      /\ Worth' = Mine' + Owed(rep') + Awaited(req')
  BY <1>2, WorthIs, NextWorthIs
<1>8. Asked(m) \in Int
  BY <1>3, Amounts
<1> QED BY <1>4, <1>5, <1>6, <1>7, <1>8

LEMMA ReceiveWorth ==
    ASSUME RecordInv, RecordInv', Receive
    PROVE  Worth' <= Worth
<1> DEFINE m == Head(rep)
<1>1. /\ rep # <<>> /\ rep' = Tail(rep) /\ (ConfigReply(m) \/ BountyReply(m)) /\ req' = req
  BY DEF Receive
<1>2. /\ HuntInv /\ HuntInv' /\ rep \in Seq(Reply) /\ gold \in [Chars -> Nat]
  BY DEF RecordInv, HuntInv, Typed
<1>3. m = rep[1] /\ m \in Reply
  BY <1>1, <1>2, Taken
<1> HIDE DEF m
<1>4. \A d \in Chars : Pending(d)' = Pending(d)
  BY ReceiveRec
<1>5. Owed(rep) = Back(m) + Owed(rep')
  BY <1>1, <1>2, <1>3, OwedTail
<1>6. /\ Worth = Mine + Owed(rep) + Awaited(req) /\ Mine \in Int
      /\ Owed(rep') \in Int /\ Awaited(req) \in Int
      /\ Worth' = Mine' + Owed(rep') + Awaited(req')
  BY <1>2, WorthIs, NextWorthIs
<1>7. Back(m) \in Nat
  BY <1>3, Messages DEF Back
<1>8. CASE gold' = gold
  <2>1. Mine' = Mine
    BY <1>2, <1>4, <1>8, MineSame
  <2> QED BY <1>1, <1>5, <1>6, <1>7, <2>1
<1>9. CASE BountyReply(m) /\ m.char # None /\ ~m.ok
  <2> PICK c : c = m.char
    OBVIOUS
  <2>1. /\ c \in Chars /\ m.amount \in Nat /\ Back(m) = m.amount
        /\ gold' = [gold EXCEPT ![c] = @ + m.amount]
    BY <1>3, <1>9, Messages DEF BountyReply, Back
  <2> PICK a \in Nat : a = m.amount
    BY <2>1
  <2>2. ASSUME NEW d \in Chars
        PROVE  Held'[d] = Held[d] + (IF d = c THEN a ELSE 0) + (IF d = c THEN 0 ELSE 0)
    <3>1. /\ Held[d] = gold[d] + Pending(d).bounty /\ Held'[d] = gold'[d] + Pending(d)'.bounty
          /\ gold[d] \in Nat /\ Pending(d).bounty \in Nat
      BY <1>2, WorthIs, NextWorthIs
    <3>2. gold'[d] = gold[d] + (IF d = c THEN a ELSE 0)
      BY <1>2, <2>1, <3>1
    <3>3. Pending(d)' = Pending(d)
      BY <1>4
    <3> HIDE DEF Held
    <3> QED BY <3>1, <3>2, <3>3
  <2>3. a \in Int /\ 0 \in Int
    OBVIOUS
  <2>4. Mine' = Mine + a + 0
    BY <1>2, <2>1, <2>2, <2>3, MineMoved
  <2> QED BY <1>1, <1>5, <1>6, <2>1, <2>4
<1> QED BY <1>1, <1>8, <1>9 DEF ConfigReply, BountyReply

(* cmdBounty, the end of die, and the answers to bounties: gold that was     *)
(* paid for a head is on the head, on its way to it, or on its way back, and *)
(* nobody is paid from it twice: what the characters have together with it   *)
(* never gets more.                                                          *)
THEOREM NoMintingHolds ==
    ASSUME ~Early
    PROVE  Spec => NoMinting
<1>1. ASSUME RecordInv, RecordInv', [Next]_vars
      PROVE  [Worth' <= Worth]_vars
  <2>0. HuntInv
    BY <1>1 DEF RecordInv
  <2>1. Worth' = Worth => Worth' <= Worth
    <3>1. Worth \in Int
      BY <2>0, WorthIs
    <3> QED BY <3>1
  <2>2. CASE \E c \in Chars : Act(c)
    <3>1. PICK c \in Chars : Act(c)
      BY <2>2
    <3>2. CASE Choose(c) \/ HungUp(c) \/ Rob(c)
      BY <1>1, <2>1, <3>2, ChooseWorth, HungUpWorth, RobWorth
    <3>3. CASE \E K \in SUBSET Chars : \E order \in SetToSeqs(K) : Die(c, order)
      <4>1. PICK K \in SUBSET Chars : \E order \in SetToSeqs(K) : Die(c, order)
        BY <3>3
      <4>2. PICK order \in SetToSeqs(K) : Die(c, order)
        BY <4>1
      <4>3. KillInnocent(c, order) \/ KillCriminal(c, order)
        BY <4>2 DEF Die
      <4> QED BY <1>1, <2>1, <4>2, <4>3, KillInnocentWorth, KillCriminalWorth
    <3>4. CASE \E b \in Bounties :
                  \/ \E x \in Chars : BountyOnline(c, x, b)
                  \/ \E x \in Chars \union {None} : BountyOffline(c, x, b)
      BY <1>1, <2>1, <3>4, BountyOnlineWorth, BountyOfflineWorth
    <3> QED BY <3>1, <3>2, <3>3, <3>4 DEF Act
  <2>3. CASE DmReceive
    BY <1>1, <2>1, <2>3, DmReceiveWorth
  <2>4. CASE Receive
    BY <1>1, <2>4, ReceiveWorth
  <2> QED BY <1>1, <2>2, <2>3, <2>4 DEF Next
<1>2. RecordInv /\ [Next]_vars => RecordInv'
  BY RecordInvStep
<1> QED BY <1>1, <1>2, RecordInit, PTL DEF Spec, NoMinting
================================================================================
