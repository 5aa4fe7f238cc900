--------------------------- MODULE Belongings_proofs ---------------------------
(***************************************************************************)
(* Ownership and wealth on a game server, for any characters, objects,     *)
(* prices and purses: the two pointers agree, no container is inside       *)
(* itself and every object is in one place or one record (Orderly); gold   *)
(* with what the shop would pay for everything is never made (NoMinting);  *)
(* and nobody's request takes anything from another (HandsOff).            *)
(***************************************************************************)
EXTENDS Belongings, FiniteSetTheorems, WellFoundedInduction, TLAPS

-----------------------------------------------------------------------------
(* Induction, from the minimal elements of a well-founded order. *)

\* what holds of a set when it holds of its proper subsets holds of all
LEMMA SubsetsInduction ==
    ASSUME NEW S, IsFiniteSet(S), NEW T,
           \A s \in SUBSET S : (\A t \in SUBSET s : t # s => t \in T) => s \in T
    PROVE  \A s \in SUBSET S : s \in T
<1> DEFINE F == {s \in SUBSET S : s \notin T}
<1>1. SUFFICES ASSUME F # {} PROVE FALSE
  OBVIOUS
<1>2. FiniteSubsetsOf(S) = SUBSET S
  BY FS_FiniteSubsetsOfFinite
<1>3. IsWellFoundedOn(StrictSubsetOrdering(S), SUBSET S)
  BY <1>2, FS_StrictSubsetOrderingWellFounded
<1>4. F \subseteq SUBSET S
  OBVIOUS
<1> HIDE DEF F
<1>5. PICK s \in F : \A t \in F : ~(<<t, s>> \in StrictSubsetOrdering(S))
  BY <1>1, <1>3, <1>4, WFMin
<1>6. ASSUME NEW t \in SUBSET s, t # s PROVE t \in T
  <2>1. <<t, s>> \in StrictSubsetOrdering(S)
    BY <1>4, <1>6 DEF StrictSubsetOrdering
  <2>2. t \in SUBSET S
    BY <1>4
  <2> QED BY <1>5, <2>1, <2>2 DEF F
<1> QED BY <1>4, <1>5, <1>6 DEF F

-----------------------------------------------------------------------------
(* Sums (SumFunctionOnSet), by their terms. *)

Ch(s) == CHOOSE x \in s : TRUE

LEMMA ChIn == ASSUME NEW s, s # {} PROVE Ch(s) \in s /\ s \ {Ch(s)} \in SUBSET s /\ s \ {Ch(s)} # s
BY DEF Ch

\* the function of which SumFunctionOnSet is a value
Partial(g, f, S) ==
    g = [s \in SUBSET S |-> IF s = {} THEN 0 ELSE f[Ch(s)] + g[s \ {Ch(s)}]]

LEMMA PartialIs ==
    ASSUME NEW f, NEW S, NEW g, Partial(g, f, S)
    PROVE  \A s \in SUBSET S : /\ s = {} => g[s] = 0
                               /\ s # {} => g[s] = f[Ch(s)] + g[s \ {Ch(s)}]
BY DEF Partial

LEMMA PartialsAgree ==
    ASSUME NEW S, IsFiniteSet(S), NEW R \in SUBSET S, NEW f, NEW e,
           \A x \in R : e[x] = f[x],
           NEW g, NEW h, Partial(g, f, S), Partial(h, e, R)
    PROVE  \A s \in SUBSET R : g[s] = h[s]
<1> DEFINE T == {s \in SUBSET R : g[s] = h[s]}
<1>1. IsFiniteSet(R)
  BY FS_Subset
<1>g. \A s \in SUBSET S : s # {} => g[s] = f[Ch(s)] + g[s \ {Ch(s)}]
  BY PartialIs
<1>h. \A s \in SUBSET R : s # {} => h[s] = e[Ch(s)] + h[s \ {Ch(s)}]
  BY PartialIs
<1>2. ASSUME NEW s \in SUBSET R, \A t \in SUBSET s : t # s => t \in T
      PROVE  s \in T
  <2>1. s \in SUBSET S
    OBVIOUS
  <2>2. CASE s = {}
    BY <2>1, <2>2, PartialIs
  <2>3. CASE s # {}
    <3>1. Ch(s) \in s /\ s \ {Ch(s)} \in T
      BY <1>2, <2>3, ChIn
    <3>2. g[s] = f[Ch(s)] + g[s \ {Ch(s)}]
      BY <1>g, <2>1, <2>3
    <3>3. h[s] = e[Ch(s)] + h[s \ {Ch(s)}]
      BY <1>h, <2>3
    <3> QED BY <3>1, <3>2, <3>3
  <2> QED BY <2>2, <2>3
<1> HIDE DEF T
<1>3. \A s \in SUBSET R : s \in T
  BY ONLY <1>1, <1>2, SubsetsInduction
<1> QED BY <1>3 DEF T

LEMMA PartialExists ==
    ASSUME NEW S, IsFiniteSet(S), NEW f
    PROVE  \E g : Partial(g, f, S)
<1> DEFINE T == {s \in SUBSET S : \E g : Partial(g, f, s)}
           of(s) == (CHOOSE g : Partial(g, f, s))[s]
<1>1. ASSUME NEW R \in SUBSET S, \A t \in SUBSET R : t # R => t \in T
      PROVE  R \in T
  <2> DEFINE g == [s \in SUBSET R |-> IF s = {} THEN 0 ELSE f[Ch(s)] + of(s \ {Ch(s)})]
  <2>0. \A s \in SUBSET R : g[s] = IF s = {} THEN 0 ELSE f[Ch(s)] + of(s \ {Ch(s)})
    OBVIOUS
  <2> HIDE DEF g
  <2>1. ASSUME NEW t \in SUBSET R, t # R
        PROVE  g[t] = of(t)
    <3>1. PICK h : Partial(h, f, t) /\ of(t) = h[t]
      <4>1. \E h : Partial(h, f, t)
        BY <1>1, <2>1
      <4> QED BY <4>1
    <3>2. CASE t = {}
      <4>1. t \in SUBSET t
        OBVIOUS
      <4>2. h[t] = 0
        <5>1. Partial(h, f, t)
          BY <3>1
        <5>2. \A s \in SUBSET t : s = {} => h[s] = 0
          BY ONLY <5>1, PartialIs
        <5> QED BY ONLY <3>2, <4>1, <5>2
      <4> HIDE DEF of
      <4> QED BY <2>0, <3>1, <3>2, <4>2
    <3>3. CASE t # {}
      <4> DEFINE u == t \ {Ch(t)}
      <4>1. u \in SUBSET t /\ u \in SUBSET R /\ u # R
        BY <2>1, <3>3, ChIn
      <4>2. PICK k : Partial(k, f, u) /\ of(u) = k[u]
        <5>1. \E k : Partial(k, f, u)
          BY <1>1, <4>1
        <5> QED BY <5>1
      <4>3. IsFiniteSet(t)
        BY FS_Subset
      <4> HIDE DEF of
      <4>4. h[u] = k[u]
        <5> HIDE DEF u
        <5>1. \A x \in u : f[x] = f[x]
          OBVIOUS
        <5>2. \A s \in SUBSET u : h[s] = k[s]
          BY ONLY <3>1, <4>1, <4>2, <4>3, <5>1, PartialsAgree
        <5> QED BY <5>2
      <4>5. h[t] = f[Ch(t)] + h[u]
        BY <3>1, <3>3, PartialIs
      <4>6. g[t] = f[Ch(t)] + of(u)
        BY <2>0, <3>3
      <4> QED BY <3>1, <4>2, <4>4, <4>5, <4>6
    <3> QED BY <3>2, <3>3
  <2>2. \A s \in SUBSET R : s # {} => g[s \ {Ch(s)}] = of(s \ {Ch(s)})
    <3> SUFFICES ASSUME NEW s \in SUBSET R, s # {} PROVE g[s \ {Ch(s)}] = of(s \ {Ch(s)})
      OBVIOUS
    <3>1. s \ {Ch(s)} \in SUBSET R /\ s \ {Ch(s)} # R
      BY ChIn
    <3> HIDE DEF of
    <3> QED BY <2>1, <3>1
  <2>3. Partial(g, f, R)
    <3> HIDE DEF of
    <3>1. \A s \in SUBSET R : g[s] = IF s = {} THEN 0 ELSE f[Ch(s)] + g[s \ {Ch(s)}]
      BY <2>0, <2>2
    <3>2. g = [s \in SUBSET R |-> g[s]]
      BY DEF g
    <3> QED BY <3>1, <3>2 DEF Partial
  <2> QED BY <2>3
<1> HIDE DEF T
<1>2. \A s \in SUBSET S : s \in T
  BY ONLY IsFiniteSet(S), <1>1, SubsetsInduction
<1> QED BY <1>2 DEF T

LEMMA SumOf ==
    ASSUME NEW S, IsFiniteSet(S), NEW f
    PROVE  \E g : Partial(g, f, S) /\ g[S] = SumFunctionOnSet(f, S)
<1> DEFINE c == CHOOSE g : Partial(g, f, S)
<1>1. Partial(c, f, S)
  BY PartialExists
<1>2. SumFunctionOnSet(f, S) = c[S]
  BY DEF SumFunctionOnSet, FoldFunctionOnSet, MapThenFoldSet, Partial, Ch
<1> QED BY <1>1, <1>2

\* a sum of integers, by one of its terms
LEMMA SumEmpty == ASSUME NEW f PROVE SumFunctionOnSet(f, {}) = 0
<1>1. IsFiniteSet({})
  BY FS_EmptySet
<1>2. PICK g : Partial(g, f, {}) /\ g[{}] = SumFunctionOnSet(f, {})
  BY <1>1, SumOf
<1>3. {} \in SUBSET {}
  OBVIOUS
<1>4. g[{}] = 0
  BY ONLY <1>2, <1>3, PartialIs
<1> QED BY <1>2, <1>4

LEMMA SumFirst ==
    ASSUME NEW S, IsFiniteSet(S), S # {}, NEW f
    PROVE  SumFunctionOnSet(f, S) = f[Ch(S)] + SumFunctionOnSet(f, S \ {Ch(S)})
<1> DEFINE R == S \ {Ch(S)}
<1>1. R \in SUBSET S /\ IsFiniteSet(R)
  BY FS_Subset
<1>2. PICK g : Partial(g, f, S) /\ g[S] = SumFunctionOnSet(f, S)
  BY SumOf
<1>3. g[S] = f[Ch(S)] + g[R]
  BY <1>2, PartialIs
<1> HIDE DEF R
<1>4. PICK h : Partial(h, f, R) /\ h[R] = SumFunctionOnSet(f, R)
  BY <1>1, SumOf
<1>5. \A x \in R : f[x] = f[x]
  OBVIOUS
<1>6. \A s \in SUBSET R : g[s] = h[s]
  BY ONLY IsFiniteSet(S), <1>1, <1>2, <1>4, <1>5, PartialsAgree
<1> QED BY <1>2, <1>3, <1>4, <1>6 DEF R

LEMMA SumSame ==
    ASSUME NEW S, IsFiniteSet(S), NEW f, NEW e, \A x \in S : e[x] = f[x]
    PROVE  SumFunctionOnSet(e, S) = SumFunctionOnSet(f, S)
<1>1. PICK g : Partial(g, f, S) /\ g[S] = SumFunctionOnSet(f, S)
  BY SumOf
<1>2. PICK h : Partial(h, e, S) /\ h[S] = SumFunctionOnSet(e, S)
  BY SumOf
<1>3. S \in SUBSET S
  OBVIOUS
<1>4. \A s \in SUBSET S : g[s] = h[s]
  BY ONLY IsFiniteSet(S), <1>1, <1>2, <1>3, \A x \in S : e[x] = f[x], PartialsAgree
<1> QED BY <1>1, <1>2, <1>3, <1>4

\* the terms of f are numbers
Terms(f, S) == \A x \in S : f[x] \in Int

LEMMA SumInt ==
    ASSUME NEW S, IsFiniteSet(S), NEW f, Terms(f, S)
    PROVE  SumFunctionOnSet(f, S) \in Int
<1> DEFINE T == {s \in SUBSET S : SumFunctionOnSet(f, s) \in Int}
<1>1. ASSUME NEW R \in SUBSET S, \A t \in SUBSET R : t # R => t \in T
      PROVE  R \in T
  <2>1. CASE R = {}
    BY <2>1, SumEmpty
  <2>2. CASE R # {}
    <3>1. Ch(R) \in R /\ R \ {Ch(R)} \in T
      BY <1>1, <2>2, ChIn
    <3>2. IsFiniteSet(R)
      BY FS_Subset
    <3>3. SumFunctionOnSet(f, R) = f[Ch(R)] + SumFunctionOnSet(f, R \ {Ch(R)})
      BY <2>2, <3>2, SumFirst
    <3>4. f[Ch(R)] \in Int
      BY <3>1 DEF Terms
    <3> QED BY <3>1, <3>3, <3>4
  <2> QED BY <2>1, <2>2
<1> HIDE DEF T
<1>2. \A s \in SUBSET S : s \in T
  BY ONLY IsFiniteSet(S), <1>1, SubsetsInduction
<1> QED BY <1>2 DEF T

LEMMA SumWithout ==
    ASSUME NEW S, IsFiniteSet(S), NEW f, Terms(f, S), NEW x \in S
    PROVE  SumFunctionOnSet(f, S) = f[x] + SumFunctionOnSet(f, S \ {x})
<1> DEFINE T == {s \in SUBSET S : \A y \in s :
                    SumFunctionOnSet(f, s) = f[y] + SumFunctionOnSet(f, s \ {y})}
<1>1. ASSUME NEW R \in SUBSET S, \A t \in SUBSET R : t # R => t \in T
      PROVE  R \in T
  <2> SUFFICES ASSUME NEW y \in R
               PROVE  SumFunctionOnSet(f, R) = f[y] + SumFunctionOnSet(f, R \ {y})
    OBVIOUS
  <2> DEFINE c == Ch(R)
             u == R \ {c}
             v == R \ {y}
             w == R \ {c, y}
  <2>1. c \in R
    BY ChIn
  <2>2. IsFiniteSet(R)
    BY FS_Subset
  <2>3. SumFunctionOnSet(f, R) = f[c] + SumFunctionOnSet(f, u)
    BY <2>2, SumFirst
  <2>4. CASE c = y
    BY <2>3, <2>4
  <2>5. CASE c # y
    <3>1. u \in T /\ v \in T
      BY <1>1, <2>1
    <3>2. y \in u /\ c \in v /\ u \ {y} = w /\ v \ {c} = w /\ w \in SUBSET S
      BY <2>1, <2>5
    <3>3. SumFunctionOnSet(f, u) = f[y] + SumFunctionOnSet(f, w)
      BY <3>1, <3>2
    <3>4. SumFunctionOnSet(f, v) = f[c] + SumFunctionOnSet(f, w)
      BY <3>1, <3>2
    <3>5. f[c] \in Int /\ f[y] \in Int /\ IsFiniteSet(w) /\ Terms(f, w)
      BY <2>1, <3>2, FS_Subset DEF Terms
    <3> HIDE DEF c, u, v, w
    <3>6. SumFunctionOnSet(f, w) \in Int
      BY ONLY <3>5, SumInt
    <3> QED BY <2>3, <3>3, <3>4, <3>5, <3>6 DEF v
  <2> QED BY <2>4, <2>5
<1> HIDE DEF T
<1>2. \A s \in SUBSET S : s \in T
  BY ONLY IsFiniteSet(S), <1>1, SubsetsInduction
<1> QED BY <1>2 DEF T

\* sums of two functions, term by term
LEMMA SumLess ==
    ASSUME NEW S, IsFiniteSet(S), NEW f, NEW e, Terms(f, S), Terms(e, S), \A x \in S : e[x] <= f[x]
    PROVE  SumFunctionOnSet(e, S) <= SumFunctionOnSet(f, S)
<1> DEFINE T == {s \in SUBSET S : SumFunctionOnSet(e, s) <= SumFunctionOnSet(f, s)}
<1>1. ASSUME NEW R \in SUBSET S, \A t \in SUBSET R : t # R => t \in T
      PROVE  R \in T
  <2>1. CASE R = {}
    BY <2>1, SumEmpty
  <2>2. CASE R # {}
    <3> DEFINE Q == R \ {Ch(R)}
    <3>1. Ch(R) \in R /\ Q \in T
      BY <1>1, <2>2, ChIn
    <3>2. IsFiniteSet(R) /\ IsFiniteSet(Q) /\ Q \in SUBSET S
      BY FS_Subset
    <3>3. SumFunctionOnSet(f, R) = f[Ch(R)] + SumFunctionOnSet(f, Q)
      BY <2>2, <3>2, SumFirst
    <3>4. SumFunctionOnSet(e, R) = e[Ch(R)] + SumFunctionOnSet(e, Q)
      BY <2>2, <3>2, SumFirst
    <3>5. f[Ch(R)] \in Int /\ e[Ch(R)] \in Int /\ e[Ch(R)] <= f[Ch(R)]
      BY <3>1 DEF Terms
    <3> HIDE DEF Q
    <3>6. SumFunctionOnSet(f, Q) \in Int /\ SumFunctionOnSet(e, Q) \in Int
      <4>1. Terms(f, Q) /\ Terms(e, Q)
        BY <3>2 DEF Terms
      <4> QED BY <3>2, <4>1, SumInt
    <3>7. SumFunctionOnSet(e, Q) <= SumFunctionOnSet(f, Q)
      BY <3>1
    <3> QED BY <3>3, <3>4, <3>5, <3>6, <3>7
  <2> QED BY <2>1, <2>2
<1> HIDE DEF T
<1>2. \A s \in SUBSET S : s \in T
  BY ONLY IsFiniteSet(S), <1>1, SubsetsInduction
<1> QED BY <1>2 DEF T

LEMMA SumRaised ==
    ASSUME NEW S, IsFiniteSet(S), NEW f, NEW e, Terms(f, S), Terms(e, S), NEW x \in S, NEW b \in Int,
           \A y \in S : y # x => e[y] <= f[y], e[x] <= f[x] + b
    PROVE  SumFunctionOnSet(e, S) <= SumFunctionOnSet(f, S) + b
<1> PICK R : R = S \ {x}
  OBVIOUS
<1>1. R \in SUBSET S
  OBVIOUS
<1>2. IsFiniteSet(R)
  BY <1>1, FS_Subset
<1>3. Terms(f, R) /\ Terms(e, R) /\ \A y \in R : e[y] <= f[y]
  BY DEF Terms
<1>4. SumFunctionOnSet(e, R) <= SumFunctionOnSet(f, R)
  BY <1>2, <1>3, SumLess
<1>5. SumFunctionOnSet(e, R) \in Int /\ SumFunctionOnSet(f, R) \in Int
  BY <1>2, <1>3, SumInt
<1>6. SumFunctionOnSet(f, S) = f[x] + SumFunctionOnSet(f, R)
  BY SumWithout
<1>7. SumFunctionOnSet(e, S) = e[x] + SumFunctionOnSet(e, R)
  BY SumWithout
<1>8. f[x] \in Int /\ e[x] \in Int
  BY DEF Terms
<1> QED BY <1>4, <1>5, <1>6, <1>7, <1>8

LEMMA SumNothing ==
    ASSUME NEW S, IsFiniteSet(S), NEW f, \A x \in S : f[x] = 0
    PROVE  SumFunctionOnSet(f, S) = 0
<1> DEFINE T == {s \in SUBSET S : SumFunctionOnSet(f, s) = 0}
<1>1. ASSUME NEW R \in SUBSET S, \A t \in SUBSET R : t # R => t \in T
      PROVE  R \in T
  <2>1. CASE R = {}
    BY <2>1, SumEmpty
  <2>2. CASE R # {}
    <3>1. Ch(R) \in R /\ R \ {Ch(R)} \in T
      BY <1>1, <2>2, ChIn
    <3>2. IsFiniteSet(R)
      BY FS_Subset
    <3>3. SumFunctionOnSet(f, R) = f[Ch(R)] + SumFunctionOnSet(f, R \ {Ch(R)})
      BY <2>2, <3>2, SumFirst
    <3> QED BY <3>1, <3>3
  <2> QED BY <2>1, <2>2
<1> HIDE DEF T
<1>2. \A s \in SUBSET S : s \in T
  BY ONLY IsFiniteSet(S), <1>1, SubsetsInduction
<1> QED BY <1>2 DEF T

LEMMA SumPositive ==
    ASSUME NEW S, IsFiniteSet(S), NEW f, Terms(f, S), \A x \in S : f[x] >= 0
    PROVE  SumFunctionOnSet(f, S) >= 0 /\ \A x \in S : f[x] <= SumFunctionOnSet(f, S)
<1>1. ASSUME NEW R \in SUBSET S PROVE SumFunctionOnSet(f, R) >= 0 /\ SumFunctionOnSet(f, R) \in Int
  <2>1. IsFiniteSet(R) /\ Terms(f, R)
    BY FS_Subset DEF Terms
  <2>2. PICK z : z = [x \in R |-> 0]
    OBVIOUS
  <2>3. Terms(z, R) /\ (\A x \in R : z[x] <= f[x]) /\ \A x \in R : z[x] = 0
    BY <2>2 DEF Terms
  <2>4. SumFunctionOnSet(z, R) <= SumFunctionOnSet(f, R)
    BY <2>1, <2>3, SumLess
  <2>5. SumFunctionOnSet(z, R) = 0
    BY <2>1, <2>3, SumNothing
  <2>6. SumFunctionOnSet(f, R) \in Int
    BY <2>1, SumInt
  <2> QED BY <2>4, <2>5, <2>6
<1>2. ASSUME NEW x \in S PROVE f[x] <= SumFunctionOnSet(f, S)
  <2>1. SumFunctionOnSet(f, S) = f[x] + SumFunctionOnSet(f, S \ {x})
    BY SumWithout
  <2>2. SumFunctionOnSet(f, S \ {x}) >= 0 /\ SumFunctionOnSet(f, S \ {x}) \in Int
    BY <1>1
  <2>3. f[x] \in Int
    BY DEF Terms
  <2> QED BY <2>1, <2>2, <2>3
<1> QED BY <1>1, <1>2

\* the terms of a union of two sets
LEMMA SumDisjoint ==
    ASSUME NEW A, IsFiniteSet(A), NEW B, IsFiniteSet(B), A \intersect B = {},
           NEW f, Terms(f, A \union B)
    PROVE  SumFunctionOnSet(f, A \union B) = SumFunctionOnSet(f, A) + SumFunctionOnSet(f, B)
<1> DEFINE T == {s \in SUBSET A :
                    SumFunctionOnSet(f, s \union B) = SumFunctionOnSet(f, s) + SumFunctionOnSet(f, B)}
<1>0. SumFunctionOnSet(f, B) \in Int
  BY SumInt DEF Terms
<1>1. ASSUME NEW R \in SUBSET A, \A t \in SUBSET R : t # R => t \in T
      PROVE  R \in T
  <2>1. CASE R = {}
    BY <1>0, <2>1, SumEmpty
  <2>2. CASE R # {}
    <3> PICK x : x = Ch(R)
      OBVIOUS
    <3> PICK Q : Q = R \ {x}
      OBVIOUS
    <3>1. x \in R /\ Q \in T
      BY <1>1, <2>2, ChIn
    <3>2. IsFiniteSet(R) /\ IsFiniteSet(R \union B)
      BY FS_Subset, FS_Union
    <3>3. Terms(f, R) /\ Terms(f, Q) /\ Terms(f, R \union B)
      BY DEF Terms
    <3>4. SumFunctionOnSet(f, R) = f[x] + SumFunctionOnSet(f, Q)
      BY <3>1, <3>2, <3>3, SumWithout
    <3>5. SumFunctionOnSet(f, R \union B) = f[x] + SumFunctionOnSet(f, (R \union B) \ {x})
      BY <3>1, <3>2, <3>3, SumWithout
    <3>6. (R \union B) \ {x} = Q \union B
      BY <3>1
    <3>7. f[x] \in Int /\ SumFunctionOnSet(f, Q) \in Int
      <4>1. IsFiniteSet(Q)
        BY <3>2, FS_Subset
      <4> QED BY <3>1, <3>3, <4>1, SumInt DEF Terms
    <3>8. SumFunctionOnSet(f, Q \union B) = SumFunctionOnSet(f, Q) + SumFunctionOnSet(f, B)
      BY <3>1
    <3> HIDE DEF T
    <3>9. SumFunctionOnSet(f, R \union B) = f[x] + SumFunctionOnSet(f, Q \union B)
      BY <3>5, <3>6
    <3>10. SumFunctionOnSet(f, R \union B) = SumFunctionOnSet(f, R) + SumFunctionOnSet(f, B)
      BY ONLY <1>0, <3>4, <3>7, <3>8, <3>9
    <3> QED BY <3>10 DEF T
  <2> QED BY <2>1, <2>2
<1> HIDE DEF T
<1>2. \A s \in SUBSET A : s \in T
  BY ONLY IsFiniteSet(A), <1>1, SubsetsInduction
<1> QED BY <1>2 DEF T

\* a sum of sums over sets that have nothing in common
LEMMA SumUnions ==
    ASSUME NEW C, IsFiniteSet(C), NEW S, IsFiniteSet(S), NEW f, Terms(f, S),
           NEW I, \A c \in C : I[c] \in SUBSET S, \A c, d \in C : c # d => I[c] \intersect I[d] = {},
           NEW e, \A c \in C : e[c] = SumFunctionOnSet(f, I[c])
    PROVE  SumFunctionOnSet(e, C) = SumFunctionOnSet(f, UNION {I[c] : c \in C})
<1> DEFINE U(D) == UNION {I[c] : c \in D}
           T == {D \in SUBSET C : SumFunctionOnSet(e, D) = SumFunctionOnSet(f, U(D))}
<1>1. ASSUME NEW D \in SUBSET C, \A t \in SUBSET D : t # D => t \in T
      PROVE  D \in T
  <2>1. CASE D = {}
    <3>1. U(D) = {}
      BY <2>1
    <3> QED BY <2>1, <3>1, SumEmpty
  <2>2. CASE D # {}
    <3> PICK x : x = Ch(D)
      OBVIOUS
    <3> PICK Q : Q = D \ {x}
      OBVIOUS
    <3>1. x \in D /\ Q \in T
      BY <1>1, <2>2, ChIn
    <3>2. IsFiniteSet(D) /\ IsFiniteSet(I[x]) /\ IsFiniteSet(U(Q))
      <4>1. I[x] \in SUBSET S /\ U(Q) \in SUBSET S
        BY <3>1
      <4> QED BY <4>1, FS_Subset
    <3>3. U(D) = I[x] \union U(Q)
      BY <3>1
    <3>4. I[x] \intersect U(Q) = {}
      BY <3>1
    <3>5. Terms(f, I[x] \union U(Q))
      BY <3>1 DEF Terms
    <3>6. SumFunctionOnSet(e, D) = e[x] + SumFunctionOnSet(e, Q)
      BY <2>2, <3>2, SumFirst
    <3>7. SumFunctionOnSet(e, Q) = SumFunctionOnSet(f, U(Q))
      BY <3>1
    <3> HIDE DEF U
    <3> PICK v, u : v = I[x] /\ u = U(Q)
      OBVIOUS
    <3>10. SumFunctionOnSet(f, v \union u) = SumFunctionOnSet(f, v) + SumFunctionOnSet(f, u)
      <4>1. IsFiniteSet(v) /\ IsFiniteSet(u) /\ v \intersect u = {} /\ Terms(f, v \union u)
        BY <3>2, <3>4, <3>5
      <4> QED BY ONLY <4>1, SumDisjoint
    <3>8. SumFunctionOnSet(f, I[x] \union U(Q)) = SumFunctionOnSet(f, I[x]) + SumFunctionOnSet(f, U(Q))
      BY <3>10
    <3>9. SumFunctionOnSet(e, D) = SumFunctionOnSet(f, U(D))
      BY <3>1, <3>3, <3>6, <3>7, <3>8
    <3> QED BY <3>9
  <2> QED BY <2>1, <2>2
<1> HIDE DEF T
<1>2. \A s \in SUBSET C : s \in T
  BY ONLY IsFiniteSet(C), <1>1, SubsetsInduction
<1>3. SumFunctionOnSet(e, C) = SumFunctionOnSet(f, U(C))
  <2>1. C \in T
    BY <1>2
  <2> QED BY <2>1 DEF T
<1> QED BY <1>3

\* terms that are zero may be left out
LEMMA SumPart ==
    ASSUME NEW S, IsFiniteSet(S), NEW R \in SUBSET S, NEW f, Terms(f, S),
           \A x \in S : x \notin R => f[x] = 0
    PROVE  SumFunctionOnSet(f, S) = SumFunctionOnSet(f, R)
<1> PICK Q : Q = S \ R
  OBVIOUS
<1>1. IsFiniteSet(R) /\ IsFiniteSet(Q) /\ R \intersect Q = {} /\ R \union Q = S
  <2>1. Q \in SUBSET S
    OBVIOUS
  <2> QED BY <2>1, FS_Subset
<1>2. SumFunctionOnSet(f, Q) = 0
  <2>1. \A x \in Q : f[x] = 0
    OBVIOUS
  <2> QED BY <1>1, <2>1, SumNothing
<1>3. SumFunctionOnSet(f, R) \in Int
  BY <1>1, SumInt DEF Terms
<1>4. SumFunctionOnSet(f, R \union Q) = SumFunctionOnSet(f, R) + SumFunctionOnSet(f, Q)
  <2>1. Terms(f, R \union Q)
    BY <1>1
  <2> QED BY ONLY <1>1, <2>1, SumDisjoint
<1>5. SumFunctionOnSet(f, S) = SumFunctionOnSet(f, R) + SumFunctionOnSet(f, Q)
  BY <1>1, <1>4
<1> QED BY ONLY <1>2, <1>3, <1>5

\* a sum of two functions
LEMMA SumPlus ==
    ASSUME NEW S, IsFiniteSet(S), NEW f, NEW g, NEW e, Terms(f, S), Terms(g, S),
           \A x \in S : e[x] = f[x] + g[x]
    PROVE  SumFunctionOnSet(e, S) = SumFunctionOnSet(f, S) + SumFunctionOnSet(g, S)
<1> DEFINE T == {s \in SUBSET S : SumFunctionOnSet(e, s) = SumFunctionOnSet(f, s) + SumFunctionOnSet(g, s)}
<1>1. ASSUME NEW R \in SUBSET S, \A t \in SUBSET R : t # R => t \in T
      PROVE  R \in T
  <2>1. CASE R = {}
    BY <2>1, SumEmpty
  <2>2. CASE R # {}
    <3> PICK x : x = Ch(R)
      OBVIOUS
    <3> PICK Q : Q = R \ {x}
      OBVIOUS
    <3>1. x \in R /\ x \in S /\ Q \in T /\ Q \in SUBSET S
      BY <1>1, <2>2, ChIn
    <3>2. IsFiniteSet(R) /\ IsFiniteSet(Q)
      BY <3>1, FS_Subset
    <3>3. SumFunctionOnSet(f, R) = f[x] + SumFunctionOnSet(f, Q)
      BY <2>2, <3>2, SumFirst
    <3>4. SumFunctionOnSet(g, R) = g[x] + SumFunctionOnSet(g, Q)
      BY <2>2, <3>2, SumFirst
    <3>5. SumFunctionOnSet(e, R) = e[x] + SumFunctionOnSet(e, Q)
      BY <2>2, <3>2, SumFirst
    <3>6. f[x] \in Int /\ g[x] \in Int /\ e[x] = f[x] + g[x] /\ Terms(f, Q) /\ Terms(g, Q)
      BY <3>1 DEF Terms
    <3>7. SumFunctionOnSet(f, Q) \in Int /\ SumFunctionOnSet(g, Q) \in Int
      BY <3>2, <3>6, SumInt
    <3>8. SumFunctionOnSet(e, Q) = SumFunctionOnSet(f, Q) + SumFunctionOnSet(g, Q)
      BY <3>1
    <3> HIDE DEF T
    <3>9. SumFunctionOnSet(e, R) = SumFunctionOnSet(f, R) + SumFunctionOnSet(g, R)
      BY ONLY <3>3, <3>4, <3>5, <3>6, <3>7, <3>8
    <3> QED BY <3>9 DEF T
  <2> QED BY <2>1, <2>2
<1> HIDE DEF T
<1>2. \A s \in SUBSET S : s \in T
  BY ONLY IsFiniteSet(S), <1>1, SubsetsInduction
<1> QED BY <1>2 DEF T

\* a part of a sum without negative terms
LEMMA SumWithin ==
    ASSUME NEW S, IsFiniteSet(S), NEW f, Terms(f, S), \A x \in S : f[x] >= 0, NEW R \in SUBSET S
    PROVE  SumFunctionOnSet(f, R) <= SumFunctionOnSet(f, S)
<1> PICK Q : Q = S \ R
  OBVIOUS
<1>1. IsFiniteSet(R) /\ IsFiniteSet(Q) /\ R \intersect Q = {} /\ R \union Q = S
  <2>1. Q \in SUBSET S
    OBVIOUS
  <2> QED BY <2>1, FS_Subset
<1>2. Terms(f, R) /\ Terms(f, Q) /\ Terms(f, R \union Q) /\ \A x \in Q : f[x] >= 0
  BY <1>1 DEF Terms
<1>3. SumFunctionOnSet(f, R) \in Int /\ SumFunctionOnSet(f, Q) \in Int
  BY <1>1, <1>2, SumInt
<1>4. SumFunctionOnSet(f, Q) >= 0
  BY <1>1, <1>2, SumPositive
<1>5. SumFunctionOnSet(f, R \union Q) = SumFunctionOnSet(f, R) + SumFunctionOnSet(f, Q)
  BY ONLY <1>1, <1>2, SumDisjoint
<1>6. SumFunctionOnSet(f, S) = SumFunctionOnSet(f, R) + SumFunctionOnSet(f, Q)
  BY <1>1, <1>5
<1> QED BY ONLY <1>3, <1>4, <1>6

\* the terms of E are exchanged for less, at p
LEMMA SumTraded ==
    ASSUME NEW S, IsFiniteSet(S), NEW f, NEW e, Terms(f, S), Terms(e, S),
           NEW p \in S, NEW E \in SUBSET S, p \notin E,
           \A x \in E : e[x] = 0, \A x \in S : x \notin E \union {p} => e[x] <= f[x],
           e[p] <= f[p] + SumFunctionOnSet(f, E)
    PROVE  SumFunctionOnSet(e, S) <= SumFunctionOnSet(f, S)
<1> PICK R : R = S \ E
  OBVIOUS
<1>1. IsFiniteSet(R) /\ IsFiniteSet(E) /\ R \intersect E = {} /\ R \union E = S /\ p \in R
  <2>1. R \in SUBSET S /\ p \in R
    OBVIOUS
  <2> QED BY <2>1, FS_Subset
<1>2. Terms(f, R) /\ Terms(e, R) /\ Terms(f, E) /\ Terms(f, R \union E) /\ Terms(e, R \union E)
  BY <1>1 DEF Terms
<1>3. SumFunctionOnSet(f, R) \in Int /\ SumFunctionOnSet(e, R) \in Int
      /\ SumFunctionOnSet(f, E) \in Int
  BY <1>1, <1>2, SumInt
<1>4. SumFunctionOnSet(e, E) = 0
  BY <1>1, SumNothing
<1>5. SumFunctionOnSet(f, R \union E) = SumFunctionOnSet(f, R) + SumFunctionOnSet(f, E)
  BY ONLY <1>1, <1>2, SumDisjoint
<1>6. SumFunctionOnSet(e, R \union E) = SumFunctionOnSet(e, R) + SumFunctionOnSet(e, E)
  BY ONLY <1>1, <1>2, SumDisjoint
<1>7. SumFunctionOnSet(e, R) <= SumFunctionOnSet(f, R) + SumFunctionOnSet(f, E)
  <2> PICK b : b = SumFunctionOnSet(f, E)
    OBVIOUS
  <2>1. b \in Int /\ e[p] <= f[p] + b /\ \A y \in R : y # p => e[y] <= f[y]
    BY <1>1, <1>3
  <2>2. SumFunctionOnSet(e, R) <= SumFunctionOnSet(f, R) + b
    BY ONLY <1>1, <1>2, <2>1, SumRaised
  <2> QED BY <2>2
<1>8. SumFunctionOnSet(f, S) = SumFunctionOnSet(f, R) + SumFunctionOnSet(f, E)
  BY <1>1, <1>5
<1>9. SumFunctionOnSet(e, S) = SumFunctionOnSet(e, R) + SumFunctionOnSet(e, E)
  BY <1>1, <1>6
<1> QED BY ONLY <1>3, <1>4, <1>7, <1>8, <1>9

\* something passes from p to h
LEMMA SumMoved ==
    ASSUME NEW S, IsFiniteSet(S), NEW f, NEW e, Terms(f, S), Terms(e, S),
           NEW p \in S, NEW h \in S, p # h, NEW k \in Int,
           \A x \in S : x \notin {p, h} => e[x] <= f[x],
           e[p] <= f[p] - k, e[h] <= f[h] + k
    PROVE  SumFunctionOnSet(e, S) <= SumFunctionOnSet(f, S)
<1> PICK R : R = S \ {p}
  OBVIOUS
<1>1. IsFiniteSet(R) /\ h \in R
  <2>1. R \in SUBSET S
    OBVIOUS
  <2> QED BY <2>1, FS_Subset
<1>2. Terms(f, R) /\ Terms(e, R) /\ \A x \in R : x # h => e[x] <= f[x]
  BY DEF Terms
<1>3. SumFunctionOnSet(f, R) \in Int /\ SumFunctionOnSet(e, R) \in Int
  BY <1>1, <1>2, SumInt
<1>4. SumFunctionOnSet(e, R) <= SumFunctionOnSet(f, R) + k
  BY ONLY <1>1, <1>2, k \in Int, e[h] <= f[h] + k, SumRaised
<1>5. SumFunctionOnSet(f, S) = f[p] + SumFunctionOnSet(f, R)
  BY SumWithout
<1>6. SumFunctionOnSet(e, S) = e[p] + SumFunctionOnSet(e, R)
  BY SumWithout
<1>7. f[p] \in Int /\ e[p] \in Int
  BY DEF Terms
<1> QED BY <1>3, <1>4, <1>5, <1>6, <1>7


\* no set of containers is closed under owners: chains of owners end
Founded(f, B) == \A S \in SUBSET B : S # {} => \E b \in S : f[b] \notin S

\* the pointers of objects and holders, for characters on and objects mem in memory
Linked(P, on, mem) ==
    /\ P \in Place /\ on \in SUBSET Chars /\ mem \in SUBSET Objects
    /\ \A o \in Carryable, h \in Holders : o \in P.contents[h] <=> P.owner[o] = h
    /\ \A o \in Carryable : P.owner[o] # None => o \in mem /\ P.owner[o] \in on \union mem
    /\ \A o \in P.ground : o \in mem /\ GetOwner(P, o) = o
    /\ Founded(P.owner, Bags)

\* nothing but a pile is nowhere
Somewhere(P, mem) == \A o \in mem \ Piles : o \in P.ground \/ GetOwner(P, o) # o

\* what is worn is in the hands of its wearer, what is open is on the ground
Fitting(P, w, op) ==
    /\ w \in [Carryable -> Chars \union {None}]
    /\ \A o \in Carryable : w[o] # None => P.owner[o] = w[o]
    /\ op \in SUBSET (P.ground \intersect Lidded)

\* a record of character c from which the room can be made again
IsRecord(r, c) ==
    /\ r.value \in Int /\ r.items \in SUBSET Carryable
    /\ \A o \in r.items : r.owner[o] \in {c} \union (r.items \intersect Bags) /\ r.worth[o] \in Int
    /\ r.worn \in SUBSET r.items /\ \A o \in r.worn : r.owner[o] = c
    /\ Founded(r.owner, r.items \intersect Bags)

\* nothing is twice: in memory and in a record, or in two records
Single(mem, rec) ==
    /\ \A c \in Chars : rec[c].items \intersect mem = {}
    /\ \A c, d \in Chars : c # d => rec[c].items \intersect rec[d].items = {}

Values == [Chars \union Objects -> Int]

Records(on, rec) ==
    /\ rec = [c \in Chars |-> rec[c]]
    /\ \A c \in Chars : IsRecord(rec[c], c)
    /\ \A c \in on : rec[c] = NoRecord

OwnInv ==
    /\ Linked(place, online, live) /\ Somewhere(place, live) /\ Fitting(place, worn, open)
    /\ value \in Values
    /\ Records(online, record) /\ Single(live, record)

LEMMA Kinds ==
    /\ Chars \intersect Objects = {} /\ None \notin Chars /\ None \notin Objects
    /\ Carryable \subseteq Objects /\ Boxes \subseteq Objects /\ Boxes \subseteq Holders
    /\ Chars \subseteq Holders /\ Bags \subseteq Carryable /\ Bags \subseteq Boxes
    /\ Chests \intersect Carryable = {} /\ Chests \subseteq Objects
    /\ Boxes \intersect Carryable = Bags /\ Holders \intersect Carryable = Bags
    /\ Piles \subseteq Carryable /\ Things \subseteq Carryable
    /\ Piles \intersect Holders = {} /\ Things \intersect Holders = {}
    /\ None \notin Holders /\ Packs \subseteq Bags
    /\ Lidded \subseteq Boxes /\ Tossed \subseteq Boxes
BY BelongingsConstants DEF Carryable, Objects, Boxes, Holders

-----------------------------------------------------------------------------
(* Who owns what: the two closures. *)

Below(P, h) ==
    {b \in Bags : \A B \in SUBSET Bags : {x \in Bags : P.owner[x] \in {h} \union B} \subseteq B => b \in B}

LEMMA OwnedIs ==
    ASSUME NEW P, NEW h
    PROVE  Owned(P, h) = {o \in Carryable : P.owner[o] \in {h} \union Below(P, h)}
BY DEF Owned, Below

LEMMA BelowUp ==
    ASSUME NEW P, NEW h, NEW x \in Bags, P.owner[x] \in {h} \union Below(P, h)
    PROVE  x \in Below(P, h)
BY DEF Below

LEMMA BelowDown ==
    ASSUME NEW P, NEW h, NEW x \in Below(P, h)
    PROVE  P.owner[x] \in {h} \union Below(P, h)
<1> DEFINE T == Below(P, h) \ {x}
<1> SUFFICES ASSUME P.owner[x] \notin {h} \union Below(P, h) PROVE FALSE
  OBVIOUS
<1>1. T \in SUBSET Bags /\ x \in Bags
  BY DEF Below
<1>2. \A y \in Bags : P.owner[y] \in {h} \union T => y \in T
  BY BelowUp
<1>3. {y \in Bags : P.owner[y] \in {h} \union T} \subseteq T
  BY <1>2
<1> HIDE DEF T
<1>4. x \in T
  BY <1>1, <1>3 DEF Below
<1> QED BY <1>4 DEF T

\* an object is owned by h directly or through a bag that is
LEMMA OwnedFacts ==
    ASSUME NEW P, NEW h
    PROVE  /\ Owned(P, h) \in SUBSET Carryable
           /\ \A o \in Carryable : o \in Owned(P, h) <=>
                 P.owner[o] = h \/ (P.owner[o] \in Bags /\ P.owner[o] \in Owned(P, h))
<1>1. \A b \in Bags : b \in Below(P, h) <=> b \in Owned(P, h)
  BY BelowUp, BelowDown, OwnedIs, Kinds
<1>2. Below(P, h) \subseteq Bags
  BY DEF Below
<1> QED BY <1>1, <1>2, OwnedIs

\* nothing else is
LEMMA OwnedLeast ==
    ASSUME NEW P, NEW h, NEW S,
           \A o \in Carryable : P.owner[o] = h \/ (P.owner[o] \in Bags /\ P.owner[o] \in S) => o \in S
    PROVE  Owned(P, h) \subseteq S
<1> DEFINE B == S \intersect Bags
<1>1. {x \in Bags : P.owner[x] \in {h} \union B} \subseteq B
  BY Kinds
<1>2. Below(P, h) \subseteq B
  BY <1>1 DEF Below
<1> QED BY <1>2, OwnedIs DEF Below

LEMMA OwnedNone ==
    ASSUME NEW P, NEW h, \A o \in Carryable : P.owner[o] # h
    PROVE  Owned(P, h) = {}
<1> PICK S : S = {}
  OBVIOUS
<1>1. \A o \in Carryable : P.owner[o] = h \/ (P.owner[o] \in Bags /\ P.owner[o] \in S) => o \in S
  OBVIOUS
<1>2. Owned(P, h) \subseteq S
  BY <1>1, OwnedLeast
<1> QED BY <1>2

LEMMA InsideIs ==
    ASSUME NEW P, NEW on, NEW mem, Linked(P, on, mem), NEW h \in Holders
    PROVE  Inside(P, h) = Owned(P, h)
<1> DEFINE K == {b \in Bags : \A B \in SUBSET Bags :
                    (\A x \in {h} \union B : P.contents[x] \intersect Bags \subseteq B) => b \in B}
<1>1. \A x \in Holders : P.contents[x] = {o \in Carryable : P.owner[o] = x}
  BY DEF Linked, Place
<1>2. ASSUME NEW B \in SUBSET Bags
      PROVE  (\A x \in {h} \union B : P.contents[x] \intersect Bags \subseteq B)
             <=> {x \in Bags : P.owner[x] \in {h} \union B} \subseteq B
  <2>1. \A x \in {h} \union B : x \in Holders
    BY Kinds
  <2>2. \A x \in {h} \union B : P.contents[x] \intersect Bags = {o \in Bags : P.owner[o] = x}
    BY <2>1, <1>1, Kinds
  <2> QED BY <2>2
<1>3. K = Below(P, h)
  BY <1>2 DEF Below
<1>4. Inside(P, h) = UNION {P.contents[x] : x \in {h} \union K}
  BY DEF Inside
<1> HIDE DEF K
<1>5. \A x \in {h} \union K : x \in Holders
  BY <1>3, Kinds DEF Below
<1>6. UNION {P.contents[x] : x \in {h} \union K} = {o \in Carryable : P.owner[o] \in {h} \union K}
  BY <1>1, <1>5
<1> QED BY <1>3, <1>4, <1>6, OwnedIs

LEMMA NotInItself ==
    ASSUME NEW P \in Place, Founded(P.owner, Bags), NEW o \in Carryable
    PROVE  o \notin Owned(P, o) /\ (o \in Bags => P.owner[o] # o)
<1>1. \A x \in Carryable : P.owner[x] \in Holders \union {None}
  BY DEF Place
<1>2. o \in Bags => P.owner[o] # o
  <2> SUFFICES ASSUME o \in Bags, P.owner[o] = o PROVE FALSE
    OBVIOUS
  <2>1. {o} \in SUBSET Bags /\ {o} # {}
    OBVIOUS
  <2> QED BY <2>1 DEF Founded
<1>3. CASE o \notin Bags
  <2>1. \A x \in Carryable : P.owner[x] # o
    BY <1>1, <1>3, Kinds
  <2> QED BY <1>2, <2>1, OwnedNone
<1>4. CASE o \in Bags
  <2> SUFFICES ASSUME o \in Owned(P, o) PROVE FALSE
    BY <1>2
  <2>1. P.owner[o] \in Below(P, o)
    BY <1>2, <1>4, OwnedIs
  <2>2. o \in Below(P, o)
    BY <1>4, <2>1, BelowUp
  <2>3. Below(P, o) \in SUBSET Bags /\ Below(P, o) # {}
    BY <2>2 DEF Below
  <2>4. \A b \in Below(P, o) : P.owner[b] \in Below(P, o)
    BY <2>2, BelowDown
  <2> QED BY <2>3, <2>4 DEF Founded
<1> QED BY <1>3, <1>4

\* two characters, or a character and the objects of another, have nothing in common
LEMMA Apart ==
    ASSUME NEW P, NEW c \in Chars, NEW d \in Chars, c # d
    PROVE  Owned(P, c) \intersect Owned(P, d) = {}
<1> DEFINE S == Owned(P, c) \ Owned(P, d)
<1>1. \A o \in Carryable : P.owner[o] = c \/ (P.owner[o] \in Bags /\ P.owner[o] \in S) => o \in S
  BY OwnedFacts, Kinds
<1>2. Owned(P, c) \subseteq S
  BY <1>1, OwnedLeast
<1> QED BY <1>2

\* who is not there has nothing, and what is owned is in memory
LEMMA OwnedAlive ==
    ASSUME NEW P, NEW on, NEW mem, Linked(P, on, mem), NEW h \in Holders
    PROVE  /\ Owned(P, h) \subseteq mem
           /\ h \notin on \union mem => Owned(P, h) = {}
<1>1. \A o \in Carryable : P.owner[o] # None => o \in mem /\ P.owner[o] \in on \union mem
  BY DEF Linked
<1>2. \A o \in Owned(P, h) : o \in Carryable /\ P.owner[o] \in {h} \union Bags
  BY OwnedFacts
<1>3. Owned(P, h) \subseteq mem
  BY <1>1, <1>2, Kinds
<1>4. ASSUME h \notin on \union mem PROVE Owned(P, h) = {}
  <2>1. \A o \in Carryable : P.owner[o] # h
    BY <1>1, <1>4, Kinds
  <2> QED BY <2>1, OwnedNone
<1> QED BY <1>3, <1>4

-----------------------------------------------------------------------------
(* Moves. *)

LEMMA FoundedInto ==
    ASSUME NEW P \in Place, Founded(P.owner, Bags), NEW o \in Carryable, NEW h \in Holders,
           h # o, h \notin Owned(P, o), NEW f,
           f = [P.owner EXCEPT ![o] = h]
    PROVE  Founded(f, Bags)
<1> SUFFICES ASSUME NEW S \in SUBSET Bags, S # {}, \A b \in S : f[b] \in S PROVE FALSE
  BY DEF Founded
<1> DEFINE T == S \ ({o} \union Owned(P, o))
<1>1. /\ f[o] = h /\ \A x \in Carryable : x # o => f[x] = P.owner[x]
  BY DEF Place
<1>2. o \in S
  <2> SUFFICES ASSUME o \notin S PROVE FALSE
    OBVIOUS
  <2>1. \A b \in S : P.owner[b] \in S
    BY <1>1, Kinds
  <2> QED BY <2>1 DEF Founded
<1>3. h \in T
  BY <1>1, <1>2
<1>4. \A b \in T : P.owner[b] \in S
  BY <1>1, Kinds
<1>5. \A b \in T : P.owner[b] \in T
  <2> TAKE b \in T
  <2>1. P.owner[b] # o /\ ~(P.owner[b] \in Bags /\ P.owner[b] \in Owned(P, o))
    BY OwnedFacts, Kinds
  <2> QED BY <1>4, <2>1
<1>6. T \in SUBSET Bags /\ T # {}
  BY <1>3
<1> QED BY <1>5, <1>6 DEF Founded

LEMMA FoundedLess ==
    ASSUME NEW f, Founded(f, Bags), NEW g, \A b \in Bags : g[b] = f[b] \/ g[b] = None
    PROVE  Founded(g, Bags)
<1> SUFFICES ASSUME NEW S \in SUBSET Bags, S # {}, \A b \in S : g[b] \in S PROVE FALSE
  BY DEF Founded
<1>1. \A b \in S : f[b] \in S
  BY Kinds
<1> QED BY <1>1 DEF Founded

Moved(P, o, h, Q) ==
    /\ Q \in Place /\ Q.owner = [P.owner EXCEPT ![o] = h]
    /\ Q.owner[o] = h /\ \A x \in Carryable : x # o => Q.owner[x] = P.owner[x]
    /\ \A x \in Holders : \A y : y \in Q.contents[x] <=> IF y = o THEN x = h ELSE y \in P.contents[x]
    /\ Q.ground = P.ground \ {o}

LEMMA IntoPlace ==
    ASSUME NEW P \in Place, NEW o \in Carryable, NEW h \in Holders, NEW Q, Q = Into(P, o, h)
    PROVE  Moved(P, o, h, Q)
BY DEF Into, Place, Moved

LEMMA IntoLinked ==
    ASSUME NEW P, NEW on, NEW mem, Linked(P, on, mem),
           NEW o \in Carryable, o \in mem, NEW h \in Holders, h \in on \union mem,
           h # o, h \notin Owned(P, o), NEW Q, Q = Into(P, o, h)
    PROVE  Linked(Q, on, mem)
<1>1. P \in Place
  BY DEF Linked
<1>2. /\ Q \in Place /\ Q.owner = [P.owner EXCEPT ![o] = h]
      /\ Q.owner[o] = h /\ \A x \in Carryable : x # o => Q.owner[x] = P.owner[x]
      /\ \A x \in Holders : \A y : y \in Q.contents[x] <=> IF y = o THEN x = h ELSE y \in P.contents[x]
      /\ Q.ground = P.ground \ {o}
  <2>1. Moved(P, o, h, Q)
    BY <1>1, IntoPlace
  <2> QED BY <2>1 DEF Moved
<1>3. Founded(Q.owner, Bags)
  BY <1>1, <1>2, FoundedInto DEF Linked
<1>4. \A x \in Carryable, g \in Holders : x \in Q.contents[g] <=> Q.owner[x] = g
  BY <1>2 DEF Linked
<1>5. \A x \in Carryable : Q.owner[x] # None => x \in mem /\ Q.owner[x] \in on \union mem
  BY <1>2 DEF Linked
<1>6. \A x \in Q.ground : x \in mem /\ GetOwner(Q, x) = x
  <2> TAKE x \in Q.ground
  <2>1. x # o /\ x \in P.ground
    BY <1>2
  <2>2. GetOwner(Q, x) = GetOwner(P, x)
    BY <1>2, <2>1 DEF GetOwner
  <2> QED BY <2>1, <2>2 DEF Linked
<1> QED BY <1>2, <1>3, <1>4, <1>5, <1>6 DEF Linked

LEMMA OnGroundPlace ==
    ASSUME NEW P \in Place, NEW o \in Carryable, NEW Q, Q = OnGround(P, o)
    PROVE  /\ Q \in Place
           /\ Q.owner[o] = None /\ \A x \in Carryable : x # o => Q.owner[x] = P.owner[x]
           /\ \A x \in Holders : Q.contents[x] = P.contents[x] \ {o}
           /\ Q.ground = P.ground \union {o}
BY Kinds DEF OnGround, Place

LEMMA OnGroundLinked ==
    ASSUME NEW P, NEW on, NEW mem, Linked(P, on, mem),
           NEW o \in Carryable, o \in mem, NEW Q, Q = OnGround(P, o)
    PROVE  Linked(Q, on, mem)
<1>1. P \in Place
  BY DEF Linked
<1>2. /\ Q \in Place
      /\ Q.owner[o] = None /\ \A x \in Carryable : x # o => Q.owner[x] = P.owner[x]
      /\ \A x \in Holders : Q.contents[x] = P.contents[x] \ {o}
      /\ Q.ground = P.ground \union {o}
  BY <1>1, OnGroundPlace
<1>3. Founded(Q.owner, Bags)
  <2>1. \A b \in Bags : Q.owner[b] = P.owner[b] \/ Q.owner[b] = None
    BY <1>2, Kinds
  <2> QED BY <2>1, FoundedLess DEF Linked
<1>4. \A x \in Carryable, g \in Holders : x \in Q.contents[g] <=> Q.owner[x] = g
  BY <1>2, Kinds DEF Linked
<1>5. \A x \in Carryable : Q.owner[x] # None => x \in mem /\ Q.owner[x] \in on \union mem
  BY <1>2 DEF Linked
<1>6. \A x \in Q.ground : x \in mem /\ GetOwner(Q, x) = x
  <2> TAKE x \in Q.ground
  <2>1. CASE x = o
    BY <1>2, <2>1 DEF GetOwner
  <2>2. CASE x # o
    <3>1. x \in P.ground /\ GetOwner(Q, x) = GetOwner(P, x)
      BY <1>2, <2>2 DEF GetOwner
    <3> QED BY <3>1 DEF Linked
  <2> QED BY <2>1, <2>2
<1> QED BY <1>2, <1>3, <1>4, <1>5, <1>6 DEF Linked

\* a set of objects with all that is in them
Closed(P, D) == \A o \in Carryable : P.owner[o] \in D => o \in D

LEMMA NowherePlace ==
    ASSUME NEW P \in Place, NEW D, NEW Q, Q = Nowhere(P, D)
    PROVE  /\ Q \in Place
           /\ \A x \in Carryable : x \in D => Q.owner[x] = None
           /\ \A x \in Carryable : x \notin D => Q.owner[x] = P.owner[x]
           /\ \A x \in Holders : \A y : y \in Q.contents[x] <=> x \notin D /\ y \notin D /\ y \in P.contents[x]
           /\ Q.ground = P.ground \ D
BY DEF Nowhere, Place

LEMMA NowhereLinked ==
    ASSUME NEW P, NEW on, NEW mem, Linked(P, on, mem),
           NEW D, Closed(P, D), NEW Q, Q = Nowhere(P, D)
    PROVE  Linked(Q, on \ D, mem \ D)
<1>1. P \in Place /\ on \ D \in SUBSET Chars /\ mem \ D \in SUBSET Objects
  BY DEF Linked
<1>2. /\ Q \in Place
      /\ \A x \in Carryable : x \in D => Q.owner[x] = None
      /\ \A x \in Carryable : x \notin D => Q.owner[x] = P.owner[x]
      /\ \A x \in Holders : \A y : y \in Q.contents[x] <=> x \notin D /\ y \notin D /\ y \in P.contents[x]
      /\ Q.ground = P.ground \ D
  BY <1>1, NowherePlace
<1>3. Founded(Q.owner, Bags)
  <2>1. \A b \in Bags : Q.owner[b] = P.owner[b] \/ Q.owner[b] = None
    BY <1>2, Kinds
  <2> QED BY <2>1, FoundedLess DEF Linked
<1>4. \A x \in Carryable, g \in Holders : x \in Q.contents[g] <=> Q.owner[x] = g
  BY <1>2, Kinds DEF Linked, Closed
<1>5. \A x \in Carryable : Q.owner[x] # None => x \in mem \ D /\ Q.owner[x] \in (on \ D) \union (mem \ D)
  BY <1>2 DEF Linked, Closed
<1>6. \A x \in Q.ground : x \in mem \ D /\ GetOwner(Q, x) = x
  <2> TAKE x \in Q.ground
  <2>1. x \in P.ground /\ x \notin D
    BY <1>2
  <2>2. GetOwner(Q, x) = GetOwner(P, x)
    BY <1>2, <2>1 DEF GetOwner
  <2> QED BY <2>1, <2>2 DEF Linked
<1> QED BY <1>1, <1>2, <1>3, <1>4, <1>5, <1>6 DEF Linked

LEMMA LinkedMore ==
    ASSUME NEW P, NEW on, NEW mem, Linked(P, on, mem), NEW more \in SUBSET Objects, mem \subseteq more
    PROVE  Linked(P, on, more)
BY DEF Linked

-----------------------------------------------------------------------------
(* The room as a whole. *)

World(P, w, op, on, mem) == Linked(P, on, mem) /\ Somewhere(P, mem) /\ Fitting(P, w, op)

\* an object that is owned is not on the ground, and not its own owner
LEMMA OwnedNotGround ==
    ASSUME NEW P, NEW on, NEW mem, Linked(P, on, mem), NEW o \in Carryable, P.owner[o] # None
    PROVE  /\ o \notin P.ground /\ GetOwner(P, o) = P.owner[o] /\ P.owner[o] # o
           /\ o \in mem /\ P.owner[o] \in Holders /\ P.owner[o] \in on \union mem
<1>1. P \in Place /\ Founded(P.owner, Bags)
  BY DEF Linked
<1>2. P.owner[o] \in Holders
  BY <1>1 DEF Place
<1>3. P.owner[o] # o
  BY <1>1, <1>2, NotInItself, Kinds
<1>4. GetOwner(P, o) = P.owner[o]
  BY DEF GetOwner
<1>5. o \notin P.ground
  BY <1>3, <1>4 DEF Linked
<1> QED BY <1>2, <1>3, <1>4, <1>5 DEF Linked

\* o goes to h; nothing else was nowhere
LEMMA WorldInto ==
    ASSUME NEW P, NEW w, NEW op, NEW on, NEW mem,
           NEW o \in Carryable, o \in mem,
           Linked(P, on, mem), Somewhere(P, mem \ {o}), Fitting(P, w, op),
           NEW h \in Holders, h \in on \union mem,
           h # o, h \notin Owned(P, o), w[o] = None, o \notin op, NEW Q, Q = Into(P, o, h)
    PROVE  World(Q, w, op, on, mem)
<1>1. Linked(Q, on, mem)
  BY IntoLinked
<1>2. P \in Place
  BY DEF Linked
<1>3. Moved(P, o, h, Q)
  BY <1>2, IntoPlace
<1>4. Somewhere(Q, mem)
  <2> SUFFICES ASSUME NEW x \in mem \ Piles PROVE x \in Q.ground \/ GetOwner(Q, x) # x
    BY DEF Somewhere
  <2>1. CASE x = o
    BY <1>3, <2>1, Kinds DEF Moved, GetOwner
  <2>2. CASE x # o
    <3>1. GetOwner(Q, x) = GetOwner(P, x)
      BY <1>3, <2>2 DEF Moved, GetOwner
    <3> QED BY <1>3, <2>2, <3>1 DEF Moved, Somewhere
  <2> QED BY <2>1, <2>2
<1>5. Fitting(Q, w, op)
  <2>1. \A x \in Carryable : w[x] # None => Q.owner[x] = w[x]
    BY <1>3 DEF Moved, Fitting
  <2>2. op \in SUBSET (Q.ground \intersect Lidded)
    BY <1>3 DEF Moved, Fitting
  <2> QED BY <2>1, <2>2 DEF Fitting
<1> QED BY <1>1, <1>4, <1>5 DEF World

LEMMA WorldGround ==
    ASSUME NEW P, NEW w, NEW op, NEW on, NEW mem,
           NEW o \in Carryable, o \in mem,
           Linked(P, on, mem), Somewhere(P, mem \ {o}), Fitting(P, w, op),
           w[o] = None, NEW Q, Q = OnGround(P, o)
    PROVE  World(Q, w, op, on, mem)
<1>1. Linked(Q, on, mem)
  BY OnGroundLinked
<1>2. P \in Place
  BY DEF Linked
<1>3. /\ Q.owner[o] = None /\ \A x \in Carryable : x # o => Q.owner[x] = P.owner[x]
      /\ Q.ground = P.ground \union {o}
  BY <1>2, OnGroundPlace
<1>4. Somewhere(Q, mem)
  <2> SUFFICES ASSUME NEW x \in mem \ Piles, x # o PROVE x \in Q.ground \/ GetOwner(Q, x) # x
    BY <1>3 DEF Somewhere
  <2>1. GetOwner(Q, x) = GetOwner(P, x)
    BY <1>3 DEF GetOwner
  <2> QED BY <1>3, <2>1 DEF Somewhere
<1>5. Fitting(Q, w, op)
  BY <1>3 DEF Fitting
<1> QED BY <1>1, <1>4, <1>5 DEF World

LEMMA WorldNowhere ==
    ASSUME NEW P, NEW w, NEW op, NEW on, NEW mem, World(P, w, op, on, mem),
           NEW D, Closed(P, D), NEW Q, Q = Nowhere(P, D),
           NEW v, v = [o \in Carryable |-> IF o \in D THEN None ELSE w[o]]
    PROVE  World(Q, v, op \ D, on \ D, mem \ D)
<1>1. Linked(Q, on \ D, mem \ D)
  BY NowhereLinked DEF World
<1>2. P \in Place
  BY DEF Linked, World
<1>3. /\ \A x \in Carryable : x \in D => Q.owner[x] = None
      /\ \A x \in Carryable : x \notin D => Q.owner[x] = P.owner[x]
      /\ Q.ground = P.ground \ D
  BY <1>2, NowherePlace
<1>4. Somewhere(Q, mem \ D)
  <2> SUFFICES ASSUME NEW x \in (mem \ D) \ Piles PROVE x \in Q.ground \/ GetOwner(Q, x) # x
    BY DEF Somewhere
  <2>1. GetOwner(Q, x) = GetOwner(P, x)
    BY <1>3 DEF GetOwner
  <2> QED BY <1>3, <2>1 DEF Somewhere, World
<1>5. Fitting(Q, v, op \ D)
  <2>1. w \in [Carryable -> Chars \union {None}]
    BY DEF Fitting, World
  <2>2. v \in [Carryable -> Chars \union {None}]
    BY <2>1
  <2>3. \A x \in Carryable : v[x] # None => x \notin D /\ v[x] = w[x]
    OBVIOUS
  <2>4. \A x \in Carryable : v[x] # None => Q.owner[x] = v[x]
    BY <1>3, <2>3 DEF Fitting, World
  <2>5. op \ D \in SUBSET (Q.ground \intersect Lidded)
    BY <1>3 DEF Fitting, World
  <2> QED BY <2>2, <2>4, <2>5 DEF Fitting
<1> QED BY <1>1, <1>4, <1>5 DEF World

-----------------------------------------------------------------------------
(* beGivenTo, take, drop. *)

LEMMA GivenIs ==
    ASSUME NEW P, NEW o, NEW h, NEW force \in BOOLEAN, NEW fits \in BOOLEAN,
           NEW Q, Q = BeGivenTo(P, o, h, force, fits)
    PROVE  \/ Q = P
           \/ /\ Q = Into(P, o, h) /\ h # o /\ h \notin Owned(P, o) /\ worn[o] = None /\ fits
              /\ force \/ (P.owner[o] # None /\ ~Shut(h))
BY DEF BeGivenTo

LEMMA WorldGiven ==
    ASSUME NEW P, NEW op, NEW on, NEW mem, World(P, worn, op, on, mem),
           NEW o \in Carryable, NEW h \in Holders, h \in on \union mem,
           NEW fits \in BOOLEAN, NEW Q, Q = BeGivenTo(P, o, h, FALSE, fits)
    PROVE  World(Q, worn, op, on, mem)
<1>1. CASE Q = P
  BY <1>1
<1>2. CASE Q # P
  <2>1. Q = Into(P, o, h) /\ h # o /\ h \notin Owned(P, o) /\ worn[o] = None /\ P.owner[o] # None
    BY <1>2 DEF BeGivenTo
  <2>2. Linked(P, on, mem) /\ Somewhere(P, mem \ {o}) /\ Fitting(P, worn, op)
    BY DEF World, Somewhere
  <2>3. o \notin P.ground /\ o \in mem
    BY <2>1, <2>2, OwnedNotGround
  <2>4. o \notin op
    BY <2>2, <2>3 DEF Fitting
  <2> QED BY <2>1, <2>2, <2>3, <2>4, WorldInto
<1> QED BY <1>1, <1>2

LEMMA WorldShut ==
    ASSUME NEW P, NEW w, NEW op, NEW on, NEW mem, World(P, w, op, on, mem), NEW o
    PROVE  World(P, w, op \ {o}, on, mem)
BY DEF World, Fitting

LEMMA WorldTake ==
    ASSUME NEW P, NEW op, NEW on, NEW mem, World(P, worn, op, on, mem),
           NEW o \in Carryable, o \in mem, NEW p \in Chars, p \in on,
           NEW fits \in BOOLEAN, NEW Q, Q = Take(P, o, p, fits)
    PROVE  World(Q, worn, op \ {o}, on, mem)
<1>1. World(P, worn, op \ {o}, on, mem)
  BY WorldShut
<1>2. CASE worn[o] # None \/ P.owner[o] = p
  BY <1>1, <1>2 DEF Take
<1>3. CASE ~(worn[o] # None \/ P.owner[o] = p) /\ P.owner[o] # None
  <2>1. Q = BeGivenTo(P, o, p, FALSE, fits)
    BY <1>3 DEF Take
  <2> QED BY <1>1, <2>1, WorldGiven, Kinds
<1>4. CASE ~(worn[o] # None \/ P.owner[o] = p) /\ P.owner[o] = None
  <2>1. CASE o \in P.ground /\ fits
    <3>1. Q = Into(P, o, p) /\ worn[o] = None
      BY <1>4, <2>1 DEF Take
    <3>2. Linked(P, on, mem) /\ Somewhere(P, mem \ {o}) /\ Fitting(P, worn, op \ {o})
      BY <1>1 DEF World, Somewhere
    <3>3. p \in Holders /\ p # o /\ p \notin Owned(P, o)
      BY OwnedFacts, Kinds
    <3> QED BY <3>1, <3>2, <3>3, WorldInto
  <2>2. CASE ~(o \in P.ground /\ fits)
    BY <1>1, <1>4, <2>2 DEF Take
  <2> QED BY <2>1, <2>2
<1> QED BY <1>2, <1>3, <1>4

LEMMA WorldDrop ==
    ASSUME NEW P, NEW w, NEW op, NEW on, NEW mem, World(P, w, op, on, mem),
           NEW o \in Carryable, NEW p \in Chars, NEW isWorn \in BOOLEAN, ~isWorn => w[o] = None,
           NEW Q, Q = Drop(P, o, p, isWorn)
    PROVE  World(Q, w, op, on, mem)
<1>1. CASE P.owner[o] = p /\ ~isWorn
  <2>1. Q = OnGround(P, o) /\ w[o] = None
    BY <1>1 DEF Drop
  <2>2. Linked(P, on, mem) /\ Somewhere(P, mem \ {o}) /\ Fitting(P, w, op)
    BY DEF World, Somewhere
  <2>3. o \in mem
    BY <1>1, <2>2, Kinds DEF Linked
  <2> QED BY <2>1, <2>2, <2>3, WorldGround
<1>2. CASE ~(P.owner[o] = p /\ ~isWorn)
  BY <1>2 DEF Drop
<1> QED BY <1>1, <1>2

-----------------------------------------------------------------------------
(* destroyObj. *)

LEMMA DoomedIs ==
    ASSUME NEW P, NEW on, NEW mem, Linked(P, on, mem), NEW D
    PROVE  /\ D \subseteq Doomed(P, D)
           /\ \A o \in Doomed(P, D) : o \in D \/ \E h \in D \intersect Boxes : o \in Owned(P, h)
           /\ \A h \in D \intersect Boxes : Owned(P, h) \subseteq Doomed(P, D)
<1>1. \A h \in Boxes : Inside(P, h) = Owned(P, h)
  BY InsideIs, Kinds
<1> QED BY <1>1 DEF Doomed

LEMMA DoomedClosed ==
    ASSUME NEW P, NEW on, NEW mem, Linked(P, on, mem), NEW D,
           \A o \in Carryable : P.owner[o] \in D \ Boxes => o \in D
    PROVE  Closed(P, Doomed(P, D))
<1> SUFFICES ASSUME NEW o \in Carryable, P.owner[o] \in Doomed(P, D) PROVE o \in Doomed(P, D)
  BY DEF Closed
<1>1. CASE P.owner[o] \in D \ Boxes
  BY <1>1, DoomedIs
<1>2. CASE P.owner[o] \in D \intersect Boxes
  <2>1. o \in Owned(P, P.owner[o])
    BY OwnedFacts
  <2> QED BY <1>2, <2>1, DoomedIs
<1>3. CASE P.owner[o] \notin D
  <2>1. PICK h \in D \intersect Boxes : P.owner[o] \in Owned(P, h)
    BY <1>3, DoomedIs
  <2>2. P.owner[o] \in Carryable
    BY <2>1, OwnedFacts
  <2>3. P \in Place
    BY DEF Linked
  <2>4. P.owner[o] \in Bags
    BY <2>2, <2>3, Kinds DEF Place
  <2>5. o \in Owned(P, h)
    BY <2>1, <2>4, OwnedFacts
  <2> QED BY <2>5, DoomedIs
<1> QED BY <1>1, <1>2, <1>3

LEMMA GoneWorld ==
    ASSUME World(place, worn, open, online, live), NEW D,
           \A o \in Carryable : place.owner[o] \in D \ Boxes => o \in D,
           Gone(place, D)
    PROVE  World(place', worn', open', online \ Doomed(place, D), live')
<1>1. Linked(place, online, live)
  BY DEF World
<1>2. Closed(place, Doomed(place, D))
  BY <1>1, DoomedClosed
<1> DEFINE E == Doomed(place, D)
<1>3. /\ place' = Nowhere(place, E) /\ live' = live \ E /\ open' = open \ E
      /\ worn' = [o \in Carryable |-> IF o \in E THEN None ELSE worn[o]]
  BY DEF Gone
<1> HIDE DEF E
<1>4. Closed(place, E)
  BY <1>2 DEF E
<1>5. World(place', worn', open \ E, online \ E, live \ E)
  BY <1>3, <1>4, WorldNowhere
<1> QED BY <1>3, <1>5 DEF E

-----------------------------------------------------------------------------
(* Records. *)

LEMMA RecordOfIs ==
    ASSUME NEW P, NEW w, NEW op, NEW on, NEW mem, Linked(P, on, mem), Fitting(P, worn, op),
           NEW c \in Chars, NEW val \in Values, NEW r, r = RecordOf(c, P, val)
    PROVE  IsRecord(r, c) /\ r.items = Owned(P, c) /\ \A o \in r.items : r.owner[o] = P.owner[o]
<1> DEFINE S == Owned(P, c)
<1>1. Inside(P, c) = S
  BY InsideIs, Kinds
<1>2. /\ r.value = val[c] /\ r.items = S
      /\ \A o \in S : r.owner[o] = CHOOSE h \in Holders : o \in P.contents[h]
      /\ \A o \in S : r.worth[o] = val[o]
      /\ r.worn = {o \in S : worn[o] # None}
  BY <1>1 DEF RecordOf
<1>3. S \in SUBSET Carryable /\ \A o \in S : P.owner[o] \in {c} \union (S \intersect Bags)
  BY OwnedFacts
<1> HIDE DEF S
<1>4. \A o \in S : r.owner[o] = P.owner[o]
  <2> TAKE o \in S
  <2>1. P.owner[o] \in Holders /\ o \in Carryable
    BY <1>3, Kinds
  <2>2. \A h \in Holders : o \in P.contents[h] <=> P.owner[o] = h
    BY <2>1 DEF Linked
  <2> QED BY <1>2, <2>1, <2>2
<1>5. r.value \in Int /\ \A o \in S : r.worth[o] \in Int
  BY <1>2, <1>3, Kinds DEF Values
<1>6. \A o \in r.worn : r.owner[o] = c
  <2>1. \A o \in Carryable : worn[o] # None => P.owner[o] = worn[o] /\ worn[o] \in Chars
    BY DEF Fitting
  <2> QED BY <1>2, <1>3, <1>4, <2>1, Kinds
<1>7. Founded(r.owner, S \intersect Bags)
  <2> SUFFICES ASSUME NEW T \in SUBSET (S \intersect Bags), T # {}, \A b \in T : r.owner[b] \in T
               PROVE  FALSE
    BY DEF Founded
  <2>1. \A b \in T : P.owner[b] \in T
    BY <1>4
  <2> QED BY <2>1 DEF Linked, Founded
<1>8. IsRecord(r, c)
  BY <1>2, <1>3, <1>4, <1>5, <1>6, <1>7 DEF IsRecord
<1> QED BY <1>2, <1>4, <1>8 DEF S

LEMMA NoRecordFacts ==
    ASSUME NEW c, NEW v \in Int
    PROVE  IsRecord([NoRecord EXCEPT !.value = v], c) /\ NoRecord.items = {} /\ IsRecord(NoRecord, c)
BY DEF IsRecord, NoRecord, Founded

LEMMA ValuesOf ==
    ASSUME NEW S, NEW f \in Values
    PROVE  ValueOf(S, f) \in Values
BY DEF ValueOf, Values

LEMMA NewWorld == World(NewRoom, [o \in Carryable |-> None], {}, {}, Chests)
<1>1. /\ NewRoom \in Place /\ NewRoom.ground = Chests
      /\ \A o \in Carryable : NewRoom.owner[o] = None
      /\ \A h \in Holders : NewRoom.contents[h] = {}
  BY Kinds DEF NewRoom, Place
<1>2. Founded(NewRoom.owner, Bags)
  BY <1>1, Kinds DEF Founded
<1>3. \A o \in Chests : GetOwner(NewRoom, o) = o
  BY Kinds DEF GetOwner
<1>4. Linked(NewRoom, {}, Chests)
  BY <1>1, <1>2, <1>3, Kinds DEF Linked
<1>5. Somewhere(NewRoom, Chests)
  BY <1>1 DEF Somewhere
<1>6. Fitting(NewRoom, [o \in Carryable |-> None], {})
  BY DEF Fitting
<1> QED BY <1>4, <1>5, <1>6 DEF World

LEMMA InitOwn == Init => OwnInv
<1> SUFFICES ASSUME Init PROVE OwnInv
  OBVIOUS
<1>1. World(place, worn, open, online, live)
  BY NewWorld DEF Init
<1>2. value \in Values
  BY DEF Init, Values
<1>3. record = [c \in Chars |-> record[c]] /\ \A c \in Chars : record[c] = [NoRecord EXCEPT !.value = Purse[c]]
  BY DEF Init
<1>4. \A c \in Chars : IsRecord(record[c], c) /\ record[c].items = {}
  <2> TAKE c \in Chars
  <2>1. Purse[c] \in Int
    BY BelongingsConstants
  <2>2. [NoRecord EXCEPT !.value = Purse[c]].items = {}
    BY DEF NoRecord
  <2> QED BY <1>3, <2>1, <2>2, NoRecordFacts
<1>5. online = {}
  BY DEF Init
<1>6. Records(online, record) /\ Single(live, record)
  BY <1>3, <1>4, <1>5 DEF Records, Single
<1> QED BY <1>1, <1>2, <1>6 DEF OwnInv, World

\* the room is written, player by player, and made again
LEMMA CrashOwn ==
    ASSUME OwnInv, NEW P, World(P, worn, open, online, live), CrashFrom(P)
    PROVE  OwnInv'
<1>1. World(place', worn', open', online', live')
  BY NewWorld DEF CrashFrom
<1>2. value' \in Values
  BY DEF CrashFrom, Values
<1>3. online' = {} /\ live' = Chests
  BY DEF CrashFrom
<1>4. record' = [c \in Chars |-> record'[c]]
  BY DEF CrashFrom
<1>5. ASSUME NEW c \in Chars
      PROVE  /\ IsRecord(record'[c], c)
             /\ c \in online => record'[c].items = Owned(P, c)
             /\ c \notin online => record'[c] = record[c]
  <2>1. CASE c \in online
    <3>1. record'[c] = RecordOf(c, P, value)
      BY <2>1 DEF CrashFrom
    <3>2. Linked(P, online, live) /\ Fitting(P, worn, open) /\ value \in Values
      BY DEF World, OwnInv
    <3> QED BY <2>1, <3>1, <3>2, RecordOfIs
  <2>2. CASE c \notin online
    BY <2>2 DEF CrashFrom, OwnInv, Records
  <2> QED BY <2>1, <2>2
<1>6. \A c \in Chars : Owned(P, c) \subseteq live
  BY OwnedAlive, Kinds DEF World
<1>7. \A c, d \in Chars : c # d => Owned(P, c) \intersect Owned(P, d) = {}
  BY Apart
<1>8. \A c \in Chars : record'[c].items \intersect live' = {}
  <2>1. \A c \in Chars : record'[c].items \subseteq Carryable
    BY <1>5 DEF IsRecord
  <2> QED BY <1>3, <2>1, Kinds
<1>9. \A c, d \in Chars : c # d => record'[c].items \intersect record'[d].items = {}
  <2> TAKE c, d \in Chars
  <2>1. Single(live, record)
    BY DEF OwnInv
  <2> QED BY <1>5, <1>6, <1>7, <2>1 DEF Single
<1> QED BY <1>1, <1>2, <1>3, <1>4, <1>5, <1>8, <1>9 DEF OwnInv, World, Records, Single

LEMMA LogoutOwn ==
    ASSUME OwnInv, NEW c \in Chars, Logout(c)
    PROVE  OwnInv'
<1> DEFINE D == {c} \union Inside(place, c)
           E == Doomed(place, D)
<1>1. World(place, worn, open, online, live) /\ Linked(place, online, live) /\ Fitting(place, worn, open)
  BY DEF OwnInv, World
<1>2. Inside(place, c) = Owned(place, c)
  BY <1>1, InsideIs, Kinds
<1>3. \A o \in Carryable : place.owner[o] \in D \ Boxes => o \in D
  <2>1. \A o \in Carryable : place.owner[o] \in Holders \union {None}
    BY <1>1 DEF Linked, Place
  <2>2. Owned(place, c) \subseteq Carryable
    BY OwnedFacts
  <2>3. \A o \in Carryable : place.owner[o] = c => o \in Owned(place, c)
    BY OwnedFacts
  <2>4. \A o \in Carryable : place.owner[o] \in D \ Boxes => place.owner[o] = c
    BY <1>2, <2>1, <2>2, Kinds
  <2> QED BY <1>2, <2>3, <2>4
<1>4. Gone(place, D) /\ online' = online \ {c} /\ value' = ValueOf(live' \union online', value)
      /\ record' = [record EXCEPT ![c] = RecordOf(c, place, value)] /\ c \in online
  BY DEF Logout
<1>5. World(place', worn', open', online \ E, live') /\ live' = live \ E
  BY <1>1, <1>3, <1>4, GoneWorld DEF Gone
<1>6. D \subseteq E /\ \A o \in E : o = c \/ o \in Carryable
  <2>1. \A o \in E : o \in D \/ \E h \in D \intersect Boxes : o \in Owned(place, h)
    BY <1>1, DoomedIs
  <2>2. D \subseteq E
    BY <1>1, DoomedIs
  <2>3. \A h : Owned(place, h) \subseteq Carryable
    BY OwnedFacts
  <2> QED BY <1>2, <2>1, <2>2, <2>3
<1>7. online \ E = online'
  BY <1>1, <1>4, <1>6, Kinds DEF Linked
<1>8. value' \in Values
  BY <1>4, ValuesOf DEF OwnInv
<1>9. IsRecord(record'[c], c) /\ record'[c].items = Owned(place, c)
  <2>1. record'[c] = RecordOf(c, place, value) /\ value \in Values
    BY <1>4 DEF OwnInv, Records
  <2> QED BY <1>1, <2>1, RecordOfIs
<1>10. record' = [d \in Chars |-> record'[d]] /\ \A d \in Chars : d # c => record'[d] = record[d]
  BY <1>4 DEF OwnInv, Records
<1>11. Records(online', record')
  BY <1>4, <1>9, <1>10 DEF Records, OwnInv
<1>12. Owned(place, c) \subseteq live /\ Owned(place, c) \subseteq E
  <2>1. c \in Holders
    BY Kinds
  <2>2. Owned(place, c) \subseteq live
    BY <1>1, <2>1, OwnedAlive
  <2> QED BY <1>2, <1>6, <2>2
<1>13. Single(live', record')
  BY <1>5, <1>9, <1>10, <1>12 DEF Single, OwnInv
<1> QED BY <1>5, <1>7, <1>8, <1>11, <1>13 DEF OwnInv, World

LEMMA LoginOwn ==
    ASSUME OwnInv, NEW c \in Chars, Login(c)
    PROVE  OwnInv'
<1> DEFINE r == record[c]
           I == r.items
<1>1. /\ Linked(place, online, live) /\ Somewhere(place, live) /\ Fitting(place, worn, open)
      /\ value \in Values /\ Records(online, record) /\ Single(live, record)
  BY DEF OwnInv
<1>2. IsRecord(r, c) /\ I \in SUBSET Carryable /\ I \intersect live = {} /\ c \notin online
  BY <1>1 DEF Records, IsRecord, Single, Login
<1>3. /\ online' = online \union {c} /\ live' = live \union I /\ open' = open
      /\ record' = [record EXCEPT ![c] = NoRecord]
  BY DEF Login
<1>4. place \in Place
  BY <1>1 DEF Linked
<1>5. /\ place'.ground = place.ground
      /\ \A o \in Carryable : o \in I => place'.owner[o] = r.owner[o]
      /\ \A o \in Carryable : o \notin I => place'.owner[o] = place.owner[o]
      /\ \A h \in Holders : h \in {c} \union I => place'.contents[h] = {o \in I : r.owner[o] = h}
      /\ \A h \in Holders : h \notin {c} \union I => place'.contents[h] = place.contents[h]
      /\ place' = [place EXCEPT !.owner = place'.owner, !.contents = place'.contents]
      /\ place'.owner = [o \in Carryable |-> place'.owner[o]]
      /\ place'.contents = [h \in Holders |-> place'.contents[h]]
  BY <1>4 DEF Login, Place
<1>6. \A o \in I : r.owner[o] \in {c} \union (I \intersect Bags)
  BY <1>2 DEF IsRecord
<1>7. place' \in Place
  <2>1. \A o \in Carryable : place'.owner[o] \in Holders \union {None}
    BY <1>4, <1>5, <1>6, Kinds DEF Place
  <2>2. \A h \in Holders : place'.contents[h] \in SUBSET Carryable
    BY <1>2, <1>4, <1>5 DEF Place
  <2> QED BY <1>4, <1>5, <2>1, <2>2 DEF Place
<1> HIDE DEF I
<1>8. \A o \in Carryable : place.owner[o] # None => o \in live /\ place.owner[o] \in online \union live
  BY <1>1 DEF Linked
<1>9. \A o \in Carryable, h \in Holders : o \in place'.contents[h] <=> place'.owner[o] = h
  <2> TAKE o \in Carryable, h \in Holders
  <2>1. o \in place.contents[h] <=> place.owner[o] = h
    BY <1>1 DEF Linked
  <2>2. CASE h \in {c} \union I
    <3>1. o \in place'.contents[h] <=> o \in I /\ r.owner[o] = h
      BY <1>5, <2>2
    <3>2. o \notin I => place'.owner[o] # h
      BY <1>1, <1>2, <1>5, <1>8, <2>2, Kinds DEF Linked
    <3> QED BY <1>5, <3>1, <3>2
  <2>3. CASE h \notin {c} \union I
    <3>1. o \in place'.contents[h] <=> place.owner[o] = h
      BY <1>5, <2>1, <2>3
    <3>2. CASE o \in I
      BY <1>2, <1>5, <1>6, <1>8, <2>3, <3>1, <3>2, Kinds
    <3>3. CASE o \notin I
      BY <1>5, <3>1, <3>3
    <3> QED BY <3>2, <3>3
  <2> QED BY <2>2, <2>3
<1>10. \A o \in Carryable : place'.owner[o] # None => o \in live' /\ place'.owner[o] \in online' \union live'
  BY <1>3, <1>5, <1>6, <1>8
<1>11. ASSUME NEW o \in Objects, o \notin I PROVE GetOwner(place', o) = GetOwner(place, o)
  BY <1>5, <1>11 DEF GetOwner
<1>12. \A o \in place'.ground : o \in live' /\ GetOwner(place', o) = o
  <2> TAKE o \in place'.ground
  <2>1. o \in live /\ GetOwner(place, o) = o
    BY <1>1, <1>5 DEF Linked
  <2>2. o \in Objects /\ o \notin I
    BY <1>1, <1>2, <2>1 DEF Linked
  <2> QED BY <1>3, <1>11, <2>1, <2>2
<1>13. Founded(place'.owner, Bags)
  <2> SUFFICES ASSUME NEW S \in SUBSET Bags, S # {}, \A b \in S : place'.owner[b] \in S PROVE FALSE
    BY DEF Founded
  <2>1. CASE S \intersect I # {}
    <3> DEFINE T == S \intersect I
    <3>1. T \in SUBSET (I \intersect Bags) /\ T # {}
      BY <2>1
    <3>2. \A b \in T : r.owner[b] \in T
      BY <1>2, <1>5, <1>6, Kinds
    <3> QED BY <1>2, <3>1, <3>2 DEF IsRecord, Founded, I
  <2>2. CASE S \intersect I = {}
    <3>1. \A b \in S : place.owner[b] \in S
      BY <1>5, <2>2, Kinds
    <3> QED BY <1>1, <3>1 DEF Linked, Founded
  <2> QED BY <2>1, <2>2
<1>14. online' \in SUBSET Chars /\ live' \in SUBSET Objects
  BY <1>1, <1>2, <1>3, Kinds DEF Linked
<1>15. Linked(place', online', live')
  BY <1>7, <1>9, <1>10, <1>12, <1>13, <1>14 DEF Linked
<1>16. Somewhere(place', live')
  <2> SUFFICES ASSUME NEW o \in live' \ Piles PROVE o \in place'.ground \/ GetOwner(place', o) # o
    BY DEF Somewhere
  <2>1. CASE o \in I
    <3>1. o \in Carryable /\ place'.owner[o] \in {c} \union Bags
      BY <1>2, <1>5, <1>6, <2>1
    <3>2. place'.owner[o] # None
      BY <3>1, Kinds
    <3> QED BY <1>15, <3>1, <3>2, OwnedNotGround
  <2>2. CASE o \notin I
    <3>1. o \in live \ Piles /\ o \in Objects
      BY <1>3, <1>14, <2>2
    <3> QED BY <1>1, <1>5, <1>11, <2>2, <3>1 DEF Somewhere
  <2> QED BY <2>1, <2>2
<1>17. Fitting(place', worn', open')
  <2>1. /\ worn' = [o \in Carryable |-> worn'[o]]
        /\ \A o \in Carryable : o \in r.worn => worn'[o] = r.owner[o]
        /\ \A o \in Carryable : o \notin r.worn => worn'[o] = worn[o]
    BY DEF Login
  <2>2. r.worn \subseteq I /\ \A o \in r.worn : r.owner[o] = c
    BY <1>2 DEF IsRecord, I
  <2>3. worn \in [Carryable -> Chars \union {None}] /\ \A o \in Carryable : worn[o] # None => place.owner[o] = worn[o]
    BY <1>1 DEF Fitting
  <2>4. \A o \in Carryable : worn'[o] \in Chars \union {None} /\ (worn'[o] # None => place'.owner[o] = worn'[o])
    <3> TAKE o \in Carryable
    <3>1. CASE o \in r.worn
      BY <1>5, <2>1, <2>2, <3>1
    <3>2. CASE o \notin r.worn
      <4>1. worn'[o] = worn[o]
        BY <2>1, <3>2
      <4>2. o \in I => worn[o] = None
        BY <1>2, <1>8, <2>3
      <4> QED BY <1>5, <2>3, <4>1, <4>2
    <3> QED BY <3>1, <3>2
  <2>5. open' \in SUBSET (place'.ground \intersect Lidded)
    BY <1>1, <1>3, <1>5 DEF Fitting
  <2> QED BY <2>1, <2>4, <2>5 DEF Fitting
<1>18. value' \in Values
  <2>1. r.value \in Int /\ \A o \in I : r.worth[o] \in Int
    BY <1>2 DEF IsRecord, I
  <2>2. value' = [x \in Chars \union Objects |->
                IF x = c THEN r.value ELSE IF x \in I THEN r.worth[x] ELSE value[x]]
    BY DEF Login, I
  <2> QED BY <1>1, <2>1, <2>2 DEF Values
<1>19. record' = [d \in Chars |-> record'[d]] /\ record'[c] = NoRecord /\ \A d \in Chars : d # c => record'[d] = record[d]
  BY <1>1, <1>3 DEF Records
<1>20. NoRecord.items = {} /\ IsRecord(NoRecord, c)
  <2>1. 0 \in Int
    OBVIOUS
  <2> QED BY <2>1, NoRecordFacts
<1>21. Records(online', record')
  BY <1>1, <1>3, <1>19, <1>20 DEF Records
<1>22. Single(live', record')
  BY <1>1, <1>3, <1>19, <1>20 DEF Single, I
<1> QED BY <1>15, <1>16, <1>17, <1>18, <1>21, <1>22 DEF OwnInv

-----------------------------------------------------------------------------
(* Steps that leave the records alone. *)

\* what is new in memory is in no record
Fresh(o) == o \notin live \union Saved

LEMMA StepOwn ==
    ASSUME OwnInv, World(place', worn', open', online, live'), value' \in Values,
           UNCHANGED <<online, record>>, \A o \in live' : o \in live \/ Fresh(o)
    PROVE  OwnInv'
<1>1. \A c \in Chars : record[c].items \intersect live' = {}
  <2> TAKE c \in Chars
  <2>1. CASE c \in online
    <3>1. NoRecord.items = {}
      BY DEF NoRecord
    <3> QED BY <2>1, <3>1 DEF OwnInv, Records
  <2>2. CASE c \notin online
    BY <2>2 DEF OwnInv, Single, Fresh, Saved
  <2> QED BY <2>1, <2>2
<1> QED BY <1>1 DEF OwnInv, World, Records, Single

\* the place of things changes, nothing comes or goes
LEMMA MoveOwn ==
    ASSUME OwnInv, World(place', worn', open', online, live), value' \in Values,
           UNCHANGED <<online, live, record>>
    PROVE  OwnInv'
BY StepOwn

\* something is destroyed
LEMMA GoneOwn ==
    ASSUME OwnInv, NEW D \in SUBSET Objects, Gone(place, D),
           NEW f \in Values, value' = ValueOf(live' \union online, f), UNCHANGED <<online, record>>,
           \A o \in Carryable : place.owner[o] \in D \ Boxes => o \in D
    PROVE  OwnInv'
<1> DEFINE E == Doomed(place, D)
<1>1. World(place, worn, open, online, live) /\ Linked(place, online, live)
  BY DEF OwnInv, World
<1>2. World(place', worn', open', online \ E, live')
  BY <1>1, GoneWorld
<1>3. \A o \in E : o \in Objects
  <2>1. \A o \in E : o \in D \/ \E h \in D \intersect Boxes : o \in Owned(place, h)
    BY <1>1, DoomedIs
  <2>2. \A h : Owned(place, h) \subseteq Carryable
    BY OwnedFacts
  <2> QED BY <2>1, <2>2, Kinds
<1>4. online \ E = online
  BY <1>1, <1>3, Kinds DEF Linked
<1>5. value' \in Values
  BY ValuesOf
<1>6. live' \subseteq live
  BY DEF Gone
<1> QED BY <1>2, <1>4, <1>5, <1>6, StepOwn

\* a thing or a pile comes into being, in a holder or on the ground
LEMMA NewFits ==
    ASSUME OwnInv, NEW o \in Carryable, o \notin live
    PROVE  /\ Linked(place, online, live \union {o}) /\ Somewhere(place, (live \union {o}) \ {o})
           /\ place.owner[o] = None /\ worn[o] = None /\ o \notin open /\ o \notin place.ground
           /\ \A h \in Holders : h \notin Owned(place, o)
<1>1. /\ Linked(place, online, live) /\ Somewhere(place, live) /\ Fitting(place, worn, open)
  BY DEF OwnInv
<1>2. Linked(place, online, live \union {o})
  BY <1>1, LinkedMore, Kinds DEF Linked
<1>3. Somewhere(place, (live \union {o}) \ {o})
  BY <1>1 DEF Somewhere
<1>4. place.owner[o] = None /\ o \notin place.ground
  BY <1>1 DEF Linked
<1>5. worn[o] = None /\ o \notin open
  BY <1>1, <1>4 DEF Fitting
<1>6. \A h \in Holders : h \notin Owned(place, o)
  <2>1. o \notin online \union live
    BY <1>1, Kinds DEF Linked
  <2>2. \A x \in Carryable : place.owner[x] # o
    BY <1>1, <2>1, Kinds DEF Linked
  <2> QED BY <2>2, OwnedNone
<1> QED BY <1>2, <1>3, <1>4, <1>5, <1>6

\* a new thing is given to a holder
LEMMA NewGiven ==
    ASSUME OwnInv, NEW o \in Carryable, o \notin live,
           NEW h \in Holders, h \in online \union live
    PROVE  World(BeGivenTo(place, o, h, TRUE, TRUE), worn, open, online, live \union {o})
<1> PICK Q : Q = BeGivenTo(place, o, h, TRUE, TRUE)
  OBVIOUS
<1>1. /\ Linked(place, online, live \union {o}) /\ Somewhere(place, (live \union {o}) \ {o})
      /\ place.owner[o] = None /\ worn[o] = None /\ o \notin open /\ h \notin Owned(place, o)
  BY NewFits
<1>2. h # o
  BY Kinds DEF OwnInv, Linked
<1>3. Q = Into(place, o, h)
  BY <1>1, <1>2, Kinds DEF BeGivenTo
<1>4. Fitting(place, worn, open) /\ h \in online \union (live \union {o}) /\ o \in live \union {o}
  BY DEF OwnInv
<1>5. World(Q, worn, open, online, live \union {o})
  BY <1>1, <1>2, <1>3, <1>4, WorldInto
<1> QED BY <1>5

-----------------------------------------------------------------------------
(* Money. *)

LEMMA Wraps == ASSUME NEW x \in Int PROVE Wrap(x) \in Int
BY BelongingsConstants DEF Wrap

LEMMA MinOfTwo ==
    ASSUME NEW x \in Int, NEW y \in Int
    PROVE  Min({x, y}) \in {x, y} /\ Min({x, y}) <= x /\ Min({x, y}) <= y
<1>1. \E m \in {x, y} : \A z \in {x, y} : m <= z
  <2>1. CASE x <= y
    BY <2>1
  <2>2. CASE y <= x
    BY <2>2
  <2> QED BY <2>1, <2>2
<1>2. Min({x, y}) \in {x, y} /\ \A z \in {x, y} : Min({x, y}) <= z
  BY <1>1 DEF Min
<1> QED BY <1>2

LEMMA MaxOfTwo ==
    ASSUME NEW x \in Int, NEW y \in Int
    PROVE  Max({x, y}) \in {x, y} /\ x <= Max({x, y}) /\ y <= Max({x, y})
<1>1. \E m \in {x, y} : \A z \in {x, y} : m >= z
  <2>1. CASE x <= y
    BY <2>1
  <2>2. CASE y <= x
    BY <2>2
  <2> QED BY <2>1, <2>2
<1>2. Max({x, y}) \in {x, y} /\ \A z \in {x, y} : Max({x, y}) >= z
  BY <1>1 DEF Max
<1> QED BY <1>2

LEMMA MoneyGiveOwn ==
    ASSUME OwnInv, NEW p \in Chars, NEW h \in Holders, NEW n \in Nat, MoneyGive(p, h, n)
    PROVE  OwnInv'
<1> DEFINE m == Receivable(h, n)
<1>1. value \in Values /\ h \in Chars \union Objects
  BY Kinds DEF OwnInv, Holders
<1>2. m \in Int
  BY <1>1, BelongingsConstants DEF Receivable, Values
<1>3. value' = [[value EXCEPT ![p] = @ - m] EXCEPT ![h] = Wrap(@ + m)]
  BY DEF MoneyGive
<1> HIDE DEF m
<1>4. PICK paid : paid = [value EXCEPT ![p] = @ - m]
  OBVIOUS
<1>5. paid \in Values
  BY <1>1, <1>2, <1>4 DEF Values
<1>6. Wrap(paid[h] + m) \in Int
  BY <1>1, <1>2, <1>5, Wraps DEF Values
<1>7. value' \in Values
  BY <1>3, <1>4, <1>5, <1>6 DEF Values
<1> QED BY <1>7, MoveOwn DEF MoneyGive, OwnInv, World

LEMMA RobOwn ==
    ASSUME OwnInv, NEW p \in Chars, NEW q \in Chars, NEW n \in Nat, Rob(p, q, n)
    PROVE  OwnInv'
<1> DEFINE m == Min({value[q], n})
<1>1. value \in Values
  BY DEF OwnInv
<1>2. m \in Int
  <2>1. value[q] \in Int /\ n \in Int
    BY <1>1 DEF Values
  <2> QED BY <2>1, MinOfTwo
<1>3. value' = [[value EXCEPT ![q] = @ - m] EXCEPT ![p] = Wrap(@ + m)]
  BY DEF Rob
<1> HIDE DEF m
<1>4. PICK lost : lost = [value EXCEPT ![q] = @ - m]
  OBVIOUS
<1>5. lost \in Values
  BY <1>1, <1>2, <1>4 DEF Values
<1>6. Wrap(lost[p] + m) \in Int
  BY <1>1, <1>2, <1>5, Wraps DEF Values
<1>7. value' \in Values
  BY <1>3, <1>4, <1>5, <1>6 DEF Values
<1> QED BY <1>7, MoveOwn DEF Rob, OwnInv, World

\* p pays k for a thing or a pile that is worth n
Paid(f, p, k, m, n) == [f EXCEPT ![p] = @ - k, ![m] = n]

LEMMA Spent ==
    ASSUME NEW f \in Values, NEW p \in Chars, NEW m \in Objects, NEW k \in Int, NEW n \in Int,
           NEW g, g = Paid(f, p, k, m, n)
    PROVE  /\ g \in Values /\ g[p] = f[p] - k /\ g[m] = n
           /\ \A x \in Chars \union Objects : x \notin {p, m} => g[x] = f[x]
<1>1. p # m
  BY Kinds
<1>2. PICK e : e = [f EXCEPT ![p] = @ - k]
  OBVIOUS
<1>3. e \in Values /\ e[p] = f[p] - k /\ \A x \in Chars \union Objects : x # p => e[x] = f[x]
  BY <1>2 DEF Values
<1>4. g = [e EXCEPT ![m] = n]
  BY <1>2 DEF Paid
<1> QED BY <1>1, <1>3, <1>4 DEF Values

LEMMA MoneyDropOwn ==
    ASSUME OwnInv, NEW p \in Chars, NEW n \in Nat, MoneyDrop(p, n)
    PROVE  OwnInv'
<1>1. PICK m \in Piles \ (live \union Saved) :
        /\ live' = live \union {m}
        /\ place' = OnGround(place, m)
        /\ value' = [value EXCEPT ![p] = @ - n, ![m] = n]
  BY DEF MoneyDrop
<1>2. UNCHANGED <<online, worn, open, record>>
  BY DEF MoneyDrop
<1>3. m \in Carryable /\ m \notin live
  BY Kinds
<1>4. /\ Linked(place, online, live \union {m}) /\ Somewhere(place, (live \union {m}) \ {m})
      /\ worn[m] = None
  BY <1>3, NewFits
<1>5. Fitting(place, worn, open)
  BY DEF OwnInv
<1>6. World(place', worn, open, online, live')
  BY <1>1, <1>3, <1>4, <1>5, WorldGround
<1>7. value' \in Values
  <2>1. value' = Paid(value, p, n, m, n) /\ m \in Objects /\ n \in Int
    BY <1>1, <1>3, Kinds DEF Paid
  <2>2. value \in Values
    BY DEF OwnInv
  <2> QED BY <2>1, <2>2, Spent
<1>8. \A o \in live' : o \in live \/ Fresh(o)
  BY <1>1 DEF Fresh
<1> QED BY <1>2, <1>6, <1>7, <1>8, StepOwn

LEMMA MoneyPutOwn ==
    ASSUME OwnInv, NEW p \in Chars, NEW d, NEW n \in Nat, MoneyPut(p, d, n)
    PROVE  OwnInv'
<1>1. PICK m \in Piles \ (live \union Saved) :
        /\ live' = live \union {m}
        /\ place' = IF d \in Holders THEN BeGivenTo(place, m, d, TRUE, TRUE) ELSE place
        /\ value' = [value EXCEPT ![p] = @ - n, ![m] = n]
  BY DEF MoneyPut
<1>2. UNCHANGED <<online, worn, open, record>> /\ d \in online \union live
  BY DEF MoneyPut
<1>3. m \in Carryable /\ m \notin live
  BY Kinds
<1>4. World(place', worn, open, online, live')
  <2>1. CASE d \in Holders
    BY <1>1, <1>2, <1>3, <2>1, NewGiven
  <2>2. CASE d \notin Holders
    <3>1. Linked(place, online, live') /\ Somewhere(place, live')
      BY <1>1, <1>3, NewFits DEF Somewhere
    <3> QED BY <1>1, <2>2, <3>1 DEF World, OwnInv
  <2> QED BY <2>1, <2>2
<1>5. value' \in Values
  <2>1. value' = Paid(value, p, n, m, n) /\ m \in Objects /\ n \in Int
    BY <1>1, <1>3, Kinds DEF Paid
  <2>2. value \in Values
    BY DEF OwnInv
  <2> QED BY <2>1, <2>2, Spent
<1>6. \A o \in live' : o \in live \/ Fresh(o)
  BY <1>1 DEF Fresh
<1> QED BY <1>2, <1>4, <1>5, <1>6, StepOwn

LEMMA MoneyTakeOwn ==
    ASSUME OwnInv, NEW p \in Chars, NEW m \in Piles, MoneyTake(p, m)
    PROVE  OwnInv'
<1> DEFINE D == {m} \union TossedWith(m)
           total == Wrap(value[p] + value[m])
           f == [value EXCEPT ![p] = total]
<1>1. value \in Values /\ place \in Place
  BY DEF OwnInv, Linked
<1>2. total \in Int
  BY <1>1, Wraps, Kinds DEF Values
<1>3. f \in Values
  BY <1>1, <1>2 DEF Values
<1>4. Gone(place, D) /\ value' = ValueOf(live' \union online, f) /\ UNCHANGED <<online, record>>
  BY DEF MoneyTake
<1>5. \A x \in TossedWith(m) : x \in Boxes
  BY Kinds DEF TossedWith
<1>6. D \in SUBSET Objects
  BY <1>5, Kinds
<1>7. \A o \in Carryable : place.owner[o] \in D \ Boxes => o \in D
  BY <1>1, <1>5, Kinds DEF Place
<1> HIDE DEF D, f
<1> QED BY <1>3, <1>4, <1>6, <1>7, GoneOwn

-----------------------------------------------------------------------------
(* The verbs. *)

LEMMA GetOwn ==
    ASSUME OwnInv, NEW p \in Chars, NEW o \in Carryable, Get(p, o)
    PROVE  OwnInv'
<1> DEFINE h == GetOwner(place, o)
           packs == {k \in Packs : worn[k] = p}
<1>1. PICK fits \in BOOLEAN, stows \in BOOLEAN :
            LET taken  == Take(place, o, p, fits)
                stowed == IF packs # {} /\ BaseOwner(place, o) # p /\ worn[o] = None
                          THEN BeGivenTo(taken, o, CHOOSE k \in packs : TRUE, FALSE, stows)
                          ELSE taken
                tossed == {x \in {h} \ {o} : taken # place /\ x \in Tossed
                                             /\ stowed.contents[x] = {}}
            IN  /\ place' = Nowhere(stowed, tossed)
                /\ live' = live \ tossed
                /\ open' = (open \ {o}) \ tossed
                /\ worn' = [x \in Carryable |-> IF x \in tossed THEN None ELSE worn[x]]
                /\ value' = ValueOf(live' \union online, value)
                /\ UNCHANGED <<online, record>>
  BY DEF Get
<1>2. PICK taken : taken = Take(place, o, p, fits)
  OBVIOUS
<1>3. PICK stowed : stowed = IF packs # {} /\ BaseOwner(place, o) # p /\ worn[o] = None
                             THEN BeGivenTo(taken, o, CHOOSE k \in packs : TRUE, FALSE, stows)
                             ELSE taken
  OBVIOUS
<1>4. PICK D : D = {x \in {h} \ {o} : taken # place /\ x \in Tossed /\ stowed.contents[x] = {}}
  OBVIOUS
<1>5. /\ place' = Nowhere(stowed, D) /\ live' = live \ D /\ open' = (open \ {o}) \ D
      /\ worn' = [x \in Carryable |-> IF x \in D THEN None ELSE worn[x]]
      /\ value' = ValueOf(live' \union online, value)
      /\ UNCHANGED <<online, record>>
  BY <1>1, <1>2, <1>3, <1>4
<1>6. p \in online /\ o \in live /\ World(place, worn, open, online, live)
  BY DEF Get, MayTouch, OwnInv, World
<1>7. World(taken, worn, open \ {o}, online, live)
  BY <1>2, <1>6, WorldTake
<1>8. World(stowed, worn, open \ {o}, online, live)
  <2>1. CASE packs # {} /\ BaseOwner(place, o) # p /\ worn[o] = None
    <3>1. PICK k : k = CHOOSE x \in packs : TRUE
      OBVIOUS
    <3>2. k \in Packs /\ worn[k] = p
      BY <2>1, <3>1
    <3>3. k \in Carryable /\ k \in Holders /\ k \in Bags
      BY <3>2, Kinds
    <3>4. place.owner[k] = p
      BY <1>6, <3>2, <3>3, Kinds DEF World, Fitting
    <3>5. k \in live
      BY <1>6, <3>3, <3>4, Kinds DEF World, Linked
    <3>6. stowed = BeGivenTo(taken, o, k, FALSE, stows)
      BY <1>3, <2>1, <3>1
    <3> QED BY <1>7, <3>3, <3>5, <3>6, WorldGiven
  <2>2. CASE ~(packs # {} /\ BaseOwner(place, o) # p /\ worn[o] = None)
    BY <1>3, <1>7, <2>2
  <2> QED BY <2>1, <2>2
<1>9. Closed(stowed, D)
  <2> SUFFICES ASSUME NEW x \in Carryable, stowed.owner[x] \in D PROVE FALSE
    BY DEF Closed
  <2>1. stowed.owner[x] \in Holders /\ stowed.contents[stowed.owner[x]] = {}
    BY <1>4, Kinds
  <2> QED BY <1>8, <2>1 DEF World, Linked
<1>10. World(place', worn', open', online \ D, live')
  BY <1>5, <1>8, <1>9, WorldNowhere
<1>11. online \ D = online
  BY <1>4, <1>6, Kinds DEF World, Linked
<1>12. value' \in Values
  BY <1>5, ValuesOf DEF OwnInv
<1>13. \A x \in live' : x \in live \/ Fresh(x)
  BY <1>5
<1> QED BY <1>5, <1>10, <1>11, <1>12, <1>13, StepOwn

LEMMA DroppedOwn ==
    ASSUME OwnInv, NEW p \in Chars, NEW o \in Carryable, Dropped(p, o)
    PROVE  OwnInv'
<1>1. World(place, worn, open, online, live) /\ value \in Values
  BY DEF OwnInv, World
<1>2. place' = Drop(place, o, p, worn[o] # None) /\ UNCHANGED <<online, live, worn, open, value, record>>
  BY DEF Dropped
<1>3. PICK isWorn \in BOOLEAN : isWorn = (worn[o] # None)
  OBVIOUS
<1>4. place' = Drop(place, o, p, isWorn) /\ (~isWorn => worn[o] = None)
  BY <1>2, <1>3
<1>5. World(place', worn, open, online, live)
  BY <1>1, <1>4, WorldDrop
<1> QED BY <1>1, <1>2, <1>5, MoveOwn

LEMMA GiveOwn ==
    ASSUME OwnInv, NEW p \in Chars, NEW o \in Carryable, NEW h \in Holders, Give(p, o, h)
    PROVE  OwnInv'
<1>1. World(place, worn, open, online, live) /\ value \in Values
  BY DEF OwnInv, World
<1>2. PICK fits \in BOOLEAN :
        IF h \in Chars
        THEN place' = BeGivenTo(place, o, h, FALSE, fits)
             /\ UNCHANGED <<online, live, worn, open, value, record>>
        ELSE CrashFrom(BeGivenTo(place, o, h, FALSE, fits))
  BY DEF Give
<1>3. h \in online \union live
  BY DEF Give
<1>4. PICK given : given = BeGivenTo(place, o, h, FALSE, fits)
  OBVIOUS
<1>5. World(given, worn, open, online, live)
  BY <1>1, <1>3, <1>4, WorldGiven
<1>6. CASE h \in Chars
  <2>1. place' = given /\ UNCHANGED <<online, live, worn, open, value, record>>
    BY <1>2, <1>4, <1>6
  <2> QED BY <1>1, <1>5, <2>1, MoveOwn
<1>7. CASE h \notin Chars
  <2>1. CrashFrom(given)
    BY <1>2, <1>4, <1>7
  <2> QED BY <1>5, <2>1, CrashOwn
<1> QED BY <1>6, <1>7

LEMMA PutInOwn ==
    ASSUME OwnInv, NEW p \in Chars, NEW o \in Carryable, NEW h \in Holders, PutIn(p, o, h)
    PROVE  OwnInv'
<1>1. World(place, worn, open, online, live) /\ value \in Values
  BY DEF OwnInv, World
<1>2. place' = BeGivenTo(place, o, h, FALSE, TRUE) /\ h \in online \union live
      /\ UNCHANGED <<online, live, worn, open, value, record>>
  BY DEF PutIn
<1>3. World(place', worn, open, online, live)
  BY <1>1, <1>2, WorldGiven
<1> QED BY <1>1, <1>2, <1>3, MoveOwn

LEMMA PutOnOwn ==
    ASSUME OwnInv, NEW p \in Chars, NEW o \in Carryable, PutOn(p, o)
    PROVE  OwnInv'
<1>1. World(place, worn, open, online, live) /\ value \in Values
  BY DEF OwnInv, World
<1>2. /\ place.owner[o] = p /\ worn' = [worn EXCEPT ![o] = p]
      /\ UNCHANGED <<online, live, place, open, value, record>>
  BY DEF PutOn
<1>3. Fitting(place, worn', open)
  BY <1>1, <1>2 DEF World, Fitting
<1> QED BY <1>1, <1>2, <1>3, MoveOwn DEF World

LEMMA TakeOffOwn ==
    ASSUME OwnInv, NEW p \in Chars, NEW o \in Carryable, TakeOff(p, o)
    PROVE  OwnInv'
<1>1. World(place, worn, open, online, live) /\ value \in Values
  BY DEF OwnInv, World
<1>2. /\ worn' = [worn EXCEPT ![o] = None]
      /\ UNCHANGED <<online, live, place, open, value, record>>
  BY DEF TakeOff
<1>3. Fitting(place, worn', open)
  BY <1>1, <1>2 DEF World, Fitting
<1> QED BY <1>1, <1>2, <1>3, MoveOwn DEF World

LEMMA OpenOwn ==
    ASSUME OwnInv, NEW p \in Chars, NEW o \in Boxes, Open(p, o)
    PROVE  OwnInv'
<1>1. World(place, worn, open, online, live) /\ value \in Values
  BY DEF OwnInv, World
<1>2. /\ open' = open \union {o} /\ o \in Lidded /\ InRoom(place, o) /\ GetOwner(place, o) = o
      /\ UNCHANGED <<online, live, place, worn, value, record>>
  BY DEF Open
<1>3. BaseOwner(place, o) = o
  BY <1>2 DEF BaseOwner
<1>4. o \in place.ground
  BY <1>1, <1>2, <1>3, Kinds DEF InRoom, World, Linked
<1>5. Fitting(place, worn, open')
  BY <1>1, <1>2, <1>4 DEF World, Fitting
<1> QED BY <1>1, <1>2, <1>5, MoveOwn DEF World

LEMMA CloseOwn ==
    ASSUME OwnInv, NEW p \in Chars, NEW o \in Boxes, Close(p, o)
    PROVE  OwnInv'
<1>1. World(place, worn, open, online, live) /\ value \in Values
  BY DEF OwnInv, World
<1>2. /\ open' = open \ {o}
      /\ UNCHANGED <<online, live, place, worn, value, record>>
  BY DEF Close
<1>3. World(place, worn, open', online, live)
  BY <1>1, <1>2, WorldShut
<1> QED BY <1>1, <1>2, <1>3, MoveOwn

LEMMA DieOwn ==
    ASSUME OwnInv, NEW p \in Chars, NEW o \in Carryable, Die(p, o)
    PROVE  OwnInv'
<1>1. World(place, worn, open, online, live) /\ value \in Values /\ Linked(place, online, live)
  BY DEF OwnInv, World
<1>2. PICK off \in BOOLEAN, fits \in BOOLEAN :
        LET isWorn == worn[o] # None /\ ~off
            held == IF isWorn \/ place.owner[o] = p THEN place
                    ELSE BeGivenTo(place, o, p, FALSE, fits)
        IN  /\ place' = Drop(held, o, p, isWorn)
            /\ worn' = IF isWorn THEN worn ELSE [worn EXCEPT ![o] = None]
            /\ UNCHANGED <<online, live, open, value, record>>
  BY DEF Die
<1>3. PICK isWorn \in BOOLEAN : isWorn = (worn[o] # None /\ ~off)
  OBVIOUS
<1>4. PICK held : held = IF isWorn \/ place.owner[o] = p THEN place
                         ELSE BeGivenTo(place, o, p, FALSE, fits)
  OBVIOUS
<1>5. /\ place' = Drop(held, o, p, isWorn)
      /\ worn' = IF isWorn THEN worn ELSE [worn EXCEPT ![o] = None]
      /\ UNCHANGED <<online, live, open, value, record>>
  BY <1>2, <1>3, <1>4
<1>6. p \in online
  <2>1. o \in Owned(place, p)
    BY <1>1, InsideIs, Kinds DEF Die
  <2>2. Owned(place, p) # {} /\ p \in Holders /\ p \notin live
    BY <1>1, <2>1, Kinds DEF Linked
  <2> QED BY <1>1, <2>2, OwnedAlive
<1>7. World(held, worn, open, online, live)
  <2>1. CASE isWorn \/ place.owner[o] = p
    BY <1>1, <1>4, <2>1
  <2>2. CASE ~(isWorn \/ place.owner[o] = p)
    BY <1>1, <1>4, <1>6, <2>2, WorldGiven, Kinds
  <2> QED BY <2>1, <2>2
<1>8. World(held, worn', open, online, live) /\ (~isWorn => worn'[o] = None)
  BY <1>5, <1>7 DEF World, Fitting
<1>9. World(place', worn', open, online, live)
  BY <1>5, <1>8, WorldDrop
<1> QED BY <1>1, <1>5, <1>9, MoveOwn

-----------------------------------------------------------------------------
(* The shop. *)

LEMMA Divides == ASSUME NEW x \in Int PROVE x \div 100 \in Int
OBVIOUS

LEMMA Times == ASSUME NEW x \in Int, NEW y \in Int PROVE x * y \in Int
OBVIOUS

LEMMA FractionInt == ASSUME NEW v \in Int PROVE Fraction(v) \in Int
<1>1. v * BuyMarkup \in Int
  BY Times, BelongingsConstants
<1> QED BY <1>1, Divides DEF Fraction

LEMMA ResaleInt == ASSUME NEW f \in Values, NEW o \in Objects PROVE Resale(f, o) \in Int
<1>1. Fraction(f[o]) \in Int
  BY FractionInt DEF Values
<1>2. PICK x \in Int, y \in Int : x = 1 /\ y = Fraction(f[o])
  BY <1>1
<1>3. Max({x, y}) \in Int
  BY MaxOfTwo
<1> QED BY <1>2, <1>3 DEF Resale

LEMMA PriceInt ==
    ASSUME OwnInv, NEW o \in Carryable
    PROVE  Price(o) \in Int
<1>1. value \in Values /\ Linked(place, online, live)
  BY DEF OwnInv
<1> DEFINE f == [x \in Objects |-> Resale(value, x)]
           S == {o} \union Inside(place, o)
<1>2. Resale(value, o) \in Int /\ Fraction(value[o]) \in Int
  BY <1>1, ResaleInt, FractionInt, Kinds DEF Values
<1>3. ASSUME o \in Bags PROVE NetWorth(o) \in Int
  <2>1. Inside(place, o) = Owned(place, o)
    BY <1>1, <1>3, InsideIs, Kinds
  <2>2. S \in SUBSET Objects
    BY <2>1, OwnedFacts, Kinds
  <2>3. IsFiniteSet(S)
    <3>1. IsFiniteSet(Chars \union Objects) /\ S \in SUBSET (Chars \union Objects)
      BY <2>2, BelongingsConstants
    <3> QED BY ONLY <3>1, FS_Subset
  <2>4. \A x \in S : f[x] \in Int
    BY <1>1, <2>2, ResaleInt
  <2> HIDE DEF S, f
  <2>5. SumFunctionOnSet(f, S) \in Int
    BY <2>3, <2>4, SumInt DEF Terms
  <2> QED BY <2>5 DEF NetWorth, S, f
<1> HIDE DEF S, f
<1> QED BY <1>2, <1>3 DEF Price

LEMMA ShopBuyOwn ==
    ASSUME OwnInv, NEW p \in Chars, NEW o \in Things \union Bags, ShopBuy(p, o)
    PROVE  OwnInv'
<1> DEFINE cost == (Cost[o] * SellMarkup) \div 100
<1>1. /\ p \in online /\ o \notin live \union Saved
      /\ live' = live \union {o} /\ place' = BeGivenTo(place, o, p, TRUE, TRUE)
      /\ value' = [value EXCEPT ![p] = @ - cost, ![o] = Cost[o]]
      /\ UNCHANGED <<online, worn, open, record>>
  BY DEF ShopBuy
<1>2. Cost[o] \in Int /\ cost \in Int
  <2>1. Cost[o] \in Int /\ SellMarkup \in Int
    BY BelongingsConstants
  <2> QED BY <2>1, Times, Divides
<1> HIDE DEF cost
<1>3. value' \in Values
  <2>1. value' = Paid(value, p, cost, o, Cost[o]) /\ o \in Objects
    BY <1>1, Kinds DEF Paid
  <2>2. value \in Values
    BY DEF OwnInv
  <2> QED BY <1>2, <2>1, <2>2, Spent
<1>4. o \in Carryable /\ p \in Holders
  BY Kinds
<1>5. World(place', worn, open, online, live')
  BY <1>1, <1>4, NewGiven
<1>6. \A x \in live' : x \in live \/ Fresh(x)
  BY <1>1 DEF Fresh
<1> QED BY <1>1, <1>3, <1>5, <1>6, StepOwn

LEMMA ShopSellOwn ==
    ASSUME OwnInv, NEW p \in Chars, NEW o \in Carryable, ShopSell(p, o)
    PROVE  OwnInv'
<1> DEFINE D == IF o \in Bags /\ place.contents[o] # {} THEN place.contents[o] ELSE {o}
           f == [value EXCEPT ![p] = Wrap(@ + Price(o))]
<1>1. value \in Values /\ place \in Place
  BY DEF OwnInv, Linked
<1>2. f \in Values
  <2>1. Wrap(value[p] + Price(o)) \in Int
    BY <1>1, PriceInt, Wraps DEF Values
  <2> QED BY <1>1, <2>1 DEF Values
<1>3. Gone(place, D) /\ value' = ValueOf(live' \union online, f) /\ UNCHANGED <<online, record>>
  BY DEF ShopSell
<1>4. D \in SUBSET Carryable
  BY <1>1, Kinds DEF Place
<1> HIDE DEF D, f
<1>5. D \in SUBSET Objects
  BY <1>4, Kinds
<1>6. \A x \in Carryable : place.owner[x] \in D \ Boxes => x \in D
  BY <1>1, <1>4, Kinds DEF Place
<1> QED BY <1>2, <1>3, <1>5, <1>6, GoneOwn

-----------------------------------------------------------------------------
LEMMA RequestOwn ==
    ASSUME OwnInv, NEW p \in Chars, Request(p)
    PROVE  OwnInv'
<1>1. ASSUME NEW n \in 1 .. MaxAmount, NEW h \in Holders, MoneyGive(p, h, n) PROVE OwnInv'
  BY <1>1, MoneyGiveOwn, BelongingsConstants
<1>2. ASSUME NEW n \in 1 .. MaxAmount, NEW d \in Chars \union Objects, MoneyPut(p, d, n) PROVE OwnInv'
  BY <1>2, MoneyPutOwn, BelongingsConstants
<1>3. ASSUME NEW n \in 1 .. MaxAmount, MoneyDrop(p, n) PROVE OwnInv'
  BY <1>3, MoneyDropOwn, BelongingsConstants
<1>4. ASSUME NEW m \in Piles, MoneyTake(p, m) PROVE OwnInv'
  BY <1>4, MoneyTakeOwn
<1>5. ASSUME NEW o \in Carryable,
             \/ Get(p, o) \/ Dropped(p, o) \/ Die(p, o) \/ ShopSell(p, o)
             \/ PutOn(p, o) \/ TakeOff(p, o)
             \/ \E h \in Holders : Give(p, o, h) \/ PutIn(p, o, h)
      PROVE  OwnInv'
  BY <1>5, GetOwn, DroppedOwn, DieOwn, ShopSellOwn, PutOnOwn, TakeOffOwn, GiveOwn, PutInOwn
<1>6. ASSUME NEW o \in Boxes, Open(p, o) \/ Close(p, o) PROVE OwnInv'
  BY <1>6, OpenOwn, CloseOwn
<1>7. ASSUME NEW o \in Things \union Bags, ShopBuy(p, o) PROVE OwnInv'
  BY <1>7, ShopBuyOwn
<1> QED BY <1>1, <1>2, <1>3, <1>4, <1>5, <1>6, <1>7 DEF Request

LEMMA NextOwn ==
    ASSUME OwnInv, [Next]_vars
    PROVE  OwnInv'
<1>1. ASSUME NEW c \in Chars, Login(c) \/ Logout(c) PROVE OwnInv'
  BY <1>1, LoginOwn, LogoutOwn
<1>2. ASSUME NEW p \in Chars, Request(p) PROVE OwnInv'
  BY <1>2, RequestOwn
<1>3. ASSUME NEW p \in Chars, NEW q \in Chars, NEW n \in 1 .. MaxAmount, Rob(p, q, n) PROVE OwnInv'
  BY <1>3, RobOwn, BelongingsConstants
<1>4. ASSUME Crash PROVE OwnInv'
  BY <1>4, CrashOwn DEF Crash, OwnInv, World
<1>5. ASSUME UNCHANGED vars PROVE OwnInv'
  BY <1>5, MoveOwn DEF vars, OwnInv, World
<1> QED BY <1>1, <1>2, <1>3, <1>4, <1>5 DEF Next

LEMMA OwnOrderly ==
    ASSUME OwnInv
    PROVE  Orderly
<1>1. /\ Linked(place, online, live) /\ Somewhere(place, live) /\ Fitting(place, worn, open)
      /\ value \in Values /\ Single(live, record)
  BY DEF OwnInv
<1>2. TypeOK
  BY <1>1 DEF TypeOK, Linked, Fitting, Values
<1>3. PointersAgree
  BY <1>1 DEF PointersAgree, Linked
<1>4. WornIsHeld
  BY <1>1 DEF WornIsHeld, Fitting
<1>5. NoCycle
  BY <1>1, NotInItself DEF NoCycle, Linked
<1>6. CarriedIsClosed
  BY <1>1 DEF CarriedIsClosed, Fitting
<1>7. OneCopy
  BY <1>1 DEF OneCopy, Single, Somewhere
<1> QED BY <1>2, <1>3, <1>4, <1>5, <1>6, <1>7 DEF Orderly

(* Ownership stays orderly whatever players carry, give, put, drop, buy,   *)
(* sell and die with, through logouts, logins and crashes: an object that  *)
(* a holder lists names it as its owner, what is worn is held, what is     *)
(* carried is closed, no bag is inside itself at any depth, and no object  *)
(* is in memory and in a record, or in two records.                        *)
THEOREM OrderlyHolds == Spec => []Orderly
<1>1. Init => OwnInv
  BY InitOwn
<1>2. OwnInv /\ [Next]_vars => OwnInv'
  BY NextOwn
<1>3. OwnInv => Orderly
  BY OwnOrderly
<1> QED BY <1>1, <1>2, <1>3, PTL DEF Spec

-----------------------------------------------------------------------------
(* Wealth as one ledger: what each character and each object is worth, in  *)
(* memory or in a record.                                                  *)

All == Chars \union Objects

\* the value of a character or an object, wherever it is
Held(on, mem, val, rec) ==
    [x \in All |-> IF x \in on \union mem THEN val[x]
                   ELSE IF x \in Chars THEN rec[x].value
                   ELSE IF \E c \in Chars : x \in rec[c].items
                        THEN rec[CHOOSE c \in Chars : x \in rec[c].items].worth[x]
                   ELSE 0]

\* the objects there are
Exist(mem, rec) == mem \union UNION {rec[c].items : c \in Chars}

Amount(F, N) == [x \in All |-> IF x \in Chars THEN F[x] ELSE IF x \in N THEN Worth(F, x) ELSE 0]
Total(F, N)  == SumFunctionOnSet(Amount(F, N), All)

\* a pile is worth something, a bag at least what the shop made it for; gold
\* is put into a bag up to MAX_GOLD_HELD
Priced(F, o) ==
    /\ o \in Piles => F[o] >= 1
    /\ o \in Bags => Cost[o] <= F[o] /\ (F[o] <= MaxGold \/ F[o] <= Cost[o])

Sound(F, N) ==
    /\ F \in Values /\ N \in SUBSET Objects
    /\ \A c \in Chars : F[c] >= 0
    /\ \A o \in N : Priced(F, o)

Money == SumFunction(Purse)

\* all the gold of the first records fits in an int on top of what a bag takes
AmountsFit == Money + MaxGold <= IntMax /\ \A o \in Bags : Money + Cost[o] <= IntMax

Rich(F, N) == Sound(F, N) /\ Total(F, N) <= Money

LEMMA AllFacts ==
    /\ IsFiniteSet(All) /\ IsFiniteSet(Chars) /\ IsFiniteSet(Objects)
    /\ Chars \subseteq All /\ Objects \subseteq All /\ Holders \subseteq All /\ Carryable \subseteq All
    /\ Chars \intersect Objects = {} /\ All = Chars \union Objects
<1>1. IsFiniteSet(All)
  BY BelongingsConstants DEF All
<1>2. Chars \in SUBSET All /\ Objects \in SUBSET All
  BY DEF All
<1>3. IsFiniteSet(Chars) /\ IsFiniteSet(Objects)
  BY <1>1, <1>2, FS_Subset
<1> QED BY <1>1, <1>2, <1>3, Kinds DEF All, Holders

LEMMA MoneyNat == Money \in Nat
<1>1. Purse \in [Chars -> Nat]
  BY BelongingsConstants
<1>2. Terms(Purse, Chars) /\ \A c \in Chars : Purse[c] >= 0
  BY <1>1 DEF Terms
<1>3. SumFunctionOnSet(Purse, Chars) \in Int /\ SumFunctionOnSet(Purse, Chars) >= 0
  BY <1>2, AllFacts, SumInt, SumPositive
<1>4. Money = SumFunctionOnSet(Purse, Chars)
  BY <1>1 DEF Money, SumFunction
<1> QED BY <1>3, <1>4

LEMMA FractionFacts ==
    ASSUME NEW v \in Int
    PROVE  /\ Fraction(v) \in Int
           /\ v >= 0 => 0 <= Fraction(v) /\ Fraction(v) <= v
           /\ \A k \in Nat : Fraction(v + k) <= Fraction(v) + k
           /\ \A w \in Int : w <= v => Fraction(w) <= Fraction(v)
<1> PICK b : b = BuyMarkup
  OBVIOUS
<1>1. b \in Nat /\ b <= 100
  BY BelongingsConstants, ShopTerms
<1>2. \A w \in Int : Fraction(w) = (w * b) \div 100
  BY DEF Fraction
<1>3. v >= 0 => 0 <= v * b /\ v * b <= v * 100
  BY <1>1, SMT
<1>4. \A k \in Nat : (v + k) * b <= v * b + 100 * k
  BY <1>1, SMT
<1>5. \A w \in Int : w <= v => w * b <= v * b
  BY <1>1, SMT
<1> QED BY <1>1, <1>2, <1>3, <1>4, <1>5

LEMMA ResaleFacts ==
    ASSUME NEW F, NEW o, F[o] \in Int
    PROVE  /\ Resale(F, o) \in Int /\ Resale(F, o) >= 1 /\ Resale(F, o) >= Fraction(F[o])
           /\ Resale(F, o) = 1 \/ Resale(F, o) = Fraction(F[o])
<1>1. Fraction(F[o]) \in Int
  BY FractionInt
<1>2. PICK x \in Int, y \in Int : x = 1 /\ y = Fraction(F[o])
  BY <1>1
<1>3. Max({x, y}) \in {x, y} /\ x <= Max({x, y}) /\ y <= Max({x, y})
  BY MaxOfTwo
<1> QED BY <1>2, <1>3 DEF Resale

LEMMA AmountIs ==
    ASSUME NEW F, NEW N, Sound(F, N)
    PROVE  /\ Terms(Amount(F, N), All) /\ \A x \in All : Amount(F, N)[x] >= 0
           /\ Amount(F, N) = [x \in All |-> Amount(F, N)[x]]
           /\ \A c \in Chars : Amount(F, N)[c] = F[c]
           /\ \A o \in Objects : o \in N => Amount(F, N)[o] = Worth(F, o)
           /\ \A o \in Objects : o \notin N => Amount(F, N)[o] = 0
           /\ \A o \in N : Worth(F, o) \in Int /\ Worth(F, o) >= 0
           /\ \A o \in N \ Chests : Resale(F, o) \in Int /\ Resale(F, o) <= Worth(F, o)
<1>1. \A x \in All : F[x] \in Int
  BY DEF Sound, Values, All
<1>2. \A o \in Objects : F[o] \in Int /\ o \notin Chars /\ o \in All
  BY <1>1, AllFacts
<1>3. ASSUME NEW o \in N
      PROVE  /\ Worth(F, o) \in Int /\ Worth(F, o) >= 0
             /\ o \notin Chests => Resale(F, o) \in Int /\ Resale(F, o) <= Worth(F, o)
  <2>1. o \in Objects /\ F[o] \in Int
    BY <1>2 DEF Sound
  <2>2. /\ Resale(F, o) \in Int /\ Resale(F, o) >= 1
        /\ Resale(F, o) = 1 \/ Resale(F, o) = Fraction(F[o])
    BY <2>1, ResaleFacts
  <2>3. F[o] >= 0 => Fraction(F[o]) <= F[o]
    BY <2>1, FractionFacts
  <2>4. CASE o \in Piles
    <3>1. F[o] >= 1
      BY <2>4 DEF Sound, Priced
    <3> QED BY <2>1, <2>2, <2>3, <2>4, <3>1 DEF Worth
  <2>5. CASE o \notin Piles
    BY <2>2, <2>5 DEF Worth
  <2> QED BY <2>4, <2>5
<1>4. \A c \in Chars : Amount(F, N)[c] = F[c] /\ F[c] >= 0
  BY AllFacts DEF Amount, Sound
<1>5. /\ \A o \in Objects : o \in N => Amount(F, N)[o] = Worth(F, o)
      /\ \A o \in Objects : o \notin N => Amount(F, N)[o] = 0
  BY <1>2 DEF Amount
<1>6. \A x \in All : Amount(F, N)[x] \in Int /\ Amount(F, N)[x] >= 0
  <2> TAKE x \in All
  <2>1. CASE x \in Chars
    BY <1>1, <1>4, <2>1
  <2>2. CASE x \in Objects /\ x \in N
    BY <1>3, <1>5, <2>2
  <2>3. CASE x \in Objects /\ x \notin N
    BY <1>5, <2>3
  <2> QED BY <2>1, <2>2, <2>3 DEF All
<1>7. Amount(F, N) = [x \in All |-> Amount(F, N)[x]]
  BY DEF Amount
<1> QED BY <1>3, <1>4, <1>5, <1>6, <1>7 DEF Terms

\* a term of a sum, and two of them, are not more than the sum
LEMMA AmountsBound ==
    ASSUME NEW F, NEW N, Rich(F, N), NEW x \in All, NEW y \in All, x # y
    PROVE  /\ Amount(F, N)[x] <= Money
           /\ Amount(F, N)[x] + Amount(F, N)[y] <= Money
<1> PICK a : a = Amount(F, N)
  OBVIOUS
<1>1. Terms(a, All) /\ (\A z \in All : a[z] >= 0) /\ SumFunctionOnSet(a, All) <= Money
  BY AmountIs DEF Rich, Total
<1> PICK R : R = All \ {x}
  OBVIOUS
<1>2. R \in SUBSET All /\ IsFiniteSet(All) /\ y \in R
  BY AllFacts
<1>3. IsFiniteSet(R) /\ Terms(a, R) /\ \A z \in R : a[z] >= 0
  BY <1>1, <1>2, FS_Subset DEF Terms
<1>4. a[y] <= SumFunctionOnSet(a, R) /\ SumFunctionOnSet(a, R) \in Int
  BY <1>2, <1>3, SumPositive, SumInt
<1>5. SumFunctionOnSet(a, All) = a[x] + SumFunctionOnSet(a, R)
  BY <1>1, <1>2, SumWithout
<1>6. a[x] \in Int /\ a[y] \in Int /\ a[y] >= 0 /\ Money \in Int
  BY <1>1, MoneyNat DEF Terms
<1>7. a[x] <= Money /\ a[x] + a[y] <= Money
  <2>1. SumFunctionOnSet(a, All) <= Money
    BY <1>1
  <2> QED BY ONLY <1>4, <1>5, <1>6, <2>1
<1> QED BY <1>7

LEMMA TotalInt ==
    ASSUME NEW F, NEW N, Sound(F, N)
    PROVE  Total(F, N) \in Int
BY AmountIs, AllFacts, SumInt DEF Total

\* things may go, the others keep their value; chests may come
LEMMA KeptRich ==
    ASSUME NEW F, NEW N, Rich(F, N), NEW G \in Values, NEW L \in SUBSET Objects,
           \A c \in Chars : G[c] = F[c], \A x \in L \ Chests : x \in N /\ G[x] = F[x]
    PROVE  Rich(G, L) /\ Total(G, L) <= Total(F, N)
<1>1. Sound(F, N) /\ Total(F, N) <= Money
  BY DEF Rich
<1>2. \A o \in L \ Chests : Priced(F, o)
  BY <1>1 DEF Sound
<1>3. \A o \in L : Priced(G, o)
  BY <1>2, BelongingsConstants DEF Priced
<1>4. Sound(G, L)
  BY <1>1, <1>2, <1>3 DEF Sound
<1> PICK a : a = Amount(F, N)
  OBVIOUS
<1> PICK b : b = Amount(G, L)
  OBVIOUS
<1>5. \A x \in All : b[x] <= a[x]
  <2> TAKE x \in All
  <2>1. CASE x \in Chars
    <3>1. b[x] = G[x] /\ a[x] = F[x] /\ b[x] \in Int
      BY <1>1, <1>4, <2>1, AmountIs DEF Terms
    <3> QED BY <2>1, <3>1
  <2>2. CASE x \in L \ Chests
    <3>1. Worth(G, x) = Worth(F, x) /\ x \in N
      BY <2>2 DEF Worth, Resale
    <3>2. b[x] = Worth(G, x) /\ a[x] = Worth(F, x) /\ b[x] \in Int
      BY <1>1, <1>4, <2>2, <3>1, AmountIs DEF Terms
    <3> QED BY <3>1, <3>2
  <2>4. CASE x \in L /\ x \in Chests
    <3>1. x \in Objects /\ x \notin Piles
      BY <2>4, Kinds, BelongingsConstants
    <3>2. b[x] = Worth(G, x) /\ a[x] >= 0
      BY <1>1, <1>4, <2>4, <3>1, AmountIs
    <3> QED BY <2>4, <3>1, <3>2 DEF Worth
  <2>3. CASE x \in Objects /\ x \notin L
    <3>1. b[x] = 0 /\ a[x] >= 0
      BY <1>1, <1>4, <2>3, AmountIs
    <3> QED BY <3>1
  <2> QED BY <2>1, <2>2, <2>3, <2>4 DEF All
<1>6. SumFunctionOnSet(b, All) <= SumFunctionOnSet(a, All)
  <2>1. IsFiniteSet(All) /\ Terms(a, All) /\ Terms(b, All)
    BY <1>1, <1>4, AllFacts, AmountIs
  <2> QED BY ONLY <1>5, <2>1, SumLess
<1>7. Total(G, L) <= Total(F, N)
  BY <1>6 DEF Total
<1>8. Total(G, L) \in Int /\ Total(F, N) \in Int /\ Money \in Int
  BY <1>1, <1>4, TotalInt, MoneyNat
<1> QED BY <1>1, <1>4, <1>7, <1>8 DEF Rich

\* k gold passes from p to h, where it stays within the limits
LEMMA PassedRich ==
    ASSUME NEW F, NEW N, Rich(F, N), NEW G \in Values,
           NEW p \in Chars, NEW h \in Chars \union (N \intersect Boxes), h # p,
           NEW k \in Nat, k <= F[p],
           \A x \in Chars \union N : x \notin {p, h} => G[x] = F[x],
           G[p] = F[p] - k, h \notin Chests => G[h] = F[h] + k,
           h \in Bags => k = 0 \/ F[h] + k <= MaxGold
    PROVE  Rich(G, N) /\ Total(G, N) <= Total(F, N)
<1>1. Sound(F, N) /\ Total(F, N) <= Money
  BY DEF Rich
<1>2. N \in SUBSET Objects /\ \A x \in All : F[x] \in Int /\ G[x] \in Int
  BY <1>1 DEF Sound, Values, All
<1>3. p \in All /\ h \in All
  BY <1>2, AllFacts
<1>4. \A o \in N : Priced(G, o)
  <2> TAKE o \in N
  <2>1. o # p /\ Priced(F, o) /\ o \in All
    BY <1>1, <1>2, AllFacts DEF Sound
  <2>2. CASE o # h
    <3>1. G[o] = F[o]
      BY <2>1, <2>2
    <3> QED BY <2>1, <3>1 DEF Priced
  <2>3. CASE o = h
    <3>1. o \in Boxes /\ o \notin Piles
      BY <2>1, <2>3, AllFacts, <1>2, Kinds
    <3>2. CASE o \in Bags
      <4>1. o \notin Chests /\ G[o] = F[o] + k /\ (k = 0 \/ F[o] + k <= MaxGold) /\ Cost[o] <= F[o]
        BY <2>1, <2>3, <3>2, Kinds DEF Priced
      <4>2. Cost[o] \in Int /\ F[o] \in Int
        BY <1>2, <2>1, <3>2, BelongingsConstants
      <4>3. Cost[o] <= G[o] /\ (G[o] <= MaxGold \/ G[o] <= Cost[o])
        BY <2>1, <3>2, <4>1, <4>2 DEF Priced
      <4> QED BY <3>1, <4>3 DEF Priced
    <3>3. CASE o \notin Bags
      BY <3>1, <3>3 DEF Priced
    <3> QED BY <3>2, <3>3
  <2> QED BY <2>2, <2>3
<1>5. \A c \in Chars : G[c] >= 0
  <2> TAKE c \in Chars
  <2>1. F[c] >= 0 /\ F[c] \in Int /\ F[p] \in Int
    BY <1>1, <1>2, <1>3, AllFacts DEF Sound
  <2>2. c \notin Chests
    BY Kinds
  <2> QED BY <2>1, <2>2
<1>6. Sound(G, N)
  BY <1>1, <1>4, <1>5 DEF Sound
<1> PICK a : a = Amount(F, N)
  OBVIOUS
<1> PICK b : b = Amount(G, N)
  OBVIOUS
<1>7. \A x \in All : x \notin {p, h} => b[x] <= a[x]
  <2> TAKE x \in All
  <2> HAVE x \notin {p, h}
  <2>0. b[x] \in Int
    BY <1>6, AmountIs DEF Terms
  <2>1. CASE x \in Chars
    <3>1. b[x] = G[x] /\ a[x] = F[x]
      BY <1>1, <1>6, <2>1, AmountIs
    <3> QED BY <2>0, <2>1, <3>1
  <2>2. CASE x \in N
    <3>1. Worth(G, x) = Worth(F, x)
      BY <2>2 DEF Worth, Resale
    <3>2. b[x] = Worth(G, x) /\ a[x] = Worth(F, x)
      BY <1>1, <1>2, <1>6, <2>2, AmountIs
    <3> QED BY <2>0, <3>1, <3>2
  <2>3. CASE x \in Objects /\ x \notin N
    <3>1. b[x] = 0 /\ a[x] = 0
      BY <1>1, <1>6, <2>3, AmountIs
    <3> QED BY <3>1
  <2> QED BY <2>1, <2>2, <2>3 DEF All
<1>8. b[p] <= a[p] - k
  <2>1. b[p] = G[p] /\ a[p] = F[p]
    BY <1>1, <1>6, AmountIs
  <2> QED BY <1>2, <1>3, <2>1
<1>9. b[h] <= a[h] + k
  <2>1. CASE h \in Chars
    <3>1. b[h] = G[h] /\ a[h] = F[h] /\ h \notin Chests
      BY <1>1, <1>6, <2>1, AmountIs, Kinds
    <3> QED BY <1>2, <1>3, <3>1
  <2>2. CASE h \in N \intersect Boxes
    <3>1. b[h] = Worth(G, h) /\ a[h] = Worth(F, h) /\ h \notin Piles
      BY <1>1, <1>2, <1>6, <2>2, AmountIs, Kinds
    <3>2. CASE h \in Chests
      BY <3>1, <3>2 DEF Worth
    <3>3. CASE h \notin Chests
      <4>1. G[h] = F[h] + k /\ F[h] \in Int /\ G[h] \in Int
        BY <1>2, <1>3, <3>3
      <4>2. Fraction(F[h] + k) <= Fraction(F[h]) + k /\ Fraction(F[h]) \in Int /\ Fraction(G[h]) \in Int
        BY <4>1, FractionFacts
      <4>3. /\ Resale(F, h) \in Int /\ Resale(F, h) >= 1 /\ Resale(F, h) >= Fraction(F[h])
            /\ Resale(F, h) = 1 \/ Resale(F, h) = Fraction(F[h])
        BY <4>1, ResaleFacts
      <4>4. /\ Resale(G, h) \in Int /\ Resale(G, h) >= 1 /\ Resale(G, h) >= Fraction(G[h])
            /\ Resale(G, h) = 1 \/ Resale(G, h) = Fraction(G[h])
        BY <4>1, ResaleFacts
      <4>5. Resale(G, h) <= Resale(F, h) + k
        BY <4>1, <4>2, <4>3, <4>4
      <4> QED BY <3>1, <3>3, <4>5 DEF Worth
    <3> QED BY <3>2, <3>3
  <2> QED BY <2>1, <2>2
<1>10. SumFunctionOnSet(b, All) <= SumFunctionOnSet(a, All)
  <2>1. IsFiniteSet(All) /\ Terms(a, All) /\ Terms(b, All)
    BY <1>1, <1>6, AllFacts, AmountIs
  <2>2. p # h /\ k \in Int
    OBVIOUS
  <2> QED BY ONLY <1>3, <1>7, <1>8, <1>9, <2>1, <2>2, SumMoved
<1>11. Total(G, N) <= Total(F, N)
  BY <1>10 DEF Total
<1>12. Total(G, N) \in Int /\ Total(F, N) \in Int /\ Money \in Int
  BY <1>1, <1>6, TotalInt, MoneyNat
<1> QED BY <1>1, <1>6, <1>11, <1>12 DEF Rich

\* p pays k for m, which is worth no more
LEMMA SpentRich ==
    ASSUME NEW F, NEW N, Rich(F, N), NEW G \in Values, NEW p \in Chars,
           NEW m \in Objects, m \notin N, NEW L, L = N \union {m},
           NEW k \in Nat, k <= F[p], G[p] = F[p] - k,
           \A x \in Chars \union N : x # p => G[x] = F[x],
           Priced(G, m), m \notin Chests, Worth(G, m) <= k
    PROVE  Rich(G, L) /\ Total(G, L) <= Total(F, N)
<1>1. Sound(F, N) /\ Total(F, N) <= Money
  BY DEF Rich
<1>2. N \in SUBSET Objects /\ \A x \in All : F[x] \in Int /\ G[x] \in Int
  BY <1>1 DEF Sound, Values, All
<1>3. p \in All /\ m \in All /\ p # m
  BY <1>2, AllFacts
<1>4. \A o \in L : Priced(G, o)
  <2> TAKE o \in L
  <2>1. CASE o = m
    BY <2>1
  <2>2. CASE o # m
    <3>1. o \in N /\ o # p /\ Priced(F, o)
      BY <1>1, <1>2, <2>2, AllFacts DEF Sound
    <3>2. G[o] = F[o]
      BY <3>1
    <3> QED BY <3>1, <3>2 DEF Priced
  <2> QED BY <2>1, <2>2
<1>5. \A c \in Chars : G[c] >= 0
  <2> TAKE c \in Chars
  <2>1. F[c] >= 0 /\ F[c] \in Int /\ F[p] \in Int
    BY <1>1, <1>2, <1>3, AllFacts DEF Sound
  <2> QED BY <2>1
<1>6. Sound(G, L)
  BY <1>1, <1>2, <1>4, <1>5 DEF Sound
<1> PICK a : a = Amount(F, N)
  OBVIOUS
<1> PICK b : b = Amount(G, L)
  OBVIOUS
<1>7. \A x \in All : x \notin {p, m} => b[x] <= a[x]
  <2> TAKE x \in All
  <2> HAVE x \notin {p, m}
  <2>0. b[x] \in Int
    BY <1>6, AmountIs DEF Terms
  <2>1. CASE x \in Chars
    <3>1. b[x] = G[x] /\ a[x] = F[x]
      BY <1>1, <1>6, <2>1, AmountIs
    <3> QED BY <2>0, <2>1, <3>1
  <2>2. CASE x \in N
    <3>1. Worth(G, x) = Worth(F, x)
      BY <2>2 DEF Worth, Resale
    <3>2. b[x] = Worth(G, x) /\ a[x] = Worth(F, x)
      BY <1>1, <1>2, <1>6, <2>2, AmountIs
    <3> QED BY <2>0, <3>1, <3>2
  <2>3. CASE x \in Objects /\ x \notin N
    <3>1. b[x] = 0 /\ a[x] = 0
      BY <1>1, <1>6, <2>3, AmountIs
    <3> QED BY <3>1
  <2> QED BY <2>1, <2>2, <2>3 DEF All
<1>8. b[p] <= a[p] - k
  <2>1. b[p] = G[p] /\ a[p] = F[p]
    BY <1>1, <1>6, AmountIs
  <2> QED BY <1>2, <1>3, <2>1
<1>9. b[m] <= a[m] + k
  <2>1. b[m] = Worth(G, m) /\ a[m] = 0 /\ Worth(G, m) \in Int
    BY <1>1, <1>6, AmountIs
  <2> QED BY <2>1
<1>10. SumFunctionOnSet(b, All) <= SumFunctionOnSet(a, All)
  <2>1. IsFiniteSet(All) /\ Terms(a, All) /\ Terms(b, All)
    BY <1>1, <1>6, AllFacts, AmountIs
  <2>2. k \in Int
    OBVIOUS
  <2> QED BY ONLY <1>3, <1>7, <1>8, <1>9, <2>1, <2>2, SumMoved
<1>11. Total(G, L) <= Total(F, N)
  BY <1>10 DEF Total
<1>12. Total(G, L) \in Int /\ Total(F, N) \in Int /\ Money \in Int
  BY <1>1, <1>6, TotalInt, MoneyNat
<1> QED BY <1>1, <1>6, <1>11, <1>12 DEF Rich

\* p gets no more than E was worth, which goes
LEMMA EarnedRich ==
    ASSUME NEW F, NEW N, Rich(F, N), NEW G \in Values, NEW p \in Chars,
           NEW E \in SUBSET N, NEW L, L = N \ E,
           \A x \in Chars \union L : x # p => G[x] = F[x],
           G[p] >= 0, G[p] <= F[p] + SumFunctionOnSet(Amount(F, N), E)
    PROVE  Rich(G, L) /\ Total(G, L) <= Total(F, N)
<1>1. Sound(F, N) /\ Total(F, N) <= Money
  BY DEF Rich
<1>2. N \in SUBSET Objects /\ L \in SUBSET N /\ \A x \in All : F[x] \in Int /\ G[x] \in Int
  BY <1>1 DEF Sound, Values, All
<1>3. p \in All /\ p \notin N /\ E \in SUBSET All /\ p \notin E
  BY <1>2, AllFacts
<1>4. \A o \in L : Priced(G, o)
  <2> TAKE o \in L
  <2>1. o \in N /\ o # p /\ Priced(F, o)
    BY <1>1, <1>2, <1>3 DEF Sound
  <2>2. G[o] = F[o]
    BY <2>1
  <2> QED BY <2>1, <2>2 DEF Priced
<1>5. \A c \in Chars : G[c] >= 0
  <2> TAKE c \in Chars
  <2>1. F[c] >= 0 /\ F[c] \in Int
    BY <1>1, <1>2, AllFacts DEF Sound
  <2> QED BY <2>1
<1>6. Sound(G, L)
  BY <1>1, <1>2, <1>4, <1>5 DEF Sound
<1> PICK a : a = Amount(F, N)
  OBVIOUS
<1> PICK b : b = Amount(G, L)
  OBVIOUS
<1>7. \A x \in All : x \notin E \union {p} => b[x] <= a[x]
  <2> TAKE x \in All
  <2> HAVE x \notin E \union {p}
  <2>0. b[x] \in Int
    BY <1>6, AmountIs DEF Terms
  <2>1. CASE x \in Chars
    <3>1. b[x] = G[x] /\ a[x] = F[x]
      BY <1>1, <1>6, <2>1, AmountIs
    <3> QED BY <2>0, <2>1, <3>1
  <2>2. CASE x \in N
    <3>0. x \in L /\ x \in Objects
      BY <1>2, <2>2
    <3>1. Worth(G, x) = Worth(F, x)
      BY <3>0 DEF Worth, Resale
    <3>2. b[x] = Worth(G, x) /\ a[x] = Worth(F, x)
      BY <1>1, <1>2, <1>6, <2>2, <3>0, AmountIs
    <3> QED BY <2>0, <3>1, <3>2
  <2>3. CASE x \in Objects /\ x \notin N
    <3>1. b[x] = 0 /\ a[x] = 0
      BY <1>1, <1>6, <2>3, AmountIs
    <3> QED BY <3>1
  <2> QED BY <2>1, <2>2, <2>3 DEF All
<1>8. b[p] <= a[p] + SumFunctionOnSet(a, E)
  <2>1. b[p] = G[p] /\ a[p] = F[p]
    BY <1>1, <1>6, AmountIs
  <2> QED BY <2>1
<1>9. \A x \in E : b[x] = 0
  <2> TAKE x \in E
  <2>1. x \in Objects /\ x \notin L
    BY <1>2
  <2> QED BY <1>6, <2>1, AmountIs
<1>10. SumFunctionOnSet(b, All) <= SumFunctionOnSet(a, All)
  <2>1. IsFiniteSet(All) /\ Terms(a, All) /\ Terms(b, All)
    BY <1>1, <1>6, AllFacts, AmountIs
  <2> QED BY ONLY <1>3, <1>7, <1>8, <1>9, <2>1, SumTraded
<1>11. Total(G, L) <= Total(F, N)
  BY <1>10 DEF Total
<1>12. Total(G, L) \in Int /\ Total(F, N) \in Int /\ Money \in Int
  BY <1>1, <1>6, TotalInt, MoneyNat
<1> QED BY <1>1, <1>6, <1>11, <1>12 DEF Rich

\* what a character has, and what a set of objects is worth, is within the total
LEMMA EarnedFits ==
    ASSUME NEW F, NEW N, Rich(F, N), NEW p \in Chars, NEW E \in SUBSET N
    PROVE  /\ F[p] + SumFunctionOnSet(Amount(F, N), E) <= Money
           /\ SumFunctionOnSet(Amount(F, N), E) \in Nat /\ F[p] \in Nat
<1>1. Sound(F, N) /\ Total(F, N) <= Money
  BY DEF Rich
<1>2. N \in SUBSET Objects /\ p \in All /\ p \notin E /\ E \in SUBSET All
  BY <1>1, AllFacts DEF Sound
<1> PICK a : a = Amount(F, N)
  OBVIOUS
<1>3. Terms(a, All) /\ (\A x \in All : a[x] >= 0) /\ a[p] = F[p] /\ a[p] \in Int
  BY <1>1, <1>2, AmountIs DEF Terms
<1> PICK R : R = E \union {p}
  OBVIOUS
<1>4. R \in SUBSET All /\ IsFiniteSet(All) /\ R \ {p} = E /\ p \in R
  BY <1>2, AllFacts
<1>5. IsFiniteSet(R) /\ IsFiniteSet(E) /\ Terms(a, R) /\ Terms(a, E) /\ \A x \in E : a[x] >= 0
  BY <1>2, <1>3, <1>4, FS_Subset DEF Terms
<1>6. SumFunctionOnSet(a, R) = a[p] + SumFunctionOnSet(a, R \ {p})
  BY ONLY <1>4, <1>5, SumWithout
<1>7. SumFunctionOnSet(a, R) = a[p] + SumFunctionOnSet(a, E)
  BY <1>4, <1>6
<1>8. SumFunctionOnSet(a, E) \in Int /\ SumFunctionOnSet(a, E) >= 0
  BY <1>5, SumInt, SumPositive
<1>9. SumFunctionOnSet(a, R) <= SumFunctionOnSet(a, All)
  BY ONLY <1>3, <1>4, SumWithin
<1>10. SumFunctionOnSet(a, All) <= Money /\ SumFunctionOnSet(a, All) \in Int /\ Money \in Int
  BY <1>1, <1>3, <1>4, SumInt, MoneyNat DEF Total
<1>11. a[p] + SumFunctionOnSet(a, E) <= Money
  BY ONLY <1>3, <1>7, <1>8, <1>9, <1>10
<1>12. a[p] >= 0
  BY <1>2, <1>3
<1> QED BY <1>3, <1>8, <1>11, <1>12

-----------------------------------------------------------------------------
(* The ledger of a state. *)

Have  == Held(online, live, value, record)
There == Exist(live, record)

HoldsValues(F, on, mem, val, rec) ==
    /\ F \in Values
    /\ \A c \in Chars : F[c] = IF c \in on THEN val[c] ELSE rec[c].value
    /\ \A o \in mem : F[o] = val[o]
    /\ \A c \in Chars : \A o \in rec[c].items : F[o] = rec[c].worth[o]

LEMMA HeldIs ==
    ASSUME NEW on \in SUBSET Chars, NEW mem \in SUBSET Objects, NEW val \in Values, NEW rec,
           Records(on, rec), Single(mem, rec), NEW F, F = Held(on, mem, val, rec)
    PROVE  HoldsValues(F, on, mem, val, rec)
<1>1. \A c \in Chars : /\ rec[c].value \in Int /\ rec[c].items \in SUBSET Objects
                       /\ \A o \in rec[c].items : rec[c].worth[o] \in Int
  BY Kinds DEF Records, IsRecord
<1>2. \A o \in Objects : o \notin Chars /\ o \notin on /\ o \in All
  BY AllFacts
<1>3. \A c \in Chars : c \notin mem /\ c \in All
  BY AllFacts
<1>4. \A c \in Chars : F[c] = IF c \in on THEN val[c] ELSE rec[c].value
  BY <1>3 DEF Held
<1>5. \A o \in mem : F[o] = val[o]
  BY <1>2 DEF Held
<1>6. ASSUME NEW c \in Chars, NEW o \in rec[c].items PROVE F[o] = rec[c].worth[o]
  <2>1. o \in Objects /\ o \notin mem
    BY <1>1 DEF Single
  <2>2. \A d \in Chars : o \in rec[d].items => d = c
    BY DEF Single
  <2>3. (CHOOSE d \in Chars : o \in rec[d].items) = c
    BY <2>2
  <2>4. F[o] = rec[CHOOSE d \in Chars : o \in rec[d].items].worth[o]
    BY <1>2, <2>1 DEF Held
  <2> QED BY <2>3, <2>4
<1>7. ASSUME NEW x \in All PROVE F[x] \in Int
  <2>1. CASE x \in Chars
    BY <1>1, <1>4, <2>1 DEF Values
  <2>2. CASE x \in mem
    BY <1>5, <2>2 DEF Values
  <2>3. CASE x \notin Chars \union mem /\ \E c \in Chars : x \in rec[c].items
    BY <1>1, <1>6, <2>3
  <2>4. CASE x \notin Chars \union mem /\ ~\E c \in Chars : x \in rec[c].items
    BY <2>4 DEF Held
  <2> QED BY <2>1, <2>2, <2>3, <2>4
<1>8. F = [x \in All |-> F[x]]
  BY DEF Held
<1>9. F \in Values
  BY <1>7, <1>8 DEF Values, All
<1> QED BY <1>4, <1>5, <1>6, <1>9 DEF HoldsValues

\* Wealth, of a state given by its parts
Possessions(on, mem, val, rec) ==
    SumFunction([c \in Chars |-> (IF c \in on THEN val[c] ELSE rec[c].value) + Stored(rec[c])])
    + SumFunction([o \in mem |-> Worth(val, o)])

\* both sums of Possessions are sums over the ledger
LEMMA PossessionsAre ==
    ASSUME NEW on \in SUBSET Chars, NEW mem \in SUBSET Objects, NEW val \in Values, NEW rec,
           Records(on, rec), Single(mem, rec),
           NEW F, F = Held(on, mem, val, rec), NEW N, N = Exist(mem, rec), Sound(F, N)
    PROVE  Possessions(on, mem, val, rec) = Total(F, N)
<1> PICK a : a = Amount(F, N)
  OBVIOUS
<1>1. /\ \A c \in Chars : F[c] = IF c \in on THEN val[c] ELSE rec[c].value
      /\ \A o \in mem : F[o] = val[o]
      /\ \A c \in Chars : \A o \in rec[c].items : F[o] = rec[c].worth[o]
  <2>1. HoldsValues(F, on, mem, val, rec)
    BY HeldIs
  <2> QED BY <2>1 DEF HoldsValues
<1>2. /\ Terms(a, All)
      /\ \A c \in Chars : a[c] = F[c]
      /\ \A o \in Objects : o \in N => a[o] = Worth(F, o)
      /\ \A o \in Objects : o \notin N => a[o] = 0
  BY AmountIs
<1>3. \A c \in Chars : rec[c].items \in SUBSET Objects /\ rec[c].items \in SUBSET N
  <2> TAKE c \in Chars
  <2>1. rec[c].items \in SUBSET Carryable
    BY DEF Records, IsRecord
  <2>2. rec[c].items \in SUBSET N
    BY DEF Exist
  <2> QED BY <2>1, <2>2, Kinds
<1>4. mem \in SUBSET N /\ N \in SUBSET Objects
  BY DEF Exist, Sound
<1> PICK I : I = [c \in Chars |-> rec[c].items]
  OBVIOUS
<1> PICK s : s = [c \in Chars |-> Stored(rec[c])]
  OBVIOUS
<1> PICK U : U = UNION {I[c] : c \in Chars}
  OBVIOUS
<1>5. N = mem \union U /\ mem \intersect U = {}
  BY DEF Exist, Single
<1>6. \A c \in Chars : s[c] = SumFunctionOnSet(a, I[c])
  <2> TAKE c \in Chars
  <2> PICK J : J = rec[c].items
    OBVIOUS
  <2> PICK w : w = [o \in J |-> Worth(rec[c].worth, o)]
    OBVIOUS
  <2>1. \A o \in J : w[o] = a[o]
    <3> TAKE o \in J
    <3>1. Worth(rec[c].worth, o) = Worth(F, o)
      BY <1>1 DEF Worth, Resale
    <3>2. a[o] = Worth(F, o)
      BY <1>2, <1>3
    <3> QED BY <3>1, <3>2
  <2>2. IsFiniteSet(J)
    <3>1. J \in SUBSET Objects
      BY <1>3
    <3> QED BY <3>1, AllFacts, FS_Subset
  <2>3. SumFunctionOnSet(w, J) = SumFunctionOnSet(a, J)
    BY ONLY <2>1, <2>2, SumSame
  <2>4. s[c] = SumFunctionOnSet(w, J)
    BY DEF Stored, SumFunction
  <2> QED BY <2>3, <2>4
<1>7. SumFunctionOnSet(s, Chars) = SumFunctionOnSet(a, U)
  <2>1. IsFiniteSet(Chars) /\ IsFiniteSet(All) /\ Terms(a, All)
    BY <1>2, AllFacts
  <2>2. \A c \in Chars : I[c] \in SUBSET All
    BY <1>3, AllFacts
  <2>3. \A c, d \in Chars : c # d => I[c] \intersect I[d] = {}
    BY DEF Single
  <2>4. SumFunctionOnSet(s, Chars) = SumFunctionOnSet(a, UNION {I[c] : c \in Chars})
    BY ONLY <1>6, <2>1, <2>2, <2>3, SumUnions
  <2> QED BY <2>4
<1>8. SumFunction([o \in mem |-> Worth(val, o)]) = SumFunctionOnSet(a, mem)
  <2> PICK w : w = [o \in mem |-> Worth(val, o)]
    OBVIOUS
  <2>1. \A o \in mem : w[o] = a[o]
    <3> TAKE o \in mem
    <3>1. Worth(val, o) = Worth(F, o)
      BY <1>1 DEF Worth, Resale
    <3>2. a[o] = Worth(F, o)
      BY <1>2, <1>4
    <3> QED BY <3>1, <3>2
  <2>2. IsFiniteSet(mem)
    BY AllFacts, FS_Subset
  <2>3. SumFunctionOnSet(w, mem) = SumFunctionOnSet(a, mem)
    BY ONLY <2>1, <2>2, SumSame
  <2> QED BY <2>3 DEF SumFunction
<1>9. SumFunctionOnSet(a, N) = SumFunctionOnSet(a, mem) + SumFunctionOnSet(a, U)
  <2>1. mem \in SUBSET All /\ U \in SUBSET All /\ IsFiniteSet(All)
    BY <1>3, AllFacts
  <2>2. IsFiniteSet(mem) /\ IsFiniteSet(U) /\ Terms(a, mem \union U)
    BY <1>2, <2>1, FS_Subset DEF Terms
  <2>3. mem \intersect U = {}
    BY <1>5
  <2>4. SumFunctionOnSet(a, mem \union U) = SumFunctionOnSet(a, mem) + SumFunctionOnSet(a, U)
    BY ONLY <2>2, <2>3, SumDisjoint
  <2> QED BY <1>5, <2>4
<1>10. SumFunctionOnSet(a, All) = SumFunctionOnSet(a, Chars) + SumFunctionOnSet(a, N)
  <2>1. IsFiniteSet(Chars) /\ IsFiniteSet(Objects) /\ Chars \intersect Objects = {} /\ All = Chars \union Objects
    BY AllFacts
  <2>2. Terms(a, Chars \union Objects) /\ Terms(a, Objects)
    BY <1>2, <2>1 DEF Terms
  <2>3. SumFunctionOnSet(a, Chars \union Objects) = SumFunctionOnSet(a, Chars) + SumFunctionOnSet(a, Objects)
    BY ONLY <2>1, <2>2, SumDisjoint
  <2>4. SumFunctionOnSet(a, Objects) = SumFunctionOnSet(a, N)
    <3>1. \A x \in Objects : x \notin N => a[x] = 0
      BY <1>2
    <3> QED BY ONLY <1>4, <2>1, <2>2, <3>1, SumPart
  <2> QED BY <2>1, <2>3, <2>4
<1> PICK e : e = [c \in Chars |-> (IF c \in on THEN val[c] ELSE rec[c].value) + Stored(rec[c])]
  OBVIOUS
<1>11. SumFunctionOnSet(e, Chars) = SumFunctionOnSet(a, Chars) + SumFunctionOnSet(s, Chars)
  <2>1. \A c \in Chars : e[c] = a[c] + s[c]
    BY <1>1, <1>2
  <2>2. Terms(a, Chars)
    BY <1>2, AllFacts DEF Terms
  <2>3. Terms(s, Chars)
    <3> SUFFICES ASSUME NEW c \in Chars PROVE SumFunctionOnSet(a, I[c]) \in Int
      BY <1>6 DEF Terms
    <3> PICK J : J = I[c]
      OBVIOUS
    <3>1. J \in SUBSET All
      BY <1>3, AllFacts
    <3>2. IsFiniteSet(J) /\ Terms(a, J)
      BY <1>2, <3>1, AllFacts, FS_Subset DEF Terms
    <3>3. SumFunctionOnSet(a, J) \in Int
      BY ONLY <3>2, SumInt
    <3> QED BY <3>3
  <2> QED BY ONLY <2>1, <2>2, <2>3, AllFacts, SumPlus
<1>12. Possessions(on, mem, val, rec) = SumFunctionOnSet(e, Chars) + SumFunctionOnSet(a, mem)
  BY <1>8 DEF Possessions, SumFunction
<1>13. /\ SumFunctionOnSet(a, Chars) \in Int /\ SumFunctionOnSet(a, U) \in Int
       /\ SumFunctionOnSet(a, mem) \in Int
  <2>1. Chars \in SUBSET All /\ U \in SUBSET All /\ mem \in SUBSET All /\ IsFiniteSet(All)
    BY <1>3, AllFacts
  <2>2. IsFiniteSet(Chars) /\ IsFiniteSet(U) /\ IsFiniteSet(mem)
    BY <2>1, FS_Subset
  <2>3. Terms(a, Chars) /\ Terms(a, U) /\ Terms(a, mem)
    BY <1>2, <2>1 DEF Terms
  <2> QED BY <2>2, <2>3, SumInt
<1> QED BY <1>7, <1>9, <1>10, <1>11, <1>12, <1>13 DEF Total

RichInv == OwnInv /\ Rich(Have, There)

\* what every step comes to
NoGain == Rich(Have, There)' /\ Total(Have, There)' <= Total(Have, There)

LEMMA HaveIs ==
    ASSUME OwnInv
    PROVE  /\ HoldsValues(Have, online, live, value, record)
           /\ online \in SUBSET Chars /\ live \in SUBSET Objects /\ live \in SUBSET There
           /\ \A c \in Chars : record[c].items \in SUBSET There /\ record[c].items \intersect live = {}
           /\ \A o \in There : o \in live \/ \E c \in Chars : o \in record[c].items
<1>1. /\ online \in SUBSET Chars /\ live \in SUBSET Objects /\ value \in Values
      /\ Records(online, record) /\ Single(live, record)
  BY DEF OwnInv, Linked
<1>2. HoldsValues(Have, online, live, value, record)
  <2> PICK F : F = Have
    OBVIOUS
  <2>1. HoldsValues(F, online, live, value, record)
    BY <1>1, HeldIs DEF Have
  <2> QED BY <2>1
<1> QED BY <1>1, <1>2 DEF There, Exist, Single

LEMMA HaveNext ==
    ASSUME OwnInv'
    PROVE  /\ HoldsValues(Have', online', live', value', record')
           /\ online' \in SUBSET Chars /\ live' \in SUBSET Objects /\ live' \in SUBSET There'
           /\ \A c \in Chars : record'[c].items \in SUBSET There' /\ record'[c].items \intersect live' = {}
           /\ \A o \in There' : o \in live' \/ \E c \in Chars : o \in record'[c].items
<1>1. /\ online' \in SUBSET Chars /\ live' \in SUBSET Objects /\ value' \in Values
      /\ Records(online', record') /\ Single(live', record')
  BY DEF OwnInv, Linked
<1>2. HoldsValues(Have', online', live', value', record')
  <2> PICK F : F = Have'
    OBVIOUS
  <2>1. HoldsValues(F, online', live', value', record')
    BY <1>1, HeldIs DEF Have
  <2> QED BY <2>1
<1> QED BY <1>1, <1>2 DEF There, Exist, Single

\* the ledger of a step that leaves the records alone
LEMMA RoomLedger ==
    ASSUME OwnInv, OwnInv', UNCHANGED <<online, record>>,
           NEW F, F = Have, NEW G, G = Have', NEW N, N = There, NEW L, L = There'
    PROVE  /\ F \in Values /\ G \in Values
           /\ \A c \in Chars : c \in online => F[c] = value[c] /\ G[c] = value'[c]
           /\ \A c \in Chars : c \notin online => G[c] = F[c]
           /\ \A o \in live : F[o] = value[o]
           /\ \A o \in live' : G[o] = value'[o]
           /\ \A o \in N \ live : G[o] = F[o] /\ o \notin live'
           /\ L = live' \union (N \ live) /\ live \in SUBSET N
<1>1. /\ HoldsValues(F, online, live, value, record) /\ live \in SUBSET N
      /\ \A c \in Chars : record[c].items \in SUBSET N /\ record[c].items \intersect live = {}
      /\ \A o \in N : o \in live \/ \E c \in Chars : o \in record[c].items
  BY HaveIs
<1>2. /\ HoldsValues(G, online, live', value', record) /\ live' \in SUBSET L
      /\ \A c \in Chars : record[c].items \in SUBSET L /\ record[c].items \intersect live' = {}
      /\ \A o \in L : o \in live' \/ \E c \in Chars : o \in record[c].items
  BY HaveNext
<1>3. \A o \in N \ live : G[o] = F[o] /\ o \notin live'
  <2> TAKE o \in N \ live
  <2>1. PICK c \in Chars : o \in record[c].items
    BY <1>1
  <2> QED BY <1>1, <1>2, <2>1 DEF HoldsValues
<1>4. L = live' \union (N \ live)
  BY <1>1, <1>2
<1> QED BY <1>1, <1>2, <1>3, <1>4 DEF HoldsValues

LEMMA QuietRich ==
    ASSUME RichInv, OwnInv', UNCHANGED <<online, record>>, live' \in SUBSET live,
           \A x \in online \union live' : value'[x] = value[x]
    PROVE  NoGain
<1> PICK F, G, N, L : F = Have /\ G = Have' /\ N = There /\ L = There'
  OBVIOUS
<1>1. /\ G \in Values
      /\ \A c \in Chars : c \in online => F[c] = value[c] /\ G[c] = value'[c]
      /\ \A c \in Chars : c \notin online => G[c] = F[c]
      /\ \A o \in live : F[o] = value[o]
      /\ \A o \in live' : G[o] = value'[o]
      /\ \A o \in N \ live : G[o] = F[o]
      /\ L = live' \union (N \ live) /\ live \in SUBSET N
  BY RoomLedger DEF RichInv
<1>3. Rich(F, N) /\ N \in SUBSET Objects
  BY DEF RichInv, Rich, Sound
<1>2. /\ L \in SUBSET Objects /\ \A c \in Chars : G[c] = F[c]
      /\ \A x \in L \ Chests : x \in N /\ G[x] = F[x]
  BY <1>1, <1>3
<1>4. Rich(G, L) /\ Total(G, L) <= Total(F, N)
  BY <1>1, <1>2, <1>3, KeptRich
<1> QED BY <1>4 DEF NoGain

\* things change from memory to records and back
LEMMA CarriedRich ==
    ASSUME RichInv, OwnInv',
           \A c \in Chars : (IF c \in online' THEN value'[c] ELSE record'[c].value)
                            = IF c \in online THEN value[c] ELSE record[c].value,
           \A o \in live' \ Chests :
                            \/ o \in live /\ value'[o] = value[o]
                            \/ \E c \in Chars : o \in record[c].items /\ value'[o] = record[c].worth[o],
           \A c \in Chars : \A o \in record'[c].items :
              \/ o \in live /\ record'[c].worth[o] = value[o]
              \/ o \in record[c].items /\ record'[c].worth[o] = record[c].worth[o]
    PROVE  NoGain
<1> PICK F, G, N, L : F = Have /\ G = Have' /\ N = There /\ L = There'
  OBVIOUS
<1>1. /\ HoldsValues(F, online, live, value, record) /\ live \in SUBSET N
      /\ \A c \in Chars : record[c].items \in SUBSET N
  BY HaveIs DEF RichInv
<1>2. /\ HoldsValues(G, online', live', value', record')
      /\ \A o \in L : o \in live' \/ \E c \in Chars : o \in record'[c].items
  BY HaveNext
<1>3. G \in Values /\ \A c \in Chars : G[c] = F[c]
  BY <1>1, <1>2 DEF HoldsValues
<1>4. ASSUME NEW o \in L \ Chests PROVE o \in N /\ G[o] = F[o]
  <2>1. CASE o \in live'
    <3>1. G[o] = value'[o]
      BY <1>2, <2>1 DEF HoldsValues
    <3>2. CASE o \in live /\ value'[o] = value[o]
      BY <1>1, <3>1, <3>2 DEF HoldsValues
    <3>3. CASE \E c \in Chars : o \in record[c].items /\ value'[o] = record[c].worth[o]
      BY <1>1, <3>1, <3>3 DEF HoldsValues
    <3> QED BY <2>1, <3>2, <3>3
  <2>2. CASE \E c \in Chars : o \in record'[c].items
    <3> PICK c \in Chars : o \in record'[c].items
      BY <2>2
    <3>1. G[o] = record'[c].worth[o]
      BY <1>2 DEF HoldsValues
    <3>2. CASE o \in live /\ record'[c].worth[o] = value[o]
      BY <1>1, <3>1, <3>2 DEF HoldsValues
    <3>3. CASE o \in record[c].items /\ record'[c].worth[o] = record[c].worth[o]
      BY <1>1, <3>1, <3>3 DEF HoldsValues
    <3> QED BY <3>2, <3>3
  <2> QED BY <1>2, <2>1, <2>2
<1>5. L \in SUBSET Objects
  <2>1. /\ live' \in SUBSET Objects
        /\ \A o \in L : o \in live' \/ \E c \in Chars : o \in record'[c].items
    BY HaveNext
  <2>2. \A c \in Chars : record'[c].items \in SUBSET Carryable
    BY DEF OwnInv, Records, IsRecord
  <2> QED BY <2>1, <2>2, Kinds
<1>6. Rich(F, N)
  BY DEF RichInv
<1>7. Rich(G, L) /\ Total(G, L) <= Total(F, N)
  BY <1>3, <1>4, <1>5, <1>6, KeptRich
<1> QED BY <1>7 DEF NoGain

LEMMA RecordHas ==
    ASSUME NEW P, NEW on, NEW mem, Linked(P, on, mem), NEW c \in Chars, NEW val,
           NEW r, r = RecordOf(c, P, val)
    PROVE  /\ r.value = val[c] /\ r.items = Owned(P, c) /\ r.items \in SUBSET mem
           /\ \A o \in r.items : r.worth[o] = val[o]
<1>1. Inside(P, c) = Owned(P, c) /\ Owned(P, c) \subseteq mem
  BY InsideIs, OwnedAlive, Kinds
<1> QED BY <1>1 DEF RecordOf

LEMMA CrashRich ==
    ASSUME RichInv, OwnInv', NEW P, Linked(P, online, live), CrashFrom(P)
    PROVE  NoGain
<1>1. ASSUME NEW c \in Chars
      PROVE  /\ c \in online => record'[c] = RecordOf(c, P, value)
             /\ c \notin online => record'[c] = record[c]
  BY DEF CrashFrom, RichInv, OwnInv, Records
<1>2. online' = {} /\ live' = Chests
  BY DEF CrashFrom
<1>3. ASSUME NEW c \in Chars
      PROVE  /\ record'[c].value = IF c \in online THEN value[c] ELSE record[c].value
             /\ \A o \in record'[c].items :
                  \/ o \in live /\ record'[c].worth[o] = value[o]
                  \/ o \in record[c].items /\ record'[c].worth[o] = record[c].worth[o]
  <2>1. CASE c \in online
    <3> PICK r : r = record'[c]
      OBVIOUS
    <3>1. r.value = value[c] /\ r.items \in SUBSET live /\ \A o \in r.items : r.worth[o] = value[o]
      BY <1>1, <2>1, RecordHas
    <3> QED BY <2>1, <3>1
  <2>2. CASE c \notin online
    BY <1>1, <2>2
  <2> QED BY <2>1, <2>2
<1> QED BY <1>2, <1>3, CarriedRich

LEMMA LogoutRich ==
    ASSUME RichInv, OwnInv', NEW c \in Chars, Logout(c)
    PROVE  NoGain
<1>1. /\ c \in online /\ online' = online \ {c} /\ live' \in SUBSET live
      /\ record' = [record EXCEPT ![c] = RecordOf(c, place, value)]
      /\ value' = ValueOf(live' \union online', value)
  BY DEF Logout, Gone
<1>2. Linked(place, online, live) /\ record = [d \in Chars |-> record[d]]
  BY DEF RichInv, OwnInv, Records
<1>3. \A x \in online' \union live' : value'[x] = value[x]
  <2>1. online' \in SUBSET All /\ live' \in SUBSET All
    BY AllFacts DEF OwnInv, Linked
  <2> QED BY <1>1, <2>1 DEF ValueOf, All
<1>4. \A d \in Chars : d # c => record'[d] = record[d]
  BY <1>1, <1>2
<1>5. /\ record'[c].value = value[c] /\ record'[c].items \in SUBSET live
      /\ \A o \in record'[c].items : record'[c].worth[o] = value[o]
  <2> PICK r : r = record'[c]
    OBVIOUS
  <2>1. r = RecordOf(c, place, value)
    BY <1>1, <1>2
  <2>2. r.value = value[c] /\ r.items \in SUBSET live /\ \A o \in r.items : r.worth[o] = value[o]
    BY <1>2, <2>1, RecordHas
  <2> QED BY <2>2
<1>6. \A d \in Chars : (IF d \in online' THEN value'[d] ELSE record'[d].value)
                       = IF d \in online THEN value[d] ELSE record[d].value
  BY <1>1, <1>3, <1>4, <1>5
<1>7. \A o \in live' \ Chests :
        \/ o \in live /\ value'[o] = value[o]
        \/ \E d \in Chars : o \in record[d].items /\ value'[o] = record[d].worth[o]
  BY <1>1, <1>3
<1>8. \A d \in Chars : \A o \in record'[d].items :
        \/ o \in live /\ record'[d].worth[o] = value[o]
        \/ o \in record[d].items /\ record'[d].worth[o] = record[d].worth[o]
  BY <1>4, <1>5
<1> QED BY <1>6, <1>7, <1>8, CarriedRich

LEMMA LoginRich ==
    ASSUME RichInv, OwnInv', NEW c \in Chars, Login(c)
    PROVE  NoGain
<1> PICK r : r = record[c]
  OBVIOUS
<1>1. /\ c \notin online /\ online' = online \union {c} /\ live' = live \union r.items
      /\ record' = [record EXCEPT ![c] = NoRecord]
      /\ value' = [x \in All |-> IF x = c THEN r.value ELSE IF x \in r.items THEN r.worth[x] ELSE value[x]]
  BY DEF Login, All
<1>2. record = [d \in Chars |-> record[d]] /\ r.items \in SUBSET Objects /\ NoRecord.items = {}
      /\ live \in SUBSET Objects /\ online \in SUBSET Chars /\ r.items \intersect live = {}
  BY Kinds DEF RichInv, OwnInv, Records, IsRecord, NoRecord, Linked, Single
<1>3. \A d \in Chars : d # c => record'[d] = record[d]
  BY <1>1, <1>2
<1>4. record'[c].items = {}
  BY <1>1, <1>2
<1>5. value'[c] = r.value /\ \A d \in Chars : d # c => value'[d] = value[d]
  BY <1>1, <1>2, AllFacts
<1>6. \A o \in Objects : value'[o] = IF o \in r.items THEN r.worth[o] ELSE value[o]
  BY <1>1, AllFacts
<1>7. \A d \in Chars : (IF d \in online' THEN value'[d] ELSE record'[d].value)
                       = IF d \in online THEN value[d] ELSE record[d].value
  BY <1>1, <1>3, <1>5
<1>8. \A o \in live' \ Chests :
        \/ o \in live /\ value'[o] = value[o]
        \/ \E d \in Chars : o \in record[d].items /\ value'[o] = record[d].worth[o]
  BY <1>1, <1>2, <1>6
<1>9. \A d \in Chars : \A o \in record'[d].items :
        \/ o \in live /\ record'[d].worth[o] = value[o]
        \/ o \in record[d].items /\ record'[d].worth[o] = record[d].worth[o]
  BY <1>3, <1>4
<1> QED BY <1>7, <1>8, <1>9, CarriedRich

-----------------------------------------------------------------------------
(* Money and the shop. *)

LEMMA RichFacts ==
    ASSUME RichInv
    PROVE  /\ \A p \in online : value[p] \in Nat /\ value[p] <= Money
           /\ \A p, q \in online : p # q => value[p] + value[q] <= Money
           /\ \A o \in live : Priced(value, o)
           /\ value \in Values /\ live \in SUBSET Objects /\ online \in SUBSET Chars
<1> PICK F, N : F = Have /\ N = There
  OBVIOUS
<1>1. /\ HoldsValues(F, online, live, value, record) /\ live \in SUBSET N
      /\ online \in SUBSET Chars /\ live \in SUBSET Objects /\ value \in Values
  BY HaveIs DEF RichInv, OwnInv
<1>2. Rich(F, N) /\ Sound(F, N) /\ \A c \in Chars : F[c] >= 0
  BY DEF RichInv, Rich, Sound
<1>3. ASSUME NEW p \in online PROVE value[p] \in Nat /\ value[p] <= Money /\ F[p] = value[p]
  <2>1. F[p] = value[p] /\ F[p] \in Int /\ F[p] >= 0 /\ p \in Chars
    BY <1>1, <1>2 DEF HoldsValues, Values
  <2> PICK E : E = {}
    OBVIOUS
  <2>2. E \in SUBSET N
    OBVIOUS
  <2>3. /\ F[p] + SumFunctionOnSet(Amount(F, N), E) <= Money
        /\ SumFunctionOnSet(Amount(F, N), E) \in Nat
    BY ONLY <1>2, <2>1, <2>2, EarnedFits
  <2> QED BY <2>1, <2>3, MoneyNat
<1>4. ASSUME NEW p \in online, NEW q \in online, p # q PROVE value[p] + value[q] <= Money
  <2>1. p \in All /\ q \in All /\ p \in Chars /\ q \in Chars
    BY <1>1, AllFacts
  <2>2. Amount(F, N)[p] + Amount(F, N)[q] <= Money
    BY <1>2, <1>4, <2>1, AmountsBound
  <2>3. Amount(F, N)[p] = F[p] /\ Amount(F, N)[q] = F[q]
    BY <1>2, <2>1, AmountIs
  <2> QED BY <1>3, <2>2, <2>3
<1>5. ASSUME NEW o \in live PROVE Priced(value, o)
  <2>1. Priced(F, o) /\ F[o] = value[o]
    BY <1>1, <1>2 DEF Sound, HoldsValues
  <2> QED BY <2>1 DEF Priced
<1> QED BY <1>1, <1>3, <1>4, <1>5

\* gold passes between the present, or into a container
LEMMA PassedStep ==
    ASSUME RichInv, OwnInv', UNCHANGED <<online, live, record>>,
           NEW p \in online, NEW h \in online \union (live \intersect Boxes), h # p,
           NEW k \in Nat, k <= value[p],
           \A x \in online \union live : x \notin {p, h} => value'[x] = value[x],
           value'[p] = value[p] - k, h \notin Chests => value'[h] = value[h] + k,
           h \in Bags => k = 0 \/ value[h] + k <= MaxGold
    PROVE  NoGain
<1> PICK F, G, N, L : F = Have /\ G = Have' /\ N = There /\ L = There'
  OBVIOUS
<1>1. /\ G \in Values
      /\ \A c \in Chars : c \in online => F[c] = value[c] /\ G[c] = value'[c]
      /\ \A c \in Chars : c \notin online => G[c] = F[c]
      /\ \A o \in live : F[o] = value[o]
      /\ \A o \in live : G[o] = value'[o]
      /\ \A o \in N \ live : G[o] = F[o]
      /\ L = N /\ live \in SUBSET N
  <2>1. OwnInv /\ UNCHANGED <<online, record>> /\ live' = live
    BY DEF RichInv
  <2>2. /\ G \in Values
        /\ \A c \in Chars : c \in online => F[c] = value[c] /\ G[c] = value'[c]
        /\ \A c \in Chars : c \notin online => G[c] = F[c]
        /\ \A o \in live : F[o] = value[o]
        /\ \A o \in live' : G[o] = value'[o]
        /\ \A o \in N \ live : G[o] = F[o] /\ o \notin live'
        /\ L = live' \union (N \ live) /\ live \in SUBSET N
    BY <2>1, RoomLedger
  <2> QED BY <2>1, <2>2
<1>2. Rich(F, N) /\ online \in SUBSET Chars /\ live \in SUBSET Objects
  BY RichFacts DEF RichInv
<1>3. p \in Chars /\ h \in Chars \union (N \intersect Boxes)
  BY <1>1, <1>2
<1>4. F[p] = value[p] /\ G[p] = value'[p] /\ F[h] = value[h] /\ G[h] = value'[h]
  BY <1>1, <1>2
<1>5. \A x \in Chars \union N : x \notin {p, h} => G[x] = F[x]
  BY <1>1
<1>6. /\ G[p] = F[p] - k /\ k <= F[p] /\ (h \notin Chests => G[h] = F[h] + k)
      /\ h \in Bags => k = 0 \/ F[h] + k <= MaxGold
  BY <1>4
<1>7. Rich(G, N) /\ Total(G, N) <= Total(F, N)
  BY ONLY k \in Nat, h # p, <1>1, <1>2, <1>3, <1>5, <1>6, PassedRich
<1> QED BY <1>1, <1>7 DEF NoGain

LEMMA Limits ==
    ASSUME AmountsFit
    PROVE  /\ Money \in Nat /\ MaxGold \in Nat /\ IntMax \in Nat /\ Money + MaxGold <= IntMax
           /\ \A o \in Bags : Cost[o] \in Nat /\ Money + Cost[o] <= IntMax
BY MoneyNat, BelongingsConstants DEF AmountsFit

LEMMA WrapFacts ==
    ASSUME NEW x \in Int, IntMax \in Nat
    PROVE  Wrap(x) \in Int /\ Wrap(x) <= x /\ (x <= IntMax => Wrap(x) = x)
BY DEF Wrap

LEMMA RobRich ==
    ASSUME AmountsFit, RichInv, OwnInv', NEW p \in Chars, NEW q \in Chars, NEW n \in Nat, Rob(p, q, n)
    PROVE  NoGain
<1> PICK m : m = Min({value[q], n})
  OBVIOUS
<1>1. /\ p \in online /\ q \in online
      /\ value' = [[value EXCEPT ![q] = @ - m] EXCEPT ![p] = Wrap(@ + m)]
      /\ UNCHANGED <<online, live, place, worn, open, record>>
  BY DEF Rob
<1>2. /\ value[q] \in Nat /\ value[p] \in Nat /\ value[q] <= Money
      /\ p # q => value[p] + value[q] <= Money
      /\ value = [x \in All |-> value[x]] /\ online \in SUBSET All
  BY <1>1, RichFacts DEF Values, All
<1>3. m \in Nat /\ m <= value[q]
  <2>1. value[q] \in Int /\ n \in Int
    BY <1>2
  <2>2. m \in {value[q], n} /\ m <= value[q]
    BY <2>1, MinOfTwo
  <2> QED BY <1>2, <2>2
<1>4. Money \in Nat /\ IntMax \in Nat /\ Money <= IntMax
  BY Limits
<1>5. CASE p # q
  <2>1. value'[q] = value[q] - m /\ value'[p] = Wrap(value[p] + m)
        /\ \A x \in All : x \notin {p, q} => value'[x] = value[x]
    BY <1>1, <1>2, <1>5
  <2>2. value'[p] = value[p] + m
    <3>1. value[p] + m \in Int /\ value[p] + m <= IntMax
      BY <1>2, <1>3, <1>4, <1>5
    <3> QED BY <1>4, <2>1, <3>1, WrapFacts
  <2>3. /\ q \in online /\ p \in online \union (live \intersect Boxes)
        /\ \A x \in online \union live : x \notin {q, p} => value'[x] = value[x]
        /\ p \notin Bags
    BY <1>1, <2>1, RichFacts, AllFacts, Kinds
  <2>4. UNCHANGED <<online, live, record>>
    BY <1>1
  <2> QED BY <1>3, <1>5, <2>1, <2>2, <2>3, <2>4, PassedStep
<1>6. CASE p = q
  <2>1. value'[q] = Wrap(value[q] - m + m) /\ \A x \in All : x # q => value'[x] = value[x]
    BY <1>1, <1>2, <1>6
  <2>2. value[q] - m + m = value[q] /\ value[q] \in Int /\ value[q] <= IntMax
    BY <1>2, <1>3, <1>4
  <2>3. value'[q] = value[q]
    BY <1>4, <2>1, <2>2, WrapFacts
  <2>4. \A x \in online \union live' : value'[x] = value[x]
    BY <1>1, <2>1, <2>3, RichFacts, AllFacts
  <2>5. UNCHANGED <<online, record>> /\ live' \in SUBSET live
    BY <1>1
  <2> QED BY <2>4, <2>5, QuietRich
<1> QED BY <1>5, <1>6

LEMMA ReceivableIs ==
    ASSUME NEW h, value[h] \in Int, NEW n \in Nat, MaxGold \in Nat, IntMax \in Nat,
           n + MaxGold <= IntMax
    PROVE  /\ Receivable(h, n) \in Nat /\ Receivable(h, n) <= n
           /\ value[h] + n <= IntMax => Receivable(h, n) = 0 \/ value[h] + Receivable(h, n) <= MaxGold
BY DEF Receivable, Wrap

LEMMA MoneyGiveRich ==
    ASSUME AmountsFit, RichInv, OwnInv', NEW p \in Chars, NEW h \in Holders, NEW n \in Nat, p \in online,
           MoneyGive(p, h, n)
    PROVE  NoGain
<1> PICK m : m = Receivable(h, n)
  OBVIOUS
<1>1. /\ h \in online \union (live \intersect Boxes) /\ n <= value[p]
      /\ value' = [[value EXCEPT ![p] = @ - m] EXCEPT ![h] = Wrap(@ + m)]
      /\ UNCHANGED <<online, live, place, worn, open, record>>
  BY DEF MoneyGive, CanAfford
<1>2. /\ value[p] \in Nat /\ value[p] <= Money
      /\ \A q \in online : value[q] \in Nat /\ value[q] <= Money /\ (p # q => value[p] + value[q] <= Money)
      /\ value = [x \in All |-> value[x]] /\ online \in SUBSET All /\ live \in SUBSET All
      /\ \A x \in All : value[x] \in Int
  BY RichFacts, AllFacts DEF Values, All
<1>3. /\ Money \in Nat /\ IntMax \in Nat /\ MaxGold \in Nat /\ Money + MaxGold <= IntMax
      /\ \A o \in Bags : Cost[o] \in Nat /\ Money + Cost[o] <= IntMax
  BY Limits
<1>4. h \in All /\ value[h] \in Int /\ n + MaxGold <= IntMax
  BY <1>1, <1>2, <1>3
<1>5. /\ m \in Nat /\ m <= n
      /\ value[h] + n <= IntMax => m = 0 \/ value[h] + m <= MaxGold
  BY <1>3, <1>4, ReceivableIs
<1>6. CASE h # p
  <2>1. /\ value'[p] = value[p] - m /\ value'[h] = Wrap(value[h] + m)
        /\ \A x \in All : x \notin {p, h} => value'[x] = value[x]
    BY <1>1, <1>2, <1>4, <1>6
  <2>2. h \notin Chests => value[h] + n <= IntMax
    <3>1. CASE h \in online
      <4>1. value[h] \in Nat /\ value[p] + value[h] <= Money
        BY <1>2, <1>6, <3>1
      <4> QED BY <1>1, <1>2, <1>3, <4>1
    <3>2. CASE h \in live \intersect Bags
      <4>1. Cost[h] <= value[h] /\ (value[h] <= MaxGold \/ value[h] <= Cost[h])
        BY <3>2, RichFacts DEF Priced
      <4> QED BY <1>1, <1>2, <1>3, <1>4, <3>2, <4>1
    <3> QED BY <1>1, <3>1, <3>2 DEF Boxes
  <2>3. h \notin Chests => value'[h] = value[h] + m
    <3> HAVE h \notin Chests
    <3>1. value[h] + m \in Int /\ value[h] + m <= IntMax
      BY <1>3, <1>4, <1>5, <2>2
    <3> QED BY <1>3, <2>1, <3>1, WrapFacts
  <2>4. h \in Bags => m = 0 \/ value[h] + m <= MaxGold
    BY <1>5, <2>2, BelongingsConstants
  <2>5. m <= value[p] /\ UNCHANGED <<online, live, record>>
        /\ \A x \in online \union live : x \notin {p, h} => value'[x] = value[x]
    BY <1>1, <1>2, <1>5, <2>1
  <2> QED BY <1>1, <1>5, <1>6, <2>1, <2>3, <2>4, <2>5, PassedStep
<1>7. CASE h = p
  <2>1. value'[p] = Wrap(value[p] - m + m) /\ \A x \in All : x # p => value'[x] = value[x]
    BY <1>1, <1>2, <1>4, <1>7
  <2>2. value[p] - m + m = value[p] /\ value[p] \in Int /\ value[p] <= IntMax
    BY <1>2, <1>3, <1>5
  <2>3. value'[p] = value[p]
    BY <1>3, <2>1, <2>2, WrapFacts
  <2>4. \A x \in online \union live' : value'[x] = value[x]
    BY <1>1, <1>2, <2>1, <2>3
  <2>5. UNCHANGED <<online, record>> /\ live' \in SUBSET live
    BY <1>1
  <2> QED BY <2>4, <2>5, QuietRich
<1> QED BY <1>6, <1>7

\* p pays k for something new, which is worth no more
LEMMA SpentStep ==
    ASSUME RichInv, OwnInv', UNCHANGED <<online, record>>,
           NEW p \in online, NEW m \in Carryable, Fresh(m), live' = live \union {m},
           NEW k \in Nat, k <= value[p], NEW n \in Int, value' = Paid(value, p, k, m, n),
           Priced(value', m), Worth(value', m) <= k
    PROVE  NoGain
<1> PICK F, G, N, L : F = Have /\ G = Have' /\ N = There /\ L = There'
  OBVIOUS
<1>1. /\ G \in Values
      /\ \A c \in Chars : c \in online => F[c] = value[c] /\ G[c] = value'[c]
      /\ \A c \in Chars : c \notin online => G[c] = F[c]
      /\ \A o \in live : F[o] = value[o]
      /\ \A o \in live' : G[o] = value'[o]
      /\ \A o \in N \ live : G[o] = F[o] /\ o \notin live'
      /\ L = live' \union (N \ live) /\ live \in SUBSET N
  BY RoomLedger DEF RichInv
<1>2. Rich(F, N) /\ online \in SUBSET Chars /\ live \in SUBSET Objects /\ value \in Values
  BY RichFacts DEF RichInv
<1>3. p \in Chars /\ m \in Objects /\ m \notin Chests
  BY <1>2, Kinds
<1>4. /\ value'[p] = value[p] - k /\ value'[m] = n
      /\ \A x \in Chars \union Objects : x \notin {p, m} => value'[x] = value[x]
  <2>1. k \in Int
    OBVIOUS
  <2> PICK g : g = value'
    OBVIOUS
  <2>2. g = Paid(value, p, k, m, n)
    OBVIOUS
  <2>3. /\ g[p] = value[p] - k /\ g[m] = n
        /\ \A x \in Chars \union Objects : x \notin {p, m} => g[x] = value[x]
    BY <1>2, <1>3, <2>1, <2>2, Spent
  <2> QED BY <2>3
<1>5. m \notin N /\ L = N \union {m}
  <2>1. m \notin live
    BY DEF Fresh
  <2>2. m \in live'
    OBVIOUS
  <2> QED BY <1>1, <2>1, <2>2
<1>6. \A x \in Chars \union N : x # p => G[x] = F[x]
  <2> TAKE x \in Chars \union N
  <2> HAVE x # p
  <2>1. CASE x \in online
    <3>1. x # m
      BY <1>2, <1>3, <2>1, AllFacts
    <3> QED BY <1>1, <1>2, <1>4, <2>1, <3>1
  <2>2. CASE x \in Chars \ online
    BY <1>1, <2>2
  <2>3. CASE x \in live
    <3>1. x # m /\ x \in Objects
      BY <1>1, <1>2, <1>5, <2>3
    <3> QED BY <1>1, <1>4, <2>3, <3>1
  <2>4. CASE x \in N \ live
    BY <1>1, <2>4
  <2> QED BY <2>1, <2>2, <2>3, <2>4
<1>7. /\ G[p] = F[p] - k /\ k <= F[p] /\ Priced(G, m) /\ Worth(G, m) <= k
  <2>1. F[p] = value[p] /\ G[p] = value'[p] /\ G[m] = value'[m]
    BY <1>1, <1>3
  <2>2. Priced(G, m) /\ Worth(G, m) = Worth(value', m)
    BY <2>1 DEF Priced, Worth, Resale
  <2> QED BY <1>4, <2>1, <2>2
<1>8. G \in Values
  BY <1>1
<1>9. Rich(G, L) /\ Total(G, L) <= Total(F, N)
  BY ONLY k \in Nat, <1>2, <1>3, <1>5, <1>6, <1>7, <1>8, SpentRich
<1> QED BY <1>9 DEF NoGain

LEMMA NewPile ==
    ASSUME RichInv, OwnInv', UNCHANGED <<online, record>>,
           NEW p \in online, NEW m \in Piles, m \notin live \union Saved, live' = live \union {m},
           NEW n \in Nat, n > 0, n <= value[p], value' = [value EXCEPT ![p] = @ - n, ![m] = n]
    PROVE  NoGain
<1>1. m \in Carryable /\ m \in Objects /\ m \notin Bags /\ p \in Chars /\ value \in Values
  BY RichFacts, Kinds, BelongingsConstants
<1>2. value' = Paid(value, p, n, m, n) /\ Fresh(m) /\ n \in Int
  BY DEF Paid, Fresh
<1>3. value'[m] = n
  <2> PICK g : g = value'
    OBVIOUS
  <2>1. g = Paid(value, p, n, m, n)
    BY <1>2
  <2> PICK i : i = n
    OBVIOUS
  <2>3. g = Paid(value, p, n, m, i) /\ i \in Int /\ n \in Int /\ p \in Chars /\ m \in Objects /\ value \in Values
    BY <1>1, <1>2, <2>1
  <2>2. g[m] = i
    BY ONLY <2>3, Spent
  <2> QED BY <2>2
<1>4. Priced(value', m) /\ Worth(value', m) <= n
  BY <1>1, <1>3 DEF Priced, Worth
<1> QED BY <1>1, <1>2, <1>4, SpentStep

LEMMA MoneyDropRich ==
    ASSUME RichInv, OwnInv', NEW p \in online, NEW n \in Nat, MoneyDrop(p, n)
    PROVE  NoGain
<1>1. PICK m \in Piles \ (live \union Saved) :
        /\ live' = live \union {m}
        /\ value' = [value EXCEPT ![p] = @ - n, ![m] = n]
  BY DEF MoneyDrop
<1>2. UNCHANGED <<online, record>> /\ n > 0 /\ n <= value[p]
  BY RichFacts DEF MoneyDrop, CanAfford
<1>3. m \in Piles /\ m \notin live \union Saved
  BY <1>1
<1> QED BY <1>1, <1>2, <1>3, NewPile

LEMMA MoneyPutRich ==
    ASSUME RichInv, OwnInv', NEW p \in online, NEW d, NEW n \in Nat, MoneyPut(p, d, n)
    PROVE  NoGain
<1>1. PICK m \in Piles \ (live \union Saved) :
        /\ live' = live \union {m}
        /\ value' = [value EXCEPT ![p] = @ - n, ![m] = n]
  BY DEF MoneyPut
<1>2. UNCHANGED <<online, record>> /\ n > 0 /\ n <= value[p]
  BY RichFacts DEF MoneyPut, CanAfford
<1>3. m \in Piles /\ m \notin live \union Saved
  BY <1>1
<1> QED BY <1>1, <1>2, <1>3, NewPile

\* an object of the shop brings at least 1, and at most what it cost
LEMMA ShopRates ==
    ASSUME NEW o \in Things \union Bags
    PROVE  /\ Cost[o] \in Nat /\ (Cost[o] * SellMarkup) \div 100 \in Nat
           /\ \A v \in Int : v >= Cost[o] => Fraction(v) >= 1
           /\ Fraction(Cost[o]) <= (Cost[o] * SellMarkup) \div 100
<1> PICK b, s, k : b = BuyMarkup /\ s = SellMarkup /\ k = Cost[o]
  OBVIOUS
<1>1. b \in Nat /\ s \in Nat /\ k \in Nat /\ b <= s /\ k * b >= 100
  BY BelongingsConstants, ShopTerms
<1>2. k * b <= k * s /\ k * s >= 0 /\ k * s \in Int /\ k * b \in Int
  BY <1>1, SMT
<1>3. \A v \in Int : v >= k => v * b >= k * b /\ v * b \in Int
  BY <1>1, SMT
<1>4. (k * s) \div 100 \in Nat /\ (k * b) \div 100 <= (k * s) \div 100
  BY <1>2
<1>5. \A v \in Int : v >= k => (v * b) \div 100 >= 1
  <2> TAKE v \in Int
  <2> HAVE v >= k
  <2> PICK w : w = v * b
    OBVIOUS
  <2>1. w \in Int /\ w >= 100
    BY <1>1, <1>2, <1>3
  <2>2. w \div 100 >= 1
    BY <2>1
  <2> QED BY <2>2
<1> QED BY <1>1, <1>4, <1>5 DEF Fraction

LEMMA ShopBuyRich ==
    ASSUME RichInv, OwnInv', NEW p \in Chars, NEW o \in Things \union Bags, ShopBuy(p, o)
    PROVE  NoGain
<1> PICK cost : cost = (Cost[o] * SellMarkup) \div 100
  OBVIOUS
<1>1. /\ p \in online /\ o \notin live \union Saved /\ value[p] >= cost
      /\ live' = live \union {o}
      /\ value' = [value EXCEPT ![p] = @ - cost, ![o] = Cost[o]]
      /\ UNCHANGED <<online, record>>
  BY DEF ShopBuy
<1>2. /\ Cost[o] \in Nat /\ cost \in Nat /\ Fraction(Cost[o]) >= 1 /\ Fraction(Cost[o]) <= cost
      /\ Fraction(Cost[o]) \in Int
  <2>1. Cost[o] \in Int /\ Cost[o] >= Cost[o]
    BY ShopRates
  <2> QED BY <2>1, ShopRates, FractionInt
<1>3. o \in Carryable /\ o \in Objects /\ o \notin Piles /\ o \notin Chests /\ value \in Values
  BY RichFacts, Kinds, BelongingsConstants
<1>4. value' = Paid(value, p, cost, o, Cost[o]) /\ Fresh(o) /\ Cost[o] \in Int /\ cost <= value[p]
  BY <1>1, <1>2, RichFacts DEF Paid, Fresh
<1>5. value'[o] = Cost[o]
  <2> PICK g : g = value'
    OBVIOUS
  <2>1. g = Paid(value, p, cost, o, Cost[o]) /\ cost \in Int
    BY <1>2, <1>4
  <2>2. g[o] = Cost[o]
    BY <1>3, <1>4, <2>1, Spent
  <2> QED BY <2>2
<1>6. Priced(value', o)
  BY <1>2, <1>3, <1>5 DEF Priced
<1>7. Worth(value', o) <= cost
  <2>1. Worth(value', o) = Resale(value', o)
    BY <1>3 DEF Worth
  <2>2. /\ Resale(value', o) \in Int
        /\ Resale(value', o) = 1 \/ Resale(value', o) = Fraction(value'[o])
    BY <1>4, <1>5, ResaleFacts
  <2> QED BY <1>2, <1>5, <2>1, <2>2
<1> QED BY <1>1, <1>2, <1>3, <1>4, <1>6, <1>7, SpentStep

\* p gets v, no more than it has and what goes was worth
LEMMA EarnedStep ==
    ASSUME RichInv, OwnInv', UNCHANGED <<online, record>>,
           NEW p \in online, NEW E \in SUBSET live, live' = live \ E, NEW v \in Nat,
           value'[p] = v, \A x \in online \union live' : x # p => value'[x] = value[x],
           v <= value[p] + SumFunctionOnSet(Amount(Have, There), E)
    PROVE  NoGain
<1> PICK F, G, N, L : F = Have /\ G = Have' /\ N = There /\ L = There'
  OBVIOUS
<1>1. /\ G \in Values
      /\ \A c \in Chars : c \in online => F[c] = value[c] /\ G[c] = value'[c]
      /\ \A c \in Chars : c \notin online => G[c] = F[c]
      /\ \A o \in live : F[o] = value[o]
      /\ \A o \in live' : G[o] = value'[o]
      /\ \A o \in N \ live : G[o] = F[o] /\ o \notin live'
      /\ L = live' \union (N \ live) /\ live \in SUBSET N
  BY RoomLedger DEF RichInv
<1>2. Rich(F, N) /\ online \in SUBSET Chars /\ live \in SUBSET Objects /\ N \in SUBSET Objects
  BY RichFacts DEF RichInv, Rich, Sound
<1>3. p \in Chars /\ E \in SUBSET N /\ L = N \ E
  BY <1>1, <1>2
<1>4. \A x \in Chars \union L : x # p => G[x] = F[x]
  BY <1>1, <1>2
<1>5. G[p] >= 0 /\ G[p] <= F[p] + SumFunctionOnSet(Amount(F, N), E) /\ G \in Values
  BY <1>1, <1>3
<1>6. Rich(G, L) /\ Total(G, L) <= Total(F, N)
  BY ONLY <1>2, <1>3, <1>4, <1>5, EarnedRich
<1> QED BY <1>6 DEF NoGain

\* what an object in memory is worth in the ledger
LEMMA AmountHere ==
    ASSUME RichInv, NEW a, a = Amount(Have, There)
    PROVE  /\ Terms(a, All) /\ \A x \in All : a[x] >= 0
           /\ \A o \in live : a[o] = Worth(value, o)
           /\ \A o \in live \ Chests : Resale(value, o) \in Int /\ Resale(value, o) <= a[o]
<1> PICK F, N : F = Have /\ N = There
  OBVIOUS
<1>1. \A o \in live : F[o] = value[o] /\ o \in N /\ o \in Objects
  BY HaveIs DEF RichInv, HoldsValues
<1>2. Sound(F, N)
  BY DEF RichInv, Rich
<1>3. \A o \in live : Worth(value, o) = Worth(F, o) /\ Resale(value, o) = Resale(F, o)
  BY <1>1 DEF Worth, Resale
<1>4. /\ Terms(a, All) /\ \A x \in All : a[x] >= 0
      /\ \A o \in Objects : o \in N => a[o] = Worth(F, o)
      /\ \A o \in N \ Chests : Resale(F, o) \in Int /\ Resale(F, o) <= Worth(F, o)
  BY <1>2, AmountIs
<1> QED BY <1>1, <1>3, <1>4

\* a part of what there is, in the ledger
LEMMA AmountPart ==
    ASSUME RichInv, NEW a, a = Amount(Have, There), NEW E \in SUBSET live
    PROVE  /\ SumFunctionOnSet(a, E) \in Nat /\ \A o \in E : a[o] <= SumFunctionOnSet(a, E)
           /\ \A p \in online : value[p] + SumFunctionOnSet(a, E) <= Money
           /\ IsFiniteSet(E) /\ Terms(a, E) /\ \A o \in E : a[o] >= 0
<1>1. live \in SUBSET All /\ live \in SUBSET There /\ online \in SUBSET Chars
      /\ \A p \in online : Have[p] = value[p]
  BY HaveIs, AllFacts DEF RichInv, HoldsValues
<1>2. Terms(a, All) /\ \A x \in All : a[x] >= 0
  BY AmountHere
<1>3. Terms(a, E) /\ \A x \in E : a[x] >= 0
  BY <1>1, <1>2 DEF Terms
<1>4. IsFiniteSet(E)
  <2>1. E \in SUBSET All
    BY <1>1
  <2> QED BY <2>1, AllFacts, FS_Subset
<1>5. SumFunctionOnSet(a, E) >= 0 /\ SumFunctionOnSet(a, E) \in Int /\ \A x \in E : a[x] <= SumFunctionOnSet(a, E)
  BY <1>3, <1>4, SumPositive, SumInt
<1>6. ASSUME NEW p \in online PROVE value[p] + SumFunctionOnSet(a, E) <= Money
  <2> PICK F, N : F = Have /\ N = There
    OBVIOUS
  <2>1. Rich(F, N) /\ p \in Chars /\ E \in SUBSET N
    BY <1>1 DEF RichInv
  <2>2. F[p] + SumFunctionOnSet(Amount(F, N), E) <= Money
    BY ONLY <2>1, EarnedFits
  <2> QED BY <1>1, <2>2
<1> QED BY <1>3, <1>4, <1>5, <1>6

\* what a step that destroys and pays leaves
LEMMA EarnedValues ==
    ASSUME RichInv, NEW p \in online, NEW v \in Int,
           value' = ValueOf(live' \union online, [value EXCEPT ![p] = v]), live' \in SUBSET live
    PROVE  value'[p] = v /\ \A x \in online \union live' : x # p => value'[x] = value[x]
<1>1. value = [x \in All |-> value[x]] /\ online \in SUBSET All /\ live' \in SUBSET All
  BY RichFacts, AllFacts DEF Values, All
<1>2. value' = [x \in All |-> IF x \in live' \union online THEN [value EXCEPT ![p] = v][x] ELSE 0]
  BY DEF ValueOf, All
<1> QED BY <1>1, <1>2

LEMMA MoneyTakeRich ==
    ASSUME AmountsFit, RichInv, OwnInv', NEW p \in Chars, NEW m \in Piles, MoneyTake(p, m)
    PROVE  NoGain
<1> PICK v : v = Wrap(value[p] + value[m])
  OBVIOUS
<1> PICK D : D = {m} \union TossedWith(m)
  OBVIOUS
<1> PICK E : E = Doomed(place, D) \intersect live
  OBVIOUS
<1> PICK a : a = Amount(Have, There)
  OBVIOUS
<1>1. /\ p \in online /\ m \in live /\ 0 <= v
      /\ live' = live \ Doomed(place, D)
      /\ value' = ValueOf(live' \union online, [value EXCEPT ![p] = v])
      /\ UNCHANGED <<online, record>>
  BY DEF MoneyTake, MayTouch, Gone
<1>2. m \in E /\ E \in SUBSET live /\ live' = live \ E /\ live' \in SUBSET live
  <2>1. Linked(place, online, live)
    BY DEF RichInv, OwnInv
  <2>2. D \subseteq Doomed(place, D)
    BY <2>1, DoomedIs
  <2> QED BY <1>1, <2>2
<1>3. value[p] \in Int /\ value[m] \in Int /\ v \in Int /\ v <= value[p] + value[m]
  <2>1. value[p] \in Int /\ value[m] \in Int
    BY <1>1, RichFacts, AllFacts DEF Values
  <2>2. value[p] + value[m] \in Int
    BY <2>1
  <2> QED BY <2>1, <2>2, Limits, WrapFacts
<1>4. v \in Nat
  BY <1>1, <1>3
<1>5. value'[p] = v /\ \A x \in online \union live' : x # p => value'[x] = value[x]
  BY <1>1, <1>2, <1>3, EarnedValues
<1>6. a[m] = value[m] /\ a[m] <= SumFunctionOnSet(a, E) /\ SumFunctionOnSet(a, E) \in Nat
  <2>1. a[m] = Worth(value, m)
    BY <1>1, AmountHere
  <2>2. a[m] <= SumFunctionOnSet(a, E) /\ SumFunctionOnSet(a, E) \in Nat
    BY <1>2, AmountPart
  <2> QED BY <2>1, <2>2 DEF Worth
<1>7. v <= value[p] + SumFunctionOnSet(a, E)
  BY <1>3, <1>6
<1> QED BY <1>1, <1>2, <1>4, <1>5, <1>7, EarnedStep

\* the shop pays for what it takes, and no more than it is worth
LEMMA PriceFair ==
    ASSUME RichInv, NEW o \in Carryable, o \in live,
           NEW D, D = IF o \in Bags /\ place.contents[o] # {} THEN place.contents[o] ELSE {o},
           NEW E, E = Doomed(place, D) \intersect live, NEW a, a = Amount(Have, There)
    PROVE  Price(o) \in Nat /\ Price(o) <= SumFunctionOnSet(a, E)
<1>1. Linked(place, online, live) /\ place \in Place /\ value \in Values /\ live \in SUBSET Objects
  BY DEF RichInv, OwnInv, Linked
<1>2. E \in SUBSET live /\ D \subseteq Doomed(place, D)
  BY <1>1, DoomedIs
<1>3. /\ SumFunctionOnSet(a, E) \in Nat /\ \A x \in E : a[x] <= SumFunctionOnSet(a, E)
      /\ IsFiniteSet(E) /\ Terms(a, E) /\ \A x \in E : a[x] >= 0
  BY <1>2, AmountPart
<1>4. \A x \in live \ Chests : Resale(value, x) \in Int /\ Resale(value, x) <= a[x]
  BY AmountHere
<1>5. \A x \in Objects : value[x] \in Int
  BY <1>1 DEF Values
<1>6. \A x \in live : Resale(value, x) \in Int /\ Resale(value, x) >= 1 /\ Resale(value, x) >= Fraction(value[x])
         /\ (Resale(value, x) = 1 \/ Resale(value, x) = Fraction(value[x]))
  BY <1>1, <1>5, ResaleFacts
<1>7. o \in live \ Chests
  BY Kinds
<1>8. CASE ~(o \in Bags /\ place.contents[o] # {})
  <2>1. Price(o) = Resale(value, o) /\ o \in E
    BY <1>2, <1>8 DEF Price
  <2>2. a[o] \in Int
    BY <1>3, <2>1 DEF Terms
  <2>3. Resale(value, o) \in Int /\ Resale(value, o) >= 1 /\ Resale(value, o) <= a[o]
    BY <1>4, <1>6, <1>7
  <2>4. a[o] <= SumFunctionOnSet(a, E)
    BY <1>3, <2>1
  <2> QED BY <1>3, <2>1, <2>2, <2>3, <2>4
<1>9. CASE o \in Bags /\ place.contents[o] # {}
  <2> PICK I : I = Owned(place, o)
    OBVIOUS
  <2>1. Inside(place, o) = I /\ o \notin I /\ I \in SUBSET live /\ I \in SUBSET Carryable
    <3>1. Inside(place, o) = I /\ I \subseteq live
      BY <1>1, <1>9, InsideIs, OwnedAlive, Kinds
    <3>2. o \notin I
      BY <1>1, NotInItself DEF Linked
    <3> QED BY <3>1, <3>2, OwnedFacts
  <2>2. I \in SUBSET E
    <3>1. D = place.contents[o] /\ D \in SUBSET Carryable
      BY <1>1, <1>9, Kinds DEF Place
    <3>2. \A x \in Carryable : place.owner[x] \in D \ Boxes => x \in D
      BY <1>1, <3>1, Kinds DEF Place
    <3> PICK W : W = Doomed(place, D)
      OBVIOUS
    <3>3. Closed(place, W)
      BY <1>1, <3>2, DoomedClosed
    <3>4. \A x \in Carryable : place.owner[x] = o => x \in D
      BY <1>1, <1>9, <3>1, Kinds DEF Linked
    <3>5. \A x \in Carryable : place.owner[x] = o \/ (place.owner[x] \in Bags /\ place.owner[x] \in W) => x \in W
      BY <1>2, <3>3, <3>4 DEF Closed
    <3>6. Owned(place, o) \subseteq W
      BY <3>5, OwnedLeast
    <3> QED BY <2>1, <3>6
  <2> PICK f : f = [x \in Objects |-> Resale(value, x)]
    OBVIOUS
  <2> PICK S : S = {o} \union I
    OBVIOUS
  <2>3. NetWorth(o) = SumFunctionOnSet(f, S)
    BY <2>1 DEF NetWorth
  <2>4. IsFiniteSet(I) /\ IsFiniteSet(S) /\ S \ {o} = I /\ o \in S
    <3>1. I \in SUBSET All /\ S \in SUBSET All
      BY <2>1, AllFacts
    <3> QED BY <2>1, <3>1, AllFacts, FS_Subset
  <2>5. Terms(f, S) /\ Terms(f, I) /\ Terms(a, I) /\ \A x \in I : f[x] >= 0 /\ f[x] <= a[x]
    <3>1. \A x \in S : x \in live \ Chests /\ x \in Objects
      BY <1>1, <1>7, <2>1, Kinds
    <3>2. \A x \in S : f[x] = Resale(value, x)
      BY <3>1
    <3>3. Terms(a, I)
      BY <1>3, <2>2 DEF Terms
    <3>4. \A x \in I : f[x] >= 0 /\ f[x] <= a[x]
      BY <1>4, <1>6, <3>1, <3>2
    <3> QED BY <1>4, <3>1, <3>2, <3>3, <3>4 DEF Terms
  <2>6. SumFunctionOnSet(f, S) = f[o] + SumFunctionOnSet(f, S \ {o})
    BY ONLY <2>4, <2>5, SumWithout
  <2>7. SumFunctionOnSet(f, I) <= SumFunctionOnSet(a, I)
    BY ONLY <2>4, <2>5, SumLess
  <2>8. SumFunctionOnSet(a, I) <= SumFunctionOnSet(a, E)
    BY ONLY <1>3, <2>2, SumWithin
  <2>9. SumFunctionOnSet(f, I) >= 0
    BY <2>4, <2>5, SumPositive
  <2>10. SumFunctionOnSet(f, I) \in Int /\ SumFunctionOnSet(a, I) \in Int
    BY <2>4, <2>5, SumInt
  <2>11. f[o] = Fraction(value[o]) /\ f[o] \in Int
    <3>1. Cost[o] <= value[o]
      BY <1>9, RichFacts DEF Priced
    <3>2. o \in Things \union Bags /\ o \in Objects /\ value[o] \in Int
      BY <1>1, <1>5, <1>9
    <3>3. Cost[o] \in Nat
      BY <3>2, ShopRates
    <3>4. Fraction(value[o]) >= 1 /\ Fraction(value[o]) \in Int
      BY <3>1, <3>2, <3>3, ShopRates, FractionInt
    <3>5. f[o] = Resale(value, o)
      BY <3>2
    <3> QED BY <1>6, <3>4, <3>5
  <2>12. Price(o) = NetWorth(o) - Fraction(value[o])
    BY <1>9 DEF Price
  <2>13. Price(o) = SumFunctionOnSet(f, I)
    <3>1. SumFunctionOnSet(f, S) = f[o] + SumFunctionOnSet(f, I)
      BY <2>4, <2>6
    <3>3. NetWorth(o) = f[o] + SumFunctionOnSet(f, I)
      BY ONLY <2>3, <3>1
    <3>4. Price(o) = NetWorth(o) - f[o]
      BY ONLY <2>11, <2>12
    <3> PICK w, y : w = NetWorth(o) /\ y = SumFunctionOnSet(f, I)
      OBVIOUS
    <3>2. w = f[o] + y /\ y \in Int /\ f[o] \in Int /\ w \in Int
      BY <2>10, <2>11, <3>3
    <3>5. Price(o) = w - f[o]
      BY <3>4
    <3>6. w - f[o] = y
      BY ONLY <3>2
    <3> QED BY <3>5, <3>6
  <2> QED BY <1>3, <2>7, <2>8, <2>9, <2>10, <2>13
<1> QED BY <1>8, <1>9

LEMMA ShopSellRich ==
    ASSUME AmountsFit, RichInv, OwnInv', NEW p \in Chars, NEW o \in Carryable, ShopSell(p, o)
    PROVE  NoGain
<1> PICK D : D = IF o \in Bags /\ place.contents[o] # {} THEN place.contents[o] ELSE {o}
  OBVIOUS
<1> PICK E : E = Doomed(place, D) \intersect live
  OBVIOUS
<1> PICK a : a = Amount(Have, There)
  OBVIOUS
<1> PICK k : k = Price(o)
  OBVIOUS
<1> PICK v : v = Wrap(value[p] + k)
  OBVIOUS
<1>1. /\ o \in Owned(place, p) /\ live' = live \ Doomed(place, D)
      /\ value' = ValueOf(live' \union online, [value EXCEPT ![p] = v])
      /\ UNCHANGED <<online, record>>
  BY DEF ShopSell, Gone
<1>2. p \in online /\ o \in live
  <2>1. Linked(place, online, live) /\ p \in Holders /\ p \notin live
    BY AllFacts, Kinds DEF RichInv, OwnInv, Linked
  <2> QED BY <1>1, <2>1, OwnedAlive
<1>3. E \in SUBSET live /\ live' = live \ E /\ live' \in SUBSET live
  BY <1>1
<1>4. k \in Nat /\ k <= SumFunctionOnSet(a, E)
  BY <1>2, PriceFair
<1>5. SumFunctionOnSet(a, E) \in Nat /\ value[p] + SumFunctionOnSet(a, E) <= Money
  BY <1>2, <1>3, AmountPart
<1>6. value[p] \in Nat /\ Money \in Nat /\ IntMax \in Nat /\ Money <= IntMax
  BY <1>2, RichFacts, Limits
<1>7. v = value[p] + k
  <2>1. value[p] + k \in Int /\ value[p] + k <= IntMax
    BY <1>4, <1>5, <1>6
  <2> QED BY <1>6, <2>1, WrapFacts
<1>8. v \in Nat /\ v \in Int /\ v <= value[p] + SumFunctionOnSet(a, E)
  BY <1>4, <1>5, <1>6, <1>7
<1>9. value'[p] = v /\ \A x \in online \union live' : x # p => value'[x] = value[x]
  BY <1>1, <1>2, <1>3, <1>8, EarnedValues
<1> QED BY <1>1, <1>2, <1>3, <1>8, <1>9, EarnedStep

-----------------------------------------------------------------------------
(* All steps. *)

\* who is not in the room has no gold in memory
Away == \A c \in Chars \ online : value[c] = 0

LEMMA Payer ==
    ASSUME Away, NEW p \in Chars, NEW n \in Nat, CanAfford(p, n)
    PROVE  p \in online
BY DEF Away, CanAfford

\* no money in it: things change places, or are lost
LEMMA QuietSteps ==
    ASSUME RichInv, OwnInv', NEW p \in Chars,
           \/ \E o \in Carryable : \/ Get(p, o) \/ Dropped(p, o) \/ Die(p, o) \/ PutOn(p, o) \/ TakeOff(p, o)
                                   \/ \E h \in Holders : PutIn(p, o, h)
                                   \/ \E h \in Chars : Give(p, o, h)
           \/ \E o \in Boxes : Open(p, o) \/ Close(p, o)
    PROVE  NoGain
<1>1. CASE \E o \in Carryable : Get(p, o)
  <2>1. PICK o \in Carryable : Get(p, o)
    BY <1>1
  <2>2. value' = ValueOf(live' \union online, value) /\ UNCHANGED <<online, record>> /\ live' \in SUBSET live
    BY <2>1 DEF Get
  <2>3. online \in SUBSET All /\ live' \in SUBSET All
    BY <2>2, RichFacts, AllFacts
  <2>4. \A x \in online \union live' : value'[x] = value[x]
    BY <2>2, <2>3 DEF ValueOf, All
  <2> QED BY <2>2, <2>4, QuietRich
<1>2. CASE UNCHANGED <<online, live, value, record>>
  <2>1. UNCHANGED <<online, record>> /\ live' \in SUBSET live /\ \A x \in online \union live' : value'[x] = value[x]
    BY <1>2
  <2> QED BY <2>1, QuietRich
<1>3. ASSUME NEW o \in Carryable, Dropped(p, o) \/ Die(p, o) \/ PutOn(p, o) \/ TakeOff(p, o)
      PROVE  UNCHANGED <<online, live, value, record>>
  BY <1>3 DEF Dropped, Die, PutOn, TakeOff
<1>4. ASSUME NEW o \in Carryable, NEW h \in Holders, PutIn(p, o, h)
      PROVE  UNCHANGED <<online, live, value, record>>
  BY <1>4 DEF PutIn
<1>5. ASSUME NEW o \in Carryable, NEW h \in Chars, Give(p, o, h)
      PROVE  UNCHANGED <<online, live, value, record>>
  BY <1>5 DEF Give
<1>6. ASSUME NEW o \in Boxes, Open(p, o) \/ Close(p, o)
      PROVE  UNCHANGED <<online, live, value, record>>
  BY <1>6 DEF Open, Close
<1> QED BY <1>1, <1>2, <1>3, <1>4, <1>5, <1>6

\* a gift to a bag: the server goes
LEMMA GiveRich ==
    ASSUME RichInv, OwnInv', NEW p \in Chars, NEW o \in Carryable, NEW h \in Holders, Give(p, o, h)
    PROVE  NoGain
<1>1. CASE h \in Chars
  BY <1>1, QuietSteps
<1>2. CASE h \notin Chars
  <2>1. PICK fits \in BOOLEAN : CrashFrom(BeGivenTo(place, o, h, FALSE, fits))
    BY <1>2 DEF Give
  <2> PICK Q : Q = BeGivenTo(place, o, h, FALSE, fits)
    OBVIOUS
  <2>2. World(place, worn, open, online, live) /\ h \in online \union live
    BY DEF RichInv, OwnInv, World, Give
  <2>3. World(Q, worn, open, online, live)
    BY <2>2, WorldGiven
  <2>4. Linked(Q, online, live) /\ CrashFrom(Q)
    BY <2>1, <2>3 DEF World
  <2> QED BY <2>4, CrashRich
<1> QED BY <1>1, <1>2

LEMMA RequestRich ==
    ASSUME AmountsFit, RichInv, Away, OwnInv', NEW p \in Chars, Request(p)
    PROVE  NoGain
<1>1. ASSUME NEW n \in 1 .. MaxAmount, NEW h \in Holders, MoneyGive(p, h, n) PROVE NoGain
  <2>1. n \in Nat /\ CanAfford(p, n)
    BY <1>1, BelongingsConstants DEF MoneyGive
  <2>2. p \in online
    BY <2>1, Payer
  <2> QED BY <1>1, <2>1, <2>2, MoneyGiveRich
<1>2. ASSUME NEW n \in 1 .. MaxAmount, NEW d \in Chars \union Objects, MoneyPut(p, d, n) PROVE NoGain
  <2>1. n \in Nat /\ CanAfford(p, n)
    BY <1>2, BelongingsConstants DEF MoneyPut
  <2>2. p \in online
    BY <2>1, Payer
  <2> QED BY <1>2, <2>1, <2>2, MoneyPutRich
<1>3. ASSUME NEW n \in 1 .. MaxAmount, MoneyDrop(p, n) PROVE NoGain
  <2>1. n \in Nat /\ CanAfford(p, n)
    BY <1>3, BelongingsConstants DEF MoneyDrop
  <2>2. p \in online
    BY <2>1, Payer
  <2> QED BY <1>3, <2>1, <2>2, MoneyDropRich
<1>4. ASSUME NEW m \in Piles, MoneyTake(p, m) PROVE NoGain
  BY <1>4, MoneyTakeRich
<1>5. ASSUME NEW o \in Carryable, ShopSell(p, o) PROVE NoGain
  BY <1>5, ShopSellRich
<1>6. ASSUME NEW o \in Things \union Bags, ShopBuy(p, o) PROVE NoGain
  BY <1>6, ShopBuyRich
<1>7. ASSUME NEW o \in Carryable, NEW h \in Holders, Give(p, o, h) PROVE NoGain
  BY <1>7, GiveRich
<1>8. ASSUME NEW o \in Carryable,
             \/ Get(p, o) \/ Dropped(p, o) \/ Die(p, o) \/ PutOn(p, o) \/ TakeOff(p, o)
             \/ \E h \in Holders : PutIn(p, o, h)
      PROVE  NoGain
  BY <1>8, QuietSteps
<1>9. ASSUME NEW o \in Boxes, Open(p, o) \/ Close(p, o) PROVE NoGain
  BY <1>9, QuietSteps
<1> QED BY <1>1, <1>2, <1>3, <1>4, <1>5, <1>6, <1>7, <1>8, <1>9 DEF Request

LEMMA NextRich ==
    ASSUME AmountsFit, RichInv, Away, OwnInv', [Next]_vars
    PROVE  NoGain
<1>1. ASSUME NEW c \in Chars, Login(c) PROVE NoGain
  BY <1>1, LoginRich
<1>2. ASSUME NEW c \in Chars, Logout(c) PROVE NoGain
  BY <1>2, LogoutRich
<1>3. ASSUME NEW p \in Chars, Request(p) PROVE NoGain
  BY <1>3, RequestRich
<1>4. ASSUME NEW p \in Chars, NEW q \in Chars, NEW n \in 1 .. MaxAmount, Rob(p, q, n) PROVE NoGain
  <2>1. n \in Nat
    BY BelongingsConstants
  <2> QED BY <1>4, <2>1, RobRich
<1>5. ASSUME Crash PROVE NoGain
  BY <1>5, CrashRich DEF Crash, RichInv, OwnInv
<1>6. ASSUME UNCHANGED vars PROVE NoGain
  <2>1. UNCHANGED <<online, record>> /\ live' \in SUBSET live /\ \A x \in online \union live' : value'[x] = value[x]
    BY <1>6 DEF vars
  <2> QED BY <2>1, QuietRich
<1> QED BY <1>1, <1>2, <1>3, <1>4, <1>5, <1>6 DEF Next

\* the values of who is away stay as they are, or are reset
LEMMA AwayStep ==
    ASSUME Away, UNCHANGED online, \A c \in Chars \ online : value'[c] = value[c] \/ value'[c] = 0
    PROVE  Away'
BY DEF Away

LEMMA Elsewhere ==
    ASSUME NEW f, NEW g, NEW h, NEW a, NEW b, NEW x, NEW y, NEW c \in DOMAIN f, c # a, c # b,
           g = [f EXCEPT ![a] = x], h = [g EXCEPT ![b] = y]
    PROVE  h[c] = f[c]
<1>1. DOMAIN g = DOMAIN f /\ g[c] = f[c]
  OBVIOUS
<1>2. h[c] = g[c]
  BY <1>1
<1> QED BY <1>1, <1>2

LEMMA PaidAway ==
    ASSUME OwnInv, NEW p \in online, NEW m \in Objects, NEW k, NEW n,
           value' = [value EXCEPT ![p] = @ - k, ![m] = n]
    PROVE  \A c \in Chars \ online : value'[c] = value[c]
<1> SUFFICES ASSUME NEW c \in Chars \ online PROVE value'[c] = value[c]
  OBVIOUS
<1>1. DOMAIN value = All
  BY DEF OwnInv, Values, All
<1>2. c \in DOMAIN value /\ c # p /\ c # m
  BY <1>1, AllFacts
<1>3. PICK x : x = value[p] - k
  OBVIOUS
<1>4. PICK g : g = [value EXCEPT ![p] = x]
  OBVIOUS
<1>5. PICK y : y = n
  OBVIOUS
<1>6. PICK w : w = value'
  OBVIOUS
<1>7. w = [g EXCEPT ![m] = y]
  BY <1>3, <1>4, <1>5, <1>6
<1>8. w[c] = value[c]
  BY <1>2, <1>4, <1>7, Elsewhere
<1> QED BY <1>6, <1>8

LEMMA GivenAway ==
    ASSUME OwnInv, NEW p \in online, NEW h \in online \union live, NEW k, NEW n,
           value' = [[value EXCEPT ![p] = @ - k] EXCEPT ![h] = Wrap(@ + n)]
    PROVE  \A c \in Chars \ online : value'[c] = value[c]
<1> SUFFICES ASSUME NEW c \in Chars \ online PROVE value'[c] = value[c]
  OBVIOUS
<1>1. DOMAIN value = All
  BY DEF OwnInv, Values, All
<1>2. c \in DOMAIN value /\ c # p /\ c # h
  BY <1>1, AllFacts DEF OwnInv, Linked
<1>3. PICK x : x = value[p] - k
  OBVIOUS
<1>4. PICK g : g = [value EXCEPT ![p] = x]
  OBVIOUS
<1>5. PICK y : y = Wrap(g[h] + n)
  OBVIOUS
<1>6. PICK w : w = value'
  OBVIOUS
<1>7. w = [g EXCEPT ![h] = y]
  BY <1>3, <1>4, <1>5, <1>6
<1>8. w[c] = value[c]
  BY <1>2, <1>4, <1>7, Elsewhere
<1> QED BY <1>6, <1>8

LEMMA GoneAway ==
    ASSUME OwnInv, OwnInv', NEW f, value' = ValueOf(live' \union online', f)
    PROVE  \A c \in Chars \ online' : value'[c] = 0
<1>1. \A c \in Chars \ online' : c \notin live' \union online'
  BY AllFacts DEF OwnInv, Linked
<1> QED BY <1>1 DEF ValueOf

LEMMA RequestAway ==
    ASSUME OwnInv, Away, OwnInv', NEW p \in Chars, Request(p)
    PROVE  Away'
<1>1. ASSUME NEW n \in 1 .. MaxAmount, NEW h \in Holders, MoneyGive(p, h, n) PROVE Away'
  <2>1. n \in Nat /\ CanAfford(p, n) /\ UNCHANGED online /\ h \in online \union live
        /\ value' = [[value EXCEPT ![p] = @ - Receivable(h, n)] EXCEPT ![h] = Wrap(@ + Receivable(h, n))]
    BY <1>1, BelongingsConstants DEF MoneyGive
  <2>2. p \in online
    BY <2>1, Payer
  <2>3. \A c \in Chars \ online : value'[c] = value[c]
    BY <2>1, <2>2, GivenAway
  <2> QED BY <2>1, <2>3, AwayStep
<1>2. ASSUME NEW n \in 1 .. MaxAmount, NEW d \in Chars \union Objects, MoneyPut(p, d, n) PROVE Away'
  <2>1. n \in Nat /\ CanAfford(p, n) /\ UNCHANGED online
    BY <1>2, BelongingsConstants DEF MoneyPut
  <2>2. PICK m \in Piles : value' = [value EXCEPT ![p] = @ - n, ![m] = n]
    BY <1>2 DEF MoneyPut
  <2>3. p \in online /\ m \in Objects
    BY <2>1, Payer, Kinds
  <2>4. \A c \in Chars \ online : value'[c] = value[c]
    BY <2>2, <2>3, PaidAway
  <2> QED BY <2>1, <2>4, AwayStep
<1>3. ASSUME NEW n \in 1 .. MaxAmount, MoneyDrop(p, n) PROVE Away'
  <2>1. n \in Nat /\ CanAfford(p, n) /\ UNCHANGED online
    BY <1>3, BelongingsConstants DEF MoneyDrop
  <2>2. PICK m \in Piles : value' = [value EXCEPT ![p] = @ - n, ![m] = n]
    BY <1>3 DEF MoneyDrop
  <2>3. p \in online /\ m \in Objects
    BY <2>1, Payer, Kinds
  <2>4. \A c \in Chars \ online : value'[c] = value[c]
    BY <2>2, <2>3, PaidAway
  <2> QED BY <2>1, <2>4, AwayStep
<1>4. ASSUME NEW m \in Piles, MoneyTake(p, m) PROVE Away'
  <2>1. UNCHANGED online /\ \E f : value' = ValueOf(live' \union online', f)
    BY <1>4 DEF MoneyTake
  <2> QED BY <2>1, GoneAway DEF Away
<1>5. ASSUME NEW o \in Carryable, ShopSell(p, o) PROVE Away'
  <2>1. UNCHANGED online /\ \E f : value' = ValueOf(live' \union online', f)
    BY <1>5 DEF ShopSell
  <2> QED BY <2>1, GoneAway DEF Away
<1>6. ASSUME NEW o \in Things \union Bags, ShopBuy(p, o) PROVE Away'
  <2>1. UNCHANGED online /\ p \in online
        /\ \E k : value' = [value EXCEPT ![p] = @ - k, ![o] = Cost[o]]
    BY <1>6 DEF ShopBuy
  <2>2. o \in Objects
    BY Kinds
  <2>3. \A c \in Chars \ online : value'[c] = value[c]
    BY <2>1, <2>2, PaidAway
  <2> QED BY <2>1, <2>3, AwayStep
<1>7. ASSUME NEW o \in Carryable, NEW h \in Holders, Give(p, o, h) PROVE Away'
  <2>1. UNCHANGED <<online, value>> \/ \E Q : CrashFrom(Q)
    BY <1>7 DEF Give
  <2>2. CASE UNCHANGED <<online, value>>
    BY <2>2 DEF Away
  <2>3. CASE \E Q : CrashFrom(Q)
    BY <2>3 DEF Away, CrashFrom
  <2> QED BY <2>1, <2>2, <2>3
<1>8. ASSUME NEW o \in Carryable, Get(p, o) PROVE Away'
  <2>1. UNCHANGED online /\ \E f : value' = ValueOf(live' \union online', f)
    BY <1>8 DEF Get
  <2> QED BY <2>1, GoneAway DEF Away
<1>9. ASSUME NEW o \in Carryable,
             \/ Dropped(p, o) \/ Die(p, o) \/ PutOn(p, o) \/ TakeOff(p, o)
             \/ \E h \in Holders : PutIn(p, o, h)
      PROVE  Away'
  <2>1. UNCHANGED <<online, value>>
    BY <1>9 DEF Dropped, Die, PutOn, TakeOff, PutIn
  <2> QED BY <2>1 DEF Away
<1>10. ASSUME NEW o \in Boxes, Open(p, o) \/ Close(p, o) PROVE Away'
  <2>1. UNCHANGED <<online, value>>
    BY <1>10 DEF Open, Close
  <2> QED BY <2>1 DEF Away
<1> QED BY <1>1, <1>2, <1>3, <1>4, <1>5, <1>6, <1>7, <1>8, <1>9, <1>10 DEF Request

LEMMA NextAway ==
    ASSUME OwnInv, Away, OwnInv', [Next]_vars
    PROVE  Away'
<1>1. ASSUME NEW c \in Chars, Login(c) PROVE Away'
  <2>1. online' = online \union {c} /\ \A d \in Chars \ online' : value'[d] = value[d]
    <3>1. \A d \in Chars : d \notin record[c].items
      BY Kinds DEF OwnInv, Records, IsRecord
    <3> QED BY <1>1, <3>1 DEF Login
  <2> QED BY <2>1 DEF Away
<1>2. ASSUME NEW c \in Chars, Logout(c) PROVE Away'
  <2>1. value' = ValueOf(live' \union online', value)
    BY <1>2 DEF Logout
  <2> QED BY <2>1, GoneAway DEF Away
<1>3. ASSUME NEW p \in Chars, Request(p) PROVE Away'
  BY <1>3, RequestAway
<1>4. ASSUME NEW p \in Chars, NEW q \in Chars, NEW n \in 1 .. MaxAmount, Rob(p, q, n) PROVE Away'
  <2>1. /\ p \in online \union live /\ q \in online /\ UNCHANGED online
        /\ \E k : value' = [[value EXCEPT ![q] = @ - k] EXCEPT ![p] = Wrap(@ + k)]
    BY <1>4 DEF Rob
  <2>2. \A c \in Chars \ online : value'[c] = value[c]
    BY <2>1, GivenAway
  <2> QED BY <2>1, <2>2, AwayStep
<1>5. ASSUME Crash PROVE Away'
  BY <1>5 DEF Crash, CrashFrom, Away
<1>6. ASSUME UNCHANGED vars PROVE Away'
  BY <1>6 DEF vars, Away
<1> QED BY <1>1, <1>2, <1>3, <1>4, <1>5, <1>6 DEF Next

LEMMA InitRich == Init => RichInv /\ Away
<1> SUFFICES ASSUME Init PROVE RichInv /\ Away
  OBVIOUS
<1>1. OwnInv
  BY InitOwn
<1> PICK F, N : F = Have /\ N = There
  OBVIOUS
<1>2. /\ HoldsValues(F, online, live, value, record)
      /\ \A o \in N : o \in live \/ \E c \in Chars : o \in record[c].items
  BY <1>1, HaveIs
<1>3. /\ online = {} /\ live = Chests
      /\ \A c \in Chars : record[c].value = Purse[c] /\ record[c].items = {} /\ value[c] = 0
  BY DEF Init, NoRecord
<1>4. F \in Values /\ \A c \in Chars : F[c] = Purse[c] /\ Purse[c] \in Nat
  BY <1>2, <1>3, BelongingsConstants DEF HoldsValues
<1>5. N \in SUBSET Chests
  BY <1>2, <1>3
<1>6. Sound(F, N)
  BY <1>4, <1>5, BelongingsConstants, Kinds DEF Sound, Priced
<1> PICK a : a = Amount(F, N)
  OBVIOUS
<1>7. /\ Terms(a, All) /\ \A c \in Chars : a[c] = Purse[c]
      /\ \A x \in All : x \notin Chars => a[x] = 0
  <2>1. \A o \in Chests : Worth(F, o) = 0
    BY BelongingsConstants DEF Worth
  <2>2. /\ Terms(a, All) /\ \A c \in Chars : a[c] = F[c]
        /\ \A o \in Objects : o \in N => a[o] = Worth(F, o)
        /\ \A o \in Objects : o \notin N => a[o] = 0
    BY <1>6, AmountIs
  <2>3. \A o \in Objects : a[o] = 0
    BY <1>5, <2>1, <2>2
  <2> QED BY <1>4, <2>2, <2>3, AllFacts
<1>8. SumFunctionOnSet(a, All) = SumFunctionOnSet(a, Chars)
  <2>1. IsFiniteSet(All) /\ Chars \in SUBSET All
    BY AllFacts
  <2> QED BY ONLY <1>7, <2>1, SumPart
<1>9. SumFunctionOnSet(a, Chars) = SumFunctionOnSet(Purse, Chars)
  <2>1. IsFiniteSet(Chars)
    BY AllFacts
  <2> QED BY ONLY <1>7, <2>1, SumSame
<1>10. Money = SumFunctionOnSet(Purse, Chars)
  BY BelongingsConstants DEF Money, SumFunction
<1>11. Total(F, N) = Money
  BY <1>8, <1>9, <1>10 DEF Total
<1>12. Away
  BY <1>3 DEF Away
<1> QED BY <1>1, <1>6, <1>11, <1>12, MoneyNat DEF RichInv, Rich

\* the ledger is the wealth of the property
LEMMA WealthIs ==
    ASSUME NEW on \in SUBSET Chars, NEW mem \in SUBSET Objects, NEW val \in Values, NEW rec,
           Records(on, rec), Single(mem, rec), Sound(Held(on, mem, val, rec), Exist(mem, rec))
    PROVE  Possessions(on, mem, val, rec) = Total(Held(on, mem, val, rec), Exist(mem, rec))
<1> PICK F, N : F = Held(on, mem, val, rec) /\ N = Exist(mem, rec)
  OBVIOUS
<1>1. Sound(F, N)
  OBVIOUS
<1>2. Possessions(on, mem, val, rec) = Total(F, N)
  BY <1>1, PossessionsAre
<1> QED BY <1>2

LEMMA WealthNow == ASSUME RichInv PROVE Wealth = Total(Have, There)
<1>1. /\ online \in SUBSET Chars /\ live \in SUBSET Objects /\ value \in Values
      /\ Records(online, record) /\ Single(live, record)
  BY DEF RichInv, OwnInv, Linked
<1>2. Sound(Held(online, live, value, record), Exist(live, record))
  BY DEF RichInv, Rich, Have, There
<1>3. Possessions(online, live, value, record)
      = Total(Held(online, live, value, record), Exist(live, record))
  BY <1>1, <1>2, WealthIs
<1>4. Wealth = Possessions(online, live, value, record)
  BY DEF Wealth, Possessions, Gold
<1> QED BY <1>3, <1>4 DEF Have, There

LEMMA WealthNext == ASSUME RichInv' PROVE Wealth' = Total(Have, There)'
<1>1. /\ online' \in SUBSET Chars /\ live' \in SUBSET Objects /\ value' \in Values
      /\ Records(online', record') /\ Single(live', record')
  BY DEF RichInv, OwnInv, Linked
<1>2. Sound(Held(online', live', value', record'), Exist(live', record'))
  BY DEF RichInv, Rich, Have, There
<1>3. Possessions(online', live', value', record')
      = Total(Held(online', live', value', record'), Exist(live', record'))
  BY <1>1, <1>2, WealthIs
<1>4. Wealth' = Possessions(online', live', value', record')
  BY DEF Wealth, Possessions, Gold
<1> QED BY <1>3, <1>4 DEF Have, There

(* Wealth is never made: whatever players, the shop, logouts, logins and   *)
(* crashes do, all gold and what the shop would pay for all objects stays  *)
(* what it was or becomes less.  It holds of purses whose gold fits in an  *)
(* int on top of MAX_GOLD_HELD; beyond, the sums of the code wrap.         *)
THEOREM NoMintingHolds == ASSUME AmountsFit PROVE Spec => NoMinting
<1>1. Init => RichInv /\ Away
  BY InitRich
<1>2. RichInv /\ Away /\ [Next]_vars => (RichInv /\ Away)' /\ [Wealth' <= Wealth]_vars
  <2> SUFFICES ASSUME RichInv, Away, [Next]_vars PROVE (RichInv /\ Away)' /\ Wealth' <= Wealth
    OBVIOUS
  <2>1. OwnInv'
    BY NextOwn DEF RichInv
  <2>2. NoGain
    BY <2>1, NextRich
  <2>3. Away'
    BY <2>1, NextAway DEF RichInv
  <2>4. RichInv'
    BY <2>1, <2>2 DEF NoGain, RichInv
  <2>5. Wealth' <= Wealth
    BY <2>2, <2>4, WealthNow, WealthNext DEF NoGain
  <2> QED BY <2>3, <2>4, <2>5
<1> QED BY <1>1, <1>2, PTL DEF Spec, NoMinting

-----------------------------------------------------------------------------
(* What a request leaves to the other characters. *)

\* what stays where it was stays owned
LEMMA OwnedStays ==
    ASSUME NEW P, NEW Q, NEW c,
           \A x \in Carryable : x \in Owned(P, c) => Q.owner[x] = P.owner[x]
    PROVE  Owned(P, c) \subseteq Owned(Q, c)
<1> PICK S : S = Owned(P, c) \intersect Owned(Q, c)
  OBVIOUS
<1>1. ASSUME NEW o \in Carryable, P.owner[o] = c \/ (P.owner[o] \in Bags /\ P.owner[o] \in S)
      PROVE  o \in S
  <2>1. o \in Owned(P, c)
    BY <1>1, OwnedFacts
  <2>2. Q.owner[o] = P.owner[o]
    BY <2>1
  <2>3. o \in Owned(Q, c)
    BY <1>1, <2>2, OwnedFacts
  <2> QED BY <2>1, <2>3
<1>2. \A o \in Carryable : P.owner[o] = c \/ (P.owner[o] \in Bags /\ P.owner[o] \in S) => o \in S
  BY <1>1
<1>3. Owned(P, c) \subseteq S
  BY ONLY <1>2, OwnedLeast
<1> QED BY <1>3

\* an object moved to a place of the same owner stays owned, with all in it
LEMMA OwnedMoves ==
    ASSUME NEW P \in Place, NEW Q, NEW c, NEW o \in Carryable, NEW h \in Holders,
           h # o, h \notin Owned(P, o), h = c \/ h \in Owned(P, c),
           Q.owner[o] = h, \A x \in Carryable : x # o => Q.owner[x] = P.owner[x]
    PROVE  Owned(P, c) \subseteq Owned(Q, c)
<1> PICK S : S = Owned(Q, c) \union {o} \union Owned(P, o)
  OBVIOUS
<1> PICK T : T = Owned(Q, c)
  OBVIOUS
<1>1. ASSUME NEW x \in Carryable, P.owner[x] = c \/ (P.owner[x] \in Bags /\ P.owner[x] \in S)
      PROVE  x \in S
  <2>1. CASE x = o
    BY <2>1
  <2>2. CASE x # o
    <3>1. Q.owner[x] = P.owner[x]
      BY <2>2
    <3>2. CASE P.owner[x] = c \/ (P.owner[x] \in Bags /\ P.owner[x] \in Owned(Q, c))
      BY <3>1, <3>2, OwnedFacts
    <3>3. CASE P.owner[x] = o \/ (P.owner[x] \in Bags /\ P.owner[x] \in Owned(P, o))
      <4>1. x \in Owned(P, o)
        BY <3>3, OwnedFacts
      <4> QED BY <4>1
    <3> QED BY <1>1, <3>2, <3>3
  <2> QED BY <2>1, <2>2
<1>2. \A x \in Carryable : P.owner[x] = c \/ (P.owner[x] \in Bags /\ P.owner[x] \in S) => x \in S
  BY <1>1
<1>3. Owned(P, c) \subseteq S
  BY ONLY <1>2, OwnedLeast
<1>4. h = c \/ (h \in Bags /\ h \in Owned(Q, c))
  BY <1>3, OwnedFacts, Kinds
<1>5. o \in Owned(Q, c)
  BY <1>4, OwnedFacts
<1>6. ASSUME NEW x \in Carryable, P.owner[x] = o \/ (P.owner[x] \in Bags /\ P.owner[x] \in T)
      PROVE  x \in T
  <2>1. CASE x = o
    BY <2>1, <1>5
  <2>2. CASE x # o
    <3>1. Q.owner[x] = P.owner[x] /\ P.owner[x] \in Holders \union {None}
      BY <2>2 DEF Place
    <3>2. o \in Holders => o \in Bags
      BY Kinds
    <3>3. o # None
      BY Kinds
    <3>4. Q.owner[x] \in Bags /\ Q.owner[x] \in Owned(Q, c)
      BY <1>5, <1>6, <3>1, <3>2, <3>3
    <3> QED BY <3>4, OwnedFacts
  <2> QED BY <2>1, <2>2
<1>7. \A x \in Carryable : P.owner[x] = o \/ (P.owner[x] \in Bags /\ P.owner[x] \in T) => x \in T
  BY <1>6
<1>8. Owned(P, o) \subseteq T
  BY ONLY <1>7, OwnedLeast
<1> QED BY <1>3, <1>5, <1>8

\* what is below h is not below c, if h is not
LEMMA OwnedApart ==
    ASSUME NEW P, NEW c, NEW h, h # c, h \notin Owned(P, c), c \notin Bags
    PROVE  Owned(P, h) \intersect Owned(P, c) = {}
<1> PICK S : S = Carryable \ Owned(P, c)
  OBVIOUS
<1>1. \A x \in Carryable : P.owner[x] = h \/ (P.owner[x] \in Bags /\ P.owner[x] \in S) => x \in S
  BY OwnedFacts
<1>2. Owned(P, h) \subseteq S
  BY ONLY <1>1, OwnedLeast
<1> QED BY <1>2

\* the loop over owners of a holder that has one ends at a holder without
LEMMA HasRoot ==
    ASSUME NEW P \in Place, Founded(P.owner, Bags), NEW b \in Bags, P.owner[b] # None
    PROVE  \E r \in Holders : GetOwner(P, r) = r /\ b \in Owned(P, r)
<1> DEFINE Rooted(x) == \E r \in Holders : GetOwner(P, r) = r /\ x \in Owned(P, r)
<1> PICK S : S = {x \in Bags : P.owner[x] # None /\ ~Rooted(x)}
  OBVIOUS
<1> SUFFICES ASSUME b \in S PROVE FALSE
  OBVIOUS
<1>1. PICK x \in S : P.owner[x] \notin S
  <2>1. S \in SUBSET Bags /\ S # {}
    OBVIOUS
  <2> QED BY <2>1 DEF Founded
<1> PICK h : h = P.owner[x]
  OBVIOUS
<1>2. x \in Carryable /\ h \in Holders
  BY Kinds DEF Place
<1>3. CASE GetOwner(P, h) = h
  <2>1. x \in Owned(P, h)
    BY <1>2, OwnedFacts
  <2> QED BY <1>2, <1>3, <2>1
<1>4. CASE GetOwner(P, h) # h
  <2>1. h \in Bags /\ P.owner[h] # None
    BY <1>2, <1>4, Kinds DEF GetOwner
  <2>2. PICK r \in Holders : GetOwner(P, r) = r /\ h \in Owned(P, r)
    BY <1>1, <2>1
  <2>3. x \in Owned(P, r)
    BY <1>2, <2>1, <2>2, OwnedFacts
  <2> QED BY <2>2, <2>3
<1> QED BY <1>3, <1>4

\* the base owner of what a character owns is the character
LEMMA BaseOfOwned ==
    ASSUME NEW P \in Place, Founded(P.owner, Bags), NEW c \in Chars, NEW o \in Owned(P, c)
    PROVE  BaseOwner(P, o) = c
<1> PICK h : h = P.owner[o]
  OBVIOUS
<1>1. o \in Carryable /\ c \in Holders /\ c \notin Carryable /\ c \notin Bags /\ c # None /\ None \notin Bags
  BY OwnedFacts, Kinds
<1>2. h # None /\ GetOwner(P, o) = h
  BY <1>1, OwnedFacts DEF GetOwner
<1>3. GetOwner(P, c) = c
  BY <1>1 DEF GetOwner
<1>4. CASE h = c
  BY <1>2, <1>3, <1>4 DEF BaseOwner
<1>5. CASE h # c
  <2>1. h \in Bags /\ h \in Owned(P, c)
    BY <1>1, <1>5, OwnedFacts
  <2>2. h \in Carryable /\ P.owner[h] # None /\ P.owner[h] # h
    BY <1>1, <2>1, OwnedFacts, NotInItself, Kinds
  <2>3. GetOwner(P, h) # h
    BY <2>2 DEF GetOwner
  <2>4. ASSUME NEW r \in Holders, GetOwner(P, r) = r, o \in Owned(P, r), r # c PROVE FALSE
    <3>1. ASSUME r \in Owned(P, c) PROVE FALSE
      <4>1. r \in Carryable /\ r \in Bags /\ P.owner[r] # None
        BY <1>1, <3>1, OwnedFacts, Kinds
      <4>2. P.owner[r] = r
        BY <2>4, <4>1 DEF GetOwner
      <4> QED BY <4>1, <4>2, NotInItself
    <3>2. Owned(P, r) \intersect Owned(P, c) = {}
      BY <1>1, <2>4, <3>1, OwnedApart
    <3> QED BY <2>4, <3>2
  <2>5. BaseOwner(P, o) = CHOOSE r \in Holders : GetOwner(P, r) = r /\ o \in Owned(P, r)
    BY <1>2, <2>3 DEF BaseOwner
  <2>6. \E r \in Holders : GetOwner(P, r) = r /\ o \in Owned(P, r)
    BY <1>1, <1>3
  <2> QED BY <2>4, <2>5, <2>6
<1> QED BY <1>4, <1>5

\* a holder whose base owner is a character is it, or is owned by it
LEMMA OwnedOfBase ==
    ASSUME NEW P \in Place, Founded(P.owner, Bags), NEW c \in Chars, NEW h \in Holders,
           BaseOwner(P, h) = c
    PROVE  h = c \/ h \in Owned(P, c)
<1> PICK g : g = GetOwner(P, h)
  OBVIOUS
<1>1. CASE GetOwner(P, g) = g
  <2>1. g = c
    BY <1>1 DEF BaseOwner
  <2>2. CASE h \in Carryable /\ P.owner[h] # None
    BY <2>1, <2>2, OwnedFacts DEF GetOwner
  <2>3. CASE ~(h \in Carryable /\ P.owner[h] # None)
    BY <2>1, <2>3 DEF GetOwner
  <2> QED BY <2>2, <2>3
<1>2. CASE GetOwner(P, g) # g
  <2>1. h \in Bags /\ P.owner[h] # None
    BY <1>2, Kinds DEF GetOwner
  <2>2. BaseOwner(P, h) = CHOOSE r \in Holders : GetOwner(P, r) = r /\ h \in Owned(P, r)
    BY <1>2 DEF BaseOwner
  <2>3. \E r \in Holders : GetOwner(P, r) = r /\ h \in Owned(P, r)
    BY <2>1, HasRoot
  <2> QED BY <2>2, <2>3
<1> QED BY <1>1, <1>2

\* only the object that is moved gets another owner
Elsewise(P, Q, o) == Q \in Place /\ \A x \in Carryable : x # o => Q.owner[x] = P.owner[x]

LEMMA GivenOnly ==
    ASSUME NEW P \in Place, NEW o \in Carryable, NEW h \in Holders,
           NEW force \in BOOLEAN, NEW fits \in BOOLEAN, NEW Q, Q = BeGivenTo(P, o, h, force, fits)
    PROVE  Elsewise(P, Q, o)
<1>1. Q = P \/ Q = Into(P, o, h)
  BY GivenIs
<1>2. CASE Q = P
  BY <1>2 DEF Elsewise
<1>3. CASE Q = Into(P, o, h)
  <2>1. Moved(P, o, h, Q)
    BY <1>3, IntoPlace
  <2> QED BY <2>1 DEF Moved, Elsewise
<1> QED BY <1>1, <1>2, <1>3

LEMMA TakenOnly ==
    ASSUME NEW P \in Place, NEW o \in Carryable, NEW p \in Chars, NEW fits \in BOOLEAN,
           NEW Q, Q = Take(P, o, p, fits)
    PROVE  Elsewise(P, Q, o)
<1> p \in Holders
  BY Kinds
<1>1. Q = P \/ Q = BeGivenTo(P, o, p, FALSE, fits) \/ Q = Into(P, o, p)
  BY DEF Take
<1>2. CASE Q = P
  BY <1>2 DEF Elsewise
<1>3. CASE Q = Into(P, o, p)
  <2>1. Moved(P, o, p, Q)
    BY <1>3, IntoPlace
  <2> QED BY <2>1 DEF Moved, Elsewise
<1>4. CASE Q = BeGivenTo(P, o, p, FALSE, fits)
  BY <1>4, GivenOnly
<1> QED BY <1>1, <1>2, <1>3, <1>4

LEMMA GroundOnly ==
    ASSUME NEW P \in Place, NEW o \in Carryable, NEW p, NEW isWorn,
           NEW Q, Q = Drop(P, o, p, isWorn)
    PROVE  Elsewise(P, Q, o)
<1>1. CASE Q = P
  BY <1>1 DEF Elsewise
<1>2. CASE Q = OnGround(P, o)
  BY <1>2, OnGroundPlace DEF Elsewise
<1> QED BY <1>1, <1>2 DEF Drop

Spared(c) == Estate(c) \subseteq Estate(c)' /\ Gold(c) <= Gold(c)'

\* a step that leaves who is on and the records as they are
LEMMA SparedIf ==
    ASSUME OwnInv, UNCHANGED <<online, record>>, NEW c \in Chars,
           Owned(place, c) \subseteq Owned(place', c), c \in online => value[c] <= value'[c]
    PROVE  Spared(c)
<1>1. record[c].value \in Int
  BY DEF OwnInv, Records, IsRecord
<1>2. Estate(c) \subseteq Estate(c)'
  BY DEF Estate
<1>3. CASE c \in online
  <2>1. Gold(c) = value[c] /\ Gold(c)' = value'[c]
    BY <1>3 DEF Gold
  <2> QED BY <1>2, <1>3, <2>1 DEF Spared
<1>4. CASE c \notin online
  <2>1. Gold(c) = record[c].value /\ Gold(c)' = record[c].value
    BY <1>4 DEF Gold
  <2> QED BY <1>1, <1>2, <2>1 DEF Spared
<1> QED BY <1>3, <1>4

LEMMA SparedElse ==
    ASSUME OwnInv, UNCHANGED <<online, record>>, NEW c \in Chars,
           NEW o, o \notin Owned(place, c), Elsewise(place, place', o),
           c \in online => value'[c] = value[c]
    PROVE  Spared(c)
<1>1. \A x \in Carryable : x \in Owned(place, c) => place'.owner[x] = place.owner[x]
  BY DEF Elsewise
<1> PICK Q : Q = place'
  OBVIOUS
<1> PICK P : P = place
  OBVIOUS
<1>2. \A x \in Carryable : x \in Owned(P, c) => Q.owner[x] = P.owner[x]
  BY <1>1
<1>3. Owned(P, c) \subseteq Owned(Q, c)
  BY ONLY <1>2, OwnedStays
<1>4. value[c] \in Int
  BY DEF OwnInv, Values
<1>5. c \in online => value[c] <= value'[c]
  BY <1>4
<1> QED BY <1>3, <1>5, SparedIf

LEMMA SparedStill ==
    ASSUME OwnInv, UNCHANGED <<online, record, place>>, NEW c \in Chars,
           c \in online => value'[c] = value[c]
    PROVE  Spared(c)
<1>1. value[c] \in Int
  BY DEF OwnInv, Values
<1>2. c \in online => value[c] <= value'[c]
  BY <1>1
<1> QED BY <1>2, SparedIf

\* what is deleted is not the character's
LEMMA SparedGone ==
    ASSUME OwnInv, UNCHANGED <<online, record>>, NEW c \in Chars,
           NEW D \in SUBSET Objects, D \intersect Owned(place, c) = {}, Gone(place, D),
           NEW f, value' = ValueOf(live' \union online, f), f[c] = value[c]
    PROVE  Spared(c)
<1>1. Linked(place, online, live) /\ place \in Place
  BY DEF OwnInv, Linked
<1>2. c \notin D /\ c \notin Bags
  BY Kinds
<1> PICK E : E = Doomed(place, D)
  OBVIOUS
<1>3. E \intersect Owned(place, c) = {}
  <2> SUFFICES ASSUME NEW o \in E, o \in Owned(place, c) PROVE FALSE
    OBVIOUS
  <2>1. o \in D \/ \E h \in D \intersect Boxes : o \in Owned(place, h)
    BY <1>1, DoomedIs
  <2>2. ASSUME NEW h \in D, o \in Owned(place, h) PROVE FALSE
    <3>1. h # c /\ h \notin Owned(place, c)
      BY <1>2
    <3>2. Owned(place, h) \intersect Owned(place, c) = {}
      BY <1>2, <3>1, OwnedApart
    <3> QED BY <2>2, <3>2
  <2> QED BY <2>1, <2>2
<1> PICK Q : Q = place'
  OBVIOUS
<1> PICK P : P = place
  OBVIOUS
<1>4. Q = Nowhere(P, E)
  BY DEF Gone
<1>5. \A x \in Carryable : x \notin E => Q.owner[x] = P.owner[x]
  BY <1>1, <1>4, NowherePlace
<1>6. \A x \in Carryable : x \in Owned(P, c) => Q.owner[x] = P.owner[x]
  BY <1>3, <1>5
<1>7. Owned(P, c) \subseteq Owned(Q, c)
  BY ONLY <1>6, OwnedStays
<1>8. value[c] \in Int
  BY DEF OwnInv, Values
<1>9. c \in online => value[c] <= value'[c]
  BY <1>8 DEF ValueOf
<1> QED BY <1>7, <1>9, SparedIf

\* the gold of one who does not pay
LEMMA Unpaid ==
    ASSUME OwnInv, NEW p \in Chars, NEW k, NEW m \in Objects, NEW n,
           value' = Paid(value, p, k, m, n), NEW c \in Chars, c # p
    PROVE  value'[c] = value[c]
<1>1. c \in DOMAIN value /\ c # m
  BY Kinds DEF OwnInv, Values
<1>2. PICK x : x = value[p] - k
  OBVIOUS
<1>3. PICK g : g = [value EXCEPT ![p] = x]
  OBVIOUS
<1>4. PICK w : w = value'
  OBVIOUS
<1>5. w = [g EXCEPT ![m] = n]
  BY <1>2, <1>3, <1>4 DEF Paid
<1>6. w[c] = value[c]
  BY <1>1, <1>3, <1>5, Elsewhere
<1> QED BY <1>4, <1>6

\* an object that is not in memory is nobody's
LEMMA NewUnowned ==
    ASSUME OwnInv, NEW o \in Carryable, o \notin live, NEW c \in Chars
    PROVE  o \notin Owned(place, c)
<1>1. place.owner[o] = None
  BY DEF OwnInv, Linked
<1> QED BY <1>1, OwnedFacts, Kinds

\* who may touch an object: another does not own it
LEMMA TouchNotOthers ==
    ASSUME OwnInv, NEW p \in Chars, NEW o, MayTouch(p, place, o), NEW c \in Chars, c # p
    PROVE  o \notin Owned(place, c)
<1> SUFFICES ASSUME o \in Owned(place, c) PROVE FALSE
  OBVIOUS
<1>1. place \in Place /\ Founded(place.owner, Bags)
  BY DEF OwnInv, Linked
<1>2. BaseOwner(place, o) = c
  BY <1>1, BaseOfOwned
<1> QED BY <1>2 DEF MayTouch

LEMMA OwnNotOthers ==
    ASSUME NEW p \in Chars, NEW o \in Owned(place, p), NEW c \in Chars, c # p
    PROVE  o \notin Owned(place, c)
BY Apart

LEMMA MoneyGiveSpares ==
    ASSUME AmountsFit, RichInv, NEW p \in Chars, NEW h \in Holders, NEW n \in Nat, p \in online,
           MoneyGive(p, h, n), NEW c \in Chars, c # p
    PROVE  Spared(c)
<1> PICK m : m = Receivable(h, n)
  OBVIOUS
<1> PICK z : z = Wrap([value EXCEPT ![p] = @ - m][h] + m)
  OBVIOUS
<1> PICK y : y = value[p] - m
  OBVIOUS
<1> PICK g : g = [value EXCEPT ![p] = y]
  OBVIOUS
<1>1. n <= value[p] /\ UNCHANGED <<online, live, place, record>>
  BY DEF MoneyGive, CanAfford
<1>2. value' = [g EXCEPT ![h] = z] /\ z = Wrap(g[h] + m)
  BY DEF MoneyGive
<1>3. OwnInv /\ value \in Values /\ c \in DOMAIN value /\ value[c] \in Int
  BY DEF RichInv, OwnInv, Values
<1>6. m \in Nat /\ m <= n
  <2>1. /\ Money \in Nat /\ IntMax \in Nat /\ MaxGold \in Nat /\ Money + MaxGold <= IntMax
    BY Limits
  <2>2. value[p] \in Nat /\ value[p] <= Money
    BY RichFacts
  <2>3. n + MaxGold <= IntMax
    BY <1>1, <2>1, <2>2
  <2>4. value[h] \in Int
    BY Kinds DEF RichInv, OwnInv, Values, Holders, Boxes, Objects, Carryable
  <2> QED BY <2>1, <2>3, <2>4, ReceivableIs
<1>4. CASE c # h
  <2> PICK w : w = value'
    OBVIOUS
  <2>1. w = [g EXCEPT ![h] = z]
    BY <1>2
  <2>2. w[c] = value[c]
    BY <1>3, <1>4, <2>1, Elsewhere
  <2> QED BY <1>1, <1>3, <2>2, SparedStill
<1>5. CASE c = h
  <2>1. h \in DOMAIN g /\ g[h] = value[h]
    BY <1>3, <1>5
  <2>2. value'[c] = Wrap(value[c] + m)
    BY <1>2, <1>5, <2>1
  <2>3. /\ Money \in Nat /\ IntMax \in Nat /\ MaxGold \in Nat /\ Money + MaxGold <= IntMax
    BY Limits
  <2>4. CASE c \in online
    <3>1. value[p] \in Nat /\ value[p] <= Money /\ value[c] \in Nat /\ value[p] + value[c] <= Money
      BY <2>4, RichFacts DEF RichInv
    <3>2. n + MaxGold <= IntMax /\ value[c] + n <= IntMax
      BY <1>1, <2>3, <3>1
    <3>3. m \in Nat /\ m <= n
      BY <1>6
    <3>4. value[c] + m <= IntMax /\ value[c] + m \in Int
      BY <2>3, <3>1, <3>2, <3>3
    <3>5. value'[c] = value[c] + m
      BY <2>2, <2>3, <3>4, WrapFacts
    <3>6. value[c] <= value'[c]
      BY <3>1, <3>3, <3>5
    <3>7. Owned(place, c) \subseteq Owned(place', c)
      BY <1>1
    <3> QED BY <1>1, <1>3, <3>6, <3>7, SparedIf
  <2>5. CASE c \notin online
    BY <1>1, <1>3, <2>5, SparedStill
  <2> QED BY <2>4, <2>5
<1> QED BY <1>4, <1>5

LEMMA MoneyDropSpares ==
    ASSUME OwnInv, NEW p \in Chars, NEW n \in Nat, MoneyDrop(p, n), NEW c \in Chars, c # p
    PROVE  Spared(c)
<1>1. PICK m \in Piles \ (live \union Saved) :
        /\ place' = OnGround(place, m)
        /\ value' = [value EXCEPT ![p] = @ - n, ![m] = n]
  BY DEF MoneyDrop
<1>2. m \in Carryable /\ m \notin live /\ m \in Objects /\ place \in Place
  BY Kinds DEF OwnInv, Linked
<1>3. m \notin Owned(place, c)
  BY <1>2, NewUnowned
<1>4. Elsewise(place, place', m)
  BY <1>1, <1>2, OnGroundPlace DEF Elsewise
<1>5. value' = Paid(value, p, n, m, n)
  BY <1>1 DEF Paid
<1>6. value'[c] = value[c]
  BY <1>2, <1>5, Unpaid
<1>7. UNCHANGED <<online, record>>
  BY DEF MoneyDrop
<1> QED BY <1>3, <1>4, <1>6, <1>7, SparedElse

LEMMA MoneyPutSpares ==
    ASSUME OwnInv, NEW p \in Chars, NEW d, NEW n \in Nat, MoneyPut(p, d, n), NEW c \in Chars, c # p
    PROVE  Spared(c)
<1>1. PICK m \in Piles \ (live \union Saved) :
        /\ place' = IF d \in Holders THEN BeGivenTo(place, m, d, TRUE, TRUE) ELSE place
        /\ value' = [value EXCEPT ![p] = @ - n, ![m] = n]
  BY DEF MoneyPut
<1>2. m \in Carryable /\ m \notin live /\ m \in Objects /\ place \in Place
  BY Kinds DEF OwnInv, Linked
<1>3. m \notin Owned(place, c)
  BY <1>2, NewUnowned
<1>4. Elsewise(place, place', m)
  <2>1. CASE d \in Holders
    <3>1. PICK t \in BOOLEAN : t = TRUE
      OBVIOUS
    <3>2. PICK s \in BOOLEAN : s = TRUE
      OBVIOUS
    <3>3. place' = BeGivenTo(place, m, d, t, s)
      BY <1>1, <2>1, <3>1, <3>2
    <3> QED BY <1>2, <2>1, <3>3, GivenOnly
  <2>2. CASE d \notin Holders
    BY <1>1, <1>2, <2>2 DEF Elsewise
  <2> QED BY <2>1, <2>2
<1>5. value' = Paid(value, p, n, m, n)
  BY <1>1 DEF Paid
<1>6. value'[c] = value[c]
  BY <1>2, <1>5, Unpaid
<1>7. UNCHANGED <<online, record>>
  BY DEF MoneyPut
<1> QED BY <1>3, <1>4, <1>6, <1>7, SparedElse

LEMMA ShopBuySpares ==
    ASSUME OwnInv, NEW p \in Chars, NEW o \in Things \union Bags, ShopBuy(p, o), NEW c \in Chars, c # p
    PROVE  Spared(c)
<1> PICK cost : cost = (Cost[o] * SellMarkup) \div 100
  OBVIOUS
<1>1. /\ o \notin live /\ place' = BeGivenTo(place, o, p, TRUE, TRUE)
      /\ value' = [value EXCEPT ![p] = @ - cost, ![o] = Cost[o]]
      /\ UNCHANGED <<online, record>>
  BY DEF ShopBuy
<1>2. o \in Carryable /\ o \in Objects /\ place \in Place /\ p \in Holders
  BY Kinds DEF OwnInv, Linked
<1>3. o \notin Owned(place, c)
  BY <1>1, <1>2, NewUnowned
<1>4. Elsewise(place, place', o)
  <2>1. PICK t \in BOOLEAN : t = TRUE
    OBVIOUS
  <2>2. PICK s \in BOOLEAN : s = TRUE
    OBVIOUS
  <2>3. place' = BeGivenTo(place, o, p, t, s)
    BY <1>1, <2>1, <2>2
  <2> QED BY <1>2, <2>3, GivenOnly
<1>5. value' = Paid(value, p, cost, o, Cost[o])
  BY <1>1 DEF Paid
<1>6. value'[c] = value[c]
  BY <1>2, <1>5, Unpaid
<1> QED BY <1>1, <1>3, <1>4, <1>6, SparedElse

LEMMA MoneyTakeSpares ==
    ASSUME OwnInv, NEW p \in Chars, NEW m \in Piles, MoneyTake(p, m), NEW c \in Chars, c # p
    PROVE  Spared(c)
<1> PICK D : D = {m} \union TossedWith(m)
  OBVIOUS
<1> PICK total : total = Wrap(value[p] + value[m])
  OBVIOUS
<1> PICK f : f = [value EXCEPT ![p] = total]
  OBVIOUS
<1>1. Gone(place, D) /\ value' = ValueOf(live' \union online, f) /\ UNCHANGED <<online, record>>
  BY DEF MoneyTake
<1>2. f[c] = value[c]
  BY DEF OwnInv, Values
<1>3. m \notin Owned(place, c)
  BY TouchNotOthers DEF MoneyTake
<1>4. ASSUME NEW h \in TossedWith(m) PROVE h \in Boxes /\ h \notin Owned(place, c)
  <2>1. h = GetOwner(place, m) /\ h \in Tossed /\ h \in Boxes /\ h # m /\ m \in Carryable
    BY <1>4, Kinds DEF TossedWith
  <2>2. place.owner[m] = h
    BY <2>1 DEF GetOwner
  <2>3. h \in Owned(place, c) => h \in Bags
    BY <2>1, OwnedFacts, Kinds
  <2> QED BY <1>3, <2>1, <2>2, <2>3, OwnedFacts
<1>5. D \in SUBSET Objects /\ D \intersect Owned(place, c) = {}
  BY <1>3, <1>4, Kinds
<1> QED BY <1>1, <1>2, <1>5, SparedGone

LEMMA ShopSellSpares ==
    ASSUME OwnInv, NEW p \in Chars, NEW o \in Carryable, ShopSell(p, o), NEW c \in Chars, c # p
    PROVE  Spared(c)
<1> PICK D : D = IF o \in Bags /\ place.contents[o] # {} THEN place.contents[o] ELSE {o}
  OBVIOUS
<1> PICK x : x = Wrap(value[p] + Price(o))
  OBVIOUS
<1> PICK f : f = [value EXCEPT ![p] = x]
  OBVIOUS
<1>1. Gone(place, D) /\ value' = ValueOf(live' \union online, f) /\ UNCHANGED <<online, record>>
  BY DEF ShopSell
<1>2. f[c] = value[c]
  BY DEF OwnInv, Values
<1>3. o \in Owned(place, p)
  BY DEF ShopSell
<1>4. \A y \in D : y \in Owned(place, p)
  <2>1. CASE o \in Bags /\ place.contents[o] # {}
    <3>1. D = place.contents[o] /\ o \in Holders
      BY <2>1, Kinds
    <3>2. \A y \in D : y \in Carryable /\ place.owner[y] = o
      BY <3>1 DEF OwnInv, Linked, Place
    <3> QED BY <1>3, <2>1, <3>2, OwnedFacts
  <2>2. CASE ~(o \in Bags /\ place.contents[o] # {})
    BY <1>3, <2>2
  <2> QED BY <2>1, <2>2
<1>5. Owned(place, p) \intersect Owned(place, c) = {} /\ Owned(place, p) \subseteq Objects
  BY Apart, OwnedFacts, Kinds
<1>6. D \in SUBSET Objects /\ D \intersect Owned(place, c) = {}
  BY <1>4, <1>5
<1> QED BY <1>1, <1>2, <1>6, SparedGone

LEMMA GetSpares ==
    ASSUME OwnInv, NEW p \in Chars, NEW o \in Carryable, Get(p, o), NEW c \in Chars, c # p
    PROVE  Spared(c)
<1> DEFINE h == GetOwner(place, o)
           packs == {k \in Packs : worn[k] = p}
<1>1. PICK fits \in BOOLEAN, stows \in BOOLEAN :
            LET taken  == Take(place, o, p, fits)
                stowed == IF packs # {} /\ BaseOwner(place, o) # p /\ worn[o] = None
                          THEN BeGivenTo(taken, o, CHOOSE k \in packs : TRUE, FALSE, stows)
                          ELSE taken
                tossed == {x \in {h} \ {o} : taken # place /\ x \in Tossed
                                             /\ stowed.contents[x] = {}}
            IN  /\ place' = Nowhere(stowed, tossed)
                /\ live' = live \ tossed
                /\ value' = ValueOf(live' \union online, value)
                /\ UNCHANGED <<online, record>>
  BY DEF Get
<1>2. PICK taken : taken = Take(place, o, p, fits)
  OBVIOUS
<1>3. PICK stowed : stowed = IF packs # {} /\ BaseOwner(place, o) # p /\ worn[o] = None
                             THEN BeGivenTo(taken, o, CHOOSE k \in packs : TRUE, FALSE, stows)
                             ELSE taken
  OBVIOUS
<1>4. PICK D : D = {x \in {h} \ {o} : taken # place /\ x \in Tossed /\ stowed.contents[x] = {}}
  OBVIOUS
<1>5. /\ place' = Nowhere(stowed, D)
      /\ value' = ValueOf(live' \union online, value)
      /\ UNCHANGED <<online, record>>
  BY <1>1, <1>2, <1>3, <1>4
<1>6. place \in Place /\ o \notin Owned(place, c)
  BY TouchNotOthers DEF Get, OwnInv, Linked
<1>7. Elsewise(place, taken, o)
  BY <1>2, <1>6, TakenOnly
<1>8. Elsewise(place, stowed, o)
  <2>1. CASE packs # {} /\ BaseOwner(place, o) # p /\ worn[o] = None
    <3>1. PICK k : k = CHOOSE x \in packs : TRUE
      OBVIOUS
    <3>2. k \in Holders
      BY <2>1, <3>1, Kinds
    <3>3. PICK s \in BOOLEAN : s = FALSE
      OBVIOUS
    <3>4. stowed = BeGivenTo(taken, o, k, s, stows)
      BY <1>3, <2>1, <3>1, <3>3
    <3>5. taken \in Place
      BY <1>7 DEF Elsewise
    <3>6. Elsewise(taken, stowed, o)
      BY <3>2, <3>4, <3>5, GivenOnly
    <3> QED BY <1>7, <3>6 DEF Elsewise
  <2>2. CASE ~(packs # {} /\ BaseOwner(place, o) # p /\ worn[o] = None)
    BY <1>3, <1>7, <2>2
  <2> QED BY <2>1, <2>2
<1>9. ASSUME NEW x \in D PROVE x \notin Owned(place, c)
  <2>1. x = GetOwner(place, o) /\ x # o /\ x \in Tossed
    BY <1>4
  <2>2. place.owner[o] = x
    BY <2>1 DEF GetOwner
  <2>3. x \in Owned(place, c) => x \in Bags
    BY <2>1, OwnedFacts, Kinds
  <2> QED BY <1>6, <2>2, <2>3, OwnedFacts
<1> PICK Q : Q = place'
  OBVIOUS
<1> PICK P : P = place
  OBVIOUS
<1>10. Q = Nowhere(stowed, D) /\ stowed \in Place
  BY <1>5, <1>8 DEF Elsewise
<1>11. \A x \in Carryable : x \notin D => Q.owner[x] = stowed.owner[x]
  BY <1>10, NowherePlace
<1>12. \A x \in Carryable : x \in Owned(P, c) => Q.owner[x] = P.owner[x]
  BY <1>6, <1>8, <1>9, <1>11 DEF Elsewise
<1>13. Owned(P, c) \subseteq Owned(Q, c)
  BY ONLY <1>12, OwnedStays
<1>14. value[c] \in Int
  BY DEF OwnInv, Values
<1>15. c \in online => value[c] <= value'[c]
  BY <1>5, <1>14 DEF ValueOf
<1> QED BY <1>5, <1>13, <1>15, SparedIf

LEMMA DroppedSpares ==
    ASSUME OwnInv, NEW p \in Chars, NEW o \in Carryable, Dropped(p, o), NEW c \in Chars, c # p
    PROVE  Spared(c)
<1>1. /\ o \in Owned(place, p) /\ place' = Drop(place, o, p, worn[o] # None)
      /\ UNCHANGED <<online, value, record>>
  BY DEF Dropped
<1>2. PICK isWorn : isWorn = (worn[o] # None)
  OBVIOUS
<1>3. place' = Drop(place, o, p, isWorn) /\ place \in Place
  BY <1>1, <1>2 DEF OwnInv, Linked
<1>4. Elsewise(place, place', o)
  BY <1>3, GroundOnly
<1>5. o \notin Owned(place, c)
  BY <1>1, OwnNotOthers
<1> QED BY <1>1, <1>4, <1>5, SparedElse

LEMMA DieSpares ==
    ASSUME OwnInv, NEW p \in Chars, NEW o \in Carryable, Die(p, o), NEW c \in Chars, c # p
    PROVE  Spared(c)
<1>1. PICK off \in BOOLEAN, fits \in BOOLEAN :
        LET isWorn == worn[o] # None /\ ~off
            held == IF isWorn \/ place.owner[o] = p THEN place
                    ELSE BeGivenTo(place, o, p, FALSE, fits)
        IN  /\ place' = Drop(held, o, p, isWorn)
            /\ UNCHANGED <<online, live, open, value, record>>
  BY DEF Die
<1>2. PICK isWorn : isWorn = (worn[o] # None /\ ~off)
  OBVIOUS
<1>3. PICK held : held = IF isWorn \/ place.owner[o] = p THEN place
                         ELSE BeGivenTo(place, o, p, FALSE, fits)
  OBVIOUS
<1>4. place' = Drop(held, o, p, isWorn) /\ UNCHANGED <<online, value, record>>
  BY <1>1, <1>2, <1>3
<1>5. place \in Place /\ Linked(place, online, live) /\ p \in Holders
  BY Kinds DEF OwnInv, Linked
<1>6. o \in Owned(place, p)
  BY <1>5, InsideIs DEF Die
<1>7. Elsewise(place, held, o)
  <2>1. CASE held = place
    BY <1>5, <2>1 DEF Elsewise
  <2>2. CASE held = BeGivenTo(place, o, p, FALSE, fits)
    <3>1. PICK s \in BOOLEAN : s = FALSE
      OBVIOUS
    <3>2. held = BeGivenTo(place, o, p, s, fits)
      BY <2>2, <3>1
    <3> QED BY <1>5, <3>2, GivenOnly
  <2> QED BY <1>3, <2>1, <2>2
<1>8. Elsewise(held, place', o)
  BY <1>4, <1>7, GroundOnly DEF Elsewise
<1>9. Elsewise(place, place', o)
  BY <1>7, <1>8 DEF Elsewise
<1>10. o \notin Owned(place, c)
  BY <1>6, OwnNotOthers
<1> QED BY <1>4, <1>9, <1>10, SparedElse

LEMMA GiveSpares ==
    ASSUME OwnInv, NEW p \in Chars, NEW o \in Carryable, NEW h \in Holders, Give(p, o, h),
           NEW c \in Chars, c # p
    PROVE  Spared(c)
<1>1. o \in Owned(place, p) /\ h \in online \union live
  BY DEF Give
<1>2. PICK fits \in BOOLEAN :
        IF h \in Chars
        THEN place' = BeGivenTo(place, o, h, FALSE, fits)
             /\ UNCHANGED <<online, live, worn, open, value, record>>
        ELSE CrashFrom(BeGivenTo(place, o, h, FALSE, fits))
  BY DEF Give
<1>3. PICK Q : Q = BeGivenTo(place, o, h, FALSE, fits)
  OBVIOUS
<1>4. PICK s \in BOOLEAN : s = FALSE
  OBVIOUS
<1>5. place \in Place /\ Q = BeGivenTo(place, o, h, s, fits) /\ World(place, worn, open, online, live)
  BY <1>3, <1>4 DEF OwnInv, Linked, World
<1>6. Elsewise(place, Q, o)
  BY <1>5, GivenOnly
<1>7. o \notin Owned(place, c)
  BY <1>1, OwnNotOthers
<1>8. CASE h \in Chars
  <2>1. place' = Q /\ UNCHANGED <<online, value, record>>
    BY <1>2, <1>3, <1>8
  <2> QED BY <1>6, <1>7, <2>1, SparedElse
<1>9. CASE h \notin Chars
  <2>1. CrashFrom(Q)
    BY <1>2, <1>3, <1>9
  <2>2. online' = {} /\ record'[c] = IF c \in online THEN RecordOf(c, Q, value) ELSE record[c]
    BY <2>1 DEF CrashFrom
  <2>3. World(Q, worn, open, online, live)
    BY <1>1, <1>3, <1>5, WorldGiven
  <2>4. Estate(c)' = record'[c].items /\ Gold(c)' = record'[c].value
    BY <2>2 DEF Estate, Gold
  <2>5. value[c] \in Int /\ record[c].value \in Int
    BY DEF OwnInv, Values, Records, IsRecord
  <2>6. CASE c \in online
    <3> PICK r : r = RecordOf(c, Q, value)
      OBVIOUS
    <3>1. r.value = value[c] /\ r.items = Owned(Q, c)
      BY <2>3, RecordHas DEF World
    <3>2. \A x \in Carryable : x \in Owned(place, c) => Q.owner[x] = place.owner[x]
      BY <1>6, <1>7 DEF Elsewise
    <3> PICK P : P = place
      OBVIOUS
    <3>3. \A x \in Carryable : x \in Owned(P, c) => Q.owner[x] = P.owner[x]
      BY <3>2
    <3>4. Owned(P, c) \subseteq Owned(Q, c)
      BY ONLY <3>3, OwnedStays
    <3>5. Estate(c) = Owned(place, c) /\ Gold(c) = value[c]
      BY <2>6 DEF Estate, Gold
    <3>6. Estate(c)' = Owned(Q, c) /\ Gold(c)' = value[c]
      BY <2>2, <2>4, <2>6, <3>1
    <3> QED BY <2>5, <3>4, <3>5, <3>6 DEF Spared
  <2>7. CASE c \notin online
    <3>1. Estate(c) = record[c].items /\ Gold(c) = record[c].value
      BY <2>7 DEF Estate, Gold
    <3>2. Estate(c)' = record[c].items /\ Gold(c)' = record[c].value
      BY <2>2, <2>4, <2>7
    <3> QED BY <2>5, <3>1, <3>2 DEF Spared
  <2> QED BY <2>6, <2>7
<1> QED BY <1>8, <1>9

LEMMA PutInSpares ==
    ASSUME OwnInv, NEW p \in Chars, NEW o \in Carryable, NEW h \in Holders, PutIn(p, o, h),
           NEW c \in Chars, c # p
    PROVE  Spared(c)
<1> PICK t \in BOOLEAN : t = TRUE
  OBVIOUS
<1> PICK s \in BOOLEAN : s = FALSE
  OBVIOUS
<1> PICK Q : Q = place'
  OBVIOUS
<1> PICK P : P = place
  OBVIOUS
<1>1. Q = BeGivenTo(P, o, h, s, t) /\ UNCHANGED <<online, value, record>>
      /\ BaseOwner(P, o) \in {p, BaseOwner(P, h)} /\ P \in Place /\ Founded(P.owner, Bags)
  BY DEF PutIn, OwnInv, Linked
<1>2. Elsewise(P, Q, o)
  BY <1>1, GivenOnly
<1>3. CASE o \notin Owned(P, c)
  BY <1>1, <1>2, <1>3, SparedElse
<1>4. CASE Q = P
  BY <1>1, <1>4, SparedStill
<1>5. CASE o \in Owned(P, c) /\ Q # P
  <2>1. Q = Into(P, o, h) /\ h # o /\ h \notin Owned(P, o)
    <3>1. Q = BeGivenTo(P, o, h, s, t)
      BY <1>1
    <3>2. Q = P \/ (Q = Into(P, o, h) /\ h # o /\ h \notin Owned(P, o))
      BY <3>1 DEF BeGivenTo
    <3> QED BY <1>5, <3>2
  <2>2. BaseOwner(P, o) = c
    BY <1>1, <1>5, BaseOfOwned
  <2>3. BaseOwner(P, h) = c
    BY <1>1, <2>2
  <2>4. h = c \/ h \in Owned(P, c)
    BY <1>1, <2>3, OwnedOfBase
  <2>5. Q.owner[o] = h /\ \A x \in Carryable : x # o => Q.owner[x] = P.owner[x]
    <3>1. Moved(P, o, h, Q)
      BY <1>1, <2>1, IntoPlace
    <3> QED BY <3>1 DEF Moved
  <2>6. Owned(P, c) \subseteq Owned(Q, c)
    BY <1>1, <2>1, <2>4, <2>5, OwnedMoves
  <2>7. value[c] \in Int
    BY DEF OwnInv, Values
  <2>8. c \in online => value[c] <= value'[c]
    BY <1>1, <2>7
  <2> QED BY <1>1, <2>6, <2>8, SparedIf
<1> QED BY <1>3, <1>4, <1>5

LEMMA RequestSpares ==
    ASSUME AmountsFit, RichInv, Away, NEW p \in Chars, Request(p), NEW c \in Chars, c # p
    PROVE  Spared(c)
<1> OwnInv
  BY DEF RichInv
<1>1. ASSUME NEW n \in 1 .. MaxAmount, NEW h \in Holders, MoneyGive(p, h, n) PROVE Spared(c)
  <2>1. n \in Nat /\ CanAfford(p, n)
    BY <1>1, BelongingsConstants DEF MoneyGive
  <2>2. p \in online
    BY <2>1, Payer
  <2> QED BY <1>1, <2>1, <2>2, MoneyGiveSpares
<1>2. ASSUME NEW n \in 1 .. MaxAmount, NEW d \in Chars \union Objects, MoneyPut(p, d, n) PROVE Spared(c)
  <2>1. n \in Nat
    BY BelongingsConstants
  <2> QED BY <1>2, <2>1, MoneyPutSpares
<1>3. ASSUME NEW n \in 1 .. MaxAmount, MoneyDrop(p, n) PROVE Spared(c)
  <2>1. n \in Nat
    BY BelongingsConstants
  <2> QED BY <1>3, <2>1, MoneyDropSpares
<1>4. ASSUME NEW m \in Piles, MoneyTake(p, m) PROVE Spared(c)
  BY <1>4, MoneyTakeSpares
<1>5. ASSUME NEW o \in Carryable, ShopSell(p, o) PROVE Spared(c)
  BY <1>5, ShopSellSpares
<1>6. ASSUME NEW o \in Things \union Bags, ShopBuy(p, o) PROVE Spared(c)
  BY <1>6, ShopBuySpares
<1>7. ASSUME NEW o \in Carryable, NEW h \in Holders, Give(p, o, h) PROVE Spared(c)
  BY <1>7, GiveSpares
<1>8. ASSUME NEW o \in Carryable, NEW h \in Holders, PutIn(p, o, h) PROVE Spared(c)
  BY <1>8, PutInSpares
<1>9. ASSUME NEW o \in Carryable, Get(p, o) PROVE Spared(c)
  BY <1>9, GetSpares
<1>10. ASSUME NEW o \in Carryable, Dropped(p, o) PROVE Spared(c)
  BY <1>10, DroppedSpares
<1>11. ASSUME NEW o \in Carryable, Die(p, o) PROVE Spared(c)
  BY <1>11, DieSpares
<1>12. ASSUME NEW o \in Carryable, PutOn(p, o) \/ TakeOff(p, o) PROVE Spared(c)
  <2>1. UNCHANGED <<online, record, place, value>>
    BY <1>12 DEF PutOn, TakeOff
  <2> QED BY <2>1, SparedStill
<1>13. ASSUME NEW o \in Boxes, Open(p, o) \/ Close(p, o) PROVE Spared(c)
  <2>1. UNCHANGED <<online, record, place, value>>
    BY <1>13 DEF Open, Close
  <2> QED BY <2>1, SparedStill
<1> QED BY <1>1, <1>2, <1>3, <1>4, <1>5, <1>6, <1>7, <1>8, <1>9, <1>10, <1>11, <1>12, <1>13 DEF Request

(* Nobody's hands but one's own: a request of a player takes no object and *)
(* no gold from another character, in the room or in its record, not even  *)
(* the gift that brings the server down.  Robbing is not a request of this *)
(* kind.  As with wealth, the gold of all must fit in an int.              *)
THEOREM HandsOffHolds == ASSUME AmountsFit PROVE Spec => HandsOff
<1> DEFINE Kept == \A c \in Chars : ~(Estate(c) \subseteq Estate(c)' /\ Gold(c) <= Gold(c)') =>
                       \A p \in Chars \ {c} : ~Request(p)
<1>1. Init => RichInv /\ Away
  BY InitRich
<1>2. RichInv /\ Away /\ [Next]_vars => (RichInv /\ Away)' /\ [Kept]_vars
  <2> SUFFICES ASSUME RichInv, Away, [Next]_vars PROVE (RichInv /\ Away)' /\ Kept
    OBVIOUS
  <2>1. OwnInv'
    BY NextOwn DEF RichInv
  <2>2. NoGain
    BY <2>1, NextRich
  <2>3. Away'
    BY <2>1, NextAway DEF RichInv
  <2>4. RichInv'
    BY <2>1, <2>2 DEF NoGain, RichInv
  <2>5. Kept
    <3> SUFFICES ASSUME NEW c \in Chars, NEW p \in Chars \ {c}, Request(p)
                 PROVE  Estate(c) \subseteq Estate(c)' /\ Gold(c) <= Gold(c)'
      OBVIOUS
    <3>1. Spared(c)
      BY RequestSpares
    <3> QED BY <3>1 DEF Spared
  <2> QED BY <2>3, <2>4, <2>5
<1> QED BY <1>1, <1>2, PTL DEF Spec, HandsOff
================================================================================
