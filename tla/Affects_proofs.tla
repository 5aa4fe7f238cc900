----------------------------- MODULE Affects_proofs -----------------------------
(***************************************************************************)
(* Proofs that AffectsInv is an invariant of Affects, that Orderly and     *)
(* WornPowers follow from it, and that its steps keep what is enchanted    *)
(* for ever.  The lemmas come in three layers: copies of an element in a   *)
(* bag, what each change of one object's effects does to the bag, and one  *)
(* lemma per kind of step.                                                 *)
(***************************************************************************)
EXTENDS Affects, FiniteSetTheorems, TLAPS

-----------------------------------------------------------------------------
(* The inductive invariant. *)

\* What an effect is: auras do not run out, nor what an aura has made or a
\* thing lends; what a spell makes does, unless it is an aura.
Sane(e) ==
    /\ e \in Effect
    /\ e.dur # Forever => e.id \notin Auras /\ e.dur \in 1..Long[e.id]
    /\ e.source \in {"wearer", "permanent", "temporary"} => e.dur = Forever
    /\ e.source = "spell" /\ e.dur = Forever => e.id \in Auras

\* The effects of one object.
Fit(b) ==
    /\ IsABag(b)
    /\ \A e \in BagToSet(b) : Sane(e)
    /\ Single(b)

Places ==
    /\ listed \subseteq Objects /\ online \subseteq Chars /\ alive \subseteq Chars
    /\ place \in [Things -> Chars \union {Ground, Gone}]
    /\ worn \subseteq Things /\ \A t \in worn : place[t] \in Chars

\* The worn things that lend e to c, and what may be lent.
Lenders(c, e) == {t \in worn \intersect Carried(c) : e \in Given(t)}
Lent(c) ==
    \A e \in BagToSet(affs[c]) :
        e.source = "temporary" => Copies(e, affs[c]) <= Cardinality(Lenders(c, e))

\* A spell renews what it finds without listing the character (CastFreeze):
\* whoever is in the room is listed.
AffectsInv ==
    /\ DOMAIN affs = Objects
    /\ \A x \in Objects : Fit(affs[x])
    /\ Places
    /\ TimedAreListed /\ online \subseteq listed
    /\ \A c \in online : Lent(c)

\* What EnchantmentsLast says of one step.
Lasts ==
    \A t \in Things : place'[t] # Gone =>
        \A e \in BagToSet(affs[t]) :
            e.source \in {"wearer", "permanent"} => BagIn(e, affs'[t])

-----------------------------------------------------------------------------
(* Bags, by the copies of their elements. *)

LEMMA CopiesOf ==
    ASSUME NEW b, IsABag(b)
    PROVE  \A e : /\ Copies(e, b) \in Nat
                  /\ e \in BagToSet(b) <=> Copies(e, b) > 0
BY DEF IsABag, BagToSet, BagIn, Copies

LEMMA CopiesOfSet ==
    ASSUME NEW S
    PROVE  /\ IsABag(SetToBag(S)) /\ BagToSet(SetToBag(S)) = S
           /\ \A e : Copies(e, SetToBag(S)) = IF e \in S THEN 1 ELSE 0
<1>1. BagToSet(SetToBag(S)) = S /\ \A e \in S : SetToBag(S)[e] = 1
  BY DEF SetToBag, BagToSet
<1>2. IsABag(SetToBag(S))
  BY DEF SetToBag, IsABag
<1> QED BY <1>1, <1>2 DEF BagIn, Copies

LEMMA CopiesOfPlus ==
    ASSUME NEW b, NEW c, IsABag(b), IsABag(c)
    PROVE  /\ IsABag(b (+) c) /\ BagToSet(b (+) c) = BagToSet(b) \union BagToSet(c)
           /\ \A e : Copies(e, b (+) c) = Copies(e, b) + Copies(e, c)
<1> DEFINE s == [e \in DOMAIN b \union DOMAIN c |->
                    (IF e \in DOMAIN b THEN b[e] ELSE 0) + (IF e \in DOMAIN c THEN c[e] ELSE 0)]
<1>1. b (+) c = s
  BY DEF (+)
<1>2. /\ DOMAIN s = DOMAIN b \union DOMAIN c
      /\ \A e \in DOMAIN s :
            s[e] = (IF e \in DOMAIN b THEN b[e] ELSE 0) + (IF e \in DOMAIN c THEN c[e] ELSE 0)
  OBVIOUS
<1>3. /\ \A e \in DOMAIN b : b[e] \in Nat /\ b[e] > 0
      /\ \A e \in DOMAIN c : c[e] \in Nat /\ c[e] > 0
  BY DEF IsABag
<1>4. IsABag(s)
  BY <1>2, <1>3 DEF IsABag
<1> HIDE DEF s
<1>5. \A e : Copies(e, s) = Copies(e, b) + Copies(e, c)
  BY <1>2, <1>3 DEF Copies, BagIn, BagToSet
<1> QED BY <1>1, <1>2, <1>4, <1>5 DEF BagToSet

LEMMA CopiesOfMinus ==
    ASSUME NEW b, NEW c, IsABag(b), IsABag(c)
    PROVE  /\ IsABag(b (-) c) /\ BagToSet(b (-) c) \subseteq BagToSet(b)
           /\ \A e : Copies(e, b (-) c) =
                        IF Copies(e, b) > Copies(e, c) THEN Copies(e, b) - Copies(e, c) ELSE 0
<1> DEFINE d == [e \in DOMAIN b |-> IF e \in DOMAIN c THEN b[e] - c[e] ELSE b[e]]
           s == [e \in {f \in DOMAIN d : d[f] > 0} |-> d[e]]
<1>1. b (-) c = s
  BY DEF (-)
<1>2. /\ \A e \in DOMAIN b : b[e] \in Nat /\ b[e] > 0
      /\ \A e \in DOMAIN c : c[e] \in Nat /\ c[e] > 0
  BY DEF IsABag
<1>3. /\ DOMAIN d = DOMAIN b
      /\ \A e \in DOMAIN b : d[e] = IF e \in DOMAIN c THEN b[e] - c[e] ELSE b[e]
  OBVIOUS
<1> HIDE DEF d
<1>4. \A e \in DOMAIN b : d[e] \in Int
  BY <1>2, <1>3
<1>5. /\ \A e : e \in DOMAIN s <=> e \in DOMAIN b /\ d[e] > 0
      /\ \A e \in DOMAIN s : s[e] = d[e]
  BY <1>3
<1>6. IsABag(s)
  BY <1>3, <1>4 DEF IsABag
<1> HIDE DEF s
<1>7. ASSUME NEW e
      PROVE  Copies(e, s) = IF Copies(e, b) > Copies(e, c) THEN Copies(e, b) - Copies(e, c) ELSE 0
  BY <1>2, <1>3, <1>5 DEF Copies, BagIn, BagToSet
<1> QED BY <1>1, <1>5, <1>6, <1>7 DEF BagToSet

-----------------------------------------------------------------------------
(* What is done to the effects of one object. *)

\* spells and gifts make effects of their own kind only
Works(b, d) == \A f : f.source \notin {"spell", "gift"} => Copies(f, d) = Copies(f, b)

\* taking effects away
LEMMA FitLess ==
    ASSUME NEW b, NEW c, Fit(b), IsABag(c)
    PROVE  /\ Fit(b (-) c)
           /\ BagToSet(b (-) c) \subseteq BagToSet(b)
           /\ \A e : Copies(e, b (-) c) <= Copies(e, b)
<1> DEFINE d == b (-) c
<1>1. /\ IsABag(b) /\ IsABag(d) /\ BagToSet(d) \subseteq BagToSet(b)
      /\ \A e : Copies(e, d) = IF Copies(e, b) > Copies(e, c) THEN Copies(e, b) - Copies(e, c) ELSE 0
  BY CopiesOfMinus DEF Fit
<1> HIDE DEF d
<1>2. \A e : /\ Copies(e, b) \in Nat /\ Copies(e, c) \in Nat /\ Copies(e, d) \in Nat
             /\ e \in BagToSet(d) => Copies(e, d) > 0
  BY <1>1, CopiesOf
<1>3. \A e : Copies(e, d) <= Copies(e, b)
  BY <1>1, <1>2
<1>4. Single(d)
  BY <1>1, <1>2, <1>3 DEF Fit, Single
<1>5. \A e \in BagToSet(d) : Sane(e)
  BY <1>1 DEF Fit
<1> QED BY <1>1, <1>3, <1>4, <1>5 DEF Fit, d

\* taking effects of spells and gifts away
LEMMA FitWithout ==
    ASSUME NEW b, NEW D, Fit(b)
    PROVE  /\ Fit(b (-) SetToBag(D))
           /\ BagToSet(b (-) SetToBag(D)) \subseteq BagToSet(b)
           /\ \A e : e \notin D => Copies(e, b (-) SetToBag(D)) = Copies(e, b)
           /\ \A e \in D : e.source # "temporary" => e \notin BagToSet(b (-) SetToBag(D))
           /\ (\A e \in D : e.source \in {"spell", "gift"}) => Works(b, b (-) SetToBag(D))
<1> DEFINE c == SetToBag(D)
           d == b (-) c
<1>1. IsABag(b) /\ IsABag(c) /\ \A e : Copies(e, c) = IF e \in D THEN 1 ELSE 0
  BY CopiesOfSet DEF Fit
<1> HIDE DEF c
<1>2. Fit(d) /\ BagToSet(d) \subseteq BagToSet(b)
  BY <1>1, FitLess
<1>3. /\ IsABag(d)
      /\ \A e : Copies(e, d) = IF Copies(e, b) > Copies(e, c) THEN Copies(e, b) - Copies(e, c) ELSE 0
  BY <1>1, CopiesOfMinus
<1> HIDE DEF d
<1>4. \A e : /\ Copies(e, b) \in Nat
             /\ e \in BagToSet(b) <=> Copies(e, b) > 0
             /\ e \in BagToSet(d) <=> Copies(e, d) > 0
  BY <1>1, <1>3, CopiesOf
<1>5. \A e : e \notin D => Copies(e, d) = Copies(e, b)
  BY <1>1, <1>3, <1>4
<1>6. ASSUME NEW e \in D, e.source # "temporary"
      PROVE  e \notin BagToSet(d)
  <2>1. e \in BagToSet(b) => Copies(e, b) = 1
    BY <1>6 DEF Fit, Single
  <2> QED BY <2>1, <1>1, <1>3, <1>4
<1>7. (\A e \in D : e.source \in {"spell", "gift"}) => Works(b, d)
  BY <1>5 DEF Works
<1> QED BY <1>2, <1>5, <1>6, <1>7 DEF c, d

\* one more effect, where there is none of its kind and source
LEMMA FitMore ==
    ASSUME NEW b, NEW e, Fit(b), Sane(e), e.source # "temporary", HasFrom(b, e.id, e.source) = {}
    PROVE  /\ Fit(b (+) SetToBag({e}))
           /\ BagToSet(b (+) SetToBag({e})) = BagToSet(b) \union {e}
           /\ \A f : f # e => Copies(f, b (+) SetToBag({e})) = Copies(f, b)
<1> DEFINE c == SetToBag({e})
           d == b (+) c
<1>1. /\ IsABag(b) /\ IsABag(c) /\ BagToSet(c) = {e}
      /\ \A f : Copies(f, c) = IF f \in {e} THEN 1 ELSE 0
  BY CopiesOfSet DEF Fit
<1> HIDE DEF c
<1>2. /\ IsABag(d) /\ BagToSet(d) = BagToSet(b) \union {e}
      /\ \A f : Copies(f, d) = Copies(f, b) + Copies(f, c)
  BY <1>1, CopiesOfPlus
<1> HIDE DEF d
<1>3. \A f : Copies(f, b) \in Nat /\ (f \in BagToSet(b) <=> Copies(f, b) > 0)
  BY <1>1, CopiesOf
<1>4. \A f : f # e => Copies(f, d) = Copies(f, b)
  BY <1>1, <1>2, <1>3
<1>5. \A f \in BagToSet(b) : ~(f.id = e.id /\ f.source = e.source)
  BY DEF HasFrom, Has
<1>6. Copies(e, d) = 1
  BY <1>1, <1>2, <1>3, <1>5
<1>7. Single(d)
  BY <1>2, <1>4, <1>5, <1>6 DEF Fit, Single
<1> QED BY <1>2, <1>4, <1>7 DEF Fit, c, d

\* a spell or gift renews what it made before, and nothing else
LEMMA FitRenewed ==
    ASSUME NEW b, NEW e, Fit(b), Sane(e), e.source \in {"spell", "gift"}
    PROVE  /\ Fit(Renewed(b, e)) /\ Works(b, Renewed(b, e))
           /\ e \in BagToSet(Renewed(b, e))
<1> DEFINE old == HasFrom(b, e.id, e.source)
<1>1. CASE old = {}
  <2>1. Renewed(b, e) = b (+) SetToBag({e})
    BY <1>1 DEF Renewed
  <2>2. /\ Fit(Renewed(b, e)) /\ e \in BagToSet(Renewed(b, e))
        /\ \A f : f # e => Copies(f, Renewed(b, e)) = Copies(f, b)
    BY <1>1, <2>1, FitMore
  <2> QED BY <2>2 DEF Works
<1>2. CASE old # {}
  <2> DEFINE o == CHOOSE f \in old : TRUE
             d == b (-) SetToBag({o})
  <2>1. o \in old
    BY <1>2
  <2>2. Renewed(b, e) = d (+) SetToBag({e})
    BY <1>2 DEF Renewed
  <2> HIDE DEF o
  <2>3. o \in BagToSet(b) /\ o.id = e.id /\ o.source = e.source
    BY <2>1 DEF HasFrom, Has
  <2>4. /\ Fit(d) /\ BagToSet(d) \subseteq BagToSet(b) /\ o \notin BagToSet(d)
        /\ Works(b, d)
    BY <2>3, FitWithout
  <2> HIDE DEF d
  <2>5. HasFrom(d, e.id, e.source) = {}
    BY <2>3, <2>4 DEF HasFrom, Has, Fit, Single
  <2>6. /\ Fit(Renewed(b, e)) /\ e \in BagToSet(Renewed(b, e))
        /\ \A f : f # e => Copies(f, Renewed(b, e)) = Copies(f, d)
    BY <2>2, <2>4, <2>5, FitMore
  <2> QED BY <2>4, <2>6 DEF Works
<1> QED BY <1>1, <1>2

\* a pulse takes one from every duration in T
LEMMA FitAged ==
    ASSUME NEW b, NEW T \in SUBSET Timed(b), Fit(b)
    PROVE  Fit(Aged(b, T)) /\ Works(b, Aged(b, T))
<1> DEFINE N == {[e EXCEPT !.dur = @ - 1] : e \in {t \in T : t.dur > 1}}
           d == b (-) SetToBag(T)
           n == SetToBag(N)
           r == d (+) n
<1>1. Aged(b, T) = r
  BY DEF Aged
<1>2. /\ Fit(d) /\ BagToSet(d) \subseteq BagToSet(b)
      /\ \A e : e \notin T => Copies(e, d) = Copies(e, b)
      /\ \A e \in T : e.source # "temporary" => e \notin BagToSet(d)
  BY FitWithout
<1>3. IsABag(n) /\ BagToSet(n) = N /\ \A e : Copies(e, n) = IF e \in N THEN 1 ELSE 0
  BY CopiesOfSet
<1>4. /\ IsABag(r) /\ BagToSet(r) = BagToSet(d) \union N
      /\ \A e : Copies(e, r) = Copies(e, d) + Copies(e, n)
  <2>1. IsABag(d) /\ IsABag(n)
    BY <1>2, <1>3 DEF Fit
  <2> HIDE DEF d, n
  <2> QED BY <2>1, <1>3, CopiesOfPlus
<1>5. \A t \in T : /\ t \in BagToSet(b) /\ t \in Effect /\ t.dur \in 1..Long[t.id]
                   /\ t.id \notin Auras /\ t.source \in {"spell", "gift"}
  <2>1. \A t \in T : t \in BagToSet(b) /\ t.dur # Forever
    BY DEF Timed
  <2>2. \A t \in T : Sane(t)
    BY <2>1 DEF Fit
  <2> QED BY <2>1, <2>2 DEF Sane, Effect, Sources
<1>6. \A i \in Ids \ Auras : Long[i] \in Nat
  BY AffectsConstants
<1>7. ASSUME NEW m \in N
      PROVE  \E t \in T : /\ t.dur > 1 /\ m.id = t.id /\ m.source = t.source /\ m # t
                          /\ m.dur = t.dur - 1 /\ m = [t EXCEPT !.dur = @ - 1]
                          /\ Sane(m) /\ m.dur # Forever
  <2>1. PICK t \in T : t.dur > 1 /\ m = [t EXCEPT !.dur = @ - 1]
    OBVIOUS
  <2>2. t \in Effect /\ t.dur \in 1..Long[t.id] /\ t.id \in Ids \ Auras /\ Long[t.id] \in Nat
        /\ t.source \in {"spell", "gift"}
    BY <1>5, <1>6 DEF Effect
  <2>3. m.id = t.id /\ m.source = t.source /\ m.dur = t.dur - 1 /\ m \in Effect
    BY <2>1, <2>2 DEF Effect
  <2>4. m.dur # Forever /\ m.dur \in 1..Long[m.id] /\ m # t
    <3>1. t.dur \in Int /\ t.dur > 1 /\ t.dur <= Long[t.id]
      BY <2>1, <2>2
    <3>2. m.dur \in Int /\ m.dur >= 1 /\ m.dur <= Long[m.id] /\ m.dur # t.dur
      BY <2>2, <2>3, <3>1
    <3> QED BY <2>2, <2>3, <3>2 DEF Forever
  <2> QED BY <2>1, <2>2, <2>3, <2>4 DEF Sane
<1> HIDE DEF N
<1>8. \A e \in BagToSet(r) : Sane(e)
  BY <1>2, <1>4, <1>7 DEF Fit
<1>9. \A e \in BagToSet(d) : e \notin T
  BY <1>2, <1>5
<1>10. ASSUME NEW m \in N, NEW e \in BagToSet(d), e.id = m.id, e.source = m.source
       PROVE  FALSE
  <2>1. PICK t \in T : m.id = t.id /\ m.source = t.source
    BY <1>7
  <2>2. e \in BagToSet(b) /\ t \in BagToSet(b) /\ t.source # "temporary"
    BY <1>2, <1>5
  <2>3. e = t
    BY <1>10, <2>1, <2>2 DEF Fit, Single
  <2> QED BY <1>9, <2>3
<1>11. ASSUME NEW m \in N, NEW e \in N, e.id = m.id, e.source = m.source
       PROVE  e = m
  <2>1. PICK t \in T : m.id = t.id /\ m.source = t.source /\ m = [t EXCEPT !.dur = @ - 1]
    BY <1>7
  <2>2. PICK u \in T : e.id = u.id /\ e.source = u.source /\ e = [u EXCEPT !.dur = @ - 1]
    BY <1>7
  <2>3. t \in BagToSet(b) /\ u \in BagToSet(b) /\ t.source # "temporary"
    BY <1>5
  <2>4. t = u
    BY <1>11, <2>1, <2>2, <2>3 DEF Fit, Single
  <2> QED BY <2>1, <2>2, <2>4
<1>12. \A e : Copies(e, d) \in Nat /\ (e \in BagToSet(d) <=> Copies(e, d) > 0)
  <2>1. IsABag(d)
    BY <1>2 DEF Fit
  <2> HIDE DEF d
  <2> QED BY <2>1, CopiesOf
<1> HIDE DEF d, n, r
<1>13. Single(r)
  <2> SUFFICES ASSUME NEW e \in BagToSet(r), NEW f \in BagToSet(r),
                      e.id = f.id, e.source = f.source, e.source # "temporary"
               PROVE  e = f /\ Copies(e, r) = 1
    BY DEF Single
  <2>1. CASE e \in N
    <3>1. f \in N /\ e \notin BagToSet(d)
      BY <1>4, <1>10, <2>1
    <3> QED BY <3>1, <2>1, <1>3, <1>4, <1>11, <1>12
  <2>2. CASE e \notin N
    <3>1. e \in BagToSet(d) /\ f \in BagToSet(d)
      BY <1>4, <1>10, <2>2
    <3>2. e = f /\ Copies(e, d) = 1
      BY <3>1, <1>2 DEF Fit, Single
    <3> QED BY <3>2, <2>2, <1>3, <1>4
  <2> QED BY <2>1, <2>2
<1>14. Works(b, r)
  <2> SUFFICES ASSUME NEW f, f.source \notin {"spell", "gift"} PROVE Copies(f, r) = Copies(f, b)
    BY DEF Works
  <2>1. f \notin T
    BY <1>5
  <2>2. f \notin N
    BY <1>5, <1>7
  <2>3. Copies(f, d) = Copies(f, b) /\ Copies(f, n) = 0
    BY <1>2, <1>3, <2>1, <2>2
  <2> QED BY <1>4, <1>12, <2>3
<1> QED BY <1>1, <1>4, <1>8, <1>13, <1>14 DEF Fit

\* a record is read: a thing keeps all but what was lent to it, a character
\* is lent nothing yet
LEMMA FitLoaded ==
    ASSUME NEW x, NEW b, Fit(b)
    PROVE  /\ Fit(Loaded(x, b)) /\ BagToSet(Loaded(x, b)) \subseteq BagToSet(b)
           /\ \A e \in BagToSet(Loaded(x, b)) : e.source # "temporary"
           /\ x \notin Chars => \A e \in BagToSet(b) : e.source # "temporary" => e \in BagToSet(Loaded(x, b))
<1> DEFINE S == {e \in BagToSet(b) : /\ e.source # "temporary"
                                     /\ x \in Chars => e.source \notin {"permanent", "wearer"}}
           l == SetToBag(S)
<1>1. Loaded(x, b) = l
  BY DEF Loaded
<1>2. IsABag(l) /\ BagToSet(l) = S /\ \A e : Copies(e, l) = IF e \in S THEN 1 ELSE 0
  BY CopiesOfSet
<1> HIDE DEF l
<1>3. Single(l)
  BY <1>2 DEF Fit, Single
<1>4. \A e \in BagToSet(l) : Sane(e)
  BY <1>2 DEF Fit
<1> QED BY <1>1, <1>2, <1>3, <1>4 DEF Fit

\* powers are lent
LEMMA FitLent ==
    ASSUME NEW b, NEW p, Fit(b), IsABag(p),
           \A e \in BagToSet(p) : Sane(e) /\ e.source = "temporary"
    PROVE  Fit(b (+) p)
<1> DEFINE s == b (+) p
<1>1. /\ IsABag(b) /\ IsABag(s) /\ BagToSet(s) = BagToSet(b) \union BagToSet(p)
      /\ \A e : Copies(e, s) = Copies(e, b) + Copies(e, p)
  BY CopiesOfPlus DEF Fit
<1> HIDE DEF s
<1>2. \A e : Copies(e, p) \in Nat /\ (e \in BagToSet(p) <=> Copies(e, p) > 0)
  BY CopiesOf
<1>3. \A e : e.source # "temporary" => Copies(e, p) = 0 /\ e \notin BagToSet(p)
  BY <1>2
<1>4. \A e \in BagToSet(s) : Sane(e)
  BY <1>1 DEF Fit
<1>5. Single(s)
  <2> SUFFICES ASSUME NEW e \in BagToSet(s), NEW f \in BagToSet(s),
                      e.id = f.id, e.source = f.source, e.source # "temporary"
               PROVE  e = f /\ Copies(e, s) = 1
    BY DEF Single
  <2>1. e \in BagToSet(b) /\ f \in BagToSet(b) /\ Copies(e, p) = 0
    BY <1>1, <1>3
  <2>2. e = f /\ Copies(e, b) = 1
    BY <2>1 DEF Fit, Single
  <2> QED BY <1>1, <2>1, <2>2
<1> QED BY <1>1, <1>4, <1>5 DEF Fit, s

-----------------------------------------------------------------------------
(* The powers of things. *)

LEMMA GivenOf ==
    ASSUME AffectsInv, NEW t \in Things, NEW g \in Given(t)
    PROVE  Sane(g) /\ g.source = "temporary"
<1>1. PICK f \in BagToSet(affs[t]) : f.source = "wearer" /\ g = [f EXCEPT !.source = "temporary"]
  BY DEF Given
<1>2. Sane(f) /\ f.dur = Forever
  BY <1>1 DEF AffectsInv, Fit, Sane, Objects
<1>3. /\ g \in Effect /\ g.source = "temporary" /\ g.dur = Forever
  BY <1>1, <1>2 DEF Sane, Effect, Sources
<1> QED BY <1>3 DEF Sane

LEMMA PowersOf ==
    ASSUME AffectsInv, NEW S \in SUBSET Things
    PROVE  /\ IsABag(Powers(S))
           /\ \A e \in BagToSet(Powers(S)) : Sane(e) /\ e.source = "temporary"
           /\ \A e : /\ Copies(e, Powers(S)) = Cardinality({t \in S : e \in Given(t)})
                     /\ Copies(e, Powers(S)) \in Nat
<1> DEFINE G == UNION {Given(t) : t \in S}
           p == [e \in G |-> Cardinality({t \in S : e \in Given(t)})]
<1>1. Powers(S) = p
  BY DEF Powers
<1>2. DOMAIN p = G /\ \A e \in G : p[e] = Cardinality({t \in S : e \in Given(t)})
  OBVIOUS
<1>3. \A e : IsFiniteSet({t \in S : e \in Given(t)}) /\ Cardinality({t \in S : e \in Given(t)}) \in Nat
  <2> TAKE e
  <2>1. {t \in S : e \in Given(t)} \in SUBSET Things
    OBVIOUS
  <2>2. IsFiniteSet({t \in S : e \in Given(t)})
    BY <2>1, AffectsConstants, FS_Subset
  <2> QED BY <2>2, FS_CardinalityType
<1>4. \A e : e \in G <=> {t \in S : e \in Given(t)} # {}
  OBVIOUS
<1>5. \A e : Cardinality({t \in S : e \in Given(t)}) = 0 <=> {t \in S : e \in Given(t)} = {}
  BY <1>3, FS_EmptySet
<1>6. \A e \in G : Sane(e) /\ e.source = "temporary"
  <2> TAKE e \in G
  <2>1. PICK t \in S : e \in Given(t)
    OBVIOUS
  <2> QED BY <2>1, GivenOf
<1> HIDE DEF p, G
<1>7. \A e \in G : p[e] \in Nat /\ p[e] > 0
  <2> TAKE e \in G
  <2>1. p[e] \in Nat /\ p[e] # 0
    BY <1>2, <1>3, <1>4, <1>5
  <2> QED BY <2>1
<1>8. IsABag(p)
  <2>1. p = [e \in G |-> p[e]]
    BY <1>2 DEF p
  <2> QED BY <2>1, <1>2, <1>7 DEF IsABag
<1>9. \A e : /\ Copies(e, p) = Cardinality({t \in S : e \in Given(t)})
             /\ Copies(e, p) \in Nat
  BY <1>2, <1>3, <1>4, <1>5 DEF Copies, BagIn, BagToSet
<1> QED BY <1>1, <1>2, <1>6, <1>8, <1>9 DEF BagToSet

\* what a thing gives is in its effects, and nobody else's
LEMMA GivenGrows ==
    ASSUME NEW t, \A e \in BagToSet(affs[t]) : e.source = "wearer" => e \in BagToSet(affs'[t])
    PROVE  Given(t) \subseteq Given(t)'
BY DEF Given

LEMMA GivenStays ==
    ASSUME NEW t, affs'[t] = affs[t]
    PROVE  Given(t)' = Given(t)
BY DEF Given

LEMMA LendersOf ==
    ASSUME AffectsInv, NEW c, NEW e
    PROVE  /\ IsFiniteSet(Lenders(c, e)) /\ Cardinality(Lenders(c, e)) \in Nat
           /\ Lenders(c, e) \in SUBSET Things
<1>1. Lenders(c, e) \in SUBSET Things
  BY DEF Lenders, Carried
<1>2. IsFiniteSet(Lenders(c, e))
  BY <1>1, AffectsConstants, FS_Subset
<1> QED BY <1>1, <1>2, FS_CardinalityType

-----------------------------------------------------------------------------
(* What an object in the world goes through where it is. *)

LEMMA OneChanged ==
    ASSUME AffectsInv, NEW x \in Objects, InWorld(x), NEW b, Fit(b),
           affs' = [affs EXCEPT ![x] = b],
           \A e : e.source = "temporary" => Copies(e, b) <= Copies(e, affs[x]),
           x \in Things => \A e \in BagToSet(affs[x]) :
                              e.source \in {"wearer", "permanent"} => e \in BagToSet(b),
           UNCHANGED <<place, worn, online>>, alive' \subseteq Chars,
           listed' \in SUBSET (listed \union {x}), listed \ {x} \subseteq listed',
           x \in Chars \/ Timed(b) # {} => x \in listed'
    PROVE  AffectsInv' /\ Lasts
<1> USE DEF AffectsInv
<1>1. /\ DOMAIN affs' = Objects
      /\ \A y \in Objects : affs'[y] = IF y = x THEN b ELSE affs[y]
  OBVIOUS
<1>2. \A y \in Objects : Fit(affs'[y])
  BY <1>1
<1>3. Places'
  BY DEF Places
<1>4. \A y : InWorld(y)' <=> InWorld(y)
  BY DEF InWorld
<1>5. TimedAreListed'
  <2>1. ASSUME NEW y \in Objects, InWorld(y), Timed(affs'[y]) # {}
        PROVE  y \in listed'
    <3>1. CASE y = x
      BY <1>1, <2>1, <3>1
    <3>2. CASE y # x
      BY <1>1, <2>1, <3>2 DEF TimedAreListed
    <3> QED BY <3>1, <3>2
  <2>2. \A y \in listed' : InWorld(y)
    BY DEF TimedAreListed
  <2>3. \A y \in Objects : Timed(affs[y])' = Timed(affs'[y])
    OBVIOUS
  <2> QED BY <1>4, <2>1, <2>2, <2>3 DEF TimedAreListed
<1>6. (online \subseteq listed)'
  BY DEF Places
<1>7. ASSUME NEW c \in online
      PROVE  Lent(c)'
  <2>1. c \in Objects
    BY DEF Places, Objects
  <2>2. \A t \in Things : Given(t) \subseteq Given(t)'
    <3> TAKE t \in Things
    <3>1. t \in Objects
      BY DEF Objects
    <3>2. \A e \in BagToSet(affs[t]) : e.source = "wearer" => e \in BagToSet(affs'[t])
      BY <1>1, <3>1
    <3> QED BY <3>2, GivenGrows
  <2> SUFFICES ASSUME NEW e \in BagToSet(affs'[c]), e.source = "temporary"
               PROVE  Copies(e, affs'[c]) <= Cardinality(Lenders(c, e)')
    BY DEF Lent, Copies, BagIn, BagToSet
  <2>3. Lenders(c, e) \subseteq Lenders(c, e)' /\ Lenders(c, e)' \in SUBSET Things
    BY <2>2 DEF Lenders, Carried
  <2>4. IsFiniteSet(Lenders(c, e)')
    BY <2>3, AffectsConstants, FS_Subset
  <2>5. Cardinality(Lenders(c, e)) <= Cardinality(Lenders(c, e)')
    BY <2>3, <2>4, FS_Subset
  <2>6. Cardinality(Lenders(c, e)) \in Nat /\ Cardinality(Lenders(c, e)') \in Nat
    BY <2>4, LendersOf, FS_CardinalityType
  <2>7. IsABag(affs[c]) /\ IsABag(affs'[c])
    BY <1>2, <2>1 DEF Fit
  <2>8. /\ Copies(e, affs[c]) \in Nat /\ Copies(e, affs'[c]) \in Nat
        /\ e \in BagToSet(affs[c]) <=> Copies(e, affs[c]) > 0
        /\ e \in BagToSet(affs'[c]) <=> Copies(e, affs'[c]) > 0
    BY <2>7, CopiesOf
  <2>9. Copies(e, affs'[c]) <= Copies(e, affs[c])
    BY <1>1, <2>1, <2>8
  <2>10. Copies(e, affs[c]) <= Cardinality(Lenders(c, e))
    BY <2>8, <2>9 DEF Lent
  <2> QED BY <2>5, <2>6, <2>8, <2>9, <2>10
<1>8. Lasts
  BY <1>1 DEF Lasts, BagIn, Objects
<1> QED BY <1>1, <1>2, <1>3, <1>5, <1>6, <1>7, <1>8

LEMMA WorksKeeps ==
    ASSUME NEW b, NEW d, Fit(b), Fit(d), Works(b, d)
    PROVE  /\ \A e : e.source = "temporary" => Copies(e, d) <= Copies(e, b)
           /\ \A e \in BagToSet(b) : e.source \in {"wearer", "permanent"} => e \in BagToSet(d)
<1>1. \A e : /\ Copies(e, b) \in Nat /\ Copies(e, d) \in Nat
             /\ e \in BagToSet(b) <=> Copies(e, b) > 0
             /\ e \in BagToSet(d) <=> Copies(e, d) > 0
  BY CopiesOf DEF Fit
<1> QED BY <1>1 DEF Works

LEMMA OneWorked ==
    ASSUME AffectsInv, NEW x \in Objects, InWorld(x), NEW b, Fit(b), Works(affs[x], b),
           affs' = [affs EXCEPT ![x] = b],
           UNCHANGED <<place, worn, online>>, alive' \subseteq Chars,
           listed' \in SUBSET (listed \union {x}), listed \ {x} \subseteq listed',
           x \in Chars \/ Timed(b) # {} => x \in listed'
    PROVE  AffectsInv' /\ Lasts
<1>1. /\ \A e : e.source = "temporary" => Copies(e, b) <= Copies(e, affs[x])
      /\ \A e \in BagToSet(affs[x]) : e.source \in {"wearer", "permanent"} => e \in BagToSet(b)
  BY WorksKeeps DEF AffectsInv
<1> QED BY <1>1, OneChanged

LEMMA WorksTwice ==
    ASSUME NEW b, NEW c, NEW d, Works(b, c), Works(c, d)
    PROVE  Works(b, d)
BY DEF Works

\* characters in the room are listed, and so is what has an effect that ages
LEMMA InList ==
    ASSUME AffectsInv, NEW x \in Objects, InWorld(x)
    PROVE  x \in Chars \/ Timed(affs[x]) # {} => x \in listed
<1>1. x \in Chars => x \in online
  BY AffectsConstants DEF InWorld
<1> QED BY <1>1 DEF AffectsInv, TimedAreListed

\* what a spell renews ages, so that a thing is on the list already
LEMMA ListedByIs ==
    ASSUME AffectsInv, NEW x \in Objects, InWorld(x),
           NEW e, e.source = "spell", e.id \notin Auras
    PROVE  ListedBy(x, e) = listed \union {x}
<1>1. CASE HasFrom(affs[x], e.id, e.source) = {}
  BY <1>1 DEF ListedBy
<1>2. CASE HasFrom(affs[x], e.id, e.source) # {}
  <2>1. PICK f \in BagToSet(affs[x]) : f.id = e.id /\ f.source = "spell"
    BY <1>2 DEF HasFrom, Has
  <2>2. f \in Timed(affs[x])
    BY <2>1 DEF AffectsInv, Fit, Sane, Timed
  <2>3. x \in listed
    BY <2>2, InList
  <2> QED BY <1>2, <2>3 DEF ListedBy
<1> QED BY <1>1, <1>2

LEMMA AbsorbsStep ==
    ASSUME AffectsInv, NEW x \in Objects, InWorld(x), NEW e, Sane(e), e.source = "spell",
           e.id \notin Auras, NEW aura, NEW source \in {"permanent", "wearer"},
           Absorbs(x, e, aura, source), UNCHANGED <<place, worn, online, alive>>
    PROVE  AffectsInv' /\ Lasts
<1> DEFINE r == Renewed(affs[x], e)
           b == r (-) SetToBag(HasFrom(affs[x], aura, "spell"))
           c == b (-) SetToBag({e})
           m == [id |-> e.id, source |-> source, dur |-> Forever]
           d == c (+) SetToBag({m})
<1>0. Fit(affs[x]) /\ alive' \subseteq Chars
  BY DEF AffectsInv, Places
<1>1. Fit(r) /\ Works(affs[x], r)
  BY <1>0, FitRenewed
<1>2. Fit(b) /\ Works(r, b)
  <2>1. \A f \in HasFrom(affs[x], aura, "spell") : f.source \in {"spell", "gift"}
    BY DEF HasFrom
  <2> HIDE DEF r
  <2> QED BY <1>1, <2>1, FitWithout
<1>3. Fit(c) /\ Works(b, c) /\ BagToSet(c) \subseteq BagToSet(b)
  <2> HIDE DEF b
  <2> QED BY <1>2, FitWithout
<1>4. Works(affs[x], c)
  BY <1>1, <1>2, <1>3, WorksTwice
<1>5. ListedBy(x, e) = listed \union {x}
  BY ListedByIs
<1>6. CASE HasFrom(b, e.id, source) # {}
  <2>1. /\ affs' = [affs EXCEPT ![x] = c]
        /\ listed' = IF StillListed(x, c) THEN listed \union {x} ELSE listed \ {x}
    BY <1>5, <1>6 DEF Absorbs
  <2> HIDE DEF c
  <2>2. /\ listed' \in SUBSET (listed \union {x}) /\ listed \ {x} \subseteq listed'
        /\ x \in Chars \/ Timed(c) # {} => x \in listed'
    BY <2>1 DEF StillListed
  <2> QED BY <1>0, <1>3, <1>4, <2>1, <2>2, OneWorked
<1>7. CASE HasFrom(b, e.id, source) = {}
  <2>1. /\ affs' = [affs EXCEPT ![x] = d]
        /\ listed' = listed \union {x}
    BY <1>5, <1>7 DEF Absorbs
  <2>2. Sane(m) /\ m.id = e.id /\ m.source = source
    <3>1. e \in Effect /\ source \in Sources /\ Forever \in Int
      BY DEF Sane, Sources, Forever
    <3>2. m.id = e.id /\ m.source = source /\ m.dur = Forever /\ m \in Effect
      BY <3>1 DEF Effect
    <3> HIDE DEF m
    <3> QED BY <3>2 DEF Sane
  <2>3. HasFrom(c, m.id, m.source) = {}
    BY <1>3, <1>7, <2>2 DEF HasFrom, Has
  <2> HIDE DEF c, m
  <2>4. /\ Fit(d) /\ BagToSet(d) = BagToSet(c) \union {m}
        /\ \A f : f # m => Copies(f, d) = Copies(f, c)
    BY <1>3, <2>2, <2>3, FitMore
  <2>5. /\ \A f : f.source = "temporary" => Copies(f, c) <= Copies(f, affs[x])
        /\ \A f \in BagToSet(affs[x]) : f.source \in {"wearer", "permanent"} => f \in BagToSet(c)
    BY <1>0, <1>3, <1>4, WorksKeeps
  <2> HIDE DEF d
  <2>6. /\ \A f : f.source = "temporary" => Copies(f, d) <= Copies(f, affs[x])
        /\ \A f \in BagToSet(affs[x]) : f.source \in {"wearer", "permanent"} => f \in BagToSet(d)
    BY <2>2, <2>4, <2>5
  <2> QED BY <1>0, <2>1, <2>4, <2>6, OneChanged
<1> QED BY <1>6, <1>7

LEMMA CastStep ==
    ASSUME AffectsInv, NEW x \in Objects, Cast(x)
    PROVE  AffectsInv' /\ Lasts
<1>0. PICK i \in Blessings : \E d \in 1..Long[i] :
          LET e == [id |-> i, source |-> "spell", dur |-> d]
          IN  IF HasFrom(affs[x], Permanency, "spell") # {} THEN Absorbs(x, e, Permanency, "permanent")
              ELSE IF HasFrom(affs[x], Enchant, "spell") # {} THEN Absorbs(x, e, Enchant, "wearer")
              ELSE /\ affs' = [affs EXCEPT ![x] = Renewed(@, e)]
                   /\ listed' = ListedBy(x, e)
  BY DEF Cast
<1>1. PICK d \in 1..Long[i] :
          LET e == [id |-> i, source |-> "spell", dur |-> d]
          IN  IF HasFrom(affs[x], Permanency, "spell") # {} THEN Absorbs(x, e, Permanency, "permanent")
              ELSE IF HasFrom(affs[x], Enchant, "spell") # {} THEN Absorbs(x, e, Enchant, "wearer")
              ELSE /\ affs' = [affs EXCEPT ![x] = Renewed(@, e)]
                   /\ listed' = ListedBy(x, e)
  BY <1>0
<1> DEFINE e == [id |-> i, source |-> "spell", dur |-> d]
<1>2. InWorld(x) /\ UNCHANGED <<place, worn, online, alive>>
  BY DEF Cast
<1>3. Sane(e) /\ e.source = "spell" /\ e.id \notin Auras
  <2>1. i \in Ids /\ i \notin Auras /\ Long[i] \in Nat
    BY AffectsConstants DEF Ids
  <2>2. d \in Int /\ d # Forever /\ d \in 1..Long[i]
    BY <2>1 DEF Forever
  <2>3. e \in Effect
    BY <2>1, <2>2 DEF Effect, Sources
  <2> QED BY <2>1, <2>2, <2>3 DEF Sane
<1>4. \/ \E aura \in Auras, source \in {"permanent", "wearer"} : Absorbs(x, e, aura, source)
      \/ affs' = [affs EXCEPT ![x] = Renewed(@, e)] /\ listed' = ListedBy(x, e)
  BY <1>1 DEF Auras
<1> HIDE DEF e
<1>5. CASE \E aura \in Auras, source \in {"permanent", "wearer"} : Absorbs(x, e, aura, source)
  BY <1>2, <1>3, <1>5, AbsorbsStep
<1>6. CASE affs' = [affs EXCEPT ![x] = Renewed(@, e)] /\ listed' = ListedBy(x, e)
  <2>1. Fit(affs[x]) /\ alive' \subseteq Chars /\ DOMAIN affs = Objects
    BY <1>2 DEF AffectsInv, Places
  <2>2. Fit(Renewed(affs[x], e)) /\ Works(affs[x], Renewed(affs[x], e))
    BY <1>3, <2>1, FitRenewed
  <2>3. listed' = listed \union {x}
    BY <1>2, <1>3, <1>6, ListedByIs
  <2>4. affs' = [affs EXCEPT ![x] = Renewed(affs[x], e)]
    BY <1>6
  <2>5. listed' \in SUBSET (listed \union {x}) /\ listed \ {x} \subseteq listed' /\ x \in listed'
    BY <2>3
  <2> QED BY ONLY AffectsInv, x \in Objects, <1>2, <2>1, <2>2, <2>4, <2>5, OneWorked
<1> QED BY <1>4, <1>5, <1>6

LEMMA CastAuraStep ==
    ASSUME AffectsInv, NEW t \in Things, CastAura(t)
    PROVE  AffectsInv' /\ Lasts
<1>1. PICK a \in Auras :
          affs' = [affs EXCEPT ![t] = @ (+) SetToBag({[id |-> a, source |-> "spell", dur |-> Forever]})]
  BY DEF CastAura
<1> DEFINE e == [id |-> a, source |-> "spell", dur |-> Forever]
           b == affs[t] (+) SetToBag({e})
<1>2. /\ InWorld(t) /\ HasFrom(affs[t], e.id, e.source) = {} /\ t \in Objects
      /\ UNCHANGED <<listed, place, worn, online, alive>>
      /\ affs' = [affs EXCEPT ![t] = b]
      /\ Fit(affs[t]) /\ alive' \subseteq Chars
  BY <1>1 DEF CastAura, HasFrom, AffectsInv, Places, Objects
<1>3. Sane(e) /\ e.source = "spell" /\ e.dur = Forever
  BY DEF Sane, Effect, Ids, Sources, Forever
<1> HIDE DEF e
<1>4. /\ Fit(b) /\ BagToSet(b) = BagToSet(affs[t]) \union {e}
      /\ \A f : f # e => Copies(f, b) = Copies(f, affs[t])
  BY <1>2, <1>3, FitMore
<1> HIDE DEF b
<1>5. Works(affs[t], b)
  BY <1>3, <1>4 DEF Works
<1>6. Timed(b) = Timed(affs[t])
  BY <1>3, <1>4 DEF Timed
<1>7. t \in Chars \/ Timed(b) # {} => t \in listed'
  BY <1>2, <1>6, InList
<1> QED BY <1>2, <1>4, <1>5, <1>7, OneWorked

\* deletion: a thing loses what a spell made, a character whatever it is
LEMMA DeleteStep ==
    ASSUME AffectsInv, NEW x \in Objects, InWorld(x), NEW D,
           x \in Things => \A e \in D : e.source \in {"spell", "gift"},
           Delete(x, D), UNCHANGED <<place, worn, online, alive>>
    PROVE  AffectsInv' /\ Lasts
<1> DEFINE b == affs[x] (-) SetToBag(D)
<1>1. /\ affs' = [affs EXCEPT ![x] = b]
      /\ listed' = IF x \in Chars \/ Timed(b) # {} THEN listed ELSE listed \ {x}
  BY DEF Delete, StillListed
<1>2. Fit(affs[x]) /\ alive' \subseteq Chars
  BY DEF AffectsInv, Places
<1>3. /\ Fit(b) /\ BagToSet(b) \subseteq BagToSet(affs[x])
      /\ x \in Things => Works(affs[x], b)
  BY <1>2, FitWithout
<1>4. \A e : Copies(e, b) <= Copies(e, affs[x])
  <2>1. IsABag(SetToBag(D))
    BY CopiesOfSet
  <2> QED BY <1>2, <2>1, FitLess
<1> HIDE DEF b
<1>5. x \in Things => \A e \in BagToSet(affs[x]) :
                         e.source \in {"wearer", "permanent"} => e \in BagToSet(b)
  BY <1>2, <1>3, WorksKeeps
<1>6. Timed(b) \subseteq Timed(affs[x])
  BY <1>3 DEF Timed
<1>7. x \in Chars \/ Timed(b) # {} => x \in listed'
  BY <1>1, <1>6, InList
<1>8. listed' \in SUBSET (listed \union {x}) /\ listed \ {x} \subseteq listed'
  BY <1>1
<1> QED BY <1>1, <1>2, <1>3, <1>4, <1>5, <1>7, <1>8, OneChanged

LEMMA CastDispelMagicStep ==
    ASSUME AffectsInv, NEW x \in Objects, CastDispelMagic(x)
    PROVE  AffectsInv' /\ Lasts
<1>1. PICK D \in SUBSET {e \in BagToSet(affs[x]) : e.source = "spell"} : Delete(x, D)
  BY DEF CastDispelMagic
<1>2. \A e \in D : e.source \in {"spell", "gift"}
  OBVIOUS
<1>3. InWorld(x) /\ UNCHANGED <<place, worn, online, alive>>
  BY DEF CastDispelMagic
<1> QED BY <1>1, <1>2, <1>3, DeleteStep

LEMMA CastFreezeStep ==
    ASSUME AffectsInv, NEW c \in Chars, CastFreeze(c)
    PROVE  AffectsInv' /\ Lasts
<1>1. PICK d \in 1..Long[Freeze] :
          affs' = [affs EXCEPT ![c] = Renewed(@, [id |-> Freeze, source |-> "spell", dur |-> d])]
  BY DEF CastFreeze
<1> DEFINE e == [id |-> Freeze, source |-> "spell", dur |-> d]
           b == Renewed(affs[c], e)
<1>2. /\ c \in Objects /\ InWorld(c) /\ Fit(affs[c]) /\ alive' \subseteq Chars /\ c \in listed
      /\ UNCHANGED <<listed, place, worn, online>>
      /\ affs' = [affs EXCEPT ![c] = b]
  BY <1>1 DEF CastFreeze, AffectsInv, Places, Objects, InWorld
<1>3. Sane(e) /\ e.source = "spell"
  <2>1. Freeze \in Ids /\ Freeze \notin Auras /\ Long[Freeze] \in Nat
    BY AffectsConstants DEF Ids
  <2>2. d \in Int /\ d # Forever /\ d \in 1..Long[Freeze]
    BY <2>1 DEF Forever
  <2> QED BY <2>1, <2>2 DEF Sane, Effect, Sources
<1> HIDE DEF e
<1>4. Fit(b) /\ Works(affs[c], b)
  BY <1>2, <1>3, FitRenewed
<1> HIDE DEF b
<1> QED BY <1>2, <1>4, OneWorked

LEMMA CastCurePoisonStep ==
    ASSUME AffectsInv, NEW c \in Chars, CastCurePoison(c)
    PROVE  AffectsInv' /\ Lasts
<1>1. PICK e \in Has(affs[c], Poisoned) : Delete(c, {e})
  BY DEF CastCurePoison
<1>2. c \in Objects /\ InWorld(c) /\ c \notin Things /\ UNCHANGED <<place, worn, online, alive>>
  BY AffectsConstants DEF CastCurePoison, Objects, InWorld
<1> QED BY <1>1, <1>2, DeleteStep

LEMMA ReviveStep ==
    ASSUME AffectsInv, NEW c \in Chars, Revive(c)
    PROVE  AffectsInv' /\ Lasts
<1> DEFINE D == Has(affs[c], Poisoned)
           b == affs[c] (-) SetToBag(D)
<1>1. /\ affs' = [affs EXCEPT ![c] = b] /\ UNCHANGED <<listed, place, worn, online>>
      /\ alive' \subseteq Chars /\ c \in online /\ Fit(affs[c])
      /\ c \in Objects /\ InWorld(c) /\ c \notin Things /\ c \in listed
  BY AffectsConstants DEF Revive, AffectsInv, Places, Objects, InWorld
<1>2. Fit(b) /\ \A e : Copies(e, b) <= Copies(e, affs[c])
  <2>1. IsABag(SetToBag(D))
    BY CopiesOfSet
  <2> QED BY <1>1, <2>1, FitLess
<1> HIDE DEF b
<1> QED BY <1>1, <1>2, OneChanged

LEMMA ProcessAffectsStep ==
    ASSUME AffectsInv, NEW x \in Objects, ProcessAffects(x)
    PROVE  AffectsInv' /\ Lasts
<1> DEFINE b == Aged(affs[x], Timed(affs[x]))
<1>1. /\ x \in listed /\ InWorld(x) /\ affs' = [affs EXCEPT ![x] = b]
      /\ listed' = IF x \in Chars \/ Timed(b) # {} \/ \A e \in Timed(affs[x]) : e.dur > 1
                   THEN listed ELSE listed \ {x}
      /\ UNCHANGED <<place, worn, online, alive>>
  BY DEF ProcessAffects, StillListed
<1>2. Fit(affs[x]) /\ alive' \subseteq Chars
  BY <1>1 DEF AffectsInv, Places
<1>3. Fit(b) /\ Works(affs[x], b)
  BY <1>2, FitAged
<1> HIDE DEF b
<1>4. /\ x \in Chars \/ Timed(b) # {} => x \in listed'
      /\ listed' \in SUBSET (listed \union {x}) /\ listed \ {x} \subseteq listed'
  BY <1>1
<1> QED BY <1>1, <1>2, <1>3, <1>4, OneWorked

-----------------------------------------------------------------------------
(* Things change hands. *)

\* one character parts with the things in S, wears or takes off others
LEMMA WearerChanged ==
    ASSUME AffectsInv, NEW c \in online, NEW b, Fit(b), NEW S \in SUBSET Carried(c),
           DOMAIN affs' = Objects, \A x \in Objects : affs'[x] = IF x = c THEN b ELSE affs[x],
           place' = [t \in Things |-> IF t \in S THEN Ground ELSE place[t]],
           worn' \subseteq Things \ S, worn' \ Carried(c) = worn \ Carried(c),
           Lent(c)', UNCHANGED <<listed, online>>, alive' \subseteq Chars
    PROVE  AffectsInv' /\ Lasts
<1> USE DEF AffectsInv
<1>1. /\ DOMAIN affs' = Objects
      /\ \A x \in Objects : affs'[x] = IF x = c THEN b ELSE affs[x]
      /\ c \in Chars /\ c \in Objects /\ c \notin Things
  BY AffectsConstants DEF Places, Objects
<1>2. \A x \in Objects : Fit(affs'[x])
  BY <1>1
<1>3. \A t \in Carried(c) : t \in Things /\ place[t] = c
  BY DEF Carried
<1>4. Places'
  <2>1. \A t \in worn' : place'[t] \in Chars
    BY <1>1, <1>3 DEF Places, Carried
  <2>2. place' \in [Things -> Chars \union {Ground, Gone}]
    BY DEF Places
  <2> QED BY <2>1, <2>2 DEF Places
<1>5. \A x : InWorld(x)' <=> InWorld(x)
  <2> SUFFICES ASSUME NEW x \in Things, x \in S
               PROVE  place[x] \in online /\ place'[x] = Ground
    BY DEF InWorld
  <2> QED BY <1>3
<1>6. TimedAreListed'
  <2>1. ASSUME NEW y \in Objects, InWorld(y), Timed(affs'[y]) # {}
        PROVE  y \in listed'
    <3>1. CASE y = c
      BY <3>1
    <3>2. CASE y # c
      BY <1>1, <2>1, <3>2 DEF TimedAreListed
    <3> QED BY <3>1, <3>2
  <2>2. \A y \in listed' : InWorld(y)
    BY DEF TimedAreListed
  <2>3. \A y \in Objects : Timed(affs[y])' = Timed(affs'[y])
    OBVIOUS
  <2> QED BY <1>5, <2>1, <2>2, <2>3 DEF TimedAreListed
<1>7. ASSUME NEW d \in online, d # c
      PROVE  Lent(d)'
  <2>1. d \in Objects /\ d \in Chars /\ d # Ground /\ affs'[d] = affs[d]
    BY <1>1, <1>7, AffectsConstants DEF Places, Objects
  <2>2. \A t \in Things : Given(t)' = Given(t)
    <3> TAKE t \in Things
    <3>1. affs'[t] = affs[t]
      BY <1>1 DEF Objects
    <3> QED BY <3>1, GivenStays
  <2>3. \A t \in Things : place'[t] = d <=> place[t] = d
    BY <1>3, <1>7, <2>1 
  <2>4. \A t \in Things : place[t] = d => (t \in worn' <=> t \in worn)
    BY <1>3, <1>7
  <2>5. \A e : Lenders(d, e)' = Lenders(d, e)
    BY <2>2, <2>3, <2>4 DEF Lenders, Carried
  <2>6. \A e : Copies(e, affs[d])' = Copies(e, affs[d])
    BY <2>1 DEF Copies, BagIn, BagToSet
  <2> QED BY <2>1, <2>5, <2>6 DEF Lent
<1>8. Lasts
  BY <1>1 DEF Lasts, BagIn, Objects
<1> QED BY <1>1, <1>2, <1>4, <1>6, <1>7, <1>8

\* what is taken back with the things T keeps the count
LEMMA TakenBack ==
    ASSUME AffectsInv, NEW c \in online, NEW b, Fit(b),
           \A e : e.source = "temporary" => Copies(e, b) <= Copies(e, affs[c]),
           NEW T \in SUBSET (worn \intersect Carried(c)), NEW d, Fit(d), affs'[c] = d,
           \A t \in Carried(c)' \intersect worn' : affs'[t] = affs[t],
           \A e : Copies(e, d) <= Copies(e, TakeBack(b, T)),
           Carried(c)' \intersect worn' = (Carried(c) \intersect worn) \ T
    PROVE  Lent(c)'
<1>1. c \in Objects /\ IsABag(b) /\ IsABag(affs[c]) /\ IsABag(d)
  BY DEF AffectsInv, Places, Objects, Fit
<1>2. \A t \in Carried(c)' \intersect worn' : Given(t)' = Given(t)
  BY GivenStays
<1> SUFFICES ASSUME NEW e \in BagToSet(d), e.source = "temporary"
             PROVE  Copies(e, d) <= Cardinality(Lenders(c, e)')
  BY <1>1 DEF Lent, Copies, BagIn, BagToSet
<1> DEFINE L == Lenders(c, e)
           G == {t \in T : e \in Given(t)}
<1>3. T \in SUBSET Things
  BY DEF Carried
<1>4. Lenders(c, e)' = L \ G
  <2>1. \A t \in Carried(c)' \intersect worn' : t \in Things
    BY DEF Carried
  <2> QED BY <1>2, <2>1 DEF Lenders, Carried
<1>5. G \subseteq L /\ IsFiniteSet(L) /\ Cardinality(L) \in Nat
  BY LendersOf DEF Lenders
<1>6. /\ IsFiniteSet(G) /\ Cardinality(G) \in Nat
      /\ Cardinality(L \ G) = Cardinality(L) - Cardinality(G)
  <2> HIDE DEF G, L
  <2>1. IsFiniteSet(G) /\ L \intersect G = G
    BY <1>5, FS_Subset
  <2>2. Cardinality(L \ G) = Cardinality(L) - Cardinality(L \intersect G)
    BY <1>5, FS_Difference
  <2> QED BY <2>1, <2>2, FS_CardinalityType
<1>7. IsABag(Powers(T)) /\ Copies(e, Powers(T)) = Cardinality(G)
  BY <1>3, PowersOf
<1>8. Copies(e, TakeBack(b, T)) =
          IF Copies(e, b) > Cardinality(G) THEN Copies(e, b) - Cardinality(G) ELSE 0
  BY <1>1, <1>7, CopiesOfMinus DEF TakeBack
<1>9. /\ Copies(e, affs[c]) \in Nat /\ Copies(e, b) \in Nat /\ Copies(e, d) \in Nat
      /\ e \in BagToSet(affs[c]) <=> Copies(e, affs[c]) > 0
      /\ Copies(e, d) > 0
  BY <1>1, CopiesOf
<1>10. Copies(e, d) <= Copies(e, TakeBack(b, T)) /\ Copies(e, b) <= Copies(e, affs[c])
  OBVIOUS
<1> HIDE DEF L, G
<1>11. Copies(e, affs[c]) > 0
  BY <1>6, <1>8, <1>9, <1>10
<1>12. Copies(e, affs[c]) <= Cardinality(L)
  BY <1>9, <1>11 DEF AffectsInv, Lent, L
<1> QED BY <1>4, <1>5, <1>6, <1>8, <1>9, <1>10, <1>12

LEMMA FitTakenBack ==
    ASSUME AffectsInv, NEW b, Fit(b), NEW T \in SUBSET Things
    PROVE  Fit(TakeBack(b, T)) /\ \A e : Copies(e, TakeBack(b, T)) <= Copies(e, b)
BY PowersOf, FitLess DEF TakeBack

\* a blow, and a death in which c loses the things in S
LEMMA StruckStep ==
    ASSUME AffectsInv, NEW c \in online, NEW b, Fit(b),
           \A e : e.source = "temporary" => Copies(e, b) <= Copies(e, affs[c]),
           NEW S \in SUBSET Carried(c), Struck(c, b, S),
           UNCHANGED <<listed, online>>, alive' \subseteq Chars
    PROVE  AffectsInv' /\ Lasts
<1> DEFINE T == S \intersect worn
           k == TakeBack(b, T)
           d == k (-) SetToBag(HasFrom(b, Freeze, "spell"))
<1>1. /\ affs' = [affs EXCEPT ![c] = d]
      /\ place' = [t \in Things |-> IF t \in S THEN Ground ELSE place[t]]
      /\ worn' = worn \ S
  BY DEF Struck
<1>2. /\ c \in Objects /\ c \in Chars /\ c \notin Things /\ c # Ground /\ DOMAIN affs = Objects
      /\ worn \subseteq Things /\ \A t \in S : t \in Things /\ place[t] = c
  BY AffectsConstants DEF AffectsInv, Places, Objects, Carried
<1>3. T \in SUBSET (worn \intersect Carried(c)) /\ T \in SUBSET Things
  BY <1>2
<1>4. Fit(k)
  BY <1>3, FitTakenBack
<1>5. Fit(d) /\ \A e : Copies(e, d) <= Copies(e, k)
  <2>1. IsABag(SetToBag(HasFrom(b, Freeze, "spell")))
    BY CopiesOfSet
  <2> HIDE DEF k
  <2> QED BY <1>4, <2>1, FitLess
<1> HIDE DEF d
<1>6. affs'[c] = d /\ \A t \in Carried(c)' \intersect worn' : affs'[t] = affs[t]
  BY <1>1, <1>2 DEF Carried, Objects
<1>7. Carried(c)' \intersect worn' = (Carried(c) \intersect worn) \ T
  BY <1>1, <1>2 DEF Carried
<1> HIDE DEF T
<1>8. Lent(c)'
  BY <1>3, <1>5, <1>6, <1>7, TakenBack
<1>9. worn' \subseteq Things \ S /\ worn' \ Carried(c) = worn \ Carried(c)
  BY <1>1, <1>2
<1>10. DOMAIN affs' = Objects /\ \A x \in Objects : affs'[x] = IF x = c THEN d ELSE affs[x]
  BY <1>1, <1>2
<1> QED BY <1>1, <1>5, <1>8, <1>9, <1>10, WearerChanged

LEMMA HurtStep ==
    ASSUME AffectsInv, NEW c \in online, NEW b, Fit(b), Works(affs[c], b),
           Survives(c, b) \/ Dies(c, b), UNCHANGED <<listed, online>>
    PROVE  AffectsInv' /\ Lasts
<1>1. c \in Objects /\ Fit(affs[c]) /\ alive \subseteq Chars
  BY DEF AffectsInv, Places, Objects
<1>2. \A e : e.source = "temporary" => Copies(e, b) <= Copies(e, affs[c])
  BY <1>1, WorksKeeps
<1>3. CASE Survives(c, b)
  <2>1. Struck(c, b, {}) /\ alive' \subseteq Chars
    BY <1>1, <1>3 DEF Survives
  <2> QED BY <1>2, <2>1, StruckStep
<1>4. CASE Dies(c, b)
  <2>1. PICK S \in SUBSET Carried(c) : Struck(c, b, S)
    BY <1>4 DEF Dies
  <2>2. alive' \subseteq Chars
    BY <1>1, <1>4 DEF Dies
  <2> QED BY <1>2, <2>1, <2>2, StruckStep
<1> QED BY <1>3, <1>4

LEMMA TakeDamageStep ==
    ASSUME AffectsInv, NEW c \in Chars, TakeDamage(c)
    PROVE  AffectsInv' /\ Lasts
<1>1. PICK b \in {affs[c]} \union
           {Renewed(affs[c], [id |-> Poisoned, source |-> "gift", dur |-> d]) : d \in 1..Long[Poisoned]} :
              Survives(c, b) \/ Dies(c, b)
  BY DEF TakeDamage
<1>2. c \in online /\ UNCHANGED <<listed, online>> /\ Fit(affs[c])
  BY DEF TakeDamage, AffectsInv, Objects
<1>3. CASE b = affs[c]
  <2>1. Works(affs[c], b)
    BY <1>3 DEF Works
  <2> QED BY <1>1, <1>2, <1>3, <2>1, HurtStep
<1>4. CASE b # affs[c]
  <2>1. PICK d \in 1..Long[Poisoned] : b = Renewed(affs[c], [id |-> Poisoned, source |-> "gift", dur |-> d])
    BY <1>1, <1>4
  <2> DEFINE e == [id |-> Poisoned, source |-> "gift", dur |-> d]
  <2>2. Sane(e) /\ e.source = "gift"
    <3>1. Poisoned \in Ids /\ Poisoned \notin Auras /\ Long[Poisoned] \in Nat
      BY AffectsConstants DEF Ids
    <3>2. d \in Int /\ d # Forever /\ d \in 1..Long[Poisoned]
      BY <3>1 DEF Forever
    <3> QED BY <3>1, <3>2 DEF Sane, Effect, Sources
  <2>3. b = Renewed(affs[c], e)
    BY <2>1
  <2> HIDE DEF e
  <2>4. Fit(b) /\ Works(affs[c], b)
    BY <1>2, <2>2, <2>3, FitRenewed
  <2> QED BY <1>1, <1>2, <2>4, HurtStep
<1> QED BY <1>3, <1>4

LEMMA PoisonBitesStep ==
    ASSUME AffectsInv, NEW c \in Chars, PoisonBites(c)
    PROVE  AffectsInv' /\ Lasts
<1> DEFINE timed == Timed(affs[c]) \ HasFrom(affs[c], Freeze, "spell")
<1>1. PICK late \in SUBSET {e \in timed : e.id # Poisoned} :
          \/ Survives(c, Aged(affs[c], timed \ late))
          \/ Dies(c, Aged(affs[c], timed \ late))
  BY DEF PoisonBites
<1>2. c \in online /\ UNCHANGED <<listed, online>> /\ Fit(affs[c])
  BY DEF PoisonBites, AffectsInv, Objects
<1>3. timed \ late \in SUBSET Timed(affs[c])
  OBVIOUS
<1> HIDE DEF timed
<1>4. Fit(Aged(affs[c], timed \ late)) /\ Works(affs[c], Aged(affs[c], timed \ late))
  BY <1>2, <1>3, FitAged
<1> QED BY <1>1, <1>2, <1>4, HurtStep

LEMMA TakeStep ==
    ASSUME AffectsInv, NEW c \in Chars, NEW t \in Things, Take(c, t)
    PROVE  AffectsInv' /\ Lasts
<1> USE DEF AffectsInv
<1>1. /\ c \in online /\ place[t] = Ground /\ place' = [place EXCEPT ![t] = c]
      /\ UNCHANGED <<affs, listed, worn, online, alive>>
  BY DEF Take
<1>2. t \notin worn /\ Ground \notin Chars /\ place \in [Things -> Chars \union {Ground, Gone}]
  BY <1>1, AffectsConstants DEF Places
<1>3. Places'
  BY <1>1, <1>2 DEF Places
<1>4. \A x : InWorld(x)' <=> InWorld(x)
  BY <1>1, <1>2 DEF InWorld
<1>5. TimedAreListed'
  <2>1. \A y \in Objects : Timed(affs[y])' = Timed(affs[y])
    BY <1>1 DEF Timed, BagToSet
  <2> QED BY <1>1, <1>4, <2>1 DEF TimedAreListed
<1>6. ASSUME NEW d \in online PROVE Lent(d)'
  <2>1. \A u \in worn : place'[u] = place[u] /\ u \in Things
    BY <1>1, <1>2 DEF Places
  <2>2. \A u : Given(u)' = Given(u)
    BY <1>1, GivenStays
  <2>3. \A e : Lenders(d, e)' = Lenders(d, e)
    BY <1>1, <2>1, <2>2 DEF Lenders, Carried
  <2>4. \A e : Copies(e, affs[d])' = Copies(e, affs[d])
    BY <1>1 DEF Copies, BagIn, BagToSet
  <2> QED BY <1>1, <2>3, <2>4 DEF Lent, BagToSet
<1>7. Lasts
  BY <1>1 DEF Lasts, BagIn
<1>8. (\A x \in Objects : Fit(affs[x]))'
  BY <1>1
<1> QED BY <1>1, <1>3, <1>5, <1>6, <1>7, <1>8

LEMMA DropStep ==
    ASSUME AffectsInv, NEW c \in Chars, NEW t \in Things, Drop(c, t)
    PROVE  AffectsInv' /\ Lasts
<1>1. /\ c \in online /\ place[t] = c /\ t \notin worn /\ place' = [place EXCEPT ![t] = Ground]
      /\ UNCHANGED <<affs, listed, worn, online, alive>>
  BY DEF Drop
<1>2. /\ c \in Objects /\ Fit(affs[c]) /\ alive \subseteq Chars /\ DOMAIN affs = Objects
      /\ worn \subseteq Things /\ place \in [Things -> Chars \union {Ground, Gone}]
      /\ {t} \in SUBSET Carried(c) /\ Lent(c)
  BY <1>1 DEF AffectsInv, Places, Objects, Carried
<1>3. place' = [u \in Things |-> IF u \in {t} THEN Ground ELSE place[u]]
  BY <1>1, <1>2
<1>4. Lent(c)'
  <2>1. \A u \in worn : place'[u] = place[u] /\ u \in Things
    BY <1>1, <1>2
  <2>2. \A u : Given(u)' = Given(u)
    BY <1>1, GivenStays
  <2>3. \A e : Lenders(c, e)' = Lenders(c, e)
    BY <1>1, <2>1, <2>2 DEF Lenders, Carried
  <2>4. \A e : Copies(e, affs[c])' = Copies(e, affs[c])
    BY <1>1 DEF Copies, BagIn, BagToSet
  <2> QED BY <1>1, <1>2, <2>3, <2>4 DEF Lent, BagToSet
<1>5. DOMAIN affs' = Objects /\ \A x \in Objects : affs'[x] = IF x = c THEN affs[c] ELSE affs[x]
  BY <1>1, <1>2
<1>6. worn' \subseteq Things \ {t} /\ worn' \ Carried(c) = worn \ Carried(c) /\ alive' \subseteq Chars
  BY <1>1, <1>2
<1> QED BY <1>1, <1>2, <1>3, <1>4, <1>5, <1>6, WearerChanged

\* taking a thing off and losing it: what was lent is taken back if it was worn
LEMMA PartStep ==
    ASSUME AffectsInv, NEW c \in online, NEW t \in Things, place[t] = c, NEW S \in SUBSET {t},
           t \in S \/ t \in worn, worn' = worn \ {t},
           affs' = [affs EXCEPT ![c] = TakeBack(@, {t} \intersect worn)],
           place' = [u \in Things |-> IF u \in S THEN Ground ELSE place[u]],
           UNCHANGED <<listed, online, alive>>
    PROVE  AffectsInv' /\ Lasts
<1> DEFINE T == {t} \intersect worn
           d == TakeBack(affs[c], T)
<1>1. /\ c \in Objects /\ c \in Chars /\ c \notin Things /\ c # Ground /\ DOMAIN affs = Objects
      /\ worn \subseteq Things /\ t \in Carried(c) /\ Fit(affs[c]) /\ alive' \subseteq Chars
  BY AffectsConstants DEF AffectsInv, Places, Objects, Carried
<1>2. affs' = [affs EXCEPT ![c] = d]
  OBVIOUS
<1>3. T \in SUBSET (worn \intersect Carried(c)) /\ T \in SUBSET Things
  BY <1>1
<1>4. Fit(d)
  BY <1>1, <1>3, FitTakenBack
<1>5. \A e : Copies(e, affs[c]) \in Nat /\ Copies(e, d) \in Nat
  BY <1>1, <1>4, CopiesOf DEF Fit
<1>6. DOMAIN affs' = Objects /\ \A x \in Objects : affs'[x] = IF x = c THEN d ELSE affs[x]
  BY <1>1, <1>2
<1>7. affs'[c] = d /\ \A u \in Carried(c)' \intersect worn' : affs'[u] = affs[u]
  BY <1>1, <1>6 DEF Carried, Objects
<1>8. Carried(c)' \intersect worn' = (Carried(c) \intersect worn) \ T
  BY <1>1 DEF Carried
<1>9. Lent(c)'
  <2>1. /\ \A e : Copies(e, affs[c]) <= Copies(e, affs[c])
        /\ \A e : Copies(e, d) <= Copies(e, TakeBack(affs[c], T))
    BY <1>5
  <2> HIDE DEF d, T
  <2> QED BY <1>1, <1>3, <1>4, <1>7, <1>8, <2>1, TakenBack
<1>10. worn' \subseteq Things \ S /\ worn' \ Carried(c) = worn \ Carried(c) /\ S \in SUBSET Carried(c)
  BY <1>1
<1> HIDE DEF d
<1> QED BY <1>1, <1>4, <1>6, <1>9, <1>10, WearerChanged

LEMMA TakeOffStep ==
    ASSUME AffectsInv, NEW c \in Chars, NEW t \in Things, TakeOff(c, t)
    PROVE  AffectsInv' /\ Lasts
<1>1. /\ c \in online /\ place[t] = c /\ t \in worn /\ worn' = worn \ {t}
      /\ affs' = [affs EXCEPT ![c] = TakeBack(@, {t})]
      /\ UNCHANGED <<listed, place, online, alive>>
  BY DEF TakeOff
<1>2. {t} \intersect worn = {t} /\ {} \in SUBSET {t}
  BY <1>1
<1>3. place' = [u \in Things |-> IF u \in {} THEN Ground ELSE place[u]]
  BY <1>1 DEF AffectsInv, Places
<1> QED BY <1>1, <1>2, <1>3, PartStep

LEMMA ForceDropStep ==
    ASSUME AffectsInv, NEW c \in Chars, NEW t \in Things, ForceDrop(c, t)
    PROVE  AffectsInv' /\ Lasts
<1>1. /\ c \in online /\ place[t] = c /\ worn' = worn \ {t}
      /\ affs' = [affs EXCEPT ![c] = TakeBack(@, {t} \intersect worn)]
      /\ place' = [place EXCEPT ![t] = Ground]
      /\ UNCHANGED <<listed, online, alive>>
  BY DEF ForceDrop
<1>2. {t} \in SUBSET {t} /\ t \in {t}
  OBVIOUS
<1>3. place' = [u \in Things |-> IF u \in {t} THEN Ground ELSE place[u]]
  BY <1>1 DEF AffectsInv, Places
<1> QED BY <1>1, <1>2, <1>3, PartStep

LEMMA PutOnStep ==
    ASSUME AffectsInv, NEW c \in Chars, NEW t \in Things, PutOn(c, t)
    PROVE  AffectsInv' /\ Lasts
<1> DEFINE d == Lend(affs[c], {t})
<1>1. /\ c \in online /\ place[t] = c /\ t \notin worn /\ worn' = worn \union {t}
      /\ affs' = [affs EXCEPT ![c] = d]
      /\ UNCHANGED <<listed, place, online, alive>>
  BY DEF PutOn
<1>2. /\ c \in Objects /\ c \notin Things /\ DOMAIN affs = Objects
      /\ worn \subseteq Things /\ t \in Carried(c) /\ Fit(affs[c]) /\ alive' \subseteq Chars /\ Lent(c)
  BY <1>1, AffectsConstants DEF AffectsInv, Places, Objects, Carried
<1>3. /\ IsABag(affs[c]) /\ IsABag(Powers({t}))
      /\ \A e \in BagToSet(Powers({t})) : Sane(e) /\ e.source = "temporary"
      /\ \A e : /\ Copies(e, Powers({t})) = Cardinality({u \in {t} : e \in Given(u)})
                /\ Copies(e, Powers({t})) \in Nat
  BY <1>2, PowersOf DEF Fit
<1>4. Fit(d)
  BY <1>2, <1>3, FitLent DEF Lend
<1>5. \A e : Copies(e, d) = Copies(e, affs[c]) + Copies(e, Powers({t}))
  BY <1>3, CopiesOfPlus DEF Lend
<1> HIDE DEF d
<1>6. DOMAIN affs' = Objects /\ \A x \in Objects : affs'[x] = IF x = c THEN d ELSE affs[x]
  BY <1>1, <1>2
<1>7. Lent(c)'
  <2> SUFFICES ASSUME NEW e \in BagToSet(d), e.source = "temporary"
               PROVE  Copies(e, d) <= Cardinality(Lenders(c, e)')
    BY <1>2, <1>6 DEF Lent, Copies, BagIn, BagToSet
  <2> DEFINE L == Lenders(c, e)
             G == {u \in {t} : e \in Given(u)}
  <2>1. \A u \in Things : Given(u)' = Given(u)
    <3> TAKE u \in Things
    <3>1. affs'[u] = affs[u]
      BY <1>2, <1>6 DEF Objects
    <3> QED BY <3>1, GivenStays
  <2>2. Lenders(c, e)' = L \union G /\ L \intersect G = {}
    BY <1>1, <1>2, <2>1 DEF Lenders, Carried
  <2>3. IsFiniteSet(L) /\ Cardinality(L) \in Nat
    BY LendersOf
  <2>4. Cardinality(G) \in Nat /\ Copies(e, Powers({t})) = Cardinality(G) /\ IsFiniteSet(G)
    <3>1. G \in SUBSET Things
      OBVIOUS
    <3>2. IsFiniteSet(G)
      BY <3>1, AffectsConstants, FS_Subset
    <3> QED BY <1>3, <3>2, FS_CardinalityType
  <2> HIDE DEF L, G
  <2>5. Cardinality(L \union G) = Cardinality(L) + Cardinality(G)
    <3>1. Cardinality(L \union G) = Cardinality(L) + Cardinality(G) - Cardinality(L \intersect G)
      BY <2>3, <2>4, FS_Union
    <3>2. Cardinality(L \intersect G) = 0
      BY <2>2, FS_EmptySet
    <3> QED BY <2>3, <2>4, <3>1, <3>2
  <2>6. Copies(e, affs[c]) \in Nat /\ (Copies(e, affs[c]) > 0 <=> e \in BagToSet(affs[c]))
    BY <1>3, CopiesOf
  <2>7. Copies(e, affs[c]) <= Cardinality(L)
    BY <1>2, <2>3, <2>6 DEF Lent, L
  <2> QED BY <1>5, <2>2, <2>3, <2>4, <2>5, <2>6, <2>7
<1>8. /\ worn' \subseteq Things \ {} /\ worn' \ Carried(c) = worn \ Carried(c) /\ {} \in SUBSET Carried(c)
      /\ place' = [u \in Things |-> IF u \in {} THEN Ground ELSE place[u]]
  BY <1>1, <1>2 DEF AffectsInv, Places
<1> QED BY <1>1, <1>2, <1>4, <1>6, <1>7, <1>8, WearerChanged

LEMMA AuraDestroysStep ==
    ASSUME AffectsInv, NEW t \in Things, AuraDestroys(t)
    PROVE  AffectsInv' /\ Lasts
<1> USE DEF AffectsInv
<1>1. /\ InWorld(t) /\ place' = [place EXCEPT ![t] = Gone] /\ worn' = worn \ {t}
      /\ listed' = listed \ {t} /\ UNCHANGED <<online, alive>>
      /\ affs' = [x \in Objects |-> IF x = t THEN EmptyBag
                                    ELSE IF t \in worn /\ x = place[t] THEN TakeBack(affs[x], {t})
                                    ELSE affs[x]]
  BY DEF AuraDestroys
<1>2. /\ t \notin Chars /\ Ground \notin Chars /\ Gone \notin Chars /\ Ground # Gone /\ t \in Objects
      /\ place \in [Things -> Chars \union {Ground, Gone}] /\ worn \subseteq Things
      /\ online \subseteq Chars /\ \A u \in worn : place[u] \in Chars
  BY AffectsConstants DEF Places, Objects
<1>3. /\ \A u \in Things : u # t => affs'[u] = affs[u] /\ place'[u] = place[u]
      /\ place'[t] = Gone
  BY <1>1, <1>2, AffectsConstants DEF Objects
<1>4. ASSUME NEW x \in Objects
      PROVE  Fit(affs'[x]) /\ (Timed(affs'[x]) # {} => Timed(affs[x]) # {} /\ x # t)
  <2>1. CASE x = t
    <3>1. affs'[x] = EmptyBag
      BY <1>1, <2>1
    <3>2. IsABag(EmptyBag) /\ BagToSet(EmptyBag) = {}
      BY CopiesOfSet DEF EmptyBag
    <3>3. Fit(affs'[x]) /\ Timed(affs'[x]) = {}
      BY <3>1, <3>2 DEF Fit, Single, Timed
    <3> QED BY <3>3
  <2>2. CASE x # t /\ t \in worn /\ x = place[t]
    <3>1. affs'[x] = TakeBack(affs[x], {t})
      BY <1>1, <2>2
    <3>2. Fit(affs[x]) /\ IsABag(Powers({t}))
      BY PowersOf
    <3>3. Fit(TakeBack(affs[x], {t})) /\ BagToSet(TakeBack(affs[x], {t})) \subseteq BagToSet(affs[x])
      BY <3>2, FitLess DEF TakeBack
    <3> QED BY <2>2, <3>1, <3>3 DEF Timed
  <2>3. CASE x # t /\ ~(t \in worn /\ x = place[t])
    <3>1. affs'[x] = affs[x]
      BY <1>1, <2>3
    <3> QED BY <2>3, <3>1
  <2> QED BY <2>1, <2>2, <2>3
<1>5. Places'
  BY <1>1, <1>2, <1>3 DEF Places
<1>6. \A x : InWorld(x)' <=> InWorld(x) /\ x # t
  BY <1>1, <1>2, <1>3 DEF InWorld
<1>7. TimedAreListed'
  <2>1. \A y \in Objects : Timed(affs[y])' = Timed(affs'[y])
    OBVIOUS
  <2> QED BY <1>1, <1>4, <1>6, <2>1 DEF TimedAreListed
<1>8. ASSUME NEW d \in online PROVE Lent(d)'
  <2>0. d \in Objects /\ d \in Chars /\ d # t
    BY <1>2 DEF Objects
  <2>1. \A u \in worn' : u \in Things /\ u # t /\ affs'[u] = affs[u] /\ place'[u] = place[u]
    BY <1>1, <1>2, <1>3
  <2>2. CASE t \in worn /\ d = place[t]
    <3> DEFINE b == TakeBack(affs[d], {t})
    <3>1. affs'[d] = b
      BY <1>1, <2>0, <2>2
    <3>2. Fit(affs[d]) /\ {t} \in SUBSET (worn \intersect Carried(d))
      BY <2>0, <2>2 DEF Carried
    <3>3. Fit(b)
      BY <3>2, FitTakenBack
    <3>4. /\ \A e : Copies(e, affs[d]) <= Copies(e, affs[d])
          /\ \A e : Copies(e, b) <= Copies(e, b)
      BY <3>2, <3>3, CopiesOf DEF Fit
    <3>5. Carried(d)' \intersect worn' = (Carried(d) \intersect worn) \ {t}
      BY <1>1, <1>2, <2>1 DEF Carried
    <3>6. \A u \in Carried(d)' \intersect worn' : affs'[u] = affs[u]
      BY <2>1
    <3> QED BY <3>1, <3>2, <3>3, <3>4, <3>5, <3>6, TakenBack
  <2>3. CASE ~(t \in worn /\ d = place[t])
    <3>1. affs'[d] = affs[d]
      BY <1>1, <2>0, <2>3
    <3>2. \A u \in worn' : Given(u)' = Given(u)
      BY <2>1, GivenStays
    <3>3. \A u : u \in worn' \intersect Carried(d)' <=> u \in worn \intersect Carried(d)
      BY <1>1, <1>2, <2>1, <2>3 DEF Carried
    <3>4. \A e : Lenders(d, e)' = Lenders(d, e)
      BY <3>2, <3>3 DEF Lenders
    <3>5. \A e : Copies(e, affs[d])' = Copies(e, affs[d])
      BY <3>1 DEF Copies, BagIn, BagToSet
    <3> QED BY <1>1, <3>1, <3>4, <3>5 DEF Lent
  <2> QED BY <2>2, <2>3
<1>9. Lasts
  BY <1>3 DEF Lasts, BagIn
<1>10. (online \subseteq listed)' /\ DOMAIN affs' = Objects
  BY <1>1, <1>2
<1> QED BY <1>1, <1>4, <1>5, <1>7, <1>8, <1>9, <1>10

LEMMA LeaveStep ==
    ASSUME AffectsInv, NEW c \in Chars, Leave(c)
    PROVE  AffectsInv' /\ Lasts
<1> USE DEF AffectsInv
<1>1. /\ c \in online /\ online' = online \ {c} /\ listed' = listed \ ({c} \union Carried(c))
      /\ UNCHANGED <<affs, place, worn, alive>>
  BY DEF Leave
<1>2. Places'
  BY <1>1 DEF Places
<1>3. online \subseteq Chars /\ c # Ground /\ Chars \intersect Things = {} /\ Carried(c) \subseteq Things
  BY AffectsConstants DEF Places, Carried
<1>4. \A x : InWorld(x)' <=> InWorld(x) /\ x # c /\ x \notin Carried(c)
  BY <1>1, <1>3 DEF InWorld, Carried
<1>5. TimedAreListed'
  <2>1. \A y \in Objects : Timed(affs[y])' = Timed(affs[y])
    BY <1>1 DEF Timed, BagToSet
  <2> QED BY <1>1, <1>4, <2>1 DEF TimedAreListed
<1>6. ASSUME NEW d \in online' PROVE Lent(d)'
  <2>1. \A u : Given(u)' = Given(u)
    BY <1>1, GivenStays
  <2>2. \A e : Lenders(d, e)' = Lenders(d, e)
    BY <1>1, <2>1 DEF Lenders, Carried
  <2>3. \A e : Copies(e, affs[d])' = Copies(e, affs[d])
    BY <1>1 DEF Copies, BagIn, BagToSet
  <2> QED BY <1>1, <2>2, <2>3 DEF Lent, BagToSet
<1>7. Lasts
  BY <1>1 DEF Lasts, BagIn
<1>8. (\A x \in Objects : Fit(affs[x]))' /\ (online \subseteq listed)'
  BY <1>1, <1>3
<1> QED BY <1>1, <1>2, <1>5, <1>6, <1>7, <1>8

LEMMA EnterStep ==
    ASSUME AffectsInv, NEW c \in Chars, Enter(c)
    PROVE  AffectsInv' /\ Lasts
<1> USE DEF AffectsInv
<1> DEFINE l == Loaded(c, affs[c])
           own == l (-) SetToBag(IF c \in alive THEN {} ELSE Has(affs[c], Poisoned))
<1>1. PICK on \in SUBSET (Carried(c) \intersect worn) :
         /\ worn' = (worn \ Carried(c)) \union on
         /\ affs' = [x \in Objects |-> IF x = c THEN Lend(own, on)
                                       ELSE IF x \in Carried(c) THEN Loaded(x, affs[x])
                                       ELSE affs[x]]
  BY DEF Enter
<1>2. /\ c \notin online
      /\ listed' = listed \union {c} \union {t \in Carried(c) : Timed(affs[t]) # {}}
      /\ online' = online \union {c} /\ alive' = alive \union {c} /\ UNCHANGED place
  BY DEF Enter
<1>3. /\ c \in Objects /\ c \notin Things /\ c # Ground /\ Things \intersect Chars = {}
      /\ worn \subseteq Things /\ online \subseteq Chars /\ on \subseteq Things
      /\ \A u \in Carried(c) : u \in Things /\ u \in Objects /\ u \notin Chars /\ place[u] = c
  BY <1>1, AffectsConstants DEF Places, Objects, Carried
<1>4. Fit(l) /\ \A e \in BagToSet(l) : e.source # "temporary"
  BY <1>3, FitLoaded
<1>5. Fit(own) /\ \A e : e.source = "temporary" => Copies(e, own) = 0
  <2>1. Fit(own) /\ BagToSet(own) \subseteq BagToSet(l)
    <3> HIDE DEF l
    <3> QED BY <1>4, FitWithout
  <2>2. IsABag(own)
    BY <2>1 DEF Fit
  <2> HIDE DEF own, l
  <2>3. \A e : Copies(e, own) \in Nat /\ (e \in BagToSet(own) <=> Copies(e, own) > 0)
    BY <2>2, CopiesOf
  <2> QED BY <1>4, <2>1, <2>3
<1> HIDE DEF own, l
<1>6. /\ IsABag(own) /\ IsABag(Powers(on))
      /\ \A e \in BagToSet(Powers(on)) : Sane(e) /\ e.source = "temporary"
      /\ \A e : /\ Copies(e, Powers(on)) = Cardinality({u \in on : e \in Given(u)})
                /\ Copies(e, Powers(on)) \in Nat
  BY <1>3, <1>5, PowersOf DEF Fit
<1>7. Fit(Lend(own, on)) /\ \A e : Copies(e, Lend(own, on)) = Copies(e, own) + Copies(e, Powers(on))
  BY <1>5, <1>6, FitLent, CopiesOfPlus DEF Lend
<1>8. affs'[c] = Lend(own, on) /\ DOMAIN affs' = Objects
  BY <1>1, <1>3
<1>9. ASSUME NEW x \in Objects, x # c
      PROVE  /\ Fit(affs'[x]) /\ BagToSet(affs'[x]) \subseteq BagToSet(affs[x])
             /\ x \in Things => \A e \in BagToSet(affs[x]) : e.source # "temporary" => e \in BagToSet(affs'[x])
             /\ x \notin Carried(c) => affs'[x] = affs[x]
  <2>1. CASE x \in Carried(c)
    <3>1. affs'[x] = Loaded(x, affs[x]) /\ x \notin Chars
      BY <1>1, <1>3, <1>9, <2>1
    <3> QED BY <2>1, <3>1, FitLoaded
  <2>2. CASE x \notin Carried(c)
    <3>1. affs'[x] = affs[x]
      BY <1>1, <1>9, <2>2
    <3> QED BY <2>2, <3>1
  <2> QED BY <2>1, <2>2
<1>10. \A x \in Objects : Fit(affs'[x])
  BY <1>7, <1>8, <1>9
<1>11. Places'
  <2>1. listed' \subseteq Objects
    BY <1>2, <1>3 DEF Places
  <2>2. \A t \in worn' : t \in Things /\ place[t] \in Chars
    BY <1>1, <1>3 DEF Places
  <2> QED BY <1>2, <2>1, <2>2 DEF Places
<1>12. \A x : InWorld(x)' <=> InWorld(x) \/ x = c \/ x \in Carried(c)
  BY <1>2, <1>3 DEF InWorld, Carried
<1>13. TimedAreListed'
  <2>1. ASSUME NEW y \in Objects, InWorld(y)', Timed(affs'[y]) # {}
        PROVE  y \in listed'
    <3>1. CASE y = c
      BY <1>2, <3>1
    <3>2. CASE y # c
      <4>1. Timed(affs[y]) # {}
        BY <1>9, <2>1, <3>2 DEF Timed
      <4>2. CASE y \in Carried(c)
        BY <1>2, <4>1, <4>2
      <4>3. CASE y \notin Carried(c)
        <5>1. InWorld(y)
          BY <1>12, <2>1, <3>2, <4>3
        <5> QED BY <1>2, <4>1, <5>1 DEF TimedAreListed
      <4> QED BY <4>2, <4>3
    <3> QED BY <3>1, <3>2
  <2>2. \A y \in listed' : InWorld(y)'
    BY <1>2, <1>12 DEF TimedAreListed
  <2>3. \A y \in Objects : Timed(affs[y])' = Timed(affs'[y])
    OBVIOUS
  <2> QED BY <2>1, <2>2, <2>3 DEF TimedAreListed
<1>14. Lent(c)'
  <2> SUFFICES ASSUME NEW e \in BagToSet(affs'[c]), e.source = "temporary"
               PROVE  Copies(e, affs'[c]) <= Cardinality(Lenders(c, e)')
    BY DEF Lent, Copies, BagIn, BagToSet
  <2> DEFINE G == {u \in on : e \in Given(u)}
  <2>1. \A u \in on : Given(u) \subseteq Given(u)'
    <3> TAKE u \in on
    <3>1. u \in Objects /\ u \in Things /\ u # c
      BY <1>3 DEF Objects
    <3>2. \A f \in BagToSet(affs[u]) : f.source = "wearer" => f \in BagToSet(affs'[u])
      BY <1>9, <3>1
    <3> QED BY <3>2, GivenGrows
  <2>2. G \subseteq Lenders(c, e)' /\ Lenders(c, e)' \in SUBSET Things
    BY <1>1, <1>2, <1>3, <2>1 DEF Lenders, Carried
  <2>3. IsFiniteSet(Lenders(c, e)')
    BY <2>2, AffectsConstants, FS_Subset
  <2>4. Cardinality(G) <= Cardinality(Lenders(c, e)')
    BY <2>2, <2>3, FS_Subset
  <2>5. Copies(e, affs'[c]) = Cardinality(G)
    <3>1. Copies(e, own) = 0 /\ Copies(e, Powers(on)) \in Nat /\ Copies(e, Powers(on)) = Cardinality(G)
      BY <1>5, <1>6
    <3> QED BY <1>7, <1>8, <3>1
  <2> QED BY <2>4, <2>5
<1>15. ASSUME NEW d \in online
       PROVE  Lent(d)'
  <2>1. d \in Objects /\ d # c /\ d \notin Carried(c)
    BY <1>2, <1>3 DEF Objects
  <2>2. affs'[d] = affs[d]
    BY <1>9, <2>1
  <2>3. \A u \in Carried(d) : u \in Things /\ u \in Objects /\ u # c /\ u \notin Carried(c)
    BY <1>3, <2>1 DEF Carried, Objects
  <2>4. \A u \in Carried(d) : Given(u)' = Given(u)
    <3> TAKE u \in Carried(d)
    <3>1. affs'[u] = affs[u]
      BY <1>9, <2>3
    <3> QED BY <3>1, GivenStays
  <2>5. Carried(d)' = Carried(d) /\ \A u \in Carried(d) : u \in worn' <=> u \in worn
    BY <1>1, <1>2, <2>3 DEF Carried
  <2>6. \A e : Lenders(d, e)' = Lenders(d, e)
    BY <2>4, <2>5 DEF Lenders
  <2>7. \A e : Copies(e, affs[d])' = Copies(e, affs[d])
    BY <2>2 DEF Copies, BagIn, BagToSet
  <2> QED BY <2>2, <2>6, <2>7 DEF Lent
<1>16. Lasts
  <2>1. \A t \in Things : t \in Objects /\ t # c
    BY <1>3 DEF Objects
  <2> QED BY <1>9, <2>1 DEF Lasts, BagIn
<1>17. (online \subseteq listed)' /\ \A d \in online' : d = c \/ d \in online
  BY <1>2
<1> QED BY <1>8, <1>10, <1>11, <1>13, <1>14, <1>15, <1>16, <1>17

-----------------------------------------------------------------------------
(* The theorems. *)

LEMMA InitAffects == Init => AffectsInv
<1> SUFFICES ASSUME Init PROVE AffectsInv
  OBVIOUS
<1>1. IsABag(EmptyBag) /\ BagToSet(EmptyBag) = {}
  BY CopiesOfSet DEF EmptyBag
<1>2. DOMAIN affs = Objects /\ \A x \in Objects : BagToSet(affs[x]) = {} /\ Fit(affs[x])
  BY <1>1 DEF Init, Fit, Single
<1>3. \A x \in Objects : Timed(affs[x]) = {}
  BY <1>2 DEF Timed
<1>4. Places /\ online \subseteq listed
  BY DEF Init, Places, Objects
<1>5. TimedAreListed
  BY <1>3 DEF Init, TimedAreListed, InWorld
<1>6. \A c \in online : Lent(c)
  BY <1>2 DEF Init, Lent, Objects
<1> QED BY <1>2, <1>4, <1>5, <1>6 DEF AffectsInv

LEMMA NextAffects == AffectsInv /\ [Next]_vars => AffectsInv' /\ [Lasts]_vars
<1> SUFFICES ASSUME AffectsInv, [Next]_vars PROVE AffectsInv' /\ [Lasts]_vars
  OBVIOUS
<1>1. ASSUME NEW x \in Objects, Cast(x) \/ CastDispelMagic(x) \/ ProcessAffects(x)
      PROVE  AffectsInv' /\ Lasts
  BY <1>1, CastStep, CastDispelMagicStep, ProcessAffectsStep
<1>2. ASSUME NEW t \in Things, CastAura(t) \/ AuraDestroys(t)
      PROVE  AffectsInv' /\ Lasts
  BY <1>2, CastAuraStep, AuraDestroysStep
<1>3. ASSUME NEW c \in Chars, \/ CastFreeze(c) \/ CastCurePoison(c) \/ TakeDamage(c)
                              \/ PoisonBites(c) \/ Revive(c) \/ Leave(c) \/ Enter(c)
      PROVE  AffectsInv' /\ Lasts
  BY <1>3, CastFreezeStep, CastCurePoisonStep, TakeDamageStep, PoisonBitesStep, ReviveStep,
     LeaveStep, EnterStep
<1>4. ASSUME NEW c \in Chars, NEW t \in Things,
             \/ Take(c, t) \/ Drop(c, t) \/ ForceDrop(c, t) \/ PutOn(c, t) \/ TakeOff(c, t)
      PROVE  AffectsInv' /\ Lasts
  BY <1>4, TakeStep, DropStep, ForceDropStep, PutOnStep, TakeOffStep
<1>5. CASE UNCHANGED vars
  <2>1. UNCHANGED <<affs, listed, place, worn, online, alive>>
    BY <1>5 DEF vars
  <2>2. \A u : Given(u)' = Given(u)
    BY <2>1, GivenStays
  <2>3. \A c, e : Lenders(c, e)' = Lenders(c, e)
    BY <2>1, <2>2 DEF Lenders, Carried
  <2>4. \A c : Lent(c) => Lent(c)'
    BY <2>1, <2>3 DEF Lent, Copies, BagIn, BagToSet
  <2>5. Places' /\ TimedAreListed'
    BY <2>1 DEF AffectsInv, Places, TimedAreListed, InWorld, Timed, BagToSet
  <2> QED BY <1>5, <2>1, <2>4, <2>5 DEF AffectsInv
<1> QED BY <1>1, <1>2, <1>3, <1>4, <1>5 DEF Next

\* Effects, places, the list of what ages and the powers of worn things agree
\* with each other, for any characters, finitely many things, and any spells
\* and durations.
THEOREM AffectsInvHolds == Spec => []AffectsInv
<1>1. Init => AffectsInv
  BY InitAffects
<1>2. AffectsInv /\ [Next]_vars => AffectsInv'
  BY NextAffects
<1> QED BY <1>1, <1>2, PTL DEF Spec

\* No effect is doubled, and none that runs out is off gAffectedObjects while
\* its owner is in the world (addAffect, delAffect, processAffects).
THEOREM OrderlyHolds == Spec => []Orderly
<1>1. AffectsInv => Orderly
  <2> SUFFICES ASSUME AffectsInv PROVE Orderly
    OBVIOUS
  <2>1. \A x \in Objects : /\ IsABag(affs[x]) /\ BagToSet(affs[x]) \subseteq Effect
                           /\ \A e \in Timed(affs[x]) : e.id \notin Auras /\ e.dur \in 1..Long[e.id]
    BY DEF AffectsInv, Fit, Sane, Timed
  <2>2. TypeOK
    BY <2>1 DEF AffectsInv, Places, TypeOK
  <2>3. Mutex
    BY DEF AffectsInv, Fit, Mutex
  <2> QED BY <2>2, <2>3 DEF AffectsInv, Orderly
<1> QED BY <1>1, AffectsInvHolds, PTL

\* A character has the power of a thing once for each thing it wears that
\* gives it, whichever way things were lost (removeWearerAffects).
THEOREM WornPowersHolds == Spec => []WornPowers
<1>1. AffectsInv => WornPowers
  <2> SUFFICES ASSUME AffectsInv, NEW c \in online, NEW e \in BagToSet(affs[c]), e.source = "temporary"
               PROVE  e.dur = Forever /\ Copies(e, affs[c]) <= Cardinality(Lenders(c, e))
    BY DEF WornPowers, Lenders
  <2>1. c \in Objects
    BY DEF AffectsInv, Places, Objects
  <2> QED BY <2>1 DEF AffectsInv, Fit, Sane, Lent
<1> QED BY <1>1, AffectsInvHolds, PTL

\* What is enchanted for ever into a thing stays there as long as the thing
\* does (castDispelMagic, processAffects, loadAffectsFromBuffer).
THEOREM EnchantmentsLastHolds == Spec => EnchantmentsLast
<1>1. AffectsInv /\ [Next]_vars => [Lasts]_vars
  BY NextAffects
<1>2. Spec => [][Lasts]_vars
  BY <1>1, AffectsInvHolds, PTL DEF Spec
<1> QED BY <1>2 DEF EnchantmentsLast, Lasts
=================================================================================
