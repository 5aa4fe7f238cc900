----------------------------- MODULE Combat_proofs -----------------------------
(***************************************************************************)
(* Proofs that CInv is an invariant of Combat, and what follows from it.   *)
(* CInv is stated of any war, objects, presence and actions: one lemma per *)
(* operator of CombatGroup shows that it keeps CInv, and the lemmas on     *)
(* actions only say which of them a handler uses.                          *)
(***************************************************************************)
EXTENDS Combat, TLAPS

-----------------------------------------------------------------------------
(* The inductive invariant. *)

\* One fight f at address g, in the war w, with the objects l and the actions a.
FightInv(f, g, w, l, a) ==
    /\ f.attackers \intersect f.defenders = {}
    /\ f.begin \union f.turn \subseteq Combatants(f)
    /\ ~f.live => f = NoFight
    /\ g \in w.dead => f.live /\ Combatants(f) = {}
    /\ \A o \in f.objects : l[o] = g
    /\ f.live => \A o \in Loot : l[o] = g => o \in f.objects
    \* actions are asked for when all have arrived
    /\ f.begin # {} => f.turn = {}
    /\ g \in w.due => f.begin = {} /\ f.turn = {}
    /\ f.cloud /\ Combatants(f) # {} /\ f.begin = {} /\ f.turn = {} /\ f.round < MaxRounds
           => g \in w.due
    /\ f.turn \intersect a = {}

Membership(w) == \A c \in Chars, g \in Fights : c \in Combatants(w.fight[g]) <=> w.in[c] = g
Presence(w, h) == \A c \in Chars : w.in[c] # None => c \in h

WarInv(w, l, h, a) ==
    /\ w \in War
    /\ l \in [Loot -> Fights \union {None}]
    /\ Membership(w) /\ Presence(w, h)
    /\ \A g \in Fights : FightInv(w.fight[g], g, w, l, a)

CInv == TypeOK /\ WarInv(war, loot, here, action)

\* What a step may do to the fights.
StepInv(w, w2, l2) ==
    \A g \in Fights :
        /\ w2.fight[g].round > w.fight[g].round => w.fight[g].begin = {} /\ w.fight[g].turn = {}
        /\ w.fight[g].cloud /\ ~w2.fight[g].live => \A o \in Loot : l2[o] # g

-----------------------------------------------------------------------------
(* One fight changes. *)

LEMMA FightFields ==
    ASSUME NEW w \in War, NEW g \in Fights
    PROVE  /\ w.fight[g] \in Fight
           /\ w.fight[g].live \in BOOLEAN /\ w.fight[g].cloud \in BOOLEAN
           /\ w.fight[g].attackers \subseteq Chars /\ w.fight[g].defenders \subseteq Chars
           /\ w.fight[g].begin \subseteq Chars /\ w.fight[g].turn \subseteq Chars
           /\ w.fight[g].round \in 0 .. MaxRounds /\ w.fight[g].objects \subseteq Loot
BY DEF War, Fight

LEMMA NoFightFields ==
    /\ NoFight \in Fight
    /\ Combatants(NoFight) = {} /\ ~NoFight.live /\ ~NoFight.cloud /\ NoFight.round = 0
BY CombatConstants DEF NoFight, Fight, Combatants

\* The others of a war are as they were: what is left to show is about the one.
LEMMA OneChanges ==
    ASSUME NEW w, NEW l, NEW h, NEW a, WarInv(w, l, h, a),
           NEW w2 \in War, NEW l2 \in [Loot -> Fights \union {None}], NEW h2, NEW a2,
           NEW g \in Fights,
           \A k \in Fights \ {g} :
               /\ w2.fight[k] = w.fight[k]
               /\ (k \in w2.due <=> k \in w.due) /\ (k \in w2.dead <=> k \in w.dead)
               /\ \A o \in Loot : l2[o] = k <=> l[o] = k
               /\ w.fight[k].turn \intersect a2 = {},
           FightInv(w2.fight[g], g, w2, l2, a2),
           Membership(w2), Presence(w2, h2)
    PROVE  WarInv(w2, l2, h2, a2)
<1>1. SUFFICES ASSUME NEW k \in Fights \ {g} PROVE FightInv(w2.fight[k], k, w2, l2, a2)
  BY DEF WarInv
<1>2. FightInv(w.fight[k], k, w, l, a)
  BY DEF WarInv
<1>3. w.fight[k].objects \subseteq Loot
  BY FightFields DEF WarInv
<1>4. w2.fight[k] = w.fight[k]
  OBVIOUS
<1> QED BY <1>2, <1>3, <1>4 DEF FightInv

\* More may be in the room, and what nobody is asked for may be forgotten.
LEMMA WarInvWeakens ==
    ASSUME NEW w, NEW l, NEW h, NEW a, WarInv(w, l, h, a), NEW h2, NEW a2,
           Presence(w, h2), a2 \subseteq a
    PROVE  WarInv(w, l, h2, a2)
<1>1. \A g \in Fights : FightInv(w.fight[g], g, w, l, a2)
  BY DEF WarInv, FightInv
<1> QED BY <1>1 DEF WarInv

\* A fight that somebody is in is live, and nobody is in two.
LEMMA Fighter ==
    ASSUME NEW w, NEW l, NEW h, NEW a, WarInv(w, l, h, a),
           NEW c \in Chars, w.in[c] # None
    PROVE  /\ w.in[c] \in Fights /\ c \in Combatants(w.fight[w.in[c]])
           /\ w.fight[w.in[c]].live /\ w.in[c] \notin w.dead
           /\ \A k \in Fights \ {w.in[c]} : c \notin Combatants(w.fight[k])
                                            /\ c \notin w.fight[k].turn
<1>1. w.in[c] \in Fights
  BY DEF WarInv, War
<1>2. \A k \in Fights : FightInv(w.fight[k], k, w, l, a)
  BY DEF WarInv
<1>3. \A k \in Fights : c \in Combatants(w.fight[k]) <=> w.in[c] = k
  BY DEF WarInv, Membership
<1>4. w.fight[w.in[c]].live
  BY <1>1, <1>2, <1>3, NoFightFields DEF FightInv
<1> QED BY <1>1, <1>2, <1>3, <1>4 DEF FightInv

\* A step that leaves the rounds and the lives of all fights.
Quiet(w, w2) ==
    \A k \in Fights : w2.fight[k].round = w.fight[k].round /\ w2.fight[k].live = w.fight[k].live

LEMMA QuietStep ==
    ASSUME NEW w, NEW l, NEW h, NEW a, WarInv(w, l, h, a), NEW w2, NEW l2, Quiet(w, w2)
    PROVE  StepInv(w, w2, l2)
<1>1. \A k \in Fights : w.fight[k].cloud => w.fight[k].live
  BY NoFightFields DEF WarInv, FightInv
<1>2. \A k \in Fights : w.fight[k].round \in Int
  BY FightFields, CombatConstants DEF WarInv
<1> QED BY <1>1, <1>2 DEF StepInv, Quiet

-----------------------------------------------------------------------------
(* The operators of CombatGroup. *)

LEMMA LeaveFields ==
    ASSUME NEW f \in Fight, NEW c
    PROVE  /\ Leave(f, c) \in Fight
           /\ Leave(f, c).live = f.live /\ Leave(f, c).cloud = f.cloud
           /\ Leave(f, c).round = f.round /\ Leave(f, c).objects = f.objects
           /\ Leave(f, c).attackers = f.attackers \ {c}
           /\ Leave(f, c).defenders = f.defenders \ {c}
           /\ Leave(f, c).begin = f.begin \ {c} /\ Leave(f, c).turn = f.turn \ {c}
BY DEF Leave, Fight


LEMMA DeleteInv ==
    ASSUME NEW w, NEW l, NEW h, NEW a, WarInv(w, l, h, a),
           NEW c \in Chars, w.in[c] # None
    PROVE  /\ WarInv(Delete(w, c), l, h, a)
           /\ Delete(w, c).in[c] = None
           /\ Quiet(w, Delete(w, c))
<1> DEFINE g == w.in[c]
           f == w.fight[g]
           f2 == Leave(f, c)
           w2 == Delete(w, c)
<1>0. w \in War /\ l \in [Loot -> Fights \union {None}]
  BY DEF WarInv
<1>1. /\ g \in Fights /\ c \in Combatants(f) /\ f.live /\ g \notin w.dead
      /\ \A k \in Fights \ {g} : c \notin Combatants(w.fight[k]) /\ c \notin w.fight[k].turn
  BY Fighter
<1>2. FightInv(f, g, w, l, a)
  BY <1>1 DEF WarInv
<1>3. /\ f \in Fight /\ f2 \in Fight
      /\ f2.live = f.live /\ f2.cloud = f.cloud /\ f2.round = f.round /\ f2.objects = f.objects
      /\ f2.attackers = f.attackers \ {c} /\ f2.defenders = f.defenders \ {c}
      /\ f2.begin = f.begin \ {c} /\ f2.turn = f.turn \ {c}
  <2>1. f \in Fight
    BY <1>0, <1>1, FightFields
  <2> HIDE DEF f
  <2> QED BY <2>1, LeaveFields
<1>4. Combatants(f2) = Combatants(f) \ {c}
  BY <1>3 DEF Combatants
<1>5. /\ w2 \in War
      /\ w2.in = [w.in EXCEPT ![c] = None]
      /\ w2.fight = [w.fight EXCEPT ![g] = f2]
      /\ w2.due = IF Combatants(f2) # {} /\ Emptied(f, f2) THEN w.due \union {g} ELSE w.due
      /\ w2.dead = IF Combatants(f2) = {} THEN w.dead \union {g} ELSE w.dead
  <2> HIDE DEF f2
  <2>1. w2 = [w EXCEPT !.in[c] = None, !.fight[g] = f2,
                  !.due  = IF Combatants(f2) # {} /\ Emptied(w.fight[g], f2)
                           THEN @ \union {g} ELSE @,
                  !.dead = IF Combatants(f2) = {} THEN @ \union {g} ELSE @]
    BY DEF Delete, f2
  <2> HIDE DEF f, g, w2
  <2>2. g \in Fights /\ f2 \in Fight
    BY <1>1, <1>3
  <2>3. f = w.fight[g]
    BY DEF f
  <2> QED BY <1>0, <2>1, <2>2, <2>3 DEF War
<1>6. w2.fight[g] = f2 /\ \A k \in Fights \ {g} : w2.fight[k] = w.fight[k]
  BY <1>0, <1>1, <1>5 DEF War
<1>7. w2.in[c] = None /\ \A x \in Chars \ {c} : w2.in[x] = w.in[x]
  BY <1>0, <1>5 DEF War
<1> HIDE DEF w2, f2, f
<1>8. FightInv(f2, g, w2, l, a)
  BY <1>2, <1>1, <1>3, <1>4, <1>5 DEF FightInv, Emptied
<1>9. Membership(w2) /\ Presence(w2, h)
  <2>1. Membership(w) /\ Presence(w, h)
    BY DEF WarInv
  <2>2. Presence(w2, h)
    BY <2>1, <1>7 DEF Presence
  <2>3. None \notin Fights
    BY CombatConstants
  <2>4. Membership(w2)
    BY <2>1, <2>3, <1>1, <1>4, <1>6, <1>7 DEF Membership, f
  <2> QED BY <2>2, <2>4
<1>10. WarInv(w2, l, h, a)
  <2> HIDE DEF g
  <2>1. \A k \in Fights \ {g} :
            /\ w2.fight[k] = w.fight[k]
            /\ (k \in w2.due <=> k \in w.due) /\ (k \in w2.dead <=> k \in w.dead)
            /\ \A o \in Loot : l[o] = k <=> l[o] = k
            /\ w.fight[k].turn \intersect a = {}
    BY <1>5, <1>6 DEF WarInv, FightInv
  <2>2. FightInv(w2.fight[g], g, w2, l, a)
    BY <1>6, <1>8
  <2>3. w2 \in War /\ g \in Fights
    BY <1>1, <1>5
  <2> QED BY <1>0, <1>9, <2>1, <2>2, <2>3, OneChanges
<1>11. Quiet(w, w2)
  BY <1>3, <1>6 DEF Quiet, f
<1> QED BY <1>7, <1>10, <1>11 DEF w2

\* Somebody is no longer waited for: CombatReady and TurnReady.
LEMMA PendingShrinks ==
    ASSUME NEW w, NEW l, NEW h, NEW a, WarInv(w, l, h, a),
           NEW g \in Fights, NEW f2 \in Fight,
           f2.live = w.fight[g].live, f2.cloud = w.fight[g].cloud,
           f2.round = w.fight[g].round, f2.objects = w.fight[g].objects,
           f2.attackers = w.fight[g].attackers, f2.defenders = w.fight[g].defenders,
           f2.begin \subseteq w.fight[g].begin, f2.turn \subseteq w.fight[g].turn,
           NEW w2 \in War, w2.in = w.in, w2.dead = w.dead,
           w2.due = IF Emptied(w.fight[g], f2) THEN w.due \union {g} ELSE w.due,
           w2.fight = [w.fight EXCEPT ![g] = f2],
           NEW a2, f2.turn \intersect a2 = {},
           \A k \in Fights \ {g} : w.fight[k].turn \intersect a2 = {}
    PROVE  WarInv(w2, l, h, a2) /\ Quiet(w, w2)
<1> DEFINE f == w.fight[g]
<1>1. w \in War /\ l \in [Loot -> Fights \union {None}] /\ f \in Fight
  BY FightFields DEF WarInv
<1>2. FightInv(f, g, w, l, a)
  BY DEF WarInv
<1>3. /\ w2 \in War /\ w2.in = w.in /\ w2.dead = w.dead
      /\ w2.due = IF Emptied(f, f2) THEN w.due \union {g} ELSE w.due
      /\ w2.fight[g] = f2 /\ \A k \in Fights \ {g} : w2.fight[k] = w.fight[k]
  BY <1>1 DEF War
<1>4. Combatants(f2) = Combatants(f)
  BY DEF Combatants
<1>5. FightInv(w2.fight[g], g, w2, l, a2)
  <2>1. FightInv(f2, g, w2, l, a2)
    <3> HIDE DEF f
    <3>1. /\ f2.live = f.live /\ f2.cloud = f.cloud /\ f2.round = f.round
          /\ f2.objects = f.objects /\ f2.attackers = f.attackers
          /\ f2.defenders = f.defenders /\ f2.begin \subseteq f.begin /\ f2.turn \subseteq f.turn
      BY DEF f
    <3>2. f2.live \/ f2 = NoFight
      <4>1. CASE f2.live
        BY <4>1
      <4>2. CASE ~f2.live
        <5>1. f = NoFight
          BY <1>2, <3>1, <4>2 DEF FightInv
        <5>2. f2 = NoFight
          BY <5>1, <3>1 DEF NoFight, Fight
        <5> QED BY <5>2
      <4> QED BY <4>1, <4>2
    <3> QED BY <1>2, <1>3, <1>4, <3>1, <3>2 DEF FightInv, Emptied
  <2> QED BY <2>1, <1>3
<1>6. Membership(w2) /\ Presence(w2, h)
  <2>1. Membership(w) /\ Presence(w, h)
    BY DEF WarInv
  <2>2. \A k \in Fights : Combatants(w2.fight[k]) = Combatants(w.fight[k])
    BY <1>3, <1>4
  <2> QED BY <2>1, <2>2, <1>3 DEF Membership, Presence
<1>7. WarInv(w2, l, h, a2)
  <2>1. \A k \in Fights \ {g} :
            /\ w2.fight[k] = w.fight[k]
            /\ (k \in w2.due <=> k \in w.due) /\ (k \in w2.dead <=> k \in w.dead)
            /\ \A o \in Loot : l[o] = k <=> l[o] = k
            /\ w.fight[k].turn \intersect a2 = {}
    BY <1>3
  <2>2. w2 \in War
    BY <1>3
  <2> HIDE DEF f
  <2>3. /\ WarInv(w, l, h, a) /\ l \in [Loot -> Fights \union {None}] /\ g \in Fights
    BY <1>1
  <2> QED BY ONLY <1>5, <1>6, <2>1, <2>2, <2>3, OneChanges
<1>8. Quiet(w, w2)
  BY <1>3 DEF Quiet
<1> QED BY <1>7, <1>8

LEMMA CombatReadyInv ==
    ASSUME NEW w, NEW l, NEW h, NEW a, WarInv(w, l, h, a),
           NEW c \in Chars, w.in[c] # None
    PROVE  WarInv(CombatReady(w, c), l, h, a) /\ Quiet(w, CombatReady(w, c))
<1> DEFINE g == w.in[c]
           f2 == [w.fight[g] EXCEPT !.begin = @ \ {c}]
<1>1. g \in Fights /\ w.fight[g] \in Fight
  BY Fighter, FightFields DEF WarInv
<1>2. /\ f2 \in Fight /\ f2.live = w.fight[g].live /\ f2.cloud = w.fight[g].cloud
      /\ f2.round = w.fight[g].round /\ f2.objects = w.fight[g].objects
      /\ f2.attackers = w.fight[g].attackers /\ f2.defenders = w.fight[g].defenders
      /\ f2.begin \subseteq w.fight[g].begin /\ f2.turn = w.fight[g].turn
  BY <1>1 DEF Fight
<1>3. \A k \in Fights : w.fight[k].turn \intersect a = {}
  BY DEF WarInv, FightInv
<1>4. /\ CombatReady(w, c) \in War /\ CombatReady(w, c).in = w.in
      /\ CombatReady(w, c).dead = w.dead
      /\ CombatReady(w, c).due = IF Emptied(w.fight[g], f2) THEN w.due \union {g} ELSE w.due
      /\ CombatReady(w, c).fight = [w.fight EXCEPT ![g] = f2]
  <2> DEFINE d == IF Emptied(w.fight[g], f2) THEN w.due \union {g} ELSE w.due
  <2>1. CombatReady(w, c) = [w EXCEPT !.fight[g] = f2, !.due = d]
    BY DEF CombatReady
  <2> DEFINE W == CombatReady(w, c)
  <2>2. w \in War /\ d \in SUBSET Fights
    BY <1>1 DEF WarInv, War
  <2> HIDE DEF g, f2
  <2>3. d = IF Emptied(w.fight[g], f2) THEN w.due \union {g} ELSE w.due
    OBVIOUS
  <2>4. W = [w EXCEPT !.fight[g] = f2, !.due = d]
    BY <2>1
  <2> HIDE DEF d, W
  <2>5. f2 \in Fight /\ g \in Fights
    BY <1>1, <1>2
  <2>6. /\ W \in War /\ W.in = w.in /\ W.dead = w.dead /\ W.due = d
        /\ W.fight = [w.fight EXCEPT ![g] = f2]
    BY <2>2, <2>4, <2>5 DEF War
  <2> QED BY <2>3, <2>6 DEF W
<1>5. f2.turn \subseteq w.fight[g].turn /\ f2.turn \intersect a = {}
  BY <1>1, <1>2, <1>3
<1> HIDE DEF g, f2
<1> QED BY <1>1, <1>2, <1>3, <1>4, <1>5, PendingShrinks

\* The one that is ready has chosen its action.
LEMMA TurnReadyInv ==
    ASSUME NEW w, NEW l, NEW h, NEW a, WarInv(w, l, h, a),
           NEW c \in Chars, w.in[c] # None
    PROVE  WarInv(TurnReady(w, c), l, h, a \union {c}) /\ Quiet(w, TurnReady(w, c))
<1> DEFINE g == w.in[c]
           f2 == [w.fight[g] EXCEPT !.turn = @ \ {c}]
           a2 == a \union {c}
<1>1. g \in Fights /\ w.fight[g] \in Fight
  BY Fighter, FightFields DEF WarInv
<1>2. /\ f2 \in Fight /\ f2.live = w.fight[g].live /\ f2.cloud = w.fight[g].cloud
      /\ f2.round = w.fight[g].round /\ f2.objects = w.fight[g].objects
      /\ f2.attackers = w.fight[g].attackers /\ f2.defenders = w.fight[g].defenders
      /\ f2.begin = w.fight[g].begin /\ f2.turn = w.fight[g].turn \ {c}
  BY <1>1 DEF Fight
<1>3. \A k \in Fights : w.fight[k].turn \intersect a = {}
  BY DEF WarInv, FightInv
<1>4. /\ TurnReady(w, c) \in War /\ TurnReady(w, c).in = w.in
      /\ TurnReady(w, c).dead = w.dead
      /\ TurnReady(w, c).due = IF Emptied(w.fight[g], f2) THEN w.due \union {g} ELSE w.due
      /\ TurnReady(w, c).fight = [w.fight EXCEPT ![g] = f2]
  <2> DEFINE d == IF Emptied(w.fight[g], f2) THEN w.due \union {g} ELSE w.due
  <2>1. TurnReady(w, c) = [w EXCEPT !.fight[g] = f2, !.due = d]
    BY DEF TurnReady
  <2> DEFINE W == TurnReady(w, c)
  <2>2. w \in War /\ d \in SUBSET Fights
    BY <1>1 DEF WarInv, War
  <2> HIDE DEF g, f2
  <2>3. d = IF Emptied(w.fight[g], f2) THEN w.due \union {g} ELSE w.due
    OBVIOUS
  <2>4. W = [w EXCEPT !.fight[g] = f2, !.due = d]
    BY <2>1
  <2> HIDE DEF d, W
  <2>5. f2 \in Fight /\ g \in Fights
    BY <1>1, <1>2
  <2>6. /\ W \in War /\ W.in = w.in /\ W.dead = w.dead /\ W.due = d
        /\ W.fight = [w.fight EXCEPT ![g] = f2]
    BY <2>2, <2>4, <2>5 DEF War
  <2> QED BY <2>3, <2>6 DEF W
<1>5. f2.begin \subseteq w.fight[g].begin /\ f2.turn \subseteq w.fight[g].turn
      /\ f2.turn \intersect a2 = {}
  BY <1>1, <1>2, <1>3
<1>6. \A k \in Fights \ {g} : w.fight[k].turn \intersect a2 = {}
  BY <1>3, Fighter
<1> HIDE DEF g, f2, a2
<1>7. WarInv(TurnReady(w, c), l, h, a2) /\ Quiet(w, TurnReady(w, c))
  <2> DEFINE w2 == TurnReady(w, c)
  <2>1. /\ w2 \in War /\ w2.in = w.in /\ w2.dead = w.dead
        /\ w2.due = IF Emptied(w.fight[g], f2) THEN w.due \union {g} ELSE w.due
        /\ w2.fight = [w.fight EXCEPT ![g] = f2]
    BY <1>4
  <2> HIDE DEF w2
  <2>2. WarInv(w, l, h, a) /\ g \in Fights
    BY <1>1
  <2>3. WarInv(w2, l, h, a2) /\ Quiet(w, w2)
    BY ONLY <1>2, <1>5, <1>6, <2>1, <2>2, PendingShrinks
  <2> QED BY <2>3 DEF w2
<1> QED BY <1>7 DEF a2

LEMMA ExitCombatInv ==
    ASSUME NEW w, NEW l, NEW h, NEW a, WarInv(w, l, h, a), NEW c \in Chars
    PROVE  WarInv(ExitCombat(w, c), l, h, a) /\ Quiet(w, ExitCombat(w, c))
<1>1. Quiet(w, w)
  BY DEF Quiet
<1> QED BY <1>1, DeleteInv DEF ExitCombat

-----------------------------------------------------------------------------
(* Objects of a fight. *)

\* f2 is f but for its objects
AlikeBut(f, f2) ==
    /\ f2.live = f.live /\ f2.cloud = f.cloud /\ f2.round = f.round
    /\ f2.attackers = f.attackers /\ f2.defenders = f.defenders
    /\ f2.begin = f.begin /\ f2.turn = f.turn

\* w2 is w with f2 at g
Replaces(w, g, f2, w2) ==
    /\ w2 \in War /\ w2.in = w.in /\ w2.due = w.due /\ w2.dead = w.dead
    /\ w2.fight = [w.fight EXCEPT ![g] = f2]

\* What lies in a fight changes as the fight's own list does.
LEMMA ObjectsInv ==
    ASSUME NEW w, NEW l, NEW h, NEW a, WarInv(w, l, h, a),
           NEW g \in Fights, w.fight[g].live, NEW f2 \in Fight,
           AlikeBut(w.fight[g], f2), NEW w2, Replaces(w, g, f2, w2),
           NEW l2 \in [Loot -> Fights \union {None}],
           \A o \in Loot : l2[o] = g <=> o \in f2.objects,
           \A k \in Fights \ {g}, o \in Loot : l2[o] = k <=> l[o] = k
    PROVE  WarInv(w2, l2, h, a) /\ w2.in = w.in /\ Quiet(w, w2)
<1> USE DEF AlikeBut, Replaces
<1> DEFINE f == w.fight[g]
<1>1. w \in War /\ f \in Fight
  BY FightFields DEF WarInv
<1>2. FightInv(f, g, w, l, a)
  BY DEF WarInv
<1>3. f2.objects \subseteq Loot
  BY DEF Fight
<1>4. w2.fight[g] = f2 /\ \A k \in Fights \ {g} : w2.fight[k] = w.fight[k]
  BY <1>1 DEF War
<1>5. Combatants(f2) = Combatants(f)
  BY DEF Combatants
<1>6. FightInv(w2.fight[g], g, w2, l2, a)
  <2>1. FightInv(f2, g, w2, l2, a)
    BY <1>2, <1>3, <1>4, <1>5 DEF FightInv
  <2> QED BY <1>4, <2>1
<1>7. Membership(w2) /\ Presence(w2, h)
  <2>1. Membership(w) /\ Presence(w, h)
    BY DEF WarInv
  <2>2. \A k \in Fights : Combatants(w2.fight[k]) = Combatants(w.fight[k])
    BY <1>4, <1>5
  <2> QED BY <2>1, <2>2, <1>4 DEF Membership, Presence
<1>8. WarInv(w2, l2, h, a)
  <2>1. \A k \in Fights \ {g} :
            /\ w2.fight[k] = w.fight[k]
            /\ (k \in w2.due <=> k \in w.due) /\ (k \in w2.dead <=> k \in w.dead)
            /\ \A o \in Loot : l2[o] = k <=> l[o] = k
            /\ w.fight[k].turn \intersect a = {}
    BY <1>4 DEF WarInv, FightInv
  <2>2. /\ WarInv(w, l, h, a) /\ w2 \in War /\ g \in Fights
        /\ l2 \in [Loot -> Fights \union {None}]
    BY <1>4
  <2> QED BY ONLY <1>6, <1>7, <2>1, <2>2, OneChanges
<1>9. Quiet(w, w2)
  BY <1>3, <1>4 DEF Quiet
<1> QED BY <1>4, <1>8, <1>9

WithObjects(w, g, O) == [w EXCEPT !.fight[g].objects = O]

LEMMA WithObjectsFields ==
    ASSUME NEW w \in War, NEW g \in Fights, NEW O \in SUBSET Loot
    PROVE  LET w2 == WithObjects(w, g, O)
           IN  \E f2 \in Fight :
                   f2.objects = O /\ AlikeBut(w.fight[g], f2) /\ Replaces(w, g, f2, w2)
<1> DEFINE f == w.fight[g]
           f2 == [f EXCEPT !.objects = O]
           w2 == WithObjects(w, g, O)
<1>1. f \in Fight
  BY FightFields
<1>2. /\ f2 \in Fight /\ f2.live = f.live /\ f2.cloud = f.cloud /\ f2.round = f.round
      /\ f2.objects = O /\ f2.attackers = f.attackers /\ f2.defenders = f.defenders
      /\ f2.begin = f.begin /\ f2.turn = f.turn
  <2> HIDE DEF f
  <2> QED BY <1>1 DEF Fight
<1>3. w2 = [w EXCEPT !.fight[g] = f2]
  BY DEF WithObjects
<1>4. /\ w2 \in War /\ w2.in = w.in /\ w2.due = w.due /\ w2.dead = w.dead
      /\ w2.fight = [w.fight EXCEPT ![g] = f2]
  <2> HIDE DEF f2, w2
  <2> QED BY <1>2, <1>3 DEF War
<1> HIDE DEF f2, w2
<1>5. f = w.fight[g]
  OBVIOUS
<1>6. f2.objects = O /\ AlikeBut(w.fight[g], f2) /\ Replaces(w, g, f2, w2)
  BY <1>2, <1>4, <1>5 DEF AlikeBut, Replaces
<1> QED BY <1>2, <1>6 DEF w2

LEMMA DroppedInv ==
    ASSUME NEW w, NEW l, NEW h, NEW a, WarInv(w, l, h, a),
           NEW c \in Chars, w.in[c] # None, NEW o \in Loot, l[o] = None
    PROVE  /\ WarInv(Dropped(w, c, o), [l EXCEPT ![o] = w.in[c]], h, a)
           /\ Dropped(w, c, o).in = w.in /\ Quiet(w, Dropped(w, c, o))
<1> DEFINE g == w.in[c]
           O == w.fight[g].objects \union {o}
           l2 == [l EXCEPT ![o] = g]
<1>1. g \in Fights /\ w.fight[g].live
  BY Fighter
<1>2. \A k \in Fights : FightInv(w.fight[k], k, w, l, a)
  BY DEF WarInv
<1>3. O \in SUBSET Loot /\ l \in [Loot -> Fights \union {None}] /\ None \notin Fights
  BY <1>1, FightFields, CombatConstants DEF WarInv
<1>4. /\ l2 \in [Loot -> Fights \union {None}]
      /\ l2[o] = g /\ \A x \in Loot \ {o} : l2[x] = l[x]
  BY <1>1, <1>3
<1>5. \A x \in Loot : l2[x] = g <=> x \in O
  BY <1>1, <1>2, <1>4 DEF FightInv
<1>6. \A k \in Fights \ {g}, x \in Loot : l2[x] = k <=> l[x] = k
  BY <1>3, <1>4
<1> DEFINE w2 == Dropped(w, c, o)
<1>7. w2 = WithObjects(w, g, O)
  BY DEF Dropped, WithObjects
<1> HIDE DEF g, O, l2, w2
<1>8. PICK f2 \in Fight :
        f2.objects = O /\ AlikeBut(w.fight[g], f2) /\ Replaces(w, g, f2, w2)
  <2>1. w \in War
    BY DEF WarInv
  <2> QED BY ONLY <2>1, <1>1, <1>3, <1>7, WithObjectsFields
<1>9. WarInv(w2, l2, h, a) /\ w2.in = w.in /\ Quiet(w, w2)
  <2>1. WarInv(w, l, h, a)
    OBVIOUS
  <2>2. \A x \in Loot : l2[x] = g <=> x \in f2.objects
    BY <1>5, <1>8
  <2>3. f2 \in Fight
    OBVIOUS
  <2> QED BY ONLY <2>1, <2>2, <2>3, <1>1, <1>4, <1>6, <1>8, ObjectsInv
<1> QED BY <1>9 DEF w2, l2, g

LEMMA PickedUpInv ==
    ASSUME NEW w, NEW l, NEW h, NEW a, WarInv(w, l, h, a),
           NEW c \in Chars, w.in[c] # None, NEW o \in Loot, l[o] = w.in[c],
           NEW w2, w2 = [w EXCEPT !.fight[w.in[c]].objects = @ \ {o}]
    PROVE  WarInv(w2, [l EXCEPT ![o] = None], h, a) /\ Quiet(w, w2)
<1> DEFINE g == w.in[c]
           O == w.fight[g].objects \ {o}
           l2 == [l EXCEPT ![o] = None]
<1>1. g \in Fights /\ w.fight[g].live
  BY Fighter
<1>2. \A k \in Fights : FightInv(w.fight[k], k, w, l, a)
  BY DEF WarInv
<1>3. O \in SUBSET Loot /\ l \in [Loot -> Fights \union {None}] /\ None \notin Fights
  BY <1>1, FightFields, CombatConstants DEF WarInv
<1>4. /\ l2 \in [Loot -> Fights \union {None}]
      /\ l2[o] = None /\ \A x \in Loot \ {o} : l2[x] = l[x]
  BY <1>3
<1>5. \A x \in Loot : l2[x] = g <=> x \in O
  BY <1>1, <1>2, <1>3, <1>4 DEF FightInv
<1>6. \A k \in Fights \ {g}, x \in Loot : l2[x] = k <=> l[x] = k
  BY <1>3, <1>4
<1>7. w2 = WithObjects(w, g, O)
  BY DEF WithObjects
<1> HIDE DEF g, O, l2
<1>8. PICK f2 \in Fight :
        f2.objects = O /\ AlikeBut(w.fight[g], f2) /\ Replaces(w, g, f2, w2)
  <2>1. w \in War
    BY DEF WarInv
  <2> QED BY ONLY <2>1, <1>1, <1>3, <1>7, WithObjectsFields
<1>9. WarInv(w2, l2, h, a) /\ Quiet(w, w2)
  <2>1. WarInv(w, l, h, a)
    OBVIOUS
  <2>2. \A x \in Loot : l2[x] = g <=> x \in f2.objects
    BY <1>5, <1>8
  <2>3. f2 \in Fight
    OBVIOUS
  <2> QED BY ONLY <2>1, <2>2, <2>3, <1>1, <1>4, <1>6, <1>8, ObjectsInv
<1> QED BY <1>9 DEF l2

-----------------------------------------------------------------------------
(* Fights are deleted: all that nobody is in, or all of a room. *)

LEMMA DeletedInv ==
    ASSUME NEW w, NEW l, NEW h, NEW a, WarInv(w, l, h, a),
           NEW D \in SUBSET Fights, NEW h2,
           \A c \in Chars : w.in[c] = None \/ w.in[c] \in D \/ c \in h2
    PROVE  WarInv(Deleted(w, D), Released(w, l, D), h2, a)
           /\ StepInv(w, Deleted(w, D), Released(w, l, D))
<1> DEFINE w2 == Deleted(w, D)
           l2 == Released(w, l, D)
<1>1. /\ w \in War /\ l \in [Loot -> Fights \union {None}] /\ None \notin Fights
      /\ Membership(w) /\ \A k \in Fights : FightInv(w.fight[k], k, w, l, a)
  BY CombatConstants DEF WarInv
<1>2. /\ w2 \in War /\ w2.due = w.due /\ w2.dead = w.dead \ D
      /\ \A c \in Chars : w2.in[c] = IF w.in[c] \in D THEN None ELSE w.in[c]
      /\ \A k \in Fights : w2.fight[k] = IF k \in D THEN NoFight ELSE w.fight[k]
  BY <1>1, NoFightFields DEF Deleted, War
<1>3. /\ l2 \in [Loot -> Fights \union {None}]
      /\ \A o \in Loot : l2[o] = IF \E g \in D : w.fight[g].cloud /\ o \in w.fight[g].objects
                                 THEN None ELSE l[o]
  BY <1>1 DEF Released
<1> HIDE DEF w2, l2
<1>4. \A k \in Fights \ D : \A o \in Loot : l2[o] = k <=> l[o] = k
  BY <1>1, <1>3 DEF FightInv
<1>5. Membership(w2) /\ Presence(w2, h2)
  BY <1>1, <1>2, NoFightFields DEF Membership, Presence
<1>6. ASSUME NEW k \in Fights PROVE FightInv(w2.fight[k], k, w2, l2, a)
  <2>1. CASE k \in D
    <3>1. w2.fight[k] = NoFight /\ k \notin w2.dead
      BY <1>2, <2>1
    <3>2. FightInv(NoFight, k, w2, l2, a)
      BY <3>1 DEF FightInv, NoFight, Combatants
    <3> QED BY <3>1, <3>2
  <2>2. CASE k \notin D
    <3>1. w2.fight[k] = w.fight[k] /\ (k \in w2.dead <=> k \in w.dead)
      BY <1>2, <2>2
    <3>2. FightInv(w.fight[k], k, w, l, a) /\ w.fight[k].objects \subseteq Loot
      BY <1>1, FightFields
    <3>3. FightInv(w.fight[k], k, w2, l2, a)
      BY <1>2, <1>4, <2>2, <3>1, <3>2 DEF FightInv
    <3> QED BY <3>1, <3>3
  <2> QED BY <2>1, <2>2
<1>7. WarInv(w2, l2, h2, a)
  BY <1>2, <1>3, <1>5, <1>6 DEF WarInv
<1>8. StepInv(w, w2, l2)
  <2>1. \A k \in Fights : w.fight[k].cloud => w.fight[k].live
    BY <1>1, NoFightFields DEF FightInv
  <2>2. \A k \in Fights : w.fight[k].round \in Int /\ w.fight[k].round >= 0
    BY <1>1, FightFields, CombatConstants
  <2>3. ASSUME NEW k \in Fights, w.fight[k].cloud, ~w2.fight[k].live, NEW o \in Loot
        PROVE  l2[o] # k
    BY <1>1, <1>2, <1>3, <2>1, <2>3 DEF FightInv
  <2>4. ASSUME NEW k \in Fights PROVE ~(w2.fight[k].round > w.fight[k].round)
    BY <1>2, <2>2, NoFightFields
  <2> QED BY <2>3, <2>4 DEF StepInv
<1> QED BY <1>7, <1>8 DEF w2, l2

-----------------------------------------------------------------------------
(* A fight starts, where no fight was. *)

Started(w, g, A, D, cloud, begin) ==
    [w EXCEPT
       !.in = [c \in Chars |-> IF c \in A \union D THEN g ELSE @[c]],
       !.fight[g] = [NoFight EXCEPT !.live = TRUE, !.cloud = cloud,
                       !.attackers = A, !.defenders = D, !.begin = begin],
       !.due = IF cloud /\ begin = {} THEN @ \union {g} ELSE @]

\* what that makes of the fields of w
StartedAs(w, g, A, D, cloud, begin, w2) ==
    /\ w2 \in War /\ w2.dead = w.dead
    /\ w2.due = IF cloud /\ begin = {} THEN w.due \union {g} ELSE w.due
    /\ \A c \in Chars : w2.in[c] = IF c \in A \union D THEN g ELSE w.in[c]
    /\ \A k \in Fights \ {g} : w2.fight[k] = w.fight[k]
    /\ LET f2 == w2.fight[g]
       IN  /\ f2.live = TRUE /\ f2.cloud = cloud /\ f2.attackers = A /\ f2.defenders = D
           /\ f2.begin = begin /\ f2.turn = {} /\ f2.round = 0 /\ f2.objects = {}

LEMMA StartedFields ==
    ASSUME NEW w \in War, NEW g \in Fights, NEW A \in SUBSET Chars, NEW D \in SUBSET Chars,
           NEW cloud \in BOOLEAN, NEW begin \in SUBSET Chars
    PROVE  StartedAs(w, g, A, D, cloud, begin, Started(w, g, A, D, cloud, begin))
<1> DEFINE f2 == [NoFight EXCEPT !.live = TRUE, !.cloud = cloud,
                    !.attackers = A, !.defenders = D, !.begin = begin]
           in2 == [c \in Chars |-> IF c \in A \union D THEN g ELSE w.in[c]]
           due2 == IF cloud /\ begin = {} THEN w.due \union {g} ELSE w.due
           w2 == Started(w, g, A, D, cloud, begin)
<1>1. /\ f2 \in Fight /\ f2.live = TRUE /\ f2.cloud = cloud
      /\ f2.attackers = A /\ f2.defenders = D
      /\ f2.begin = begin /\ f2.turn = {} /\ f2.round = 0 /\ f2.objects = {}
  <2>1. NoFight \in Fight
    BY NoFightFields
  <2>2. /\ f2 \in Fight /\ f2.live = TRUE /\ f2.cloud = cloud
        /\ f2.attackers = A /\ f2.defenders = D
        /\ f2.begin = begin /\ f2.turn = NoFight.turn
        /\ f2.round = NoFight.round /\ f2.objects = NoFight.objects
    BY <2>1 DEF Fight
  <2>3. NoFight.turn = {} /\ NoFight.round = 0 /\ NoFight.objects = {}
    BY DEF NoFight
  <2> QED BY <2>2, <2>3
<1>2. in2 \in [Chars -> Fights \union {None}]
  BY DEF War
<1>3. due2 \in SUBSET Fights
  BY DEF War
<1>4. w2 = [w EXCEPT !.in = in2, !.fight[g] = f2, !.due = due2]
  BY DEF Started
<1>5. /\ w2 \in War /\ w2.dead = w.dead /\ w2.due = due2 /\ w2.in = in2
      /\ w2.fight = [w.fight EXCEPT ![g] = f2]
  <2> HIDE DEF in2, f2, due2, w2
  <2> QED BY <1>1, <1>2, <1>3, <1>4 DEF War
<1>6. w2.fight[g] = f2 /\ \A k \in Fights \ {g} : w2.fight[k] = w.fight[k]
  <2> HIDE DEF in2, f2, due2, w2
  <2> QED BY <1>5 DEF War
<1> HIDE DEF f2, w2
<1>7. \A c \in Chars : w2.in[c] = IF c \in A \union D THEN g ELSE w.in[c]
  BY <1>5
<1>8. w2.due = IF cloud /\ begin = {} THEN w.due \union {g} ELSE w.due
  BY <1>5
<1> QED BY <1>1, <1>5, <1>6, <1>7, <1>8 DEF w2, StartedAs

LEMMA StartedInv ==
    ASSUME NEW w, NEW l, NEW h, NEW a, WarInv(w, l, h, a),
           NEW A \in SUBSET Chars, NEW D \in SUBSET Chars, A \intersect D = {},
           \A c \in A \union D : w.in[c] = None /\ c \in h,
           NEW cloud \in BOOLEAN, NEW begin \in SUBSET (A \union D),
           NEW g \in Fights, ~w.fight[g].live, g \notin w.due, g \notin w.dead,
           \A o \in Loot : l[o] # g
    PROVE  /\ WarInv(Started(w, g, A, D, cloud, begin), l, h, a)
           /\ StepInv(w, Started(w, g, A, D, cloud, begin), l)
<1> DEFINE w2 == Started(w, g, A, D, cloud, begin)
           f2 == w2.fight[g]
<1>1. /\ w \in War /\ l \in [Loot -> Fights \union {None}] /\ None \notin Fights
      /\ Membership(w) /\ Presence(w, h)
  BY CombatConstants DEF WarInv
<1>2. /\ w2 \in War /\ w2.dead = w.dead
      /\ w2.due = IF cloud /\ begin = {} THEN w.due \union {g} ELSE w.due
      /\ \A c \in Chars : w2.in[c] = IF c \in A \union D THEN g ELSE w.in[c]
      /\ \A k \in Fights \ {g} : w2.fight[k] = w.fight[k]
      /\ f2.live = TRUE /\ f2.cloud = cloud /\ f2.attackers = A /\ f2.defenders = D
      /\ f2.begin = begin /\ f2.turn = {} /\ f2.round = 0 /\ f2.objects = {}
  <2>1. begin \in SUBSET Chars
    OBVIOUS
  <2>2. StartedAs(w, g, A, D, cloud, begin, w2)
    BY <1>1, <2>1, StartedFields
  <2> HIDE DEF w2
  <2> QED BY <2>2 DEF StartedAs
<1>3. w.fight[g] = NoFight
  BY DEF WarInv, FightInv
<1> HIDE DEF w2
<1>4. Combatants(f2) = A \union D
  BY <1>2 DEF Combatants
<1>5. FightInv(f2, g, w2, l, a)
  <2> HIDE DEF f2
  <2> QED BY <1>2, <1>4 DEF FightInv
<1>6. Membership(w2) /\ Presence(w2, h)
  <2>1. Presence(w2, h)
    BY <1>1, <1>2 DEF Presence
  <2>2. ASSUME NEW c \in Chars, NEW k \in Fights
        PROVE  c \in Combatants(w2.fight[k]) <=> w2.in[c] = k
    <3>1. c \in Combatants(w.fight[k]) <=> w.in[c] = k
      BY <1>1 DEF Membership
    <3>2. CASE k = g
      BY <1>2, <1>3, <1>4, <3>1, <3>2, NoFightFields
    <3>3. CASE k # g
      BY <1>1, <1>2, <3>1, <3>3
    <3> QED BY <3>2, <3>3
  <2> QED BY <2>1, <2>2 DEF Membership
<1>7. WarInv(w2, l, h, a)
  <2>1. \A k \in Fights \ {g} :
            /\ w2.fight[k] = w.fight[k]
            /\ (k \in w2.due <=> k \in w.due) /\ (k \in w2.dead <=> k \in w.dead)
            /\ \A o \in Loot : l[o] = k <=> l[o] = k
            /\ w.fight[k].turn \intersect a = {}
    BY <1>2 DEF WarInv, FightInv
  <2>2. /\ WarInv(w, l, h, a) /\ w2 \in War /\ g \in Fights
        /\ l \in [Loot -> Fights \union {None}]
    BY <1>1, <1>2
  <2>3. FightInv(w2.fight[g], g, w2, l, a)
    BY <1>5
  <2> QED BY ONLY <1>6, <2>1, <2>2, <2>3, OneChanges
<1>8. StepInv(w, w2, l)
  <2>1. \A k \in Fights : w.fight[k].cloud => w.fight[k].live
    BY NoFightFields DEF WarInv, FightInv
  <2>2. \A k \in Fights : w.fight[k].round \in Int
    BY <1>1, FightFields, CombatConstants
  <2>3. ASSUME NEW k \in Fights PROVE ~(w2.fight[k].round > w.fight[k].round)
    BY <1>2, <1>3, <2>2, NoFightFields
  <2>4. ASSUME NEW k \in Fights, w.fight[k].cloud PROVE w2.fight[k].live
    BY <1>2, <2>1, <2>4
  <2> QED BY <2>3, <2>4 DEF StepInv
<1> QED BY <1>7, <1>8 DEF w2

-----------------------------------------------------------------------------
(* A round. *)

\* w2 is w after a round of the fight g, that has become f, fled have left and
\* gone leave for want of an enemy
RoundDone(w, g, f, gone, fled, w2) ==
    LET f2 == w2.fight[g]
        rest == Combatants(f) \ gone
    IN  /\ w2 \in War
        /\ \A c \in Chars : w2.in[c] = IF c \in rest THEN g
                                       ELSE IF c \in fled \union gone THEN None ELSE w.in[c]
        /\ \A k \in Fights \ {g} : w2.fight[k] = w.fight[k]
        /\ f2.live = f.live /\ f2.cloud = f.cloud
        /\ f2.attackers = f.attackers \ gone /\ f2.defenders = f.defenders \ gone
        /\ f2.begin = f.begin /\ f2.turn = rest \intersect Players
        /\ f2.round = f.round + 1 /\ f2.objects = f.objects
        /\ w2.due = IF rest # {} /\ rest \subseteq Npcs THEN w.due \union {g} ELSE w.due \ {g}
        /\ w2.dead = IF rest = {} THEN w.dead \union {g} ELSE w.dead

LEMMA NextRoundFields ==
    ASSUME NEW w \in War, NEW g \in Fights, NEW f \in Fight, f.round < MaxRounds,
           NEW live, NEW fled, NEW early
    PROVE  RoundDone(w, g, f, Idle(f, live, early), fled, NextRound(w, g, f, live, fled, early))
<1> DEFINE gone == Idle(f, live, early)
           rest == Combatants(f) \ gone
           f2 == [f EXCEPT !.attackers = @ \ gone, !.defenders = @ \ gone,
                           !.turn = rest \intersect Players, !.round = @ + 1]
           in2 == [c \in Chars |-> IF c \in rest THEN g
                                   ELSE IF c \in fled \union gone THEN None ELSE w.in[c]]
           due2 == IF rest # {} /\ rest \subseteq Npcs THEN w.due \union {g} ELSE w.due \ {g}
           dead2 == IF rest = {} THEN w.dead \union {g} ELSE w.dead
           w2 == NextRound(w, g, f, live, fled, early)
<1>1. rest \subseteq Chars
  BY DEF Combatants, Fight
<1>2. f.round \in Nat /\ f.round + 1 \in 0 .. MaxRounds
  BY CombatConstants DEF Fight
<1>3. /\ f2 \in Fight /\ f2.live = f.live /\ f2.cloud = f.cloud
      /\ f2.attackers = f.attackers \ gone /\ f2.defenders = f.defenders \ gone
      /\ f2.begin = f.begin /\ f2.turn = rest \intersect Players
      /\ f2.round = f.round + 1 /\ f2.objects = f.objects
  <2> HIDE DEF gone, rest
  <2> QED BY <1>1, <1>2 DEF Fight
<1>4. in2 \in [Chars -> Fights \union {None}] /\ due2 \in SUBSET Fights /\ dead2 \in SUBSET Fights
  <2> HIDE DEF gone, rest
  <2> QED BY DEF War
<1>5. w2 = [w EXCEPT !.in = in2, !.fight[g] = f2, !.due = due2, !.dead = dead2]
  BY DEF NextRound
<1>6. /\ w2 \in War /\ w2.in = in2 /\ w2.due = due2 /\ w2.dead = dead2
      /\ w2.fight = [w.fight EXCEPT ![g] = f2]
  <2> HIDE DEF in2, f2, due2, dead2, w2
  <2> QED BY <1>3, <1>4, <1>5 DEF War
<1>7. w2.fight[g] = f2 /\ \A k \in Fights \ {g} : w2.fight[k] = w.fight[k]
  <2> HIDE DEF in2, f2, due2, dead2, w2
  <2> QED BY <1>6 DEF War
<1> HIDE DEF f2, w2, gone
<1>8. \A c \in Chars : w2.in[c] = IF c \in rest THEN g
                                   ELSE IF c \in fled \union gone THEN None ELSE w.in[c]
  BY <1>6
<1>9. /\ w2.due = IF rest # {} /\ rest \subseteq Npcs THEN w.due \union {g} ELSE w.due \ {g}
      /\ w2.dead = IF rest = {} THEN w.dead \union {g} ELSE w.dead
  BY <1>6
<1>10. RoundDone(w, g, f, gone, fled, w2)
  BY <1>3, <1>6, <1>7, <1>8, <1>9 DEF RoundDone
<1> QED BY <1>10 DEF w2, gone

\* f is what the fight f0 is after the actions of a round
Follows(f0, f, flee, summon) ==
    /\ f \in Fight /\ (f.live <=> f0.live) /\ (f.cloud <=> f0.cloud)
    /\ f.round = f0.round /\ f.begin = f0.begin
    /\ f.attackers \intersect f.defenders = {}
    /\ Combatants(f) = (Combatants(f0) \ flee) \union summon

\* l2 are the objects l, with O in the fight g
LiesIn(l, g, O, l2) ==
    /\ l2 \in [Loot -> Fights \union {None}]
    /\ \A o \in Loot : l2[o] = g <=> o \in O
    /\ \A k \in Fights \ {g}, o \in Loot : l2[o] = k <=> l[o] = k

LEMMA RoundInv ==
    ASSUME NEW w, NEW l, NEW h, NEW a, WarInv(w, l, h, a),
           NEW g \in Fights, g \in w.due, w.fight[g].live, w.fight[g].cloud,
           w.fight[g].round < MaxRounds,
           NEW f, NEW fled, NEW summon, Follows(w.fight[g], f, fled, summon),
           fled \subseteq Combatants(w.fight[g]),
           summon \subseteq Npcs, summon \intersect h = {},
           Combatants(w.fight[g]) = {} => summon = {},
           NEW gone, gone \subseteq Combatants(f),
           NEW l2, LiesIn(l, g, f.objects, l2),
           NEW w2, RoundDone(w, g, f, gone, fled, w2)
    PROVE  /\ WarInv(w2, l2, h \union summon, a \ Combatants(w.fight[g]))
           /\ StepInv(w, w2, l2)
<1> DEFINE f2 == w2.fight[g]
           rest == Combatants(f) \ gone
           a2 == a \ Combatants(w.fight[g])
           h2 == h \union summon
<1>0. /\ f \in Fight /\ f.live /\ f.cloud /\ f.round = w.fight[g].round
      /\ f.begin = w.fight[g].begin /\ f.attackers \intersect f.defenders = {}
      /\ Combatants(f) = (Combatants(w.fight[g]) \ fled) \union summon
  BY DEF Follows
<1> USE DEF LiesIn
<1>1. /\ w \in War /\ None \notin Fights /\ Players \intersect Npcs = {}
      /\ Membership(w) /\ Presence(w, h) /\ FightInv(w.fight[g], g, w, l, a)
  BY CombatConstants DEF WarInv
<1>2. /\ w2 \in War
      /\ \A c \in Chars : w2.in[c] = IF c \in rest THEN g
                                     ELSE IF c \in fled \union gone THEN None ELSE w.in[c]
      /\ \A k \in Fights \ {g} : w2.fight[k] = w.fight[k]
      /\ f2.live /\ f2.cloud
      /\ f2.attackers = f.attackers \ gone /\ f2.defenders = f.defenders \ gone
      /\ f2.begin = f.begin /\ f2.turn = rest \intersect Players
      /\ f2.round = f.round + 1 /\ f2.objects = f.objects
      /\ w2.due = IF rest # {} /\ rest \subseteq Npcs THEN w.due \union {g} ELSE w.due \ {g}
      /\ w2.dead = IF rest = {} THEN w.dead \union {g} ELSE w.dead
  BY <1>0 DEF RoundDone
<1>3. w.fight[g].begin = {} /\ w.fight[g].turn = {}
  BY <1>1 DEF FightInv
<1>4. Combatants(f2) = rest
  BY <1>2 DEF Combatants
<1>5. f.objects \subseteq Loot /\ f.round \in Int
  BY <1>0, CombatConstants DEF Fight
<1>6. rest \intersect Players \subseteq Combatants(w.fight[g])
  BY <1>0, <1>1
<1>7. FightInv(f2, g, w2, l2, a2)
  <2>1. g \in w2.dead => rest = {}
    BY <1>0, <1>1, <1>2 DEF FightInv
  <2>2. rest \subseteq Npcs => f2.turn = {}
    BY <1>1, <1>2
  <2>3. rest # {} /\ f2.turn = {} => rest \subseteq Npcs
    <3>1. rest \subseteq Chars
      BY <1>0 DEF Combatants, Fight
    <3> QED BY <1>2, <3>1 DEF Chars
  <2>4. f2.turn \intersect a2 = {}
    BY <1>2, <1>6
  <2> HIDE DEF f2, rest, a2
  <2> QED BY <1>0, <1>2, <1>3, <1>4, <1>5, <2>1, <2>2, <2>3, <2>4 DEF FightInv
<1>8. Membership(w2)
  <2>1. SUFFICES ASSUME NEW c \in Chars, NEW k \in Fights
                 PROVE  c \in Combatants(w2.fight[k]) <=> w2.in[c] = k
    BY DEF Membership
  <2>2. /\ c \in Combatants(w.fight[k]) <=> w.in[c] = k
        /\ c \in Combatants(w.fight[g]) <=> w.in[c] = g
    BY <1>1 DEF Membership
  <2>3. c \in summon => w.in[c] = None
    BY <1>1 DEF Presence
  <2>4. CASE k = g
    BY <1>0, <1>1, <1>2, <1>4, <2>2, <2>3, <2>4
  <2>5. CASE k # g
    BY <1>0, <1>1, <1>2, <2>2, <2>3, <2>5
  <2> QED BY <2>4, <2>5
<1>9. Presence(w2, h2)
  <2>1. SUFFICES ASSUME NEW c \in Chars, w2.in[c] # None PROVE c \in h2
    BY DEF Presence
  <2>2. c \in Combatants(w.fight[g]) <=> w.in[c] = g
    BY <1>1 DEF Membership
  <2>3. w.in[c] # None => c \in h
    BY <1>1 DEF Presence
  <2> QED BY <1>0, <1>1, <1>2, <2>1, <2>2, <2>3
<1>10. WarInv(w2, l2, h2, a2)
  <2>1. \A k \in Fights \ {g} :
            /\ w2.fight[k] = w.fight[k]
            /\ (k \in w2.due <=> k \in w.due) /\ (k \in w2.dead <=> k \in w.dead)
            /\ \A o \in Loot : l2[o] = k <=> l[o] = k
            /\ w.fight[k].turn \intersect a2 = {}
    BY <1>2 DEF WarInv, FightInv
  <2>2. /\ WarInv(w, l, h, a) /\ w2 \in War /\ g \in Fights
        /\ l2 \in [Loot -> Fights \union {None}]
    BY <1>2
  <2>3. FightInv(w2.fight[g], g, w2, l2, a2)
    BY <1>7
  <2> QED BY ONLY <1>8, <1>9, <2>1, <2>2, <2>3, OneChanges
<1>11. StepInv(w, w2, l2)
  <2>1. \A k \in Fights : w.fight[k].cloud => w.fight[k].live
    BY NoFightFields DEF WarInv, FightInv
  <2>2. \A k \in Fights : w.fight[k].round \in Int
    BY <1>1, FightFields, CombatConstants
  <2>3. ASSUME NEW k \in Fights, w.fight[k].cloud PROVE w2.fight[k].live
    BY <1>2, <2>1, <2>3
  <2>4. ASSUME NEW k \in Fights, w2.fight[k].round > w.fight[k].round PROVE k = g
    BY <1>2, <2>2, <2>4
  <2> QED BY <1>3, <2>3, <2>4 DEF StepInv
<1> QED BY <1>10, <1>11

-----------------------------------------------------------------------------
(* The actions: those that start a fight. *)

Step == CInv' /\ StepInv(war, war', loot')

\* CInv is about war, but for the types of what surrounds it.
LEMMA StepFromWar ==
    ASSUME here' \subseteq Chars, alive' \subseteq Chars,
           teleporting' \subseteq Players, action' \subseteq Players,
           WarInv(war', loot', here', action'), StepInv(war, war', loot')
    PROVE  Step
BY DEF Step, CInv, TypeOK, WarInv

\* A side is in the room and in no fight; enemies are never of the same party.
LEMMA SideFacts ==
    ASSUME CInv, NEW x \in here, x \in Chars, war.in[x] = None, NEW live, NEW refuse
    PROVE  /\ Side(x, live, refuse) \subseteq Chars
           /\ \A c \in Side(x, live, refuse) : war.in[c] = None /\ c \in here
           /\ \A c \in Side(x, live, refuse) : c = x \/ (Leader[c] # None /\ Leader[c] = Leader[x])
           /\ Leader[x] = None => Side(x, live, refuse) = {x}
BY DEF Side, CInv, TypeOK

LEMMA EngageInv ==
    ASSUME CInv, NEW x \in here, NEW y \in here, x # y, x \in Chars, y \in Chars,
           war.in[x] = None, war.in[y] = None,
           Leader[x] = None \/ Leader[y] = None \/ Leader[x] # Leader[y],
           NEW live, NEW refuse, Engage(x, y, live, refuse)
    PROVE  WarInv(war', loot, here, action) /\ StepInv(war, war', loot)
<1> DEFINE A == Side(x, live, refuse)
           D == Side(y, live, refuse)
           cloud == A # {} /\ D # {}
           begin == IF cloud THEN (A \union D) \ Npcs ELSE A \union D
<1>1. WarInv(war, loot, here, action)
  BY DEF CInv
<1>2. /\ A \subseteq Chars /\ D \subseteq Chars /\ A \intersect D = {}
      /\ \A c \in A \union D : war.in[c] = None /\ c \in here
  <2> HIDE DEF cloud, begin
  <2>1. /\ A \subseteq Chars /\ \A c \in A : war.in[c] = None /\ c \in here
        /\ \A c \in A : c = x \/ (Leader[c] # None /\ Leader[c] = Leader[x])
        /\ Leader[x] = None => A = {x}
    BY SideFacts
  <2>2. /\ D \subseteq Chars /\ \A c \in D : war.in[c] = None /\ c \in here
        /\ \A c \in D : c = y \/ (Leader[c] # None /\ Leader[c] = Leader[y])
        /\ Leader[y] = None => D = {y}
    BY SideFacts
  <2> HIDE DEF A, D
  <2>3. A \intersect D = {}
    BY <2>1, <2>2
  <2> QED BY <2>1, <2>2, <2>3
<1>3. CASE A \union D = {}
  <2>1. war' = war
    BY <1>3 DEF Engage
  <2>2. Quiet(war, war)
    BY DEF Quiet
  <2> QED BY <1>1, <2>1, <2>2, QuietStep
<1>4. CASE A \union D # {}
  <2>1. PICK g \in Fights :
            /\ ~war.fight[g].live /\ g \notin war.due \union war.dead
            /\ \A o \in Loot : loot[o] # g
            /\ war' = Started(war, g, A, D, cloud, begin)
    BY <1>4 DEF Engage, Started
  <2>2. cloud \in BOOLEAN /\ begin \in SUBSET (A \union D)
    OBVIOUS
  <2> HIDE DEF A, D, cloud, begin
  <2>3. g \notin war.due /\ g \notin war.dead
    BY <2>1
  <2> QED BY <1>1, <1>2, <2>1, <2>2, <2>3, StartedInv
<1> QED BY <1>3, <1>4

LEMMA VerbEngageStep ==
    ASSUME CInv, NEW p \in Players, NEW d \in Chars, VerbEngage(p, d)
    PROVE  Step
<1>1. PICK refuse : Engage(p, d, alive, refuse)
  BY DEF VerbEngage
<1>2. /\ p \in Chars /\ p \in here /\ d \in here /\ p # d
      /\ war.in[p] = None /\ war.in[d] = None
      /\ Leader[p] = None \/ Leader[d] = None \/ Leader[p] # Leader[d]
  BY DEF VerbEngage, Chars
<1>3. WarInv(war', loot, here, action) /\ StepInv(war, war', loot)
  BY <1>1, <1>2, EngageInv
<1>4. UNCHANGED <<here, alive, teleporting, action, loot>>
  BY DEF VerbEngage
<1> QED BY <1>3, <1>4, StepFromWar DEF CInv, TypeOK

LEMMA NpcEngages ==
    ASSUME CInv, NEW n \in Npcs, NEW p \in Players, {n, p} \subseteq here,
           war.in[n] = None, war.in[p] = None, NEW live, Engage(n, p, live, {})
    PROVE  WarInv(war', loot, here, action) /\ StepInv(war, war', loot)
<1>1. /\ n \in Chars /\ p \in Chars /\ n \in here /\ p \in here /\ n # p
      /\ Leader[n] = None \/ Leader[p] = None \/ Leader[n] # Leader[p]
  BY CombatConstants DEF Chars
<1> QED BY <1>1, EngageInv

LEMMA JumpStep ==
    ASSUME CInv, NEW n \in Npcs, NEW p \in Players, Jump(n, p)
    PROVE  Step
<1>1. {n, p} \subseteq here /\ war.in[n] = None /\ war.in[p] = None /\ Engage(n, p, alive, {})
  BY DEF Jump
<1>2. WarInv(war', loot, here, action) /\ StepInv(war, war', loot)
  BY <1>1, NpcEngages
<1>3. UNCHANGED <<here, alive, teleporting, action, loot>>
  BY DEF Jump
<1> QED BY <1>2, <1>3, StepFromWar DEF CInv, TypeOK

LEMMA CastAtStep ==
    ASSUME CInv, NEW n \in Npcs, NEW p \in Players, CastAt(p, n)
    PROVE  Step
<1>1. {n, p} \subseteq here /\ war.in[n] = None /\ war.in[p] = None /\ Engage(n, p, alive', {})
  BY DEF CastAt
<1>2. WarInv(war', loot, here, action) /\ StepInv(war, war', loot)
  BY <1>1, NpcEngages
<1>3. UNCHANGED <<here, teleporting, action, loot>> /\ alive' \in {alive, alive \ {n}}
  BY DEF CastAt
<1>4. alive' \subseteq Chars
  BY <1>3 DEF CInv, TypeOK
<1> QED BY <1>2, <1>3, <1>4, StepFromWar DEF CInv, TypeOK

-----------------------------------------------------------------------------
(* What players send. *)

LEMMA BeginStep ==
    ASSUME CInv, NEW p \in Players, Begin(p)
    PROVE  Step
<1>1. WarInv(war, loot, here, action) /\ p \in Chars /\ war.in[p] # None
  BY DEF CInv, Begin, Chars
<1>2. war' = CombatReady(war, p) /\ UNCHANGED <<here, alive, teleporting, action, loot>>
  BY DEF Begin
<1>3. WarInv(war', loot, here, action) /\ StepInv(war, war', loot)
  BY <1>1, <1>2, CombatReadyInv, QuietStep
<1> QED BY <1>2, <1>3, StepFromWar DEF CInv, TypeOK

LEMMA ChooseStep ==
    ASSUME CInv, NEW p \in Players, Choose(p)
    PROVE  Step
<1>1. WarInv(war, loot, here, action) /\ p \in Chars /\ war.in[p] # None
  BY DEF CInv, Choose, Chars
<1>2. /\ action' = action \union {p}
      /\ war' = IF p \in action THEN war ELSE TurnReady(war, p)
      /\ UNCHANGED <<here, alive, teleporting, loot>>
  BY DEF Choose
<1>3. WarInv(war', loot, here, action') /\ StepInv(war, war', loot)
  <2>1. CASE p \in action
    <3>1. war' = war /\ action' = action
      BY <1>2, <2>1
    <3>2. Quiet(war, war)
      BY DEF Quiet
    <3> QED BY <1>1, <3>1, <3>2, QuietStep
  <2>2. CASE p \notin action
    BY <1>1, <1>2, <2>2, TurnReadyInv, QuietStep
  <2> QED BY <2>1, <2>2
<1> QED BY <1>2, <1>3, StepFromWar DEF CInv, TypeOK

LEMMA ExitStep ==
    ASSUME CInv, NEW p \in Players, Exit(p)
    PROVE  Step
<1>1. WarInv(war, loot, here, action) /\ p \in Chars
  BY DEF CInv, Chars
<1>2. war' = ExitCombat(war, p) /\ UNCHANGED <<here, alive, teleporting, action, loot>>
  BY DEF Exit
<1>3. WarInv(war', loot, here, action) /\ StepInv(war, war', loot)
  BY <1>1, <1>2, ExitCombatInv, QuietStep
<1> QED BY <1>2, <1>3, StepFromWar DEF CInv, TypeOK

LEMMA DropStep ==
    ASSUME CInv, NEW c \in Chars, NEW o \in Loot, Drop(c, o)
    PROVE  Step
<1>1. WarInv(war, loot, here, action) /\ war.in[c] # None /\ loot[o] = None
  BY DEF CInv, Drop
<1>2. /\ war' = Dropped(war, c, o) /\ loot' = [loot EXCEPT ![o] = war.in[c]]
      /\ UNCHANGED <<here, alive, teleporting, action>>
  BY DEF Drop
<1>3. WarInv(war', loot', here, action) /\ StepInv(war, war', loot')
  <2>1. WarInv(war', loot', here, action) /\ Quiet(war, war')
    BY <1>1, <1>2, DroppedInv
  <2> QED BY <1>1, <2>1, QuietStep
<1> QED BY <1>2, <1>3, StepFromWar DEF CInv, TypeOK

LEMMA PickUpStep ==
    ASSUME CInv, NEW p \in Players, NEW o \in Loot, PickUp(p, o)
    PROVE  Step
<1>1. WarInv(war, loot, here, action) /\ p \in Chars /\ war.in[p] # None /\ loot[o] = war.in[p]
  BY DEF CInv, PickUp, Chars
<1>2. /\ war' = [war EXCEPT !.fight[war.in[p]].objects = @ \ {o}]
      /\ loot' = [loot EXCEPT ![o] = None]
      /\ UNCHANGED <<here, alive, teleporting, action>>
  BY DEF PickUp
<1>3. WarInv(war', loot', here, action) /\ StepInv(war, war', loot')
  <2>1. WarInv(war', loot', here, action) /\ Quiet(war, war')
    BY <1>1, <1>2, PickedUpInv
  <2> QED BY <1>1, <2>1, QuietStep
<1> QED BY <1>2, <1>3, StepFromWar DEF CInv, TypeOK

LEMMA FleeStep ==
    ASSUME CInv, NEW p \in Players, Flee(p)
    PROVE  Step
<1>1. WarInv(war, loot, here, action) /\ p \in Chars /\ war.in[p] # None
  BY DEF CInv, Flee, Chars
<1>2. UNCHANGED <<here, alive, teleporting, action>>
  BY DEF Flee
<1>3. CASE war' = ExitCombat(war, p) /\ UNCHANGED loot
  <2>1. WarInv(war', loot', here, action) /\ StepInv(war, war', loot')
    BY <1>1, <1>3, ExitCombatInv, QuietStep
  <2> QED BY <1>2, <2>1, StepFromWar DEF CInv, TypeOK
<1>4. ASSUME NEW o \in Loot, loot[o] = None,
             loot' = [loot EXCEPT ![o] = war.in[p]],
             war' = ExitCombat(Dropped(war, p, o), p)
      PROVE  Step
  <2> DEFINE w == Dropped(war, p, o)
  <2>1. WarInv(w, loot', here, action) /\ Quiet(war, w)
    BY <1>1, <1>4, DroppedInv
  <2> HIDE DEF w
  <2>2. WarInv(ExitCombat(w, p), loot', here, action) /\ Quiet(w, ExitCombat(w, p))
    BY <1>1, <2>1, ExitCombatInv
  <2>3. war' = ExitCombat(w, p)
    BY <1>4 DEF w
  <2>4. Quiet(war, war')
    BY <2>1, <2>2, <2>3 DEF Quiet
  <2>5. WarInv(war', loot', here, action) /\ StepInv(war, war', loot')
    BY <1>1, <2>2, <2>3, <2>4, QuietStep
  <2> QED BY <1>2, <2>5, StepFromWar DEF CInv, TypeOK
<1> QED BY <1>3, <1>4 DEF Flee

-----------------------------------------------------------------------------
(* Coming and going. *)

LEMMA ArriveStep ==
    ASSUME CInv, NEW c \in Chars, Arrive(c)
    PROVE  Step
<1>1. /\ here' = here \union {c} /\ alive' = alive \union {c}
      /\ UNCHANGED <<teleporting, action, war, loot>>
  BY DEF Arrive
<1>2. WarInv(war, loot, here, action) /\ Presence(war, here \union {c})
  BY DEF CInv, WarInv, Presence
<1>3. WarInv(war', loot', here', action')
  BY <1>1, <1>2, WarInvWeakens
<1>4. StepInv(war, war', loot')
  <2>1. Quiet(war, war')
    BY <1>1 DEF Quiet
  <2> QED BY <1>2, <2>1, QuietStep
<1> QED BY <1>1, <1>3, <1>4, StepFromWar DEF CInv, TypeOK

LEMMA TeleportStep ==
    ASSUME CInv, NEW p \in Players, Teleport(p)
    PROVE  Step
<1>1. WarInv(war, loot, here, action) /\ p \in Chars
  BY DEF CInv, Chars
<1>2. /\ teleporting' = teleporting \union {p} /\ war' = ExitCombat(war, p)
      /\ UNCHANGED <<here, alive, action, loot>>
  BY DEF Teleport
<1>3. WarInv(war', loot, here, action) /\ StepInv(war, war', loot)
  BY <1>1, <1>2, ExitCombatInv, QuietStep
<1> QED BY <1>2, <1>3, StepFromWar DEF CInv, TypeOK

LEMMA ChangeRoomStep ==
    ASSUME CInv, NEW p \in Players, ChangeRoom(p)
    PROVE  Step
<1>1. /\ teleporting' = teleporting \ {p} /\ alive' = alive \union {p}
      /\ here' = IF war.in[p] = None THEN here \ {p} ELSE here
      /\ UNCHANGED <<action, war, loot>>
  BY DEF ChangeRoom
<1>2. WarInv(war, loot, here, action) /\ Presence(war, here')
  BY <1>1 DEF CInv, WarInv, Presence
<1>3. WarInv(war', loot', here', action')
  BY <1>1, <1>2, WarInvWeakens
<1>4. StepInv(war, war', loot')
  <2>1. Quiet(war, war')
    BY <1>1 DEF Quiet
  <2> QED BY <1>2, <2>1, QuietStep
<1>5. alive' \subseteq Chars /\ here' \subseteq Chars
  BY <1>1 DEF CInv, TypeOK, Chars
<1> QED BY <1>1, <1>3, <1>4, <1>5, StepFromWar DEF CInv, TypeOK

LEMMA LogoutStep ==
    ASSUME CInv, NEW p \in Players, Logout(p)
    PROVE  Step
<1> DEFINE w == IF war.in[p] = None THEN war ELSE Delete(war, p)
<1>1. /\ here' = here \ {p} /\ war' = w
      /\ alive' = alive \union {p} /\ teleporting' = teleporting \ {p}
      /\ action' = action \ {p} /\ loot' = loot
  BY DEF Logout
<1>2. WarInv(war, loot, here, action) /\ p \in Chars
  BY DEF CInv, Chars
<1>3. WarInv(w, loot, here, action) /\ w.in[p] = None /\ Quiet(war, w)
  <2>1. Quiet(war, war)
    BY DEF Quiet
  <2> QED BY <1>2, <2>1, DeleteInv
<1> HIDE DEF w
<1>4. Presence(w, here \ {p})
  BY <1>3 DEF WarInv, Presence
<1>5. WarInv(w, loot, here \ {p}, action \ {p})
  BY <1>3, <1>4, WarInvWeakens
<1>6. WarInv(war', loot', here', action')
  BY <1>1, <1>5
<1>7. StepInv(war, war', loot')
  BY <1>1, <1>2, <1>3, QuietStep
<1> QED BY <1>1, <1>2, <1>6, <1>7, StepFromWar DEF CInv, TypeOK

LEMMA NpcGoneStep ==
    ASSUME CInv, NEW n \in Npcs, NpcGone(n)
    PROVE  Step
<1>1. here' = here \ {n} /\ UNCHANGED <<alive, teleporting, action, war, loot>>
  BY DEF NpcGone
<1>2. WarInv(war, loot, here, action) /\ Presence(war, here \ {n})
  BY DEF NpcGone, CInv, WarInv, Presence
<1>3. WarInv(war', loot', here', action')
  BY <1>1, <1>2, WarInvWeakens
<1>4. StepInv(war, war', loot')
  <2>1. Quiet(war, war')
    BY <1>1 DEF Quiet
  <2> QED BY <1>2, <2>1, QuietStep
<1> QED BY <1>1, <1>3, <1>4, StepFromWar DEF CInv, TypeOK

LEMMA RoomGoneStep ==
    ASSUME CInv, RoomGone
    PROVE  Step
<1> DEFINE D == {war.in[c] : c \in here} \ {None}
<1>1. /\ war' = Deleted(war, D) /\ loot' = Released(war, loot, D) /\ here' = {}
      /\ UNCHANGED <<alive, teleporting, action>>
  BY DEF RoomGone
<1>2. WarInv(war, loot, here, action)
  BY DEF CInv
<1>3. D \in SUBSET Fights
  BY DEF CInv, TypeOK, War
<1>4. \A c \in Chars : war.in[c] = None \/ war.in[c] \in D
  BY <1>2 DEF WarInv, Presence
<1> HIDE DEF D
<1>5. WarInv(war', loot', {}, action) /\ StepInv(war, war', loot')
  BY <1>1, <1>2, <1>3, <1>4, DeletedInv
<1> QED BY <1>1, <1>5, StepFromWar DEF CInv, TypeOK

-----------------------------------------------------------------------------
(* The pulses. *)

LEMMA NpcPulseStep ==
    ASSUME CInv, NpcPulse
    PROVE  Step
<1>1. /\ war' = Deleted(war, war.dead) /\ loot' = Released(war, loot, war.dead)
      /\ UNCHANGED <<here, alive, teleporting, action>>
  BY DEF NpcPulse
<1>2. WarInv(war, loot, here, action)
  BY DEF CInv
<1>3. war.dead \in SUBSET Fights
  BY DEF CInv, TypeOK, War
<1>4. \A c \in Chars : war.in[c] = None \/ war.in[c] \in war.dead \/ c \in here
  BY <1>2 DEF WarInv, Presence
<1>5. WarInv(war', loot', here, action) /\ StepInv(war, war', loot')
  BY <1>1, <1>2, <1>3, <1>4, DeletedInv
<1> QED BY <1>1, <1>5, StepFromWar DEF CInv, TypeOK

LEMMA ActedFields ==
    ASSUME NEW f \in Fight, f.attackers \intersect f.defenders = {},
           NEW flee, NEW summon \in SUBSET Npcs, NEW c, NEW fallen \in SUBSET Loot,
           summon # {} => c \in Combatants(f), summon \intersect Combatants(f) = {}
    PROVE  /\ Follows(f, Acted(f, flee, summon, c, fallen), flee, summon)
           /\ Acted(f, flee, summon, c, fallen).objects = f.objects \union fallen
<1> DEFINE n == Acted(f, flee, summon, c, fallen)
           left == [f EXCEPT !.attackers = @ \ flee, !.defenders = @ \ flee,
                             !.objects = @ \union fallen]
<1>1. /\ left \in Fight /\ (left.live <=> f.live) /\ (left.cloud <=> f.cloud)
      /\ left.round = f.round /\ left.begin = f.begin /\ left.objects = f.objects \union fallen
      /\ left.attackers = f.attackers \ flee /\ left.defenders = f.defenders \ flee
  BY DEF Fight
<1>2. CASE summon = {}
  <2>1. n = left
    BY <1>2 DEF Acted
  <2> HIDE DEF left, n
  <2>2. n.attackers \intersect n.defenders = {}
    BY <1>1, <2>1
  <2>3. Combatants(n) = (Combatants(f) \ flee) \union summon
    BY <1>1, <1>2, <2>1 DEF Combatants
  <2> QED BY <1>1, <2>1, <2>2, <2>3 DEF n, Follows
<1>3. CASE summon # {}
  <2> DEFINE A == IF c \in f.attackers THEN left.attackers \union summon ELSE left.attackers
             D == IF c \in f.defenders THEN left.defenders \union summon ELSE left.defenders
  <2>1. n = [left EXCEPT !.attackers = A, !.defenders = D]
    BY <1>3 DEF Acted
  <2> HIDE DEF left, n
  <2>2. A \in SUBSET Chars /\ D \in SUBSET Chars
    BY <1>1 DEF Fight, Chars
  <2>3. A \intersect D = {}
    BY <1>1 DEF Combatants
  <2>4. A \union D = (Combatants(f) \ flee) \union summon
    BY <1>1, <1>3 DEF Combatants
  <2> HIDE DEF A, D
  <2>5. /\ n \in Fight /\ (n.live <=> left.live) /\ (n.cloud <=> left.cloud)
        /\ n.round = left.round /\ n.begin = left.begin /\ n.objects = left.objects
        /\ n.attackers = A /\ n.defenders = D
    BY <1>1, <2>1, <2>2 DEF Fight
  <2>6. Combatants(n) = (Combatants(f) \ flee) \union summon
    BY <2>4, <2>5 DEF Combatants
  <2> QED BY <1>1, <2>3, <2>5, <2>6 DEF n, Follows
<1> QED BY <1>2, <1>3

LEMMA ActsStep ==
    ASSUME CInv, NEW g \in Fights, g \in war.due, war.fight[g].live, war.fight[g].cloud,
           war.fight[g].round < MaxRounds,
           NEW die, NEW flee, NEW summon, NEW c, NEW early, NEW fallen,
           flee \subseteq Fit(g), summon \in Calls, c \in Fit(g) \union {None}, fallen \in Falls,
           Acts(g, die, flee, summon, c, early, fallen)
    PROVE  Step
<1> DEFINE f == war.fight[g]
           live == (alive \ die) \union summon
           now == Acted(f, flee, summon, c, fallen)
           gone == Idle(now, live, early)
<1>1. /\ (summon = {}) <=> (c = None)
      /\ alive' = live /\ here' = here \union summon /\ action' = Spent(g)
      /\ war' = NextRound(war, g, now, live, flee, early)
      /\ loot' = [o \in Loot |-> IF o \in fallen THEN g ELSE loot[o]]
      /\ UNCHANGED teleporting
  BY DEF Acts
<1>2. /\ WarInv(war, loot, here, action) /\ war \in War /\ f \in Fight
      /\ FightInv(f, g, war, loot, action) /\ None \notin Fights
      /\ loot \in [Loot -> Fights \union {None}] /\ Presence(war, here) /\ Membership(war)
  BY FightFields, CombatConstants DEF CInv, WarInv
<1>3. summon \subseteq Npcs /\ summon \intersect here = {} /\ (summon # {} => c \in Combatants(f))
  <2>1. summon \subseteq Npcs /\ summon \intersect here = {}
    BY DEF Calls
  <2> QED BY <1>1, <2>1 DEF Fit
<1>4. fallen \subseteq Loot /\ \A o \in fallen : loot[o] = None
  BY DEF Falls
<1>5. summon \intersect Combatants(f) = {}
  <2>1. \A x \in Chars : x \in Combatants(f) => x \in here
    BY <1>2 DEF Presence, Membership
  <2> QED BY <1>3, <2>1 DEF Chars
<1>6. Follows(f, now, flee, summon) /\ now.objects = f.objects \union fallen
  <2>1. f.attackers \intersect f.defenders = {}
    BY <1>2 DEF FightInv
  <2>2. /\ f \in Fight /\ summon \in SUBSET Npcs /\ fallen \in SUBSET Loot
        /\ summon # {} => c \in Combatants(f)
    BY <1>2, <1>3, <1>4
  <2> HIDE DEF f
  <2>3. /\ Follows(f, Acted(f, flee, summon, c, fallen), flee, summon)
        /\ Acted(f, flee, summon, c, fallen).objects = f.objects \union fallen
    BY ONLY <1>5, <2>1, <2>2, ActedFields
  <2> QED BY <2>3
<1> HIDE DEF now, f
<1>7. RoundDone(war, g, now, gone, flee, war')
  <2>1. war' = NextRound(war, g, now, live, flee, early)
    BY <1>1 DEF now, live, f
  <2>2. now \in Fight /\ now.round < MaxRounds
    BY <1>6 DEF f, Follows
  <2> QED BY <1>2, <2>1, <2>2, NextRoundFields
<1>8. gone \subseteq Combatants(now)
  BY DEF Idle
<1>9. LiesIn(loot, g, now.objects, loot')
  <2>1. \A o \in Loot : loot[o] = g <=> o \in f.objects
    BY <1>2 DEF FightInv, f
  <2> QED BY <1>1, <1>2, <1>4, <1>6, <2>1 DEF LiesIn
<1> HIDE DEF gone, live
<1>10. /\ WarInv(war', loot', here \union summon, action \ Combatants(war.fight[g]))
       /\ StepInv(war, war', loot')
  <2>1. Follows(war.fight[g], now, flee, summon)
    BY <1>6 DEF f
  <2>2. /\ flee \subseteq Combatants(war.fight[g])
        /\ Combatants(war.fight[g]) = {} => summon = {}
    BY <1>3 DEF f, Fit
  <2>3. /\ WarInv(war, loot, here, action) /\ g \in Fights /\ g \in war.due
        /\ war.fight[g].live /\ war.fight[g].cloud /\ war.fight[g].round < MaxRounds
    BY <1>2
  <2>4. summon \subseteq Npcs /\ summon \intersect here = {}
    BY <1>3
  <2> QED BY ONLY <1>7, <1>8, <1>9, <2>1, <2>2, <2>3, <2>4, RoundInv
<1>11. /\ here' = here \union summon /\ action' = action \ Combatants(war.fight[g])
       /\ alive' = live /\ teleporting' = teleporting
  BY <1>1 DEF Spent, live
<1>12. alive' \subseteq Chars /\ here' \subseteq Chars
  BY <1>3, <1>11 DEF CInv, TypeOK, Chars, live
<1> QED BY <1>10, <1>11, <1>12, StepFromWar DEF CInv, TypeOK

LEMMA RoundStep ==
    ASSUME CInv, NEW g \in Fights, g \in war.due, war.fight[g].live, war.fight[g].cloud,
           war.fight[g].round < MaxRounds, Round(g)
    PROVE  Step
<1>1. PICK die \in SUBSET Fit(g), summon \in Calls, c \in Fit(g) \union {None}, fallen \in Falls :
        \E flee \in SUBSET (Fit(g) \ die), early \in SUBSET (Npcs \ (alive \ die)) :
            Acts(g, die, flee, summon, c, early, fallen)
  BY DEF Round
<1>2. PICK flee \in SUBSET (Fit(g) \ die), early \in SUBSET (Npcs \ (alive \ die)) :
            Acts(g, die, flee, summon, c, early, fallen)
  BY <1>1
<1>3. flee \subseteq Fit(g)
  OBVIOUS
<1> QED BY <1>2, <1>3, ActsStep

LEMMA CombatPulseStep ==
    ASSUME CInv, NEW g \in Fights, CombatPulse(g)
    PROVE  Step
<1>1. CASE war.fight[g].live /\ war.fight[g].cloud /\ war.fight[g].round < MaxRounds
  BY <1>1, RoundStep DEF CombatPulse
<1>2. CASE ~(war.fight[g].live /\ war.fight[g].cloud /\ war.fight[g].round < MaxRounds)
  <2>1. /\ war' = [war EXCEPT !.due = @ \ {g}]
        /\ UNCHANGED <<here, alive, teleporting, action, loot>>
    BY <1>2 DEF CombatPulse
  <2>2. WarInv(war, loot, here, action) /\ war \in War
    BY DEF CInv, WarInv
  <2>3. /\ war' \in War /\ war'.in = war.in /\ war'.fight = war.fight
        /\ war'.dead = war.dead /\ war'.due = war.due \ {g}
    BY <2>1, <2>2 DEF War
  <2>4. FightInv(war'.fight[g], g, war', loot, action)
    <3>1. FightInv(war.fight[g], g, war, loot, action)
      BY <2>2 DEF WarInv
    <3>2. war.fight[g].cloud => war.fight[g].live
      BY <3>1, NoFightFields DEF FightInv
    <3>3. FightInv(war.fight[g], g, war', loot, action)
      BY <1>2, <2>3, <3>1, <3>2 DEF FightInv
    <3> QED BY <2>3, <3>3
  <2>5. Membership(war') /\ Presence(war', here)
    BY <2>2, <2>3 DEF WarInv, Membership, Presence
  <2>6. WarInv(war', loot, here, action)
    <3>1. \A k \in Fights \ {g} :
            /\ war'.fight[k] = war.fight[k]
            /\ (k \in war'.due <=> k \in war.due) /\ (k \in war'.dead <=> k \in war.dead)
            /\ \A o \in Loot : loot[o] = k <=> loot[o] = k
            /\ war.fight[k].turn \intersect action = {}
      BY <2>2, <2>3 DEF WarInv, FightInv
    <3>2. war' \in War /\ g \in Fights /\ loot \in [Loot -> Fights \union {None}]
      BY <2>2, <2>3 DEF WarInv
    <3> QED BY ONLY <2>2, <2>4, <2>5, <3>1, <3>2, OneChanges
  <2>7. StepInv(war, war', loot)
    <3>1. Quiet(war, war')
      BY <2>3 DEF Quiet
    <3> QED BY <2>2, <3>1, QuietStep
  <2> QED BY <2>1, <2>6, <2>7, StepFromWar DEF CInv, TypeOK
<1> QED BY <1>1, <1>2

-----------------------------------------------------------------------------
(* The theorems. *)

LEMMA CInvInit ==
    Init => CInv
<1>1. SUFFICES ASSUME Init PROVE CInv
  OBVIOUS
<1>2. /\ here = {} /\ alive = Chars /\ teleporting = {} /\ action = {}
      /\ loot = [o \in Loot |-> None]
      /\ war = [in |-> [c \in Chars |-> None], fight |-> [g \in Fights |-> NoFight],
                due |-> {}, dead |-> {}]
  BY <1>1 DEF Init
<1>3. /\ war \in War /\ war.due = {} /\ war.dead = {}
      /\ \A c \in Chars : war.in[c] = None
      /\ \A g \in Fights : war.fight[g] = NoFight
  BY <1>2, NoFightFields DEF War
<1>4. Membership(war) /\ Presence(war, here)
  BY <1>3, CombatConstants, NoFightFields DEF Membership, Presence
<1>5. \A g \in Fights : FightInv(NoFight, g, war, loot, action)
  BY <1>3, CombatConstants DEF FightInv, NoFight, Combatants
<1> QED BY <1>2, <1>3, <1>4, <1>5 DEF CInv, TypeOK, WarInv

\* CInv is inductive, and every step is one that StepInv allows.
THEOREM CInvStep ==
    CInv /\ [Next]_vars => CInv' /\ (Next => StepInv(war, war', loot'))
<1>1. ASSUME CInv, Next PROVE Step
  <2>1. CASE \E g \in Fights : CombatPulse(g)
    BY <1>1, <2>1, CombatPulseStep
  <2>2. CASE NpcPulse \/ RoomGone
    BY <1>1, <2>2, NpcPulseStep, RoomGoneStep
  <2>3. ASSUME NEW p \in Players,
               \/ Begin(p) \/ Choose(p) \/ Exit(p) \/ Flee(p)
               \/ Teleport(p) \/ ChangeRoom(p) \/ Logout(p)
        PROVE  Step
    BY <1>1, <2>3, BeginStep, ChooseStep, ExitStep, FleeStep, TeleportStep, ChangeRoomStep,
       LogoutStep
  <2>4. ASSUME NEW p \in Players,
               \/ \E d \in Chars : VerbEngage(p, d)
               \/ \E n \in Npcs : Jump(n, p) \/ CastAt(p, n)
               \/ \E o \in Loot : PickUp(p, o)
        PROVE  Step
    BY <1>1, <2>4, VerbEngageStep, JumpStep, CastAtStep, PickUpStep
  <2>5. CASE \E c \in Chars : Arrive(c) \/ \E o \in Loot : Drop(c, o)
    BY <1>1, <2>5, ArriveStep, DropStep
  <2>6. CASE \E n \in Npcs : NpcGone(n)
    BY <1>1, <2>6, NpcGoneStep
  <2> QED BY <1>1, <2>1, <2>2, <2>3, <2>4, <2>5, <2>6 DEF Next
<1>2. ASSUME CInv, UNCHANGED vars PROVE CInv'
  BY <1>2 DEF vars, CInv, TypeOK, WarInv, Membership, Presence, FightInv, Combatants
<1> QED BY <1>1, <1>2 DEF Step

THEOREM CInvHolds ==
    Spec => []CInv
BY CInvInit, CInvStep, PTL DEF Spec

\* What is checked of every state follows from CInv.
LEMMA CInvImplies ==
    CInv => Orderly /\ NobodyForgotten /\ ChoiceCounts
<1> SUFFICES ASSUME CInv PROVE Orderly /\ NobodyForgotten /\ ChoiceCounts
  OBVIOUS
<1>1. \A g \in Fights : FightInv(war.fight[g], g, war, loot, action)
  BY DEF CInv, WarInv
<1>2. Membership(war) /\ Presence(war, here) /\ TypeOK
  BY DEF CInv, WarInv
<1>3. ListsAgree
  BY <1>1, <1>2 DEF ListsAgree, FightInv, Membership, Presence
<1>4. NobodyForgotten
  BY <1>1 DEF NobodyForgotten, FightInv
<1>5. ChoiceCounts
  BY <1>1 DEF ChoiceCounts, FightInv
<1> QED BY <1>2, <1>3, <1>4, <1>5 DEF Orderly

\* Characters, the lists of fights and what lies in fights always agree.
THEOREM OrderlyHolds ==
    Spec => []Orderly
BY CInvHolds, CInvImplies, PTL

\* A fight that waits for nobody is on the list of the next pulse: no order of
\* answers, flights, logouts and deaths leaves it waiting.
THEOREM NobodyForgottenHolds ==
    Spec => []NobodyForgotten
BY CInvHolds, CInvImplies, PTL

\* An action chosen for a turn is never of a character still waited for.
THEOREM ChoiceCountsHolds ==
    Spec => []ChoiceCounts
BY CInvHolds, CInvImplies, PTL

\* No round is processed while the fight waits for a character.
THEOREM RoundAwaitsAllHolds ==
    Spec => RoundAwaitsAll
<1>1. CInv /\ [Next]_vars =>
        [\A g \in Fights : war'.fight[g].round > war.fight[g].round =>
            war.fight[g].begin = {} /\ war.fight[g].turn = {}]_vars
  BY CInvStep DEF StepInv
<1> QED BY <1>1, CInvHolds, PTL DEF Spec, RoundAwaitsAll

\* No object refers to a fight after its deletion.
THEOREM ObjectsLetGoHolds ==
    Spec => ObjectsLetGo
<1>1. CInv /\ [Next]_vars =>
        [\A g \in Fights : war.fight[g].cloud /\ ~war'.fight[g].live =>
            \A o \in Loot : loot'[o] # g]_vars
  BY CInvStep DEF StepInv
<1> QED BY <1>1, CInvHolds, PTL DEF Spec, ObjectsLetGo
=============================================================================
