-------------------------------- MODULE Combat --------------------------------
(***************************************************************************)
(* Fights (roommgr/combat.cpp CombatGroup, and the handlers of             *)
(* rmplayer.cpp, wobject.cpp and main.cpp that put characters in a fight,  *)
(* take their answers and take them out).                                  *)
(*                                                                         *)
(* A fight runs in rounds.  A round is processed by a timer pulse that     *)
(* takes the fights of gPendingCombats; a fight gets there when its        *)
(* list of pending characters - those who have not yet arrived, or not yet *)
(* chosen an action - becomes empty.  Fights that nobody is in wait in     *)
(* gDeadCombats for the pulse that deletes them.                           *)
(*                                                                         *)
(* There is one room, and both kinds of combat are allowed in it.  Who     *)
(* hits, dies, flees or summons in a round is a choice, as is what an NPC  *)
(* decides outside of a fight.  Experience, crimes, positions and places   *)
(* on the grid are left out.  The parties of characters do not change.  A  *)
(* fight is not allocated where a list still names a deleted one.          *)
(***************************************************************************)
EXTENDS Integers, FiniteSets

CONSTANTS
    Players, Npcs,
    Leader,     \* groupLeader of a character, None for one without a group
    Fights,     \* addresses of CombatGroups
    Loot,       \* objects that can be dropped in a fight
    MaxRounds,  \* rounds a fight is processed for: 5000 in the code
    None

Chars == Players \union Npcs

ASSUME CombatConstants ==
    /\ Players \intersect Npcs = {} /\ None \notin Chars \union Fights
    /\ Leader \in [Chars -> Chars \union {None}]
    /\ \A c \in Chars : Leader[c] # None => Leader[Leader[c]] = Leader[c]
    /\ \A c \in Players, n \in Npcs : Leader[c] = None \/ Leader[c] # Leader[n]
    /\ MaxRounds \in Nat

VARIABLES
    here,         \* characters in the room
    alive,        \* characters with health
    teleporting,  \* isTeleporting
    action,       \* players with a combatAction
    war,          \* fights, and what names them: see War
    loot          \* combatGroup of objects

vars == <<here, alive, teleporting, action, war, loot>>

Fight == [live : BOOLEAN,
          cloud : BOOLEAN,             \* its cloud object has been made
          attackers : SUBSET Chars, defenders : SUBSET Chars,
          begin : SUBSET Chars,        \* combatPendingList
          turn : SUBSET Chars,         \* turnPendingList
          round : 0 .. MaxRounds,
          objects : SUBSET Loot]

War == [in : [Chars -> Fights \union {None}],  \* WorldObject::combatGroup
        fight : [Fights -> Fight],
        due : SUBSET Fights,                   \* gPendingCombats
        dead : SUBSET Fights]                  \* gDeadCombats

NoFight == [live |-> FALSE, cloud |-> FALSE, attackers |-> {}, defenders |-> {},
            begin |-> {}, turn |-> {}, round |-> 0, objects |-> {}]

Init ==
    /\ here = {} /\ alive = Chars /\ teleporting = {} /\ action = {}
    /\ war = [in |-> [c \in Chars |-> None], fight |-> [g \in Fights |-> NoFight],
              due |-> {}, dead |-> {}]
    /\ loot = [o \in Loot |-> None]

-----------------------------------------------------------------------------
(* CombatGroup. *)

Combatants(f) == f.attackers \union f.defenders
Opposition(f, c) == IF c \in f.attackers THEN f.defenders
                    ELSE IF c \in f.defenders THEN f.attackers ELSE {}

\* a pending list that was not empty, and is
Emptied(f, f2) ==
    (f.begin # {} /\ f2.begin = {}) \/ (f.turn # {} /\ f2.turn = {})

-----------------------------------------------------------------------------
(* Mutants of the operators below: plausible bugs. *)

\* a character that leaves is not taken off the list of pending turns
Leave_StaysPending(f, c) ==
    [f EXCEPT !.attackers = @ \ {c}, !.defenders = @ \ {c}, !.begin = @ \ {c}]

\* the leaver was the last one pending: nobody sees that the others are ready
Delete_NoWakeUp(w, c) ==
    LET g  == w.in[c]
        f2 == [w.fight[g] EXCEPT !.attackers = @ \ {c}, !.defenders = @ \ {c},
                                 !.begin = @ \ {c}, !.turn = @ \ {c}]
    IN  [w EXCEPT !.in[c] = None, !.fight[g] = f2,
                  !.dead = IF Combatants(f2) = {} THEN @ \union {g} ELSE @]

\* a character that is ready makes the fight due at once
TurnReady_AtOnce(w, c) ==
    [w EXCEPT !.fight[w.in[c]].turn = @ \ {c}, !.due = @ \union {w.in[c]}]

\* the objects of a fight are not let go
Released_Nothing(w, l, D) == l

\* nobody clears the actions of the round
Spent_Kept(g) == action

-----------------------------------------------------------------------------

\* all lists of the fight
Leave(f, c) ==
    [f EXCEPT !.attackers = @ \ {c}, !.defenders = @ \ {c},
              !.begin = @ \ {c}, !.turn = @ \ {c}]

\* deleteCharacter
Delete(w, c) ==
    LET g  == w.in[c]
        f2 == Leave(w.fight[g], c)
        rest == Combatants(f2)
    IN  [w EXCEPT !.in[c] = None, !.fight[g] = f2,
                  !.due  = IF rest # {} /\ Emptied(w.fight[g], f2) THEN @ \union {g} ELSE @,
                  !.dead = IF rest = {} THEN @ \union {g} ELSE @]

\* makeCombatReady
CombatReady(w, c) ==
    LET g  == w.in[c]
        f2 == [w.fight[g] EXCEPT !.begin = @ \ {c}]
    IN  [w EXCEPT !.fight[g] = f2,
                  !.due = IF Emptied(w.fight[g], f2) THEN @ \union {g} ELSE @]

\* makeTurnReady
TurnReady(w, c) ==
    LET g  == w.in[c]
        f2 == [w.fight[g] EXCEPT !.turn = @ \ {c}]
    IN  [w EXCEPT !.fight[g] = f2,
                  !.due = IF Emptied(w.fight[g], f2) THEN @ \union {g} ELSE @]

\* RMPlayer::exitCombat
ExitCombat(w, c) ==
    IF w.in[c] = None \/ ~w.fight[w.in[c]].cloud THEN w ELSE Delete(w, c)

\* ~CombatGroup of all of D, and what it leaves of the objects
Deleted(w, D) ==
    [w EXCEPT !.in = [c \in Chars |-> IF @[c] \in D THEN None ELSE @[c]],
              !.fight = [g \in Fights |-> IF g \in D THEN NoFight ELSE @[g]],
              !.dead = @ \ D]
Released(w, l, D) ==
    [o \in Loot |-> IF \E g \in D : w.fight[g].cloud /\ o \in w.fight[g].objects
                    THEN None ELSE l[o]]

-----------------------------------------------------------------------------
(* Starting a fight. *)

\* RMPlayer::engage: one side, a character or its party; refuse is who will
\* not fight another player
Side(x, live, refuse) ==
    IF Leader[x] = None THEN {x}
    ELSE {m \in here : Leader[m] = Leader[x] /\ m \in live \ (teleporting \union refuse)
                       /\ war.in[m] = None}

\* a side that stays empty: no cloud is made and the others are left where they are
Engage(a, d, live, refuse) ==
    LET A == Side(a, live, refuse)
        D == Side(d, live, refuse)
        cloud == A # {} /\ D # {}
        \* the NPCs are ready at once
        begin == IF cloud THEN (A \union D) \ Npcs ELSE A \union D
    IN  IF A \union D = {} THEN UNCHANGED war  \* nothing refers to the new fight
        ELSE \E g \in Fights :
            /\ ~war.fight[g].live
            /\ g \notin war.due \union war.dead /\ \A o \in Loot : loot[o] # g
            /\ war' = [war EXCEPT
                   !.in = [c \in Chars |-> IF c \in A \union D THEN g ELSE @[c]],
                   !.fight[g] = [NoFight EXCEPT !.live = TRUE, !.cloud = cloud,
                                   !.attackers = A, !.defenders = D, !.begin = begin],
                   !.due = IF cloud /\ begin = {} THEN @ \union {g} ELSE @]

\* VERB_ENGAGE
VerbEngage(p, d) ==
    /\ p # d
    /\ {p, d} \subseteq (here \intersect alive) \ teleporting
    /\ Leader[p] = None \/ Leader[p] # Leader[d]
    /\ war.in[p] = None /\ war.in[d] = None
    /\ \E refuse \in IF d \in Npcs THEN {{}} ELSE SUBSET (Players \ {p, d}) :
           Engage(p, d, alive, refuse)
    /\ UNCHANGED <<here, alive, teleporting, action, loot>>

\* an NPC jumps a player, one that is teleporting too
Jump(n, p) ==
    /\ {n, p} \subseteq here \intersect alive
    /\ war.in[n] = None /\ war.in[p] = None
    /\ Engage(n, p, alive, {})
    /\ UNCHANGED <<here, alive, teleporting, action, loot>>

\* an aggressive spell, which may kill: the NPC engages the caster
CastAt(p, n) ==
    /\ {n, p} \subseteq here \intersect alive
    /\ war.in[n] = None /\ war.in[p] = None
    /\ alive' \in {alive, alive \ {n}}
    /\ Engage(n, p, alive', {})
    /\ UNCHANGED <<here, teleporting, action, loot>>

-----------------------------------------------------------------------------
(* What players send during a fight. *)

\* _MOVIE_COMBAT_BEGIN
Begin(p) ==
    /\ war.in[p] # None
    /\ war' = CombatReady(war, p)
    /\ UNCHANGED <<here, alive, teleporting, action, loot>>

\* COMBAT_ACTION, setAction: an action that replaces another makes nobody ready
Choose(p) ==
    /\ war.in[p] # None
    /\ p \in alive
    /\ action' = action \union {p}
    /\ war' = IF p \in action THEN war ELSE TurnReady(war, p)
    /\ UNCHANGED <<here, alive, teleporting, loot>>

\* COMBAT_EXIT
Exit(p) ==
    /\ war.in[p] # None
    /\ war' = ExitCombat(war, p)
    /\ UNCHANGED <<here, alive, teleporting, action, loot>>

\* what a character lets fall belongs to its fight
Dropped(w, c, o) == [w EXCEPT !.fight[w.in[c]].objects = @ \union {o}]

Drop(c, o) ==
    /\ war.in[c] # None /\ loot[o] = None
    /\ war' = Dropped(war, c, o)
    /\ loot' = [loot EXCEPT ![o] = war.in[c]]
    /\ UNCHANGED <<here, alive, teleporting, action>>

\* GET of an object of the same fight
PickUp(p, o) ==
    /\ war.in[p] # None /\ loot[o] = war.in[p]
    /\ war' = [war EXCEPT !.fight[war.in[p]].objects = @ \ {o}]
    /\ loot' = [loot EXCEPT ![o] = None]
    /\ UNCHANGED <<here, alive, teleporting, action>>

\* COMBAT_FLEE: something is dropped on the way out
Flee(p) ==
    /\ war.in[p] # None /\ p \in alive
    /\ \/ war' = ExitCombat(war, p) /\ UNCHANGED loot
       \/ \E o \in Loot :
            /\ loot[o] = None
            /\ loot' = [loot EXCEPT ![o] = war.in[p]]
            /\ war' = ExitCombat(Dropped(war, p, o), p)
    /\ UNCHANGED <<here, alive, teleporting, action>>

-----------------------------------------------------------------------------
(* Coming and going. *)

Arrive(c) ==
    /\ c \notin here
    /\ here' = here \union {c}
    /\ alive' = alive \union {c}
    /\ UNCHANGED <<teleporting, action, war, loot>>

\* WorldObject::teleport, out of a fight too
Teleport(p) ==
    /\ p \in here \ teleporting
    /\ teleporting' = teleporting \union {p}
    /\ war' = ExitCombat(war, p)
    /\ UNCHANGED <<here, alive, action, loot>>

\* PLAYER_CHANGE_ROOM: gives the dead their health, but leaves no fight
ChangeRoom(p) ==
    /\ p \in here
    /\ p \in teleporting \/ war.in[p] = None
    /\ teleporting' = teleporting \ {p}
    /\ alive' = alive \union {p}
    /\ here' = IF war.in[p] = None THEN here \ {p} ELSE here
    /\ UNCHANGED <<action, war, loot>>

\* hung up, ~RMPlayer
Logout(p) ==
    /\ p \in here
    /\ here' = here \ {p}
    /\ war' = IF war.in[p] = None THEN war ELSE Delete(war, p)
    /\ alive' = alive \union {p} /\ teleporting' = teleporting \ {p}
    /\ action' = action \ {p}
    /\ UNCHANGED loot

\* an NPC that is not in a fight walks off, or is removed
NpcGone(n) ==
    /\ n \in here /\ war.in[n] = None
    /\ here' = here \ {n}
    /\ UNCHANGED <<alive, teleporting, action, war, loot>>

\* ~RMRoom of a room with no player in it: its NPCs go, and their fights
RoomGone ==
    LET D == {war.in[c] : c \in here} \ {None}
    IN  /\ here # {} /\ here \subseteq Npcs
        /\ war' = Deleted(war, D) /\ loot' = Released(war, loot, D)
        /\ here' = {}
        /\ UNCHANGED <<alive, teleporting, action>>

-----------------------------------------------------------------------------
(* The pulses. *)

\* the actions of all who were in the fight are gone
Spent(g) == action \ Combatants(war.fight[g])

\* doNPCLogic: NPCs leave that are dead or have nobody to fight - early are the
\* dead whose turn to leave came before -, the others are ready at once
Idle(f, live, early) ==
    {n \in Combatants(f) \intersect Npcs : n \notin live \/ Opposition(f, n) \subseteq early}

\* processActions after the actions: fled have left, f is who is in the fight then
NextRound(w, g, f, live, fled, early) ==
    LET gone == Idle(f, live, early)
        rest == Combatants(f) \ gone
    IN  [w EXCEPT
            !.in = [c \in Chars |-> IF c \in rest THEN g
                                    ELSE IF c \in fled \union gone THEN None ELSE @[c]],
            !.fight[g] = [f EXCEPT !.attackers = @ \ gone, !.defenders = @ \ gone,
                                   !.turn = rest \intersect Players, !.round = @ + 1],
            !.due  = IF rest # {} /\ rest \subseteq Npcs THEN @ \union {g} ELSE @ \ {g},
            !.dead = IF rest = {} THEN @ \union {g} ELSE @]

\* the fight after its actions: some have left, the side of c is joined, objects fell
Acted(f, flee, summon, c, fallen) ==
    LET left == [f EXCEPT !.attackers = @ \ flee, !.defenders = @ \ flee,
                          !.objects = @ \union fallen]
    IN  IF summon = {} THEN left
        ELSE [left EXCEPT !.attackers = IF c \in f.attackers THEN @ \union summon ELSE @,
                          !.defenders = IF c \in f.defenders THEN @ \union summon ELSE @]

\* one round: die and flee are who dies and leaves, summon is called by c, fallen dropped
Acts(g, die, flee, summon, c, early, fallen) ==
    LET live == (alive \ die) \union summon
        now  == Acted(war.fight[g], flee, summon, c, fallen)
    IN  /\ (summon = {}) <=> (c = None)
        /\ early \subseteq Combatants(now)
        /\ fallen # {} => die # {}
        /\ alive' = live
        /\ here' = here \union summon
        /\ action' = Spent(g)
        /\ war' = NextRound(war, g, now, live, flee, early)
        /\ loot' = [o \in Loot |-> IF o \in fallen THEN g ELSE loot[o]]
        /\ UNCHANGED teleporting

Fit(g) == Combatants(war.fight[g]) \intersect alive
Calls  == {{}} \union {{m} : m \in {n \in Npcs \ here : Leader[n] = None}}
Falls  == {{}} \union {{o} : o \in {x \in Loot : loot[x] = None}}

Round(g) ==
    \E die \in SUBSET Fit(g), summon \in Calls, c \in Fit(g) \union {None}, fallen \in Falls :
    \E flee \in SUBSET (Fit(g) \ die), early \in SUBSET (Npcs \ (alive \ die)) :
        Acts(g, die, flee, summon, c, early, fallen)

\* COMBAT_PULSE, one fight of the list
CombatPulse(g) ==
    /\ g \in war.due
    /\ LET f == war.fight[g]
       IN  IF f.live /\ f.cloud /\ f.round < MaxRounds THEN Round(g)
           ELSE /\ war' = [war EXCEPT !.due = @ \ {g}]
                /\ UNCHANGED <<here, alive, teleporting, action, loot>>

\* NPC_PULSE deletes the dead fights
NpcPulse ==
    /\ war.dead # {}
    /\ war' = Deleted(war, war.dead)
    /\ loot' = Released(war, loot, war.dead)
    /\ UNCHANGED <<here, alive, teleporting, action>>

-----------------------------------------------------------------------------

Next ==
    \/ \E g \in Fights : CombatPulse(g)
    \/ NpcPulse
    \/ RoomGone
    \/ \E p \in Players :
        \/ Begin(p) \/ Choose(p) \/ Exit(p) \/ Flee(p)
        \/ Teleport(p) \/ ChangeRoom(p) \/ Logout(p)
        \/ \E d \in Chars : VerbEngage(p, d)
        \/ \E n \in Npcs : Jump(n, p) \/ CastAt(p, n)
        \/ \E o \in Loot : PickUp(p, o)
    \/ \E c \in Chars : Arrive(c) \/ \E o \in Loot : Drop(c, o)
    \/ \E n \in Npcs : NpcGone(n)

Spec == Init /\ [][Next]_vars

\* Both pulses come every second, and every client answers: it shows the fight,
\* chooses an action, and takes a dead character out.
FairSpec ==
    /\ Spec
    /\ WF_vars(NpcPulse)
    /\ \A g \in Fights : WF_vars(CombatPulse(g))
    /\ \A p \in Players : WF_vars(Begin(p)) /\ WF_vars(Choose(p))
                         /\ WF_vars(p \notin alive /\ Exit(p))

-----------------------------------------------------------------------------
(* Properties. *)

TypeOK ==
    /\ here \subseteq Chars /\ alive \subseteq Chars
    /\ teleporting \subseteq Players /\ action \subseteq Players
    /\ war \in War
    /\ loot \in [Loot -> Fights \union {None}]

\* A character is in the lists of the one fight it points to, and of one side
\* only; whoever is waited for is in the fight; nothing refers to a dead fight.
ListsAgree ==
    /\ \A c \in Chars, g \in Fights : c \in Combatants(war.fight[g]) <=> war.in[c] = g
    /\ \A g \in Fights :
        LET f == war.fight[g]
        IN  /\ f.attackers \intersect f.defenders = {}
            /\ f.begin \union f.turn \subseteq Combatants(f)
            /\ ~f.live => f = NoFight
            /\ g \in war.dead => f.live /\ Combatants(f) = {}
            /\ \A o \in f.objects : loot[o] = g
    /\ \A c \in Chars : war.in[c] # None => c \in here

Orderly == TypeOK /\ ListsAgree

\* When a fight waits for nobody its next round is due.
NobodyForgotten ==
    \A g \in Fights :
        LET f == war.fight[g]
        IN  f.cloud /\ Combatants(f) # {} /\ f.begin = {} /\ f.turn = {} /\ f.round < MaxRounds
                => g \in war.due

\* Who is waited for has not chosen yet: its choice will count.
ChoiceCounts == \A g \in Fights : war.fight[g].turn \intersect action = {}

\* A round is never processed while somebody is waited for.
RoundAwaitsAll ==
    [][\A g \in Fights : war'.fight[g].round > war.fight[g].round =>
           war.fight[g].begin = {} /\ war.fight[g].turn = {}]_vars

\* A fight with a cloud leaves nothing behind that points to it.
ObjectsLetGo ==
    [][\A g \in Fights : war.fight[g].cloud /\ ~war'.fight[g].live =>
           \A o \in Loot : loot'[o] # g]_vars

\* A fight ends, or it goes on until rounds are no longer processed.
FightsEnd ==
    \A g \in Fights :
        war.fight[g].cloud ~> (~war.fight[g].live \/ war.fight[g].round = MaxRounds)
=============================================================================
