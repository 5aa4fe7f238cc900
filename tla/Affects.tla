-------------------------------- MODULE Affects --------------------------------
(***************************************************************************)
(* Effects on characters and things of one game server: affect_t records   *)
(* on WorldObject::activeAffects, the list gAffectedObjects of objects     *)
(* whose effects have to be aged, and the powers that a worn thing gives   *)
(* to its wearer (roommgr/wobject.cpp, magic.cpp, rmplayer.cpp).           *)
(*                                                                         *)
(* The order of an object's list is left out: it is a bag of effects.      *)
(* All characters are players in one room, no thing is cursed, and whether *)
(* there is a free place for a thing to be worn is a choice, as are the    *)
(* damage done, the success of a spell and the load that makes a character *)
(* drop things. Marks and curses of the gods, which do not age in combat,  *)
(* are left out, as are gifts other than poison; and regeneration, which   *)
(* processAffects carries out as a negative damage: it too ends a freeze   *)
(* in the middle of the walk over the list, so that the effects after it   *)
(* can be passed over without poison.                                      *)
(***************************************************************************)
EXTENDS Integers, Bags, FiniteSets

CONSTANTS
    Chars, Things,
    Blessings,           \* what a spell makes that its caster's auras absorb
    Poisoned, Freeze,    \* _AFF_POISONED, _AFF_FREEZE
    Permanency, Enchant, \* the auras _AFF_PERMANENCY and _AFF_ENCHANT_ITEM
    Long,                \* bound: the longest duration of each effect
    Ground, Gone         \* where a thing is that nobody has

Auras == {Permanency, Enchant}
Ids   == Blessings \union Auras \union {Poisoned, Freeze}

ASSUME AffectsConstants ==
    /\ Chars \intersect Things = {}
    /\ {Ground, Gone} \intersect Chars = {} /\ Ground # Gone
    /\ Blessings \intersect (Auras \union {Poisoned, Freeze}) = {}
    /\ Poisoned \notin Auras /\ Freeze \notin Auras \union {Poisoned}
    /\ Permanency # Enchant
    /\ Long \in [Ids \ Auras -> Nat \ {0}]
    /\ IsFiniteSet(Things)

VARIABLES
    affs,   \* activeAffects; while its owner is away, what the record holds
    listed, \* gAffectedObjects
    place,  \* where each thing is
    worn,   \* things with objectWornOn or objectWieldedOn
    online, \* characters in the room
    alive   \* characters with health

vars == <<affs, listed, place, worn, online, alive>>

Objects == Chars \union Things
Forever == -1
Sources == {"spell", "gift", "wearer", "permanent", "temporary"}
Effect  == [id : Ids, source : Sources, dur : Int]

\* the wearer of a thing, or who carries it
Carried(c) == {t \in Things : place[t] = c}
InWorld(x) == x \in online \/ (x \in Things /\ place[x] \in online \union {Ground})

Copies(e, b)    == IF BagIn(e, b) THEN b[e] ELSE 0
Has(b, i)       == {e \in BagToSet(b) : e.id = i}
HasFrom(b, i, s) == {e \in Has(b, i) : e.source = s}
Timed(b)        == {e \in BagToSet(b) : e.dur # Forever}

-----------------------------------------------------------------------------
(* Mutants of definitions below: plausible bugs. *)

\* a wearer's borrowed powers are read back from its record
Loaded_Borrowed(x, b) ==
    SetToBag({e \in BagToSet(b) : x \in Chars => e.source \notin {"permanent", "wearer"}})

\* an object leaves the list with the first effect it loses
StillListed_Any(x, b) == x \in Chars

\* a spell renews whatever effect of its kind it finds
Renewed_AnySource(b, e) ==
    IF Has(b, e.id) = {} THEN b (+) SetToBag({e})
    ELSE (b (-) SetToBag({CHOOSE o \in Has(b, e.id) : TRUE})) (+) SetToBag({e})

-----------------------------------------------------------------------------
(* The records of one object. *)

\* what addAffect makes of a cast: the spell's effect is renewed, or made
Renewed(b, e) ==
    LET old == HasFrom(b, e.id, e.source)
    IN  IF old = {} THEN b (+) SetToBag({e})
        ELSE (b (-) SetToBag({CHOOSE o \in old : TRUE})) (+) SetToBag({e})

\* delAffect: a thing with no timed effect left has nothing to age
StillListed(x, b) == x \in Chars \/ Timed(b) # {}

\* durations of T go down, and what is over is deleted
Aged(b, T) ==
    (b (-) SetToBag(T)) (+) SetToBag({[e EXCEPT !.dur = @ - 1] : e \in {t \in T : t.dur > 1}})

\* loadAffectsFromBuffer
Loaded(x, b) ==
    SetToBag({e \in BagToSet(b) : /\ e.source # "temporary"
                                  /\ x \in Chars => e.source \notin {"permanent", "wearer"}})

\* what a thing gives its wearer, and the powers that come of all things in S
Given(t)  == {[e EXCEPT !.source = "temporary"] : e \in {f \in BagToSet(affs[t]) : f.source = "wearer"}}
Powers(S) == [e \in UNION {Given(t) : t \in S} |-> Cardinality({t \in S : e \in Given(t)})]

\* transferWearerAffects and removeWearerAffects
Lend(b, S)     == b (+) Powers(S)
TakeBack(b, S) == b (-) Powers(S)

\* delAffect of the effects D of x
Delete(x, D) ==
    LET b == affs[x] (-) SetToBag(D)
    IN  /\ affs' = [affs EXCEPT ![x] = b]
        /\ listed' = IF StillListed(x, b) THEN listed ELSE listed \ {x}

-----------------------------------------------------------------------------
(* Spells. *)

\* addAffect lists the object, a renewal does not
ListedBy(x, e) == IF HasFrom(affs[x], e.id, e.source) = {} THEN listed \union {x} ELSE listed

\* castSpell's last part: an aura absorbs the effect e just cast on x
Absorbs(x, e, aura, source) ==
    LET b == Renewed(affs[x], e) (-) SetToBag(HasFrom(affs[x], aura, "spell"))
        c == b (-) SetToBag({e})
    IN  IF HasFrom(b, e.id, source) # {}
        THEN /\ affs' = [affs EXCEPT ![x] = c]
             /\ listed' = IF StillListed(x, c) THEN ListedBy(x, e) ELSE listed \ {x}
        ELSE /\ affs' = [affs EXCEPT ![x] = c (+) SetToBag({[id |-> e.id, source |-> source, dur |-> Forever]})]
             /\ listed' = ListedBy(x, e)

\* a spell that makes an effect, on a character or a thing; the casts of the
\* auras leave one aura at most
Cast(x) ==
    /\ InWorld(x)
    /\ \E i \in Blessings : \E d \in 1..Long[i] :
          LET e == [id |-> i, source |-> "spell", dur |-> d]
          IN  IF HasFrom(affs[x], Permanency, "spell") # {} THEN Absorbs(x, e, Permanency, "permanent")
              ELSE IF HasFrom(affs[x], Enchant, "spell") # {} THEN Absorbs(x, e, Enchant, "wearer")
              ELSE /\ affs' = [affs EXCEPT ![x] = Renewed(@, e)]
                   /\ listed' = ListedBy(x, e)
    /\ UNCHANGED <<place, worn, online, alive>>

\* castPermanency and castEnchantItem: the thing is ready for a spell ...
CastAura(t) ==
    /\ InWorld(t)
    /\ \A a \in Auras : Has(affs[t], a) = {}
    /\ \E a \in Auras : affs' = [affs EXCEPT ![t] = @ (+) SetToBag({[id |-> a, source |-> "spell", dur |-> Forever]})]
    /\ UNCHANGED <<listed, place, worn, online, alive>>

\* ... or it is destroyed
AuraDestroys(t) ==
    /\ InWorld(t)
    /\ \A a \in Auras : Has(affs[t], a) = {}
    /\ affs' = [x \in Objects |-> IF x = t THEN EmptyBag
                                  ELSE IF t \in worn /\ x = place[t] THEN TakeBack(affs[x], {t})
                                  ELSE affs[x]]
    /\ place' = [place EXCEPT ![t] = Gone]
    /\ worn' = worn \ {t}
    /\ listed' = listed \ {t}
    /\ UNCHANGED <<online, alive>>

\* castDispelMagic tosses some of the effects that spells made
CastDispelMagic(x) ==
    /\ InWorld(x)
    /\ \E D \in SUBSET {e \in BagToSet(affs[x]) : e.source = "spell"} :
          D # {} /\ Delete(x, D)
    /\ UNCHANGED <<place, worn, online, alive>>

\* castFREEZE: a freeze from any source is renewed, no aura absorbs it; its
\* target is a player, and players are listed as long as they are there
CastFreeze(c) ==
    /\ c \in online
    /\ \E d \in 1..Long[Freeze] :
          LET e == [id |-> Freeze, source |-> "spell", dur |-> d]
          IN  affs' = [affs EXCEPT ![c] = Renewed(@, e)]
    /\ UNCHANGED <<listed, place, worn, online, alive>>

\* castCURE_POISON, and castPURIFY when little is left
CastCurePoison(c) ==
    /\ c \in online
    /\ \E e \in Has(affs[c], Poisoned) : Delete(c, {e})
    /\ UNCHANGED <<place, worn, online, alive>>

-----------------------------------------------------------------------------
(* Damage, death and the passing of time. *)

\* changeHealth and die: a player that dies takes off and drops the things S
Struck(c, b, S) ==
    /\ affs' = [affs EXCEPT ![c] = TakeBack(b, S \intersect worn)
                                       (-) SetToBag(HasFrom(b, Freeze, "spell"))]
    /\ place' = [t \in Things |-> IF t \in S THEN Ground ELSE place[t]]
    /\ worn' = worn \ S

Survives(c, b) == Struck(c, b, {}) /\ UNCHANGED alive
Dies(c, b) ==
    /\ \E S \in SUBSET Carried(c) : Struck(c, b, S)
    /\ alive' = alive \ {c}

\* takeDamage: a hit, which may poison; damage ends a freeze
TakeDamage(c) ==
    /\ c \in online \intersect alive
    /\ \E b \in {affs[c]} \union
                {Renewed(affs[c], [id |-> Poisoned, source |-> "gift", dur |-> d]) : d \in 1..Long[Poisoned]} :
          Survives(c, b) \/ Dies(c, b)
    /\ UNCHANGED <<listed, online>>

\* processAffects, by the pulse or at the end of a round of combat
ProcessAffects(x) ==
    LET b == Aged(affs[x], Timed(affs[x]))
    IN  /\ x \in listed /\ InWorld(x)
        /\ affs' = [affs EXCEPT ![x] = b]
        /\ listed' = IF StillListed(x, b) \/ \A e \in Timed(affs[x]) : e.dur > 1
                     THEN listed ELSE listed \ {x}
        /\ UNCHANGED <<place, worn, online, alive>>

\* processAffects of a character that loses health to poison: when the
\* damage deletes the effect that the loop has kept as the next one, the
\* effects after it are passed over
PoisonBites(c) ==
    LET b == affs[c]
        timed == Timed(b) \ HasFrom(b, Freeze, "spell")
    IN  /\ c \in listed \intersect online \intersect alive
        /\ \E e \in timed : e.id = Poisoned
        /\ \E late \in SUBSET {e \in timed : e.id # Poisoned} :
              \/ /\ late = {} \/ HasFrom(b, Freeze, "spell") # {}
                 /\ Survives(c, Aged(b, timed \ late))
              \/ /\ late = {} \/ HasFrom(b, Freeze, "spell") # {} \/ Carried(c) \intersect worn # {}
                 /\ Dies(c, Aged(b, timed \ late))
        /\ UNCHANGED <<listed, online>>

\* CHANGE_ROOM of a dead character
Revive(c) ==
    /\ c \in online \ alive
    /\ affs' = [affs EXCEPT ![c] = @ (-) SetToBag(Has(@, Poisoned))]
    /\ alive' = alive \union {c}
    /\ UNCHANGED <<listed, place, worn, online>>

-----------------------------------------------------------------------------
(* Things are taken, worn, taken off and dropped. *)

Take(c, t) ==
    /\ c \in online \intersect alive /\ place[t] = Ground
    /\ place' = [place EXCEPT ![t] = c]
    /\ UNCHANGED <<affs, listed, worn, online, alive>>

Drop(c, t) ==
    /\ c \in online \intersect alive /\ place[t] = c /\ t \notin worn
    /\ place' = [place EXCEPT ![t] = Ground]
    /\ UNCHANGED <<affs, listed, worn, online, alive>>

PutOn(c, t) ==
    /\ c \in online \intersect alive /\ place[t] = c /\ t \notin worn
    /\ worn' = worn \union {t}
    /\ affs' = [affs EXCEPT ![c] = Lend(@, {t})]
    /\ UNCHANGED <<listed, place, online, alive>>

TakeOff(c, t) ==
    /\ c \in online \intersect alive /\ place[t] = c /\ t \in worn
    /\ worn' = worn \ {t}
    /\ affs' = [affs EXCEPT ![c] = TakeBack(@, {t})]
    /\ UNCHANGED <<listed, place, online, alive>>

\* dropUntilUnencumbered: forceOff, forceOut
ForceDrop(c, t) ==
    /\ c \in online /\ place[t] = c
    /\ worn' = worn \ {t}
    /\ affs' = [affs EXCEPT ![c] = TakeBack(@, {t} \intersect worn)]
    /\ place' = [place EXCEPT ![t] = Ground]
    /\ UNCHANGED <<listed, online, alive>>

-----------------------------------------------------------------------------
(* Leaving and coming back. *)

\* writeAffectsToBuffer, for the character and its things; all are destroyed
Leave(c) ==
    /\ c \in online
    /\ online' = online \ {c}
    /\ listed' = listed \ ({c} \union Carried(c))
    /\ UNCHANGED <<affs, place, worn, alive>>

\* loadFromBuffer of the character, of its things, which are worn again if
\* forceOn lets them; then newRoom
Enter(c) ==
    /\ c \notin online
    /\ LET own == Loaded(c, affs[c]) (-)
                  SetToBag(IF c \in alive THEN {} ELSE Has(affs[c], Poisoned))
       IN  \E on \in SUBSET (Carried(c) \intersect worn) :
              /\ worn' = (worn \ Carried(c)) \union on
              /\ affs' = [x \in Objects |-> IF x = c THEN Lend(own, on)
                                            ELSE IF x \in Carried(c) THEN Loaded(x, affs[x])
                                            ELSE affs[x]]
    /\ listed' = listed \union {c} \union {t \in Carried(c) : Timed(affs[t]) # {}}
    /\ online' = online \union {c}
    /\ alive' = alive \union {c}
    /\ UNCHANGED place

-----------------------------------------------------------------------------
Init ==
    /\ affs = [x \in Objects |-> EmptyBag]
    /\ listed = Chars
    /\ place = [t \in Things |-> Ground]
    /\ worn = {}
    /\ online = Chars
    /\ alive = Chars

Next ==
    \/ \E x \in Objects : Cast(x) \/ CastDispelMagic(x) \/ ProcessAffects(x)
    \/ \E t \in Things : CastAura(t) \/ AuraDestroys(t)
    \/ \E c \in Chars : \/ CastFreeze(c) \/ CastCurePoison(c) \/ TakeDamage(c)
                        \/ PoisonBites(c) \/ Revive(c) \/ Leave(c) \/ Enter(c)
    \/ \E c \in Chars, t \in Things : \/ Take(c, t) \/ Drop(c, t) \/ ForceDrop(c, t)
                                     \/ PutOn(c, t) \/ TakeOff(c, t)

Spec == Init /\ [][Next]_vars

-----------------------------------------------------------------------------
(* Properties. *)

TypeOK ==
    /\ DOMAIN affs = Objects
    /\ \A x \in Objects :
          /\ IsABag(affs[x]) /\ BagToSet(affs[x]) \subseteq Effect
          /\ \A e \in Timed(affs[x]) : e.id \notin Auras /\ e.dur \in 1..Long[e.id]
    /\ listed \subseteq Objects /\ online \subseteq Chars /\ alive \subseteq Chars
    /\ place \in [Things -> Chars \union {Ground, Gone}]
    /\ worn \subseteq Things /\ \A t \in worn : place[t] \in Chars

\* no two effects of a kind from one source: what wobject.hpp calls mutex,
\* and what hasAffect before every addAffect is for
Single(b) ==
    \A e, f \in BagToSet(b) :
        e.id = f.id /\ e.source = f.source /\ e.source # "temporary" => e = f /\ Copies(e, b) = 1

Mutex == \A x \in Objects : Single(affs[x])

\* an object in the world with an effect that runs out is in gAffectedObjects,
\* or nothing would age it; and no object is there after it was destroyed
TimedAreListed ==
    /\ \A x \in Objects : InWorld(x) /\ Timed(affs[x]) # {} => x \in listed
    /\ \A x \in listed : InWorld(x)

Orderly == TypeOK /\ Mutex /\ TimedAreListed

\* a character has no power of a worn thing twice, and none of a thing that it
\* no longer wears, whichever way the thing was lost
WornPowers ==
    \A c \in online : \A e \in BagToSet(affs[c]) :
        e.source = "temporary" =>
            /\ e.dur = Forever
            /\ Copies(e, affs[c]) <= Cardinality({t \in worn \intersect Carried(c) : e \in Given(t)})

\* what is enchanted for ever into a thing stays there as long as the thing
\* does: no spell, pulse, dispel or reload takes it out or gives it a term
EnchantmentsLast ==
    [][\A t \in Things : place'[t] # Gone =>
          \A e \in BagToSet(affs[t]) :
             e.source \in {"wearer", "permanent"} => BagIn(e, affs'[t])]_vars
=============================================================================
