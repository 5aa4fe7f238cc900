------------------------------ MODULE Belongings ------------------------------
(***************************************************************************)
(* What the characters of one game server own: money, things, containers   *)
(* and what is in them (roommgr/bcarry.cpp, bcontain.cpp, bwear.cpp,       *)
(* bopen.cpp, bshop.cpp, and the handlers of rmplayer.cpp).                *)
(*                                                                         *)
(* An object is owned through two pointers: its own (BCarryable::_owner)   *)
(* and its holder's list (BContainer::contents).  An object that nobody    *)
(* owns is on the ground of a room.  All characters are in one room and    *)
(* alive, none is in combat; a weapon is a thing that is worn.  Mana moves *)
(* by the rules of gold and is left out, as are acceptors, quest gifts,    *)
(* locks and NPCs. That an object is too heavy, too bulky, cursed or above *)
(* its wearer's level is a choice. What the shop pays is made of values    *)
(* and its markup: the cases _STATE_WORTHLESS and _STATE_WHOLESALE and the *)
(* terms of health and of BUse in BShop::price and WorldObject::netWorth   *)
(* are left out, as for objects in full health without charges.            *)
(*                                                                         *)
(* A character that leaves is written to its record with all it owns, and  *)
(* what it owns is destroyed.  A record is read only at the next login;    *)
(* the saves in between matter only to a server that dies without its      *)
(* crash handler, which is left out.                                       *)
(***************************************************************************)
EXTENDS Integers, FiniteSetsExt

CONSTANTS
    Chars,
    Things, Bags, Piles,  \* what can be carried; a pile is an object made of money
    Chests,               \* containers that are part of the room
    Lidded,               \* containers with a BOpenable base
    Packs,                \* bags worn as a pack (_WEAR_PACK)
    Tossed,               \* containers with _STATE_TOSS: gone when emptied
    Accepting,            \* characters with autoGive
    Purse,                \* gold of the characters' first records
    Cost,                 \* value of an object the shop makes
    SellMarkup, BuyMarkup,\* of the shop, percent
    MaxGold,              \* MAX_GOLD_HELD
    IntMax,               \* the largest int
    MaxAmount,            \* bound: gold moved in one step
    None

Wearable  == Things \union Packs
Carryable == Things \union Bags \union Piles
Objects   == Carryable \union Chests
Boxes     == Bags \union Chests
Holders   == Chars \union Boxes

ASSUME BelongingsConstants ==
    /\ IsFiniteSet(Chars \union Objects)
    /\ Chars \intersect Objects = {} /\ None \notin Chars \union Objects
    /\ Things \intersect (Bags \union Piles \union Chests) = {}
    /\ Bags \intersect (Piles \union Chests) = {} /\ Piles \intersect Chests = {}
    /\ Lidded \subseteq Boxes /\ Packs \subseteq Bags /\ Tossed \subseteq Boxes
    /\ Accepting \subseteq Chars
    /\ Purse \in [Chars -> Nat] /\ Cost \in [Things \union Bags -> Nat]
    /\ MaxGold \in Nat /\ IntMax \in Nat /\ MaxAmount \in Nat
    /\ SellMarkup \in Nat /\ BuyMarkup \in Nat

\* no shop of the world pays more than it asks, and an empty bag is worth something
ASSUME ShopTerms ==
    /\ BuyMarkup <= SellMarkup /\ BuyMarkup <= 100
    /\ \A o \in Things \union Bags : Cost[o] * BuyMarkup >= 100

VARIABLES
    online,  \* characters in the room
    live,    \* objects in memory (gObjectArray)
    place,   \* [owner, contents, ground]: where the objects are
    worn,    \* objectWornOn, objectWieldedOn
    open,    \* BOpenable::isOpen
    value,   \* WorldObject::value of characters and objects
    record   \* characters' records, those of the characters that are offline

vars == <<online, live, place, worn, open, value, record>>

Place == [owner : [Carryable -> Holders \union {None}],
          contents : [Holders -> SUBSET Carryable],
          ground : SUBSET Objects]

NoRecord == [value |-> 0, items |-> {}, owner |-> <<>>, worth |-> <<>>, worn |-> {}]
Saved == UNION {record[c].items : c \in Chars \ online}

-----------------------------------------------------------------------------
(* Who owns what. *)

\* below h by owner pointers, at any depth
Owned(P, h) ==
    LET bags == {b \in Bags : \A B \in SUBSET Bags :
                    {x \in Bags : P.owner[x] \in {h} \union B} \subseteq B => b \in B}
    IN  {o \in Carryable : P.owner[o] \in {h} \union bags}

\* below h by contents lists, at any depth: what is saved and destroyed with h
Inside(P, h) ==
    LET bags == {b \in Bags : \A B \in SUBSET Bags :
                    (\A x \in {h} \union B : P.contents[x] \intersect Bags \subseteq B) => b \in B}
    IN  UNION {P.contents[x] : x \in {h} \union bags}

GetOwner(P, o) == IF o \in Carryable /\ P.owner[o] # None THEN P.owner[o] ELSE o

BaseOwner(P, o) ==
    LET h == GetOwner(P, o)
    IN  IF GetOwner(P, h) = h THEN h
        ELSE CHOOSE r \in Holders : GetOwner(P, r) = r /\ o \in Owned(P, r)

InRoom(P, o) == BaseOwner(P, o) \in P.ground \union online

\* mutant: GET and the others look at the immediate owner, not at the base owner
MayTouch_Immediate(p, P, o) == p \in online /\ GetOwner(P, o) \notin Chars \ {p}

\* owned by nobody, or by the player itself
MayTouch(p, P, o) == p \in online /\ BaseOwner(P, o) \notin Chars \ {p}

Shut(h) == h \in Lidded \ open

-----------------------------------------------------------------------------
(* A mutant of Into below: a plausible bug. *)

\* beGivenTo leaves the object in the contents of its old owner
Into_Twice(P, o, h) ==
    [owner    |-> [P.owner EXCEPT ![o] = h],
     contents |-> [P.contents EXCEPT ![h] = @ \union {o}],
     ground   |-> P.ground \ {o}]

-----------------------------------------------------------------------------
(* Moves. *)

Into(P, o, h) ==
    [owner    |-> [P.owner EXCEPT ![o] = h],
     contents |-> [x \in Holders |-> IF x = h THEN P.contents[x] \union {o}
                                     ELSE P.contents[x] \ {o}],
     ground   |-> P.ground \ {o}]

OnGround(P, o) ==
    [owner    |-> [P.owner EXCEPT ![o] = None],
     contents |-> [x \in Holders |-> P.contents[x] \ {o}],
     ground   |-> P.ground \union {o}]

\* delete: the objects of D are nowhere
Nowhere(P, D) ==
    [owner    |-> [o \in Carryable |-> IF o \in D THEN None ELSE P.owner[o]],
     contents |-> [x \in Holders |-> IF x \in D THEN {} ELSE P.contents[x] \ D],
     ground   |-> P.ground \ D]

\* BCarryable::beGivenTo; force is the override, fits the answer to its weight
BeGivenTo(P, o, h, force, fits) ==
    IF \/ h = o \/ P.owner[o] = h \/ h \in Owned(P, o)
       \/ ~force /\ (P.owner[o] = None \/ Shut(h))
       \/ ~fits
       \/ worn[o] # None
    THEN P ELSE Into(P, o, h)

\* WorldObject::take: asks the owner to give, or picks up from the ground
Take(P, o, p, fits) ==
    IF worn[o] # None \/ P.owner[o] = p THEN P
    ELSE IF P.owner[o] # None THEN BeGivenTo(P, o, p, FALSE, fits)
    ELSE IF o \in P.ground /\ fits THEN Into(P, o, p) ELSE P

\* WorldObject::drop
Drop(P, o, p, isWorn) == IF P.owner[o] = p /\ ~isWorn THEN OnGround(P, o) ELSE P

\* destroyObj with all that is inside
Doomed(P, D) == D \union UNION {Inside(P, h) : h \in D \intersect Boxes}

Gone(P, D) ==
    /\ place' = Nowhere(P, Doomed(P, D))
    /\ live' = live \ Doomed(P, D)
    /\ worn' = [o \in Carryable |-> IF o \in Doomed(P, D) THEN None ELSE worn[o]]
    /\ open' = open \ Doomed(P, D)

\* value after f, nothing for what is not in memory
ValueOf(S, f) == [x \in Chars \union Objects |-> IF x \in S THEN f[x] ELSE 0]

\* 32-bit addition
Wrap(x) == IF x > IntMax THEN x - 2 * (IntMax + 1) ELSE x

-----------------------------------------------------------------------------
(* Records. *)

\* writeCharacterData, and loadFromBuffer for what was owned
RecordOf(c, P, val) ==
    LET S == Inside(P, c)
    IN  [value |-> val[c], items |-> S,
         owner |-> [o \in S |-> CHOOSE h \in Holders : o \in P.contents[h]],
         worth |-> [o \in S |-> val[o]],
         worn  |-> {o \in S : worn[o] # None}]

NewRoom == [owner    |-> [o \in Carryable |-> None],
            contents |-> [h \in Holders |-> {}],
            ground   |-> Chests]

Init ==
    /\ online = {} /\ live = Chests /\ place = NewRoom /\ open = {}
    /\ worn = [o \in Carryable |-> None]
    /\ value = [x \in Chars \union Objects |-> 0]
    /\ record = [c \in Chars |-> [NoRecord EXCEPT !.value = Purse[c]]]

Login(c) ==
    LET r == record[c]
    IN  /\ c \notin online
        /\ online' = online \union {c}
        /\ live' = live \union r.items
        /\ place' = [place EXCEPT
                !.owner = [o \in Carryable |-> IF o \in r.items THEN r.owner[o] ELSE @[o]],
                !.contents = [h \in Holders |->
                    IF h \in {c} \union r.items THEN {o \in r.items : r.owner[o] = h}
                    ELSE @[h]]]
        /\ worn' = [o \in Carryable |-> IF o \in r.worn THEN r.owner[o] ELSE worn[o]]
        /\ value' = [x \in Chars \union Objects |->
                IF x = c THEN r.value ELSE IF x \in r.items THEN r.worth[x] ELSE value[x]]
        /\ record' = [record EXCEPT ![c] = NoRecord]
        /\ UNCHANGED open

\* hung up: writeCharacterData, then ~RMPlayer deletes the character
Logout(c) ==
    /\ c \in online
    /\ online' = online \ {c}
    /\ record' = [record EXCEPT ![c] = RecordOf(c, place, value)]
    /\ Gone(place, {c} \union Inside(place, c))
    /\ value' = ValueOf(live' \union online', value)

\* a signal: handleCrash writes every character; the server is started again
CrashFrom(P) ==
    /\ record' = [c \in Chars |-> IF c \in online THEN RecordOf(c, P, value) ELSE record[c]]
    /\ online' = {} /\ live' = Chests /\ place' = NewRoom /\ open' = {}
    /\ worn' = [o \in Carryable |-> None]
    /\ value' = [x \in Chars \union Objects |-> 0]

Crash == online # {} /\ CrashFrom(place)

-----------------------------------------------------------------------------
(* Money. *)

CanAfford(p, n) == n > 0 /\ value[p] >= n

\* MONEY_GIVE: what exceeds MAX_GOLD_HELD stays with the giver
Receivable(h, n) ==
    IF Wrap(value[h] + n) <= MaxGold THEN n
    ELSE IF value[h] <= MaxGold THEN MaxGold - value[h] ELSE 0

MoneyGive(p, h, n) ==
    LET m == Receivable(h, n)
        paid == [value EXCEPT ![p] = @ - m]
    IN  /\ h \in online \union (live \intersect Boxes)
        /\ h \in Chars => h \in Accepting
        /\ CanAfford(p, n)
        /\ value' = [paid EXCEPT ![h] = Wrap(@ + m)]
        /\ UNCHANGED <<online, live, place, worn, open, record>>

MoneyDrop(p, n) ==
    /\ CanAfford(p, n)
    /\ \E m \in Piles \ (live \union Saved) :
        /\ live' = live \union {m}
        /\ place' = OnGround(place, m)
        /\ value' = [value EXCEPT ![p] = @ - n, ![m] = n]
    /\ UNCHANGED <<online, worn, open, record>>

\* forceIn overrides everything, but a pile for what is no container is nowhere
MoneyPut(p, d, n) ==
    /\ d \in online \union live
    /\ MayTouch(p, place, d)
    /\ CanAfford(p, n)
    /\ \E m \in Piles \ (live \union Saved) :
        /\ live' = live \union {m}
        /\ place' = IF d \in Holders THEN BeGivenTo(place, m, d, TRUE, TRUE) ELSE place
        /\ value' = [value EXCEPT ![p] = @ - n, ![m] = n]
    /\ UNCHANGED <<online, worn, open, record>>

\* a tossable owner goes when one other object is left in it
TossedWith(m) ==
    LET h == GetOwner(place, m)
    IN  IF h \in Tossed /\ Cardinality(place.contents[h] \ {m}) = 1 THEN {h} ELSE {}

MoneyTake(p, m) ==
    LET total == Wrap(value[p] + value[m])
    IN  /\ m \in live \intersect Piles
        /\ InRoom(place, m) /\ MayTouch(p, place, m)
        /\ ~Shut(BaseOwner(place, m))
        /\ 0 <= total /\ total <= MaxGold
        /\ Gone(place, {m} \union TossedWith(m))
        /\ value' = ValueOf(live' \union online, [value EXCEPT ![p] = total])
        /\ UNCHANGED <<online, record>>

\* rob: no limit to what the thief holds
Rob(p, q, n) ==
    LET m == Min({value[q], n})
        lost == [value EXCEPT ![q] = @ - m]
    IN  /\ {p, q} \subseteq online
        /\ m # 0
        /\ value' = [lost EXCEPT ![p] = Wrap(@ + m)]
        /\ UNCHANGED <<online, live, place, worn, open, record>>

-----------------------------------------------------------------------------
(* The verbs. *)

\* GET closes the object, takes it, and stows what it took in a worn pack
Get(p, o) ==
    LET h == GetOwner(place, o)
    IN  /\ o \in live \intersect Carryable
        /\ InRoom(place, o) /\ MayTouch(p, place, o)
        /\ h # o => ~Shut(h)
        /\ \E fits, stows \in BOOLEAN :
            LET taken  == Take(place, o, p, fits)
                packs  == {k \in Packs : worn[k] = p}
                stowed == IF packs # {} /\ BaseOwner(place, o) # p /\ worn[o] = None
                          THEN BeGivenTo(taken, o, CHOOSE k \in packs : TRUE, FALSE, stows)
                          ELSE taken
                tossed == {x \in {h} \ {o} : taken # place /\ x \in Tossed
                                             /\ stowed.contents[x] = {}}
            IN  /\ place' = Nowhere(stowed, tossed)
                /\ live' = live \ tossed
                /\ open' = (open \ {o}) \ tossed
                /\ worn' = [x \in Carryable |-> IF x \in tossed THEN None ELSE worn[x]]
                /\ value' = ValueOf(live' \union online, value)
                /\ UNCHANGED <<online, record>>

Dropped(p, o) ==
    /\ o \in Owned(place, p)
    /\ place' = Drop(place, o, p, worn[o] # None)
    /\ UNCHANGED <<online, live, worn, open, value, record>>

\* the handler then looks at the player of the receiver, to save it
Give(p, o, h) ==
    /\ h \in online \union (live \intersect Boxes)
    /\ o \in Owned(place, p)
    /\ InRoom(place, h)
    /\ h \in Chars => h \in Accepting
    /\ \E fits \in BOOLEAN :
        LET given == BeGivenTo(place, o, h, FALSE, fits)
        IN IF h \in Chars
           THEN place' = given /\ UNCHANGED <<online, live, worn, open, value, record>>
           ELSE CrashFrom(given)

\* also what another has, from one place to another that the same one has
PutIn(p, o, h) ==
    /\ p \in online
    /\ o \in live \intersect Carryable
    /\ h \in online \union (live \intersect Boxes)
    /\ o # h
    /\ BaseOwner(place, o) \in {p, BaseOwner(place, h)}
    /\ InRoom(place, h)
    /\ place' = BeGivenTo(place, o, h, FALSE, TRUE)
    /\ UNCHANGED <<online, live, worn, open, value, record>>

\* one object of a kind at a time
PutOn(p, o) ==
    /\ o \in Wearable /\ place.owner[o] = p
    /\ worn[o] = None
    /\ o \in Packs => \A k \in Packs : worn[k] # p
    /\ worn' = [worn EXCEPT ![o] = p]
    /\ UNCHANGED <<online, live, place, open, value, record>>

TakeOff(p, o) ==
    /\ o \in Wearable /\ worn[o] = p
    /\ worn' = [worn EXCEPT ![o] = None]
    /\ UNCHANGED <<online, live, place, open, value, record>>

\* only what is on the ground can be opened
Open(p, o) ==
    /\ p \in online
    /\ o \in (live \intersect Lidded) \ open
    /\ InRoom(place, o) /\ GetOwner(place, o) = o
    /\ open' = open \union {o}
    /\ UNCHANGED <<online, live, place, worn, value, record>>

Close(p, o) ==
    /\ p \in online
    /\ o \in open
    /\ InRoom(place, o)
    /\ open' = open \ {o}
    /\ UNCHANGED <<online, live, place, worn, value, record>>

\* RMPlayer::die drops one object: takes it off, takes it in hand, drops it
Die(p, o) ==
    /\ o \in Inside(place, p) \intersect Things
    /\ \E off, fits \in BOOLEAN :
        LET isWorn == worn[o] # None /\ ~off
            held == IF isWorn \/ place.owner[o] = p THEN place
                    ELSE BeGivenTo(place, o, p, FALSE, fits)
        IN  /\ place' = Drop(held, o, p, isWorn)
            /\ worn' = IF isWorn THEN worn ELSE [worn EXCEPT ![o] = None]
            /\ UNCHANGED <<online, live, open, value, record>>

-----------------------------------------------------------------------------
(* The shop. *)

Fraction(v) == (v * BuyMarkup) \div 100

\* netWorth of one object, and of an object with all that is in it
Resale(val, o) == Max({1, Fraction(val[o])})
NetWorth(o) ==
    SumFunctionOnSet([x \in Objects |-> Resale(value, x)], {o} \union Inside(place, o))

\* mutant: a container that stays with its seller is paid for all the same
Price_Whole(o) == IF o \in Bags THEN NetWorth(o) ELSE Resale(value, o)

\* BShop::price: a container that is not empty stays with its seller
Price(o) ==
    IF o \in Bags /\ place.contents[o] # {}
    THEN NetWorth(o) - Fraction(value[o])
    ELSE Resale(value, o)

ShopBuy(p, o) ==
    LET cost == (Cost[o] * SellMarkup) \div 100
    IN  /\ p \in online
        /\ o \in (Things \union Bags) \ (live \union Saved)
        /\ value[p] >= cost
        /\ live' = live \union {o}
        /\ place' = BeGivenTo(place, o, p, TRUE, TRUE)
        /\ value' = [value EXCEPT ![p] = @ - cost, ![o] = Cost[o]]
        /\ UNCHANGED <<online, worn, open, record>>

\* BShop::buy
ShopSell(p, o) ==
    /\ o \in Owned(place, p)
    /\ worn[o] = None
    /\ Gone(place, IF o \in Bags /\ place.contents[o] # {} THEN place.contents[o] ELSE {o})
    /\ value' = ValueOf(live' \union online, [value EXCEPT ![p] = Wrap(@ + Price(o))])
    /\ UNCHANGED <<online, record>>

-----------------------------------------------------------------------------

\* the requests of a player about what it owns; robbing apart
Request(p) ==
    \/ \E n \in 1 .. MaxAmount :
        \/ \E h \in Holders : MoneyGive(p, h, n)
        \/ \E d \in Chars \union Objects : MoneyPut(p, d, n)
        \/ MoneyDrop(p, n)
    \/ \E m \in Piles : MoneyTake(p, m)
    \/ \E o \in Carryable :
        \/ Get(p, o) \/ Dropped(p, o) \/ Die(p, o) \/ ShopSell(p, o)
        \/ PutOn(p, o) \/ TakeOff(p, o)
        \/ \E h \in Holders : Give(p, o, h) \/ PutIn(p, o, h)
    \/ \E o \in Boxes : Open(p, o) \/ Close(p, o)
    \/ \E o \in Things \union Bags : ShopBuy(p, o)

Next ==
    \/ \E c \in Chars : Login(c) \/ Logout(c)
    \/ \E p \in Chars :
        \/ Request(p)
        \/ \E q \in Chars, n \in 1 .. MaxAmount : Rob(p, q, n)
    \/ Crash

Spec == Init /\ [][Next]_vars

-----------------------------------------------------------------------------
(* Properties. *)

TypeOK ==
    /\ online \subseteq Chars /\ live \subseteq Objects
    /\ place \in Place
    /\ worn \in [Carryable -> Chars \union {None}]
    /\ open \subseteq Lidded
    /\ value \in [Chars \union Objects -> Int]

\* The two pointers of ownership agree, and they name what is in memory.
PointersAgree ==
    /\ \A o \in Carryable, h \in Holders : o \in place.contents[h] <=> place.owner[o] = h
    /\ \A o \in Carryable : place.owner[o] # None =>
          o \in live /\ place.owner[o] \in online \union live
    /\ \A o \in place.ground : o \in live /\ GetOwner(place, o) = o

\* What is worn is in the hands of the wearer.
WornIsHeld == \A o \in Carryable : worn[o] # None => place.owner[o] = worn[o]

\* No container is inside itself: the loops over owners end.
NoCycle == \A o \in Carryable : o \notin Owned(place, o)

\* What somebody carries is closed: nothing gets into it.
CarriedIsClosed == open \subseteq place.ground

\* An object is in memory or in one record; only a pile can be nowhere.
OneCopy ==
    /\ \A c \in Chars : record[c].items \intersect live = {}
    /\ \A c, d \in Chars : c # d => record[c].items \intersect record[d].items = {}
    /\ \A o \in live \ Piles : o \in place.ground \/ GetOwner(place, o) # o

Orderly == TypeOK /\ PointersAgree /\ WornIsHeld /\ NoCycle /\ CarriedIsClosed /\ OneCopy

\* All gold, and what the shop would pay for all objects.
Worth(val, o) == IF o \in Piles THEN val[o] ELSE IF o \in Chests THEN 0 ELSE Resale(val, o)
Gold(c) == IF c \in online THEN value[c] ELSE record[c].value
Stored(r) == SumFunction([o \in r.items |-> Worth(r.worth, o)])
Wealth == SumFunction([c \in Chars |-> Gold(c) + Stored(record[c])])
          + SumFunction([o \in live |-> Worth(value, o)])

\* No step makes wealth: nothing is doubled, and no way through the shop pays.
NoMinting == [][Wealth' <= Wealth]_vars

\* What a character has, in the room or in its record.
Estate(c) == IF c \in online THEN Owned(place, c) ELSE record[c].items

\* No request of a player takes an object, or gold, from another character.
HandsOff ==
    [][\A c \in Chars : ~(Estate(c) \subseteq Estate(c)' /\ Gold(c) <= Gold(c)') =>
           \A p \in Chars \ {c} : ~Request(p)]_vars

=============================================================================
