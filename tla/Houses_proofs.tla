----------------------------- MODULE Houses_proofs ------------------------------
(***************************************************************************)
(* For any number of characters, slots and messages under way:             *)
(*   - whose house one enters: the number a character was told is not      *)
(*     trusted, the name is compared, and no building goes while somebody  *)
(*     is inside (Inv, the first part);                                    *)
(*   - what is left in a house is there when it is loaded again, and the   *)
(*     names asked for are the last of gLoadingHouses (Whole, the rest).   *)
(*                                                                         *)
(* Whole is about the sequence of everything under way, the next reply of  *)
(* the data manager first, its newest request last.  What is left in the   *)
(* house of n is in memory and marked as changed, or is the data of the    *)
(* newest write under way, or of the row if there is none (SavedInv); or   *)
(* the house is about to be deleted and nobody asks for it before that.    *)
(***************************************************************************)
EXTENDS Houses, SequenceTheorems, FiniteSetTheorems, TLAPS

\* b has the fields of a building
IsBuilding(b) ==
    b = [owner |-> b.owner, id |-> b.id, data |-> b.data, changed |-> b.changed, delay |-> b.delay]

Shape ==
    /\ at \in [Names -> States]
    /\ bld = [s \in Slots |-> bld[s]] /\ \A s \in Slots : IsBuilding(bld[s])

Inv == Shape /\ NobodyOutside

\* where the characters are in houses stays, or gets less
Stays == /\ at' \in [Names -> States]
         /\ \A c \in Names : at'[c] \in Slots => at'[c] = at[c]

Buildings(B) == B = [s \in Slots |-> B[s]] /\ \A s \in Slots : IsBuilding(B[s])

\* buildings change, but those anybody is inside keep their owners
Kept == /\ Buildings(bld')
        /\ \A s \in Slots : Live(s) /\ (\E c \in Names : at'[c] = s) => bld'[s].owner = bld[s].owner

LEMMA StatesApart ==
    /\ \A p \in {Off, Making, Waiting, Placed, Lost, Town} : p \in States /\ p \notin Slots
    /\ None \notin Slots
    /\ Slots \subseteq States
BY HouseConstants DEF States

LEMMA StaysKept ==
    ASSUME Inv, Stays, Kept
    PROVE  Inv'
<1>1. Shape'
  BY DEF Stays, Kept, Shape, Buildings
<1>2. NobodyOutside'
  BY DEF Inv, Stays, Kept, NobodyOutside, Live
<1> QED BY <1>1, <1>2 DEF Inv

\* one character goes to a place that is no house
LEMMA Leaves ==
    ASSUME Inv, NEW c, NEW p \in {Off, Making, Waiting, Placed, Lost, Town},
           at' = [at EXCEPT ![c] = p]
    PROVE  Stays
BY StatesApart DEF Inv, Shape, Stays

LEMMA AtStays == ASSUME Inv, at' = at PROVE Stays
BY DEF Inv, Shape, Stays

LEMMA BldKept == ASSUME Inv, bld' = bld PROVE Kept
BY DEF Inv, Shape, Kept, Buildings

\* a building that is looked up, settled or changed is one, with the same owner
LEMMA Delayed ==
    ASSUME NEW b, IsBuilding(b), NEW n
    PROVE  IsBuilding([b EXCEPT !.delay = n]) /\ [b EXCEPT !.delay = n].owner = b.owner
<1> DEFINE lit == [owner |-> b.owner, id |-> b.id, data |-> b.data, changed |-> b.changed,
                   delay |-> n]
<1>1. [b EXCEPT !.delay = n] = lit
  BY DEF IsBuilding
<1>2. IsBuilding(lit) /\ lit.owner = b.owner
  BY DEF IsBuilding
<1> QED BY <1>1, <1>2

LEMMA FlagChanged ==
    ASSUME NEW b, IsBuilding(b), NEW v
    PROVE  IsBuilding([b EXCEPT !.changed = v]) /\ [b EXCEPT !.changed = v].owner = b.owner
<1> DEFINE lit == [owner |-> b.owner, id |-> b.id, data |-> b.data, changed |-> v,
                   delay |-> b.delay]
<1>1. [b EXCEPT !.changed = v] = lit
  BY DEF IsBuilding
<1>2. IsBuilding(lit) /\ lit.owner = b.owner
  BY DEF IsBuilding
<1> QED BY <1>1, <1>2

LEMMA Changed ==
    ASSUME NEW b, IsBuilding(b), NEW d
    PROVE  /\ IsBuilding([b EXCEPT !.data = d, !.changed = TRUE])
           /\ [b EXCEPT !.data = d, !.changed = TRUE].owner = b.owner
<1> DEFINE y == [b EXCEPT !.data = d]
           lit == [owner |-> b.owner, id |-> b.id, data |-> d, changed |-> b.changed,
                   delay |-> b.delay]
<1>1. y = lit
  BY DEF IsBuilding
<1>2. IsBuilding(lit) /\ lit.owner = b.owner
  BY DEF IsBuilding
<1>3. IsBuilding(y) /\ y.owner = b.owner
  BY <1>1, <1>2
<1>4. [y EXCEPT !.changed = TRUE] = [b EXCEPT !.data = d, !.changed = TRUE]
  OBVIOUS
<1> HIDE DEF y
<1>5. /\ IsBuilding([y EXCEPT !.changed = TRUE])
      /\ [y EXCEPT !.changed = TRUE].owner = y.owner
  BY ONLY <1>3, FlagChanged
<1> QED BY <1>3, <1>4, <1>5

LEMMA SettledFacts ==
    ASSUME NEW b, IsBuilding(b), NEW x \in Settled(b)
    PROVE  IsBuilding(x) /\ x.owner = b.owner
<1>1. CASE x = b
  BY <1>1
<1>2. CASE \E d \in Data : x = [b EXCEPT !.data = d, !.changed = TRUE]
  <2>1. PICK d \in Data : x = [b EXCEPT !.data = d, !.changed = TRUE]
    BY <1>2
  <2> QED BY ONLY <2>1, Changed, IsBuilding(b)
<1> QED BY <1>1, <1>2 DEF Settled

LEMMA TouchedFacts ==
    ASSUME NEW b, IsBuilding(b)
    PROVE  IsBuilding(Touched(b)) /\ Touched(b).owner = b.owner
BY Delayed DEF Touched

LEMMA OneKept ==
    ASSUME Inv, NEW s \in Slots, NEW b, IsBuilding(b), bld' = [bld EXCEPT ![s] = b],
           b.owner = bld[s].owner \/ ~Live(s)
    PROVE  Kept
BY DEF Inv, Shape, Kept, Live, Buildings

LEMMA MovedFacts ==
    ASSUME NEW B, Buildings(B), NEW c, NEW from, NEW to
    PROVE  /\ Buildings(Moved(B, c, from, to))
           /\ \A s \in Slots : Moved(B, c, from, to)[s].owner = B[s].owner
BY TouchedFacts DEF Buildings, Moved

-----------------------------------------------------------------------------
(* The steps of characters. *)

LEMMA ActStays ==
    ASSUME Inv, NEW c \in Names, Act(c)
    PROVE  \/ Stays /\ Kept
           \/ \E num \in Slots \union {Town} : ChangeRoom(c, num)
<1>0. /\ Buildings(bld) /\ \A s \in Slots : IsBuilding(bld[s])
      /\ \A s \in Slots : IsBuilding(Touched(bld[s])) /\ Touched(bld[s]).owner = bld[s].owner
  BY TouchedFacts DEF Inv, Shape, Buildings
<1>1. CASE Create(c)
  BY <1>1, Leaves, BldKept DEF Create
<1>2. CASE GetPosnTown(c)
  BY <1>2, Leaves, BldKept DEF GetPosnTown
<1>3. ASSUME NEW s \in Slots, GetPosnHome(c, s) PROVE Stays /\ Kept
  <2>1. Stays
    BY <1>3, Leaves DEF GetPosnHome, PlacedAt
  <2>2. PICK b \in Settled(Touched(bld[s])) : bld' = [bld EXCEPT ![s] = b]
    BY <1>3 DEF GetPosnHome
  <2>3. IsBuilding(b) /\ b.owner = bld[s].owner
    BY <1>0, <2>2, SettledFacts
  <2> QED BY <2>1, <2>2, <2>3, OneKept
<1>4. CASE GetPosnLoad(c)
  BY <1>4, Leaves, BldKept DEF GetPosnLoad
<1>5. ASSUME NEW n \in Names, GetHouseLoad(c, n) PROVE Stays /\ Kept
  BY <1>5, AtStays, BldKept DEF GetHouseLoad
<1>6. ASSUME NEW n \in Names, NEW s \in Slots, GetHouse(c, n, s) PROVE Stays /\ Kept
  <2>1. Stays
    BY <1>6, AtStays DEF GetHouse
  <2>2. PICK b : /\ b \in Settled(Touched(bld[s])) \/ b = Touched(bld[s])
                 /\ bld' = [bld EXCEPT ![s] = b]
    BY <1>6 DEF GetHouse
  <2>3. IsBuilding(b) /\ b.owner = bld[s].owner
    BY <1>0, <2>2, SettledFacts
  <2> QED BY <2>1, <2>2, <2>3, OneKept
<1>7. CASE WalkOut(c) \/ ChangeRoomMisdirected(c)
  BY <1>7, AtStays, BldKept DEF WalkOut, ChangeRoomMisdirected
<1>8. ASSUME NEW d \in Data, Redecorate(c, d) PROVE Stays /\ Kept
  <2> DEFINE s == at[c]
             b == [bld[s] EXCEPT !.data = d, !.changed = TRUE]
  <2>1. at' = at /\ s \in Slots /\ bld' = [bld EXCEPT ![s] = b]
    BY <1>8 DEF Redecorate, charVars
  <2>2. IsBuilding(b) /\ b.owner = bld[s].owner
    BY <1>0, <2>1, Changed
  <2> HIDE DEF s, b
  <2> QED BY <2>1, <2>2, AtStays, OneKept
<1>9. CASE HungUp(c)
  <2>1. Stays
    BY <1>9, Leaves DEF HungUp, Forget
  <2>2. bld' = Moved(bld, c, at[c], Off)
    BY <1>9 DEF HungUp
  <2>3. Buildings(bld') /\ \A s \in Slots : bld'[s].owner = bld[s].owner
    BY <1>0, <2>2, MovedFacts
  <2> QED BY <2>1, <2>3 DEF Kept
<1>10. CASE Destroy(c)
  <2>1. /\ bld' = [s \in Slots |-> IF s \in Found(c) THEN NoBuilding ELSE bld[s]]
        /\ at' = [d \in Names |-> IF d = c THEN Off
                                  ELSE IF at[d] \in Found(c) THEN Lost ELSE at[d]]
    BY <1>10 DEF Destroy
  <2>2. Stays
    BY <2>1, StatesApart DEF Inv, Shape, Stays
  <2>3. IsBuilding(NoBuilding)
    BY DEF IsBuilding, NoBuilding
  <2>4. Buildings(bld')
    BY <1>0, <2>1, <2>3 DEF Buildings
  <2>5. \A d \in Names : at'[d] \notin Found(c)
    <3>1. Off \notin Found(c) /\ Lost \notin Found(c)
      BY StatesApart DEF Found
    <3> QED BY <2>1, <3>1
  <2>6. ASSUME NEW s \in Slots, \E d \in Names : at'[d] = s
        PROVE  bld'[s].owner = bld[s].owner
    BY <2>1, <2>5, <2>6
  <2> QED BY <2>2, <2>4, <2>6 DEF Kept
<1>11. CASE \E num \in Slots \union {Town} : ChangeRoom(c, num)
  BY <1>11
<1> QED BY <1>1, <1>2, <1>3, <1>4, <1>5, <1>6, <1>7, <1>8, <1>9, <1>10, <1>11 DEF Act

\* the formula whose action property is ArrivesAtName
Arrives ==
    \A c \in Names : at'[c] \in Slots /\ at'[c] # at[c] =>
        bld'[at'[c]].owner \in {c, tele[c].owner}

LEMMA StaysArrives == ASSUME Stays PROVE Arrives
BY DEF Stays, Arrives

LEMMA ChangeRoomStep ==
    ASSUME Inv, NEW c \in Names, NEW num \in Slots \union {Town}, ChangeRoom(c, num)
    PROVE  Inv' /\ Arrives
<1> DEFINE found(to) == [s \in Slots |->
                           IF at[c] = Placed /\ num \in Slots /\ s = to THEN Touched(bld[s])
                           ELSE bld[s]]
<1>1. PICK to \in Destination(c, num) :
         IF CanEnter(c, to)
         THEN bld' = Moved(found(to), c, at[c], to) /\ at' = [at EXCEPT ![c] = to]
         ELSE bld' = found(to) /\ at' = at
  BY DEF ChangeRoom
<1>2. /\ ~Misdirected(c)
      /\ \/ at[c] \in Slots \union {Town} /\ num \in {tele[c].num, at[c]}
         \/ at[c] = Placed
  BY DEF ChangeRoom
<1>3. Buildings(found(to)) /\ \A s \in Slots : found(to)[s].owner = bld[s].owner
  BY TouchedFacts DEF Inv, Shape, Buildings
<1> HIDE DEF found
<1>4. Buildings(bld') /\ \A s \in Slots : bld'[s].owner = bld[s].owner
  BY <1>1, <1>3, MovedFacts
<1>5. CASE ~CanEnter(c, to)
  <2>1. Stays /\ Kept
    BY <1>1, <1>4, <1>5, AtStays DEF Kept
  <2> QED BY <2>1, StaysKept, StaysArrives
<1>6. CASE CanEnter(c, to)
  <2>1. /\ at \in [Names -> States] /\ at' = [at EXCEPT ![c] = to]
        /\ to # at[c] /\ (to = Town \/ (to \in Slots /\ Live(to)))
    BY <1>1, <1>6 DEF CanEnter, Occupied, Inv, Shape
  <2>2. Inv'
    <3>1. Shape'
      BY <1>4, <2>1, StatesApart DEF Shape, Buildings
    <3>2. NobodyOutside'
      BY <1>4, <2>1, StatesApart DEF Inv, NobodyOutside, Live
    <3> QED BY <3>1, <3>2 DEF Inv
  <2>3. to \in Slots => bld[to].owner \in {c, tele[c].owner}
    <3>1. CASE at[c] = Placed /\ num \in Slots
      BY <3>1, StatesApart DEF Destination, Found
    <3>2. CASE ~(at[c] = Placed /\ num \in Slots)
      <4>1. to = num
        BY <3>2 DEF Destination
      <4>2. to \in Slots => to = tele[c].num /\ Live(to)
        BY <1>2, <2>1, <3>2, <4>1, StatesApart
      <4> QED BY <1>2, <4>2 DEF Misdirected
    <3> QED BY <3>1, <3>2
  <2>4. Arrives
    BY <1>4, <2>1, <2>3 DEF Arrives
  <2> QED BY <2>2, <2>4
<1> QED BY <1>5, <1>6

-----------------------------------------------------------------------------
(* Messages, timers, the end of the server. *)

\* a house that is loaded gets a slot that nobody is in
LEMMA LoadedKept ==
    ASSUME Inv, NEW s \in Slots, NEW b, IsBuilding(b), Loaded(s, b)
    PROVE  Kept
BY OneKept DEF Loaded, FreeSlot

LEMMA HouseIs == \A n, id, d : IsBuilding(House(n, id, d))
BY DEF IsBuilding, House

LEMMA ReceiveStays ==
    ASSUME Inv, Receive
    PROVE  Stays /\ Kept
<1>1. PICK m : \/ PosnDropped(m) \/ PosnLoaded(m) \/ PosnFailed(m) \/ TeleLoaded(m)
               \/ TeleFailed(m) \/ NewCharReply(m)
  BY DEF Receive
<1>2. CASE PosnDropped(m) \/ TeleFailed(m)
  BY <1>2, AtStays, BldKept DEF PosnDropped, TeleFailed
<1>3. CASE PosnLoaded(m)
  <2>1. PICK s \in Slots, b \in Settled(House(m.name, m.id, m.data)) :
           Loaded(s, b) /\ PlacedAt(m.caller, s)
    BY <1>3 DEF PosnLoaded
  <2>2. IsBuilding(b)
    BY <2>1, HouseIs, SettledFacts
  <2> QED BY <2>1, <2>2, LoadedKept, Leaves DEF PlacedAt
<1>4. CASE PosnFailed(m)
  BY <1>4, Leaves, BldKept DEF PosnFailed
<1>5. CASE TeleLoaded(m)
  <2>a. PICK s \in Slots : \E b :
           /\ b \in Settled(House(m.name, m.id, m.data)) \/ b = House(m.name, m.id, m.data)
           /\ Loaded(s, b)
    BY <1>5 DEF TeleLoaded
  <2>1. PICK b :
           /\ b \in Settled(House(m.name, m.id, m.data)) \/ b = House(m.name, m.id, m.data)
           /\ Loaded(s, b)
    BY <2>a
  <2>2. IsBuilding(b)
    BY <2>1, HouseIs, SettledFacts
  <2>3. at' = at
    BY <1>5 DEF TeleLoaded
  <2> QED BY <2>1, <2>2, <2>3, LoadedKept, AtStays
<1>6. CASE NewCharReply(m)
  BY <1>6, Leaves, AtStays, BldKept DEF NewCharReply
<1> QED BY <1>1, <1>2, <1>3, <1>4, <1>5, <1>6

LEMMA TossStays ==
    ASSUME Inv, Toss
    PROVE  Stays /\ Kept
<1>1. /\ at' = at
      /\ bld' = [s \in Slots |-> IF s \in Due THEN NoBuilding
                                 ELSE IF s \in Empty THEN [bld[s] EXCEPT !.delay = @ - 1]
                                 ELSE bld[s]]
  BY DEF Toss, charVars
<1>2. \A s \in Slots : /\ IsBuilding([bld[s] EXCEPT !.delay = @ - 1])
                       /\ [bld[s] EXCEPT !.delay = @ - 1].owner = bld[s].owner
  BY Delayed DEF Inv, Shape
<1>3. IsBuilding(NoBuilding)
  BY DEF IsBuilding, NoBuilding
<1>4. Buildings(bld')
  BY <1>1, <1>2, <1>3 DEF Inv, Shape, Buildings
<1>5. ASSUME NEW s \in Slots, NEW c \in Names, at'[c] = s PROVE bld'[s].owner = bld[s].owner
  <2>1. s \notin Due
    BY <1>1, <1>5 DEF Due, Empty, Inside
  <2> QED BY <1>1, <1>2, <2>1
<1> QED BY <1>1, <1>4, <1>5, AtStays DEF Kept

LEMMA StopStays ==
    ASSUME Inv, Stop
    PROVE  Stays /\ Kept
<1>1. /\ at' = [c \in Names |-> Off] /\ bld' = [s \in Slots |-> NoBuilding]
  BY DEF Stop
<1>2. IsBuilding(NoBuilding)
  BY DEF IsBuilding, NoBuilding
<1> QED BY <1>1, <1>2, StatesApart DEF Stays, Kept, Buildings

-----------------------------------------------------------------------------

LEMMA HousesInit == Init => Inv
<1> SUFFICES ASSUME Init PROVE Inv
  OBVIOUS
<1>1. IsBuilding(NoBuilding)
  BY DEF IsBuilding, NoBuilding
<1> QED BY <1>1, StatesApart DEF Init, Inv, Shape, NobodyOutside

LEMMA HousesStep ==
    ASSUME Inv, [Next]_vars
    PROVE  Inv' /\ Arrives
<1>1. CASE \E c \in Names : Act(c)
  BY <1>1, ActStays, ChangeRoomStep, StaysKept, StaysArrives
<1>2. CASE Receive \/ Toss \/ Stop
  BY <1>2, ReceiveStays, TossStays, StopStays, StaysKept, StaysArrives
<1>3. CASE DmReceive \/ SaveState \/ Start \/ UNCHANGED vars
  <2>1. at' = at /\ bld' = bld
    BY <1>3 DEF DmReceive, SaveState, Start, vars, charVars
  <2> QED BY <2>1, AtStays, BldKept, StaysKept, StaysArrives
<1> QED BY <1>1, <1>2, <1>3 DEF Next

(* Who is in a house is in a room that exists: no timer, deletion of a      *)
(* character, reply or shutdown takes a building from under a character     *)
(* that is not marked as lost by it.                                       *)
THEOREM NobodyOutsideHolds == Spec => []NobodyOutside
<1>1. Inv /\ [Next]_vars => Inv'
  BY HousesStep
<1>2. Inv => NobodyOutside
  BY DEF Inv
<1> QED BY <1>1, <1>2, HousesInit, PTL DEF Spec

(* "teleportDestBuildingOwner did not match" (rmplayer.cpp:8387): whoever    *)
(* enters a house enters its own or the one it was last sent to, though     *)
(* room numbers of houses are given out again while the client answers.    *)
THEOREM ArrivesAtNameHolds == Spec => ArrivesAtName
<1>1. Inv /\ [Next]_vars => Inv' /\ [Arrives]_vars
  BY HousesStep
<1> QED BY <1>1, HousesInit, PTL DEF Spec, ArrivesAtName, Arrives

-----------------------------------------------------------------------------
(* The messages. *)

Callers == Names \union {None}
GetMsgs     == [type : {"get"}, name : Names, caller : Callers, callback : {"posn", "tele"}]
WriteMsgs   == [type : {"write"}, name : Names, id : 1 .. MaxId, data : Data]
NewCharMsgs == [type : {"newchar"}, name : Names, caller : Callers]
NameMsgs    == [type : {"newhouse", "delete"}, name : Names]
HouseMsgs   == [type : {"house"}, name : Names, caller : Callers, callback : {"posn", "tele"},
                ok : BOOLEAN, id : 0 .. MaxId, data : Data]
CharMsgs    == [type : {"char"}, name : Names, caller : Callers, ok : BOOLEAN]

Requests == GetMsgs \union WriteMsgs \union NewCharMsgs \union NameMsgs
Replies  == HouseMsgs \union CharMsgs
Msgs     == Requests \union Replies

LEMMA MsgFacts ==
    ASSUME NEW m \in Msgs
    PROVE  /\ m.name \in Names
           /\ m \in Requests => m.type \in {"get", "write", "newchar", "newhouse", "delete"}
           /\ m \in Replies => m.type \in {"house", "char"}
           /\ m.type = "get" => m \in GetMsgs
           /\ m.type = "write" => m \in WriteMsgs
           /\ m.type = "newchar" => m \in NewCharMsgs
           /\ m.type \in {"newhouse", "delete"} => m \in NameMsgs
           /\ m.type = "house" => m \in HouseMsgs
           /\ m.type = "char" => m \in CharMsgs
BY DEF Msgs, Requests, Replies, GetMsgs, WriteMsgs, NewCharMsgs, NameMsgs, HouseMsgs, CharMsgs

\* the same message, or one whose caller has been deleted
Alike(m, o) ==
    /\ o.type = m.type /\ o.name = m.name
    /\ m.type \in {"get", "house"} => o.callback = m.callback
    /\ m.type \in {"get", "house", "newchar", "char"} => o.caller = m.caller \/ o.caller = None
    /\ m.type = "house" => o.ok = m.ok /\ o.id = m.id /\ o.data = m.data
    /\ m.type = "char" => o.ok = m.ok
    /\ m.type = "write" => o.id = m.id /\ o.data = m.data

LEMMA AlikeSame == \A m : Alike(m, m)
BY DEF Alike

WithoutCaller(m) == [m EXCEPT !.caller = None]

LEMMA CallerLost ==
    ASSUME NEW m \in Msgs, "caller" \in DOMAIN m
    PROVE  /\ m.type \in {"get", "house", "newchar", "char"}
           /\ Alike(m, WithoutCaller(m)) /\ WithoutCaller(m).caller = None
           /\ m \in Requests => WithoutCaller(m) \in Requests
           /\ m \in Replies => WithoutCaller(m) \in Replies
<1>1. CASE m \in GetMsgs
  <2>1. WithoutCaller(m) \in GetMsgs
    BY <1>1 DEF GetMsgs, Callers, WithoutCaller
  <2> QED BY <1>1, <2>1 DEF GetMsgs, Alike, WithoutCaller, Requests, Replies, HouseMsgs, CharMsgs
<1>2. CASE m \in HouseMsgs
  <2>1. WithoutCaller(m) \in HouseMsgs
    BY <1>2 DEF HouseMsgs, Callers, WithoutCaller
  <2> QED BY <1>2, <2>1 DEF HouseMsgs, Alike, WithoutCaller, Requests, Replies, GetMsgs, WriteMsgs, NewCharMsgs, NameMsgs
<1>3. CASE m \in NewCharMsgs
  <2>1. WithoutCaller(m) \in NewCharMsgs
    BY <1>3 DEF NewCharMsgs, Callers, WithoutCaller
  <2> QED BY <1>3, <2>1 DEF NewCharMsgs, Alike, WithoutCaller, Requests, Replies, HouseMsgs, CharMsgs
<1>4. CASE m \in CharMsgs
  <2>1. WithoutCaller(m) \in CharMsgs
    BY <1>4 DEF CharMsgs, Callers, WithoutCaller
  <2> QED BY <1>4, <2>1 DEF CharMsgs, Alike, WithoutCaller, Requests, Replies, GetMsgs, WriteMsgs, NewCharMsgs, NameMsgs
<1>5. CASE m \in WriteMsgs \union NameMsgs
  BY <1>5 DEF WriteMsgs, NameMsgs
<1> QED BY <1>1, <1>2, <1>3, <1>4, <1>5 DEF Msgs, Requests, Replies

LEMMA HasCaller ==
    ASSUME NEW m \in Msgs, m.type \in {"get", "house", "newchar", "char"}
    PROVE  "caller" \in DOMAIN m
BY MsgFacts DEF GetMsgs, HouseMsgs, NewCharMsgs, CharMsgs

-----------------------------------------------------------------------------
(* The invariants about what is under way, of a sequence q of messages.      *)

Waits(m) == m.type \in {"get", "house"} /\ m.callback = "posn" /\ m.caller # None
Makes(m) == m.type \in {"newchar", "char"} /\ m.caller # None
Bears(m) == m.type = "newhouse" \/ (m.type = "char" /\ m.ok /\ m.caller # None)

\* who is named by a message waits for it; a character is made once at a time
CallersInv(q, place) ==
    /\ \A i \in 1 .. Len(q) : Waits(q[i]) => q[i].caller = q[i].name /\ place[q[i].name] = Waiting
    /\ \A i \in 1 .. Len(q) : Makes(q[i]) => q[i].caller = q[i].name /\ place[q[i].name] = Making
    /\ \A i, j \in 1 .. Len(q) :
          Makes(q[i]) /\ Makes(q[j]) /\ q[i].name = q[j].name => i = j

\* a house is born once, to a character that has none, before its deletion
BirthInv(q, rows, chars, last) ==
    /\ \A n \in Names : n \notin chars => rows[n].id = 0
    /\ \A i \in 1 .. Len(q) : q[i].type = "delete" => q[i].name \in chars
    /\ \A i \in 1 .. Len(q) : q[i].type = "newhouse" => last[q[i].name] = NewHouse
    /\ \A i \in 1 .. Len(q) : Bears(q[i]) => q[i].name \in chars /\ rows[q[i].name].id = 0
    /\ \A i, j \in 1 .. Len(q) : Bears(q[i]) /\ Bears(q[j]) /\ q[i].name = q[j].name => i = j
    /\ \A i, j \in 1 .. Len(q) :
          q[i].type = "delete" /\ q[j].type = "delete" /\ q[i].name = q[j].name => i = j
    /\ \A i, j \in 1 .. Len(q) :
          Bears(q[i]) /\ q[j].type = "delete" /\ q[i].name = q[j].name
             => q[i].type = "newhouse" /\ i < j

\* no id is newer than the newest one
IdsInv(q, rows, newest, B) ==
    /\ \A n \in Names : rows[n].id <= newest[n]
    /\ \A s \in Slots : B[s].owner # None => 0 < B[s].id /\ B[s].id <= newest[B[s].owner]
    /\ \A i \in 1 .. Len(q) : q[i].type \in {"house", "write"} => q[i].id <= newest[q[i].name]
    /\ \A i \in 1 .. Len(q) : q[i].type = "house" => (q[i].ok <=> q[i].id # 0)

\* a house is in memory once, and not while it is asked for
OneHouse(q, B) ==
    /\ \A s, t \in Slots : B[s].owner # None /\ B[s].owner = B[t].owner => s = t
    /\ \A s \in Slots, i \in AskedIn(q) : B[s].owner # None => B[s].owner # q[i].name

\* a house on its way to the server is what was left there
ReplyInv(q, rows, last) ==
    \A i \in 1 .. Len(q) :
        q[i].type = "house" /\ q[i].id # 0 /\ q[i].id = rows[q[i].name].id
            => q[i].data = last[q[i].name]

\* a house is asked for after it has been written
OrderInv(q) ==
    \A i, j \in 1 .. Len(q) :
        q[i].type = "write" /\ q[j].type = "get" /\ q[i].name = q[j].name => i < j

\* r is what is left of q when some messages go and some lose their callers
Embeds(e, r, q) ==
    /\ e \in [1 .. Len(r) -> 1 .. Len(q)]
    /\ \A i, j \in 1 .. Len(r) : i < j => e[i] < e[j]
    /\ \A i \in 1 .. Len(r) : Alike(q[e[i]], r[i])

LEMMA EmbedsOrder ==
    ASSUME NEW q \in Seq(Msgs), NEW r \in Seq(Msgs), NEW e, Embeds(e, r, q)
    PROVE  /\ \A i \in 1 .. Len(r) : e[i] \in 1 .. Len(q) /\ Alike(q[e[i]], r[i])
           /\ \A i, j \in 1 .. Len(r) : e[i] = e[j] => i = j
           /\ \A i, j \in 1 .. Len(r) : e[i] < e[j] => i < j
<1>1. \A i \in 1 .. Len(r) : e[i] \in 1 .. Len(q)
  BY DEF Embeds
<1>2. \A i, j \in 1 .. Len(r) : i < j => e[i] < e[j]
  BY DEF Embeds
<1>3. \A i, j \in 1 .. Len(r) : i = j \/ i < j \/ j < i
  OBVIOUS
<1>4. Len(q) \in Nat
  OBVIOUS
<1>5. ASSUME NEW i \in 1 .. Len(r), NEW j \in 1 .. Len(r)
      PROVE  (e[i] = e[j] => i = j) /\ (e[i] < e[j] => i < j)
  <2>1. e[i] \in Int /\ e[j] \in Int
    BY <1>1, <1>4
  <2>2. (i < j => e[i] < e[j]) /\ (j < i => e[j] < e[i])
    BY <1>2
  <2> QED BY <1>3, <2>1, <2>2
<1> QED BY <1>1, <1>5 DEF Embeds

\* what the invariants see of a message that is left
LEMMA AlikeFacts ==
    ASSUME NEW m \in Msgs, NEW o \in Msgs, Alike(m, o)
    PROVE  /\ o.name = m.name /\ o.type = m.type
           /\ Waits(o) => Waits(m) /\ o.caller = m.caller
           /\ Makes(o) => Makes(m) /\ o.caller = m.caller
           /\ Bears(o) => Bears(m)
           /\ o.type \in {"house", "write"} => o.id = m.id /\ o.data = m.data
           /\ o.type = "house" => o.ok = m.ok
BY DEF Alike, Waits, Makes, Bears

\* What is left satisfies the invariants.
LEMMA EmbedsInv ==
    ASSUME NEW q \in Seq(Msgs), NEW r \in Seq(Msgs), NEW e, Embeds(e, r, q)
    PROVE  /\ \A place : CallersInv(q, place) => CallersInv(r, place)
           /\ \A rows, chars, last : BirthInv(q, rows, chars, last) => BirthInv(r, rows, chars, last)
           /\ \A rows, newest, B : IdsInv(q, rows, newest, B) => IdsInv(r, rows, newest, B)
           /\ \A B : OneHouse(q, B) => OneHouse(r, B)
           /\ \A rows, last : ReplyInv(q, rows, last) => ReplyInv(r, rows, last)
           /\ OrderInv(q) => OrderInv(r)
<1>1. /\ \A i \in 1 .. Len(r) : e[i] \in 1 .. Len(q)
      /\ \A i, j \in 1 .. Len(r) : e[i] = e[j] => i = j
      /\ \A i, j \in 1 .. Len(r) : e[i] < e[j] => i < j
  BY EmbedsOrder
<1>2. \A i \in 1 .. Len(r) :
        /\ r[i].name = q[e[i]].name /\ r[i].type = q[e[i]].type
        /\ Waits(r[i]) => Waits(q[e[i]]) /\ r[i].caller = q[e[i]].caller
        /\ Makes(r[i]) => Makes(q[e[i]]) /\ r[i].caller = q[e[i]].caller
        /\ Bears(r[i]) => Bears(q[e[i]])
        /\ r[i].type \in {"house", "write"} => r[i].id = q[e[i]].id /\ r[i].data = q[e[i]].data
        /\ r[i].type = "house" => r[i].ok = q[e[i]].ok
  <2> SUFFICES ASSUME NEW i \in 1 .. Len(r)
               PROVE  /\ r[i].name = q[e[i]].name /\ r[i].type = q[e[i]].type
                      /\ Waits(r[i]) => Waits(q[e[i]]) /\ r[i].caller = q[e[i]].caller
                      /\ Makes(r[i]) => Makes(q[e[i]]) /\ r[i].caller = q[e[i]].caller
                      /\ Bears(r[i]) => Bears(q[e[i]])
                      /\ r[i].type \in {"house", "write"} => r[i].id = q[e[i]].id /\ r[i].data = q[e[i]].data
                      /\ r[i].type = "house" => r[i].ok = q[e[i]].ok
    OBVIOUS
  <2>1. q[e[i]] \in Msgs /\ r[i] \in Msgs /\ Alike(q[e[i]], r[i])
    BY EmbedsOrder
  <2> QED BY ONLY <2>1, AlikeFacts
<1> HIDE DEF Waits, Makes, Bears
<1> DEFINE N == 1 .. Len(r)
           M == 1 .. Len(q)
<1>a. /\ \A i \in N : e[i] \in M
      /\ \A i, j \in N : e[i] = e[j] => i = j
      /\ \A i, j \in N : e[i] < e[j] => i < j
  BY <1>1
<1> HIDE DEF N, M
<1>3. ASSUME NEW place, CallersInv(q, place) PROVE CallersInv(r, place)
  <2>1. ASSUME NEW i \in N, Waits(r[i])
        PROVE  r[i].caller = r[i].name /\ place[r[i].name] = Waiting
    <3>1. e[i] \in M BY <1>a
    <3> QED BY <1>2, <1>3, <2>1, <3>1 DEF CallersInv, N, M
  <2>2. ASSUME NEW i \in N, Makes(r[i])
        PROVE  r[i].caller = r[i].name /\ place[r[i].name] = Making
    <3>1. e[i] \in M BY <1>a
    <3> QED BY <1>2, <1>3, <2>2, <3>1 DEF CallersInv, N, M
  <2>3. ASSUME NEW i \in N, NEW j \in N, Makes(r[i]), Makes(r[j]), r[i].name = r[j].name
        PROVE  i = j
    <3>1. e[i] \in M /\ e[j] \in M BY <1>a
    <3>2. Makes(q[e[i]]) /\ Makes(q[e[j]]) /\ q[e[i]].name = q[e[j]].name
      BY <1>2, <2>3 DEF N
    <3>3. e[i] = e[j]
      BY <1>3, <3>1, <3>2 DEF CallersInv, M
    <3> QED BY <1>a, <3>3
  <2> QED BY <2>1, <2>2, <2>3 DEF CallersInv, N
<1>4. ASSUME NEW rows, NEW chars, NEW last, BirthInv(q, rows, chars, last)
      PROVE  BirthInv(r, rows, chars, last)
  <2>1. ASSUME NEW i \in N
        PROVE  /\ r[i].type = "delete" => r[i].name \in chars
               /\ r[i].type = "newhouse" => last[r[i].name] = NewHouse
               /\ Bears(r[i]) => r[i].name \in chars /\ rows[r[i].name].id = 0
    <3>1. e[i] \in M BY <1>a
    <3> QED BY <1>2, <1>4, <3>1 DEF BirthInv, N, M
  <2>2. ASSUME NEW i \in N, NEW j \in N, r[i].name = r[j].name
        PROVE  /\ Bears(r[i]) /\ Bears(r[j]) => i = j
               /\ r[i].type = "delete" /\ r[j].type = "delete" => i = j
               /\ Bears(r[i]) /\ r[j].type = "delete" => r[i].type = "newhouse" /\ i < j
    <3>1. e[i] \in M /\ e[j] \in M BY <1>a
    <3>2. /\ q[e[i]].name = q[e[j]].name
          /\ r[i].type = q[e[i]].type /\ r[j].type = q[e[j]].type
          /\ Bears(r[i]) => Bears(q[e[i]])
          /\ Bears(r[j]) => Bears(q[e[j]])
      BY <1>2, <2>2 DEF N
    <3>3. /\ Bears(r[i]) /\ Bears(r[j]) => e[i] = e[j]
          /\ r[i].type = "delete" /\ r[j].type = "delete" => e[i] = e[j]
          /\ Bears(r[i]) /\ r[j].type = "delete" => q[e[i]].type = "newhouse" /\ e[i] < e[j]
      BY <1>4, <3>1, <3>2 DEF BirthInv, M
    <3> QED BY <1>a, <3>2, <3>3
  <2> QED BY <1>4, <2>1, <2>2 DEF BirthInv, N
<1>5. ASSUME NEW rows, NEW newest, NEW B, IdsInv(q, rows, newest, B) PROVE IdsInv(r, rows, newest, B)
  <2>1. ASSUME NEW i \in N
        PROVE  /\ r[i].type \in {"house", "write"} => r[i].id <= newest[r[i].name]
               /\ r[i].type = "house" => (r[i].ok <=> r[i].id # 0)
    <3>1. e[i] \in M BY <1>a
    <3>2. /\ q[e[i]].type \in {"house", "write"} => q[e[i]].id <= newest[q[e[i]].name]
          /\ q[e[i]].type = "house" => (q[e[i]].ok <=> q[e[i]].id # 0)
      BY <1>5, <3>1 DEF IdsInv, M
    <3> QED BY <1>2, <3>2 DEF N
  <2> QED BY <1>5, <2>1 DEF IdsInv, N
<1>6. ASSUME NEW B, OneHouse(q, B) PROVE OneHouse(r, B)
  <2>1. ASSUME NEW s \in Slots, NEW i \in N, r[i].type \in {"get", "house"}, B[s].owner # None
        PROVE  B[s].owner # r[i].name
    <3>1. e[i] \in M BY <1>a
    <3> QED BY <1>2, <1>6, <2>1, <3>1 DEF OneHouse, AskedIn, N, M
  <2> QED BY <1>6, <2>1 DEF OneHouse, AskedIn, N
<1>7. ASSUME NEW rows, NEW last, ReplyInv(q, rows, last) PROVE ReplyInv(r, rows, last)
  <2>1. ASSUME NEW i \in N, r[i].type = "house", r[i].id # 0, r[i].id = rows[r[i].name].id
        PROVE  r[i].data = last[r[i].name]
    <3>1. e[i] \in M BY <1>a
    <3> QED BY <1>2, <1>7, <2>1, <3>1 DEF ReplyInv, N, M
  <2> QED BY <2>1 DEF ReplyInv, N
<1>8. ASSUME OrderInv(q) PROVE OrderInv(r)
  <2>1. ASSUME NEW i \in N, NEW j \in N, r[i].type = "write", r[j].type = "get", r[i].name = r[j].name
        PROVE  i < j
    <3>1. e[i] \in M /\ e[j] \in M BY <1>a
    <3>2. q[e[i]].type = "write" /\ q[e[j]].type = "get" /\ q[e[i]].name = q[e[j]].name
      BY <1>2, <2>1 DEF N
    <3>3. e[i] < e[j]
      BY <1>8, <3>1, <3>2 DEF OrderInv, M
    <3> QED BY <1>a, <3>3
  <2> QED BY <2>1 DEF OrderInv, N
<1> QED BY <1>3, <1>4, <1>5, <1>6, <1>7, <1>8

-----------------------------------------------------------------------------
(* Messages leave, lose their callers, are added and answered.               *)

\* r is q without its message p
DropAt(r, q, p) ==
    /\ p \in 1 .. Len(q) /\ Len(r) = Len(q) - 1
    /\ \A i \in 1 .. Len(r) : r[i] = q[IF i < p THEN i ELSE i + 1]

Later(p, n) == [i \in 1 .. n |-> IF i < p THEN i ELSE i + 1]

LEMMA DropEmbeds ==
    ASSUME NEW q \in Seq(Msgs), NEW r \in Seq(Msgs), NEW p, DropAt(r, q, p)
    PROVE  /\ Embeds(Later(p, Len(r)), r, q)
           /\ \A k \in 1 .. Len(q) : k # p => \E i \in 1 .. Len(r) : Later(p, Len(r))[i] = k
           /\ \A i \in 1 .. Len(r) : Later(p, Len(r))[i] # p
<1> DEFINE e == Later(p, Len(r))
<1>0. Len(q) \in Nat /\ Len(r) \in Nat /\ Len(r) = Len(q) - 1 /\ p \in 1 .. Len(q)
  BY DEF DropAt
<1>1. \A i \in 1 .. Len(r) : e[i] = IF i < p THEN i ELSE i + 1
  BY DEF Later
<1>2. e \in [1 .. Len(r) -> 1 .. Len(q)]
  BY <1>0 DEF Later
<1>3. \A i \in 1 .. Len(r) : Alike(q[e[i]], r[i])
  BY <1>1, AlikeSame DEF DropAt
<1> HIDE DEF e
<1>4. \A i, j \in 1 .. Len(r) : i < j => e[i] < e[j]
  <2> SUFFICES ASSUME NEW i \in 1 .. Len(r), NEW j \in 1 .. Len(r), i < j PROVE e[i] < e[j]
    OBVIOUS
  <2> QED BY <1>0, <1>1
<1>5. ASSUME NEW k \in 1 .. Len(q), k # p PROVE \E i \in 1 .. Len(r) : e[i] = k
  <2>1. CASE k < p
    <3>1. k \in 1 .. Len(r) /\ e[k] = k
      BY <1>0, <1>1, <2>1
    <3> QED BY <3>1
  <2>2. CASE ~(k < p)
    <3>1. k - 1 \in 1 .. Len(r)
      BY <1>0, <1>5, <2>2
    <3>2. e[k - 1] = k
      BY <1>0, <1>1, <1>5, <2>2, <3>1
    <3> QED BY <3>1, <3>2
  <2> QED BY <2>1, <2>2
<1>6. \A i \in 1 .. Len(r) : e[i] # p
  BY <1>0, <1>1
<1>7. Embeds(e, r, q)
  BY <1>2, <1>3, <1>4 DEF Embeds
<1> QED BY <1>5, <1>6, <1>7 DEF e

LEMMA DropFirst ==
    ASSUME NEW u \in Seq(Msgs), NEW v \in Seq(Msgs), u # <<>>
    PROVE  /\ u \o v \in Seq(Msgs) /\ Tail(u) \o v \in Seq(Msgs)
           /\ DropAt(Tail(u) \o v, u \o v, 1) /\ (u \o v)[1] = Head(u) /\ Head(u) \in Msgs
<1>1. /\ Tail(u) \in Seq(Msgs) /\ Len(Tail(u)) = Len(u) - 1 /\ Head(u) \in Msgs
      /\ \A i \in 1 .. Len(Tail(u)) : Tail(u)[i] = u[i + 1]
  BY HeadTailProperties
<1>2. /\ u \o v \in Seq(Msgs) /\ Len(u \o v) = Len(u) + Len(v)
      /\ \A i \in 1 .. Len(u) + Len(v) : (u \o v)[i] = IF i <= Len(u) THEN u[i] ELSE v[i - Len(u)]
  BY ConcatProperties
<1>3. /\ Tail(u) \o v \in Seq(Msgs) /\ Len(Tail(u) \o v) = Len(Tail(u)) + Len(v)
      /\ \A i \in 1 .. Len(Tail(u)) + Len(v) :
            (Tail(u) \o v)[i] = IF i <= Len(Tail(u)) THEN Tail(u)[i] ELSE v[i - Len(Tail(u))]
  BY <1>1, ConcatProperties
<1>4. Len(u) \in Nat /\ Len(u) > 0 /\ Len(v) \in Nat /\ Head(u) = u[1]
  OBVIOUS
<1> DEFINE w == u \o v
           x == Tail(u) \o v
           t == Tail(u)
<1> HIDE DEF w, x, t
<1>5. \A i \in 1 .. Len(x) : x[i] = w[i + 1]
  BY <1>1, <1>2, <1>3, <1>4 DEF w, x, t
<1>6. DropAt(x, w, 1)
  BY <1>1, <1>2, <1>3, <1>4, <1>5 DEF w, x, DropAt
<1> QED BY <1>1, <1>2, <1>3, <1>4, <1>6 DEF w, x

LEMMA DropLater ==
    ASSUME NEW u \in Seq(Msgs), NEW v \in Seq(Msgs), v # <<>>
    PROVE  /\ u \o v \in Seq(Msgs) /\ u \o Tail(v) \in Seq(Msgs)
           /\ DropAt(u \o Tail(v), u \o v, Len(u) + 1)
           /\ (u \o v)[Len(u) + 1] = Head(v) /\ Head(v) \in Msgs
<1>1. /\ Tail(v) \in Seq(Msgs) /\ Len(Tail(v)) = Len(v) - 1 /\ Head(v) \in Msgs
      /\ \A i \in 1 .. Len(Tail(v)) : Tail(v)[i] = v[i + 1]
  BY HeadTailProperties
<1>2. /\ u \o v \in Seq(Msgs) /\ Len(u \o v) = Len(u) + Len(v)
      /\ \A i \in 1 .. Len(u) + Len(v) : (u \o v)[i] = IF i <= Len(u) THEN u[i] ELSE v[i - Len(u)]
  BY ConcatProperties
<1>3. /\ u \o Tail(v) \in Seq(Msgs) /\ Len(u \o Tail(v)) = Len(u) + Len(Tail(v))
      /\ \A i \in 1 .. Len(u) + Len(Tail(v)) :
            (u \o Tail(v))[i] = IF i <= Len(u) THEN u[i] ELSE Tail(v)[i - Len(u)]
  BY <1>1, ConcatProperties
<1>4. Len(v) \in Nat /\ Len(v) > 0 /\ Len(u) \in Nat /\ Head(v) = v[1]
  OBVIOUS
<1> DEFINE w == u \o v
           x == u \o Tail(v)
           t == Tail(v)
<1> HIDE DEF w, x, t
<1>5. \A i \in 1 .. Len(x) : x[i] = w[IF i < Len(u) + 1 THEN i ELSE i + 1]
  <2> SUFFICES ASSUME NEW i \in 1 .. Len(x) PROVE x[i] = w[IF i < Len(u) + 1 THEN i ELSE i + 1]
    OBVIOUS
  <2>1. CASE i <= Len(u)
    BY <1>1, <1>2, <1>3, <1>4, <2>1 DEF w, x, t
  <2>2. CASE ~(i <= Len(u))
    <3>1. x[i] = t[i - Len(u)] /\ i - Len(u) \in 1 .. Len(t)
      BY <1>1, <1>3, <1>4, <2>2 DEF x, t
    <3>2. t[i - Len(u)] = v[i - Len(u) + 1]
      BY <1>1, <3>1 DEF t
    <3>3. w[i + 1] = v[i + 1 - Len(u)]
      BY <1>1, <1>2, <1>3, <1>4, <2>2 DEF w, x
    <3>4. i - Len(u) + 1 = i + 1 - Len(u) /\ ~(i < Len(u) + 1)
      BY <1>4, <2>2, Len(x) \in Nat DEF x
    <3> QED BY <3>1, <3>2, <3>3, <3>4
  <2> QED BY <2>1, <2>2
<1>6. DropAt(x, w, Len(u) + 1)
  BY <1>1, <1>2, <1>3, <1>4, <1>5 DEF w, x, DropAt
<1> QED BY <1>1, <1>2, <1>3, <1>4, <1>6 DEF w, x

\* r is q with m in the place of its message p
PutAt(r, q, p, m) ==
    /\ p \in 1 .. Len(q) /\ Len(r) = Len(q)
    /\ \A i \in 1 .. Len(r) : r[i] = IF i = p THEN m ELSE q[i]

LEMMA PutLater ==
    ASSUME NEW u \in Seq(Msgs), NEW v \in Seq(Msgs), v # <<>>, NEW m \in Msgs
    PROVE  /\ Append(u, m) \o Tail(v) \in Seq(Msgs)
           /\ PutAt(Append(u, m) \o Tail(v), u \o v, Len(u) + 1, m)
<1>1. /\ Tail(v) \in Seq(Msgs) /\ Len(Tail(v)) = Len(v) - 1
      /\ \A i \in 1 .. Len(Tail(v)) : Tail(v)[i] = v[i + 1]
  BY HeadTailProperties
<1>2. /\ Len(u \o v) = Len(u) + Len(v)
      /\ \A i \in 1 .. Len(u) + Len(v) : (u \o v)[i] = IF i <= Len(u) THEN u[i] ELSE v[i - Len(u)]
  BY ConcatProperties
<1>3. /\ Append(u, m) \in Seq(Msgs) /\ Len(Append(u, m)) = Len(u) + 1
      /\ \A i \in 1 .. Len(u) : Append(u, m)[i] = u[i]
      /\ Append(u, m)[Len(u) + 1] = m
  BY AppendProperties
<1> DEFINE a == Append(u, m)
           t == Tail(v)
<1>4. /\ a \o t \in Seq(Msgs) /\ Len(a \o t) = Len(a) + Len(t)
      /\ \A i \in 1 .. Len(a) + Len(t) : (a \o t)[i] = IF i <= Len(a) THEN a[i] ELSE t[i - Len(a)]
  BY <1>1, <1>3, ConcatProperties
<1>5. Len(v) \in Nat /\ Len(v) > 0 /\ Len(u) \in Nat
  OBVIOUS
<1> DEFINE w == u \o v
           x == a \o t
<1> HIDE DEF w, x, t, a
<1>6. ASSUME NEW i \in 1 .. Len(x) PROVE x[i] = IF i = Len(u) + 1 THEN m ELSE w[i]
  <2>1. CASE i <= Len(u)
    BY <1>1, <1>2, <1>3, <1>4, <1>5, <2>1 DEF w, x, t, a
  <2>2. CASE i = Len(u) + 1
    BY <1>3, <1>4, <1>5, <2>2 DEF x, a, t
  <2>3. CASE i > Len(u) + 1
    <3>1. x[i] = t[i - Len(a)] /\ i - Len(a) \in 1 .. Len(t)
      BY <1>1, <1>3, <1>4, <1>5, <2>3 DEF x, t, a
    <3>2. t[i - Len(a)] = v[i - Len(a) + 1]
      BY <1>1, <3>1 DEF t
    <3>3. w[i] = v[i - Len(u)]
      BY <1>1, <1>2, <1>3, <1>4, <1>5, <2>3 DEF w, x, t, a
    <3>4. i - Len(a) + 1 = i - Len(u)
      BY <1>3, <1>5, Len(x) \in Nat DEF a, x
    <3> QED BY <2>3, <3>1, <3>2, <3>3, <3>4
  <2> QED BY <1>5, <2>1, <2>2, <2>3, Len(x) \in Nat DEF x
<1>7. PutAt(x, w, Len(u) + 1, m)
  BY <1>1, <1>2, <1>3, <1>4, <1>5, <1>6 DEF w, x, t, a, PutAt
<1> QED BY <1>4, <1>7 DEF w, x, t, a

LEMMA OrphanedFacts ==
    ASSUME NEW T \in {Requests, Replies}, NEW q \in Seq(T), NEW c
    PROVE  /\ Orphaned(q, c) \in Seq(T) /\ Len(Orphaned(q, c)) = Len(q)
           /\ \A i \in 1 .. Len(q) : Alike(q[i], Orphaned(q, c)[i])
           /\ c # None => \A i \in 1 .. Len(q) :
                 q[i].type \in {"get", "house", "newchar", "char"} => Orphaned(q, c)[i].caller # c
<1> DEFINE r == Orphaned(q, c)
<1>1. ASSUME NEW i \in 1 .. Len(q)
      PROVE  /\ r[i] \in T /\ Alike(q[i], r[i])
             /\ c # None /\ q[i].type \in {"get", "house", "newchar", "char"} => r[i].caller # c
  <2>1. q[i] \in T /\ q[i] \in Msgs
    BY DEF Msgs
  <2>2. r[i] = IF "caller" \in DOMAIN q[i] /\ q[i].caller = c THEN WithoutCaller(q[i]) ELSE q[i]
    BY DEF Orphaned, WithoutCaller
  <2> HIDE DEF r
  <2>3. CASE "caller" \in DOMAIN q[i] /\ q[i].caller = c
    <3>1. r[i] = WithoutCaller(q[i])
      BY <2>2, <2>3
    <3> QED BY <2>1, <2>3, <3>1, CallerLost
  <2>4. CASE ~("caller" \in DOMAIN q[i] /\ q[i].caller = c)
    <3>1. r[i] = q[i]
      BY <2>2, <2>4
    <3> QED BY <2>1, <2>4, <3>1, AlikeSame, HasCaller
  <2> QED BY <2>3, <2>4
<1>2. r = [i \in 1 .. Len(q) |-> r[i]] /\ Len(q) \in Nat
  BY DEF Orphaned
<1> HIDE DEF r
<1>3. r \in Seq(T) /\ Len(r) = Len(q)
  BY <1>1, <1>2
<1> QED BY <1>1, <1>3 DEF r

Same(n) == [i \in 1 .. n |-> i]

LEMMA SameEmbeds ==
    ASSUME NEW q \in Seq(Msgs), NEW r \in Seq(Msgs), Len(r) = Len(q),
           \A i \in 1 .. Len(q) : Alike(q[i], r[i])
    PROVE  /\ Embeds(Same(Len(q)), r, q)
           /\ \A k \in 1 .. Len(q) : k \in 1 .. Len(r) /\ Same(Len(q))[k] = k
BY DEF Embeds, Same

LEMMA OrphanEmbeds ==
    ASSUME NEW u \in Seq(Replies), NEW v \in Seq(Requests), NEW c, c # None
    PROVE  /\ u \o v \in Seq(Msgs) /\ Orphaned(u, c) \o Orphaned(v, c) \in Seq(Msgs)
           /\ Len(Orphaned(u, c) \o Orphaned(v, c)) = Len(u \o v)
           /\ \A i \in 1 .. Len(u \o v) : Alike((u \o v)[i], (Orphaned(u, c) \o Orphaned(v, c))[i])
           /\ \A i \in 1 .. Len(u \o v) :
                 (u \o v)[i].type \in {"get", "house", "newchar", "char"}
                    => (Orphaned(u, c) \o Orphaned(v, c))[i].caller # c
<1> DEFINE a == Orphaned(u, c)
           b == Orphaned(v, c)
           q == u \o v
           r == a \o b
<1>1. /\ a \in Seq(Replies) /\ Len(a) = Len(u)
      /\ \A i \in 1 .. Len(u) : Alike(u[i], a[i])
      /\ \A i \in 1 .. Len(u) :
            u[i].type \in {"get", "house", "newchar", "char"} => a[i].caller # c
  <2>1. Replies \in {Requests, Replies}
    OBVIOUS
  <2> QED BY <2>1, OrphanedFacts
<1>2. /\ b \in Seq(Requests) /\ Len(b) = Len(v)
      /\ \A i \in 1 .. Len(v) : Alike(v[i], b[i])
      /\ \A i \in 1 .. Len(v) :
            v[i].type \in {"get", "house", "newchar", "char"} => b[i].caller # c
  <2>1. Requests \in {Requests, Replies}
    OBVIOUS
  <2> QED BY <2>1, OrphanedFacts
<1> HIDE DEF a, b
<1>3. u \in Seq(Msgs) /\ v \in Seq(Msgs) /\ a \in Seq(Msgs) /\ b \in Seq(Msgs)
  BY <1>1, <1>2 DEF Msgs
<1>4. /\ q \in Seq(Msgs) /\ Len(q) = Len(u) + Len(v)
      /\ \A i \in 1 .. Len(u) + Len(v) : q[i] = IF i <= Len(u) THEN u[i] ELSE v[i - Len(u)]
  BY <1>3, ConcatProperties
<1>5. /\ r \in Seq(Msgs) /\ Len(r) = Len(a) + Len(b)
      /\ \A i \in 1 .. Len(a) + Len(b) : r[i] = IF i <= Len(a) THEN a[i] ELSE b[i - Len(a)]
  BY <1>3, ConcatProperties
<1> HIDE DEF q, r
<1>6. ASSUME NEW i \in 1 .. Len(q)
      PROVE  /\ Alike(q[i], r[i])
             /\ q[i].type \in {"get", "house", "newchar", "char"} => r[i].caller # c
  <2>0. Len(u) \in Nat /\ Len(v) \in Nat
    OBVIOUS
  <2>1. CASE i <= Len(u)
    <3>1. i \in 1 .. Len(u) /\ q[i] = u[i] /\ r[i] = a[i]
      BY <1>1, <1>2, <1>4, <1>5, <2>0, <2>1
    <3> QED BY <1>1, <3>1
  <2>2. CASE ~(i <= Len(u))
    <3>1. i - Len(u) \in 1 .. Len(v) /\ q[i] = v[i - Len(u)] /\ r[i] = b[i - Len(u)]
      BY <1>1, <1>2, <1>4, <1>5, <2>0, <2>2
    <3> QED BY <1>2, <3>1
  <2> QED BY <2>1, <2>2
<1>7. Len(r) = Len(q)
  BY <1>1, <1>2, <1>4, <1>5
<1> QED BY <1>4, <1>5, <1>6, <1>7 DEF q, r, a, b

\* the requests when the server has ended: nobody's answer is wanted
Unwanted(q) == [i \in 1 .. Len(q) |->
                  IF "caller" \in DOMAIN q[i] THEN [q[i] EXCEPT !.caller = None] ELSE q[i]]

LEMMA UnwantedFacts ==
    ASSUME NEW q \in Seq(Requests)
    PROVE  /\ Unwanted(q) \in Seq(Requests) /\ Len(Unwanted(q)) = Len(q)
           /\ \A i \in 1 .. Len(q) : Alike(q[i], Unwanted(q)[i])
           /\ \A i \in 1 .. Len(q) : ~Waits(Unwanted(q)[i]) /\ ~Makes(Unwanted(q)[i])
<1> DEFINE r == Unwanted(q)
<1>1. ASSUME NEW i \in 1 .. Len(q)
      PROVE  r[i] \in Requests /\ Alike(q[i], r[i]) /\ ~Waits(r[i]) /\ ~Makes(r[i])
  <2>1. q[i] \in Requests /\ q[i] \in Msgs
    BY DEF Msgs
  <2>2. r[i] = IF "caller" \in DOMAIN q[i] THEN WithoutCaller(q[i]) ELSE q[i]
    BY DEF Unwanted, WithoutCaller
  <2> HIDE DEF r
  <2>3. CASE "caller" \in DOMAIN q[i]
    <3>1. r[i] = WithoutCaller(q[i])
      BY <2>2, <2>3
    <3>2. r[i] \in Requests /\ Alike(q[i], r[i]) /\ r[i].caller = None
      BY <2>1, <2>3, <3>1, CallerLost
    <3> QED BY <3>2 DEF Waits, Makes
  <2>4. CASE ~("caller" \in DOMAIN q[i])
    <3>1. r[i] = q[i]
      BY <2>2, <2>4
    <3>2. q[i].type \notin {"get", "house", "newchar", "char"}
      BY <2>1, <2>4, HasCaller
    <3> QED BY <2>1, <3>1, <3>2, AlikeSame DEF Waits, Makes
  <2> QED BY <2>3, <2>4
<1>2. r = [i \in 1 .. Len(q) |-> r[i]] /\ Len(q) \in Nat
  BY DEF Unwanted
<1> HIDE DEF r
<1>3. r \in Seq(Requests) /\ Len(r) = Len(q)
  BY <1>1, <1>2
<1> QED BY <1>1, <1>3 DEF r

\* what is left when the replies are gone
Shift(k, n) == [i \in 1 .. n |-> k + i]

LEMMA UnwantedEmbeds ==
    ASSUME NEW u \in Seq(Replies), NEW v \in Seq(Requests)
    PROVE  /\ Embeds(Shift(Len(u), Len(v)), Unwanted(v), u \o v)
           /\ \A k \in 1 .. Len(u \o v) : (u \o v)[k].type \in {"write", "delete"}
                 => \E i \in 1 .. Len(v) : Shift(Len(u), Len(v))[i] = k
<1> DEFINE q == u \o v
           r == Unwanted(v)
           e == Shift(Len(u), Len(v))
<1>1. u \in Seq(Msgs) /\ v \in Seq(Msgs)
  BY DEF Msgs
<1>2. /\ q \in Seq(Msgs) /\ Len(q) = Len(u) + Len(v)
      /\ \A i \in 1 .. Len(u) + Len(v) : q[i] = IF i <= Len(u) THEN u[i] ELSE v[i - Len(u)]
  BY <1>1, ConcatProperties
<1>3. Len(r) = Len(v) /\ \A i \in 1 .. Len(v) : Alike(v[i], r[i])
  BY UnwantedFacts
<1>4. Len(u) \in Nat /\ Len(v) \in Nat
  OBVIOUS
<1>5. \A i \in 1 .. Len(v) : e[i] = Len(u) + i
  BY DEF Shift
<1>6. e = [i \in 1 .. Len(v) |-> e[i]]
  BY DEF Shift
<1> HIDE DEF q, r, e
<1>7. ASSUME NEW i \in 1 .. Len(v) PROVE e[i] \in 1 .. Len(q) /\ q[e[i]] = v[i]
  <2>1. e[i] \in 1 .. Len(q) /\ ~(e[i] <= Len(u)) /\ e[i] - Len(u) = i /\ e[i] \in 1 .. Len(u) + Len(v)
    BY <1>2, <1>4, <1>5
  <2>2. q[e[i]] = v[e[i] - Len(u)]
    BY <1>2, <2>1
  <2> QED BY <2>1, <2>2
<1>8. e \in [1 .. Len(v) -> 1 .. Len(q)]
  BY <1>6, <1>7
<1>9. \A i, j \in 1 .. Len(v) : i < j => e[i] < e[j]
  BY <1>4, <1>5
<1>10. Embeds(e, r, q)
  BY <1>3, <1>7, <1>8, <1>9 DEF Embeds
<1>11. ASSUME NEW k \in 1 .. Len(q), q[k].type \in {"write", "delete"}
       PROVE  \E i \in 1 .. Len(v) : e[i] = k
  <2>1. ~(k <= Len(u))
    <3> SUFFICES ASSUME k <= Len(u) PROVE FALSE
      OBVIOUS
    <3>1. k \in 1 .. Len(u) /\ q[k] = u[k]
      BY <1>2, <1>4
    <3>2. u[k] \in Replies /\ u[k] \in Msgs
      BY <3>1 DEF Msgs
    <3> QED BY <1>11, <3>1, <3>2, MsgFacts
  <2>2. k - Len(u) \in 1 .. Len(v)
    BY <1>2, <1>4, <2>1
  <2>3. e[k - Len(u)] = k
    BY <1>4, <1>5, <2>2
  <2> QED BY <2>2, <2>3
<1> QED BY <1>10, <1>11 DEF q, r, e

\* messages are added
LEMMA AddFacts ==
    ASSUME NEW q \in Seq(Msgs), NEW m \in Msgs
    PROVE  /\ Append(q, m) \in Seq(Msgs) /\ Len(Append(q, m)) = Len(q) + 1 /\ Len(q) \in Nat
           /\ \A i \in 1 .. Len(q) : Append(q, m)[i] = q[i]
           /\ Append(q, m)[Len(q) + 1] = m
BY AppendProperties

LEMMA AppendLater ==
    ASSUME NEW u \in Seq(Msgs), NEW v \in Seq(Msgs), NEW m \in Msgs
    PROVE  u \o Append(v, m) = Append(u \o v, m)
<1>1. Append(v, m) = v \o <<m>> /\ <<m>> \in Seq(Msgs)
  BY AppendIsConcat
<1>2. Append(u \o v, m) = (u \o v) \o <<m>>
  BY AppendIsConcat, ConcatProperties
<1> QED BY <1>1, <1>2, ConcatAssociative

-----------------------------------------------------------------------------
(* The houses under way are the last of the list.                            *)

LoadInv(q, list) == list \in Seq(Names) /\ Marked(q, list) /\ IsInjective(list)

LEMMA AskedIs == \A q, i : i \in AskedIn(q) <=> i \in 1 .. Len(q) /\ q[i].type \in {"get", "house"}
BY DEF AskedIn

\* a house is asked for once at a time
LEMMA AskedOnce ==
    ASSUME NEW q \in Seq(Msgs), NEW list, LoadInv(q, list)
    PROVE  \A i, j \in AskedIn(q) : q[i].name = q[j].name => i = j
<1> SUFFICES ASSUME NEW i \in AskedIn(q), NEW j \in AskedIn(q), q[i].name = q[j].name, i < j
             PROVE  FALSE
  <2>1. \A i, j \in AskedIn(q) : i = j \/ i < j \/ j < i
    BY AskedIs
  <2> QED BY <2>1
<1>1. PICK k \in 1 .. Len(list) : list[k] = q[i].name
  BY DEF LoadInv, Marked
<1>2. k < k
  BY <1>1 DEF LoadInv, Marked
<1> QED BY <1>2

LEMMA MarkedIs ==
    ASSUME NEW q, NEW list,
           \A i \in AskedIn(q) : \E k \in 1 .. Len(list) : list[k] = q[i].name,
           \A i, j \in AskedIn(q), k, l \in 1 .. Len(list) :
              i < j /\ list[k] = q[i].name /\ list[l] = q[j].name => k < l,
           \A i \in AskedIn(q), k, l \in 1 .. Len(list) :
              k < l /\ list[k] = q[i].name => \E j \in AskedIn(q) : list[l] = q[j].name
    PROVE  Marked(q, list)
BY DEF Marked

LEMMA LoadEmbeds ==
    ASSUME NEW q \in Seq(Msgs), NEW r \in Seq(Msgs), NEW e, Embeds(e, r, q),
           \A k \in AskedIn(q) : \E i \in 1 .. Len(r) : e[i] = k,
           NEW list, LoadInv(q, list)
    PROVE  LoadInv(r, list)
<1>1. \A i \in AskedIn(r) : e[i] \in AskedIn(q) /\ q[e[i]].name = r[i].name
  <2> SUFFICES ASSUME NEW i \in AskedIn(r) PROVE e[i] \in AskedIn(q) /\ q[e[i]].name = r[i].name
    OBVIOUS
  <2>1. i \in 1 .. Len(r) /\ r[i].type \in {"get", "house"}
    BY AskedIs
  <2>2. e[i] \in 1 .. Len(q) /\ Alike(q[e[i]], r[i])
    BY <2>1, EmbedsOrder
  <2> QED BY <2>1, <2>2, AskedIs DEF Alike
<1>2. \A i, j \in AskedIn(r) : i < j => e[i] < e[j]
  BY AskedIs DEF Embeds
<1>3. ASSUME NEW k \in AskedIn(q) PROVE \E i \in AskedIn(r) : r[i].name = q[k].name
  <2>1. PICK i \in 1 .. Len(r) : e[i] = k
    OBVIOUS
  <2>2. Alike(q[k], r[i])
    BY <2>1, EmbedsOrder
  <2>3. i \in AskedIn(r) /\ r[i].name = q[k].name
    BY <2>1, <2>2, AskedIs DEF Alike
  <2> QED BY <2>3
<1>4. \A i \in AskedIn(r) : \E k \in 1 .. Len(list) : list[k] = r[i].name
  BY <1>1 DEF LoadInv, Marked
<1>5. ASSUME NEW i \in AskedIn(r), NEW j \in AskedIn(r), NEW k \in 1 .. Len(list),
             NEW l \in 1 .. Len(list), i < j, list[k] = r[i].name, list[l] = r[j].name
      PROVE  k < l
  <2>1. /\ e[i] \in AskedIn(q) /\ e[j] \in AskedIn(q) /\ e[i] < e[j]
        /\ list[k] = q[e[i]].name /\ list[l] = q[e[j]].name
    BY <1>1, <1>2, <1>5
  <2> QED BY <2>1 DEF LoadInv, Marked
<1>6. ASSUME NEW i \in AskedIn(r), NEW k \in 1 .. Len(list), NEW l \in 1 .. Len(list),
             k < l, list[k] = r[i].name
      PROVE  \E j \in AskedIn(r) : list[l] = r[j].name
  <2>1. e[i] \in AskedIn(q) /\ list[k] = q[e[i]].name
    BY <1>1, <1>6
  <2>2. PICK j \in AskedIn(q) : list[l] = q[j].name
    BY <1>6, <2>1 DEF LoadInv, Marked
  <2> QED BY <1>3, <2>2
<1> QED BY <1>4, <1>5, <1>6 DEF LoadInv, Marked

\* the next reply is a house
LEMMA LoadFirst ==
    ASSUME NEW q \in Seq(Msgs), NEW r \in Seq(Msgs), DropAt(r, q, 1), q[1].type = "house",
           NEW list, LoadInv(q, list)
    PROVE  LoadInv(r, list) /\ list # <<>> /\ LoadInv(r, Tail(list))
<1>0. Len(q) \in Nat /\ Len(r) \in Nat /\ Len(q) = Len(r) + 1 /\ list \in Seq(Names) /\ Len(list) \in Nat
  BY DEF DropAt, LoadInv
<1>1. \A i \in 1 .. Len(r) : r[i] = q[i + 1]
  BY <1>0 DEF DropAt
<1>2. 1 \in AskedIn(q)
  BY <1>0, AskedIs
<1>3. \A i \in AskedIn(r) : i \in Nat /\ i > 0 /\ i + 1 \in AskedIn(q) /\ q[i + 1].name = r[i].name
  <2> SUFFICES ASSUME NEW i \in AskedIn(r)
               PROVE  i \in Nat /\ i > 0 /\ i + 1 \in AskedIn(q) /\ q[i + 1].name = r[i].name
    OBVIOUS
  <2>1. i \in 1 .. Len(r) /\ r[i].type \in {"get", "house"}
    BY AskedIs
  <2>2. i + 1 \in 1 .. Len(q) /\ r[i] = q[i + 1]
    BY <1>0, <1>1, <2>1
  <2> QED BY <2>1, <2>2, AskedIs
<1>4. \A i \in AskedIn(q) : i # 1 => i - 1 \in AskedIn(r) /\ r[i - 1].name = q[i].name
  <2> SUFFICES ASSUME NEW i \in AskedIn(q), i # 1
               PROVE  i - 1 \in AskedIn(r) /\ r[i - 1].name = q[i].name
    OBVIOUS
  <2>1. i \in 1 .. Len(q) /\ q[i].type \in {"get", "house"}
    BY AskedIs
  <2>2. i - 1 \in 1 .. Len(r) /\ r[i - 1] = q[i]
    BY <1>0, <1>1, <2>1
  <2> QED BY <2>1, <2>2, AskedIs
<1>5. PICK h \in 1 .. Len(list) : list[h] = q[1].name
  BY <1>2 DEF LoadInv, Marked
<1>6. ASSUME NEW i \in AskedIn(r) PROVE \E k \in 1 .. Len(list) : list[k] = r[i].name
  <2>1. i + 1 \in AskedIn(q) /\ q[i + 1].name = r[i].name
    BY <1>3
  <2> QED BY <2>1 DEF LoadInv, Marked
<1>7. ASSUME NEW i \in AskedIn(r), NEW j \in AskedIn(r), NEW k \in 1 .. Len(list),
             NEW l \in 1 .. Len(list), i < j, list[k] = r[i].name, list[l] = r[j].name
      PROVE  k < l
  <2>1. /\ i + 1 \in AskedIn(q) /\ q[i + 1].name = r[i].name
        /\ j + 1 \in AskedIn(q) /\ q[j + 1].name = r[j].name /\ i + 1 < j + 1
    BY <1>3, <1>7
  <2> QED BY <1>7, <2>1 DEF LoadInv, Marked
<1>8. ASSUME NEW i \in AskedIn(r), NEW k \in 1 .. Len(list), list[k] = r[i].name
      PROVE  h < k
  <2>1. i + 1 \in AskedIn(q) /\ q[i + 1].name = r[i].name /\ 1 < i + 1
    BY <1>3
  <2> QED BY <1>2, <1>5, <1>8, <2>1 DEF LoadInv, Marked
<1>9. ASSUME NEW i \in AskedIn(r), NEW k \in 1 .. Len(list), NEW l \in 1 .. Len(list),
             k < l, list[k] = r[i].name
      PROVE  \E j \in AskedIn(r) : list[l] = r[j].name
  <2>1. i + 1 \in AskedIn(q) /\ q[i + 1].name = r[i].name
    BY <1>3
  <2>2. PICK j \in AskedIn(q) : list[l] = q[j].name
    BY <1>9, <2>1 DEF LoadInv, Marked
  <2>3. j # 1
    <3> SUFFICES ASSUME j = 1 PROVE FALSE
      OBVIOUS
    <3>1. l < k
      BY <1>2, <1>3, <1>9, <2>1, <2>2 DEF LoadInv, Marked
    <3> QED BY <1>9, <3>1
  <2> QED BY <1>4, <2>2, <2>3
<1>10. LoadInv(r, list)
  <2>1. Marked(r, list)
    BY ONLY <1>6, <1>7, <1>9 DEF Marked
  <2> QED BY <2>1 DEF LoadInv
<1> DEFINE t == Tail(list)
<1>11. list # <<>>
  BY <1>0, <1>5
<1>12. t \in Seq(Names) /\ Len(t) = Len(list) - 1 /\ \A k \in 1 .. Len(t) : t[k] = list[k + 1]
  BY <1>0, <1>11, HeadTailProperties
<1> HIDE DEF t
<1>13. \A k \in 1 .. Len(t) : k + 1 \in 1 .. Len(list) /\ t[k] = list[k + 1]
  BY <1>0, <1>12
<1>14. ASSUME NEW i \in AskedIn(r) PROVE \E k \in 1 .. Len(t) : t[k] = r[i].name
  <2>1. PICK k \in 1 .. Len(list) : list[k] = r[i].name
    BY <1>6
  <2>2. h < k
    BY <1>8, <2>1
  <2>3. k - 1 \in 1 .. Len(t) /\ k - 1 + 1 = k
    BY <1>0, <1>12, <2>2
  <2>4. t[k - 1] = r[i].name
    BY <1>13, <2>1, <2>3
  <2> QED BY <2>3, <2>4
<1>15. ASSUME NEW i \in AskedIn(r), NEW j \in AskedIn(r), NEW k \in 1 .. Len(t),
              NEW l \in 1 .. Len(t), i < j, t[k] = r[i].name, t[l] = r[j].name
       PROVE  k < l
  <2>1. /\ k + 1 \in 1 .. Len(list) /\ list[k + 1] = r[i].name
        /\ l + 1 \in 1 .. Len(list) /\ list[l + 1] = r[j].name
    BY <1>13, <1>15
  <2>2. k + 1 < l + 1
    BY <1>7, <1>15, <2>1
  <2> QED BY <2>2
<1>16. ASSUME NEW i \in AskedIn(r), NEW k \in 1 .. Len(t), NEW l \in 1 .. Len(t),
              k < l, t[k] = r[i].name
       PROVE  \E j \in AskedIn(r) : t[l] = r[j].name
  <2>1. /\ k + 1 \in 1 .. Len(list) /\ list[k + 1] = r[i].name
        /\ l + 1 \in 1 .. Len(list) /\ list[l + 1] = t[l] /\ k + 1 < l + 1
    BY <1>13, <1>16
  <2> QED BY <1>9, <2>1
<1>17. IsInjective(t)
  <2>1. DOMAIN t = 1 .. Len(t) /\ DOMAIN list = 1 .. Len(list)
    BY <1>0, <1>12
  <2> SUFFICES ASSUME NEW a \in 1 .. Len(t), NEW b \in 1 .. Len(t), t[a] = t[b] PROVE a = b
    BY <2>1 DEF IsInjective
  <2>2. /\ a + 1 \in 1 .. Len(list) /\ list[a + 1] = t[a]
        /\ b + 1 \in 1 .. Len(list) /\ list[b + 1] = t[b]
    BY <1>13
  <2>3. a + 1 = b + 1
    BY <2>1, <2>2 DEF LoadInv, IsInjective
  <2> QED BY <2>3
<1>18. LoadInv(r, t)
  <2>1. Marked(r, t)
    <3>1. \A i \in AskedIn(r) : \E k \in 1 .. Len(t) : t[k] = r[i].name
      BY <1>14
    <3>2. \A i, j \in AskedIn(r), k, l \in 1 .. Len(t) :
          i < j /\ t[k] = r[i].name /\ t[l] = r[j].name => k < l
      BY <1>15
    <3>3. \A i \in AskedIn(r), k, l \in 1 .. Len(t) :
          k < l /\ t[k] = r[i].name => \E j \in AskedIn(r) : t[l] = r[j].name
      BY <1>16
    <3> QED BY ONLY <3>1, <3>2, <3>3, MarkedIs
  <2> QED BY <1>12, <1>17, <2>1 DEF LoadInv
<1> QED BY <1>10, <1>11, <1>18 DEF t

LEMMA LoadSame ==
    ASSUME NEW q, NEW r, AskedIn(r) = AskedIn(q), \A i \in AskedIn(q) : r[i].name = q[i].name,
           NEW list, LoadInv(q, list)
    PROVE  LoadInv(r, list)
<1>1. \A i \in AskedIn(r) : \E k \in 1 .. Len(list) : list[k] = r[i].name
  BY DEF LoadInv, Marked
<1>2. ASSUME NEW i \in AskedIn(r), NEW j \in AskedIn(r), NEW k \in 1 .. Len(list),
             NEW l \in 1 .. Len(list), i < j, list[k] = r[i].name, list[l] = r[j].name
      PROVE  k < l
  <2>1. /\ i \in AskedIn(q) /\ list[k] = q[i].name
        /\ j \in AskedIn(q) /\ list[l] = q[j].name
    BY <1>2
  <2> QED BY <1>2, <2>1 DEF LoadInv, Marked
<1>3. ASSUME NEW i \in AskedIn(r), NEW k \in 1 .. Len(list), NEW l \in 1 .. Len(list),
             k < l, list[k] = r[i].name
      PROVE  \E j \in AskedIn(r) : list[l] = r[j].name
  <2>1. i \in AskedIn(q) /\ list[k] = q[i].name
    BY <1>3
  <2>2. PICK j \in AskedIn(q) : list[l] = q[j].name
    BY <1>3, <2>1 DEF LoadInv, Marked
  <2> QED BY <2>2
<1>4. Marked(r, list)
  BY ONLY <1>1, <1>2, <1>3 DEF Marked
<1> QED BY <1>4 DEF LoadInv

\* the data manager answers
LEMMA LoadPut ==
    ASSUME NEW q \in Seq(Msgs), NEW r \in Seq(Msgs), NEW p, NEW m, PutAt(r, q, p, m),
           m.type \in {"get", "house"} <=> q[p].type \in {"get", "house"}, m.name = q[p].name,
           NEW list, LoadInv(q, list)
    PROVE  LoadInv(r, list)
<1>1. \A i \in 1 .. Len(q) : r[i].name = q[i].name
                             /\ (r[i].type \in {"get", "house"} <=> q[i].type \in {"get", "house"})
  BY DEF PutAt
<1>2. AskedIn(r) = AskedIn(q) /\ \A i \in AskedIn(q) : r[i].name = q[i].name
  BY <1>1 DEF AskedIn, PutAt
<1> QED BY <1>2, LoadSame

\* messages that ask for no house
LEMMA LoadMore ==
    ASSUME NEW q \in Seq(Msgs), NEW r \in Seq(Msgs), Len(q) <= Len(r),
           \A i \in 1 .. Len(q) : r[i] = q[i],
           \A i \in 1 .. Len(r) : i > Len(q) => r[i].type \notin {"get", "house"},
           NEW list, LoadInv(q, list)
    PROVE  LoadInv(r, list)
<1>1. Len(q) \in Nat /\ Len(r) \in Nat
  OBVIOUS
<1>2. AskedIn(r) = AskedIn(q)
  BY <1>1 DEF AskedIn
<1>3. \A i \in AskedIn(q) : r[i].name = q[i].name
  BY AskedIs
<1> QED BY <1>2, <1>3, LoadSame

\* a house is asked for
LEMMA LoadAdd ==
    ASSUME NEW q \in Seq(Msgs), NEW m \in Msgs, m.type = "get", NEW list, LoadInv(q, list),
           \A k \in 1 .. Len(list) : list[k] # m.name
    PROVE  LoadInv(Append(q, m), Append(list, m.name))
<1> DEFINE r == Append(q, m)
           t == Append(list, m.name)
<1>1. /\ r \in Seq(Msgs) /\ Len(r) = Len(q) + 1 /\ Len(q) \in Nat
      /\ \A i \in 1 .. Len(q) : r[i] = q[i]
      /\ r[Len(q) + 1] = m
  BY AddFacts
<1>2. /\ t \in Seq(Names) /\ Len(t) = Len(list) + 1 /\ Len(list) \in Nat
      /\ \A k \in 1 .. Len(list) : t[k] = list[k]
      /\ t[Len(list) + 1] = m.name
  BY MsgFacts, AppendProperties DEF LoadInv
<1> HIDE DEF r, t
<1>3. /\ \A i \in AskedIn(r) : \/ i \in AskedIn(q) /\ r[i].name = q[i].name
                               \/ i = Len(q) + 1 /\ r[i].name = m.name
      /\ \A i \in AskedIn(q) : i \in AskedIn(r) /\ r[i].name = q[i].name /\ i < Len(q) + 1
      /\ Len(q) + 1 \in AskedIn(r)
  <2>1. ASSUME NEW i \in AskedIn(r)
        PROVE  \/ i \in AskedIn(q) /\ r[i].name = q[i].name
               \/ i = Len(q) + 1 /\ r[i].name = m.name
    <3>1. i \in 1 .. Len(r) /\ r[i].type \in {"get", "house"}
      BY AskedIs
    <3>2. i \in 1 .. Len(q) \/ i = Len(q) + 1
      BY <1>1, <3>1
    <3> QED BY <1>1, <3>1, <3>2, AskedIs
  <2>2. ASSUME NEW i \in AskedIn(q)
        PROVE  i \in AskedIn(r) /\ r[i].name = q[i].name /\ i < Len(q) + 1
    <3>1. i \in 1 .. Len(q) /\ q[i].type \in {"get", "house"}
      BY AskedIs
    <3>2. i \in 1 .. Len(r) /\ r[i] = q[i] /\ i < Len(q) + 1
      BY <1>1, <3>1
    <3> QED BY <3>1, <3>2, AskedIs
  <2>3. Len(q) + 1 \in AskedIn(r)
    <3>1. Len(q) + 1 \in 1 .. Len(r)
      BY <1>1
    <3> QED BY <1>1, <3>1, AskedIs
  <2> QED BY <2>1, <2>2, <2>3
<1>4. \A k \in 1 .. Len(t) : \/ k \in 1 .. Len(list) /\ t[k] = list[k] /\ t[k] # m.name
                             \/ k = Len(list) + 1 /\ t[k] = m.name
  <2> SUFFICES ASSUME NEW k \in 1 .. Len(t)
               PROVE  \/ k \in 1 .. Len(list) /\ t[k] = list[k] /\ t[k] # m.name
                      \/ k = Len(list) + 1 /\ t[k] = m.name
    OBVIOUS
  <2>1. k \in 1 .. Len(list) \/ k = Len(list) + 1
    BY <1>2
  <2> QED BY <1>2, <2>1
<1>5. \A i \in AskedIn(q) : q[i].name # m.name
  BY DEF LoadInv, Marked
<1>6. ASSUME NEW i \in AskedIn(r) PROVE \E k \in 1 .. Len(t) : t[k] = r[i].name
  <2>1. CASE i \in AskedIn(q) /\ r[i].name = q[i].name
    <3>1. PICK k \in 1 .. Len(list) : list[k] = q[i].name
      BY <2>1 DEF LoadInv, Marked
    <3> QED BY <1>2, <2>1, <3>1
  <2>2. CASE r[i].name = m.name
    BY <1>2, <2>2
  <2> QED BY <1>3, <2>1, <2>2
<1>7. ASSUME NEW i \in AskedIn(r), NEW j \in AskedIn(r), NEW k \in 1 .. Len(t),
             NEW l \in 1 .. Len(t), i < j, t[k] = r[i].name, t[l] = r[j].name
      PROVE  k < l
  <2>1. i \in AskedIn(q) /\ r[i].name = q[i].name
    <3>1. j \in 1 .. Len(r)
      BY AskedIs
    <3>2. i # Len(q) + 1
      BY <1>1, <1>7, <3>1
    <3> QED BY <1>3, <3>2
  <2>2. k \in 1 .. Len(list) /\ list[k] = q[i].name
    BY <1>4, <1>5, <1>7, <2>1
  <2>3. CASE j \in AskedIn(q) /\ r[j].name = q[j].name
    <3>1. l \in 1 .. Len(list) /\ list[l] = q[j].name
      BY <1>4, <1>5, <1>7, <2>3
    <3> QED BY <1>7, <2>1, <2>2, <2>3, <3>1 DEF LoadInv, Marked
  <2>4. CASE r[j].name = m.name
    <3>1. l = Len(list) + 1
      BY <1>4, <1>7, <2>4
    <3> QED BY <1>2, <2>2, <3>1
  <2> QED BY <1>3, <2>3, <2>4
<1>8. ASSUME NEW i \in AskedIn(r), NEW k \in 1 .. Len(t), NEW l \in 1 .. Len(t),
             k < l, t[k] = r[i].name
      PROVE  \E j \in AskedIn(r) : t[l] = r[j].name
  <2>1. k \in 1 .. Len(list)
    BY <1>2, <1>4, <1>8
  <2>2. t[k] = list[k] /\ t[k] # m.name
    BY <1>2, <2>1
  <2>3. i \in AskedIn(q) /\ r[i].name = q[i].name
    BY <1>3, <1>8, <2>2
  <2>4. CASE l \in 1 .. Len(list) /\ t[l] = list[l]
    <3>0. list[k] = q[i].name
      BY <1>8, <2>2, <2>3
    <3>1. PICK j \in AskedIn(q) : list[l] = q[j].name
      BY <1>8, <2>1, <2>3, <2>4, <3>0 DEF LoadInv, Marked
    <3> QED BY <1>3, <2>4, <3>1
  <2>5. CASE t[l] = m.name
    <3>1. r[Len(q) + 1].name = m.name
      BY <1>1
    <3> QED BY <1>3, <2>5, <3>1
  <2> QED BY <1>4, <2>4, <2>5
<1>9. IsInjective(t)
  <2>1. DOMAIN t = 1 .. Len(t) /\ DOMAIN list = 1 .. Len(list)
    BY <1>2 DEF LoadInv
  <2>2. \A a, b \in 1 .. Len(list) : list[a] = list[b] => a = b
    BY <2>1 DEF LoadInv, IsInjective
  <2>3. \A a, b \in 1 .. Len(t) : t[a] = t[b] => a = b
    BY <1>4, <2>2
  <2> QED BY <2>1, <2>3 DEF IsInjective
<1>10. Marked(r, t)
  <2>1. \A i \in AskedIn(r) : \E k \in 1 .. Len(t) : t[k] = r[i].name
    BY <1>6
  <2>2. \A i, j \in AskedIn(r), k, l \in 1 .. Len(t) :
        i < j /\ t[k] = r[i].name /\ t[l] = r[j].name => k < l
    BY <1>7
  <2>3. \A i \in AskedIn(r), k, l \in 1 .. Len(t) :
        k < l /\ t[k] = r[i].name => \E j \in AskedIn(r) : t[l] = r[j].name
    BY <1>8
  <2> QED BY ONLY <2>1, <2>2, <2>3, MarkedIs
<1> QED BY <1>2, <1>9, <1>10 DEF LoadInv, r, t

-----------------------------------------------------------------------------
(* What is left in a house is saved, or will be.                             *)

UnbornIn(q, n) ==
    {i \in 1 .. Len(q) : q[i].type \in {"newchar", "char", "newhouse"} /\ q[i].name = n}

\* there are ids for the houses that are still to be written
BoundInv(q, newest) == \A n \in Names : newest[n] + Cardinality(UnbornIn(q, n)) <= MaxId

HomeWrite(m, rows, n) == m.type = "write" /\ m.name = n /\ m.id = rows[n].id
IsHome(b, rows, n)    == b.owner = n /\ b.id = rows[n].id

\* the row has what was left, once all that is under way is written
Saved(q, rows, last, n) ==
    /\ (\A i \in 1 .. Len(q) : ~HomeWrite(q[i], rows, n)) => rows[n].data = last[n]
    /\ \A i \in 1 .. Len(q) :
          HomeWrite(q[i], rows, n) /\ (\A j \in 1 .. Len(q) : i < j => ~HomeWrite(q[j], rows, n))
             => q[i].data = last[n]

\* the building is marked as changed: it is saved before it goes
Unsaved(B, rows, n) == \E s \in Slots : IsHome(B[s], rows, n) /\ B[s].changed

\* its deletion is under way, and nothing is asked of it before that
Doomed(q, B, rows, n) ==
    /\ \A s \in Slots : ~IsHome(B[s], rows, n)
    /\ \E i \in 1 .. Len(q) :
          /\ q[i].type = "delete" /\ q[i].name = n
          /\ \A j \in 1 .. Len(q) :
                q[j].name = n => /\ q[j].type = "get" => i < j
                                 /\ q[j].type = "house" => q[j].id # rows[n].id

SavedInv(q, B, rows, last) ==
    \A n \in Names : rows[n].id # 0 =>
        Saved(q, rows, last, n) \/ Unsaved(B, rows, n) \/ Doomed(q, B, rows, n)

KeptInv(B, rows, last) ==
    \A s \in Slots : B[s].owner # None /\ B[s].id = rows[B[s].owner].id
                        => B[s].data = last[B[s].owner]

LEMMA UnbornFinite ==
    ASSUME NEW q \in Seq(Msgs), NEW n
    PROVE  IsFiniteSet(UnbornIn(q, n)) /\ Cardinality(UnbornIn(q, n)) \in Nat
<1>1. IsFiniteSet(1 .. Len(q))
  BY FS_Interval
<1>2. UnbornIn(q, n) \in SUBSET (1 .. Len(q))
  BY DEF UnbornIn
<1>3. IsFiniteSet(UnbornIn(q, n))
  BY <1>1, <1>2, FS_Subset
<1> QED BY <1>3, FS_CardinalityType

LEMMA UnbornEmbeds ==
    ASSUME NEW q \in Seq(Msgs), NEW r \in Seq(Msgs), NEW e, Embeds(e, r, q), NEW n
    PROVE  /\ Cardinality(UnbornIn(r, n)) <= Cardinality(UnbornIn(q, n))
           /\ \A p \in UnbornIn(q, n) : (\A i \in 1 .. Len(r) : e[i] # p)
                 => Cardinality(UnbornIn(r, n)) + 1 <= Cardinality(UnbornIn(q, n))
<1> DEFINE U == UnbornIn(r, n)
           V == UnbornIn(q, n)
           f == [i \in U |-> e[i]]
<1>1. IsFiniteSet(U) /\ Cardinality(U) \in Nat /\ IsFiniteSet(V) /\ Cardinality(V) \in Nat
  BY UnbornFinite
<1>2. \A i \in U : e[i] \in V
  <2> SUFFICES ASSUME NEW i \in U PROVE e[i] \in V
    OBVIOUS
  <2>1. i \in 1 .. Len(r) /\ r[i].type \in {"newchar", "char", "newhouse"} /\ r[i].name = n
    BY DEF UnbornIn
  <2>2. e[i] \in 1 .. Len(q) /\ Alike(q[e[i]], r[i])
    BY <2>1, EmbedsOrder
  <2> QED BY <2>1, <2>2 DEF UnbornIn, Alike
<1>3. \A i, j \in U : e[i] = e[j] => i = j
  <2>1. \A i, j \in 1 .. Len(r) : e[i] = e[j] => i = j
    BY EmbedsOrder
  <2> QED BY <2>1 DEF UnbornIn
<1> HIDE DEF U, V
<1>4. IsInjective(f) /\ DOMAIN f = U
  BY <1>3 DEF IsInjective
<1>5. f \in Injection(U, V)
  BY <1>2, <1>4 DEF Injection
<1>6. Cardinality(U) <= Cardinality(V)
  BY <1>1, <1>5, FS_Injection
<1>7. ASSUME NEW p \in V, \A i \in 1 .. Len(r) : e[i] # p
      PROVE  Cardinality(U) + 1 <= Cardinality(V)
  <2>1. IsFiniteSet(V \ {p}) /\ Cardinality(V \ {p}) = Cardinality(V) - 1
    BY <1>1, FS_RemoveElement
  <2>2. \A i \in U : e[i] \in V \ {p}
    BY <1>2, <1>7 DEF U, UnbornIn
  <2>3. f \in Injection(U, V \ {p})
    BY <1>4, <2>2 DEF Injection
  <2>4. Cardinality(U) <= Cardinality(V \ {p})
    BY <2>1, <2>3, FS_Injection
  <2> QED BY <1>1, <2>1, <2>4
<1> QED BY <1>6, <1>7 DEF U, V

LEMMA BoundEmbeds ==
    ASSUME NEW q \in Seq(Msgs), NEW r \in Seq(Msgs), NEW e, Embeds(e, r, q),
           NEW newest \in [Names -> 0 .. MaxId], BoundInv(q, newest)
    PROVE  BoundInv(r, newest)
<1> SUFFICES ASSUME NEW n \in Names PROVE newest[n] + Cardinality(UnbornIn(r, n)) <= MaxId
  BY DEF BoundInv
<1>1. Cardinality(UnbornIn(r, n)) <= Cardinality(UnbornIn(q, n))
  BY UnbornEmbeds
<1>2. newest[n] + Cardinality(UnbornIn(q, n)) <= MaxId
  BY DEF BoundInv
<1>3. /\ Cardinality(UnbornIn(r, n)) \in Nat /\ Cardinality(UnbornIn(q, n)) \in Nat
      /\ newest[n] \in Nat /\ MaxId \in Nat
  BY UnbornFinite, HouseConstants
<1> QED BY <1>1, <1>2, <1>3

LEMMA SavedEmbeds ==
    ASSUME NEW q \in Seq(Msgs), NEW r \in Seq(Msgs), NEW e, Embeds(e, r, q), NEW n,
           NEW B, NEW rows, NEW last,
           \A k \in 1 .. Len(q) :
              HomeWrite(q[k], rows, n) \/ (q[k].type = "delete" /\ q[k].name = n)
                 => \E i \in 1 .. Len(r) : e[i] = k
    PROVE  /\ Saved(q, rows, last, n) => Saved(r, rows, last, n)
           /\ Doomed(q, B, rows, n) => Doomed(r, B, rows, n)
<1>1. \A i \in 1 .. Len(r) :
        /\ e[i] \in 1 .. Len(q) /\ r[i].name = q[e[i]].name /\ r[i].type = q[e[i]].type
        /\ r[i].type = "house" => r[i].id = q[e[i]].id
        /\ HomeWrite(r[i], rows, n) <=> HomeWrite(q[e[i]], rows, n)
        /\ r[i].type = "write" => r[i].data = q[e[i]].data
  <2> SUFFICES ASSUME NEW i \in 1 .. Len(r)
               PROVE  /\ e[i] \in 1 .. Len(q) /\ r[i].name = q[e[i]].name /\ r[i].type = q[e[i]].type
                      /\ r[i].type = "house" => r[i].id = q[e[i]].id
                      /\ HomeWrite(r[i], rows, n) <=> HomeWrite(q[e[i]], rows, n)
                      /\ r[i].type = "write" => r[i].data = q[e[i]].data
    OBVIOUS
  <2>1. e[i] \in 1 .. Len(q) /\ Alike(q[e[i]], r[i])
    BY EmbedsOrder
  <2> QED BY <2>1 DEF Alike, HomeWrite
<1>2. \A i, j \in 1 .. Len(r) : (i < j => e[i] < e[j]) /\ (e[i] < e[j] => i < j)
  BY EmbedsOrder DEF Embeds
<1>3. \A k \in 1 .. Len(q) : HomeWrite(q[k], rows, n) =>
          \E i \in 1 .. Len(r) : e[i] = k /\ HomeWrite(r[i], rows, n)
  BY <1>1 DEF HomeWrite
<1>4. ASSUME Saved(q, rows, last, n) PROVE Saved(r, rows, last, n)
  <2>1. ASSUME \A i \in 1 .. Len(r) : ~HomeWrite(r[i], rows, n) PROVE rows[n].data = last[n]
    <3>1. \A k \in 1 .. Len(q) : ~HomeWrite(q[k], rows, n)
      BY <1>3, <2>1
    <3> QED BY <1>4, <3>1 DEF Saved
  <2>2. ASSUME NEW i \in 1 .. Len(r), HomeWrite(r[i], rows, n),
               \A j \in 1 .. Len(r) : i < j => ~HomeWrite(r[j], rows, n)
        PROVE  r[i].data = last[n]
    <3>1. e[i] \in 1 .. Len(q) /\ HomeWrite(q[e[i]], rows, n)
      BY <1>1, <2>2
    <3>2. ASSUME NEW k \in 1 .. Len(q), e[i] < k, HomeWrite(q[k], rows, n) PROVE FALSE
      <4>1. PICK j \in 1 .. Len(r) : e[j] = k /\ HomeWrite(r[j], rows, n)
        BY <1>3, <3>2
      <4>2. i < j
        BY <1>2, <3>2, <4>1
      <4> QED BY <2>2, <4>1, <4>2
    <3>3. q[e[i]].data = last[n]
      BY <1>4, <3>1, <3>2 DEF Saved
    <3>4. r[i].type = "write"
      BY <2>2 DEF HomeWrite
    <3> QED BY <1>1, <3>3, <3>4
  <2> QED BY <2>1, <2>2 DEF Saved
<1>5. ASSUME Doomed(q, B, rows, n) PROVE Doomed(r, B, rows, n)
  <2>1. PICK k \in 1 .. Len(q) :
          /\ q[k].type = "delete" /\ q[k].name = n
          /\ \A j \in 1 .. Len(q) :
                q[j].name = n => /\ q[j].type = "get" => k < j
                                 /\ q[j].type = "house" => q[j].id # rows[n].id
    BY <1>5 DEF Doomed
  <2>2. PICK i \in 1 .. Len(r) : e[i] = k
    BY <2>1
  <2>3. r[i].type = "delete" /\ r[i].name = n
    BY <1>1, <2>1, <2>2
  <2>4. ASSUME NEW j \in 1 .. Len(r), r[j].name = n
        PROVE  /\ r[j].type = "get" => i < j
               /\ r[j].type = "house" => r[j].id # rows[n].id
    <3>1. e[j] \in 1 .. Len(q) /\ q[e[j]].name = n /\ q[e[j]].type = r[j].type
      BY <1>1, <2>4
    <3>2. /\ r[j].type = "get" => e[i] < e[j]
          /\ r[j].type = "house" => q[e[j]].id # rows[n].id
      BY <2>1, <2>2, <3>1
    <3> QED BY <1>1, <1>2, <3>2
  <2> QED BY <1>5, <2>3, <2>4 DEF Doomed
<1> QED BY <1>4, <1>5

LEMMA SavedMore ==
    ASSUME NEW q \in Seq(Msgs), NEW r \in Seq(Msgs), Len(q) <= Len(r),
           \A i \in 1 .. Len(q) : r[i] = q[i], NEW n, NEW B, NEW rows, NEW last,
           \A i \in 1 .. Len(r) : i > Len(q) =>
              r[i].type # "house" /\ (HomeWrite(r[i], rows, n) => r[i].data = last[n])
    PROVE  /\ Saved(q, rows, last, n) => Saved(r, rows, last, n)
           /\ Doomed(q, B, rows, n) => Doomed(r, B, rows, n)
           /\ (\E i \in 1 .. Len(r) : i > Len(q) /\ HomeWrite(r[i], rows, n)) => Saved(r, rows, last, n)
<1>0. Len(q) \in Nat /\ Len(r) \in Nat
  OBVIOUS
<1>1. ASSUME NEW k \in 1 .. Len(r), k > Len(q), HomeWrite(r[k], rows, n)
      PROVE  Saved(r, rows, last, n)
  <2>1. ASSUME NEW i \in 1 .. Len(r), HomeWrite(r[i], rows, n),
               \A j \in 1 .. Len(r) : i < j => ~HomeWrite(r[j], rows, n)
        PROVE  r[i].data = last[n]
    <3>1. i > Len(q)
      BY <1>0, <1>1, <2>1
    <3> QED BY <2>1, <3>1
  <2> QED BY <1>1, <2>1 DEF Saved
<1>2. ASSUME Saved(q, rows, last, n), \A k \in 1 .. Len(r) : k > Len(q) => ~HomeWrite(r[k], rows, n)
      PROVE  Saved(r, rows, last, n)
  <2>1. ASSUME \A i \in 1 .. Len(r) : ~HomeWrite(r[i], rows, n) PROVE rows[n].data = last[n]
    <3>1. ASSUME NEW i \in 1 .. Len(q) PROVE ~HomeWrite(q[i], rows, n)
      <4>1. i \in 1 .. Len(r) /\ r[i] = q[i]
        BY <1>0
      <4> QED BY <2>1, <4>1
    <3> QED BY <1>2, <3>1 DEF Saved
  <2>2. ASSUME NEW i \in 1 .. Len(r), HomeWrite(r[i], rows, n),
               \A j \in 1 .. Len(r) : i < j => ~HomeWrite(r[j], rows, n)
        PROVE  r[i].data = last[n]
    <3>1. i \in 1 .. Len(q)
      BY <1>0, <1>2, <2>2
    <3>2. ASSUME NEW j \in 1 .. Len(q), i < j PROVE ~HomeWrite(q[j], rows, n)
      <4>1. j \in 1 .. Len(r) /\ r[j] = q[j]
        BY <1>0
      <4> QED BY <2>2, <3>2, <4>1
    <3> QED BY <1>2, <2>2, <3>1, <3>2 DEF Saved
  <2> QED BY <2>1, <2>2 DEF Saved
<1>3. ASSUME Doomed(q, B, rows, n) PROVE Doomed(r, B, rows, n)
  <2>1. PICK k \in 1 .. Len(q) :
          /\ q[k].type = "delete" /\ q[k].name = n
          /\ \A j \in 1 .. Len(q) :
                q[j].name = n => /\ q[j].type = "get" => k < j
                                 /\ q[j].type = "house" => q[j].id # rows[n].id
    BY <1>3 DEF Doomed
  <2>2. k \in 1 .. Len(r) /\ r[k] = q[k]
    BY <1>0
  <2>3. ASSUME NEW j \in 1 .. Len(r), r[j].name = n
        PROVE  /\ r[j].type = "get" => k < j
               /\ r[j].type = "house" => r[j].id # rows[n].id
    <3>1. CASE j \in 1 .. Len(q)
      <4>1. r[j] = q[j]
        BY <3>1
      <4> QED BY <2>1, <2>3, <3>1, <4>1
    <3>2. CASE j > Len(q)
      BY <1>0, <3>2
    <3> QED BY <1>0, <3>1, <3>2
  <2> QED BY <1>3, <2>1, <2>2, <2>3 DEF Doomed
<1> QED BY <1>1, <1>2, <1>3

-----------------------------------------------------------------------------
(* The whole of it, and what keeps it.                                       *)

Bldgs == [Slots -> [owner : Names \union {None}, id : 0 .. MaxId, data : Data,
                    changed : BOOLEAN, delay : 0 .. Delay]]

Typed(rows, chars, newest, B, place, last) ==
    /\ rows \in [Names -> [id : 0 .. MaxId, data : Data]]
    /\ chars \subseteq Names /\ newest \in [Names -> 0 .. MaxId]
    /\ B \in Bldgs /\ place \in [Names -> States] /\ last \in [Names -> Data]

Sound(q, rows, chars, newest, B, place, last) ==
    /\ q \in Seq(Msgs)
    /\ Typed(rows, chars, newest, B, place, last)
    /\ CallersInv(q, place)
    /\ BirthInv(q, rows, chars, last)
    /\ IdsInv(q, rows, newest, B)
    /\ BoundInv(q, newest)
    /\ OneHouse(q, B)
    /\ ReplyInv(q, rows, last)
    /\ OrderInv(q)
    /\ KeptInv(B, rows, last)
    /\ SavedInv(q, B, rows, last)

\* messages go that save and delete nothing, or lose their callers
LEMMA SoundEmbeds ==
    ASSUME NEW q, NEW r \in Seq(Msgs), NEW e, Embeds(e, r, q),
           NEW R, NEW M, NEW I, NEW B, NEW P, NEW L, Sound(q, R, M, I, B, P, L),
           \A k \in 1 .. Len(q) : q[k].type \in {"write", "delete"} => \E i \in 1 .. Len(r) : e[i] = k
    PROVE  Sound(r, R, M, I, B, P, L)
<1>1. q \in Seq(Msgs) /\ I \in [Names -> 0 .. MaxId] /\ BoundInv(q, I)
  BY DEF Sound, Typed
<1>2. /\ CallersInv(r, P) /\ BirthInv(r, R, M, L) /\ IdsInv(r, R, I, B) /\ OneHouse(r, B)
      /\ ReplyInv(r, R, L) /\ OrderInv(r)
  BY <1>1, EmbedsInv DEF Sound
<1>3. BoundInv(r, I)
  BY <1>1, BoundEmbeds
<1>4. SavedInv(r, B, R, L)
  <2>1. ASSUME NEW n \in Names
        PROVE  /\ Saved(q, R, L, n) => Saved(r, R, L, n)
               /\ Doomed(q, B, R, n) => Doomed(r, B, R, n)
    <3>1. \A k \in 1 .. Len(q) :
             HomeWrite(q[k], R, n) \/ (q[k].type = "delete" /\ q[k].name = n)
                => \E i \in 1 .. Len(r) : e[i] = k
      BY DEF HomeWrite
    <3> QED BY <1>1, <3>1, SavedEmbeds
  <2> QED BY <2>1 DEF Sound, SavedInv
<1> QED BY <1>2, <1>3, <1>4 DEF Sound

LEMMA SoundAdd ==
    ASSUME NEW q, NEW m \in Msgs,
           NEW R, NEW M, NEW I, NEW B, NEW P, NEW L, Sound(q, R, M, I, B, P, L),
           m.type \notin {"house", "write"},
           Waits(m) => m.caller = m.name /\ P[m.name] = Waiting,
           Makes(m) => /\ m.caller = m.name /\ P[m.name] = Making
                       /\ \A i \in 1 .. Len(q) : Makes(q[i]) => q[i].name # m.name,
           m.type = "get" => \A s \in Slots : B[s].owner # m.name,
           m.type = "newhouse" => L[m.name] = NewHouse,
           Bears(m) => /\ m.name \in M /\ R[m.name].id = 0
                       /\ \A i \in 1 .. Len(q) :
                             Bears(q[i]) \/ q[i].type = "delete" => q[i].name # m.name,
           m.type = "delete" => /\ m.name \in M
                                /\ \A i \in 1 .. Len(q) : q[i].name = m.name =>
                                      q[i].type # "delete" /\ (Bears(q[i]) => q[i].type = "newhouse"),
           m.type \in {"newchar", "char", "newhouse"} =>
                I[m.name] + Cardinality(UnbornIn(q, m.name)) < MaxId
    PROVE  Sound(Append(q, m), R, M, I, B, P, L)
<1> DEFINE r == Append(q, m)
           Z == Len(q) + 1
<1>1. /\ q \in Seq(Msgs) /\ r \in Seq(Msgs) /\ Len(r) = Z /\ Len(q) \in Nat
      /\ \A i \in 1 .. Len(q) : r[i] = q[i]
      /\ r[Z] = m
  BY AddFacts DEF Sound
<1>2. m.name \in Names
  BY MsgFacts
<1>3. /\ CallersInv(q, P) /\ BirthInv(q, R, M, L) /\ IdsInv(q, R, I, B) /\ OneHouse(q, B)
      /\ ReplyInv(q, R, L) /\ OrderInv(q) /\ BoundInv(q, I) /\ SavedInv(q, B, R, L)
      /\ Typed(R, M, I, B, P, L) /\ KeptInv(B, R, L)
  BY DEF Sound
<1> HIDE DEF r
<1>4. \A i \in 1 .. Len(r) : i \in 1 .. Len(q) \/ i = Z
  BY <1>1
<1>5. \A i \in 1 .. Len(q) : i < Z /\ i # Z
  BY <1>1
<1> HIDE DEF Z
<1>6. CallersInv(r, P)
  <2>1. \A i \in 1 .. Len(r) : Waits(r[i]) => r[i].caller = r[i].name /\ P[r[i].name] = Waiting
    BY <1>1, <1>3, <1>4 DEF CallersInv
  <2>2. \A i \in 1 .. Len(r) : Makes(r[i]) => r[i].caller = r[i].name /\ P[r[i].name] = Making
    BY <1>1, <1>3, <1>4 DEF CallersInv
  <2>3. ASSUME NEW i \in 1 .. Len(r), NEW j \in 1 .. Len(r), Makes(r[i]), Makes(r[j]),
               r[i].name = r[j].name
        PROVE  i = j
    <3>1. CASE i \in 1 .. Len(q) /\ j \in 1 .. Len(q)
      BY <1>1, <1>3, <2>3, <3>1 DEF CallersInv
    <3>2. CASE i = Z \/ j = Z
      BY <1>1, <1>4, <2>3, <3>2
    <3> QED BY <1>4, <3>1, <3>2
  <2> QED BY <2>1, <2>2, <2>3 DEF CallersInv
<1>7. BirthInv(r, R, M, L)
  <2>1. ASSUME NEW i \in 1 .. Len(r)
        PROVE  /\ r[i].type = "delete" => r[i].name \in M
               /\ r[i].type = "newhouse" => L[r[i].name] = NewHouse
               /\ Bears(r[i]) => r[i].name \in M /\ R[r[i].name].id = 0
    <3>1. CASE i \in 1 .. Len(q)
      BY <1>1, <1>3, <3>1 DEF BirthInv
    <3>2. CASE i = Z
      BY <1>1, <3>2
    <3> QED BY <1>4, <3>1, <3>2
  <2>2. ASSUME NEW i \in 1 .. Len(r), NEW j \in 1 .. Len(r), r[i].name = r[j].name
        PROVE  /\ Bears(r[i]) /\ Bears(r[j]) => i = j
               /\ r[i].type = "delete" /\ r[j].type = "delete" => i = j
               /\ Bears(r[i]) /\ r[j].type = "delete" => r[i].type = "newhouse" /\ i < j
    <3>1. CASE i \in 1 .. Len(q) /\ j \in 1 .. Len(q)
      <4>1. r[i] = q[i] /\ r[j] = q[j]
        BY <1>1, <3>1
      <4> QED BY <1>3, <2>2, <3>1, <4>1 DEF BirthInv
    <3>2. CASE i \in 1 .. Len(q) /\ j = Z
      BY <1>1, <1>5, <2>2, <3>2
    <3>3. CASE i = Z /\ j \in 1 .. Len(q)
      BY <1>1, <2>2, <3>3
    <3>4. CASE i = Z /\ j = Z
      BY <1>1, <3>4 DEF Bears
    <3> QED BY <1>4, <3>1, <3>2, <3>3, <3>4
  <2>3. \A n \in Names : n \notin M => R[n].id = 0
    BY <1>3 DEF BirthInv
  <2> QED BY <2>1, <2>2, <2>3 DEF BirthInv
<1>8. IdsInv(r, R, I, B)
  <2>1. ASSUME NEW i \in 1 .. Len(r)
        PROVE  /\ r[i].type \in {"house", "write"} => r[i].id <= I[r[i].name]
               /\ r[i].type = "house" => (r[i].ok <=> r[i].id # 0)
    <3>1. CASE i \in 1 .. Len(q)
      <4>1. /\ q[i].type \in {"house", "write"} => q[i].id <= I[q[i].name]
            /\ q[i].type = "house" => (q[i].ok <=> q[i].id # 0)
        BY <1>3, <3>1 DEF IdsInv
      <4> QED BY <1>1, <3>1, <4>1
    <3>2. CASE i = Z
      BY <1>1, <3>2
    <3> QED BY <1>4, <3>1, <3>2
  <2> QED BY <1>3, <2>1 DEF IdsInv
<1>9. OneHouse(r, B)
  <2>1. ASSUME NEW s \in Slots, NEW i \in AskedIn(r), B[s].owner # None PROVE B[s].owner # r[i].name
    <3>0. i \in 1 .. Len(r) /\ r[i].type \in {"get", "house"}
      BY AskedIs
    <3>1. CASE i \in 1 .. Len(q)
      <4>1. i \in AskedIn(q) /\ r[i] = q[i]
        BY <1>1, <3>0, <3>1, AskedIs
      <4> QED BY <1>3, <2>1, <4>1 DEF OneHouse
    <3>2. CASE i = Z
      BY <1>1, <3>0, <3>2
    <3> QED BY <1>4, <3>0, <3>1, <3>2
  <2> QED BY <1>3, <2>1 DEF OneHouse
<1>10. ReplyInv(r, R, L)
  <2>1. ASSUME NEW i \in 1 .. Len(r), r[i].type = "house", r[i].id # 0, r[i].id = R[r[i].name].id
        PROVE  r[i].data = L[r[i].name]
    <3>1. i \in 1 .. Len(q)
      BY <1>1, <1>4, <2>1
    <3> QED BY <1>1, <1>3, <2>1, <3>1 DEF ReplyInv
  <2> QED BY <2>1 DEF ReplyInv
<1>11. OrderInv(r)
  <2>1. ASSUME NEW i \in 1 .. Len(r), NEW j \in 1 .. Len(r), r[i].type = "write",
               r[j].type = "get", r[i].name = r[j].name
        PROVE  i < j
    <3>1. i \in 1 .. Len(q)
      BY <1>1, <1>4, <2>1
    <3>2. CASE j \in 1 .. Len(q)
      <4>1. r[i] = q[i] /\ r[j] = q[j]
        BY <1>1, <3>1, <3>2
      <4> QED BY <1>3, <2>1, <3>1, <3>2, <4>1 DEF OrderInv
    <3>3. CASE j = Z
      BY <1>5, <3>1, <3>3
    <3> QED BY <1>4, <3>2, <3>3
  <2> QED BY <2>1 DEF OrderInv
<1>12. BoundInv(r, I)
  <2> SUFFICES ASSUME NEW n \in Names PROVE I[n] + Cardinality(UnbornIn(r, n)) <= MaxId
    BY DEF BoundInv
  <2> DEFINE U == UnbornIn(q, n)
             V == UnbornIn(r, n)
  <2>0. /\ IsFiniteSet(U) /\ Cardinality(U) \in Nat /\ I[n] \in Nat /\ MaxId \in Nat
        /\ I[n] + Cardinality(U) <= MaxId
    BY <1>1, <1>3, UnbornFinite, HouseConstants DEF Typed, BoundInv
  <2>1. CASE m.type \in {"newchar", "char", "newhouse"} /\ m.name = n
    <3>1. V = U \union {Z}
      <4>1. \A i \in V : i \in U \/ i = Z
        BY <1>1, <1>4 DEF UnbornIn
      <4>2. \A i \in U : i \in V
        BY <1>1 DEF UnbornIn, Z
      <4>3. Z \in V
        BY <1>1, <2>1 DEF UnbornIn, Z
      <4> QED BY <4>1, <4>2, <4>3
    <3>2. Z \notin U
      BY <1>5 DEF UnbornIn
    <3> HIDE DEF U, V
    <3>3. Cardinality(V) = Cardinality(U) + 1
      BY <2>0, <3>1, <3>2, FS_AddElement
    <3>4. I[n] + Cardinality(U) < MaxId
      BY <2>1 DEF U
    <3> QED BY <2>0, <3>3, <3>4 DEF V
  <2>2. CASE ~(m.type \in {"newchar", "char", "newhouse"} /\ m.name = n)
    <3>1. V = U
      <4>1. \A i \in V : i \in U
        BY <1>1, <1>4, <2>2 DEF UnbornIn
      <4>2. \A i \in U : i \in V
        BY <1>1 DEF UnbornIn, Z
      <4> QED BY <4>1, <4>2
    <3> QED BY <2>0, <3>1
  <2> QED BY <2>1, <2>2
<1>13. SavedInv(r, B, R, L)
  <2>1. ASSUME NEW n \in Names
        PROVE  /\ Saved(q, R, L, n) => Saved(r, R, L, n)
               /\ Doomed(q, B, R, n) => Doomed(r, B, R, n)
    <3>1. \A i \in 1 .. Len(r) : i > Len(q) =>
              r[i].type # "house" /\ (HomeWrite(r[i], R, n) => r[i].data = L[n])
      <4>1. \A i \in 1 .. Len(r) : i > Len(q) => r[i] = m
        BY <1>1, <1>4
      <4> QED BY <4>1 DEF HomeWrite
    <3>2. Len(q) <= Len(r)
      BY <1>1 DEF Z
    <3> QED BY <1>1, <3>1, <3>2, SavedMore
  <2> QED BY <1>3, <2>1 DEF SavedInv
<1> QED BY <1>1, <1>3, <1>6, <1>7, <1>8, <1>9, <1>10, <1>11, <1>12, <1>13 DEF Sound, r

\* the houses of a list are written
Resaved(q, r, R, L) ==
    \A n \in Names : (\E i \in 1 .. Len(r) : i > Len(q) /\ HomeWrite(r[i], R, n)) => Saved(r, R, L, n)

LEMMA SoundWrites ==
    ASSUME NEW q, NEW r \in Seq(Msgs), Len(q) <= Len(r), \A i \in 1 .. Len(q) : r[i] = q[i],
           NEW R, NEW M, NEW I, NEW B, NEW P, NEW L, Sound(q, R, M, I, B, P, L),
           \A i \in 1 .. Len(r) : i > Len(q) =>
              /\ r[i].type = "write"
              /\ \E s \in Slots : /\ B[s].owner # None /\ r[i].name = B[s].owner
                                  /\ r[i].id = B[s].id /\ r[i].data = B[s].data
    PROVE  Sound(r, R, M, I, B, P, L) /\ Resaved(q, r, R, L)
<1>1. /\ q \in Seq(Msgs) /\ Len(q) \in Nat /\ Len(r) \in Nat
      /\ \A i \in 1 .. Len(q) : i \in 1 .. Len(r)
      /\ \A i \in 1 .. Len(r) : i \in 1 .. Len(q) \/ i > Len(q)
  BY DEF Sound
<1>3. /\ CallersInv(q, P) /\ BirthInv(q, R, M, L) /\ IdsInv(q, R, I, B) /\ OneHouse(q, B)
      /\ ReplyInv(q, R, L) /\ OrderInv(q) /\ BoundInv(q, I) /\ SavedInv(q, B, R, L)
      /\ Typed(R, M, I, B, P, L) /\ KeptInv(B, R, L)
  BY DEF Sound
<1>4. \A i \in 1 .. Len(r) : i > Len(q) => ~Waits(r[i]) /\ ~Makes(r[i]) /\ ~Bears(r[i])
  BY DEF Waits, Makes, Bears
<1>5. \A i \in 1 .. Len(q), j \in 1 .. Len(r) : j > Len(q) => i < j
  BY <1>1
<1>6. CallersInv(r, P)
  <2>1. \A i \in 1 .. Len(r) : Waits(r[i]) => r[i].caller = r[i].name /\ P[r[i].name] = Waiting
    BY <1>1, <1>3, <1>4 DEF CallersInv
  <2>2. \A i \in 1 .. Len(r) : Makes(r[i]) => r[i].caller = r[i].name /\ P[r[i].name] = Making
    BY <1>1, <1>3, <1>4 DEF CallersInv
  <2>3. ASSUME NEW i \in 1 .. Len(r), NEW j \in 1 .. Len(r), Makes(r[i]), Makes(r[j]),
               r[i].name = r[j].name
        PROVE  i = j
    <3>1. i \in 1 .. Len(q) /\ j \in 1 .. Len(q)
      BY <1>1, <1>4, <2>3
    <3> QED BY <1>3, <2>3, <3>1 DEF CallersInv
  <2> QED BY <2>1, <2>2, <2>3 DEF CallersInv
<1>7. BirthInv(r, R, M, L)
  <2>1. ASSUME NEW i \in 1 .. Len(r)
        PROVE  /\ r[i].type = "delete" => r[i].name \in M
               /\ r[i].type = "newhouse" => L[r[i].name] = NewHouse
               /\ Bears(r[i]) => r[i].name \in M /\ R[r[i].name].id = 0
    <3>1. CASE i \in 1 .. Len(q)
      BY <1>3, <3>1 DEF BirthInv
    <3>2. CASE i > Len(q)
      BY <1>4, <3>2
    <3> QED BY <1>1, <3>1, <3>2
  <2>2. ASSUME NEW i \in 1 .. Len(r), NEW j \in 1 .. Len(r), r[i].name = r[j].name
        PROVE  /\ Bears(r[i]) /\ Bears(r[j]) => i = j
               /\ r[i].type = "delete" /\ r[j].type = "delete" => i = j
               /\ Bears(r[i]) /\ r[j].type = "delete" => r[i].type = "newhouse" /\ i < j
    <3>1. CASE i \in 1 .. Len(q) /\ j \in 1 .. Len(q)
      <4>1. r[i] = q[i] /\ r[j] = q[j]
        BY <3>1
      <4> QED BY <1>3, <2>2, <3>1, <4>1 DEF BirthInv
    <3>2. CASE i > Len(q) \/ j > Len(q)
      BY <1>4, <3>2
    <3> QED BY <1>1, <3>1, <3>2
  <2>3. \A n \in Names : n \notin M => R[n].id = 0
    BY <1>3 DEF BirthInv
  <2> QED BY <2>1, <2>2, <2>3 DEF BirthInv
<1>8. IdsInv(r, R, I, B)
  <2>1. ASSUME NEW i \in 1 .. Len(r)
        PROVE  /\ r[i].type \in {"house", "write"} => r[i].id <= I[r[i].name]
               /\ r[i].type = "house" => (r[i].ok <=> r[i].id # 0)
    <3>1. CASE i \in 1 .. Len(q)
      <4>1. /\ q[i].type \in {"house", "write"} => q[i].id <= I[q[i].name]
            /\ q[i].type = "house" => (q[i].ok <=> q[i].id # 0)
        BY <1>3, <3>1 DEF IdsInv
      <4> QED BY <3>1, <4>1
    <3>2. CASE i > Len(q)
      <4>1. PICK s \in Slots : /\ B[s].owner # None /\ r[i].name = B[s].owner
                               /\ r[i].id = B[s].id
        BY <3>2
      <4>2. B[s].id <= I[B[s].owner]
        BY <1>3, <4>1 DEF IdsInv
      <4> QED BY <3>2, <4>1, <4>2
    <3> QED BY <1>1, <3>1, <3>2
  <2> QED BY <1>3, <2>1 DEF IdsInv
<1>9. OneHouse(r, B)
  <2>1. ASSUME NEW s \in Slots, NEW i \in AskedIn(r), B[s].owner # None PROVE B[s].owner # r[i].name
    <3>1. i \in 1 .. Len(r) /\ r[i].type \in {"get", "house"}
      BY AskedIs
    <3>2. i \in 1 .. Len(q)
      BY <1>1, <3>1
    <3>3. i \in AskedIn(q) /\ r[i] = q[i]
      BY <3>1, <3>2, AskedIs
    <3> QED BY <1>3, <2>1, <3>3 DEF OneHouse
  <2> QED BY <1>3, <2>1 DEF OneHouse
<1>10. ReplyInv(r, R, L)
  <2>1. ASSUME NEW i \in 1 .. Len(r), r[i].type = "house", r[i].id # 0, r[i].id = R[r[i].name].id
        PROVE  r[i].data = L[r[i].name]
    <3>1. i \in 1 .. Len(q)
      BY <1>1, <2>1
    <3> QED BY <1>3, <2>1, <3>1 DEF ReplyInv
  <2> QED BY <2>1 DEF ReplyInv
<1>11. OrderInv(r)
  <2>1. ASSUME NEW i \in 1 .. Len(r), NEW j \in 1 .. Len(r), r[i].type = "write",
               r[j].type = "get", r[i].name = r[j].name
        PROVE  i < j
    <3>1. j \in 1 .. Len(q)
      BY <1>1, <2>1
    <3>2. CASE i \in 1 .. Len(q)
      <4>1. r[i] = q[i] /\ r[j] = q[j]
        BY <3>1, <3>2
      <4> QED BY <1>3, <2>1, <3>1, <3>2, <4>1 DEF OrderInv
    <3>3. CASE i > Len(q)
      <4>1. PICK s \in Slots : B[s].owner # None /\ r[i].name = B[s].owner
        BY <3>3
      <4>2. j \in AskedIn(q) /\ B[s].owner = q[j].name
        BY <2>1, <3>1, <4>1, AskedIs
      <4> QED BY <1>3, <4>1, <4>2 DEF OneHouse
    <3> QED BY <1>1, <3>2, <3>3
  <2> QED BY <2>1 DEF OrderInv
<1>12. BoundInv(r, I)
  <2> SUFFICES ASSUME NEW n \in Names PROVE I[n] + Cardinality(UnbornIn(r, n)) <= MaxId
    BY DEF BoundInv
  <2>1. UnbornIn(r, n) = UnbornIn(q, n)
    <3>1. \A i \in UnbornIn(r, n) : i \in UnbornIn(q, n)
      BY <1>1 DEF UnbornIn
    <3>2. \A i \in UnbornIn(q, n) : i \in UnbornIn(r, n)
      BY <1>1 DEF UnbornIn
    <3> QED BY <3>1, <3>2
  <2> QED BY <1>3, <2>1 DEF BoundInv
<1>13. ASSUME NEW n \in Names
       PROVE  /\ Saved(q, R, L, n) => Saved(r, R, L, n)
              /\ Doomed(q, B, R, n) => Doomed(r, B, R, n)
              /\ (\E i \in 1 .. Len(r) : i > Len(q) /\ HomeWrite(r[i], R, n)) => Saved(r, R, L, n)
  <2>1. ASSUME NEW i \in 1 .. Len(r), i > Len(q)
        PROVE  r[i].type # "house" /\ (HomeWrite(r[i], R, n) => r[i].data = L[n])
    <3>1. PICK s \in Slots : /\ B[s].owner # None /\ r[i].name = B[s].owner
                             /\ r[i].id = B[s].id /\ r[i].data = B[s].data
      BY <2>1
    <3>2. HomeWrite(r[i], R, n) => B[s].owner = n /\ B[s].id = R[n].id
      BY <3>1 DEF HomeWrite
    <3>3. HomeWrite(r[i], R, n) => B[s].data = L[n]
      BY <1>3, <3>1, <3>2 DEF KeptInv
    <3> QED BY <2>1, <3>1, <3>3
  <2> QED BY <1>1, <2>1, SavedMore
<1>14. SavedInv(r, B, R, L)
  BY <1>3, <1>13 DEF SavedInv
<1>15. Resaved(q, r, R, L)
  BY <1>13 DEF Resaved
<1> QED BY <1>3, <1>6, <1>7, <1>8, <1>9, <1>10, <1>11, <1>12, <1>14, <1>15 DEF Sound

\* characters nobody has a message for go to another place
LEMMA SoundPlace ==
    ASSUME NEW q, NEW R, NEW M, NEW I, NEW B, NEW P, NEW L, Sound(q, R, M, I, B, P, L),
           NEW Q \in [Names -> States],
           \A i \in 1 .. Len(q) : Waits(q[i]) \/ Makes(q[i]) => Q[q[i].name] = P[q[i].name]
    PROVE  Sound(q, R, M, I, B, Q, L)
<1>1. CallersInv(q, Q)
  BY DEF Sound, CallersInv
<1> QED BY <1>1 DEF Sound, Typed

\* buildings that differ in nothing but their delay
LEMMA SoundDelay ==
    ASSUME NEW q, NEW R, NEW M, NEW I, NEW B, NEW P, NEW L, Sound(q, R, M, I, B, P, L),
           NEW C \in Bldgs,
           \A s \in Slots : /\ C[s].owner = B[s].owner /\ C[s].id = B[s].id
                            /\ C[s].data = B[s].data /\ C[s].changed = B[s].changed
    PROVE  Sound(q, R, M, I, C, P, L)
<1>1. IdsInv(q, R, I, C)
  BY DEF Sound, IdsInv
<1>2. OneHouse(q, C)
  BY DEF Sound, OneHouse
<1>3. KeptInv(C, R, L)
  BY DEF Sound, KeptInv
<1>4. SavedInv(q, C, R, L)
  <2>1. \A s \in Slots : \A n : IsHome(C[s], R, n) <=> IsHome(B[s], R, n)
    BY DEF IsHome
  <2>2. \A n : Unsaved(B, R, n) => Unsaved(C, R, n)
    BY <2>1 DEF Unsaved
  <2>3. \A n : Doomed(q, B, R, n) => Doomed(q, C, R, n)
    BY <2>1 DEF Doomed
  <2> QED BY <2>2, <2>3 DEF Sound, SavedInv
<1> QED BY <1>1, <1>2, <1>3, <1>4 DEF Sound, Typed

\* buildings go, those that are changed after they have been saved, or to be deleted
LEMMA SoundGone ==
    ASSUME NEW q, NEW R, NEW M, NEW I, NEW B, NEW P, NEW L, Sound(q, R, M, I, B, P, L),
           NEW C \in Bldgs,
           \A s \in Slots : C[s] = B[s] \/ C[s] = NoBuilding,
           \A s \in Slots : C[s] # B[s] /\ B[s].changed /\ B[s].owner # None
                               /\ B[s].id = R[B[s].owner].id =>
              Saved(q, R, L, B[s].owner) \/ Doomed(q, C, R, B[s].owner)
    PROVE  Sound(q, R, M, I, C, P, L)
<1>0. NoBuilding.owner = None
  BY DEF NoBuilding
<1>1. IdsInv(q, R, I, C)
  BY <1>0 DEF Sound, IdsInv
<1>2. OneHouse(q, C)
  <2>1. \A s, t \in Slots : C[s].owner # None /\ C[s].owner = C[t].owner => s = t
    BY <1>0 DEF Sound, OneHouse
  <2>2. \A s \in Slots, i \in AskedIn(q) : C[s].owner # None => C[s].owner # q[i].name
    BY <1>0 DEF Sound, OneHouse
  <2> QED BY <2>1, <2>2 DEF OneHouse
<1>3. KeptInv(C, R, L)
  BY <1>0 DEF Sound, KeptInv
<1>4. SavedInv(q, C, R, L)
  <2> SUFFICES ASSUME NEW n \in Names, R[n].id # 0
               PROVE  Saved(q, R, L, n) \/ Unsaved(C, R, n) \/ Doomed(q, C, R, n)
    BY DEF SavedInv
  <2>0. n # None
    BY HouseConstants
  <2>1. \A s \in Slots : IsHome(C[s], R, n) => IsHome(B[s], R, n)
    BY <1>0, <2>0 DEF IsHome
  <2>2. CASE Saved(q, R, L, n)
    BY <2>2
  <2>3. CASE Doomed(q, B, R, n)
    BY <2>1, <2>3 DEF Doomed
  <2>4. CASE Unsaved(B, R, n)
    <3>1. PICK s \in Slots : IsHome(B[s], R, n) /\ B[s].changed
      BY <2>4 DEF Unsaved
    <3>2. CASE C[s] = B[s]
      BY <3>1, <3>2 DEF Unsaved
    <3>3. CASE C[s] # B[s]
      BY <2>0, <3>1, <3>3 DEF IsHome
    <3> QED BY <3>2, <3>3
  <2> QED BY <2>2, <2>3, <2>4 DEF Sound, SavedInv
<1> QED BY <1>1, <1>2, <1>3, <1>4 DEF Sound, Typed

Put(B, s, b) == [B EXCEPT ![s] = b]

\* what Remember makes of left
Recall(last, rows, b, was) ==
    IF b.data # was /\ b.id = rows[b.owner].id THEN [last EXCEPT ![b.owner] = b.data] ELSE last

\* one building is changed, or put into a slot that is free, and what is left
\* there with it, if it is its owner's house
LEMMA SoundPut ==
    ASSUME NEW q, NEW R, NEW M, NEW I, NEW B, NEW P, NEW L, Sound(q, R, M, I, B, P, L),
           NEW s \in Slots, NEW b, NEW C \in Bldgs, C = Put(B, s, b), NEW was,
           NEW K, K = Recall(L, R, b, was),
           b.owner \in Names, 0 < b.id, b.id <= I[b.owner],
           b.data # was => b.changed,
           b.id = R[b.owner].id => was = L[b.owner],
           \A t \in Slots : t # s => B[t].owner # b.owner,
           \A i \in AskedIn(q) : q[i].name # b.owner,
           \/ B[s].owner = None
           \/ b.owner = B[s].owner /\ b.id = B[s].id /\ (B[s].changed => b.changed),
           Doomed(q, B, R, b.owner) /\ b.id = R[b.owner].id => Saved(q, R, L, b.owner)
    PROVE  Sound(q, R, M, I, C, P, K)
<1> DEFINE n == b.owner
<1>0. /\ CallersInv(q, P) /\ BirthInv(q, R, M, L) /\ IdsInv(q, R, I, B) /\ OneHouse(q, B)
      /\ ReplyInv(q, R, L) /\ OrderInv(q) /\ BoundInv(q, I) /\ SavedInv(q, B, R, L)
      /\ Typed(R, M, I, B, P, L) /\ KeptInv(B, R, L) /\ q \in Seq(Msgs)
  BY DEF Sound
<1>1. /\ C[s] = b /\ \A t \in Slots : t # s => C[t] = B[t]
      /\ n \in Names /\ n # None
  BY <1>0, HouseConstants DEF Typed, Bldgs, Put
<1>2. /\ \A o \in Names : o # n => K[o] = L[o]
      /\ K[n] # L[n] => /\ K[n] = b.data /\ b.data # was /\ b.id = R[n].id
      /\ b.id = R[n].id => K[n] = b.data
  BY <1>0, <1>1 DEF Typed, Recall
<1>3. K \in [Names -> Data]
  <2>1. b.data \in Data
    BY <1>1 DEF Bldgs
  <2> QED BY <1>0, <1>1, <2>1 DEF Typed, Recall
<1> HIDE DEF n
<1>4. BirthInv(q, R, M, K)
  <2>1. ASSUME NEW i \in 1 .. Len(q), q[i].type = "newhouse" PROVE K[q[i].name] = NewHouse
    <3>1. L[q[i].name] = NewHouse /\ R[q[i].name].id = 0
      BY <1>0, <2>1 DEF BirthInv, Bears
    <3>2. q[i].name \in Names
      <4>1. q[i] \in Msgs
        BY <1>0
      <4> QED BY <4>1, MsgFacts
    <3>3. CASE q[i].name = n
      <4>1. b.id # R[n].id
        BY <3>1, <3>3
      <4> QED BY <1>2, <3>1, <3>3, <4>1
    <3>4. CASE q[i].name # n
      BY <1>2, <3>1, <3>2, <3>4
    <3> QED BY <3>3, <3>4
  <2> QED BY <1>0, <2>1 DEF BirthInv
<1>5. IdsInv(q, R, I, C)
  <2>1. ASSUME NEW t \in Slots, C[t].owner # None PROVE 0 < C[t].id /\ C[t].id <= I[C[t].owner]
    <3>1. CASE t = s
      BY <1>1, <3>1
    <3>2. CASE t # s
      BY <1>0, <1>1, <2>1, <3>2 DEF IdsInv
    <3> QED BY <3>1, <3>2
  <2> QED BY <1>0, <2>1 DEF IdsInv
<1>6. OneHouse(q, C)
  <2>1. ASSUME NEW t \in Slots, NEW u \in Slots, C[t].owner # None, C[t].owner = C[u].owner
        PROVE  t = u
    <3>1. CASE t # s /\ u # s
      BY <1>0, <1>1, <2>1, <3>1 DEF OneHouse
    <3>2. CASE t = s \/ u = s
      BY <1>1, <2>1, <3>2
    <3> QED BY <3>1, <3>2
  <2>2. ASSUME NEW t \in Slots, NEW i \in AskedIn(q), C[t].owner # None PROVE C[t].owner # q[i].name
    <3>1. CASE t # s
      BY <1>0, <1>1, <2>2, <3>1 DEF OneHouse
    <3>2. CASE t = s
      BY <1>1, <2>2, <3>2
    <3> QED BY <3>1, <3>2
  <2> QED BY <2>1, <2>2 DEF OneHouse
<1>7. ReplyInv(q, R, K)
  <2>1. ASSUME NEW i \in 1 .. Len(q), q[i].type = "house", q[i].id # 0,
               q[i].id = R[q[i].name].id
        PROVE  q[i].data = K[q[i].name]
    <3>1. q[i].data = L[q[i].name]
      BY <1>0, <2>1 DEF ReplyInv
    <3>2. i \in AskedIn(q) /\ q[i] \in Msgs
      BY <1>0, <2>1, AskedIs
    <3>3. q[i].name # n /\ q[i].name \in Names
      BY <3>2, MsgFacts DEF n
    <3> QED BY <1>2, <3>1, <3>3
  <2> QED BY <2>1 DEF ReplyInv
<1>8. KeptInv(C, R, K)
  <2> SUFFICES ASSUME NEW t \in Slots, C[t].owner # None, C[t].id = R[C[t].owner].id
               PROVE  C[t].data = K[C[t].owner]
    BY DEF KeptInv
  <2>1. CASE t = s
    BY <1>1, <1>2, <2>1 DEF n
  <2>2. CASE t # s
    <3>1. C[t] = B[t] /\ B[t].owner # n /\ B[t].owner \in Names
      BY <1>0, <1>1, <2>2 DEF n, Typed, Bldgs
    <3> QED BY <1>0, <1>2, <3>1 DEF KeptInv
  <2> QED BY <2>1, <2>2
<1>9. SavedInv(q, C, R, K)
  <2> SUFFICES ASSUME NEW o \in Names, R[o].id # 0
               PROVE  Saved(q, R, K, o) \/ Unsaved(C, R, o) \/ Doomed(q, C, R, o)
    BY DEF SavedInv
  <2>1. CASE K[o] # L[o]
    <3>1. IsHome(C[s], R, o) /\ C[s].changed
      BY <1>1, <1>2, <2>1 DEF n, IsHome
    <3> QED BY <3>1 DEF Unsaved
  <2>2. CASE K[o] = L[o]
    <3>1. CASE Saved(q, R, L, o)
      <4>1. Saved(q, R, K, o)
        BY <2>2, <3>1 DEF Saved
      <4> QED BY <4>1
    <3>2. CASE Unsaved(B, R, o)
      <4>1. PICK t \in Slots : IsHome(B[t], R, o) /\ B[t].changed
        BY <3>2 DEF Unsaved
      <4>2. o # None
        BY HouseConstants
      <4>3. IsHome(C[t], R, o) /\ C[t].changed
        BY <1>1, <4>1, <4>2 DEF IsHome
      <4> QED BY <4>3 DEF Unsaved
    <3>3. CASE Doomed(q, B, R, o) /\ o = n /\ b.id = R[n].id
      <4>1. Saved(q, R, L, o)
        BY <3>3 DEF n
      <4> QED BY <3>1, <4>1
    <3>4. CASE Doomed(q, B, R, o) /\ ~(o = n /\ b.id = R[n].id)
      <4>1. \A t \in Slots : ~IsHome(C[t], R, o)
        <5> SUFFICES ASSUME NEW t \in Slots, IsHome(C[t], R, o) PROVE FALSE
          OBVIOUS
        <5>1. t = s
          BY <1>1, <3>4 DEF Doomed
        <5>2. o = n /\ b.id = R[n].id
          BY <1>1, <5>1 DEF IsHome, n
        <5> QED BY <3>4, <5>2
      <4> QED BY <3>4, <4>1 DEF Doomed
    <3> QED BY <1>0, <3>1, <3>2, <3>3, <3>4 DEF SavedInv
  <2> QED BY <2>1, <2>2
<1>10. Typed(R, M, I, C, P, K)
  BY <1>0, <1>3 DEF Typed
<1> QED BY <1>0, <1>4, <1>5, <1>6, <1>7, <1>8, <1>9, <1>10 DEF Sound

\* a character that has no house gets what a new one has
LEMMA SoundLeft ==
    ASSUME NEW q, NEW R, NEW M, NEW I, NEW B, NEW P, NEW L, Sound(q, R, M, I, B, P, L),
           NEW n \in Names, R[n].id = 0, NEW K, K = [L EXCEPT ![n] = NewHouse]
    PROVE  Sound(q, R, M, I, B, P, K)
<1>0. /\ BirthInv(q, R, M, L) /\ IdsInv(q, R, I, B) /\ ReplyInv(q, R, L) /\ SavedInv(q, B, R, L)
      /\ Typed(R, M, I, B, P, L) /\ KeptInv(B, R, L) /\ q \in Seq(Msgs)
  BY DEF Sound
<1>1. /\ \A o \in Names : o # n => K[o] = L[o]
      /\ K[n] = NewHouse /\ K \in [Names -> Data]
  BY <1>0, HouseConstants DEF Typed
<1>2. \A i \in 1 .. Len(q) : q[i].name \in Names
  <2>1. \A i \in 1 .. Len(q) : q[i] \in Msgs
    BY <1>0
  <2> QED BY <2>1, MsgFacts
<1>3. BirthInv(q, R, M, K)
  <2>1. \A i \in 1 .. Len(q) : q[i].type = "newhouse" => K[q[i].name] = NewHouse
    BY <1>0, <1>1, <1>2 DEF BirthInv
  <2> QED BY <1>0, <2>1 DEF BirthInv
<1>4. ReplyInv(q, R, K)
  <2>1. ASSUME NEW i \in 1 .. Len(q), q[i].type = "house", q[i].id # 0,
               q[i].id = R[q[i].name].id
        PROVE  q[i].data = K[q[i].name]
    <3>1. q[i].name \in Names /\ q[i].name # n
      BY <1>2, <2>1
    <3> QED BY <1>0, <1>1, <2>1, <3>1 DEF ReplyInv
  <2> QED BY <2>1 DEF ReplyInv
<1>5. KeptInv(B, R, K)
  <2>1. ASSUME NEW t \in Slots, B[t].owner # None, B[t].id = R[B[t].owner].id
        PROVE  B[t].data = K[B[t].owner]
    <3>1. B[t].owner \in Names /\ 0 < B[t].id
      BY <1>0, <2>1 DEF IdsInv, Typed, Bldgs
    <3>2. B[t].owner # n
      BY <2>1, <3>1
    <3> QED BY <1>0, <1>1, <2>1, <3>1, <3>2 DEF KeptInv
  <2> QED BY <2>1 DEF KeptInv
<1>6. SavedInv(q, B, R, K)
  <2> SUFFICES ASSUME NEW o \in Names, R[o].id # 0
               PROVE  Saved(q, R, K, o) \/ Unsaved(B, R, o) \/ Doomed(q, B, R, o)
    BY DEF SavedInv
  <2>1. K[o] = L[o]
    BY <1>1
  <2>2. Saved(q, R, L, o) => Saved(q, R, K, o)
    BY <2>1 DEF Saved
  <2> QED BY <1>0, <2>2 DEF SavedInv
<1> QED BY <1>1, <1>3, <1>4, <1>5, <1>6 DEF Sound, Typed

-----------------------------------------------------------------------------
(* The data manager takes message p, the first of the requests.              *)

First(q, p) ==
    /\ p \in 1 .. Len(q)
    /\ \A i \in 1 .. Len(q) :
          /\ i < p => q[i].type \in {"house", "char"}
          /\ i >= p => q[i].type \in {"get", "write", "newchar", "newhouse", "delete"}

\* a house is read
LEMMA SoundGet ==
    ASSUME NEW q, NEW p, First(q, p), q[p].type = "get",
           NEW R, NEW M, NEW I, NEW B, NEW P, NEW L, Sound(q, R, M, I, B, P, L),
           NEW h \in Msgs, h.type = "house", h.name = q[p].name, h.caller = q[p].caller,
           h.callback = q[p].callback, h.ok <=> R[h.name].id # 0, h.id = R[h.name].id,
           h.data = R[h.name].data,
           NEW r \in Seq(Msgs), PutAt(r, q, p, h)
    PROVE  Sound(r, R, M, I, B, P, L)
<1>0. /\ CallersInv(q, P) /\ BirthInv(q, R, M, L) /\ IdsInv(q, R, I, B) /\ OneHouse(q, B)
      /\ ReplyInv(q, R, L) /\ OrderInv(q) /\ BoundInv(q, I) /\ SavedInv(q, B, R, L)
      /\ Typed(R, M, I, B, P, L) /\ KeptInv(B, R, L) /\ q \in Seq(Msgs)
  BY DEF Sound
<1>1. /\ p \in 1 .. Len(q) /\ Len(r) = Len(q) /\ r[p] = h
      /\ \A i \in 1 .. Len(r) : i # p => r[i] = q[i]
  BY DEF PutAt
<1>2. h.name \in Names
  BY MsgFacts
<1>3. \A n \in Names : Doomed(q, B, R, n) => h.name # n
  <2> SUFFICES ASSUME NEW n \in Names, Doomed(q, B, R, n), h.name = n PROVE FALSE
    OBVIOUS
  <2>1. PICK k \in 1 .. Len(q) :
          /\ q[k].type = "delete" /\ q[k].name = n
          /\ \A j \in 1 .. Len(q) :
                q[j].name = n => /\ q[j].type = "get" => k < j
                                 /\ q[j].type = "house" => q[j].id # R[n].id
    BY DEF Doomed
  <2>2. k < p
    BY <1>1, <2>1
  <2> QED BY <2>1, <2>2 DEF First
<1>4. R[h.name].id # 0 => h.data = L[h.name]
  <2> SUFFICES ASSUME R[h.name].id # 0 PROVE R[h.name].data = L[h.name]
    OBVIOUS
  <2>1. ~Doomed(q, B, R, h.name)
    BY <1>2, <1>3
  <2>2. ~Unsaved(B, R, h.name)
    <3> SUFFICES ASSUME NEW s \in Slots, IsHome(B[s], R, h.name) PROVE FALSE
      BY DEF Unsaved
    <3>1. B[s].owner = h.name /\ h.name # None
      BY <1>2, HouseConstants DEF IsHome
    <3>2. p \in AskedIn(q)
      BY <1>1, AskedIs
    <3> QED BY <1>0, <3>1, <3>2 DEF OneHouse
  <2>3. Saved(q, R, L, h.name)
    BY <1>0, <1>2, <2>1, <2>2 DEF SavedInv
  <2>4. ASSUME NEW i \in 1 .. Len(q), HomeWrite(q[i], R, h.name) PROVE FALSE
    <3>1. q[i].type = "write" /\ q[i].name = q[p].name
      BY <2>4 DEF HomeWrite
    <3>2. i < p
      BY <1>0, <1>1, <3>1 DEF OrderInv
    <3> QED BY <3>1, <3>2 DEF First
  <2> QED BY <2>3, <2>4 DEF Saved
<1>5. CallersInv(r, P)
  <2>1. Waits(h) => Waits(q[p])
    BY DEF Waits
  <2>2. ~Makes(h) /\ ~Makes(q[p])
    BY DEF Makes
  <2>3. ASSUME NEW i \in 1 .. Len(r)
        PROVE  /\ Waits(r[i]) => r[i].caller = r[i].name /\ P[r[i].name] = Waiting
               /\ Makes(r[i]) => r[i].caller = r[i].name /\ P[r[i].name] = Making
    <3>1. CASE i = p
      BY <1>0, <1>1, <2>1, <2>2, <3>1 DEF CallersInv
    <3>2. CASE i # p
      BY <1>0, <1>1, <3>2 DEF CallersInv
    <3> QED BY <3>1, <3>2
  <2>4. ASSUME NEW i \in 1 .. Len(r), NEW j \in 1 .. Len(r), Makes(r[i]), Makes(r[j]),
               r[i].name = r[j].name
        PROVE  i = j
    <3>1. i # p /\ j # p
      BY <1>1, <2>2, <2>4
    <3>2. r[i] = q[i] /\ r[j] = q[j] /\ i \in 1 .. Len(q) /\ j \in 1 .. Len(q)
      BY <1>1, <3>1
    <3> QED BY <1>0, <2>4, <3>2 DEF CallersInv
  <2> QED BY <2>3, <2>4 DEF CallersInv
<1>6. BirthInv(r, R, M, L)
  <2>0. ~Bears(h)
    BY DEF Bears
  <2>1. ASSUME NEW i \in 1 .. Len(r)
        PROVE  /\ r[i].type = "delete" => r[i].name \in M
               /\ r[i].type = "newhouse" => L[r[i].name] = NewHouse
               /\ Bears(r[i]) => r[i].name \in M /\ R[r[i].name].id = 0
    <3>1. CASE i # p
      BY <1>0, <1>1, <3>1 DEF BirthInv
    <3>2. CASE i = p
      BY <1>1, <2>0, <3>2
    <3> QED BY <3>1, <3>2
  <2>2. ASSUME NEW i \in 1 .. Len(r), NEW j \in 1 .. Len(r), r[i].name = r[j].name
        PROVE  /\ Bears(r[i]) /\ Bears(r[j]) => i = j
               /\ r[i].type = "delete" /\ r[j].type = "delete" => i = j
               /\ Bears(r[i]) /\ r[j].type = "delete" => r[i].type = "newhouse" /\ i < j
    <3>1. CASE i # p /\ j # p
      <4>1. r[i] = q[i] /\ r[j] = q[j] /\ i \in 1 .. Len(q) /\ j \in 1 .. Len(q)
        BY <1>1, <3>1
      <4> QED BY <1>0, <2>2, <4>1 DEF BirthInv
    <3>2. CASE i = p \/ j = p
      BY <1>1, <2>0, <3>2
    <3> QED BY <3>1, <3>2
  <2> QED BY <1>0, <2>1, <2>2 DEF BirthInv
<1>7. IdsInv(r, R, I, B)
  <2>1. ASSUME NEW i \in 1 .. Len(r)
        PROVE  /\ r[i].type \in {"house", "write"} => r[i].id <= I[r[i].name]
               /\ r[i].type = "house" => (r[i].ok <=> r[i].id # 0)
    <3>1. CASE i # p
      <4>1. r[i] = q[i] /\ i \in 1 .. Len(q)
        BY <1>1, <3>1
      <4> QED BY <1>0, <4>1 DEF IdsInv
    <3>2. CASE i = p
      BY <1>0, <1>1, <1>2, <3>2 DEF IdsInv
    <3> QED BY <3>1, <3>2
  <2> QED BY <1>0, <2>1 DEF IdsInv
<1>8. AskedIn(r) = AskedIn(q) /\ \A i \in AskedIn(q) : r[i].name = q[i].name
  <2>1. ASSUME NEW i \in 1 .. Len(q)
        PROVE  r[i].name = q[i].name /\ (r[i].type \in {"get", "house"} <=> q[i].type \in {"get", "house"})
    BY <1>1
  <2> QED BY <1>1, <2>1 DEF AskedIn
<1>9. OneHouse(r, B)
  BY <1>0, <1>8 DEF OneHouse
<1>10. ReplyInv(r, R, L)
  <2>1. ASSUME NEW i \in 1 .. Len(r), r[i].type = "house", r[i].id # 0, r[i].id = R[r[i].name].id
        PROVE  r[i].data = L[r[i].name]
    <3>1. CASE i = p
      BY <1>1, <1>4, <2>1, <3>1
    <3>2. CASE i # p
      BY <1>0, <1>1, <2>1, <3>2 DEF ReplyInv
    <3> QED BY <3>1, <3>2
  <2> QED BY <2>1 DEF ReplyInv
<1>11. OrderInv(r)
  <2>1. ASSUME NEW i \in 1 .. Len(r), NEW j \in 1 .. Len(r), r[i].type = "write",
               r[j].type = "get", r[i].name = r[j].name
        PROVE  i < j
    <3>1. r[i] = q[i] /\ r[j] = q[j] /\ i \in 1 .. Len(q) /\ j \in 1 .. Len(q)
      BY <1>1, <2>1
    <3> QED BY <1>0, <2>1, <3>1 DEF OrderInv
  <2> QED BY <2>1 DEF OrderInv
<1>12. BoundInv(r, I)
  <2>1. ASSUME NEW n \in Names PROVE UnbornIn(r, n) = UnbornIn(q, n)
    <3>1. \A i \in UnbornIn(r, n) : i \in UnbornIn(q, n)
      BY <1>1 DEF UnbornIn
    <3>2. \A i \in UnbornIn(q, n) : i \in UnbornIn(r, n)
      BY <1>1 DEF UnbornIn
    <3> QED BY <3>1, <3>2
  <2> QED BY <1>0, <2>1 DEF BoundInv
<1>13. SavedInv(r, B, R, L)
  <2> SUFFICES ASSUME NEW n \in Names, R[n].id # 0
               PROVE  Saved(r, R, L, n) \/ Unsaved(B, R, n) \/ Doomed(r, B, R, n)
    BY DEF SavedInv
  <2>1. CASE Saved(q, R, L, n)
    <3>1. \A i \in 1 .. Len(q) : HomeWrite(r[i], R, n) <=> HomeWrite(q[i], R, n)
      BY <1>1 DEF HomeWrite
    <3>2. \A i \in 1 .. Len(q) : HomeWrite(r[i], R, n) => r[i] = q[i]
      BY <1>1 DEF HomeWrite
    <3>3. Saved(r, R, L, n)
      BY <1>1, <2>1, <3>1, <3>2 DEF Saved
    <3> QED BY <3>3
  <2>2. CASE Doomed(q, B, R, n)
    <3>1. PICK k \in 1 .. Len(q) :
            /\ q[k].type = "delete" /\ q[k].name = n
            /\ \A j \in 1 .. Len(q) :
                  q[j].name = n => /\ q[j].type = "get" => k < j
                                   /\ q[j].type = "house" => q[j].id # R[n].id
      BY <2>2 DEF Doomed
    <3>2. r[k] = q[k] /\ r[p].name # n
      BY <1>1, <1>3, <2>2, <3>1
    <3>3. ASSUME NEW j \in 1 .. Len(r), r[j].name = n
          PROVE  /\ r[j].type = "get" => k < j
                 /\ r[j].type = "house" => r[j].id # R[n].id
      <4>1. r[j] = q[j] /\ j \in 1 .. Len(q)
        BY <1>1, <3>2, <3>3
      <4> QED BY <3>1, <3>3, <4>1
    <3>4. Doomed(r, B, R, n)
      BY <1>1, <2>2, <3>1, <3>2, <3>3 DEF Doomed
    <3> QED BY <3>4
  <2> QED BY <1>0, <2>1, <2>2 DEF SavedInv
<1> QED BY <1>0, <1>5, <1>6, <1>7, <1>9, <1>10, <1>11, <1>12, <1>13 DEF Sound

LEMMA SoundMade ==
    ASSUME NEW q, NEW R, NEW M, NEW I, NEW B, NEW P, NEW L, Sound(q, R, M, I, B, P, L),
           NEW n \in Names
    PROVE  Sound(q, R, M \union {n}, I, B, P, L)
<1>1. BirthInv(q, R, M \union {n}, L)
  BY DEF Sound, BirthInv
<1> QED BY <1>1 DEF Sound, Typed

\* a character is made
LEMMA SoundAnswer ==
    ASSUME NEW q, NEW p, First(q, p), q[p].type = "newchar",
           NEW R, NEW M, NEW I, NEW B, NEW P, NEW L, Sound(q, R, M, I, B, P, L),
           NEW h \in Msgs, h.type = "char", h.name = q[p].name, h.caller = q[p].caller,
           h.ok <=> h.name \notin M,
           NEW r \in Seq(Msgs), PutAt(r, q, p, h)
    PROVE  Sound(r, R, M \union {h.name}, I, B, P, L)
<1> DEFINE N == M \union {h.name}
<1>0. /\ CallersInv(q, P) /\ BirthInv(q, R, M, L) /\ IdsInv(q, R, I, B) /\ OneHouse(q, B)
      /\ ReplyInv(q, R, L) /\ OrderInv(q) /\ BoundInv(q, I) /\ SavedInv(q, B, R, L)
      /\ Typed(R, M, I, B, P, L) /\ KeptInv(B, R, L) /\ q \in Seq(Msgs)
  BY DEF Sound
<1>1. /\ p \in 1 .. Len(q) /\ Len(r) = Len(q) /\ r[p] = h
      /\ \A i \in 1 .. Len(r) : i # p => r[i] = q[i] /\ i \in 1 .. Len(q)
  BY DEF PutAt
<1>2. h.name \in Names
  BY MsgFacts
<1>3. CallersInv(r, P)
  <2>1. Makes(h) => Makes(q[p])
    BY DEF Makes
  <2>2. ~Waits(h) /\ ~Waits(q[p])
    BY DEF Waits
  <2>3. ASSUME NEW i \in 1 .. Len(r)
        PROVE  /\ Waits(r[i]) => r[i].caller = r[i].name /\ P[r[i].name] = Waiting
               /\ Makes(r[i]) => r[i].caller = r[i].name /\ P[r[i].name] = Making
    <3>1. CASE i = p
      BY <1>0, <1>1, <2>1, <2>2, <3>1 DEF CallersInv
    <3>2. CASE i # p
      BY <1>0, <1>1, <3>2 DEF CallersInv
    <3> QED BY <3>1, <3>2
  <2>4. ASSUME NEW i \in 1 .. Len(r), NEW j \in 1 .. Len(r), Makes(r[i]), Makes(r[j]),
               r[i].name = r[j].name
        PROVE  i = j
    <3>1. Makes(q[i]) /\ Makes(q[j]) /\ q[i].name = q[j].name /\ i \in 1 .. Len(q) /\ j \in 1 .. Len(q)
      BY <1>1, <2>1, <2>4
    <3> QED BY <1>0, <3>1 DEF CallersInv
  <2> QED BY <2>3, <2>4 DEF CallersInv
<1>4. BirthInv(r, R, N, L)
  <2>0. ~Bears(q[p])
    BY DEF Bears
  <2>1. h.name \notin M => /\ R[h.name].id = 0
                           /\ \A i \in 1 .. Len(q) : Bears(q[i]) \/ q[i].type = "delete"
                                                        => q[i].name # h.name
    BY <1>0, <1>2 DEF BirthInv
  <2>2. Bears(h) => h.name \notin M
    BY DEF Bears
  <2>3. ASSUME NEW i \in 1 .. Len(r)
        PROVE  /\ r[i].type = "delete" => r[i].name \in N
               /\ r[i].type = "newhouse" => L[r[i].name] = NewHouse
               /\ Bears(r[i]) => r[i].name \in N /\ R[r[i].name].id = 0
    <3>1. CASE i # p
      BY <1>0, <1>1, <3>1 DEF BirthInv
    <3>2. CASE i = p
      BY <1>1, <2>1, <2>2, <3>2
    <3> QED BY <3>1, <3>2
  <2>4. ASSUME NEW i \in 1 .. Len(r), NEW j \in 1 .. Len(r), r[i].name = r[j].name
        PROVE  /\ Bears(r[i]) /\ Bears(r[j]) => i = j
               /\ r[i].type = "delete" /\ r[j].type = "delete" => i = j
               /\ Bears(r[i]) /\ r[j].type = "delete" => r[i].type = "newhouse" /\ i < j
    <3>1. CASE i # p /\ j # p
      <4>1. r[i] = q[i] /\ r[j] = q[j] /\ i \in 1 .. Len(q) /\ j \in 1 .. Len(q)
        BY <1>1, <3>1
      <4> QED BY <1>0, <2>4, <4>1 DEF BirthInv
    <3>2. CASE i = p /\ j = p
      BY <1>1, <3>2
    <3>3. CASE i = p /\ j # p
      BY <1>1, <2>1, <2>2, <2>4, <3>3
    <3>4. CASE i # p /\ j = p
      BY <1>1, <2>1, <2>2, <2>4, <3>4
    <3> QED BY <3>1, <3>2, <3>3, <3>4
  <2>5. \A n \in Names : n \notin N => R[n].id = 0
    BY <1>0 DEF BirthInv
  <2> HIDE DEF N
  <2> QED BY <2>3, <2>4, <2>5 DEF BirthInv
<1>5. IdsInv(r, R, I, B)
  <2>1. ASSUME NEW i \in 1 .. Len(r)
        PROVE  /\ r[i].type \in {"house", "write"} => r[i].id <= I[r[i].name]
               /\ r[i].type = "house" => (r[i].ok <=> r[i].id # 0)
    <3>1. CASE i # p
      <4>1. r[i] = q[i] /\ i \in 1 .. Len(q)
        BY <1>1, <3>1
      <4> QED BY <1>0, <4>1 DEF IdsInv
    <3>2. CASE i = p
      BY <1>1, <3>2
    <3> QED BY <3>1, <3>2
  <2> QED BY <1>0, <2>1 DEF IdsInv
<1>6. AskedIn(r) = AskedIn(q) /\ \A i \in AskedIn(q) : r[i].name = q[i].name
  <2>1. ASSUME NEW i \in 1 .. Len(q)
        PROVE  r[i].name = q[i].name /\ (r[i].type \in {"get", "house"} <=> q[i].type \in {"get", "house"})
    BY <1>1
  <2> QED BY <1>1, <2>1 DEF AskedIn
<1>7. OneHouse(r, B)
  BY <1>0, <1>6 DEF OneHouse
<1>8. ReplyInv(r, R, L)
  <2>1. ASSUME NEW i \in 1 .. Len(r), r[i].type = "house", r[i].id # 0, r[i].id = R[r[i].name].id
        PROVE  r[i].data = L[r[i].name]
    <3>1. i # p
      BY <1>1, <2>1
    <3> QED BY <1>0, <1>1, <2>1, <3>1 DEF ReplyInv
  <2> QED BY <2>1 DEF ReplyInv
<1>9. OrderInv(r)
  <2>1. ASSUME NEW i \in 1 .. Len(r), NEW j \in 1 .. Len(r), r[i].type = "write",
               r[j].type = "get", r[i].name = r[j].name
        PROVE  i < j
    <3>1. r[i] = q[i] /\ r[j] = q[j] /\ i \in 1 .. Len(q) /\ j \in 1 .. Len(q)
      BY <1>1, <2>1
    <3> QED BY <1>0, <2>1, <3>1 DEF OrderInv
  <2> QED BY <2>1 DEF OrderInv
<1>10. BoundInv(r, I)
  <2>1. ASSUME NEW n \in Names PROVE UnbornIn(r, n) = UnbornIn(q, n)
    <3>1. \A i \in UnbornIn(r, n) : i \in UnbornIn(q, n)
      BY <1>1 DEF UnbornIn
    <3>2. \A i \in UnbornIn(q, n) : i \in UnbornIn(r, n)
      BY <1>1 DEF UnbornIn
    <3> QED BY <3>1, <3>2
  <2> QED BY <1>0, <2>1 DEF BoundInv
<1>11. SavedInv(r, B, R, L)
  <2> SUFFICES ASSUME NEW n \in Names, R[n].id # 0
               PROVE  Saved(r, R, L, n) \/ Unsaved(B, R, n) \/ Doomed(r, B, R, n)
    BY DEF SavedInv
  <2>1. CASE Saved(q, R, L, n)
    <3>1. \A i \in 1 .. Len(q) : HomeWrite(r[i], R, n) <=> HomeWrite(q[i], R, n)
      BY <1>1 DEF HomeWrite
    <3>2. \A i \in 1 .. Len(q) : HomeWrite(r[i], R, n) => r[i] = q[i]
      BY <1>1 DEF HomeWrite
    <3>3. Saved(r, R, L, n)
      BY <1>1, <2>1, <3>1, <3>2 DEF Saved
    <3> QED BY <3>3
  <2>2. CASE Doomed(q, B, R, n)
    <3>1. PICK k \in 1 .. Len(q) :
            /\ q[k].type = "delete" /\ q[k].name = n
            /\ \A j \in 1 .. Len(q) :
                  q[j].name = n => /\ q[j].type = "get" => k < j
                                   /\ q[j].type = "house" => q[j].id # R[n].id
      BY <2>2 DEF Doomed
    <3>2. r[k] = q[k]
      BY <1>1, <3>1
    <3>3. ASSUME NEW j \in 1 .. Len(r), r[j].name = n
          PROVE  /\ r[j].type = "get" => k < j
                 /\ r[j].type = "house" => r[j].id # R[n].id
      BY <1>1, <3>1, <3>3
    <3>4. Doomed(r, B, R, n)
      BY <1>1, <2>2, <3>1, <3>2, <3>3 DEF Doomed
    <3> QED BY <3>4
  <2> QED BY <1>0, <2>1, <2>2 DEF SavedInv
<1>12. Typed(R, N, I, B, P, L)
  BY <1>0, <1>2 DEF Typed
<1> QED BY <1>0, <1>3, <1>4, <1>5, <1>7, <1>8, <1>9, <1>10, <1>11, <1>12 DEF Sound

\* rows that say the same of one name
LEMMA SavedSame ==
    ASSUME NEW n, NEW R, NEW S, S[n] = R[n], NEW q, NEW B, NEW L
    PROVE  /\ Saved(q, R, L, n) <=> Saved(q, S, L, n)
           /\ Unsaved(B, R, n) <=> Unsaved(B, S, n)
           /\ Doomed(q, B, R, n) <=> Doomed(q, B, S, n)
<1>1. \A m : HomeWrite(m, R, n) <=> HomeWrite(m, S, n)
  BY DEF HomeWrite
<1>2. \A b : IsHome(b, R, n) <=> IsHome(b, S, n)
  BY DEF IsHome
<1>3. Saved(q, R, L, n) <=> Saved(q, S, L, n)
  BY <1>1 DEF Saved
<1>4. Unsaved(B, R, n) <=> Unsaved(B, S, n)
  BY <1>2 DEF Unsaved
<1>5. Doomed(q, B, R, n) <=> Doomed(q, B, S, n)
  BY <1>2 DEF Doomed
<1> QED BY <1>3, <1>4, <1>5

\* the first request goes: what the invariants say of those that stay
LEMMA FirstDropped ==
    ASSUME NEW q, NEW p, First(q, p), NEW r \in Seq(Msgs), DropAt(r, q, p),
           NEW R, NEW M, NEW I, NEW B, NEW P, NEW L, Sound(q, R, M, I, B, P, L)
    PROVE  /\ CallersInv(r, P) /\ BirthInv(r, R, M, L) /\ IdsInv(r, R, I, B) /\ OneHouse(r, B)
           /\ ReplyInv(r, R, L) /\ OrderInv(r) /\ BoundInv(r, I)
           /\ p \in 1 .. Len(q) /\ q \in Seq(Msgs) /\ q[p] \in Msgs /\ q[p].name \in Names
           /\ Embeds(Later(p, Len(r)), r, q)
           /\ \A k \in 1 .. Len(q) : k # p => \E i \in 1 .. Len(r) : Later(p, Len(r))[i] = k
           /\ \A i \in 1 .. Len(r) : LET k == Later(p, Len(r))[i]
                                     IN  k # p /\ k \in 1 .. Len(q) /\ Alike(q[k], r[i])
<1>1. q \in Seq(Msgs) /\ I \in [Names -> 0 .. MaxId] /\ BoundInv(q, I)
  BY DEF Sound, Typed
<1>2. /\ Embeds(Later(p, Len(r)), r, q)
      /\ \A k \in 1 .. Len(q) : k # p => \E i \in 1 .. Len(r) : Later(p, Len(r))[i] = k
      /\ \A i \in 1 .. Len(r) : Later(p, Len(r))[i] # p
  BY <1>1, DropEmbeds
<1>3. /\ CallersInv(r, P) /\ BirthInv(r, R, M, L) /\ IdsInv(r, R, I, B) /\ OneHouse(r, B)
      /\ ReplyInv(r, R, L) /\ OrderInv(r)
  BY <1>1, <1>2, EmbedsInv DEF Sound
<1>4. BoundInv(r, I)
  BY <1>1, <1>2, BoundEmbeds
<1>5. p \in 1 .. Len(q) /\ q[p] \in Msgs
  BY <1>1 DEF First
<1>6. q[p].name \in Names
  BY <1>5, MsgFacts
<1>7. \A i \in 1 .. Len(r) : /\ Later(p, Len(r))[i] \in 1 .. Len(q)
                             /\ Alike(q[Later(p, Len(r))[i]], r[i])
  BY <1>1, <1>2, EmbedsOrder
<1> QED BY <1>1, <1>2, <1>3, <1>4, <1>5, <1>6, <1>7

\* a house is written: to the row with its id
LEMMA SoundRow ==
    ASSUME NEW q, NEW p, First(q, p), q[p].type = "write", NEW r \in Seq(Msgs), DropAt(r, q, p),
           NEW R, NEW M, NEW I, NEW B, NEW P, NEW L, Sound(q, R, M, I, B, P, L),
           NEW S, S = IF R[q[p].name].id = q[p].id THEN [R EXCEPT ![q[p].name].data = q[p].data]
                      ELSE R
    PROVE  Sound(r, S, M, I, B, P, L)
<1> DEFINE e == Later(p, Len(r))
           n == q[p].name
<1>0. /\ SavedInv(q, B, R, L) /\ Typed(R, M, I, B, P, L) /\ KeptInv(B, R, L)
      /\ CallersInv(r, P) /\ BirthInv(r, R, M, L) /\ IdsInv(r, R, I, B) /\ OneHouse(r, B)
      /\ ReplyInv(r, R, L) /\ OrderInv(r) /\ BoundInv(r, I)
      /\ p \in 1 .. Len(q) /\ q \in Seq(Msgs) /\ q[p] \in Msgs /\ n \in Names
      /\ Embeds(e, r, q)
      /\ \A k \in 1 .. Len(q) : k # p => \E i \in 1 .. Len(r) : e[i] = k
      /\ \A i \in 1 .. Len(r) : e[i] # p /\ e[i] \in 1 .. Len(q) /\ Alike(q[e[i]], r[i])
  BY FirstDropped DEF Sound
<1>1. q[p].data \in Data
  BY <1>0, MsgFacts DEF WriteMsgs
<1> HIDE DEF e, n
<1>2. /\ S \in [Names -> [id : 0 .. MaxId, data : Data]]
      /\ \A o \in Names : S[o].id = R[o].id
      /\ \A o \in Names : o # n \/ R[n].id # q[p].id => S[o] = R[o]
      /\ R[n].id = q[p].id => S[n].data = q[p].data
  <2> DEFINE z == [id |-> R[n].id, data |-> q[p].data]
  <2>1. R \in [Names -> [id : 0 .. MaxId, data : Data]] /\ n \in Names
    BY <1>0 DEF Typed
  <2>2. [R EXCEPT ![n].data = q[p].data] = [R EXCEPT ![n] = z]
    <3> DEFINE y == [R[n] EXCEPT !.data = q[p].data]
    <3>1. R[n] \in [id : 0 .. MaxId, data : Data]
      BY <2>1
    <3>2. y = z
      BY <3>1
    <3>3. [R EXCEPT ![n].data = q[p].data] = [R EXCEPT ![n] = y]
      OBVIOUS
    <3> QED BY <3>2, <3>3
  <2>3. z \in [id : 0 .. MaxId, data : Data] /\ z.id = R[n].id /\ z.data = q[p].data
    BY <1>1, <2>1
  <2> HIDE DEF z
  <2>4. S = IF R[n].id = q[p].id THEN [R EXCEPT ![n] = z] ELSE R
    BY <2>2 DEF n
  <2> QED BY <2>1, <2>3, <2>4
<1>3. BirthInv(r, S, M, L)
  <2>1. \A i \in 1 .. Len(r) : r[i].name \in Names
    <3>1. \A i \in 1 .. Len(r) : r[i] \in Msgs
      OBVIOUS
    <3> QED BY <3>1, MsgFacts
  <2> QED BY <1>0, <1>2, <2>1 DEF BirthInv
<1>4. IdsInv(r, S, I, B)
  BY <1>0, <1>2 DEF IdsInv
<1>5. ReplyInv(r, S, L)
  <2>1. \A i \in 1 .. Len(r) : r[i].name \in Names
    <3>1. \A i \in 1 .. Len(r) : r[i] \in Msgs
      OBVIOUS
    <3> QED BY <3>1, MsgFacts
  <2> QED BY <1>0, <1>2, <2>1 DEF ReplyInv
<1>6. KeptInv(B, S, L)
  <2>1. \A s \in Slots : B[s].owner # None => B[s].owner \in Names
    BY <1>0 DEF Typed, Bldgs
  <2> QED BY <1>0, <1>2, <2>1 DEF KeptInv
<1>7. SavedInv(r, B, S, L)
  <2> SUFFICES ASSUME NEW o \in Names, S[o].id # 0
               PROVE  Saved(r, S, L, o) \/ Unsaved(B, S, o) \/ Doomed(r, B, S, o)
    BY DEF SavedInv
  <2>0. Saved(q, R, L, o) \/ Unsaved(B, R, o) \/ Doomed(q, B, R, o)
    BY <1>0, <1>2 DEF SavedInv
  <2>1. CASE o # n \/ R[n].id # q[p].id
    <3>1. \A k \in 1 .. Len(q) :
             HomeWrite(q[k], R, o) \/ (q[k].type = "delete" /\ q[k].name = o)
                => \E i \in 1 .. Len(r) : e[i] = k
      BY <1>0, <2>1 DEF HomeWrite, n
    <3>a. q \in Seq(Msgs) /\ Embeds(e, r, q)
      BY <1>0
    <3>2. /\ Saved(q, R, L, o) => Saved(r, R, L, o)
          /\ Doomed(q, B, R, o) => Doomed(r, B, R, o)
      BY ONLY <3>a, <3>1, SavedEmbeds, r \in Seq(Msgs)
    <3>3. S[o] = R[o]
      BY <1>2, <2>1
    <3> QED BY <2>0, <3>2, <3>3, SavedSame
  <2>2. CASE o = n /\ R[n].id = q[p].id
    <3>1. \A m : HomeWrite(m, S, n) <=> HomeWrite(m, R, n)
      BY <1>0, <1>2 DEF HomeWrite
    <3>2. \A b : IsHome(b, S, n) <=> IsHome(b, R, n)
      BY <1>0, <1>2 DEF IsHome
    <3>3. Unsaved(B, R, n) => Unsaved(B, S, n)
      BY <3>2 DEF Unsaved
    <3>4. ASSUME Doomed(q, B, R, n) PROVE Doomed(r, B, S, n)
      <4>1. PICK k \in 1 .. Len(q) :
              /\ q[k].type = "delete" /\ q[k].name = n
              /\ \A j \in 1 .. Len(q) :
                    q[j].name = n => /\ q[j].type = "get" => k < j
                                     /\ q[j].type = "house" => q[j].id # R[n].id
        BY <3>4 DEF Doomed
      <4>2. PICK i \in 1 .. Len(r) : e[i] = k
        BY <1>0, <4>1
      <4>3. r[i].type = "delete" /\ r[i].name = n
        BY <1>0, <4>1, <4>2 DEF Alike
      <4>4. ASSUME NEW j \in 1 .. Len(r), r[j].name = n
            PROVE  /\ r[j].type = "get" => i < j
                   /\ r[j].type = "house" => r[j].id # S[n].id
        <5>1. e[j] \in 1 .. Len(q) /\ Alike(q[e[j]], r[j])
          BY <1>0
        <5>2. /\ r[j].type = "get" => e[i] < e[j]
              /\ r[j].type = "house" => r[j].id # R[n].id
          BY <4>1, <4>2, <4>4, <5>1 DEF Alike
        <5>3. e[i] < e[j] => i < j
          BY <1>0, EmbedsOrder
        <5> QED BY <1>0, <1>2, <5>2, <5>3
      <4> QED BY <3>2, <3>4, <4>3, <4>4 DEF Doomed
    <3>5. ASSUME Saved(q, R, L, n) PROVE Saved(r, S, L, n)
      <4>1. HomeWrite(q[p], R, n)
        BY <2>2 DEF HomeWrite, n
      <4>2. \A k \in 1 .. Len(q) : HomeWrite(q[k], R, n) => p <= k
        <5>1. \A k \in 1 .. Len(q) : ~(k < p) => p <= k
          BY <1>0
        <5> QED BY <5>1 DEF HomeWrite, First
      <4>3. \A i \in 1 .. Len(r) : HomeWrite(r[i], S, n) <=> HomeWrite(q[e[i]], R, n)
        BY <1>0, <3>1 DEF HomeWrite, Alike
      <4>4. ASSUME \A i \in 1 .. Len(r) : ~HomeWrite(r[i], S, n) PROVE S[n].data = L[n]
        <5>1. ASSUME NEW k \in 1 .. Len(q), p < k, HomeWrite(q[k], R, n) PROVE FALSE
          <6>1. PICK i \in 1 .. Len(r) : e[i] = k
            BY <1>0, <5>1
          <6> QED BY <4>3, <4>4, <5>1, <6>1
        <5>2. q[p].data = L[n]
          BY <1>0, <3>5, <4>1, <5>1 DEF Saved
        <5> QED BY <1>2, <2>2, <5>2
      <4>5. ASSUME NEW i \in 1 .. Len(r), HomeWrite(r[i], S, n),
                   \A j \in 1 .. Len(r) : i < j => ~HomeWrite(r[j], S, n)
            PROVE  r[i].data = L[n]
        <5>1. e[i] \in 1 .. Len(q) /\ HomeWrite(q[e[i]], R, n) /\ e[i] # p /\ p <= e[i]
              /\ Alike(q[e[i]], r[i])
          BY <1>0, <4>2, <4>3, <4>5
        <5>2. ASSUME NEW k \in 1 .. Len(q), e[i] < k, HomeWrite(q[k], R, n) PROVE FALSE
          <6>1. k # p
            BY <5>1, <5>2
          <6>2. PICK j \in 1 .. Len(r) : e[j] = k
            BY <1>0, <6>1
          <6>3. i < j
            BY <1>0, <5>2, <6>2, EmbedsOrder
          <6> QED BY <4>3, <4>5, <5>2, <6>2, <6>3
        <5>3. q[e[i]].data = L[n]
          BY <3>5, <5>1, <5>2 DEF Saved
        <5> QED BY <5>1, <5>3 DEF HomeWrite, Alike
      <4> QED BY <4>4, <4>5 DEF Saved
    <3> QED BY <2>0, <2>2, <3>3, <3>4, <3>5
  <2> QED BY <2>1, <2>2
<1> QED BY <1>0, <1>2, <1>3, <1>4, <1>5, <1>6, <1>7 DEF Sound, Typed

\* a house is written for the first time
RowBorn(R, J, n) == [R EXCEPT ![n] = [id |-> J[n], data |-> NewHouse]]
Newer(I, n)      == [I EXCEPT ![n] = @ + 1]

LEMMA SoundNew ==
    ASSUME NEW q, NEW p, First(q, p), q[p].type = "newhouse", NEW r \in Seq(Msgs), DropAt(r, q, p),
           NEW R, NEW M, NEW I, NEW B, NEW P, NEW L, Sound(q, R, M, I, B, P, L),
           NEW J, J = Newer(I, q[p].name), NEW S, S = RowBorn(R, J, q[p].name)
    PROVE  Sound(r, S, M, J, B, P, L)
<1> DEFINE e == Later(p, Len(r))
           n == q[p].name
<1>0. /\ SavedInv(q, B, R, L) /\ Typed(R, M, I, B, P, L) /\ KeptInv(B, R, L) /\ BoundInv(q, I)
      /\ CallersInv(r, P) /\ BirthInv(r, R, M, L) /\ IdsInv(r, R, I, B) /\ OneHouse(r, B)
      /\ BirthInv(q, R, M, L)
      /\ ReplyInv(r, R, L) /\ OrderInv(r) /\ BoundInv(r, I)
      /\ p \in 1 .. Len(q) /\ q \in Seq(Msgs) /\ q[p] \in Msgs /\ n \in Names
      /\ Embeds(e, r, q)
      /\ \A k \in 1 .. Len(q) : k # p => \E i \in 1 .. Len(r) : e[i] = k
      /\ \A i \in 1 .. Len(r) : e[i] # p /\ e[i] \in 1 .. Len(q) /\ Alike(q[e[i]], r[i])
  BY FirstDropped DEF Sound
<1>1. \A i \in 1 .. Len(r) : r[i] \in Msgs /\ r[i].name \in Names
  <2>1. \A i \in 1 .. Len(r) : r[i] \in Msgs
    OBVIOUS
  <2> QED BY <2>1, MsgFacts
<1>2. Bears(q[p]) /\ L[n] = NewHouse /\ n \in M /\ R[n].id = 0
  BY <1>0 DEF BirthInv, Bears
<1>3. \A i \in 1 .. Len(r) : Bears(r[i]) => r[i].name # n
  <2> SUFFICES ASSUME NEW i \in 1 .. Len(r), Bears(r[i]), r[i].name = n PROVE FALSE
    OBVIOUS
  <2>1. e[i] \in 1 .. Len(q) /\ e[i] # p /\ Alike(q[e[i]], r[i]) /\ q[e[i]] \in Msgs
    BY <1>0
  <2>2. Bears(q[e[i]]) /\ q[e[i]].name = n
    BY <1>1, <2>1, AlikeFacts
  <2> QED BY <1>0, <1>2, <2>1, <2>2 DEF BirthInv
<1>4. /\ Cardinality(UnbornIn(r, n)) + 1 <= Cardinality(UnbornIn(q, n))
      /\ Cardinality(UnbornIn(r, n)) \in Nat /\ Cardinality(UnbornIn(q, n)) \in Nat
  <2>1. p \in UnbornIn(q, n)
    BY <1>0 DEF UnbornIn
  <2>2. q \in Seq(Msgs) /\ Embeds(e, r, q) /\ \A i \in 1 .. Len(r) : e[i] # p
    BY <1>0
  <2> HIDE DEF n, e
  <2> QED BY <2>1, <2>2, UnbornEmbeds, UnbornFinite
<1> HIDE DEF e, n
<1>5. I \in [Names -> 0 .. MaxId] /\ MaxId \in Nat /\ R \in [Names -> [id : 0 .. MaxId, data : Data]]
  BY <1>0, HouseConstants DEF Typed
<1>6. /\ J = [I EXCEPT ![n] = I[n] + 1] /\ J[n] = I[n] + 1
      /\ \A o \in Names : o # n => J[o] = I[o]
      /\ \A o \in Names : I[o] <= J[o] /\ I[o] \in Nat
  BY <1>0, <1>5 DEF n, Newer
<1>7. I[n] + 1 <= MaxId
  <2>1. I[n] + Cardinality(UnbornIn(q, n)) <= MaxId
    BY <1>0 DEF BoundInv
  <2> QED BY <1>0, <1>4, <1>5, <2>1
<1>8. J \in [Names -> 0 .. MaxId]
  BY <1>0, <1>5, <1>6, <1>7
<1>9. /\ S[n].id = I[n] + 1 /\ S[n].data = NewHouse
      /\ \A o \in Names : o # n => S[o] = R[o]
      /\ S \in [Names -> [id : 0 .. MaxId, data : Data]]
  <2> DEFINE z == [id |-> J[n], data |-> NewHouse]
  <2>1. z \in [id : 0 .. MaxId, data : Data] /\ z.id = I[n] + 1 /\ z.data = NewHouse
    BY <1>0, <1>6, <1>8, HouseConstants
  <2>2. S = [R EXCEPT ![n] = z]
    BY DEF n, RowBorn
  <2> HIDE DEF z
  <2> QED BY <1>0, <1>5, <2>1, <2>2
<1>10. BirthInv(r, S, M, L)
  <2>1. ASSUME NEW o \in Names, o \notin M PROVE S[o].id = 0
    <3>1. R[o].id = 0
      BY <1>0, <2>1 DEF BirthInv
    <3>2. o # n
      BY <1>2, <2>1
    <3> QED BY <1>9, <3>1, <3>2
  <2>2. ASSUME NEW i \in 1 .. Len(r), Bears(r[i])
        PROVE  r[i].name \in M /\ S[r[i].name].id = 0
    <3>1. r[i].name \in M /\ R[r[i].name].id = 0
      BY <1>0, <2>2 DEF BirthInv
    <3>2. S[r[i].name] = R[r[i].name]
      BY <1>1, <1>3, <1>9, <2>2
    <3> QED BY <3>1, <3>2
  <2> QED BY <1>0, <2>1, <2>2 DEF BirthInv
<1>11. IdsInv(r, S, J, B)
  <2>1. \A o \in Names : S[o].id <= J[o]
    <3>1. \A o \in Names : R[o].id <= I[o]
      BY <1>0 DEF IdsInv
    <3>2. SUFFICES ASSUME NEW o \in Names PROVE S[o].id <= J[o]
      OBVIOUS
    <3>3. CASE o = n
      <4>1. S[n].id = I[n] + 1
        BY <1>9
      <4>2. J[n] = I[n] + 1
        BY <1>6
      <4>3. I[n] \in Nat
        BY ONLY <1>6, <3>2, <3>3
      <4> QED BY ONLY <3>3, <4>1, <4>2, <4>3
    <3>4. CASE o # n
      BY <1>6, <1>9, <3>1, <3>4
    <3> QED BY <3>3, <3>4
  <2>2. ASSUME NEW s \in Slots, B[s].owner # None PROVE 0 < B[s].id /\ B[s].id <= J[B[s].owner]
    <3>1. 0 < B[s].id /\ B[s].id <= I[B[s].owner]
      BY <1>0, <2>2 DEF IdsInv
    <3>2. B[s].owner \in Names /\ B[s].id \in Nat
      BY <1>0, <2>2, <1>5 DEF Typed, Bldgs
    <3>3. I[B[s].owner] <= J[B[s].owner] /\ I[B[s].owner] \in Nat /\ J[B[s].owner] \in Nat
      BY <1>6, <1>8, <3>2, <1>5
    <3> QED BY <3>1, <3>2, <3>3
  <2>3. ASSUME NEW i \in 1 .. Len(r), r[i].type \in {"house", "write"} PROVE r[i].id <= J[r[i].name]
    <3>1. r[i].id <= I[r[i].name]
      BY <1>0, <2>3 DEF IdsInv
    <3>2. r[i].id \in Nat
      BY <1>1, <2>3, <1>5, MsgFacts DEF HouseMsgs, WriteMsgs
    <3>3. I[r[i].name] <= J[r[i].name] /\ I[r[i].name] \in Nat /\ J[r[i].name] \in Nat
      BY <1>1, <1>6, <1>8, <1>5
    <3> QED BY <3>1, <3>2, <3>3
  <2> QED BY <1>0, <2>1, <2>2, <2>3 DEF IdsInv
<1>12. BoundInv(r, J)
  <2> SUFFICES ASSUME NEW o \in Names PROVE J[o] + Cardinality(UnbornIn(r, o)) <= MaxId
    BY DEF BoundInv
  <2>1. CASE o = n
    <3>1. I[n] + Cardinality(UnbornIn(q, n)) <= MaxId
      BY <1>0 DEF BoundInv
    <3>2. I[n] \in Nat
      BY <1>0, <1>6
    <3>3. J[n] + Cardinality(UnbornIn(r, n)) <= MaxId
      BY <1>4, <1>5, <1>6, <3>1, <3>2
    <3> QED BY <2>1, <3>3
  <2>2. CASE o # n
    BY <1>0, <1>6, <2>2 DEF BoundInv
  <2> QED BY <2>1, <2>2
<1>13. ReplyInv(r, S, L)
  <2>1. ASSUME NEW i \in 1 .. Len(r), r[i].type = "house", r[i].id # 0, r[i].id = S[r[i].name].id
        PROVE  r[i].data = L[r[i].name]
    <3>1. r[i].id <= I[r[i].name]
      BY <1>0, <2>1 DEF IdsInv
    <3>2. r[i].name # n
      <4>1. I[n] \in Nat
        BY <1>0, <1>6
      <4> QED BY <1>9, <2>1, <3>1, <4>1
    <3>3. S[r[i].name] = R[r[i].name]
      BY <1>1, <1>9, <3>2
    <3> QED BY <1>0, <2>1, <3>3 DEF ReplyInv
  <2> QED BY <2>1 DEF ReplyInv
<1>14. KeptInv(B, S, L)
  <2>1. ASSUME NEW s \in Slots, B[s].owner # None, B[s].id = S[B[s].owner].id
        PROVE  B[s].data = L[B[s].owner]
    <3>1. B[s].id <= I[B[s].owner] /\ B[s].owner \in Names
      BY <1>0, <2>1 DEF IdsInv, Typed, Bldgs
    <3>2. B[s].owner # n
      <4>1. I[n] \in Nat
        BY <1>0, <1>6
      <4> QED BY <1>9, <2>1, <3>1, <4>1
    <3> QED BY <1>0, <1>9, <2>1, <3>1, <3>2 DEF KeptInv
  <2> QED BY <2>1 DEF KeptInv
<1>15. SavedInv(r, B, S, L)
  <2> SUFFICES ASSUME NEW o \in Names, S[o].id # 0
               PROVE  Saved(r, S, L, o) \/ Unsaved(B, S, o) \/ Doomed(r, B, S, o)
    BY DEF SavedInv
  <2>1. CASE o # n
    <3>1. \A k \in 1 .. Len(q) :
             HomeWrite(q[k], R, o) \/ (q[k].type = "delete" /\ q[k].name = o)
                => \E i \in 1 .. Len(r) : e[i] = k
      BY <1>0, <2>1 DEF HomeWrite, n
    <3>a. q \in Seq(Msgs) /\ Embeds(e, r, q)
      BY <1>0
    <3>b. r \in Seq(Msgs)
      OBVIOUS
    <3>2. /\ Saved(q, R, L, o) => Saved(r, R, L, o)
          /\ Doomed(q, B, R, o) => Doomed(r, B, R, o)
      BY ONLY <3>a, <3>b, <3>1, SavedEmbeds
    <3>3. S[o] = R[o]
      BY <1>9, <2>1
    <3> QED BY <1>0, <3>2, <3>3, SavedSame DEF SavedInv
  <2>2. CASE o = n
    <3>1. ASSUME NEW i \in 1 .. Len(r), HomeWrite(r[i], S, n) PROVE FALSE
      <4>1. r[i].id <= I[n] /\ r[i].id = I[n] + 1
        BY <1>0, <1>9, <3>1 DEF IdsInv, HomeWrite
      <4> QED BY <1>0, <1>6, <4>1
    <3>2. Saved(r, S, L, n)
      BY <1>2, <1>9, <3>1 DEF Saved
    <3> QED BY <2>2, <3>2
  <2> QED BY <2>1, <2>2
<1> QED BY <1>0, <1>8, <1>9, <1>10, <1>11, <1>12, <1>13, <1>14, <1>15 DEF Sound, Typed

\* a character is deleted, and its house with it
LEMMA SoundDelete ==
    ASSUME NEW q, NEW p, First(q, p), q[p].type = "delete", NEW r \in Seq(Msgs), DropAt(r, q, p),
           NEW R, NEW M, NEW I, NEW B, NEW P, NEW L, Sound(q, R, M, I, B, P, L),
           NEW S, S = [R EXCEPT ![q[p].name] = [id |-> 0, data |-> NewHouse]]
    PROVE  Sound(r, S, M \ {q[p].name}, I, B, P, L)
<1> DEFINE e == Later(p, Len(r))
           n == q[p].name
           N == M \ {n}
<1>0. /\ SavedInv(q, B, R, L) /\ Typed(R, M, I, B, P, L) /\ KeptInv(B, R, L)
      /\ CallersInv(r, P) /\ BirthInv(r, R, M, L) /\ IdsInv(r, R, I, B) /\ OneHouse(r, B)
      /\ BirthInv(q, R, M, L)
      /\ ReplyInv(r, R, L) /\ OrderInv(r) /\ BoundInv(r, I)
      /\ p \in 1 .. Len(q) /\ q \in Seq(Msgs) /\ q[p] \in Msgs /\ n \in Names
      /\ Embeds(e, r, q)
      /\ \A k \in 1 .. Len(q) : k # p => \E i \in 1 .. Len(r) : e[i] = k
      /\ \A i \in 1 .. Len(r) : e[i] # p /\ e[i] \in 1 .. Len(q) /\ Alike(q[e[i]], r[i])
  BY FirstDropped DEF Sound
<1>1. \A i \in 1 .. Len(r) : r[i] \in Msgs /\ r[i].name \in Names
  <2>1. \A i \in 1 .. Len(r) : r[i] \in Msgs
    OBVIOUS
  <2> QED BY <2>1, MsgFacts
<1>2. \A i \in 1 .. Len(r) : Bears(r[i]) \/ r[i].type = "delete" => r[i].name # n
  <2> SUFFICES ASSUME NEW i \in 1 .. Len(r), Bears(r[i]) \/ r[i].type = "delete", r[i].name = n
               PROVE  FALSE
    OBVIOUS
  <2>1. e[i] \in 1 .. Len(q) /\ e[i] # p /\ Alike(q[e[i]], r[i]) /\ q[e[i]] \in Msgs
    BY <1>0
  <2>2. /\ Bears(r[i]) => Bears(q[e[i]])
        /\ q[e[i]].name = n /\ q[e[i]].type = r[i].type
    BY <1>1, <2>1, AlikeFacts
  <2>3. CASE r[i].type = "delete"
    BY <1>0, <2>1, <2>2, <2>3 DEF BirthInv
  <2>4. CASE Bears(r[i])
    <3>1. q[e[i]].type = "newhouse" /\ e[i] < p
      BY <1>0, <2>1, <2>2, <2>4 DEF BirthInv
    <3> QED BY <2>1, <3>1 DEF First
  <2> QED BY <2>3, <2>4
<1> HIDE DEF e
<1>3. R \in [Names -> [id : 0 .. MaxId, data : Data]] /\ I \in [Names -> 0 .. MaxId] /\ MaxId \in Nat
  BY <1>0, HouseConstants DEF Typed
<1>4. /\ S[n].id = 0
      /\ \A o \in Names : o # n => S[o] = R[o]
      /\ S \in [Names -> [id : 0 .. MaxId, data : Data]]
  <2> DEFINE z == [id |-> 0, data |-> NewHouse]
  <2>1. z \in [id : 0 .. MaxId, data : Data] /\ z.id = 0
    BY <1>3, HouseConstants
  <2>2. S = [R EXCEPT ![n] = z]
    OBVIOUS
  <2>3. n \in Names
    BY <1>0
  <2> HIDE DEF z, n
  <2> QED BY <1>3, <2>1, <2>2, <2>3
<1> HIDE DEF n, N
<1>5. BirthInv(r, S, N, L)
  <2>1. \A o \in Names : o \notin N => S[o].id = 0
    BY <1>0, <1>4 DEF BirthInv, N
  <2>2. ASSUME NEW i \in 1 .. Len(r)
        PROVE  /\ r[i].type = "delete" => r[i].name \in N
               /\ Bears(r[i]) => r[i].name \in N /\ S[r[i].name].id = 0
    <3>1. /\ r[i].type = "delete" => r[i].name \in M
          /\ Bears(r[i]) => r[i].name \in M /\ R[r[i].name].id = 0
      BY <1>0 DEF BirthInv
    <3> QED BY <1>1, <1>2, <1>4, <3>1 DEF N
  <2> QED BY <1>0, <2>1, <2>2 DEF BirthInv
<1>6. IdsInv(r, S, I, B)
  <2>1. \A o \in Names : S[o].id <= I[o]
    <3>1. \A o \in Names : R[o].id <= I[o]
      BY <1>0 DEF IdsInv
    <3>2. \A o \in Names : 0 <= I[o]
      BY <1>3
    <3> QED BY <1>4, <3>1, <3>2
  <2> QED BY <1>0, <2>1 DEF IdsInv
<1>7. ReplyInv(r, S, L)
  <2>1. ASSUME NEW i \in 1 .. Len(r), r[i].type = "house", r[i].id # 0, r[i].id = S[r[i].name].id
        PROVE  r[i].data = L[r[i].name]
    <3>1. r[i].name # n
      BY <1>4, <2>1
    <3> QED BY <1>0, <1>1, <1>4, <2>1, <3>1 DEF ReplyInv
  <2> QED BY <2>1 DEF ReplyInv
<1>8. KeptInv(B, S, L)
  <2>1. ASSUME NEW s \in Slots, B[s].owner # None, B[s].id = S[B[s].owner].id
        PROVE  B[s].data = L[B[s].owner]
    <3>1. 0 < B[s].id /\ B[s].owner \in Names
      BY <1>0, <2>1 DEF IdsInv, Typed, Bldgs
    <3>2. B[s].owner # n
      BY <1>4, <2>1, <3>1
    <3> QED BY <1>0, <1>4, <2>1, <3>1, <3>2 DEF KeptInv
  <2> QED BY <2>1 DEF KeptInv
<1>9. SavedInv(r, B, S, L)
  <2> SUFFICES ASSUME NEW o \in Names, S[o].id # 0
               PROVE  Saved(r, S, L, o) \/ Unsaved(B, S, o) \/ Doomed(r, B, S, o)
    BY DEF SavedInv
  <2>1. o # n
    BY <1>4
  <2>2. \A k \in 1 .. Len(q) :
           HomeWrite(q[k], R, o) \/ (q[k].type = "delete" /\ q[k].name = o)
              => \E i \in 1 .. Len(r) : e[i] = k
    BY <1>0, <2>1 DEF HomeWrite, n
  <2>3. /\ Saved(q, R, L, o) => Saved(r, R, L, o)
        /\ Doomed(q, B, R, o) => Doomed(r, B, R, o)
    BY <1>0, <2>2, SavedEmbeds
  <2>4. S[o] = R[o]
    BY <1>4, <2>1
  <2> QED BY <1>0, <2>3, <2>4, SavedSame DEF SavedInv
<1>10. Typed(S, N, I, B, P, L)
  BY <1>0, <1>4 DEF Typed, N
<1> QED BY <1>0, <1>5, <1>6, <1>7, <1>8, <1>9, <1>10 DEF Sound, N, n

\* a building in memory is looked up, settled or changed, and what is left there with it
LEMMA SoundHome ==
    ASSUME NEW q, NEW R, NEW M, NEW I, NEW B, NEW P, NEW L, Sound(q, R, M, I, B, P, L),
           NEW s \in Slots, B[s].owner # None, NEW b, b.owner = B[s].owner, b.id = B[s].id,
           \/ b.data = B[s].data /\ b.changed = B[s].changed
           \/ b.changed = TRUE,
           NEW C \in Bldgs, C = Put(B, s, b), NEW K, K = Recall(L, R, b, B[s].data)
    PROVE  Sound(q, R, M, I, C, P, K)
<1>0. /\ IdsInv(q, R, I, B) /\ OneHouse(q, B) /\ Typed(R, M, I, B, P, L) /\ KeptInv(B, R, L)
  BY DEF Sound
<1>1. b.owner \in Names
  BY <1>0 DEF Typed, Bldgs
<1>2. 0 < b.id /\ b.id <= I[b.owner]
  BY <1>0 DEF IdsInv
<1>3. b.data # B[s].data => b.changed
  OBVIOUS
<1>4. b.id = R[b.owner].id => B[s].data = L[b.owner]
  BY <1>0 DEF KeptInv
<1>5. \A t \in Slots : t # s => B[t].owner # b.owner
  BY <1>0 DEF OneHouse
<1>6. \A i \in AskedIn(q) : q[i].name # b.owner
  BY <1>0 DEF OneHouse
<1>7. b.owner = B[s].owner /\ b.id = B[s].id /\ (B[s].changed => b.changed)
  OBVIOUS
<1>8. Doomed(q, B, R, b.owner) /\ b.id = R[b.owner].id => Saved(q, R, L, b.owner)
  BY DEF Doomed, IsHome
<1> HIDE DEF Doomed
<1> PICK was : was = B[s].data
  OBVIOUS
<1>9. /\ b.data # was => b.changed
      /\ b.id = R[b.owner].id => was = L[b.owner]
      /\ K = Recall(L, R, b, was)
  BY <1>3, <1>4
<1>10. Sound(q, R, M, I, B, P, L) /\ s \in Slots /\ C \in Bldgs /\ C = Put(B, s, b)
  OBVIOUS
<1> QED BY ONLY <1>1, <1>2, <1>5, <1>6, <1>7, <1>8, <1>9, <1>10, SoundPut

-----------------------------------------------------------------------------
(* The inductive invariant.                                                  *)

Good(q, o, R, M, I, B, P, L, list, num, to, on) ==
    /\ q \in Seq(Replies) /\ o \in Seq(Requests)
    /\ Sound(q \o o, R, M, I, B, P, L)
    /\ num \in [Names -> Slots \union {Town, None}]
    /\ to \in [Names -> [num : Slots \union {Town, None}, owner : Names \union {None}]]
    /\ on \in BOOLEAN /\ list \in Seq(Names)
    /\ on => LoadInv(q \o o, list)
    /\ ~on => /\ q = <<>> /\ list = <<>>
              /\ \A s \in Slots : B[s] = NoBuilding
              /\ \A c \in Names : P[c] = Off

Whole == Good(rep, req, row, made, lastId, bld, at, left, loading, number, tele, up)

LEMMA GoodNext ==
    ASSUME Good(rep', req', row', made', lastId', bld', at', left', loading', number', tele', up')
    PROVE  Whole'
BY DEF Whole, Good, Sound, Typed, CallersInv, BirthInv, IdsInv, BoundInv, OneHouse, ReplyInv,
       OrderInv, KeptInv, SavedInv, Saved, Unsaved, Doomed, LoadInv, Marked, AskedIn, UnbornIn,
       HomeWrite, IsHome, Waits, Makes, Bears

LEMMA WholeFacts ==
    ASSUME Whole
    PROVE  /\ Flight = rep \o req /\ Flight \in Seq(Msgs)
           /\ rep \in Seq(Replies) /\ req \in Seq(Requests) /\ rep \in Seq(Msgs) /\ req \in Seq(Msgs)
           /\ Sound(Flight, row, made, lastId, bld, at, left)
           /\ Typed(row, made, lastId, bld, at, left)
           /\ number \in [Names -> Slots \union {Town, None}]
           /\ tele \in [Names -> [num : Slots \union {Town, None}, owner : Names \union {None}]]
           /\ up \in BOOLEAN /\ loading \in Seq(Names)
           /\ up => LoadInv(Flight, loading)
BY DEF Whole, Good, Flight, Sound, Msgs

\* nothing is sent or taken
LEMMA Quiet ==
    ASSUME Whole, up, rep' = rep, req' = req, loading' = loading, up' = up,
           Sound(Flight, row', made', lastId', bld', at', left'),
           number' \in [Names -> Slots \union {Town, None}],
           tele' \in [Names -> [num : Slots \union {Town, None}, owner : Names \union {None}]]
    PROVE  Whole'
<1>1. Good(rep', req', row', made', lastId', bld', at', left', loading', number', tele', up')
  BY DEF Whole, Good, Flight
<1> QED BY <1>1, GoodNext

LEMMA StatesDiffer ==
    /\ Off \in States /\ Making \in States /\ Waiting \in States /\ Placed \in States
    /\ Lost \in States /\ Town \in States /\ Slots \subseteq States
    /\ Making # Waiting
    /\ \A p \in {Off, Placed, Lost, Town} \union Slots : p # Waiting /\ p # Making
    /\ Town # None /\ None \notin Slots /\ Town \notin Slots /\ Placed \notin Slots
    /\ Placed # Town /\ Off # Town /\ Off \notin Slots
<1>1. /\ Cardinality({Off, Making, Waiting, Placed, Lost, Town, None}) = 7
      /\ \A p \in {Off, Making, Waiting, Placed, Lost, Town, None} : p \notin Slots
  BY HouseConstants
<1> DEFINE S == {Off, Making, Waiting, Placed, Lost, Town, None}
<1>2. ASSUME NEW x, NEW a, NEW b, NEW c, NEW d, NEW e, S \subseteq {x, a, b, c, d, e}
      PROVE  FALSE
  <2>1. IsFiniteSet({}) /\ Cardinality({}) = 0
    BY FS_EmptySet
  <2>2. ASSUME NEW T, IsFiniteSet(T), NEW n \in Nat, Cardinality(T) <= n, NEW y
        PROVE  IsFiniteSet(T \union {y}) /\ Cardinality(T \union {y}) <= n + 1
    <3>1. /\ IsFiniteSet(T \union {y}) /\ Cardinality(T) \in Nat
          /\ \/ Cardinality(T \union {y}) = Cardinality(T)
             \/ Cardinality(T \union {y}) = Cardinality(T) + 1
      BY <2>2, FS_AddElement, FS_CardinalityType
    <3> QED BY <2>2, <3>1
  <2> DEFINE A1 == {} \union {x}
             A2 == A1 \union {a}
             A3 == A2 \union {b}
             A4 == A3 \union {c}
             A5 == A4 \union {d}
             A6 == A5 \union {e}
  <2>3. IsFiniteSet(A1) /\ Cardinality(A1) <= 1
    BY <2>1, <2>2
  <2> HIDE DEF A1
  <2>4. IsFiniteSet(A2) /\ Cardinality(A2) <= 2
    <3>1. 1 \in Nat
      OBVIOUS
    <3>2. IsFiniteSet(A1 \union {a}) /\ Cardinality(A1 \union {a}) <= 1 + 1
      BY ONLY <2>2, <2>3, <3>1
    <3> QED BY <3>2
  <2> HIDE DEF A2
  <2>5. IsFiniteSet(A3) /\ Cardinality(A3) <= 3
    BY <2>2, <2>4
  <2> HIDE DEF A3
  <2>6. IsFiniteSet(A4) /\ Cardinality(A4) <= 4
    BY <2>2, <2>5
  <2> HIDE DEF A4
  <2>7. IsFiniteSet(A5) /\ Cardinality(A5) <= 5
    BY <2>2, <2>6
  <2> HIDE DEF A5
  <2>8. IsFiniteSet(A6) /\ Cardinality(A6) <= 6
    BY <2>2, <2>7
  <2>9. S \in SUBSET A6
    BY <1>2 DEF A1, A2, A3, A4, A5
  <2> HIDE DEF S, A6
  <2>10. Cardinality(S) <= Cardinality(A6) /\ IsFiniteSet(S)
    BY <2>8, <2>9, FS_Subset
  <2>11. Cardinality(S) = 7 /\ Cardinality(A6) \in Nat
    BY <1>1, <2>8, FS_CardinalityType DEF S
  <2> QED BY <2>8, <2>10, <2>11
<1>3. Making # Waiting
  <2> SUFFICES ASSUME Making = Waiting PROVE FALSE
    OBVIOUS
  <2>1. S \subseteq {Off, Making, Placed, Lost, Town, None}
    OBVIOUS
  <2> QED BY ONLY <1>2, <2>1
<1>4. Off # Waiting
  <2> SUFFICES ASSUME Off = Waiting PROVE FALSE
    OBVIOUS
  <2>1. S \subseteq {Off, Making, Placed, Lost, Town, None}
    OBVIOUS
  <2> QED BY ONLY <1>2, <2>1
<1>5. Placed # Waiting
  <2> SUFFICES ASSUME Placed = Waiting PROVE FALSE
    OBVIOUS
  <2>1. S \subseteq {Off, Making, Placed, Lost, Town, None}
    OBVIOUS
  <2> QED BY ONLY <1>2, <2>1
<1>6. Lost # Waiting
  <2> SUFFICES ASSUME Lost = Waiting PROVE FALSE
    OBVIOUS
  <2>1. S \subseteq {Off, Making, Placed, Lost, Town, None}
    OBVIOUS
  <2> QED BY ONLY <1>2, <2>1
<1>7. Town # Waiting
  <2> SUFFICES ASSUME Town = Waiting PROVE FALSE
    OBVIOUS
  <2>1. S \subseteq {Off, Making, Placed, Lost, Town, None}
    OBVIOUS
  <2> QED BY ONLY <1>2, <2>1
<1>8. Off # Making
  <2> SUFFICES ASSUME Off = Making PROVE FALSE
    OBVIOUS
  <2>1. S \subseteq {Off, Waiting, Placed, Lost, Town, None}
    OBVIOUS
  <2> QED BY ONLY <1>2, <2>1
<1>9. Placed # Making
  <2> SUFFICES ASSUME Placed = Making PROVE FALSE
    OBVIOUS
  <2>1. S \subseteq {Off, Waiting, Placed, Lost, Town, None}
    OBVIOUS
  <2> QED BY ONLY <1>2, <2>1
<1>10. Lost # Making
  <2> SUFFICES ASSUME Lost = Making PROVE FALSE
    OBVIOUS
  <2>1. S \subseteq {Off, Waiting, Placed, Lost, Town, None}
    OBVIOUS
  <2> QED BY ONLY <1>2, <2>1
<1>11. Town # Making
  <2> SUFFICES ASSUME Town = Making PROVE FALSE
    OBVIOUS
  <2>1. S \subseteq {Off, Waiting, Placed, Lost, Town, None}
    OBVIOUS
  <2> QED BY ONLY <1>2, <2>1
<1>12. Town # None
  <2> SUFFICES ASSUME Town = None PROVE FALSE
    OBVIOUS
  <2>1. S \subseteq {Off, Making, Waiting, Placed, Lost, Town}
    OBVIOUS
  <2> QED BY ONLY <1>2, <2>1
<1>13. Placed # Town
  <2> SUFFICES ASSUME Placed = Town PROVE FALSE
    OBVIOUS
  <2>1. S \subseteq {Off, Making, Waiting, Placed, Lost, None}
    OBVIOUS
  <2> QED BY ONLY <1>2, <2>1
<1>14. Off # Town
  <2> SUFFICES ASSUME Off = Town PROVE FALSE
    OBVIOUS
  <2>1. S \subseteq {Off, Making, Waiting, Placed, Lost, None}
    OBVIOUS
  <2> QED BY ONLY <1>2, <2>1
<1> QED BY <1>1, <1>3, <1>4, <1>5, <1>6, <1>7, <1>8, <1>9, <1>10, <1>11, <1>12, <1>13, <1>14 DEF States

Bldg == [owner : Names \union {None}, id : 0 .. MaxId, data : Data,
         changed : BOOLEAN, delay : 0 .. Delay]

LEMMA LookedUp ==
    ASSUME NEW b \in Bldg, NEW d \in 0 .. Delay
    PROVE  /\ [b EXCEPT !.delay = d] \in Bldg
           /\ [b EXCEPT !.delay = d].owner = b.owner /\ [b EXCEPT !.delay = d].id = b.id
           /\ [b EXCEPT !.delay = d].data = b.data /\ [b EXCEPT !.delay = d].changed = b.changed
BY DEF Bldg

LEMMA TouchedBldg ==
    ASSUME NEW b \in Bldg
    PROVE  /\ Touched(b) \in Bldg
           /\ Touched(b).owner = b.owner /\ Touched(b).id = b.id
           /\ Touched(b).data = b.data /\ Touched(b).changed = b.changed
<1>1. Delay \in 0 .. Delay
  BY HouseConstants
<1> QED BY <1>1, LookedUp DEF Touched

LEMMA DecoratedBldg ==
    ASSUME NEW b \in Bldg, NEW d \in Data
    PROVE  /\ [b EXCEPT !.data = d, !.changed = TRUE] \in Bldg
           /\ [b EXCEPT !.data = d, !.changed = TRUE].owner = b.owner
           /\ [b EXCEPT !.data = d, !.changed = TRUE].id = b.id
           /\ [b EXCEPT !.data = d, !.changed = TRUE].changed = TRUE
           /\ [b EXCEPT !.data = d, !.changed = TRUE].data = d
<1> DEFINE y == [b EXCEPT !.data = d]
<1>1. y \in Bldg /\ y.owner = b.owner /\ y.id = b.id /\ y.data = d
  BY DEF Bldg
<1>2. [b EXCEPT !.data = d, !.changed = TRUE] = [y EXCEPT !.changed = TRUE]
  OBVIOUS
<1> HIDE DEF y
<1>3. /\ [y EXCEPT !.changed = TRUE] \in Bldg
      /\ [y EXCEPT !.changed = TRUE].owner = y.owner /\ [y EXCEPT !.changed = TRUE].id = y.id
      /\ [y EXCEPT !.changed = TRUE].data = y.data /\ [y EXCEPT !.changed = TRUE].changed = TRUE
  BY <1>1 DEF Bldg
<1> QED BY <1>1, <1>2, <1>3

LEMMA SettledBldg ==
    ASSUME NEW b \in Bldg, NEW x \in Settled(b)
    PROVE  /\ x \in Bldg /\ x.owner = b.owner /\ x.id = b.id
           /\ \/ x.data = b.data /\ x.changed = b.changed
              \/ x.changed = TRUE
<1>1. CASE x = b
  BY <1>1
<1>2. CASE \E d \in Data : x = [b EXCEPT !.data = d, !.changed = TRUE]
  <2>1. PICK d \in Data : x = [b EXCEPT !.data = d, !.changed = TRUE]
    BY <1>2
  <2> QED BY <2>1, DecoratedBldg
<1> QED BY <1>1, <1>2 DEF Settled

LEMMA PutBldg ==
    ASSUME NEW B \in Bldgs, NEW s \in Slots, NEW b \in Bldg
    PROVE  /\ Put(B, s, b) \in Bldgs /\ Put(B, s, b)[s] = b /\ B[s] \in Bldg
           /\ \A t \in Slots : t # s => Put(B, s, b)[t] = B[t]
BY DEF Bldgs, Bldg, Put

\* a character that waits for no message goes to another place
Go(P, c, p) == [P EXCEPT ![c] = p]

LEMMA SoundGoes ==
    ASSUME NEW q, NEW R, NEW M, NEW I, NEW B, NEW P, NEW L, Sound(q, R, M, I, B, P, L),
           NEW c \in Names, P[c] \notin {Waiting, Making}, NEW p \in States,
           NEW Q, Q = Go(P, c, p)
    PROVE  /\ Sound(q, R, M, I, B, Q, L)
           /\ \A i \in 1 .. Len(q) : Waits(q[i]) \/ Makes(q[i]) => q[i].name # c
<1>1. /\ P \in [Names -> States] /\ CallersInv(q, P) /\ q \in Seq(Msgs)
  BY DEF Sound, Typed
<1>2. Q \in [Names -> States] /\ \A d \in Names : d # c => Q[d] = P[d]
  BY <1>1 DEF Go
<1>3. \A i \in 1 .. Len(q) : Waits(q[i]) \/ Makes(q[i]) => q[i].name # c
  BY <1>1 DEF CallersInv
<1>4. \A i \in 1 .. Len(q) : q[i].name \in Names
  <2>1. \A i \in 1 .. Len(q) : q[i] \in Msgs
    BY <1>1
  <2> QED BY <2>1, MsgFacts
<1>5. \A i \in 1 .. Len(q) : Waits(q[i]) \/ Makes(q[i]) => Q[q[i].name] = P[q[i].name]
  BY <1>2, <1>3, <1>4
<1>6. Sound(q, R, M, I, B, Q, L)
  BY <1>2, <1>5, SoundPlace
<1> QED BY <1>3, <1>6

LEMMA TeleTyped ==
    ASSUME Whole, NEW c, NEW num \in Slots \union {Town}, bld' \in Bldgs, TeleTo(c, num)
    PROVE  tele' \in [Names -> [num : Slots \union {Town, None}, owner : Names \union {None}]]
<1> DEFINE z == [num |-> num, owner |-> IF num \in Slots THEN bld'[num].owner ELSE None]
<1>1. z \in [num : Slots \union {Town, None}, owner : Names \union {None}]
  BY DEF Bldgs
<1>2. tele' = [tele EXCEPT ![c] = z]
  BY DEF TeleTo
<1> HIDE DEF z
<1> QED BY <1>1, <1>2, WholeFacts

LEMMA NowhereTyped ==
    Nowhere \in [num : Slots \union {Town, None}, owner : Names \union {None}]
BY DEF Nowhere

LEMMA CreateWhole ==
    ASSUME Whole, NEW c \in Names, Create(c)
    PROVE  Whole'
<1> DEFINE m == [type |-> "newchar", name |-> c, caller |-> c]
           f == Flight
<1>1. m \in NewCharMsgs /\ m \in Requests /\ m \in Msgs
      /\ m.type = "newchar" /\ m.name = c /\ m.caller = c
  BY DEF NewCharMsgs, Callers, Requests, Msgs
<1>2. /\ up /\ at[c] = Off /\ at' = [at EXCEPT ![c] = Making] /\ req' = Append(req, m)
      /\ row' = row /\ made' = made /\ lastId' = lastId /\ rep' = rep /\ bld' = bld
      /\ loading' = loading /\ number' = number /\ tele' = tele /\ up' = up /\ left' = left
      /\ lastId[c] + Cardinality(UnbornIn(f, c)) < MaxId
  BY DEF Create, dmVars, Unborn, UnbornIn
<1>3. /\ f = rep \o req /\ f \in Seq(Msgs) /\ Sound(f, row, made, lastId, bld, at, left)
      /\ rep \in Seq(Msgs) /\ req \in Seq(Msgs) /\ req \in Seq(Requests) /\ LoadInv(f, loading)
      /\ at \in [Names -> States]
  BY <1>2, WholeFacts DEF Typed
<1> HIDE DEF m, f
<1>4. rep' \o req' = Append(f, m) /\ req' \in Seq(Requests)
  BY <1>1, <1>2, <1>3, AppendLater, AppendProperties
<1>5. /\ Sound(f, row, made, lastId, bld, at', left)
      /\ \A i \in 1 .. Len(f) : Waits(f[i]) \/ Makes(f[i]) => f[i].name # c
  <2>1. at[c] \notin {Waiting, Making} /\ Making \in States /\ at' = Go(at, c, Making)
    BY <1>2, StatesDiffer DEF Go
  <2>2. Sound(f, row, made, lastId, bld, at, left)
    BY <1>3
  <2>3. Sound(f, row, made, lastId, bld, at', left)
    BY ONLY <2>1, <2>2, SoundGoes, c \in Names
  <2> QED BY ONLY <2>1, <2>2, <2>3, SoundGoes, c \in Names
<1>6. ~Waits(m) /\ ~Bears(m) /\ at'[c] = Making
  BY <1>1, <1>2, <1>3 DEF Waits, Bears
<1>7. Sound(Append(f, m), row, made, lastId, bld, at', left)
  BY <1>1, <1>2, <1>5, <1>6, SoundAdd
<1>8. LoadInv(Append(f, m), loading)
  <2>1. /\ Append(f, m) \in Seq(Msgs) /\ Len(f) <= Len(Append(f, m))
        /\ \A i \in 1 .. Len(f) : Append(f, m)[i] = f[i]
        /\ \A i \in 1 .. Len(Append(f, m)) : i > Len(f) => Append(f, m)[i] = m
    <3> DEFINE r == Append(f, m)
    <3>1. /\ r \in Seq(Msgs) /\ Len(r) = Len(f) + 1 /\ Len(f) \in Nat
          /\ \A i \in 1 .. Len(f) : r[i] = f[i]
          /\ r[Len(f) + 1] = m
      BY <1>1, <1>3, AddFacts
    <3> HIDE DEF r
    <3>2. \A i \in 1 .. Len(r) : i > Len(f) => i = Len(f) + 1
      BY <3>1
    <3> QED BY <3>1, <3>2 DEF r
  <2> QED BY <1>1, <1>3, <2>1, LoadMore
<1>9. Good(rep', req', row', made', lastId', bld', at', left', loading', number', tele', up')
  BY <1>2, <1>4, <1>7, <1>8 DEF Whole, Good
<1> QED BY <1>9, GoodNext

\* a character goes to another place, and waits for no message
LEMMA Goes ==
    ASSUME NEW q, NEW B, NEW L, Sound(q, row, made, lastId, B, at, L),
           NEW c \in Names, at[c] \in Slots \union {Off, Placed, Lost, Town},
           NEW p \in States, at' = [at EXCEPT ![c] = p]
    PROVE  /\ Sound(q, row, made, lastId, B, at', L)
           /\ \A i \in 1 .. Len(q) : Waits(q[i]) \/ Makes(q[i]) => q[i].name # c
<1>1. at[c] \notin {Waiting, Making} /\ at' = Go(at, c, p)
  BY StatesDiffer DEF Go
<1>2. Sound(q, row, made, lastId, B, at', L)
  BY ONLY <1>1, SoundGoes, c \in Names, p \in States, Sound(q, row, made, lastId, B, at, L)
<1> QED BY ONLY <1>1, <1>2, SoundGoes, c \in Names, p \in States, Sound(q, row, made, lastId, B, at, L)

\* nothing is sent or taken, and the data manager does nothing
LEMMA Still ==
    ASSUME Whole, up, UNCHANGED <<dmVars, req, rep, loading, up>>,
           Sound(Flight, row, made, lastId, bld', at', left'),
           number' \in [Names -> Slots \union {Town, None}],
           tele' \in [Names -> [num : Slots \union {Town, None}, owner : Names \union {None}]]
    PROVE  Whole'
BY Quiet DEF dmVars

\* a building in memory is looked up, settled or changed
LEMMA HomeChanged ==
    ASSUME Whole, NEW s \in Slots, bld[s].owner # None,
           NEW b \in Bldg, b.owner = bld[s].owner, b.id = bld[s].id,
           \/ b.data = bld[s].data /\ b.changed = bld[s].changed
           \/ b.changed = TRUE,
           bld' = [bld EXCEPT ![s] = b], Remember(s, bld[s].data)
    PROVE  bld' \in Bldgs /\ Sound(Flight, row, made, lastId, bld', at, left')
<1>1. Sound(Flight, row, made, lastId, bld, at, left) /\ bld \in Bldgs
  BY WholeFacts DEF Typed
<1>2. bld' = Put(bld, s, b) /\ bld' \in Bldgs /\ bld'[s] = b
  BY <1>1, PutBldg DEF Put
<1>3. left' = Recall(left, row, b, bld[s].data)
  BY <1>2 DEF Remember, Recall
<1>4. /\ b.owner = bld[s].owner /\ b.id = bld[s].id
      /\ \/ b.data = bld[s].data /\ b.changed = bld[s].changed
         \/ b.changed = TRUE
  OBVIOUS
<1>5. Sound(Flight, row, made, lastId, bld', at, left')
  BY ONLY <1>1, <1>2, <1>3, <1>4, s \in Slots, bld[s].owner # None, SoundHome
<1> QED BY <1>2, <1>5

LEMMA GetPosnTownWhole ==
    ASSUME Whole, NEW c \in Names, GetPosnTown(c)
    PROVE  Whole'
<1>1. /\ up /\ at[c] = Off /\ at' = [at EXCEPT ![c] = Placed]
      /\ number' = [number EXCEPT ![c] = Town] /\ bld' = bld /\ TeleTo(c, Town)
      /\ left' = left /\ UNCHANGED <<dmVars, req, rep, loading, up>>
  BY DEF GetPosnTown
<1>2. /\ Sound(Flight, row, made, lastId, bld, at, left) /\ bld \in Bldgs
      /\ number \in [Names -> Slots \union {Town, None}]
  BY WholeFacts DEF Typed
<1>3. Sound(Flight, row, made, lastId, bld, at', left)
  <2>1. Placed \in States
    BY StatesDiffer
  <2> QED BY <1>1, <1>2, <2>1, Goes
<1>4. tele' \in [Names -> [num : Slots \union {Town, None}, owner : Names \union {None}]]
  <2>1. bld' \in Bldgs /\ Town \in Slots \union {Town}
    BY <1>1, <1>2
  <2> QED BY <1>1, <2>1, TeleTyped
<1>5. number' \in [Names -> Slots \union {Town, None}]
  BY <1>1, <1>2
<1>6. Sound(Flight, row, made, lastId, bld', at', left')
  BY <1>1, <1>3
<1> QED BY ONLY Whole, <1>1, <1>4, <1>5, <1>6, Still

LEMMA SettledHome ==
    ASSUME Whole, NEW s \in Slots, NEW b \in Settled(Touched(bld[s]))
    PROVE  /\ b \in Bldg /\ b.owner = bld[s].owner /\ b.id = bld[s].id
           /\ \/ b.data = bld[s].data /\ b.changed = bld[s].changed
              \/ b.changed = TRUE
<1>1. bld[s] \in Bldg
  BY WholeFacts DEF Typed, Bldgs, Bldg
<1>2. /\ Touched(bld[s]) \in Bldg
      /\ Touched(bld[s]).owner = bld[s].owner /\ Touched(bld[s]).id = bld[s].id
      /\ Touched(bld[s]).data = bld[s].data /\ Touched(bld[s]).changed = bld[s].changed
  BY <1>1, TouchedBldg
<1>3. /\ b \in Bldg /\ b.owner = Touched(bld[s]).owner /\ b.id = Touched(bld[s]).id
      /\ \/ b.data = Touched(bld[s]).data /\ b.changed = Touched(bld[s]).changed
         \/ b.changed = TRUE
  BY ONLY <1>2, SettledBldg, b \in Settled(Touched(bld[s]))
<1> QED BY ONLY <1>2, <1>3

LEMMA GetPosnHomeWhole ==
    ASSUME Whole, NEW c \in Names, NEW s \in Slots, GetPosnHome(c, s)
    PROVE  Whole'
<1>1. /\ up /\ at[c] = Off /\ at' = [at EXCEPT ![c] = Placed] /\ bld[s].owner = c
      /\ number' = [number EXCEPT ![c] = s] /\ TeleTo(c, s) /\ Remember(s, bld[s].data)
      /\ UNCHANGED <<dmVars, req, rep, loading, up>>
  BY DEF GetPosnHome, PlacedAt, Found
<1>2. PICK b \in Settled(Touched(bld[s])) : bld' = [bld EXCEPT ![s] = b]
  BY DEF GetPosnHome
<1>3. /\ b \in Bldg /\ b.owner = bld[s].owner /\ b.id = bld[s].id
      /\ \/ b.data = bld[s].data /\ b.changed = bld[s].changed
         \/ b.changed = TRUE
  BY SettledHome
<1>4. bld' \in Bldgs /\ Sound(Flight, row, made, lastId, bld', at, left')
  <2>1. bld[s].owner # None
    BY <1>1, HouseConstants
  <2> QED BY ONLY Whole, s \in Slots, <1>1, <1>2, <1>3, <2>1, HomeChanged
<1>5. Sound(Flight, row, made, lastId, bld', at', left')
  <2>1. Placed \in States
    BY StatesDiffer
  <2> QED BY <1>1, <1>4, <2>1, Goes
<1>6. tele' \in [Names -> [num : Slots \union {Town, None}, owner : Names \union {None}]]
  BY <1>1, <1>4, TeleTyped
<1>7. number' \in [Names -> Slots \union {Town, None}]
  BY <1>1, WholeFacts
<1> QED BY ONLY Whole, <1>1, <1>5, <1>6, <1>7, Still

LEMMA GetHouseWhole ==
    ASSUME Whole, NEW c \in Names, NEW n \in Names, NEW s \in Slots, GetHouse(c, n, s)
    PROVE  Whole'
<1>1. /\ up /\ bld[s].owner = n /\ TeleTo(c, s) /\ Remember(s, bld[s].data)
      /\ at' = at /\ number' = number /\ UNCHANGED <<dmVars, req, rep, loading, up>>
  BY DEF GetHouse, Found
<1>2. PICK b \in Settled(Touched(bld[s])) : bld' = [bld EXCEPT ![s] = b]
  BY DEF GetHouse, Settled
<1>3. /\ b \in Bldg /\ b.owner = bld[s].owner /\ b.id = bld[s].id
      /\ \/ b.data = bld[s].data /\ b.changed = bld[s].changed
         \/ b.changed = TRUE
  BY SettledHome
<1>4. bld' \in Bldgs /\ Sound(Flight, row, made, lastId, bld', at, left')
  <2>1. bld[s].owner # None
    BY <1>1, HouseConstants
  <2> QED BY ONLY Whole, s \in Slots, <1>1, <1>2, <1>3, <2>1, HomeChanged
<1>5. Sound(Flight, row, made, lastId, bld', at', left')
  BY <1>1, <1>4
<1>6. tele' \in [Names -> [num : Slots \union {Town, None}, owner : Names \union {None}]]
  BY <1>1, <1>4, TeleTyped
<1>7. number' \in [Names -> Slots \union {Town, None}]
  BY <1>1, WholeFacts
<1> QED BY ONLY Whole, <1>1, <1>5, <1>6, <1>7, Still

LEMMA WalkOutWhole ==
    ASSUME Whole, NEW c \in Names, WalkOut(c)
    PROVE  Whole'
<1>1. /\ up /\ bld' = bld /\ TeleTo(c, Town) /\ at' = at /\ number' = number /\ left' = left
      /\ UNCHANGED <<dmVars, req, rep, loading, up>>
  BY DEF WalkOut
<1>2. Sound(Flight, row, made, lastId, bld', at', left') /\ bld' \in Bldgs
  BY <1>1, WholeFacts DEF Typed
<1>3. tele' \in [Names -> [num : Slots \union {Town, None}, owner : Names \union {None}]]
  <2>1. Town \in Slots \union {Town}
    OBVIOUS
  <2> QED BY <1>1, <1>2, <2>1, TeleTyped
<1>4. number' \in [Names -> Slots \union {Town, None}]
  BY <1>1, WholeFacts
<1> QED BY ONLY Whole, <1>1, <1>2, <1>3, <1>4, Still

LEMMA NowhereTele ==
    ASSUME Whole, NEW c \in Names, tele' = [tele EXCEPT ![c] = Nowhere]
    PROVE  tele' \in [Names -> [num : Slots \union {Town, None}, owner : Names \union {None}]]
<1> DEFINE z == Nowhere
<1>1. z \in [num : Slots \union {Town, None}, owner : Names \union {None}]
  BY NowhereTyped
<1>2. tele' = [tele EXCEPT ![c] = z]
  OBVIOUS
<1> HIDE DEF z
<1> QED BY <1>1, <1>2, WholeFacts

LEMMA MisdirectedWhole ==
    ASSUME Whole, NEW c \in Names, ChangeRoomMisdirected(c)
    PROVE  Whole'
<1>1. /\ up /\ bld' = bld /\ tele' = [tele EXCEPT ![c] = Nowhere]
      /\ at' = at /\ number' = number /\ left' = left
      /\ UNCHANGED <<dmVars, req, rep, loading, up>>
  BY DEF ChangeRoomMisdirected
<1>2. Sound(Flight, row, made, lastId, bld', at', left')
  BY <1>1, WholeFacts
<1>3. tele' \in [Names -> [num : Slots \union {Town, None}, owner : Names \union {None}]]
  BY <1>1, NowhereTele
<1>4. number' \in [Names -> Slots \union {Town, None}]
  BY <1>1, WholeFacts
<1> QED BY ONLY Whole, <1>1, <1>2, <1>3, <1>4, Still

LEMMA RedecorateWhole ==
    ASSUME Whole, NobodyOutside, NEW c \in Names, NEW d \in Data, Redecorate(c, d)
    PROVE  Whole'
<1> DEFINE s == at[c]
           b == [bld[s] EXCEPT !.data = d, !.changed = TRUE]
<1>1. /\ up /\ s \in Slots /\ Remember(s, bld[s].data)
      /\ bld' = [bld EXCEPT ![s].data = d, ![s].changed = TRUE]
      /\ at' = at /\ number' = number /\ tele' = tele
      /\ UNCHANGED <<dmVars, req, rep, loading, up>>
  BY DEF Redecorate, charVars
<1>2. bld \in Bldgs /\ bld[s] \in Bldg /\ bld[s].owner # None
  BY <1>1, WholeFacts DEF Typed, Bldgs, Bldg, NobodyOutside, Live
<1>3. /\ b \in Bldg /\ b.owner = bld[s].owner /\ b.id = bld[s].id /\ b.changed = TRUE
  BY <1>2, DecoratedBldg
<1>4. bld' = [bld EXCEPT ![s] = b]
  BY <1>1, <1>2 DEF Bldgs
<1> HIDE DEF s, b
<1>5. bld' \in Bldgs /\ Sound(Flight, row, made, lastId, bld', at, left')
  BY ONLY Whole, <1>1, <1>2, <1>3, <1>4, HomeChanged
<1>6. Sound(Flight, row, made, lastId, bld', at', left')
  BY <1>1, <1>5
<1>7. /\ number' \in [Names -> Slots \union {Town, None}]
      /\ tele' \in [Names -> [num : Slots \union {Town, None}, owner : Names \union {None}]]
  BY <1>1, WholeFacts
<1> QED BY ONLY Whole, <1>1, <1>6, <1>7, Still

\* buildings that differ from those there were in nothing but their delay
Delays(C, B) ==
    \A s \in Slots : /\ C[s].owner = B[s].owner /\ C[s].id = B[s].id
                     /\ C[s].data = B[s].data /\ C[s].changed = B[s].changed

LEMMA MovedDelays ==
    ASSUME NEW B \in Bldgs, NEW c, NEW from, NEW to
    PROVE  Moved(B, c, from, to) \in Bldgs /\ Delays(Moved(B, c, from, to), B)
<1>1. \A s \in Slots : B[s] \in Bldg
  BY DEF Bldgs, Bldg
<1>2. ASSUME NEW s \in Slots
      PROVE  /\ Touched(B[s]) \in Bldg
             /\ Touched(B[s]).owner = B[s].owner /\ Touched(B[s]).id = B[s].id
             /\ Touched(B[s]).data = B[s].data /\ Touched(B[s]).changed = B[s].changed
  BY <1>1, TouchedBldg
<1> DEFINE z(s) == IF s = from /\ from # to /\ Inside(s) = {c} THEN Touched(B[s]) ELSE B[s]
<1>3. \A s \in Slots : /\ z(s) \in Bldg /\ z(s).owner = B[s].owner /\ z(s).id = B[s].id
                       /\ z(s).data = B[s].data /\ z(s).changed = B[s].changed
  BY <1>1, <1>2
<1>4. Moved(B, c, from, to) = [s \in Slots |-> z(s)]
  BY DEF Moved
<1> HIDE DEF z
<1> QED BY <1>3, <1>4 DEF Bldgs, Bldg, Delays

LEMMA DelaysSound ==
    ASSUME NEW q, NEW P, Sound(q, row, made, lastId, bld, P, left), bld' \in Bldgs,
           Delays(bld', bld)
    PROVE  Sound(q, row, made, lastId, bld', P, left)
BY SoundDelay DEF Delays

LEMMA ChangeRoomWhole ==
    ASSUME Whole, NEW c \in Names, NEW num \in Slots \union {Town}, ChangeRoom(c, num)
    PROVE  Whole'
<1> DEFINE found(to) == [s \in Slots |->
                IF at[c] = Placed /\ num \in Slots /\ s = to THEN Touched(bld[s]) ELSE bld[s]]
<1>1. /\ up /\ tele' = [tele EXCEPT ![c] = Nowhere] /\ left' = left
      /\ at[c] \in Slots \union {Town, Placed}
      /\ UNCHANGED <<dmVars, req, rep, loading, up>>
  BY DEF ChangeRoom
<1>2. PICK to \in Destination(c, num) :
        \/ /\ CanEnter(c, to) /\ bld' = Moved(found(to), c, at[c], to)
           /\ at' = [at EXCEPT ![c] = to] /\ number' = [number EXCEPT ![c] = None]
        \/ bld' = found(to) /\ at' = at /\ number' = number
  BY DEF ChangeRoom
<1>3. /\ Sound(Flight, row, made, lastId, bld, at, left) /\ bld \in Bldgs
      /\ number \in [Names -> Slots \union {Town, None}]
  BY WholeFacts DEF Typed
<1>4. found(to) \in Bldgs /\ Delays(found(to), bld)
  <2>1. \A s \in Slots : bld[s] \in Bldg
    BY <1>3 DEF Bldgs, Bldg
  <2>2. ASSUME NEW s \in Slots
        PROVE  /\ Touched(bld[s]) \in Bldg
               /\ Touched(bld[s]).owner = bld[s].owner /\ Touched(bld[s]).id = bld[s].id
               /\ Touched(bld[s]).data = bld[s].data /\ Touched(bld[s]).changed = bld[s].changed
    BY <2>1, TouchedBldg
  <2> DEFINE z(s) == IF at[c] = Placed /\ num \in Slots /\ s = to THEN Touched(bld[s]) ELSE bld[s]
  <2>3. \A s \in Slots : /\ z(s) \in Bldg /\ z(s).owner = bld[s].owner /\ z(s).id = bld[s].id
                         /\ z(s).data = bld[s].data /\ z(s).changed = bld[s].changed
    BY <2>1, <2>2
  <2>4. found(to) = [s \in Slots |-> z(s)]
    OBVIOUS
  <2> HIDE DEF z, found
  <2> QED BY <2>3, <2>4 DEF Bldgs, Bldg, Delays
<1> HIDE DEF found
<1>5. bld' \in Bldgs /\ Delays(bld', bld)
  <2>1. CASE bld' = found(to)
    BY <1>4, <2>1
  <2>2. CASE bld' = Moved(found(to), c, at[c], to)
    <3>1. bld' \in Bldgs /\ Delays(bld', found(to))
      BY <1>4, <2>2, MovedDelays
    <3> QED BY <1>4, <3>1 DEF Delays
  <2> QED BY <1>2, <2>1, <2>2
<1>6. Sound(Flight, row, made, lastId, bld, at', left)
  <2>1. CASE at' = at
    BY <1>3, <2>1
  <2>2. CASE CanEnter(c, to) /\ at' = [at EXCEPT ![c] = to]
    <3>1. to \in States
      BY <2>2, StatesDiffer DEF CanEnter, Occupied
    <3> QED BY <1>1, <1>3, <2>2, <3>1, Goes
  <2> QED BY <1>2, <2>1, <2>2
<1>7. Sound(Flight, row, made, lastId, bld', at', left')
  <2>1. Sound(Flight, row, made, lastId, bld', at', left)
    BY ONLY <1>5, <1>6, DelaysSound
  <2> QED BY <1>1, <2>1
<1>8. tele' \in [Names -> [num : Slots \union {Town, None}, owner : Names \union {None}]]
  BY <1>1, NowhereTele
<1>9. number' \in [Names -> Slots \union {Town, None}]
  BY <1>2, <1>3
<1> QED BY ONLY Whole, <1>1, <1>7, <1>8, <1>9, Still

LEMMA LoadHouseWhole ==
    ASSUME Whole, up, NEW n \in Names, NEW c \in Names, NEW callback \in {"posn", "tele"},
           LoadHouse(n, c, callback), Found(n) = {},
           Sound(Flight, row, made, lastId, bld, at', left),
           callback = "posn" => c = n /\ at'[n] = Waiting,
           UNCHANGED <<dmVars, rep, bld, number, tele, up, left>>
    PROVE  Whole'
<1> DEFINE m == [type |-> "get", name |-> n, caller |-> c, callback |-> callback]
           f == Flight
<1>1. CASE UNCHANGED <<loading, req>>
  <2>1. /\ Sound(Flight, row, made, lastId, bld', at', left')
        /\ number' \in [Names -> Slots \union {Town, None}]
        /\ tele' \in [Names -> [num : Slots \union {Town, None}, owner : Names \union {None}]]
        /\ UNCHANGED <<dmVars, req, rep, loading, up>>
    BY <1>1, WholeFacts
  <2> QED BY <2>1, Still
<1>2. CASE /\ \A i \in 1 .. Len(loading) : loading[i] # n
           /\ loading' = Append(loading, n) /\ req' = Append(req, m)
  <2>1. /\ m \in GetMsgs /\ m \in Requests /\ m \in Msgs /\ m.type = "get" /\ m.name = n
        /\ m.caller = c /\ m.callback = callback
    BY DEF GetMsgs, Callers, Requests, Msgs
  <2>2. /\ f = rep \o req /\ f \in Seq(Msgs) /\ Sound(f, row, made, lastId, bld, at', left)
        /\ rep \in Seq(Msgs) /\ req \in Seq(Msgs) /\ req \in Seq(Requests) /\ LoadInv(f, loading)
        /\ loading \in Seq(Names)
    BY WholeFacts
  <2> HIDE DEF m, f
  <2>3. rep' \o req' = Append(f, m) /\ req' \in Seq(Requests)
    <3>1. rep \o Append(req, m) = Append(rep \o req, m)
      BY <2>1, <2>2, AppendLater
    <3>2. Append(req, m) \in Seq(Requests)
      BY <2>1, <2>2
    <3> QED BY <1>2, <2>2, <3>1, <3>2
  <2>4. \A s \in Slots : bld[s].owner # m.name
    BY <2>1 DEF Found
  <2>5. /\ Waits(m) => m.caller = m.name /\ at'[m.name] = Waiting
        /\ ~Makes(m) /\ ~Bears(m)
    BY <2>1 DEF Waits, Makes, Bears
  <2>6. Sound(Append(f, m), row, made, lastId, bld, at', left)
    <3>1. /\ m \in Msgs /\ Sound(f, row, made, lastId, bld, at', left)
          /\ m.type \notin {"house", "write", "delete", "newhouse", "newchar", "char"}
          /\ m.type = "get"
      BY <2>1, <2>2
    <3> QED BY ONLY <2>4, <2>5, <3>1, SoundAdd
  <2>7. LoadInv(Append(f, m), Append(loading, m.name))
    BY <1>2, <2>1, <2>2, LoadAdd
  <2>8. Good(rep', req', row', made', lastId', bld', at', left', loading', number', tele', up')
    <3>1. loading' = Append(loading, m.name) /\ Append(loading, m.name) \in Seq(Names)
      BY <1>2, <2>1, <2>2
    <3> QED BY <2>3, <2>6, <2>7, <3>1 DEF Whole, Good, dmVars
  <2> QED BY <2>8, GoodNext
<1> QED BY <1>1, <1>2 DEF LoadHouse

LEMMA GetPosnLoadWhole ==
    ASSUME Whole, NEW c \in Names, GetPosnLoad(c)
    PROVE  Whole'
<1>1. /\ up /\ at[c] = Off /\ Found(c) = {} /\ LoadHouse(c, c, "posn")
      /\ at' = [at EXCEPT ![c] = Waiting] /\ UNCHANGED <<dmVars, rep, bld, number, tele, up, left>>
  BY DEF GetPosnLoad
<1>2. /\ Sound(Flight, row, made, lastId, bld, at, left) /\ at \in [Names -> States]
  BY WholeFacts DEF Typed
<1>3. Sound(Flight, row, made, lastId, bld, at', left) /\ at'[c] = Waiting
  <2>1. Waiting \in States
    BY StatesDiffer
  <2> QED BY <1>1, <1>2, <2>1, Goes
<1> QED BY ONLY Whole, c \in Names, <1>1, <1>3, LoadHouseWhole

LEMMA GetHouseLoadWhole ==
    ASSUME Whole, NEW c \in Names, NEW n \in Names, GetHouseLoad(c, n)
    PROVE  Whole'
<1>1. /\ up /\ Found(n) = {} /\ LoadHouse(n, c, "tele")
      /\ at' = at /\ UNCHANGED <<dmVars, rep, bld, number, tele, up, left>>
  BY DEF GetHouseLoad
<1>2. Sound(Flight, row, made, lastId, bld, at', left)
  BY <1>1, WholeFacts
<1> QED BY ONLY Whole, c \in Names, n \in Names, <1>1, <1>2, LoadHouseWhole

\* the messages that name a character that is deleted
OthersStay(P, K, c) == \A d \in Names : d # c => P[d] = K[d] \/ K[d] \in Slots

Both(a, b) == a \o b

LEMMA OrphanLike ==
    ASSUME NEW a \in Seq(Replies), NEW b \in Seq(Requests), NEW c \in Names,
           NEW f, f = Both(a, b), NEW r, r = Both(Orphaned(a, c), Orphaned(b, c))
    PROVE  /\ Orphaned(a, c) \in Seq(Replies) /\ Orphaned(b, c) \in Seq(Requests)
           /\ f \in Seq(Msgs) /\ r \in Seq(Msgs) /\ Len(r) = Len(f)
           /\ \A i \in 1 .. Len(f) : Alike(f[i], r[i])
           /\ \A i \in 1 .. Len(r) :
                 r[i].type \in {"get", "house", "newchar", "char"} => r[i].caller # c
<1>1. c # None
  BY HouseConstants
<1>2. Orphaned(a, c) \in Seq(Replies) /\ Orphaned(b, c) \in Seq(Requests)
  <2>1. Replies \in {Requests, Replies} /\ Requests \in {Requests, Replies}
    OBVIOUS
  <2> QED BY <2>1, OrphanedFacts
<1>3. /\ f \in Seq(Msgs) /\ r \in Seq(Msgs) /\ Len(r) = Len(f)
      /\ \A i \in 1 .. Len(f) : Alike(f[i], r[i])
      /\ \A i \in 1 .. Len(f) :
            f[i].type \in {"get", "house", "newchar", "char"} => r[i].caller # c
  BY <1>1, OrphanEmbeds DEF Both
<1>4. \A i \in 1 .. Len(r) :
        r[i].type \in {"get", "house", "newchar", "char"} => r[i].caller # c
  BY <1>3 DEF Alike
<1> QED BY <1>2, <1>3, <1>4

LEMMA LikeSound ==
    ASSUME NEW f, NEW R, NEW M, NEW I, NEW B, NEW K, NEW L, Sound(f, R, M, I, B, K, L),
           NEW r \in Seq(Msgs), Len(r) = Len(f), \A i \in 1 .. Len(f) : Alike(f[i], r[i]),
           NEW c, \A i \in 1 .. Len(r) :
                     r[i].type \in {"get", "house", "newchar", "char"} => r[i].caller # c,
           NEW P \in [Names -> States], OthersStay(P, K, c)
    PROVE  Sound(r, R, M, I, B, P, L)
<1>1. f \in Seq(Msgs) /\ K \in [Names -> States]
  BY DEF Sound, Typed
<1>2. /\ Embeds(Same(Len(f)), r, f)
      /\ \A k \in 1 .. Len(f) : k \in 1 .. Len(r) /\ Same(Len(f))[k] = k
  BY <1>1, SameEmbeds
<1>3. Sound(r, R, M, I, B, K, L)
  <2>1. /\ \A k \in 1 .. Len(f) : f[k].type \in {"write", "delete"} =>
              \E i \in 1 .. Len(r) : Same(Len(f))[i] = k
        /\ r \in Seq(Msgs) /\ Embeds(Same(Len(f)), r, f)
        /\ Sound(f, R, M, I, B, K, L)
    BY <1>2
  <2> QED BY ONLY <2>1, SoundEmbeds
<1>4. CallersInv(r, K)
  BY <1>3 DEF Sound
<1>5. \A i \in 1 .. Len(r) : r[i].name \in Names
  <2>1. \A i \in 1 .. Len(r) : r[i] \in Msgs
    OBVIOUS
  <2> QED BY <2>1, MsgFacts
<1>6. \A i \in 1 .. Len(r) : Waits(r[i]) \/ Makes(r[i]) => P[r[i].name] = K[r[i].name]
  <2>1. \A i \in 1 .. Len(r) : Waits(r[i]) \/ Makes(r[i]) =>
              r[i].name # c /\ K[r[i].name] \in {Waiting, Making}
    <3> SUFFICES ASSUME NEW i \in 1 .. Len(r), Waits(r[i]) \/ Makes(r[i])
                 PROVE  r[i].name # c /\ K[r[i].name] \in {Waiting, Making}
      OBVIOUS
    <3>1. r[i].caller # c
      BY DEF Waits, Makes
    <3>2. r[i].caller = r[i].name /\ K[r[i].name] \in {Waiting, Making}
      BY <1>4 DEF CallersInv
    <3> QED BY <3>1, <3>2
  <2>2. Waiting \notin Slots /\ Making \notin Slots
    BY StatesDiffer
  <2> QED BY <1>5, <2>1, <2>2 DEF OthersStay
<1> QED BY ONLY <1>3, <1>6, P \in [Names -> States], SoundPlace

LEMMA LikeLoads ==
    ASSUME NEW f \in Seq(Msgs), NEW r \in Seq(Msgs), Len(r) = Len(f),
           \A i \in 1 .. Len(f) : Alike(f[i], r[i]), NEW list, LoadInv(f, list)
    PROVE  LoadInv(r, list)
<1>1. /\ Embeds(Same(Len(f)), r, f)
      /\ \A k \in 1 .. Len(f) : k \in 1 .. Len(r) /\ Same(Len(f))[k] = k
  BY SameEmbeds
<1>2. \A k \in AskedIn(f) : k \in 1 .. Len(f)
  BY AskedIs
<1>3. \A k \in AskedIn(f) : \E i \in 1 .. Len(r) : Same(Len(f))[i] = k
  BY ONLY <1>1, <1>2
<1> QED BY <1>1, <1>3, LoadEmbeds

LEMMA Orphans ==
    ASSUME Whole, NEW c \in Names, NEW P \in [Names -> States], OthersStay(P, at, c),
           NEW u, u = Orphaned(rep, c), NEW v, v = Orphaned(req, c)
    PROVE  /\ u \in Seq(Replies) /\ v \in Seq(Requests) /\ u \o v \in Seq(Msgs)
           /\ Sound(u \o v, row, made, lastId, bld, P, left)
           /\ up => LoadInv(u \o v, loading)
           /\ Len(u \o v) = Len(Flight)
           /\ \A i \in 1 .. Len(Flight) : Alike(Flight[i], (u \o v)[i])
           /\ \A i \in 1 .. Len(u \o v) :
                 (u \o v)[i].type \in {"get", "house", "newchar", "char"} => (u \o v)[i].caller # c
<1>1. PICK f, a, b, R, M, I, B, K, L, r, list :
        /\ f = Flight /\ a = rep /\ b = req /\ R = row /\ M = made /\ I = lastId
        /\ B = bld /\ K = at /\ L = left /\ r = u \o v /\ list = loading
  OBVIOUS
<1>2. /\ a \in Seq(Replies) /\ b \in Seq(Requests) /\ f = Both(a, b) /\ Sound(f, R, M, I, B, K, L)
      /\ u = Orphaned(a, c) /\ v = Orphaned(b, c) /\ r = Both(Orphaned(a, c), Orphaned(b, c))
      /\ OthersStay(P, K, c)
  BY <1>1, WholeFacts DEF Both
<1>3. /\ u \in Seq(Replies) /\ v \in Seq(Requests)
      /\ f \in Seq(Msgs) /\ r \in Seq(Msgs) /\ Len(r) = Len(f)
      /\ \A i \in 1 .. Len(f) : Alike(f[i], r[i])
      /\ \A i \in 1 .. Len(r) :
            r[i].type \in {"get", "house", "newchar", "char"} => r[i].caller # c
  BY ONLY <1>2, c \in Names, OrphanLike
<1>4. Sound(r, R, M, I, B, P, L)
  BY ONLY <1>2, <1>3, P \in [Names -> States], LikeSound
<1>5. ASSUME up
      PROVE  LoadInv(r, loading)
  <2>1. LoadInv(f, list)
    BY <1>1, <1>5, WholeFacts
  <2>2. LoadInv(r, list)
    BY ONLY <1>3, <2>1, LikeLoads
  <2> QED BY ONLY <1>1, <2>2
<1>6. up => LoadInv(r, loading)
  BY <1>5
<1> QED BY ONLY <1>1, <1>3, <1>4, <1>6

LEMMA NoneNumber ==
    ASSUME Whole, NEW c \in Names, number' = [number EXCEPT ![c] = None]
    PROVE  number' \in [Names -> Slots \union {Town, None}]
BY WholeFacts

LEMMA HungUpWhole ==
    ASSUME Whole, NEW c \in Names, HungUp(c)
    PROVE  Whole'
<1>1. /\ up /\ at' = [at EXCEPT ![c] = Off] /\ number' = [number EXCEPT ![c] = None]
      /\ tele' = [tele EXCEPT ![c] = Nowhere] /\ rep' = Orphaned(rep, c)
      /\ req' = Orphaned(req, c) /\ bld' = Moved(bld, c, at[c], Off)
      /\ row' = row /\ made' = made /\ lastId' = lastId
      /\ loading' = loading /\ up' = up /\ left' = left
  BY DEF HungUp, Forget, dmVars
<1>2. at \in [Names -> States] /\ bld \in Bldgs /\ loading \in Seq(Names)
  BY WholeFacts DEF Typed
<1>3. at' \in [Names -> States] /\ \A d \in Names : d # c => at'[d] = at[d]
  BY <1>1, <1>2, StatesDiffer
<1>4. /\ rep' \in Seq(Replies) /\ req' \in Seq(Requests)
      /\ Sound(rep' \o req', row, made, lastId, bld, at', left)
      /\ up => LoadInv(rep' \o req', loading)
  <2>1. rep' = Orphaned(rep, c) /\ req' = Orphaned(req, c)
    BY <1>1
  <2>2. PICK u, v, P : u = rep' /\ v = req' /\ P = at'
    OBVIOUS
  <2>3. /\ P \in [Names -> States] /\ OthersStay(P, at, c)
        /\ u = Orphaned(rep, c) /\ v = Orphaned(req, c)
    BY <1>3, <2>1, <2>2 DEF OthersStay
  <2>4. /\ u \in Seq(Replies) /\ v \in Seq(Requests) /\ u \o v \in Seq(Msgs)
        /\ Sound(u \o v, row, made, lastId, bld, P, left)
        /\ up => LoadInv(u \o v, loading)
    BY ONLY Whole, c \in Names, <2>3, Orphans
  <2> QED BY <2>2, <2>4
<1>5. bld' \in Bldgs /\ Delays(bld', bld)
  BY <1>1, <1>2, MovedDelays
<1>6. Sound(rep' \o req', row, made, lastId, bld', at', left)
  BY ONLY <1>4, <1>5, DelaysSound
<1>7. /\ number' \in [Names -> Slots \union {Town, None}]
      /\ tele' \in [Names -> [num : Slots \union {Town, None}, owner : Names \union {None}]]
  BY <1>1, NoneNumber, NowhereTele
<1>8. Good(rep', req', row', made', lastId', bld', at', left', loading', number', tele', up')
  BY <1>1, <1>2, <1>4, <1>6, <1>7, WholeFacts DEF Good
<1> QED BY <1>8, GoodNext

LEMMA DestroyWhole ==
    ASSUME Whole, NEW c \in Names, Destroy(c)
    PROVE  Whole'
<1> DEFINE m == [type |-> "delete", name |-> c]
           C == [s \in Slots |-> IF s \in Found(c) THEN NoBuilding ELSE bld[s]]
           P == [d \in Names |-> IF d = c THEN Off
                                 ELSE IF at[d] \in Found(c) THEN Lost ELSE at[d]]
           u == Orphaned(rep, c)
           v == Orphaned(req, c)
           r == u \o v
           q == Append(r, m)
<1>1. /\ up /\ Exists(c) /\ number' = [number EXCEPT ![c] = None]
      /\ tele' = [tele EXCEPT ![c] = Nowhere] /\ rep' = u /\ req' = Append(v, m)
      /\ bld' = C /\ at' = P /\ row' = row /\ made' = made /\ lastId' = lastId
      /\ loading' = loading /\ up' = up /\ left' = left
  BY DEF Destroy, dmVars
<1>2. /\ at \in [Names -> States] /\ bld \in Bldgs /\ loading \in Seq(Names)
      /\ row \in [Names -> [id : 0 .. MaxId, data : Data]]
      /\ rep \in Seq(Replies) /\ req \in Seq(Requests) /\ Flight = rep \o req
      /\ Flight \in Seq(Msgs)
  BY WholeFacts DEF Typed
<1>3. P \in [Names -> States] /\ OthersStay(P, at, c)
  BY <1>2, StatesDiffer DEF Found, OthersStay
<1>4. C \in Bldgs /\ \A s \in Slots : C[s] = IF bld[s].owner = c THEN NoBuilding ELSE bld[s]
  <2>1. NoBuilding \in Bldg
    BY HouseConstants DEF NoBuilding, Bldg
  <2> QED BY <1>2, <2>1 DEF Found, Bldgs, Bldg
<1>5. m \in NameMsgs /\ m \in Requests /\ m \in Msgs /\ m.type = "delete" /\ m.name = c
  BY DEF NameMsgs, Requests, Msgs
<1>6. c \in made /\ \A i \in 1 .. Len(req) : req[i] # m
  BY <1>1 DEF Exists
<1> HIDE DEF m, C, P, u, v
<1>7. /\ u \in Seq(Replies) /\ v \in Seq(Requests) /\ r \in Seq(Msgs)
      /\ Sound(r, row, made, lastId, bld, P, left)
      /\ up => LoadInv(r, loading)
      /\ Len(r) = Len(Flight)
      /\ \A i \in 1 .. Len(Flight) : Alike(Flight[i], r[i])
      /\ \A i \in 1 .. Len(r) :
            r[i].type \in {"get", "house", "newchar", "char"} => r[i].caller # c
  <2>1. u = Orphaned(rep, c) /\ v = Orphaned(req, c)
    BY DEF u, v
  <2> QED BY ONLY Whole, c \in Names, <1>3, <2>1, Orphans
<1>8. \A i \in 1 .. Len(Flight) : Flight[i].type = "delete" => Flight[i].name # c
  <2>1. SUFFICES ASSUME NEW i \in 1 .. Len(Flight), Flight[i].type = "delete", Flight[i].name = c
                 PROVE  FALSE
    OBVIOUS
  <2>2. /\ Len(Flight) = Len(rep) + Len(req)
        /\ \A k \in 1 .. Len(Flight) :
              Flight[k] = IF k <= Len(rep) THEN rep[k] ELSE req[k - Len(rep)]
        /\ Len(rep) \in Nat /\ Len(req) \in Nat
    BY <1>2
  <2>3. CASE i <= Len(rep)
    <3>1. Flight[i] \in Replies
      BY <1>2, <2>2, <2>3
    <3> QED BY <2>1, <3>1 DEF Replies, HouseMsgs, CharMsgs
  <2>4. CASE ~(i <= Len(rep))
    <3>1. i - Len(rep) \in 1 .. Len(req) /\ Flight[i] = req[i - Len(rep)]
      BY <2>2, <2>4
    <3>2. Flight[i] \in Msgs
      BY <1>2
    <3>3. Flight[i] \in NameMsgs
      BY <2>1, <3>2, MsgFacts
    <3>4. Flight[i] = m
      BY <2>1, <3>3 DEF NameMsgs, m
    <3> QED BY <1>6, <3>1, <3>4
  <2> QED BY <2>3, <2>4
<1>9. \A i \in 1 .. Len(r) : r[i].type = "delete" => r[i].name # c
  BY <1>7, <1>8 DEF Alike
<1> HIDE DEF r
<1>10. \A i \in 1 .. Len(r) : r[i].name = c /\ Bears(r[i]) => r[i].type = "newhouse"
  <2>1. CallersInv(r, P)
    BY <1>7 DEF Sound
  <2> QED BY <1>7, <2>1 DEF CallersInv, Bears, Makes
<1>11. Sound(q, row, made, lastId, bld, P, left)
  <2>1. /\ ~Waits(m) /\ ~Makes(m) /\ ~Bears(m)
        /\ m.type \notin {"house", "write", "get", "newchar", "char", "newhouse"}
        /\ m.type = "delete" /\ m.name \in made /\ m \in Msgs
    BY <1>5, <1>6 DEF Waits, Makes, Bears
  <2>2. \A i \in 1 .. Len(r) : r[i].name = m.name =>
            r[i].type # "delete" /\ (Bears(r[i]) => r[i].type = "newhouse")
    BY <1>5, <1>9, <1>10
  <2>3. Sound(r, row, made, lastId, bld, P, left)
    BY <1>7
  <2> QED BY ONLY <2>1, <2>2, <2>3, SoundAdd
<1>12. /\ q \in Seq(Msgs) /\ Len(q) = Len(r) + 1 /\ Len(r) \in Nat
       /\ \A i \in 1 .. Len(r) : q[i] = r[i]
       /\ q[Len(r) + 1] = m
  BY <1>5, <1>7, AddFacts
<1> HIDE DEF q
<1>13. \A i \in 1 .. Len(q) : i > Len(r) => q[i] = m
  <2>1. \A i \in 1 .. Len(q) : i > Len(r) => i = Len(r) + 1
    BY <1>12
  <2> QED BY <1>12, <2>1
<1>14. ASSUME NEW s \in Slots, bld[s].owner = c
       PROVE  Doomed(q, C, row, c)
  <2>1. \A t \in Slots : ~IsHome(C[t], row, c)
    BY <1>4, HouseConstants DEF IsHome, NoBuilding
  <2>2. Len(q) \in 1 .. Len(q) /\ q[Len(q)].type = "delete" /\ q[Len(q)].name = c
    BY <1>5, <1>12
  <2>3. OneHouse(q, bld)
    BY <1>11 DEF Sound
  <2>4. \A j \in 1 .. Len(q) : q[j].name = c => q[j].type \notin {"get", "house"}
    BY <1>14, <2>3, HouseConstants, AskedIs DEF OneHouse
  <2> QED BY <2>1, <2>2, <2>4 DEF Doomed
<1>15. Sound(q, row, made, lastId, C, P, left)
  <2>1. \A s \in Slots : C[s] = bld[s] \/ C[s] = NoBuilding
    BY <1>4
  <2>2. \A s \in Slots : C[s] # bld[s] /\ bld[s].changed /\ bld[s].owner # None
                           /\ bld[s].id = row[bld[s].owner].id =>
            Saved(q, row, left, bld[s].owner) \/ Doomed(q, C, row, bld[s].owner)
    BY <1>4, <1>14
  <2>3. C \in Bldgs
    BY <1>4
  <2> QED BY ONLY <1>11, <2>1, <2>2, <2>3, SoundGone
<1>16. LoadInv(q, loading)
  <2>1. /\ q \in Seq(Msgs) /\ r \in Seq(Msgs) /\ Len(r) <= Len(q)
        /\ \A i \in 1 .. Len(r) : q[i] = r[i]
        /\ \A i \in 1 .. Len(q) : i > Len(r) => q[i].type \notin {"get", "house"}
        /\ LoadInv(r, loading)
    BY <1>1, <1>5, <1>7, <1>12, <1>13
  <2> QED BY ONLY <2>1, LoadMore
<1>17. rep' \o req' = q /\ req' \in Seq(Requests) /\ rep' \in Seq(Replies)
  <2>1. u \in Seq(Msgs) /\ v \in Seq(Msgs)
    <3>1. Replies \subseteq Msgs /\ Requests \subseteq Msgs
      BY DEF Msgs
    <3> QED BY <1>7, <3>1
  <2>2. u \o Append(v, m) = Append(u \o v, m)
    BY <1>5, <2>1, AppendLater
  <2>3. Append(v, m) \in Seq(Requests)
    BY <1>5, <1>7
  <2> QED BY <1>1, <1>7, <2>2, <2>3 DEF q, r
<1>18. /\ number' \in [Names -> Slots \union {Town, None}]
       /\ tele' \in [Names -> [num : Slots \union {Town, None}, owner : Names \union {None}]]
  BY <1>1, NoneNumber, NowhereTele
<1>19. Good(rep', req', row', made', lastId', bld', at', left', loading', number', tele', up')
  BY <1>1, <1>2, <1>15, <1>16, <1>17, <1>18, WholeFacts DEF Good
<1> QED BY <1>19, GoodNext

-----------------------------------------------------------------------------
(* The data manager takes a request.                                         *)

\* a request is taken, and answered
LEMMA TakeFacts ==
    ASSUME NEW a \in Seq(Replies), NEW b \in Seq(Requests), b # <<>>,
           NEW f, f = Both(a, b), NEW p, p = Len(a) + 1
    PROVE  /\ f \in Seq(Msgs) /\ First(f, p) /\ f[p] = Head(b) /\ Head(b) \in Requests
           /\ Tail(b) \in Seq(Requests) /\ Both(a, Tail(b)) \in Seq(Msgs)
           /\ DropAt(Both(a, Tail(b)), f, p)
<1>1. a \in Seq(Msgs) /\ b \in Seq(Msgs) /\ Tail(b) \in Seq(Requests) /\ Head(b) \in Requests
  BY DEF Msgs
<1>2. /\ f \in Seq(Msgs) /\ Both(a, Tail(b)) \in Seq(Msgs)
      /\ DropAt(Both(a, Tail(b)), f, p) /\ f[p] = Head(b)
  BY <1>1, DropLater DEF Both
<1>3. First(f, p)
  <2>1. /\ Len(f) = Len(a) + Len(b) /\ Len(a) \in Nat /\ Len(b) \in Nat
        /\ \A i \in 1 .. Len(a) + Len(b) : f[i] = IF i <= Len(a) THEN a[i] ELSE b[i - Len(a)]
    BY <1>1, ConcatProperties DEF Both
  <2>2. p \in 1 .. Len(f)
    BY <1>2 DEF DropAt
  <2>3. ASSUME NEW i \in 1 .. Len(f)
        PROVE  /\ i < p => f[i].type \in {"house", "char"}
               /\ i >= p => f[i].type \in {"get", "write", "newchar", "newhouse", "delete"}
    <3>1. CASE i < p
      <4>1. i \in 1 .. Len(a) /\ f[i] = a[i]
        BY <2>1, <3>1
      <4>2. f[i] \in Replies
        BY <4>1
      <4>3. f[i] \in Msgs
        BY <4>2 DEF Msgs
      <4>4. f[i].type \in {"house", "char"}
        BY <4>2, <4>3, MsgFacts
      <4> QED BY <2>1, <3>1, <4>4
    <3>2. CASE i >= p
      <4>1. i - Len(a) \in 1 .. Len(b) /\ f[i] = b[i - Len(a)]
        BY <2>1, <3>2
      <4>2. f[i] \in Requests
        BY <4>1
      <4>3. f[i] \in Msgs
        BY <4>2 DEF Msgs
      <4>4. f[i].type \in {"get", "write", "newchar", "newhouse", "delete"}
        BY <4>2, <4>3, MsgFacts
      <4> QED BY <2>1, <3>2, <4>4
    <3> QED BY <2>1, <3>1, <3>2
  <2> QED BY <2>2, <2>3 DEF First
<1> QED BY <1>1, <1>2, <1>3

LEMMA AnswerFacts ==
    ASSUME NEW a \in Seq(Replies), NEW b \in Seq(Requests), b # <<>>,
           NEW f, f = Both(a, b), NEW h \in Replies, NEW p, p = Len(a) + 1
    PROVE  /\ Append(a, h) \in Seq(Replies) /\ Both(Append(a, h), Tail(b)) \in Seq(Msgs)
           /\ PutAt(Both(Append(a, h), Tail(b)), f, p, h)
<1>1. a \in Seq(Msgs) /\ b \in Seq(Msgs) /\ h \in Msgs
  BY DEF Msgs
<1>2. /\ Both(Append(a, h), Tail(b)) \in Seq(Msgs)
      /\ PutAt(Both(Append(a, h), Tail(b)), f, p, h)
  BY <1>1, PutLater DEF Both
<1> QED BY <1>2

\* a request goes that asks for no house
LEMMA DropLoads ==
    ASSUME NEW f \in Seq(Msgs), NEW r \in Seq(Msgs), NEW p, DropAt(r, f, p),
           f[p].type \notin {"get", "house"}, NEW list, LoadInv(f, list)
    PROVE  LoadInv(r, list)
<1>1. /\ Embeds(Later(p, Len(r)), r, f)
      /\ \A k \in 1 .. Len(f) : k # p => \E i \in 1 .. Len(r) : Later(p, Len(r))[i] = k
  BY DropEmbeds
<1>2. \A k \in AskedIn(f) : k \in 1 .. Len(f) /\ k # p
  BY AskedIs
<1>3. \A k \in AskedIn(f) : \E i \in 1 .. Len(r) : Later(p, Len(r))[i] = k
  BY <1>1, <1>2
<1> QED BY <1>1, <1>3, LoadEmbeds

\* a request goes that writes and deletes nothing
LEMMA DropSound ==
    ASSUME NEW f \in Seq(Msgs), NEW r \in Seq(Msgs), NEW p, DropAt(r, f, p),
           f[p].type \notin {"write", "delete"},
           NEW R, NEW M, NEW I, NEW B, NEW P, NEW L, Sound(f, R, M, I, B, P, L)
    PROVE  Sound(r, R, M, I, B, P, L)
<1>1. /\ Embeds(Later(p, Len(r)), r, f)
      /\ \A k \in 1 .. Len(f) : k # p => \E i \in 1 .. Len(r) : Later(p, Len(r))[i] = k
  BY DropEmbeds
<1>2. \A k \in 1 .. Len(f) : f[k].type \in {"write", "delete"} =>
          \E i \in 1 .. Len(r) : Later(p, Len(r))[i] = k
  BY <1>1
<1> QED BY <1>1, <1>2, SoundEmbeds

RowWritten(R, m) == IF R[m.name].id = m.id THEN [R EXCEPT ![m.name].data = m.data] ELSE R

LEMMA RowSound ==
    ASSUME NEW q, NEW p, First(q, p), q[p].type = "write", NEW r \in Seq(Msgs), DropAt(r, q, p),
           NEW R, NEW M, NEW I, NEW B, NEW P, NEW L, Sound(q, R, M, I, B, P, L),
           NEW S, S = RowWritten(R, q[p])
    PROVE  Sound(r, S, M, I, B, P, L)
<1>1. S = IF R[q[p].name].id = q[p].id THEN [R EXCEPT ![q[p].name].data = q[p].data] ELSE R
  BY DEF RowWritten
<1> QED BY <1>1, SoundRow

Answers(h, m, R) ==
    /\ h.type = "house" /\ h.name = m.name /\ h.caller = m.caller /\ h.callback = m.callback
    /\ h.ok <=> R[h.name].id # 0
    /\ h.id = R[h.name].id /\ h.data = R[h.name].data

LEMMA GetSound ==
    ASSUME NEW q, NEW p, First(q, p), q[p].type = "get",
           NEW R, NEW M, NEW I, NEW B, NEW P, NEW L, Sound(q, R, M, I, B, P, L),
           NEW h \in Msgs, Answers(h, q[p], R), NEW r \in Seq(Msgs), PutAt(r, q, p, h)
    PROVE  Sound(r, R, M, I, B, P, L)
BY SoundGet DEF Answers

\* what the list of houses says, while the server runs; it has no replies before
Listed(on, q, list) == on => LoadInv(q, list)
Quieted(on, q)      == ~on => q = <<>>
ServerStays         == UNCHANGED <<bld, loading, charVars, up, left>>

LEMMA Taken ==
    ASSUME Whole, ServerStays, NEW u, u = rep', NEW v, v = req', NEW r, r = Both(u, v),
           u \in Seq(Replies), v \in Seq(Requests), Quieted(up, u),
           Sound(r, row', made', lastId', bld, at, left), Listed(up, r, loading)
    PROVE  Whole'
<1>1. Good(rep', req', row', made', lastId', bld', at', left', loading', number', tele', up')
  BY DEF Whole, Good, charVars, Both, ServerStays, Listed, Quieted
<1> QED BY <1>1, GoodNext

LEMMA DmReceiveWhole ==
    ASSUME Whole, DmReceive
    PROVE  Whole'
<1>1. PICK f, a, b, R, M, I, B, P, L, p, list :
        /\ f = Flight /\ a = rep /\ b = req /\ R = row /\ M = made /\ I = lastId
        /\ B = bld /\ P = at /\ L = left /\ p = Len(rep) + 1 /\ list = loading
  OBVIOUS
<1>2. /\ a \in Seq(Replies) /\ b \in Seq(Requests) /\ f = Both(a, b) /\ Sound(f, R, M, I, B, P, L)
      /\ b # <<>> /\ p = Len(a) + 1
  BY <1>1, WholeFacts DEF Both, DmReceive
<1> DEFINE m == Head(b)
           r == Both(a, Tail(b))
<1>3. /\ f \in Seq(Msgs) /\ First(f, p) /\ f[p] = m /\ m \in Requests
      /\ Tail(b) \in Seq(Requests) /\ r \in Seq(Msgs) /\ DropAt(r, f, p)
  BY ONLY <1>2, TakeFacts
<1>4. /\ req' = Tail(b) /\ ServerStays
      /\ up => LoadInv(f, list)
  BY <1>1, WholeFacts DEF DmReceive, ServerStays
<1>5. /\ R \in [Names -> [id : 0 .. MaxId, data : Data]] /\ M \subseteq Names
      /\ I \in [Names -> 0 .. MaxId] /\ Quieted(up, rep)
  BY <1>1, WholeFacts DEF Typed, Whole, Good, Quieted
<1>6. \/ m.type = "get" /\ up /\ DmGet(m)
      \/ m.type = "get" /\ ~up /\ UNCHANGED <<dmVars, rep>>
      \/ m.type = "write" /\ DmWrite(m)
      \/ m.type = "newchar" /\ DmNewChar(m)
      \/ m.type = "newhouse" /\ DmNewHouse(m)
      \/ m.type = "delete" /\ DmDelete(m)
  BY <1>1 DEF DmReceive
<1>7. m \in Msgs
  BY <1>3 DEF Msgs
<1> HIDE DEF m, r
\* it does not answer
<1>8. ASSUME rep' = rep, Listed(up, r, list), Sound(r, row', made', lastId', B, P, L)
      PROVE  Whole'
  <2>1. PICK u, v : u = rep' /\ v = req'
    OBVIOUS
  <2>2. r = Both(u, v) /\ u = a /\ v = Tail(b)
    BY <1>1, <1>4, <1>8, <2>1 DEF r
  <2>3. Sound(r, row', made', lastId', bld, at, left) /\ Listed(up, r, loading)
    BY ONLY <1>1, <1>8
  <2>4. u \in Seq(Replies) /\ v \in Seq(Requests) /\ Quieted(up, u)
    BY ONLY <1>1, <1>2, <1>3, <1>5, <2>2
  <2> QED BY ONLY Whole, <1>4, <2>1, <2>2, <2>3, <2>4, Taken
\* it answers
<1>9. ASSUME NEW h \in Replies, up, rep' = Append(rep, h), m.name = h.name,
             m.type \in {"get", "house"} <=> h.type \in {"get", "house"},
             NEW s, s = Both(Append(a, h), Tail(b)),
             s \in Seq(Msgs) /\ PutAt(s, f, p, h) => Sound(s, row', made', lastId', B, P, L)
      PROVE  Whole'
  <2>1. Append(a, h) \in Seq(Replies) /\ s \in Seq(Msgs) /\ PutAt(s, f, p, h)
    BY ONLY <1>2, <1>9, AnswerFacts
  <2>2. LoadInv(f, list)
    BY <1>4, <1>9
  <2>3. h.type \in {"get", "house"} <=> f[p].type \in {"get", "house"}
    BY <1>3, <1>9
  <2>4. h.name = f[p].name
    BY <1>3, <1>9
  <2>5. LoadInv(s, list)
    BY ONLY <1>3, <2>1, <2>2, <2>3, <2>4, LoadPut
  <2>6. PICK u, v : u = rep' /\ v = req'
    OBVIOUS
  <2>7. s = Both(u, v) /\ u = Append(a, h) /\ v = Tail(b)
    BY <1>1, <1>4, <1>9, <2>6
  <2>8. Sound(s, row', made', lastId', bld, at, left) /\ Listed(up, s, loading)
    BY <1>1, <1>9, <2>1, <2>5 DEF Listed
  <2>9. u \in Seq(Replies) /\ v \in Seq(Requests) /\ Quieted(up, u)
    BY <1>3, <1>9, <2>1, <2>7 DEF Quieted
  <2> QED BY ONLY Whole, <1>4, <2>6, <2>7, <2>8, <2>9, Taken
<1>10. CASE m.type = "get" /\ up /\ DmGet(m)
  <2> DEFINE h == [type |-> "house", name |-> m.name, caller |-> m.caller,
                   callback |-> m.callback, ok |-> R[m.name].id # 0, id |-> R[m.name].id,
                   data |-> R[m.name].data]
             s == Both(Append(a, h), Tail(b))
  <2>1. /\ rep' = Append(rep, h) /\ row' = R /\ made' = M /\ lastId' = I
    BY <1>1, <1>10 DEF DmGet, dmVars
  <2>2. m \in GetMsgs
    BY <1>7, <1>10, MsgFacts
  <2>3. /\ h \in HouseMsgs /\ h.type = "house" /\ h.name = m.name /\ h.caller = m.caller
        /\ h.callback = m.callback /\ (h.ok <=> R[h.name].id # 0) /\ h.id = R[h.name].id
        /\ h.data = R[h.name].data
    BY <1>5, <2>2 DEF GetMsgs, HouseMsgs
  <2> HIDE DEF h
  <2>4. h \in Replies /\ h \in Msgs
    BY <2>3 DEF Replies, Msgs
  <2>5. ASSUME s \in Seq(Msgs), PutAt(s, f, p, h)
        PROVE  Sound(s, R, M, I, B, P, L)
    <3>1. f[p].type = "get"
      BY <1>3, <1>10
    <3>2. Answers(h, m, R)
      BY ONLY <2>3 DEF Answers
    <3>3. Answers(h, f[p], R)
      BY ONLY <1>3, <3>2
    <3> HIDE DEF s
    <3> QED BY ONLY <1>2, <1>3, <2>4, <2>5, <3>1, <3>3, GetSound
  <2> HIDE DEF s
  <2>6. /\ m.name = h.name /\ (m.type \in {"get", "house"} <=> h.type \in {"get", "house"})
        /\ s \in Seq(Msgs) /\ PutAt(s, f, p, h) => Sound(s, row', made', lastId', B, P, L)
    BY <1>10, <2>1, <2>3, <2>5
  <2>7. s = Both(Append(a, h), Tail(b))
    BY DEF s
  <2> QED BY ONLY <1>9, <1>10, <2>1, <2>4, <2>6, <2>7
<1>11. CASE m.type = "get" /\ ~up /\ UNCHANGED <<dmVars, rep>>
  <2>1. f[p].type \notin {"write", "delete"}
    BY <1>3, <1>11
  <2>2. Sound(r, R, M, I, B, P, L)
    BY ONLY <1>2, <1>3, <2>1, DropSound
  <2>3. Listed(up, r, list) /\ row' = R /\ made' = M /\ lastId' = I /\ rep' = rep
    BY <1>1, <1>11 DEF dmVars, Listed
  <2> QED BY <1>8, <2>2, <2>3
<1>12. ASSUME m.type \notin {"get", "house"}
       PROVE  Listed(up, r, list)
  <2>1. f[p].type \notin {"get", "house"}
    BY <1>3, <1>12
  <2>2. ASSUME LoadInv(f, list)
        PROVE  LoadInv(r, list)
    BY ONLY <1>3, <2>1, <2>2, DropLoads
  <2> QED BY <1>4, <2>2 DEF Listed
<1>13. CASE m.type = "write" /\ DmWrite(m)
  <2>1. /\ row' = RowWritten(R, f[p])
        /\ made' = M /\ lastId' = I /\ rep' = rep /\ f[p].type = "write"
    BY <1>1, <1>3, <1>13 DEF DmWrite, RowWritten
  <2>2. PICK S : S = row'
    OBVIOUS
  <2>3. S = RowWritten(R, f[p]) /\ f[p].type = "write"
    BY <2>1, <2>2
  <2>4. Sound(r, S, M, I, B, P, L)
    BY ONLY <1>2, <1>3, <2>3, RowSound
  <2> QED BY <1>8, <1>12, <1>13, <2>1, <2>2, <2>4
<1>14. CASE m.type = "newchar" /\ DmNewChar(m) /\ up
  <2> DEFINE h == [type |-> "char", name |-> m.name, caller |-> m.caller, ok |-> m.name \notin M]
             s == Both(Append(a, h), Tail(b))
  <2>1. /\ rep' = Append(rep, h) /\ row' = R /\ made' = M \union {m.name} /\ lastId' = I
    BY <1>1, <1>14 DEF DmNewChar
  <2>2. m \in NewCharMsgs
    BY <1>7, <1>14, MsgFacts
  <2>3. /\ h \in CharMsgs /\ h.type = "char" /\ h.name = m.name /\ h.caller = m.caller
        /\ h.ok <=> h.name \notin M
    BY <2>2 DEF NewCharMsgs, CharMsgs
  <2> HIDE DEF h
  <2>4. h \in Replies /\ h \in Msgs
    BY <2>3 DEF Replies, Msgs
  <2>5. ASSUME s \in Seq(Msgs), PutAt(s, f, p, h)
        PROVE  Sound(s, R, M \union {h.name}, I, B, P, L)
    <3>1. /\ h.name = f[p].name /\ h.caller = f[p].caller /\ f[p].type = "newchar"
      BY <1>3, <1>14, <2>3
    <3> HIDE DEF s
    <3> QED BY ONLY <1>2, <1>3, <2>3, <2>4, <2>5, <3>1, SoundAnswer
  <2> HIDE DEF s
  <2>6. /\ m.name = h.name /\ (m.type \in {"get", "house"} <=> h.type \in {"get", "house"})
        /\ s \in Seq(Msgs) /\ PutAt(s, f, p, h) => Sound(s, row', made', lastId', B, P, L)
    BY <1>14, <2>1, <2>3, <2>5
  <2>7. s = Both(Append(a, h), Tail(b))
    BY DEF s
  <2> QED BY ONLY <1>9, <1>14, <2>1, <2>4, <2>6, <2>7
<1>15. CASE m.type = "newchar" /\ DmNewChar(m) /\ ~up
  <2>1. /\ row' = R /\ made' = M \union {m.name} /\ lastId' = I /\ rep' = rep
        /\ f[p].type \notin {"write", "delete"} /\ m.name \in Names
    BY <1>1, <1>3, <1>7, <1>15, MsgFacts DEF DmNewChar
  <2>2. Sound(r, R, M, I, B, P, L)
    BY ONLY <1>2, <1>3, <2>1, DropSound
  <2>3. Sound(r, R, M \union {m.name}, I, B, P, L)
    BY <2>1, <2>2, SoundMade
  <2>4. Listed(up, r, list) /\ rep' = rep
    BY <1>12, <1>15, <2>1
  <2>5. Sound(r, row', made', lastId', B, P, L)
    BY <2>1, <2>3
  <2> QED BY ONLY <1>8, <2>4, <2>5
<1>16. CASE m.type = "newhouse" /\ DmNewHouse(m)
  <2>1. /\ lastId' = Newer(I, f[p].name) /\ row' = RowBorn(R, lastId', f[p].name)
        /\ made' = M /\ rep' = rep /\ f[p].type = "newhouse"
    BY <1>1, <1>3, <1>16 DEF DmNewHouse, Newer, RowBorn
  <2>2. PICK J, S : J = lastId' /\ S = row'
    OBVIOUS
  <2>3. /\ J = Newer(I, f[p].name) /\ S = RowBorn(R, J, f[p].name)
        /\ f[p].type = "newhouse"
    BY <2>1, <2>2
  <2>4. Sound(r, S, M, J, B, P, L)
    BY ONLY <1>2, <1>3, <2>3, SoundNew
  <2> QED BY <1>8, <1>12, <1>16, <2>1, <2>2, <2>4
<1>17. CASE m.type = "delete" /\ DmDelete(m)
  <2>1. /\ made' = M \ {f[p].name}
        /\ row' = [R EXCEPT ![f[p].name] = [id |-> 0, data |-> NewHouse]]
        /\ lastId' = I /\ rep' = rep /\ f[p].type = "delete"
    BY <1>1, <1>3, <1>17 DEF DmDelete
  <2>2. PICK S : S = row'
    OBVIOUS
  <2>3. S = [R EXCEPT ![f[p].name] = [id |-> 0, data |-> NewHouse]] /\ f[p].type = "delete"
    BY <2>1, <2>2
  <2>4. Sound(r, S, M \ {f[p].name}, I, B, P, L)
    BY ONLY <1>2, <1>3, <2>3, SoundDelete
  <2> QED BY <1>8, <1>12, <1>17, <2>1, <2>2, <2>4
<1> QED BY <1>6, <1>10, <1>11, <1>13, <1>14, <1>15, <1>16, <1>17

-----------------------------------------------------------------------------
(* The game server takes a reply, the first of the messages.                 *)

LEMMA ReplyFacts ==
    ASSUME NEW a \in Seq(Replies), NEW b \in Seq(Requests), a # <<>>, NEW f, f = Both(a, b)
    PROVE  /\ f \in Seq(Msgs) /\ f[1] = Head(a) /\ Head(a) \in Replies /\ Head(a) \in Msgs
           /\ Tail(a) \in Seq(Replies) /\ Both(Tail(a), b) \in Seq(Msgs)
           /\ DropAt(Both(Tail(a), b), f, 1)
<1>1. a \in Seq(Msgs) /\ b \in Seq(Msgs) /\ Tail(a) \in Seq(Replies) /\ Head(a) \in Replies
  BY DEF Msgs
<1> QED BY <1>1, DropFirst DEF Both

\* the messages behind the first one
LEMMA Behind ==
    ASSUME NEW f \in Seq(Msgs), NEW r \in Seq(Msgs), DropAt(r, f, 1), NEW i \in 1 .. Len(r)
    PROVE  i + 1 \in 1 .. Len(f) /\ r[i] = f[i + 1] /\ i + 1 # 1 /\ 1 \in 1 .. Len(f)
BY DEF DropAt

LEMMA NoneAsked ==
    ASSUME NEW f \in Seq(Msgs), NEW r \in Seq(Msgs), DropAt(r, f, 1),
           f[1].type = "house", NEW list, LoadInv(f, list)
    PROVE  \A i \in AskedIn(r) : r[i].name # f[1].name
<1> SUFFICES ASSUME NEW i \in AskedIn(r), r[i].name = f[1].name PROVE FALSE
  OBVIOUS
<1>1. i \in 1 .. Len(r) /\ r[i].type \in {"get", "house"}
  BY AskedIs
<1>2. i + 1 \in 1 .. Len(f) /\ r[i] = f[i + 1] /\ i + 1 # 1 /\ 1 \in 1 .. Len(f)
  BY <1>1, Behind
<1>3. i + 1 \in AskedIn(f) /\ 1 \in AskedIn(f)
  BY <1>1, <1>2, AskedIs
<1>4. PICK k : k = i + 1
  OBVIOUS
<1>5. k \in AskedIn(f) /\ 1 \in AskedIn(f) /\ f[k].name = f[1].name /\ k # 1
  BY <1>2, <1>3, <1>4
<1> QED BY <1>5, AskedOnce

\* a house that has been asked for is put into a slot that is free
LEMMA LoadedSound ==
    ASSUME NEW f, NEW r \in Seq(Msgs), DropAt(r, f, 1), NEW m, m = f[1], m.type = "house", m.ok,
           NEW R, NEW M, NEW I, NEW B, NEW P, NEW L, Sound(f, R, M, I, B, P, L),
           NEW list, LoadInv(f, list),
           NEW s \in Slots, B[s].owner = None, NEW b \in Bldg, b.owner = m.name, b.id = m.id,
           b.data = m.data \/ b.changed = TRUE,
           NEW C, C = Put(B, s, b), NEW K, K = Recall(L, R, b, m.data)
    PROVE  C \in Bldgs /\ Sound(r, R, M, I, C, P, K)
<1>1. /\ f \in Seq(Msgs) /\ B \in Bldgs /\ IdsInv(f, R, I, B) /\ ReplyInv(f, R, L)
      /\ OneHouse(f, B) /\ SavedInv(f, B, R, L)
  BY DEF Sound, Typed
<1>2. 1 \in 1 .. Len(f) /\ m \in Msgs /\ 1 \in AskedIn(f)
  BY <1>1, AskedIs DEF DropAt
<1>3. m.name \in Names /\ m.id \in 0 .. MaxId
  BY <1>2, MsgFacts DEF HouseMsgs
<1>4. C \in Bldgs
  BY <1>1, PutBldg
<1>5. Sound(r, R, M, I, B, P, L)
  <2>1. f[1].type \notin {"write", "delete"}
    OBVIOUS
  <2>2. Sound(f, R, M, I, B, P, L) /\ r \in Seq(Msgs) /\ DropAt(r, f, 1)
    OBVIOUS
  <2> QED BY ONLY <1>1, <2>1, <2>2, DropSound
<1>6. 0 < b.id /\ b.id <= I[b.owner] /\ b.owner \in Names /\ m.id # 0
  BY <1>1, <1>2, <1>3, HouseConstants DEF IdsInv
<1>7. b.id = R[b.owner].id => m.data = L[b.owner]
  BY <1>1, <1>2, <1>6 DEF ReplyInv
<1>8. \A t \in Slots : B[t].owner # b.owner
  BY <1>1, <1>2, <1>3, HouseConstants DEF OneHouse
<1>9. \A i \in AskedIn(r) : r[i].name # b.owner
  BY <1>1, NoneAsked
<1>10. ASSUME Doomed(r, B, R, b.owner), b.id = R[b.owner].id
       PROVE  Saved(r, R, L, b.owner)
  <2> PICK n : n = b.owner
    OBVIOUS
  <2>1. n \in Names /\ R[n].id # 0
    BY <1>6, <1>10
  <2>2. ~Unsaved(B, R, n)
    BY <1>8 DEF Unsaved, IsHome
  <2>3. ~Doomed(f, B, R, n)
    BY <1>2, <1>10 DEF Doomed
  <2>4. Saved(f, R, L, n)
    BY <1>1, <2>1, <2>2, <2>3 DEF SavedInv
  <2>5. /\ Embeds(Later(1, Len(r)), r, f)
        /\ \A k \in 1 .. Len(f) : k # 1 => \E i \in 1 .. Len(r) : Later(1, Len(r))[i] = k
    BY <1>1, DropEmbeds
  <2>6. \A k \in 1 .. Len(f) :
           HomeWrite(f[k], R, n) \/ (f[k].type = "delete" /\ f[k].name = n)
              => \E i \in 1 .. Len(r) : Later(1, Len(r))[i] = k
    BY <2>5 DEF HomeWrite
  <2>7. Saved(r, R, L, n)
    BY ONLY <1>1, <2>4, <2>5, <2>6, r \in Seq(Msgs), SavedEmbeds
  <2> QED BY <2>7
<1>11. PICK was : was = m.data
  OBVIOUS
<1>12. /\ b.data # was => b.changed
       /\ b.id = R[b.owner].id => was = L[b.owner]
       /\ K = Recall(L, R, b, was) /\ C = Put(B, s, b) /\ s \in Slots
       /\ \A t \in Slots : t # s => B[t].owner # b.owner
       /\ \/ B[s].owner = None
          \/ b.owner = B[s].owner /\ b.id = B[s].id /\ (B[s].changed => b.changed)
       /\ Doomed(r, B, R, b.owner) /\ b.id = R[b.owner].id => Saved(r, R, L, b.owner)
  BY <1>7, <1>8, <1>10, <1>11
<1>13. Sound(r, R, M, I, C, P, K)
  BY ONLY <1>4, <1>5, <1>6, <1>9, <1>12, SoundPut
<1> QED BY <1>4, <1>13

\* who has waited for a house goes to another place
LEMMA AnsweredGoes ==
    ASSUME NEW f, NEW r \in Seq(Msgs), DropAt(r, f, 1), NEW m, m = f[1],
           NEW list, LoadInv(f, list),
           NEW R, NEW M, NEW I, NEW B, NEW P, NEW L, Sound(f, R, M, I, B, P, L),
           NEW C, NEW K, Sound(r, R, M, I, C, P, K),
           (m.type = "house" /\ Waits(m)) \/ Makes(m), NEW p \in States, NEW Q, Q = Go(P, m.caller, p)
    PROVE  Sound(r, R, M, I, C, Q, K) /\ m.caller = m.name /\ m.name \in Names
<1>1. f \in Seq(Msgs) /\ P \in [Names -> States] /\ CallersInv(f, P)
  BY DEF Sound, Typed
<1>2. 1 \in 1 .. Len(f) /\ m \in Msgs
  BY <1>1 DEF DropAt
<1>3. m.name \in Names
  BY <1>2, MsgFacts
<1>4. /\ Waits(m) => m.caller = m.name /\ P[m.name] = Waiting
      /\ Makes(m) => m.caller = m.name /\ P[m.name] = Making
  BY <1>1, <1>2 DEF CallersInv
<1>5. Q \in [Names -> States] /\ \A d \in Names : d # m.name => Q[d] = P[d]
  BY <1>1, <1>3, <1>4 DEF Go
<1>6. ASSUME NEW i \in 1 .. Len(r), Waits(r[i]) \/ Makes(r[i])
      PROVE  r[i].name # m.name
  <2>1. i + 1 \in 1 .. Len(f) /\ r[i] = f[i + 1] /\ i + 1 # 1
    BY <1>1, Behind
  <2>2. /\ Waits(r[i]) => P[r[i].name] = Waiting
        /\ Makes(r[i]) => P[r[i].name] = Making
    BY <1>1, <2>1 DEF CallersInv
  <2>3. CASE Makes(m)
    <3>1. Makes(r[i]) => r[i].name # m.name
      BY <1>1, <1>2, <2>1, <2>3 DEF CallersInv
    <3> QED BY <1>4, <1>6, <2>2, <2>3, <3>1, StatesDiffer
  <2>4. CASE m.type = "house" /\ Waits(m)
    <3>1. Makes(r[i]) => r[i].name # m.name
      BY <1>4, <2>2, <2>4, StatesDiffer
    <3>2. Waits(r[i]) => i \in AskedIn(r)
      BY AskedIs DEF Waits
    <3>3. Waits(r[i]) => r[i].name # m.name
      BY <1>1, <2>4, <3>2, NoneAsked
    <3> QED BY <1>6, <3>1, <3>3
  <2> QED BY <2>3, <2>4
<1>7. \A i \in 1 .. Len(r) : r[i].name \in Names
  <2>1. \A i \in 1 .. Len(r) : r[i] \in Msgs
    OBVIOUS
  <2> QED BY <2>1, MsgFacts
<1>8. \A i \in 1 .. Len(r) : Waits(r[i]) \/ Makes(r[i]) => Q[r[i].name] = P[r[i].name]
  BY <1>5, <1>6, <1>7
<1>9. Sound(r, R, M, I, C, P, K)
  OBVIOUS
<1>10. Sound(r, R, M, I, C, Q, K)
  BY ONLY <1>5, <1>8, <1>9, SoundPlace
<1> QED BY <1>3, <1>4, <1>10

\* the house of a new character is written
EmptyLeft(L, n) == [L EXCEPT ![n] = NewHouse]

LEMMA BornSound ==
    ASSUME NEW f, NEW r \in Seq(Msgs), DropAt(r, f, 1), NEW m, m = f[1], m.type = "char", Bears(m),
           NEW R, NEW M, NEW I, NEW B, NEW P, NEW L, Sound(f, R, M, I, B, P, L),
           NEW Q, Sound(r, R, M, I, B, Q, L),
           NEW o \in Msgs, o.type = "newhouse", o.name = m.name, NEW K, K = EmptyLeft(L, m.name)
    PROVE  Sound(Append(r, o), R, M, I, B, Q, K)
<1>1. /\ f \in Seq(Msgs) /\ BirthInv(f, R, M, L) /\ BoundInv(f, I) /\ L \in [Names -> Data]
      /\ I \in [Names -> 0 .. MaxId]
  BY DEF Sound, Typed
<1>2. 1 \in 1 .. Len(f) /\ m \in Msgs
  BY <1>1 DEF DropAt
<1>3. m.name \in Names
  BY <1>2, MsgFacts
<1>4. m.name \in M /\ R[m.name].id = 0
  BY <1>1, <1>2 DEF BirthInv
<1>5. Sound(r, R, M, I, B, Q, K)
  BY <1>3, <1>4, SoundLeft DEF EmptyLeft
<1>6. K[o.name] = NewHouse
  BY <1>1, <1>3 DEF EmptyLeft
<1>7. \A i \in 1 .. Len(r) : Bears(r[i]) \/ r[i].type = "delete" => r[i].name # o.name
  <2> SUFFICES ASSUME NEW i \in 1 .. Len(r), Bears(r[i]) \/ r[i].type = "delete",
                      r[i].name = m.name
               PROVE  FALSE
    OBVIOUS
  <2>1. i + 1 \in 1 .. Len(f) /\ r[i] = f[i + 1] /\ i + 1 # 1
    BY <1>1, Behind
  <2>2. PICK k : k = i + 1
    OBVIOUS
  <2>3. k \in 1 .. Len(f) /\ r[i] = f[k] /\ k # 1
    BY <2>1, <2>2
  <2>4. ~Bears(f[k])
    BY <1>1, <1>2, <2>3 DEF BirthInv
  <2>5. f[k].type # "delete"
    BY <1>1, <1>2, <2>3 DEF BirthInv
  <2> QED BY <2>3, <2>4, <2>5
<1>8. I[o.name] + Cardinality(UnbornIn(r, o.name)) < MaxId
  <2> PICK n : n = o.name
    OBVIOUS
  <2>1. 1 \in UnbornIn(f, n)
    BY <1>2 DEF UnbornIn
  <2>2. /\ Embeds(Later(1, Len(r)), r, f)
        /\ \A i \in 1 .. Len(r) : Later(1, Len(r))[i] # 1
    BY <1>1, DropEmbeds
  <2>3. Cardinality(UnbornIn(r, n)) + 1 <= Cardinality(UnbornIn(f, n))
    BY ONLY <1>1, <2>1, <2>2, r \in Seq(Msgs), UnbornEmbeds
  <2>4. Cardinality(UnbornIn(r, n)) \in Nat /\ Cardinality(UnbornIn(f, n)) \in Nat
    BY <1>1, UnbornFinite
  <2>5. I[n] + Cardinality(UnbornIn(f, n)) <= MaxId /\ I[n] \in Nat /\ MaxId \in Nat
    BY <1>1, <1>3, HouseConstants DEF BoundInv
  <2> HIDE DEF UnbornIn
  <2> QED BY <2>3, <2>4, <2>5
<1>9. ~Waits(o) /\ ~Makes(o)
  BY DEF Waits, Makes
<1>10. /\ Bears(o) => /\ o.name \in M /\ R[o.name].id = 0
                      /\ \A i \in 1 .. Len(r) :
                            Bears(r[i]) \/ r[i].type = "delete" => r[i].name # o.name
       /\ o.type \notin {"house", "write", "get", "delete"} /\ o \in Msgs
  BY <1>4, <1>7
<1> QED BY ONLY <1>5, <1>6, <1>8, <1>9, <1>10, SoundAdd

LEMMA Received ==
    ASSUME Whole, up, up' = up, UNCHANGED dmVars, NEW u, u = rep', NEW v, v = req',
           NEW r, r = Both(u, v), u \in Seq(Replies), v \in Seq(Requests),
           Sound(r, row, made, lastId, bld', at', left'), LoadInv(r, loading'),
           number' \in [Names -> Slots \union {Town, None}],
           tele' \in [Names -> [num : Slots \union {Town, None}, owner : Names \union {None}]]
    PROVE  Whole'
<1>1. loading' \in Seq(Names)
  BY DEF LoadInv
<1>2. Sound(r, row', made', lastId', bld', at', left')
  BY DEF dmVars
<1>3. Good(rep', req', row', made', lastId', bld', at', left', loading', number', tele', up')
  BY <1>1, <1>2 DEF Good, Both
<1> QED BY <1>3, GoodNext

LEMMA HouseBldg ==
    ASSUME NEW m \in HouseMsgs
    PROVE  /\ House(m.name, m.id, m.data) \in Bldg
           /\ House(m.name, m.id, m.data).owner = m.name /\ House(m.name, m.id, m.data).id = m.id
           /\ House(m.name, m.id, m.data).data = m.data
BY HouseConstants DEF HouseMsgs, House, Bldg

LEMMA NewBldg ==
    ASSUME NEW m \in HouseMsgs, NEW x \in Settled(House(m.name, m.id, m.data))
    PROVE  x \in Bldg /\ x.owner = m.name /\ x.id = m.id /\ (x.data = m.data \/ x.changed = TRUE)
<1>1. PICK h : h = House(m.name, m.id, m.data)
  OBVIOUS
<1>2. h \in Bldg /\ h.owner = m.name /\ h.id = m.id /\ h.data = m.data /\ x \in Settled(h)
  BY <1>1, HouseBldg
<1> QED BY ONLY <1>2, SettledBldg

LEMMA ReceiveWhole ==
    ASSUME Whole, Receive
    PROVE  Whole'
<1>1. PICK f, a, b, R, M, I, B, P, L, list :
        /\ f = Flight /\ a = rep /\ b = req /\ R = row /\ M = made /\ I = lastId
        /\ B = bld /\ P = at /\ L = left /\ list = loading
  OBVIOUS
<1>2. /\ a \in Seq(Replies) /\ b \in Seq(Requests) /\ f = Both(a, b) /\ Sound(f, R, M, I, B, P, L)
      /\ a # <<>>
  BY <1>1, WholeFacts DEF Both, Receive
<1> DEFINE m == Head(a)
           r == Both(Tail(a), b)
<1>3. /\ f \in Seq(Msgs) /\ f[1] = m /\ m \in Replies /\ m \in Msgs
      /\ Tail(a) \in Seq(Replies) /\ r \in Seq(Msgs) /\ DropAt(r, f, 1)
  BY ONLY <1>2, ReplyFacts
<1>4. up /\ up' = up /\ UNCHANGED dmVars /\ rep' = Tail(a)
  BY <1>1 DEF Receive
<1>5. LoadInv(f, list)
  BY <1>1, <1>4, WholeFacts
<1>6. /\ B \in Bldgs /\ number \in [Names -> Slots \union {Town, None}]
      /\ tele \in [Names -> [num : Slots \union {Town, None}, owner : Names \union {None}]]
  BY <1>1, WholeFacts DEF Typed
<1>7. \/ /\ m.type = "house" /\ req' = req
         /\ PosnDropped(m) \/ PosnLoaded(m) \/ PosnFailed(m) \/ TeleLoaded(m) \/ TeleFailed(m)
      \/ NewCharReply(m)
  BY <1>1 DEF Receive
<1> HIDE DEF m, r
<1>8. m.type = "house" => m \in HouseMsgs
  BY <1>3, MsgFacts
<1>9. Sound(r, R, M, I, B, P, L)
  <2>1. m.type \in {"house", "char"}
    BY <1>3, MsgFacts
  <2>2. f[1].type \notin {"write", "delete"}
    BY <1>3, <2>1
  <2> QED BY ONLY <1>2, <1>3, <2>2, DropSound
<1>10. ASSUME m.type = "house"
       PROVE  LoadInv(r, list) /\ list # <<>> /\ LoadInv(r, Tail(list))
  <2>1. f[1].type = "house"
    BY <1>3, <1>10
  <2> QED BY ONLY <1>3, <1>5, <2>1, LoadFirst
\* it sends nothing
<1>11. ASSUME req' = req, Sound(r, R, M, I, bld', at', left'), LoadInv(r, loading'),
              number' \in [Names -> Slots \union {Town, None}],
              tele' \in [Names -> [num : Slots \union {Town, None}, owner : Names \union {None}]]
       PROVE  Whole'
  <2>1. PICK u, v : u = rep' /\ v = req'
    OBVIOUS
  <2>2. r = Both(u, v) /\ u \in Seq(Replies) /\ v \in Seq(Requests)
    BY <1>1, <1>2, <1>3, <1>4, <1>11, <2>1 DEF r
  <2>3. Sound(r, row, made, lastId, bld', at', left')
    BY ONLY <1>1, <1>11
  <2> QED BY ONLY Whole, <1>4, <1>11, <2>1, <2>2, <2>3, Received
\* a house is put into a slot
<1>12. ASSUME m.type = "house", m.ok, NEW s \in Slots, NEW x \in Bldg, x.owner = m.name,
              x.id = m.id, x.data = m.data \/ x.changed = TRUE, Loaded(s, x), Remember(s, m.data)
       PROVE  bld' \in Bldgs /\ Sound(r, R, M, I, bld', P, left') /\ LoadInv(r, loading')
  <2>1. B[s].owner = None /\ bld' = Put(B, s, x)
    BY <1>1, <1>12 DEF Loaded, FreeSlot, Live, Put
  <2>2. bld'[s] = x
    BY <1>6, <1>12, <2>1, PutBldg
  <2>3. left' = Recall(L, R, x, m.data)
    BY <1>1, <1>12, <2>2 DEF Remember, Recall
  <2>4. PICK C, K : C = bld' /\ K = left'
    OBVIOUS
  <2>5. C = Put(B, s, x) /\ K = Recall(L, R, x, m.data) /\ m = f[1]
    BY <1>3, <2>1, <2>3, <2>4
  <2>6. /\ m.type = "house" /\ m.ok /\ s \in Slots /\ x \in Bldg /\ x.owner = m.name
        /\ x.id = m.id /\ (x.data = m.data \/ x.changed = TRUE)
    BY <1>12
  <2>7. C \in Bldgs /\ Sound(r, R, M, I, C, P, K)
    <3>1. C \in Bldgs
      BY <1>6, <2>5, <2>6, PutBldg
    <3>2. /\ Sound(f, R, M, I, B, P, L) /\ r \in Seq(Msgs) /\ DropAt(r, f, 1) /\ LoadInv(f, list)
          /\ B[s].owner = None
      BY <1>2, <1>3, <1>5, <2>1
    <3>3. Sound(r, R, M, I, C, P, K)
      BY ONLY <2>5, <2>6, <3>2, LoadedSound
    <3> QED BY <3>1, <3>3
  <2>8. LoadInv(r, loading')
    BY <1>1, <1>10, <1>12 DEF Loaded, PopLoading
  <2> QED BY <2>4, <2>7, <2>8
\* who has waited is placed
<1>13. ASSUME m.type = "house", m.callback = "posn", m.caller # None, NEW C, NEW K,
              Sound(r, R, M, I, C, P, K), NEW Q, Q = [P EXCEPT ![m.caller] = Placed]
       PROVE  Sound(r, R, M, I, C, Q, K)
  <2>1. (m.type = "house" /\ Waits(m)) \/ Makes(m)
    BY <1>13 DEF Waits
  <2>2. m = f[1] /\ Placed \in States /\ Q = Go(P, m.caller, Placed)
    BY <1>3, <1>13, StatesDiffer DEF Go
  <2>3. Sound(r, R, M, I, C, P, K)
    BY <1>13
  <2> QED BY ONLY <1>2, <1>3, <1>5, <2>1, <2>2, <2>3, AnsweredGoes
<1>14. CASE m.type = "house" /\ req' = req /\ PosnDropped(m)
  <2>1. /\ bld' = B /\ loading' = list /\ at' = P /\ number' = number /\ tele' = tele /\ left' = L
    BY <1>1, <1>14 DEF PosnDropped
  <2> QED BY <1>6, <1>9, <1>10, <1>11, <1>14, <2>1
<1>15. CASE m.type = "house" /\ req' = req /\ PosnLoaded(m)
  <2>1. PICK s \in Slots, x \in Settled(House(m.name, m.id, m.data)) :
          Loaded(s, x) /\ PlacedAt(m.caller, s) /\ Remember(s, m.data)
    BY <1>15 DEF PosnLoaded
  <2>2. x \in Bldg /\ x.owner = m.name /\ x.id = m.id /\ (x.data = m.data \/ x.changed = TRUE)
    BY <1>8, <1>15, <2>1, NewBldg
  <2>3. bld' \in Bldgs /\ Sound(r, R, M, I, bld', P, left') /\ LoadInv(r, loading')
    BY <1>12, <1>15, <2>1, <2>2 DEF PosnLoaded
  <2>4. /\ at' = [P EXCEPT ![m.caller] = Placed] /\ number' = [number EXCEPT ![m.caller] = s]
        /\ TeleTo(m.caller, s)
    BY <1>1, <2>1 DEF PlacedAt
  <2>5. PICK C, K, Q : C = bld' /\ K = left' /\ Q = at'
    OBVIOUS
  <2>6. Sound(r, R, M, I, C, Q, K)
    <3>1. Sound(r, R, M, I, C, P, K) /\ Q = [P EXCEPT ![m.caller] = Placed]
      BY <2>3, <2>4, <2>5
    <3>2. m.type = "house" /\ m.callback = "posn" /\ m.caller # None
      BY <1>15 DEF PosnLoaded
    <3> QED BY ONLY <1>13, <3>1, <3>2
  <2>7. /\ number' \in [Names -> Slots \union {Town, None}]
        /\ tele' \in [Names -> [num : Slots \union {Town, None}, owner : Names \union {None}]]
    BY <1>6, <2>3, <2>4, TeleTyped
  <2> QED BY <1>11, <1>15, <2>3, <2>5, <2>6, <2>7
<1>16. CASE m.type = "house" /\ req' = req /\ PosnFailed(m)
  <2>1. /\ bld' = B /\ at' = [P EXCEPT ![m.caller] = Placed] /\ left' = L /\ PopLoading
        /\ number' = [number EXCEPT ![m.caller] = Town] /\ TeleTo(m.caller, Town)
    BY <1>1, <1>16 DEF PosnFailed
  <2>2. LoadInv(r, loading')
    BY <1>1, <1>10, <1>16, <2>1 DEF PopLoading
  <2>3. PICK Q : Q = at'
    OBVIOUS
  <2>4. Sound(r, R, M, I, B, Q, L)
    <3>1. Q = [P EXCEPT ![m.caller] = Placed]
      BY <2>1, <2>3
    <3>2. m.type = "house" /\ m.callback = "posn" /\ m.caller # None
      BY <1>16 DEF PosnFailed
    <3> QED BY ONLY <1>9, <1>13, <3>1, <3>2
  <2>5. /\ number' \in [Names -> Slots \union {Town, None}]
        /\ tele' \in [Names -> [num : Slots \union {Town, None}, owner : Names \union {None}]]
    <3>1. bld' \in Bldgs /\ Town \in Slots \union {Town}
      BY <1>6, <2>1
    <3> QED BY <1>6, <2>1, <3>1, TeleTyped
  <2> QED BY <1>11, <1>16, <2>1, <2>2, <2>3, <2>4, <2>5
<1>17. CASE m.type = "house" /\ req' = req /\ TeleLoaded(m)
  <2>1. PICK s \in Slots, x \in Settled(House(m.name, m.id, m.data)) :
          /\ Loaded(s, x) /\ Remember(s, m.data)
          /\ IF m.caller = None THEN UNCHANGED tele ELSE TeleTo(m.caller, s)
    BY <1>17 DEF TeleLoaded, Settled
  <2>2. x \in Bldg /\ x.owner = m.name /\ x.id = m.id /\ (x.data = m.data \/ x.changed = TRUE)
    BY <1>8, <1>17, <2>1, NewBldg
  <2>3. bld' \in Bldgs /\ Sound(r, R, M, I, bld', P, left') /\ LoadInv(r, loading')
    BY <1>12, <1>17, <2>1, <2>2 DEF TeleLoaded
  <2>4. at' = P /\ number' = number
    BY <1>1, <1>17 DEF TeleLoaded
  <2>5. tele' \in [Names -> [num : Slots \union {Town, None}, owner : Names \union {None}]]
    BY <1>6, <2>1, <2>3, TeleTyped
  <2> QED BY <1>6, <1>11, <1>17, <2>3, <2>4, <2>5
<1>18. CASE m.type = "house" /\ req' = req /\ TeleFailed(m)
  <2>1. /\ bld' = B /\ at' = P /\ number' = number /\ tele' = tele /\ left' = L /\ PopLoading
    BY <1>1, <1>18 DEF TeleFailed
  <2>2. LoadInv(r, loading')
    BY <1>1, <1>10, <1>18, <2>1 DEF PopLoading
  <2> QED BY <1>6, <1>9, <1>11, <1>18, <2>1, <2>2
<1>19. CASE NewCharReply(m)
  <2>1. /\ m.type = "char" /\ bld' = B /\ loading' = list /\ number' = number /\ tele' = tele
        /\ at' = IF m.caller = None THEN P ELSE [P EXCEPT ![m.caller] = Off]
    BY <1>1, <1>19 DEF NewCharReply
  <2>2. LoadInv(r, list)
    <3>1. f[1].type \notin {"get", "house"}
      BY <1>3, <2>1
    <3> QED BY ONLY <1>3, <1>5, <3>1, DropLoads
  <2>3. PICK Q : Q = at'
    OBVIOUS
  <2>4. Sound(r, R, M, I, B, Q, L)
    <3>1. CASE m.caller = None
      BY <1>9, <2>1, <2>3, <3>1
    <3>2. CASE m.caller # None
      <4>1. (m.type = "house" /\ Waits(m)) \/ Makes(m)
        BY <2>1, <3>2 DEF Makes
      <4>2. m = f[1] /\ Off \in States /\ Q = Go(P, m.caller, Off)
        BY <1>3, <2>1, <2>3, <3>2, StatesDiffer DEF Go
      <4> QED BY ONLY <1>2, <1>3, <1>5, <1>9, <4>1, <4>2, AnsweredGoes
    <3> QED BY <3>1, <3>2
  <2>5. CASE ~(m.caller # None /\ m.ok)
    <3>1. req' = req /\ left' = L
      BY <1>1, <1>19, <2>5 DEF NewCharReply
    <3> QED BY <1>6, <1>11, <2>1, <2>2, <2>3, <2>4, <3>1
  <2>6. CASE m.caller # None /\ m.ok
    <3> DEFINE o == [type |-> "newhouse", name |-> m.name]
    <3>1. req' = Append(b, o) /\ left' = EmptyLeft(L, m.name)
      BY <1>1, <1>19, <2>6 DEF NewCharReply, EmptyLeft
    <3>2. o \in NameMsgs /\ o.type = "newhouse" /\ o.name = m.name
      BY <1>3, MsgFacts DEF NameMsgs
    <3> HIDE DEF o
    <3>3. o \in Requests /\ o \in Msgs
      BY <3>2 DEF Requests, Msgs
    <3>4. PICK K : K = left'
      OBVIOUS
    <3>5. Sound(Append(r, o), R, M, I, B, Q, K)
      <4>1. Bears(m) /\ m = f[1] /\ m.type = "char" /\ K = EmptyLeft(L, m.name)
        BY <1>3, <2>1, <2>6, <3>1, <3>4 DEF Bears
      <4> QED BY ONLY <1>2, <1>3, <2>4, <3>2, <3>3, <4>1, BornSound
    <3>6. LoadInv(Append(r, o), list)
      <4>1. PICK s : s = Append(r, o)
        OBVIOUS
      <4>2. /\ s \in Seq(Msgs) /\ Len(s) = Len(r) + 1 /\ Len(r) \in Nat
            /\ \A i \in 1 .. Len(r) : s[i] = r[i]
            /\ s[Len(r) + 1] = o
        BY <1>3, <3>3, <4>1, AddFacts
      <4>3. \A i \in 1 .. Len(s) : i > Len(r) => i = Len(r) + 1
        BY <4>2
      <4>4. /\ r \in Seq(Msgs) /\ Len(r) <= Len(s)
            /\ \A i \in 1 .. Len(s) : i > Len(r) => s[i].type \notin {"get", "house"}
        BY <1>3, <3>2, <4>2, <4>3
      <4>5. LoadInv(s, list)
        BY ONLY <2>2, <4>2, <4>4, LoadMore
      <4> QED BY <4>1, <4>5
    <3>7. PICK u, v, s : u = rep' /\ v = req' /\ s = Append(r, o)
      OBVIOUS
    <3>8. s = Both(u, v)
      <4>1. Tail(a) \in Seq(Msgs) /\ b \in Seq(Msgs)
        BY <1>2, <1>3 DEF Msgs
      <4>2. Tail(a) \o Append(b, o) = Append(Tail(a) \o b, o)
        BY <3>3, <4>1, AppendLater
      <4> QED BY <1>4, <3>1, <3>7, <4>2 DEF Both, r
    <3>9. u \in Seq(Replies) /\ v \in Seq(Requests)
      BY <1>2, <1>3, <1>4, <3>1, <3>3, <3>7
    <3>10. Sound(s, row, made, lastId, bld', at', left') /\ LoadInv(s, loading')
      BY <1>1, <2>1, <2>3, <3>4, <3>5, <3>6, <3>7
    <3>11. /\ number' \in [Names -> Slots \union {Town, None}]
           /\ tele' \in [Names -> [num : Slots \union {Town, None}, owner : Names \union {None}]]
      BY <1>6, <2>1
    <3> QED BY ONLY Whole, <1>4, <3>7, <3>8, <3>9, <3>10, <3>11, Received
  <2> QED BY <2>5, <2>6
<1> QED BY <1>7, <1>14, <1>15, <1>16, <1>17, <1>18, <1>19

-----------------------------------------------------------------------------
(* Houses are written, and thrown away.                                      *)

\* an order of some slots has all of them
LEMMA OrderFacts ==
    ASSUME NEW S \in SUBSET Slots, NEW o \in Orders(S)
    PROVE  /\ o \in Seq(Slots) /\ Len(o) \in Nat
           /\ \A i \in 1 .. Len(o) : o[i] \in S
           /\ \A s \in S : \E i \in 1 .. Len(o) : o[i] = s
<1>1. IsFiniteSet(S)
  BY HouseBounds, FS_Subset
<1> DEFINE n == Cardinality(S)
           D == 1 .. n
<1>2. n \in Nat
  BY <1>1, FS_CardinalityType
<1>3. o \in [D -> S] /\ \A i, j \in D : i # j => o[i] # o[j]
  BY DEF Orders, SetToSeqs
<1>4. o \in Injection(D, S)
  BY <1>3 DEF Injection, IsInjective
<1>5. Cardinality(D) = n
  <2>1. 1 \in Int /\ n \in Int
    BY <1>2
  <2>2. Cardinality(1 .. n) = IF 1 > n THEN 0 ELSE n - 1 + 1
    BY <2>1, FS_Interval
  <2> QED BY <1>2, <2>2
<1> HIDE DEF n
<1>6. \A s \in S : \E i \in D : o[i] = s
  <2>1. Cardinality(D) = Cardinality(S)
    BY <1>5 DEF n
  <2>2. o \in Surjection(D, S)
    BY ONLY <1>1, <1>4, <2>1, FS_Injection
  <2> QED BY <2>2 DEF Surjection
<1>7. o \in Seq(S) /\ Len(o) = n
  BY <1>2, <1>3
<1>8. o \in Seq(Slots) /\ \A i \in D : o[i] \in S
  BY <1>3, <1>7
<1> QED BY <1>2, <1>6, <1>7, <1>8

\* the writes of a list of houses
LEMMA WritesFacts ==
    ASSUME Whole, NEW S \in SUBSET Occupied, NEW o \in Orders(S)
    PROVE  /\ Writes(o) \in Seq(Requests) /\ Len(Writes(o)) \in Nat
           /\ \A i \in 1 .. Len(Writes(o)) :
                 /\ Writes(o)[i].type = "write"
                 /\ \E s \in S : /\ Writes(o)[i].name = bld[s].owner
                                 /\ Writes(o)[i].id = bld[s].id
                                 /\ Writes(o)[i].data = bld[s].data
           /\ \A s \in S : \E i \in 1 .. Len(Writes(o)) :
                 /\ Writes(o)[i].type = "write" /\ Writes(o)[i].name = bld[s].owner
                 /\ Writes(o)[i].id = bld[s].id /\ Writes(o)[i].data = bld[s].data
<1> DEFINE w == Writes(o)
<1>1. /\ o \in Seq(Slots) /\ Len(o) \in Nat
      /\ \A i \in 1 .. Len(o) : o[i] \in S
      /\ \A s \in S : \E i \in 1 .. Len(o) : o[i] = s
  <2>1. S \in SUBSET Slots
    BY DEF Occupied
  <2> QED BY <2>1, OrderFacts
<1>2. bld \in Bldgs /\ IdsInv(Flight, row, lastId, bld)
  BY WholeFacts DEF Sound, Typed
<1>3. ASSUME NEW s \in S
      PROVE  /\ Write(bld[s]) \in WriteMsgs /\ Write(bld[s]).type = "write"
             /\ Write(bld[s]).name = bld[s].owner /\ Write(bld[s]).id = bld[s].id
             /\ Write(bld[s]).data = bld[s].data
  <2>1. s \in Slots /\ bld[s].owner # None
    BY DEF Occupied, Live
  <2>2. bld[s] \in Bldg /\ 0 < bld[s].id
    BY <1>2, <2>1 DEF IdsInv, Bldgs, Bldg
  <2>3. bld[s].owner \in Names /\ bld[s].id \in 1 .. MaxId /\ bld[s].data \in Data
    BY <2>1, <2>2, HouseConstants DEF Bldg
  <2> QED BY <2>3 DEF Write, WriteMsgs
<1>4. /\ w = [i \in 1 .. Len(o) |-> Write(bld[o[i]])]
      /\ \A i \in 1 .. Len(o) : Write(bld[o[i]]) \in Requests
  BY <1>1, <1>3 DEF Writes, Requests
<1>5. /\ w \in Seq(Requests) /\ Len(w) = Len(o) /\ \A i \in 1 .. Len(o) : w[i] = Write(bld[o[i]])
  BY <1>1, <1>4
<1> HIDE DEF w
<1>6. ASSUME NEW i \in 1 .. Len(w)
      PROVE  /\ w[i].type = "write"
             /\ \E s \in S : /\ w[i].name = bld[s].owner
                             /\ w[i].id = bld[s].id
                             /\ w[i].data = bld[s].data
  BY <1>1, <1>3, <1>5
<1>7. ASSUME NEW s \in S
      PROVE  \E i \in 1 .. Len(w) : /\ w[i].type = "write" /\ w[i].name = bld[s].owner
                                    /\ w[i].id = bld[s].id /\ w[i].data = bld[s].data
  <2>1. PICK i \in 1 .. Len(o) : o[i] = s
    BY <1>1
  <2>2. i \in 1 .. Len(w) /\ w[i] = Write(bld[s])
    BY <1>5, <2>1
  <2> QED BY <1>3, <2>2
<1> QED BY <1>1, <1>5, <1>6, <1>7 DEF w

\* r is q, and then w
Follow(r, q, w) ==
    /\ r \in Seq(Msgs) /\ Len(r) = Len(q) + Len(w) /\ Len(q) \in Nat /\ Len(w) \in Nat
    /\ \A i \in 1 .. Len(q) : r[i] = q[i]
    /\ \A i \in 1 .. Len(r) : i > Len(q) => i - Len(q) \in 1 .. Len(w) /\ r[i] = w[i - Len(q)]
    /\ \A k \in 1 .. Len(w) : k + Len(q) \in 1 .. Len(r) /\ k + Len(q) > Len(q)
                              /\ r[k + Len(q)] = w[k]

LEMMA BothFacts ==
    ASSUME NEW q \in Seq(Msgs), NEW w \in Seq(Msgs), NEW r, r = Both(q, w)
    PROVE  Follow(r, q, w)
<1>1. /\ r \in Seq(Msgs) /\ Len(r) = Len(q) + Len(w) /\ Len(q) \in Nat /\ Len(w) \in Nat
      /\ \A i \in 1 .. Len(q) + Len(w) : r[i] = IF i <= Len(q) THEN q[i] ELSE w[i - Len(q)]
  BY ConcatProperties DEF Both
<1>2. \A i \in 1 .. Len(q) : r[i] = q[i]
  BY <1>1
<1>3. \A i \in 1 .. Len(r) : i > Len(q) => i - Len(q) \in 1 .. Len(w) /\ r[i] = w[i - Len(q)]
  BY <1>1
<1>4. ASSUME NEW k \in 1 .. Len(w)
      PROVE  k + Len(q) \in 1 .. Len(r) /\ k + Len(q) > Len(q) /\ r[k + Len(q)] = w[k]
  <2>1. k + Len(q) \in 1 .. Len(q) + Len(w) /\ ~(k + Len(q) <= Len(q)) /\ (k + Len(q)) - Len(q) = k
    BY <1>1
  <2> QED BY <1>1, <2>1
<1> QED BY <1>1, <1>2, <1>3, <1>4 DEF Follow

\* the houses that are written are saved
LEMMA WrittenSound ==
    ASSUME Whole, NEW S \in SUBSET Occupied, NEW o \in Orders(S),
           NEW q, NEW P, Sound(q, row, made, lastId, bld, P, left),
           NEW r, r = Both(q, Writes(o))
    PROVE  /\ r \in Seq(Msgs) /\ Sound(r, row, made, lastId, bld, P, left)
           /\ \A s \in S : bld[s].id = row[bld[s].owner].id => Saved(r, row, left, bld[s].owner)
           /\ \A list : LoadInv(q, list) => LoadInv(r, list)
<1>1. PICK w, R, M, I, B, L :
        /\ w = Writes(o) /\ R = row /\ M = made /\ I = lastId /\ B = bld /\ L = left
  OBVIOUS
<1>2. /\ w \in Seq(Requests)
      /\ \A i \in 1 .. Len(w) :
            /\ w[i].type = "write"
            /\ \E s \in S : w[i].name = B[s].owner /\ w[i].id = B[s].id /\ w[i].data = B[s].data
      /\ \A s \in S : \E i \in 1 .. Len(w) :
            /\ w[i].type = "write" /\ w[i].name = B[s].owner
            /\ w[i].id = B[s].id /\ w[i].data = B[s].data
  BY <1>1, WritesFacts
<1>3. q \in Seq(Msgs) /\ w \in Seq(Msgs) /\ Sound(q, R, M, I, B, P, L) /\ r = Both(q, w)
  BY <1>1, <1>2 DEF Sound, Msgs
<1>4. /\ r \in Seq(Msgs) /\ Len(r) = Len(q) + Len(w) /\ Len(q) \in Nat /\ Len(w) \in Nat
      /\ \A i \in 1 .. Len(q) : r[i] = q[i]
      /\ \A i \in 1 .. Len(r) : i > Len(q) => i - Len(q) \in 1 .. Len(w) /\ r[i] = w[i - Len(q)]
      /\ \A k \in 1 .. Len(w) : k + Len(q) \in 1 .. Len(r) /\ k + Len(q) > Len(q)
                                /\ r[k + Len(q)] = w[k]
  <2>1. q \in Seq(Msgs) /\ w \in Seq(Msgs) /\ r = Both(q, w)
    BY <1>3
  <2>2. Follow(r, q, w)
    BY ONLY <2>1, BothFacts
  <2> QED BY <2>2 DEF Follow
<1>5. \A s \in S : s \in Slots /\ B[s].owner # None
  BY <1>1 DEF Occupied, Live
<1>6. \A i \in 1 .. Len(r) : i > Len(q) =>
        /\ r[i].type = "write"
        /\ \E s \in Slots : /\ B[s].owner # None /\ r[i].name = B[s].owner
                            /\ r[i].id = B[s].id /\ r[i].data = B[s].data
  <2> SUFFICES ASSUME NEW i \in 1 .. Len(r), i > Len(q)
               PROVE  /\ r[i].type = "write"
                      /\ \E s \in Slots : /\ B[s].owner # None /\ r[i].name = B[s].owner
                                          /\ r[i].id = B[s].id /\ r[i].data = B[s].data
    OBVIOUS
  <2>1. PICK k \in 1 .. Len(w) : r[i] = w[k]
    BY <1>4
  <2>2. PICK s \in S : w[k].name = B[s].owner /\ w[k].id = B[s].id /\ w[k].data = B[s].data
    BY <1>2
  <2> QED BY <1>2, <1>5, <2>1, <2>2
<1>7. Len(q) <= Len(r)
  BY <1>4
<1>8. Sound(r, R, M, I, B, P, L) /\ Resaved(q, r, R, L)
  <2>1. r \in Seq(Msgs) /\ Len(q) <= Len(r) /\ \A i \in 1 .. Len(q) : r[i] = q[i]
    BY <1>4, <1>7
  <2>2. Sound(q, R, M, I, B, P, L)
    BY <1>3
  <2> QED BY ONLY <1>6, <2>1, <2>2, SoundWrites
<1>9. ASSUME NEW s \in S, B[s].id = R[B[s].owner].id
      PROVE  Saved(r, R, L, B[s].owner)
  <2>1. PICK n : n = B[s].owner
    OBVIOUS
  <2>2. n \in Names
    BY <1>3, <1>5, <2>1 DEF Sound, Typed, Bldgs
  <2>3. PICK k \in 1 .. Len(w) : w[k].type = "write" /\ w[k].name = n /\ w[k].id = B[s].id
    BY <1>2, <2>1
  <2>4. PICK i : i = k + Len(q)
    OBVIOUS
  <2>5. i \in 1 .. Len(r) /\ i > Len(q) /\ r[i] = w[k]
    BY <1>4, <2>4
  <2>6. i \in 1 .. Len(r) /\ i > Len(q) /\ HomeWrite(r[i], R, n)
    BY <1>9, <2>1, <2>3, <2>5 DEF HomeWrite
  <2>7. Saved(r, R, L, n)
    BY <1>8, <2>2, <2>6 DEF Resaved
  <2> QED BY <2>1, <2>7
<1>10. ASSUME NEW list, LoadInv(q, list)
       PROVE  LoadInv(r, list)
  <2>1. \A i \in 1 .. Len(r) : i > Len(q) => r[i].type \notin {"get", "house"}
    BY <1>6
  <2> QED BY ONLY <1>3, <1>4, <1>7, <1>10, <2>1, LoadMore
<1> QED BY <1>1, <1>4, <1>8, <1>9, <1>10

-----------------------------------------------------------------------------
(* Timers, shutdown and crash.                                               *)

\* writes are sent after what is under way
LEMMA SentLast ==
    ASSUME Whole, NEW w \in Seq(Requests)
    PROVE  rep \o (req \o w) = Both(Flight, w) /\ req \o w \in Seq(Requests)
<1>1. rep \in Seq(Msgs) /\ req \in Seq(Msgs) /\ req \in Seq(Requests) /\ Flight = rep \o req
  BY WholeFacts
<1>2. w \in Seq(Msgs)
  BY DEF Msgs
<1>3. (rep \o req) \o w = rep \o (req \o w)
  BY ONLY <1>1, <1>2, ConcatAssociative
<1>4. req \o w \in Seq(Requests)
  BY <1>1, ConcatProperties
<1> QED BY <1>1, <1>3, <1>4 DEF Both

LEMMA SaveStateWhole ==
    ASSUME Whole, SaveState
    PROVE  Whole'
<1>1. /\ up /\ rep' = rep /\ bld' = bld /\ at' = at /\ number' = number /\ tele' = tele
      /\ row' = row /\ made' = made /\ lastId' = lastId /\ loading' = loading /\ up' = up
      /\ left' = left
  BY DEF SaveState, dmVars, charVars
<1>2. PICK o \in Orders(Occupied) : req' = req \o Writes(o)
  BY DEF SaveState
<1>3. Occupied \in SUBSET Occupied /\ Sound(Flight, row, made, lastId, bld, at, left)
  BY WholeFacts
<1>4. Writes(o) \in Seq(Requests)
  BY <1>3, WritesFacts
<1>5. PICK r : r = Both(Flight, Writes(o))
  OBVIOUS
<1>6. rep \o (req \o Writes(o)) = r /\ req \o Writes(o) \in Seq(Requests)
  BY <1>4, <1>5, SentLast
<1>7. rep' \o req' = r /\ req' \in Seq(Requests)
  BY ONLY <1>1, <1>2, <1>6
<1>8. Sound(r, row, made, lastId, bld, at, left)
  BY ONLY Whole, <1>3, <1>5, WrittenSound
<1>9. \A list : LoadInv(Flight, list) => LoadInv(r, list)
  BY ONLY Whole, <1>3, <1>5, WrittenSound
<1>10. Good(rep', req', row', made', lastId', bld', at', left', loading', number', tele', up')
  BY <1>1, <1>7, <1>8, <1>9, WholeFacts DEF Good
<1> QED BY <1>10, GoodNext

\* the houses that stay, and those of them whose delay has run down
LEMMA TossBldg ==
    ASSUME bld \in Bldgs
    PROVE  LET C == [s \in Slots |-> IF s \in Due THEN NoBuilding ELSE bld[s]]
               D == [s \in Slots |->
                       IF s \in Due THEN NoBuilding
                       ELSE IF s \in Empty THEN [bld[s] EXCEPT !.delay = @ - 1]
                       ELSE bld[s]]
           IN  /\ C \in Bldgs /\ D \in Bldgs /\ Delays(D, C)
               /\ \A s \in Slots : C[s] = IF s \in Due THEN NoBuilding ELSE bld[s]
<1> DEFINE C == [s \in Slots |-> IF s \in Due THEN NoBuilding ELSE bld[s]]
           y(s) == IF s \in Due THEN NoBuilding
                   ELSE IF s \in Empty THEN [bld[s] EXCEPT !.delay = @ - 1]
                   ELSE bld[s]
           D == [s \in Slots |-> y(s)]
<1>1. \A s \in Slots : bld[s] \in Bldg
  BY DEF Bldgs, Bldg
<1>2. NoBuilding \in Bldg
  BY HouseConstants DEF NoBuilding, Bldg
<1>3. \A s \in Slots : C[s] = (IF s \in Due THEN NoBuilding ELSE bld[s])
  OBVIOUS
<1>4. C \in Bldgs
  BY <1>1, <1>2 DEF Bldgs, Bldg
<1> HIDE DEF C
<1>5. ASSUME NEW s \in Slots
      PROVE  /\ y(s) \in Bldg /\ y(s).owner = C[s].owner /\ y(s).id = C[s].id
             /\ y(s).data = C[s].data /\ y(s).changed = C[s].changed
  <2>1. CASE s \in Due
    BY <1>2, <1>3, <2>1
  <2>2. CASE s \notin Due /\ s \in Empty
    <3>1. bld[s] \in Bldg /\ ~(bld[s].delay < 1)
      BY <1>1, <2>2 DEF Due
    <3>2. bld[s].delay - 1 \in 0 .. Delay
      BY <3>1, HouseConstants DEF Bldg
    <3>3. PICK d \in 0 .. Delay : d = bld[s].delay - 1
      BY <3>2
    <3>4. y(s) = [bld[s] EXCEPT !.delay = d]
      BY <2>2, <3>3
    <3>5. C[s] = bld[s]
      BY <1>3, <2>2
    <3>6. PICK b, x : b = bld[s] /\ x = [b EXCEPT !.delay = d]
      OBVIOUS
    <3>7. b \in Bldg
      BY <3>1, <3>6
    <3>8. /\ x \in Bldg /\ x.owner = b.owner /\ x.id = b.id
          /\ x.data = b.data /\ x.changed = b.changed
      BY <3>6, <3>7, LookedUp
    <3>9. y(s) = x /\ C[s] = b
      BY <3>4, <3>5, <3>6
    <3> QED BY ONLY <3>8, <3>9
  <2>3. CASE s \notin Due /\ s \notin Empty
    BY <1>1, <1>3, <2>3
  <2> QED BY <2>1, <2>2, <2>3
<1>6. \A s \in Slots : D[s] = y(s)
  OBVIOUS
<1> HIDE DEF y
<1>7. D \in Bldgs
  BY <1>5 DEF Bldgs, Bldg
<1>8. Delays(D, C)
  BY <1>5, <1>6 DEF Delays
<1> QED BY <1>3, <1>4, <1>7, <1>8 DEF C, D, y

LEMMA TossWhole ==
    ASSUME Whole, Toss
    PROVE  Whole'
<1> DEFINE C == [s \in Slots |-> IF s \in Due THEN NoBuilding ELSE bld[s]]
           S == {s \in Due : bld[s].changed}
<1>1. /\ up /\ rep' = rep /\ at' = at /\ number' = number /\ tele' = tele
      /\ row' = row /\ made' = made /\ lastId' = lastId /\ loading' = loading /\ up' = up
      /\ left' = left
  BY DEF Toss, dmVars, charVars
<1>2. PICK o \in Orders(S) : req' = req \o Writes(o)
  BY DEF Toss
<1>3. S \in SUBSET Occupied /\ Sound(Flight, row, made, lastId, bld, at, left)
  BY WholeFacts DEF Due, Empty
<1>4. bld \in Bldgs
  BY WholeFacts DEF Typed
<1>5. /\ C \in Bldgs /\ bld' \in Bldgs /\ Delays(bld', C)
      /\ \A s \in Slots : C[s] = IF s \in Due THEN NoBuilding ELSE bld[s]
  BY <1>4, TossBldg DEF Toss
<1>6. \A s \in Slots : s \in Due /\ bld[s].changed => s \in S
  OBVIOUS
<1> HIDE DEF C, S
<1>7. Writes(o) \in Seq(Requests)
  BY ONLY Whole, <1>3, WritesFacts
<1>8. PICK r : r = Both(Flight, Writes(o))
  OBVIOUS
<1>9. rep \o (req \o Writes(o)) = r /\ req \o Writes(o) \in Seq(Requests)
  BY <1>7, <1>8, SentLast
<1>10. rep' \o req' = r /\ req' \in Seq(Requests)
  BY ONLY <1>1, <1>2, <1>9
<1>11. Sound(r, row, made, lastId, bld, at, left)
  BY ONLY Whole, <1>3, <1>8, WrittenSound
<1>12. \A list : LoadInv(Flight, list) => LoadInv(r, list)
  BY ONLY Whole, <1>3, <1>8, WrittenSound
<1>13. \A s \in S : bld[s].id = row[bld[s].owner].id => Saved(r, row, left, bld[s].owner)
  BY ONLY Whole, <1>3, <1>8, WrittenSound
<1>14. Sound(r, row, made, lastId, C, at, left)
  <2>1. \A s \in Slots : C[s] = bld[s] \/ C[s] = NoBuilding
    BY <1>5
  <2>2. \A s \in Slots : C[s] # bld[s] /\ bld[s].changed /\ bld[s].owner # None
                           /\ bld[s].id = row[bld[s].owner].id =>
            Saved(r, row, left, bld[s].owner) \/ Doomed(r, C, row, bld[s].owner)
    BY <1>5, <1>6, <1>13
  <2>3. C \in Bldgs
    BY <1>5
  <2> QED BY ONLY <1>11, <2>1, <2>2, <2>3, SoundGone
<1>15. Sound(r, row, made, lastId, bld', at, left)
  <2>1. PICK D : D = bld'
    OBVIOUS
  <2>2. D \in Bldgs /\ \A s \in Slots : /\ D[s].owner = C[s].owner /\ D[s].id = C[s].id
                                        /\ D[s].data = C[s].data /\ D[s].changed = C[s].changed
    BY <1>5, <2>1 DEF Delays
  <2>3. Sound(r, row, made, lastId, D, at, left)
    BY ONLY <1>14, <2>2, SoundDelay
  <2> QED BY <2>1, <2>3
<1>16. Good(rep', req', row', made', lastId', bld', at', left', loading', number', tele', up')
  BY <1>1, <1>10, <1>12, <1>15, WholeFacts DEF Good
<1> QED BY <1>16, GoodNext

LEMMA NoneLive ==
    ASSUME NEW C, C = [s \in Slots |-> NoBuilding]
    PROVE  C \in Bldgs /\ \A s \in Slots : C[s] = NoBuilding
<1>1. NoBuilding \in Bldg
  BY HouseConstants DEF NoBuilding, Bldg
<1> QED BY <1>1 DEF Bldgs, Bldg

LEMMA StopWhole ==
    ASSUME Whole, Stop
    PROVE  Whole'
<1> DEFINE q == Unwanted(req)
           P == [c \in Names |-> Off]
           C == [s \in Slots |-> NoBuilding]
<1>1. /\ up' = FALSE /\ rep' = <<>> /\ at' = P /\ bld' = C /\ loading' = <<>>
      /\ number' = [c \in Names |-> None] /\ tele' = [c \in Names |-> Nowhere]
      /\ row' = row /\ made' = made /\ lastId' = lastId /\ left' = left
  BY DEF Stop, dmVars
<1>2. PICK o \in Orders(Occupied) : req' = q \o Writes(o)
  BY DEF Stop, Unwanted
<1>3. /\ rep \in Seq(Replies) /\ req \in Seq(Requests) /\ Flight = rep \o req
      /\ Sound(Flight, row, made, lastId, bld, at, left) /\ Occupied \in SUBSET Occupied
  BY WholeFacts
<1>4. /\ q \in Seq(Requests) /\ q \in Seq(Msgs) /\ Len(q) = Len(req)
      /\ \A i \in 1 .. Len(q) : ~Waits(q[i]) /\ ~Makes(q[i])
  <2>1. /\ q \in Seq(Requests) /\ Len(q) = Len(req)
        /\ \A i \in 1 .. Len(req) : ~Waits(q[i]) /\ ~Makes(q[i])
    BY <1>3, UnwantedFacts
  <2> QED BY <2>1 DEF Msgs
<1>5. P \in [Names -> States] /\ \A c \in Names : P[c] = Off
  BY StatesDiffer
<1>6. C \in Bldgs /\ \A s \in Slots : C[s] = NoBuilding
  BY NoneLive
<1> HIDE DEF P, C
<1>7. Sound(q, row, made, lastId, bld, at, left)
  <2>1. PICK f : f = rep \o req
    OBVIOUS
  <2>2. /\ Embeds(Shift(Len(rep), Len(req)), q, f)
        /\ \A k \in 1 .. Len(f) : f[k].type \in {"write", "delete"}
             => \E i \in 1 .. Len(req) : Shift(Len(rep), Len(req))[i] = k
    BY <1>3, <2>1, UnwantedEmbeds
  <2>3. PICK e : e = Shift(Len(rep), Len(req))
    OBVIOUS
  <2>4. /\ Embeds(e, q, f)
        /\ \A k \in 1 .. Len(f) : f[k].type \in {"write", "delete"} => \E i \in 1 .. Len(q) : e[i] = k
    BY <1>4, <2>2, <2>3
  <2>5. Sound(f, row, made, lastId, bld, at, left)
    BY <1>3, <2>1
  <2> HIDE DEF q
  <2> QED BY ONLY <1>4, <2>4, <2>5, SoundEmbeds
<1>8. Sound(q, row, made, lastId, bld, P, left)
  <2>1. \A i \in 1 .. Len(q) : Waits(q[i]) \/ Makes(q[i]) => P[q[i].name] = at[q[i].name]
    BY <1>4
  <2> HIDE DEF q
  <2> QED BY ONLY <1>5, <1>7, <2>1, SoundPlace
<1> HIDE DEF q
<1>9. PICK r : r = Both(q, Writes(o))
  OBVIOUS
<1>10. r \in Seq(Msgs) /\ Sound(r, row, made, lastId, bld, P, left)
  BY ONLY Whole, <1>3, <1>8, <1>9, WrittenSound
<1>11. \A s \in Occupied : bld[s].id = row[bld[s].owner].id => Saved(r, row, left, bld[s].owner)
  BY ONLY Whole, <1>3, <1>8, <1>9, WrittenSound
<1>12. Sound(r, row, made, lastId, C, P, left)
  <2>1. \A s \in Slots : C[s] = bld[s] \/ C[s] = NoBuilding
    BY <1>6
  <2>2. \A s \in Slots : C[s] # bld[s] /\ bld[s].changed /\ bld[s].owner # None
                           /\ bld[s].id = row[bld[s].owner].id =>
            Saved(r, row, left, bld[s].owner) \/ Doomed(r, C, row, bld[s].owner)
    BY <1>11 DEF Occupied, Live
  <2>3. C \in Bldgs
    BY <1>6
  <2> QED BY ONLY <1>10, <2>1, <2>2, <2>3, SoundGone
<1>13. rep' \o req' = r /\ req' \in Seq(Requests) /\ rep' \in Seq(Replies)
  <2>1. Writes(o) \in Seq(Requests)
    BY ONLY Whole, <1>3, WritesFacts
  <2>2. q \o Writes(o) \in Seq(Requests)
    BY <1>4, <2>1, ConcatProperties
  <2>3. req' = r
    BY <1>2, <1>9 DEF Both
  <2>4. <<>> \o r = r
    BY <1>10
  <2> QED BY <1>1, <1>2, <2>2, <2>3, <2>4
<1>14. /\ number' \in [Names -> Slots \union {Town, None}]
       /\ tele' \in [Names -> [num : Slots \union {Town, None}, owner : Names \union {None}]]
  BY <1>1, NowhereTyped
<1>15. Good(rep', req', row', made', lastId', bld', at', left', loading', number', tele', up')
  <2>1. Sound(rep' \o req', row', made', lastId', bld', at', left')
    BY <1>1, <1>12, <1>13
  <2>2. up' \in BOOLEAN /\ up' = FALSE
    BY <1>1
  <2>3. rep' = <<>> /\ loading' = <<>> /\ loading' \in Seq(Names)
    BY <1>1
  <2>4. \A s \in Slots : bld'[s] = NoBuilding
    BY <1>1, <1>6
  <2>5. \A c \in Names : at'[c] = Off
    BY <1>1, <1>5
  <2> QED BY ONLY <1>13, <1>14, <2>1, <2>2, <2>3, <2>4, <2>5 DEF Good
<1> QED BY <1>15, GoodNext

\* nothing is under way
LEMMA NoneUnderWay ==
    ASSUME NEW q, q = <<>>
    PROVE  /\ q \in Seq(Msgs) /\ q \in Seq(Requests) /\ q \in Seq(Replies) /\ q \o q = q
           /\ Len(q) = 0 /\ 1 .. Len(q) = {} /\ LoadInv(q, <<>>)
<1>1. q \in Seq(Msgs) /\ q \in Seq(Requests) /\ q \in Seq(Replies) /\ q \o q = q /\ Len(q) = 0
  OBVIOUS
<1>2. 1 .. Len(q) = {}
  BY <1>1
<1>3. AskedIn(q) = {}
  BY <1>2 DEF AskedIn
<1>4. <<>> \in Seq(Names) /\ IsInjective(<<>>)
  BY DEF IsInjective
<1> QED BY <1>1, <1>2, <1>3, <1>4 DEF LoadInv, Marked

LEMMA StartWhole ==
    ASSUME Whole, Start
    PROVE  Whole'
<1>1. /\ ~up /\ up' = TRUE /\ req = <<>> /\ rep' = rep /\ req' = req
      /\ at' = at /\ number' = number /\ tele' = tele /\ bld' = bld /\ loading' = loading
      /\ row' = row /\ made' = made /\ lastId' = lastId /\ left' = left
  BY DEF Start, dmVars, charVars
<1>2. rep = <<>> /\ loading = <<>>
  BY <1>1 DEF Whole, Good
<1>3. rep \o req = <<>> /\ LoadInv(<<>>, <<>>)
  BY <1>1, <1>2, NoneUnderWay
<1>4. LoadInv(rep \o req, loading)
  BY <1>2, <1>3
<1>5. Good(rep', req', row', made', lastId', bld', at', left', loading', number', tele', up')
  BY <1>1, <1>4 DEF Whole, Good
<1> QED BY <1>5, GoodNext

LEMMA InitWhole ==
    ASSUME Init
    PROVE  Whole
<1>1. /\ made \in SUBSET Names
      /\ lastId = [n \in Names |-> IF n \in made THEN 1 ELSE 0]
      /\ row = [n \in Names |-> [id |-> lastId[n], data |-> NewHouse]]
      /\ req = <<>> /\ rep = <<>> /\ bld = [s \in Slots |-> NoBuilding] /\ loading = <<>>
      /\ at = [c \in Names |-> Off] /\ number = [c \in Names |-> None]
      /\ tele = [c \in Names |-> Nowhere] /\ up = TRUE /\ left = [n \in Names |-> NewHouse]
  BY DEF Init
<1>2. PICK q : q = rep \o req
  OBVIOUS
<1>3. /\ q = <<>> /\ q \in Seq(Msgs) /\ 1 .. Len(q) = {} /\ LoadInv(q, loading)
      /\ rep \in Seq(Replies) /\ req \in Seq(Requests) /\ loading \in Seq(Names)
  BY <1>1, <1>2, NoneUnderWay
<1>4. bld \in Bldgs /\ \A s \in Slots : bld[s] = NoBuilding
  BY <1>1, NoneLive
<1>5. ASSUME NEW n \in Names
      PROVE  /\ lastId[n] = IF n \in made THEN 1 ELSE 0
             /\ row[n] = [id |-> lastId[n], data |-> NewHouse] /\ lastId[n] \in 0 .. MaxId
             /\ row[n].id = lastId[n] /\ row[n].data = NewHouse
             /\ row[n] \in [id : 0 .. MaxId, data : Data] /\ left[n] = NewHouse
  <2>1. lastId[n] \in 0 .. MaxId
    BY <1>1, HouseConstants, HouseBounds
  <2> QED BY <1>1, <2>1, HouseConstants
<1>6. Typed(row, made, lastId, bld, at, left)
  <2>1. lastId \in [Names -> 0 .. MaxId]
    BY <1>1, <1>5
  <2>2. row \in [Names -> [id : 0 .. MaxId, data : Data]]
    BY <1>1, <1>5
  <2> QED BY <1>1, <1>4, <2>1, <2>2, StatesDiffer, HouseConstants DEF Typed
<1>7. \A n \in Names : UnbornIn(q, n) = {} /\ Cardinality(UnbornIn(q, n)) = 0
  BY <1>3, FS_EmptySet DEF UnbornIn
<1>8. BoundInv(q, lastId)
  <2>1. ASSUME NEW n \in Names PROVE lastId[n] + Cardinality(UnbornIn(q, n)) <= MaxId
    <3>1. lastId[n] \in 0 .. MaxId /\ Cardinality(UnbornIn(q, n)) = 0
      BY <1>5, <1>7
    <3> QED BY ONLY <3>1, HouseConstants
  <2> QED BY <2>1 DEF BoundInv
<1>9. \A s \in Slots : bld[s].owner = None
  BY <1>4 DEF NoBuilding
<1>10. CallersInv(q, at) /\ ReplyInv(q, row, left) /\ OrderInv(q)
  BY <1>3 DEF CallersInv, ReplyInv, OrderInv
<1>11. BirthInv(q, row, made, left)
  BY <1>3, <1>5 DEF BirthInv
<1>12. IdsInv(q, row, lastId, bld)
  <2>1. ASSUME NEW n \in Names PROVE row[n].id <= lastId[n]
    <3>1. row[n].id = lastId[n] /\ lastId[n] \in 0 .. MaxId
      BY <1>5
    <3> QED BY ONLY <3>1, HouseConstants
  <2> QED BY <1>3, <1>9, <2>1 DEF IdsInv
<1>13. OneHouse(q, bld) /\ KeptInv(bld, row, left)
  BY <1>9 DEF OneHouse, KeptInv
<1>14. SavedInv(q, bld, row, left)
  BY <1>3, <1>5 DEF SavedInv, Saved
<1>15. Sound(q, row, made, lastId, bld, at, left)
  BY <1>3, <1>6, <1>8, <1>10, <1>11, <1>12, <1>13, <1>14 DEF Sound
<1>16. /\ number \in [Names -> Slots \union {Town, None}]
       /\ tele \in [Names -> [num : Slots \union {Town, None}, owner : Names \union {None}]]
  BY <1>1, NowhereTyped
<1> QED BY <1>1, <1>2, <1>3, <1>15, <1>16 DEF Whole, Good

-----------------------------------------------------------------------------
(* The specification keeps all of it.                                        *)

LEMMA WholeStep ==
    ASSUME Whole, NobodyOutside, [Next]_vars
    PROVE  Whole'
<1>1. ASSUME NEW c \in Names, Act(c)
      PROVE  Whole'
  <2>1. CASE Create(c)
    BY <2>1, CreateWhole
  <2>2. CASE GetPosnTown(c)
    BY <2>2, GetPosnTownWhole
  <2>3. CASE \E s \in Slots : GetPosnHome(c, s)
    BY <2>3, GetPosnHomeWhole
  <2>4. CASE GetPosnLoad(c)
    BY <2>4, GetPosnLoadWhole
  <2>5. CASE \E n \in Names : GetHouseLoad(c, n)
    BY <2>5, GetHouseLoadWhole
  <2>6. CASE \E n \in Names : \E s \in Slots : GetHouse(c, n, s)
    BY <2>6, GetHouseWhole
  <2>7. CASE WalkOut(c)
    BY <2>7, WalkOutWhole
  <2>8. CASE ChangeRoomMisdirected(c)
    BY <2>8, MisdirectedWhole
  <2>9. CASE \E num \in Slots \union {Town} : ChangeRoom(c, num)
    BY <2>9, ChangeRoomWhole
  <2>10. CASE \E d \in Data : Redecorate(c, d)
    BY <2>10, RedecorateWhole
  <2>11. CASE HungUp(c)
    BY <2>11, HungUpWhole
  <2>12. CASE Destroy(c)
    BY <2>12, DestroyWhole
  <2> QED BY <1>1, <2>1, <2>2, <2>3, <2>4, <2>5, <2>6, <2>7, <2>8, <2>9, <2>10, <2>11, <2>12
             DEF Act
<1>2. CASE DmReceive
  BY <1>2, DmReceiveWhole
<1>3. CASE Receive
  BY <1>3, ReceiveWhole
<1>4. CASE Toss
  BY <1>4, TossWhole
<1>5. CASE SaveState
  BY <1>5, SaveStateWhole
<1>6. CASE Stop
  BY <1>6, StopWhole
<1>7. CASE Start
  BY <1>7, StartWhole
<1>8. CASE UNCHANGED vars
  <2>1. Good(rep', req', row', made', lastId', bld', at', left', loading', number', tele', up')
    BY <1>8 DEF vars, dmVars, charVars, Whole
  <2> QED BY <2>1, GoodNext
<1> QED BY <1>1, <1>2, <1>3, <1>4, <1>5, <1>6, <1>7, <1>8 DEF Next

LEMMA WholeHouses ==
    ASSUME Whole
    PROVE  TypeOK /\ LoadsAreMarked /\ OneBuilding /\ NothingIsLost
<1>1. /\ Sound(Flight, row, made, lastId, bld, at, left)
      /\ Typed(row, made, lastId, bld, at, left)
      /\ number \in [Names -> Slots \union {Town, None}]
      /\ tele \in [Names -> [num : Slots \union {Town, None}, owner : Names \union {None}]]
      /\ up \in BOOLEAN /\ loading \in Seq(Names)
      /\ up => LoadInv(Flight, loading)
  BY WholeFacts
<1>2. TypeOK
  BY <1>1 DEF TypeOK, Typed, Bldgs
<1>3. LoadsAreMarked
  BY <1>1 DEF LoadsAreMarked, LoadInv
<1>4. OneBuilding
  BY <1>1 DEF OneBuilding, Sound, OneHouse, Occupied, Live, Asked
<1>5. NothingIsLost
  BY <1>1 DEF NothingIsLost, Sound, KeptInv, Occupied, Live
<1> QED BY <1>2, <1>3, <1>4, <1>5

(* Houses and gLoadingHouses: the list of names is what is asked for of the  *)
(* data manager, though a reply takes its first name away whatever house it *)
(* brings (callbacks.cpp) and some take none; and a house is in memory once,*)
(* so that two visitors never change two copies of it.                      *)
THEOREM HousesInvHolds == Spec => []HousesInv
<1>1. Init => Whole /\ Inv
  BY InitWhole, HousesInit
<1>2. Whole /\ Inv /\ [Next]_vars => Whole' /\ Inv'
  BY WholeStep, HousesStep DEF Inv
<1>3. Whole /\ Inv => HousesInv
  BY WholeHouses DEF Inv, HousesInv
<1> QED BY <1>1, <1>2, <1>3, PTL DEF Spec

(* What is put in a house is there when it is loaded again, across the timer *)
(* that throws empty houses away, SAVE_STATE, deletions, logins that find    *)
(* it loading, shutdowns and crashes of the server: what was last left there *)
(* is in memory, or in the row, or in the newest write under way, and that   *)
(* write is before the request that loads the house again.                   *)
THEOREM NothingIsLostHolds == Spec => []NothingIsLost
<1>1. Init => Whole /\ Inv
  BY InitWhole, HousesInit
<1>2. Whole /\ Inv /\ [Next]_vars => Whole' /\ Inv'
  BY WholeStep, HousesStep DEF Inv
<1>3. Whole /\ Inv => NothingIsLost
  BY WholeHouses
<1> QED BY <1>1, <1>2, <1>3, PTL DEF Spec
=============================================================================
