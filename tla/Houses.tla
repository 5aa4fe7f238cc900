-------------------------------- MODULE Houses --------------------------------
(***************************************************************************)
(* The houses of characters (roommgr/rmroom.cpp Building, callbacks.cpp,   *)
(* and the handlers of rmplayer.cpp, datamgrclient.cpp and main.cpp that   *)
(* load, visit, save and delete them), and the table of houses of the data *)
(* manager.                                                                *)
(*                                                                         *)
(* A house is a row of the database.  It is loaded when somebody wants to  *)
(* go there, stays while somebody is inside, and is thrown away some       *)
(* pulses of a timer after the last one left.  gLoadingHouses lists the    *)
(* names of houses that have been asked for; a reply removes its first     *)
(* name, whatever house the reply is about, because the data manager       *)
(* answers in the order it was asked.                                      *)
(*                                                                         *)
(* A house has three rooms with numbers that follow each other, taken and  *)
(* given back together: here it is one room, its slot.  What lies in a     *)
(* house is one value, its data.  Everything that is no house is the one   *)
(* place Town, where no character is turned away.  The connection to the   *)
(* data manager is not lost.  A character's id in a message is replaced by *)
(* None when the character is deleted: ids are not used again.             *)
(***************************************************************************)
EXTENDS Integers, Sequences, FiniteSets, SequencesExt

CONSTANTS
    Names,      \* names of characters, which are names of houses
    Slots,      \* numbers of the rooms of houses
    Data,       \* what can lie in a house
    NewHouse,   \* what a new one has
    Delay,      \* disposeDelay of a house that gets empty: 5 in the code
    MaxId,      \* bound on the houses of one name, one after the other
    MaxQueue,   \* bound on the requests and replies under way
    \* where a character is that is in no house: see States
    Off, Making, Waiting, Placed, Lost, Town,
    None

ASSUME HouseConstants ==
    /\ Slots \subseteq Nat /\ NewHouse \in Data
    /\ Delay \in Nat /\ MaxId \in Nat /\ MaxQueue \in Nat
    /\ None \notin Names
    /\ Cardinality({Off, Making, Waiting, Placed, Lost, Town, None}) = 7
    /\ \A p \in {Off, Making, Waiting, Placed, Lost, Town, None} : p \notin Slots

ASSUME HouseBounds == IsFiniteSet(Slots) /\ MaxId > 0

VARIABLES
    row,      \* the rows of houses, by the name of the character
    made,     \* names that have a row of a character
    lastId,   \* the newest id of a house: it tells the houses of one name apart
    req, rep, \* messages to and from the data manager
    bld,      \* buildings in memory
    loading,  \* gLoadingHouses
    at,       \* where a character is
    number,   \* roomNumber of a character that knows where it is but is not there yet
    tele,     \* teleportRoomNum and teleportDestBuildingOwner
    up,       \* the server runs
    left      \* observer: what was last put in a character's house

dmVars   == <<row, made, lastId>>
charVars == <<at, number, tele>>
vars     == <<dmVars, req, rep, bld, loading, charVars, up, left>>

NoBuilding == [owner |-> None, id |-> 0, data |-> NewHouse, changed |-> FALSE, delay |-> 0]

\* The states of a character: its owner is at most at the choice of a
\* character; waits for NEW_CHAR; waits for its position; knows it; is in town;
\* is in a house; is in a room that has been deleted.
States == {Off, Making, Waiting, Placed, Lost, Town} \union Slots

Nowhere == [num |-> None, owner |-> None]

Init ==
    /\ made \in SUBSET Names
    /\ lastId = [n \in Names |-> IF n \in made THEN 1 ELSE 0]
    /\ row = [n \in Names |-> [id |-> lastId[n], data |-> NewHouse]]
    /\ req = <<>> /\ rep = <<>>
    /\ bld = [s \in Slots |-> NoBuilding]
    /\ loading = <<>>
    /\ at = [c \in Names |-> Off]
    /\ number = [c \in Names |-> None]
    /\ tele = [c \in Names |-> Nowhere]
    /\ up = TRUE
    /\ left = [n \in Names |-> NewHouse]

-----------------------------------------------------------------------------
(* Buildings. *)

Live(s)   == bld[s].owner # None
Inside(s) == {c \in Names : at[c] = s}

\* findHouse; the ones it finds get their full delay
Found(n) == {s \in Slots : bld[s].owner = n}
Touched(b) == [b EXCEPT !.delay = Delay]

\* a house somebody whose permanent house it becomes moves to another town
Settled(b) == {b} \union {[b EXCEPT !.data = d, !.changed = TRUE] : d \in Data}

\* allocateRoomID takes the lowest number that is free
FreeSlot(s) == ~Live(s) /\ \A t \in Slots : ~Live(t) => s <= t

House(n, id, d) ==
    [owner |-> n, id |-> id, data |-> d, changed |-> FALSE, delay |-> Delay]

\* writeHouseData of houses, in the order of a list
Write(b)      == [type |-> "write", name |-> b.owner, id |-> b.id, data |-> b.data]
Writes(order) == [i \in 1 .. Len(order) |-> Write(bld[order[i]])]
Orders(S)     == SetToSeqs(S)
Occupied      == {s \in Slots : Live(s)}

HasRoom(k) == Len(req) + Len(rep) + k <= MaxQueue

\* loadHouse: asks for a house, unless its name is in gLoadingHouses
LoadHouse_Again(n, c, callback) ==
    /\ HasRoom(1)
    /\ loading' = Append(loading, n)
    /\ req' = Append(req, [type |-> "get", name |-> n, caller |-> c, callback |-> callback])
LoadHouse(n, c, callback) ==
    IF \E i \in 1 .. Len(loading) : loading[i] = n
    THEN UNCHANGED <<loading, req>>
    ELSE /\ HasRoom(1)
         /\ loading' = Append(loading, n)
         /\ req' = Append(req, [type |-> "get", name |-> n, caller |-> c, callback |-> callback])

\* delPlayer and addPlayer of rooms and buildings for a character that goes
\* from one place to another
Moved(b, c, from, to) ==
    [s \in Slots |->
        IF s = from /\ from # to /\ Inside(s) = {c} THEN Touched(b[s]) ELSE b[s]]

\* setTeleportRoomNum
TeleTo(c, num) ==
    tele' = [tele EXCEPT ![c] =
                [num |-> num, owner |-> IF num \in Slots THEN bld'[num].owner ELSE None]]

\* the messages that name a character, once the character is deleted
Orphaned(q, c) ==
    [i \in 1 .. Len(q) |->
        IF "caller" \in DOMAIN q[i] /\ q[i].caller = c THEN [q[i] EXCEPT !.caller = None] ELSE q[i]]

-----------------------------------------------------------------------------
(* Characters. *)

\* what is under way to and from the data manager, the next reply first
Flight == rep \o req

\* houses of c that are still to be written for the first time
Unborn(c) == {i \in 1 .. Len(Flight) :
                Flight[i].type \in {"newchar", "char", "newhouse"} /\ Flight[i].name = c}

\* PLAYER_CREATE_CHARACTER
Create(c) ==
    /\ up /\ at[c] = Off /\ c \notin made /\ HasRoom(1)
    /\ lastId[c] + Cardinality(Unborn(c)) < MaxId
    /\ at' = [at EXCEPT ![c] = Making]
    /\ req' = Append(req, [type |-> "newchar", name |-> c, caller |-> c])
    /\ UNCHANGED <<dmVars, rep, bld, loading, number, tele, up, left>>

\* who logs in has the characters of the database, without those whose
\* deletion has been asked for before
Exists(c) == c \in made /\ \A i \in 1 .. Len(req) : req[i] # [type |-> "delete", name |-> c]

\* PLAYER_CHARACTER_LOGIN and then GET_POSN of a character that was last in town
GetPosnTown(c) ==
    /\ up /\ at[c] = Off /\ Exists(c)
    /\ at' = [at EXCEPT ![c] = Placed]
    /\ number' = [number EXCEPT ![c] = Town]
    /\ UNCHANGED bld /\ TeleTo(c, Town)
    /\ UNCHANGED <<dmVars, req, rep, loading, up, left>>

\* the character is told that it is in room s, its own house
PlacedAt(c, s) ==
    /\ at' = [at EXCEPT ![c] = Placed]
    /\ number' = [number EXCEPT ![c] = s]
    /\ TeleTo(c, s)

\* what a building in memory is changed to is what was left there; was is what
\* its data were
Remember(s, was) ==
    left' = IF bld'[s].data # was /\ bld'[s].id = row[bld'[s].owner].id
            THEN [left EXCEPT ![bld'[s].owner] = bld'[s].data] ELSE left

\* GET_POSN of a character that was last in a house, its own is in memory
GetPosnHome(c, s) ==
    /\ up /\ at[c] = Off /\ Exists(c) /\ s \in Found(c)
    /\ \E b \in Settled(Touched(bld[s])) : bld' = [bld EXCEPT ![s] = b]
    /\ PlacedAt(c, s) /\ Remember(s, bld[s].data)
    /\ UNCHANGED <<dmVars, req, rep, loading, up>>

\* the same, and the house has to be loaded: nothing is answered
GetPosnLoad(c) ==
    /\ up /\ at[c] = Off /\ Exists(c) /\ Found(c) = {}
    /\ LoadHouse(c, c, "posn")
    /\ at' = [at EXCEPT ![c] = Waiting]
    /\ UNCHANGED <<dmVars, rep, bld, number, tele, up, left>>

\* GET_HOUSE, or a spell: teleportHouse to a house in memory, or not in memory
GetHouse(c, n, s) ==
    /\ up /\ at[c] \in Slots \union {Town} /\ s \in Found(n)
    /\ \E b \in IF n = c THEN Settled(Touched(bld[s])) ELSE {Touched(bld[s])} :
            bld' = [bld EXCEPT ![s] = b]
    /\ TeleTo(c, s) /\ Remember(s, bld[s].data)
    /\ UNCHANGED <<dmVars, req, rep, loading, at, number, up>>

GetHouseLoad(c, n) ==
    /\ up /\ at[c] \in Slots \union {Town} /\ Found(n) = {}
    /\ LoadHouse(n, c, "tele")
    /\ UNCHANGED <<dmVars, rep, bld, at, number, tele, up, left>>

\* PLAYER_SHIFT_ROOM out of the front yard, and the server's other ways to
\* send a character to a place that is no house
WalkOut(c) ==
    /\ up /\ at[c] \in Slots
    /\ UNCHANGED bld /\ TeleTo(c, Town)
    /\ UNCHANGED <<dmVars, req, rep, loading, at, number, up, left>>

\* PLAYER_CHANGE_ROOM: the name does not match, the character stays
Misdirected_Never(c) == FALSE
Misdirected(c) ==
    /\ tele[c].num \in Slots /\ Live(tele[c].num)
    /\ tele[c].owner # bld[tele[c].num].owner

ChangeRoomMisdirected(c) ==
    /\ up /\ at[c] \in Slots \union {Placed, Town} /\ Misdirected(c)
    /\ tele' = [tele EXCEPT ![c] = Nowhere]
    /\ UNCHANGED <<dmVars, req, rep, bld, loading, at, number, up, left>>

\* the room it goes to: for one that logs in to a house, its own; findHouse
\* gives the house its full delay
Destination(c, num) ==
    IF at[c] = Placed /\ num \in Slots
    THEN IF Found(c) = {} THEN {Town} ELSE Found(c)
    ELSE {num}

\* a room that is not there, or the one it is in, is refused
CanEnter(c, to) == to # at[c] /\ (to = Town \/ to \in Occupied)

ChangeRoom(c, num) ==
    /\ up /\ ~Misdirected(c)
    /\ num # None
    /\ \/ at[c] \in Slots \union {Town} /\ num \in {tele[c].num, at[c]}
       \/ at[c] = Placed /\ num = number[c]
    /\ \E to \in Destination(c, num) :
        LET found == [s \in Slots |->
                        IF at[c] = Placed /\ num \in Slots /\ s = to THEN Touched(bld[s])
                        ELSE bld[s]]
        IN  IF CanEnter(c, to)
            THEN /\ bld' = Moved(found, c, at[c], to)
                 /\ at' = [at EXCEPT ![c] = to]
                 /\ number' = [number EXCEPT ![c] = None]
            ELSE bld' = found /\ UNCHANGED <<at, number>>
    /\ tele' = [tele EXCEPT ![c] = Nowhere]
    /\ UNCHANGED <<dmVars, req, rep, loading, up, left>>

Redecorate_Unmarked(c, d) ==
    /\ up /\ at[c] \in Slots
    /\ bld' = [bld EXCEPT ![at[c]].data = d]
    /\ Remember(at[c], bld[at[c]].data)
    /\ UNCHANGED <<dmVars, req, rep, loading, charVars, up>>

\* something is dropped or taken: addObject and delObject of the building
Redecorate(c, d) ==
    /\ up /\ at[c] \in Slots
    /\ bld' = [bld EXCEPT ![at[c]].data = d, ![at[c]].changed = TRUE]
    /\ Remember(at[c], bld[at[c]].data)
    /\ UNCHANGED <<dmVars, req, rep, loading, charVars, up>>

\* the character is deleted in memory: nothing finds its id any more
Forget(c) ==
    /\ at' = [at EXCEPT ![c] = Off]
    /\ number' = [number EXCEPT ![c] = None]
    /\ tele' = [tele EXCEPT ![c] = Nowhere]
    /\ rep' = Orphaned(rep, c)

\* CLIENT_HUNG_UP.  One whose room has been deleted under it leaves a room
\* that is not there: that it goes well is one outcome, Stop the other.
HungUp(c) ==
    /\ up /\ at[c] # Off
    /\ Forget(c) /\ req' = Orphaned(req, c)
    /\ bld' = Moved(bld, c, at[c], Off)
    /\ UNCHANGED <<dmVars, loading, up, left>>

\* PLAYER_DESTROY_CHARACTER.  Who is in the house is thrown out by closing
\* its connection, and stays in the deleted room until that is noticed.
Destroy(c) ==
    /\ up /\ Exists(c) /\ at[c] \in {Off, Waiting, Placed} /\ HasRoom(1)
    /\ number' = [number EXCEPT ![c] = None]
    /\ tele' = [tele EXCEPT ![c] = Nowhere]
    /\ rep' = Orphaned(rep, c)
    /\ req' = Append(Orphaned(req, c), [type |-> "delete", name |-> c])
    /\ bld' = [s \in Slots |-> IF s \in Found(c) THEN NoBuilding ELSE bld[s]]
    /\ at' = [d \in Names |-> IF d = c THEN Off
                              ELSE IF at[d] \in Found(c) THEN Lost ELSE at[d]]
    /\ UNCHANGED <<dmVars, loading, up, left>>

-----------------------------------------------------------------------------
(* The data manager takes a request. *)

DmGet(m) ==
    /\ rep' = Append(rep,
                [type |-> "house", name |-> m.name, caller |-> m.caller, callback |-> m.callback,
                 ok |-> row[m.name].id # 0, id |-> row[m.name].id, data |-> row[m.name].data])
    /\ UNCHANGED dmVars

\* the row of an id; there is none any more for the house of a deleted character
DmWrite(m) ==
    /\ row' = IF row[m.name].id = m.id THEN [row EXCEPT ![m.name].data = m.data] ELSE row
    /\ UNCHANGED <<made, lastId, rep>>

DmNewChar(m) ==
    /\ made' = made \union {m.name}
    /\ rep' = IF up THEN Append(rep, [type |-> "char", name |-> m.name, caller |-> m.caller,
                                      ok |-> m.name \notin made])
              ELSE rep
    /\ UNCHANGED <<row, lastId>>

DmNewHouse(m) ==
    /\ lastId' = [lastId EXCEPT ![m.name] = @ + 1]
    /\ row' = [row EXCEPT ![m.name] = [id |-> lastId'[m.name], data |-> NewHouse]]
    /\ UNCHANGED <<made, rep>>

\* the house is deleted with the character
DmDelete(m) ==
    /\ made' = made \ {m.name}
    /\ row' = [row EXCEPT ![m.name] = [id |-> 0, data |-> NewHouse]]
    /\ UNCHANGED <<lastId, rep>>

DmReceive ==
    /\ req # <<>>
    /\ LET m == Head(req)
       IN  \/ m.type = "get" /\ up /\ DmGet(m)
           \/ m.type = "get" /\ ~up /\ UNCHANGED <<dmVars, rep>>
           \/ m.type = "write" /\ DmWrite(m)
           \/ m.type = "newchar" /\ DmNewChar(m)
           \/ m.type = "newhouse" /\ DmNewHouse(m)
           \/ m.type = "delete" /\ DmDelete(m)
    /\ req' = Tail(req)
    /\ UNCHANGED <<bld, loading, charVars, up, left>>

-----------------------------------------------------------------------------
(* The game server takes a reply. *)

PopLoading == loading' = IF loading = <<>> THEN <<>> ELSE Tail(loading)

\* processHouseData
Loaded(s, b) == FreeSlot(s) /\ PopLoading /\ bld' = [bld EXCEPT ![s] = b]

\* cbGetPosnHouseLoad for a character that is gone: the reply is dropped
\* before anything is done with it
PosnDropped(m) ==
    /\ m.callback = "posn" /\ m.caller = None
    /\ UNCHANGED <<bld, loading, at, number, tele, left>>

\* cbGetPosnHouseLoad
PosnLoaded(m) ==
    /\ m.callback = "posn" /\ m.caller # None /\ m.ok
    /\ \E s \in Slots, b \in Settled(House(m.name, m.id, m.data)) :
        /\ Loaded(s, b)
        /\ PlacedAt(m.caller, s) /\ Remember(s, m.data)

PosnFailed(m) ==
    /\ m.callback = "posn" /\ m.caller # None /\ ~m.ok
    /\ PopLoading
    /\ at' = [at EXCEPT ![m.caller] = Placed]
    /\ number' = [number EXCEPT ![m.caller] = Town]
    /\ UNCHANGED <<bld, left>> /\ TeleTo(m.caller, Town)

\* cbTeleportHouse
TeleLoaded(m) ==
    /\ m.callback = "tele" /\ m.ok
    /\ \E s \in Slots,
          b \in IF m.name = m.caller THEN Settled(House(m.name, m.id, m.data))
                ELSE {House(m.name, m.id, m.data)} :
        /\ Loaded(s, b)
        /\ IF m.caller = None THEN UNCHANGED tele ELSE TeleTo(m.caller, s)
        /\ Remember(s, m.data)
    /\ UNCHANGED <<at, number>>

TeleFailed(m) ==
    /\ m.callback = "tele" /\ ~m.ok
    /\ PopLoading
    /\ UNCHANGED <<bld, at, number, tele, left>>

\* The reply to NEW_CHAR: a house from the template is written as a new one,
\* and deleted in memory again.  A character whose owner is gone gets none.
NewCharReply(m) ==
    /\ m.type = "char"
    /\ at' = IF m.caller = None THEN at ELSE [at EXCEPT ![m.caller] = Off]
    /\ IF m.caller # None /\ m.ok
       THEN /\ req' = Append(req, [type |-> "newhouse", name |-> m.name])
            /\ left' = [left EXCEPT ![m.name] = NewHouse]
       ELSE UNCHANGED <<req, left>>
    /\ UNCHANGED <<bld, loading, number, tele>>

Receive ==
    /\ up /\ rep # <<>>
    /\ LET m == Head(rep)
       IN  \/ /\ m.type = "house"
              /\ \/ PosnDropped(m) \/ PosnLoaded(m) \/ PosnFailed(m)
                 \/ TeleLoaded(m) \/ TeleFailed(m)
              /\ UNCHANGED req
           \/ NewCharReply(m)
    /\ rep' = Tail(rep)
    /\ UNCHANGED <<dmVars, up>>

-----------------------------------------------------------------------------
(* Timers, shutdown and crash. *)

Empty == {s \in Occupied : Inside(s) = {}}
Due   == {s \in Empty : bld[s].delay < 1}

\* TOSS_DEAD_HOUSES
Toss ==
    /\ up
    /\ \E order \in Orders({s \in Due : bld[s].changed}) :
        HasRoom(Len(order)) /\ req' = req \o Writes(order)
    /\ bld' = [s \in Slots |->
                IF s \in Due THEN NoBuilding
                ELSE IF s \in Empty THEN [bld[s] EXCEPT !.delay = @ - 1]
                ELSE bld[s]]
    /\ Empty # {}
    /\ UNCHANGED <<dmVars, rep, loading, charVars, up, left>>

\* SAVE_STATE, once a minute
SaveState ==
    /\ up
    /\ \E order \in Orders(Occupied) :
        HasRoom(Len(order)) /\ req' = req \o Writes(order)
    /\ Occupied # {}
    /\ UNCHANGED <<dmVars, rep, bld, loading, charVars, up, left>>

\* The server ends: by a shutdown, or by a crash in whose handler it still
\* does the same.  It does not end before all has been sent.
Stop ==
    /\ up /\ up' = FALSE
    /\ \E order \in Orders(Occupied) :
        req' = [i \in 1 .. Len(req) |->
                  IF "caller" \in DOMAIN req[i] THEN [req[i] EXCEPT !.caller = None] ELSE req[i]]
               \o Writes(order)
    /\ rep' = <<>>
    /\ bld' = [s \in Slots |-> NoBuilding]
    /\ loading' = <<>>
    /\ at' = [c \in Names |-> Off]
    /\ number' = [c \in Names |-> None]
    /\ tele' = [c \in Names |-> Nowhere]
    /\ UNCHANGED <<dmVars, left>>

\* it is started again after the data manager has read what was sent
Start ==
    /\ ~up /\ req = <<>>
    /\ up' = TRUE
    /\ UNCHANGED <<dmVars, req, rep, bld, loading, charVars, left>>

Act(c) ==
    \/ Create(c)
    \/ GetPosnTown(c) \/ (\E s \in Slots : GetPosnHome(c, s)) \/ GetPosnLoad(c)
    \/ \E n \in Names : GetHouseLoad(c, n) \/ \E s \in Slots : GetHouse(c, n, s)
    \/ WalkOut(c)
    \/ ChangeRoomMisdirected(c) \/ \E num \in Slots \union {Town} : ChangeRoom(c, num)
    \/ \E d \in Data : Redecorate(c, d)
    \/ HungUp(c) \/ Destroy(c)

Next == (\E c \in Names : Act(c)) \/ DmReceive \/ Receive \/ Toss \/ SaveState \/ Stop \/ Start

Spec == Init /\ [][Next]_vars

-----------------------------------------------------------------------------
(* Properties. *)

TypeOK ==
    /\ row \in [Names -> [id : 0 .. MaxId, data : Data]]
    /\ made \subseteq Names /\ lastId \in [Names -> 0 .. MaxId]
    /\ bld \in [Slots -> [owner : Names \union {None}, id : 0 .. MaxId, data : Data,
                          changed : BOOLEAN, delay : 0 .. Delay]]
    /\ loading \in Seq(Names)
    /\ at \in [Names -> States]
    /\ number \in [Names -> Slots \union {Town, None}]
    /\ tele \in [Names -> [num : Slots \union {Town, None}, owner : Names \union {None}]]
    /\ left \in [Names -> Data]

\* the houses under way, in the order they were asked for
AskedIn(q) == {i \in 1 .. Len(q) : q[i].type \in {"get", "house"}}
Asked      == AskedIn(Flight)

\* the houses that q is about are the last of the list, in their order
Marked(q, list) ==
    /\ \A i \in AskedIn(q) : \E k \in 1 .. Len(list) : list[k] = q[i].name
    /\ \A i, j \in AskedIn(q), k, l \in 1 .. Len(list) :
          i < j /\ list[k] = q[i].name /\ list[l] = q[j].name => k < l
    /\ \A i \in AskedIn(q), k, l \in 1 .. Len(list) :
          k < l /\ list[k] = q[i].name => \E j \in AskedIn(q) : list[l] = q[j].name

\* The houses under way are the last of gLoadingHouses, though a reply removes
\* its first name whatever house it is about, and some replies remove none:
\* no house is asked for twice at a time.
LoadsAreMarked == up => Marked(Flight, loading) /\ IsInjective(loading)

\* A house is in memory once, and not at all while it is asked for.
OneBuilding ==
    /\ \A s, t \in Occupied : bld[s].owner = bld[t].owner => s = t
    /\ up => \A s \in Occupied, i \in Asked : bld[s].owner # Flight[i].name

\* Characters are in rooms that exist.
NobodyOutside == \A c \in Names : at[c] \in Slots => Live(at[c])

HousesInv == TypeOK /\ LoadsAreMarked /\ OneBuilding /\ NobodyOutside

\* Who finds its house in memory finds what was last put there, whatever loads,
\* writes, deletions and restarts there were in between.  The building of a
\* character that was deleted while the house was asked for is not its house.
NothingIsLost ==
    \A s \in Occupied : bld[s].id = row[bld[s].owner].id => bld[s].data = left[bld[s].owner]

\* Who enters a house enters its own or the one it was last sent to, though the
\* number it was told may belong to another house by the time it gets there.
ArrivesAtName ==
    [][\A c \in Names : at'[c] \in Slots /\ at'[c] # at[c] =>
           bld'[at'[c]].owner \in {c, tele[c].owner}]_vars

\* rmroom.cpp:1167-1177: "check to see if this house is already loading ... we
\* are loading, exit": the names of gLoadingHouses are houses under way.
MarkersAreLoads ==
    up => \A i \in 1 .. Len(loading) : \E j \in Asked : Flight[j].name = loading[i]
=============================================================================
