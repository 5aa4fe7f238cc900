----------------------------- MODULE DungeonQueue ------------------------------
(***************************************************************************)
(* A dungeon of a game server: the line in front of its entrance, the      *)
(* instances (class Zone) that are spawned for those who enter, and the    *)
(* shutdown of the empty ones (roommgr/zone.cpp, main.cpp, rmplayer.cpp).  *)
(*                                                                         *)
(* A player joins the line at the door (GET_ENTRY_INFO).  Every 15 seconds *)
(* a pulse calls the head of the line, with its group, into the open       *)
(* instance, closes that one and spawns the next.  A called player is in   *)
(* the line until its client answers the teleport (CHANGE_ROOM).  An       *)
(* instance whose players have left is deleted a number of pulses later,   *)
(* and its room number is used again.                                      *)
(*                                                                         *)
(* One dungeon: entrances in different rooms share nothing but the table   *)
(* of instance numbers.  An instance is one room, whose number is that of  *)
(* the instance.  The entrance is always open: the pulse closes it, spawn  *)
(* opens it, and an OCCUPIED door cannot be closed by hand.  Instances     *)
(* with external NPCs, which put off a shutdown as players do, are left    *)
(* out, and so is the waiting for a house to be loaded at login.           *)
(*                                                                         *)
(* gSpawnTotal never gives out an id twice.  Here an id is used again once *)
(* nothing names it - no instance, no character - except the first, 0.     *)
(***************************************************************************)
EXTENDS Integers, FiniteSets, SequencesExt, LinkedLists

CONSTANTS
    Players,
    Slots,        \* room numbers of instances, 0 .. _MAX_INSTANCE - 1
    Door,         \* the room of the entrance, in a zone with other rooms (hub)
    Town,         \* all other rooms, a player's house too
    Ids,          \* values of Zone::id
    Ticks,        \* dungeonShutdownTimer, 60 in the code
    MaxLive,      \* bound: instances at a time; with so many, nobody is called in
    Grouping,     \* may players form a group?
    None

Rooms == Slots \union {Door, Town}

ASSUME DungeonConstants ==
    /\ Slots \subseteq Nat /\ Ids \subseteq Nat
    /\ 0 \in Slots /\ 0 \in Ids
    /\ Ticks \in Nat \ {0}
    /\ MaxLive \in Nat
    /\ Grouping \in BOOLEAN
    /\ Door # Town /\ Door \notin Slots /\ Town \notin Slots
    /\ None \notin Rooms \union Ids

VARIABLES
    zones,           \* gZones, by Zone::id
    dest,            \* BEntry::room of the entrance
    queue,           \* dungeonEntranceArray[entrance->strength] of the hub zone
    online,          \* players with a character
    room,            \* RMPlayer::room
    teleportRoomNum,
    dungeonEntrance, \* players whose RMPlayer::dungeonEntrance is the entrance
    fighting,        \* players in a combatGroup
    group,           \* the members of the group, {} when there is none
    roomNumber,      \* WorldObject::roomNumber, kept in the character's record
    lastDungeon,     \* BCharacter::lastDungeon, kept in the character's record
    seat             \* observer: the instance the character was last in, or None

lineVars == <<queue, dungeonEntrance>>
charVars == <<roomNumber, lastDungeon, seat>>
vars == <<zones, dest, lineVars, online, room, teleportRoomNum, fighting, group,
          charVars>>

\* "open": ~didClose, takes the next party; "closed": didClose
Zone == [st : {"open", "closed"}, slot : Slots, timer : 0 .. Ticks,
         players : SUBSET Players]
NoZone == [st |-> "none", players |-> {}]

TypeOK ==
    /\ zones \in [Ids -> Zone \union {NoZone}]
    /\ dest \in Slots
    /\ queue \in Seq(Players)
    /\ online \subseteq Players
    /\ room \in [Players -> Rooms \union {None}]
    /\ teleportRoomNum \in [Players -> Rooms \union {None}]
    /\ dungeonEntrance \subseteq online
    /\ fighting \subseteq online
    /\ group \subseteq online
    /\ roomNumber \in [Players -> Rooms]
    /\ lastDungeon \in [Players -> Ids]
    /\ seat \in [Players -> Ids \union {None}]

-----------------------------------------------------------------------------
(* Instances. *)

NewZone(s)  == [st |-> "open", slot |-> s, timer |-> 0, players |-> {}]
Live(zs)    == {i \in Ids : zs[i].st # "none"}

\* instance numbers that are free; values that gSpawnTotal may have next
FreeSlots(zs) == Slots \ {zs[i].slot : i \in Live(zs)}
FreshIds(zs)  == Ids \ ({0} \union Live(zs) \union {lastDungeon[p] : p \in Players}
                                        \union {seat[p] : p \in Players})
Lowest(S, x)  == x \in S /\ \A y \in S : x <= y

\* the instance that has this room now
Owner(r)    == {i \in Live(zones) : zones[i].slot = r}
FindRoom(r) == r \in {Door, Town} \/ Owner(r) # {}

\* main spawns the first instance: ids and instance numbers count from 0
Init ==
    /\ zones = [i \in Ids |-> IF i = 0 THEN NewZone(0) ELSE NoZone]
    /\ dest = 0
    /\ queue = <<>>
    /\ online = {} /\ dungeonEntrance = {} /\ fighting = {} /\ group = {}
    /\ room = [p \in Players |-> None]
    /\ teleportRoomNum = [p \in Players |-> None]
    /\ roomNumber = [p \in Players |-> Town]
    /\ lastDungeon = [p \in Players |-> 0]
    /\ seat = [p \in Players |-> None]

-----------------------------------------------------------------------------
(* Mutants: plausible bugs in the operations below. *)

\* delPlayerFromQueue forgets pQ->del
QueueWithout_Kept(p) == queue

\* delPlayerFromQueue forgets "dungeonEntrance = NULL"
EntranceWithout_Kept(p) == dungeonEntrance

\* the countdown starts by counting down
Countdown_NoStart(t) == t - 1

\* the countdown starts again at one, not at zero
Countdown_Early(t) == IF t <= 1 THEN Ticks ELSE t - 1

\* spawn does not link the entrance to the new instance
Linked_Not(s) == dest

\* login only looks whether the room exists
DungeonWasReset_NoId(p) == lastDungeon[p] # 0 /\ ~FindRoom(roomNumber[p])

\* the head of the line goes in only with the whole of its group
Called_All ==
    IF queue = <<>> THEN {}
    ELSE LET party == IF Head(queue) \in group THEN group ELSE {Head(queue)}
         IN  IF \A p \in party : room[p] = Door /\ p \notin fighting
             THEN party ELSE {}

-----------------------------------------------------------------------------
(* The line. *)

Lined(p) == IF p \in ToSet(queue) THEN queue ELSE Append(queue, p)

\* only the hub zone has the line: in other zones the array entry is NULL
InLine(p) == p \in dungeonEntrance /\ room[p] = Door /\ p \in ToSet(queue)

QueueWithout(p)    == IF InLine(p) THEN Without(queue, p) ELSE queue
EntranceWithout(p) == IF InLine(p) THEN dungeonEntrance \ {p} ELSE dungeonEntrance

DelPlayerFromQueue(p) ==
    /\ queue' = QueueWithout(p)
    /\ dungeonEntrance' = EntranceWithout(p)

\* the instances without p (Zone::delPlayer)
Left(p) == [i \in Ids |-> [zones[i] EXCEPT !.players = @ \ {p}]]

\* p, out of line, goes from its room to r (RMRoom::delPlayer, addPlayer): it is
\* counted in an instance unless it is taken for somebody in the line
Arrive(p, r) ==
    LET waits == r \in Slots /\ p \in EntranceWithout(p)
        here  == IF waits THEN {} ELSE Owner(r)
    IN  /\ room' = [room EXCEPT ![p] = r]
        /\ roomNumber' = [roomNumber EXCEPT ![p] = r]
        /\ zones' = [i \in Ids |-> IF i \in here
                                   THEN [Left(p)[i] EXCEPT !.players = @ \union {p}]
                                   ELSE Left(p)[i]]
        /\ lastDungeon' = [lastDungeon EXCEPT ![p] = IF here = {} THEN 0 ELSE Min(here)]
        /\ seat' = [seat EXCEPT ![p] = IF here = {} THEN None ELSE Min(here)]
        /\ queue' = IF waits THEN Lined(p) ELSE QueueWithout(p)
        /\ dungeonEntrance' = EntranceWithout(p)

Stay(p) ==
    /\ DelPlayerFromQueue(p)
    /\ UNCHANGED <<zones, room, charVars>>

-----------------------------------------------------------------------------
(* Requests of clients. *)

\* a character's record is loaded
Login(p) ==
    /\ p \notin online
    /\ online' = online \union {p}
    /\ UNCHANGED <<zones, dest, lineVars, room, teleportRoomNum, fighting, group, charVars>>

\* "the dungeon that you were in when you logged out last has been reset"
DungeonWasReset(p) ==
    /\ lastDungeon[p] # 0
    /\ FindRoom(roomNumber[p]) =>
          roomNumber[p] \in Slots /\ lastDungeon[p] \notin Owner(roomNumber[p])

\* a character without a room is told where it is: where it was, or at home
GetPosn(p) ==
    LET home  == DungeonWasReset(p) \/ ~FindRoom(roomNumber[p])
        where == IF home THEN Town ELSE roomNumber[p]
    IN  /\ p \in online /\ room[p] = None
        /\ lastDungeon' = [lastDungeon EXCEPT ![p] = IF DungeonWasReset(p) THEN 0 ELSE @]
        /\ roomNumber' = [roomNumber EXCEPT ![p] = where]
        /\ teleportRoomNum' = [teleportRoomNum EXCEPT ![p] = where]
        /\ UNCHANGED <<zones, dest, lineVars, online, room, fighting, group, seat>>

\* the client answers a teleport
ChangeRoom(p) ==
    LET r == teleportRoomNum[p]
    IN  /\ p \in online /\ r # None
        /\ teleportRoomNum' = [teleportRoomNum EXCEPT ![p] = None]
        /\ IF p \notin fighting /\ room[p] # r /\ FindRoom(r) THEN Arrive(p, r) ELSE Stay(p)
        /\ UNCHANGED <<dest, online, fighting, group>>

\* walking (SHIFT_ROOM) outside of the dungeon; a full room turns p away
Walk(p) ==
    /\ p \in online /\ room[p] \in {Door, Town}
    /\ \/ /\ p \notin fighting
          /\ Arrive(p, IF room[p] = Door THEN Town ELSE Door)
          /\ teleportRoomNum' = [teleportRoomNum EXCEPT ![p] = None]
       \/ /\ Stay(p)
          /\ UNCHANGED teleportRoomNum
    /\ UNCHANGED <<dest, online, fighting, group>>

\* GET_ENTRY_INFO at the entrance: always on the queue
JoinLine(p) ==
    /\ p \in online /\ room[p] = Door
    /\ FindRoom(dest)
    /\ dungeonEntrance' = dungeonEntrance \union {p}
    /\ queue' = Lined(p)
    /\ UNCHANGED <<zones, dest, online, room, teleportRoomNum, fighting, group, charVars>>

\* GET_ENTRY_INFO at the inner side of the door
LeaveByDoor(p) ==
    /\ p \in online /\ room[p] \in Slots
    /\ teleportRoomNum' = [teleportRoomNum EXCEPT ![p] = Door]
    /\ UNCHANGED <<zones, dest, lineVars, online, room, fighting, group, charVars>>

\* "Selecting 'Close' exits you from the Queue."
Close(p) ==
    /\ p \in dungeonEntrance /\ room[p] # None
    /\ DelPlayerFromQueue(p)
    /\ UNCHANGED <<zones, dest, online, room, teleportRoomNum, fighting, group, charVars>>

\* a guide or a gate teleports p away from the door (WorldObject::teleport)
Teleport(p) ==
    /\ p \in online /\ room[p] = Door
    /\ teleportRoomNum' = [teleportRoomNum EXCEPT ![p] = Town]
    /\ fighting' = fighting \ {p}
    /\ UNCHANGED <<zones, dest, lineVars, online, room, group, charVars>>

\* combat where the line is: each member of a party that is engaged leaves it
StartFight(p) ==
    /\ p \in online \ fighting /\ room[p] = Door
    /\ fighting' = fighting \union {p}
    /\ DelPlayerFromQueue(p)
    /\ UNCHANGED <<zones, dest, online, room, teleportRoomNum, group, charVars>>

EndFight(p) ==
    /\ p \in fighting
    /\ fighting' = fighting \ {p}
    /\ UNCHANGED <<zones, dest, lineVars, online, room, teleportRoomNum, group, charVars>>

JoinGroup(p, l) ==
    /\ Grouping /\ {p, l} \subseteq online /\ p # l /\ p \notin group
    /\ group = {} \/ l \in group
    /\ group' = group \union {p, l}
    /\ UNCHANGED <<zones, dest, lineVars, online, room, teleportRoomNum, fighting, charVars>>

\* the leader's leaving, or the last member's but one, disbands the group; who
\* leads is not kept
Ungroup(p) ==
    IF p \notin group THEN group' = group
    ELSE group' \in {{}} \union (IF Cardinality(group) > 2 THEN {group \ {p}} ELSE {})

LeaveGroup(p) ==
    /\ p \in group
    /\ Ungroup(p)
    /\ UNCHANGED <<zones, dest, lineVars, online, room, teleportRoomNum, fighting, charVars>>

\* HUNG_UP saves the character as it is; ~RMPlayer then takes it out of everything
Logout(p) ==
    /\ p \in online
    /\ online' = online \ {p}
    /\ queue' = QueueWithout(p)
    /\ dungeonEntrance' = dungeonEntrance \ {p}
    /\ fighting' = fighting \ {p}
    /\ Ungroup(p)
    /\ zones' = Left(p)
    /\ room' = [room EXCEPT ![p] = None]
    /\ teleportRoomNum' = [teleportRoomNum EXCEPT ![p] = None]
    /\ UNCHANGED <<dest, charVars>>

-----------------------------------------------------------------------------
(* The pulse. *)

Countdown(t) == IF t = 0 THEN Ticks ELSE t - 1

\* an instance that has been closed: it is deleted when its countdown ends
Idle(z) ==
    IF z.players # {} THEN [z EXCEPT !.timer = 0]
    ELSE IF z.timer > 0 /\ Countdown(z.timer) = 0 THEN NoZone
    ELSE [z EXCEPT !.timer = Countdown(@)]

\* whom enterFromQueue sends in: the head of the line and its group, as many as
\* can go; the line stays as it is, for delPlayerFromQueue is called on the
\* dungeon and not on the hub
Called ==
    IF queue = <<>> THEN {}
    ELSE LET party == IF Head(queue) \in group THEN group ELSE {Head(queue)}
         IN  {p \in party : /\ teleportRoomNum[p] = None
                            /\ p \notin fighting
                            /\ room[p] = Door}

\* where the entrance leads when an instance with this room has been spawned
Linked(s) == s

\* The open instance is the last that was spawned, so the closed ones come
\* first in gZones
Idled == [i \in Ids |-> IF zones[i].st = "closed" THEN Idle(zones[i]) ELSE zones[i]]

\* spawn, with the instance that was open closed behind the party
Spawned(slot, id) ==
    [i \in Ids |-> IF i = id THEN NewZone(slot)
                   ELSE IF zones[i].st = "open" THEN [zones[i] EXCEPT !.st = "closed"]
                   ELSE Idled[i]]

MaySpawn == /\ Called # {}
            /\ Cardinality(Live(Idled)) < MaxLive
            /\ FreeSlots(Idled) # {} /\ FreshIds(Idled) # {}

Pulse ==
    /\ \/ /\ ~MaySpawn
          /\ zones' = Idled
          /\ UNCHANGED <<dest, teleportRoomNum>>
       \/ /\ MaySpawn
          /\ \E slot \in Slots, id \in Ids :
                /\ Lowest(FreeSlots(Idled), slot) /\ Lowest(FreshIds(Idled), id)
                /\ zones' = Spawned(slot, id)
                /\ dest' = Linked(slot)
          /\ teleportRoomNum' =
                [p \in Players |-> IF p \in Called THEN dest ELSE teleportRoomNum[p]]
    /\ UNCHANGED <<lineVars, online, room, fighting, group, charVars>>

-----------------------------------------------------------------------------
ByPlayer(p) ==
    \/ Login(p) \/ GetPosn(p) \/ ChangeRoom(p) \/ Walk(p) \/ LeaveByDoor(p)
    \/ JoinLine(p) \/ Close(p) \/ Teleport(p) \/ StartFight(p) \/ EndFight(p)
    \/ \E l \in Players : JoinGroup(p, l)
    \/ LeaveGroup(p) \/ Logout(p)

Next == Pulse \/ \E p \in Players : ByPlayer(p)

Spec == Init /\ [][Next]_vars

\* the timer of the pulse, and combats that end
FairSpec == Spec /\ WF_vars(Pulse) /\ \A p \in Players : WF_vars(EndFight(p))

-----------------------------------------------------------------------------
(* Properties. *)

(* Who is in the line stands at the door, logged in, and once: it never holds *)
(* the pointer of a player that is gone (delPlayerFromQueue at every way out  *)
(* of the room).                                                              *)
LineIsAtTheDoor ==
    /\ \A p \in ToSet(queue) : p \in online /\ room[p] = Door /\ p \in dungeonEntrance
    /\ Distinct(queue)

(* Who is in an instance's room is counted by it, and by no other, and the    *)
(* room number belongs to one instance: the shutdown looks at Zone::players   *)
(* only, and ~RMRoom would end the server with "trying to destroy a player on *)
(* disposal of room".                                                         *)
InsideIsCounted ==
    /\ \A p \in Players :
          room[p] \in Slots => \E i \in Owner(room[p]) : p \in zones[i].players
    /\ \A i \in Live(zones) : \A p \in zones[i].players : room[p] = zones[i].slot
    /\ \A i, j \in Live(zones) : zones[i].slot = zones[j].slot => i = j

(* The entrance leads to the one instance that is open: a party is never      *)
(* called into one that was closed behind another, and never to a room that   *)
(* does not exist (enterFromQueue, spawn, linkEntry).                         *)
EntranceLeadsToOpen ==
    \E i \in Live(zones) :
        /\ {j \in Live(zones) : zones[j].st = "open"} = {i}
        /\ dest = zones[i].slot

(* The line, the instances and who is in them agree, at every way in and out. *)
DungeonInv == TypeOK /\ LineIsAtTheDoor /\ InsideIsCounted

(* process_IPC_GET_POSN sends a character that was last in a dungeon back     *)
(* only while the instance it was in lives, whoever has its room number now;  *)
(* and the character arrives there unless that instance has been deleted      *)
(* since. Not more than that: CHANGE_ROOM looks up the room number and asks   *)
(* for no id, so a client that answers after the deletion gets into the       *)
(* instance that has the number then. And not so for the first instance of a  *)
(* server: its id is 0, which lastDungeon takes for "not in a dungeon".       *)
SentBack(p) ==
    room[p] = None /\ teleportRoomNum[p] = None /\ teleportRoomNum'[p] \in Slots
        => seat[p] \in Owner(teleportRoomNum'[p])
ComesBack(p) ==
    room[p] = None /\ room'[p] \in Slots
        => seat'[p] = seat[p] \/ seat[p] \in Ids \ Live(zones)
ReturnsUnlessFirst ==
    [][\A p \in Players : seat[p] # 0 => SentBack(p) /\ ComesBack(p)]_vars

(* If every client that is teleported answers, and instances end so that      *)
(* there is room for another (MaxLive; without it the code gives up), whoever *)
(* waits in the line gets in or leaves it: nobody waits behind a head that    *)
(* enterFromQueue skips for ever.                                             *)
ClientsAnswer ==
    \A p \in Players : teleportRoomNum[p] # None ~> teleportRoomNum[p] = None
InstancesEnd == []<>(Cardinality(Live(zones)) < MaxLive)
LineMoves ==
    ClientsAnswer /\ InstancesEnd
        => \A p \in Players : p \in ToSet(queue) ~> p \notin ToSet(queue)

(* An instance that was closed is deleted in the end or has somebody in it.   *)
EmptyDungeonEnds ==
    \A i \in Ids :
        zones[i].st = "closed" ~> (zones[i].st # "closed" \/ zones[i].players # {})
=============================================================================
