-------------------------- MODULE DungeonQueue_proofs ---------------------------
(***************************************************************************)
(* The line, the instances and who is in them, for any number of players,*)
(* instances and ticks.                                                  *)
(*                                                                       *)
(* What makes the invariants inductive: whoever has dungeonEntrance is in  *)
(* the line, so at the door, so delPlayerFromQueue never gives up halfway, *)
(* and a player that arrives in an instance is never taken for one that    *)
(* waits (LineComplete); and a character whose room number is that of an   *)
(* instance has that instance's id in its record (SeatInv). For the return *)
(* into an instance: who was told to go there was in it, and it keeps its  *)
(* number as long as it lives (BackInv).                                   *)
(***************************************************************************)
EXTENDS DungeonQueue, SequenceTheorems, FiniteSetTheorems, TLAPS

-----------------------------------------------------------------------------
(* Lists and queues: what their operations keep and lose. *)

LEMMA Members ==
    ASSUME NEW S, NEW s \in Seq(S)
    PROVE  /\ Len(s) \in Nat
           /\ \A i \in 1 .. Len(s) : s[i] \in S /\ s[i] \in ToSet(s)
           /\ \A x : x \in ToSet(s) <=> \E i \in 1 .. Len(s) : s[i] = x
           /\ ToSet(s) \subseteq S
BY LenProperties, ElementOfSeq DEF ToSet

LEMMA AppendOf ==
    ASSUME NEW S, NEW s \in Seq(S), NEW e \in S
    PROVE  /\ Append(s, e) \in Seq(S) /\ Len(Append(s, e)) = Len(s) + 1 /\ Len(s) \in Nat
           /\ \A i \in 1 .. Len(s) : Append(s, e)[i] = s[i]
           /\ Append(s, e)[Len(s) + 1] = e
           /\ ToSet(Append(s, e)) = ToSet(s) \union {e}
           /\ Distinct(s) /\ e \notin ToSet(s) => Distinct(Append(s, e))
<1> DEFINE t == Append(s, e)
<1>1. /\ t \in Seq(S) /\ Len(t) = Len(s) + 1 /\ Len(s) \in Nat
      /\ \A i \in 1 .. Len(s) : t[i] = s[i]
      /\ t[Len(s) + 1] = e
  BY AppendProperties, LenProperties
<1>2. DOMAIN s = 1 .. Len(s) /\ DOMAIN t = 1 .. Len(s) + 1
  BY <1>1, LenProperties
<1> HIDE DEF t
<1>3. ToSet(t) = ToSet(s) \union {e}
  BY <1>1, <1>2 DEF ToSet
<1>4. Distinct(s) /\ e \notin ToSet(s) => Distinct(t)
  BY <1>1, <1>2 DEF ToSet, Distinct
<1> QED BY <1>1, <1>3, <1>4 DEF t

LEMMA ConcatOf ==
    ASSUME NEW S, NEW s \in Seq(S), NEW t \in Seq(S)
    PROVE  /\ s \o t \in Seq(S) /\ Len(s \o t) = Len(s) + Len(t) /\ Len(s) \in Nat /\ Len(t) \in Nat
           /\ \A i \in 1 .. Len(s) : (s \o t)[i] = s[i]
           /\ \A i \in 1 .. Len(t) : (s \o t)[Len(s) + i] = t[i]
<1>1. Len(s) \in Nat /\ Len(t) \in Nat
  BY LenProperties
<1>2. /\ s \o t \in Seq(S) /\ Len(s \o t) = Len(s) + Len(t)
      /\ \A i \in 1 .. Len(s) + Len(t) :
            (s \o t)[i] = IF i <= Len(s) THEN s[i] ELSE t[i - Len(s)]
  BY ConcatProperties
<1>3. \A i \in 1 .. Len(t) : Len(s) + i \in 1 .. Len(s) + Len(t) /\ ~(Len(s) + i <= Len(s))
                             /\ (Len(s) + i) - Len(s) = i
  BY <1>1
<1>4. \A i \in 1 .. Len(t) : (s \o t)[Len(s) + i] = t[i]
  BY <1>2, <1>3
<1>5. \A i \in 1 .. Len(s) : (s \o t)[i] = s[i]
  BY <1>1, <1>2
<1> QED BY <1>1, <1>2, <1>4, <1>5

\* LinkedList::del takes out one element, which is all there is of it
LEMMA WithoutOf ==
    ASSUME NEW S, NEW s \in Seq(S), Distinct(s), NEW c
    PROVE  /\ Without(s, c) \in Seq(S) /\ Distinct(Without(s, c))
           /\ ToSet(Without(s, c)) = ToSet(s) \ {c}
<1>0. Len(s) \in Nat /\ DOMAIN s = 1 .. Len(s) /\ \A i \in 1 .. Len(s) : s[i] \in S
  BY LenProperties, ElementOfSeq
<1>1. CASE c \notin ToSet(s)
  BY <1>1 DEF Without
<1>2. CASE c \in ToSet(s)
  <2> DEFINE p == CHOOSE i \in 1 .. Len(s) : s[i] = c
             front == SubSeq(s, 1, p - 1)
             back == SubSeq(s, p + 1, Len(s))
             w == front \o back
  <2>1. p \in 1 .. Len(s) /\ s[p] = c
    BY <1>0, <1>2 DEF ToSet
  <2> HIDE DEF p
  <2>2. front \in Seq(S) /\ Len(front) = p - 1 /\ \A i \in 1 .. p - 1 : front[i] = s[i]
    <3>1. 1 \in Int /\ p - 1 \in Int /\ \A i \in 1 .. p - 1 : s[i] \in S
      BY <1>0, <2>1
    <3> QED BY <3>1, <2>1, <1>0, SubSeqProperties
  <2>3. /\ back \in Seq(S) /\ Len(back) = Len(s) - p
        /\ \A i \in 1 .. Len(s) - p : back[i] = s[p + i]
    <3>1. /\ p \in Int /\ p + 1 \in Int /\ Len(s) \in Int
          /\ \A i \in p + 1 .. Len(s) : s[i] \in S
      BY <1>0, <2>1
    <3>2. /\ back \in Seq(S)
          /\ Len(back) = IF p + 1 <= Len(s) THEN Len(s) - (p + 1) + 1 ELSE 0
          /\ \A i \in 1 .. Len(s) - (p + 1) + 1 : back[i] = s[(p + 1) + i - 1]
      BY <3>1, SubSeqProperties
    <3>3. \A i \in 1 .. Len(s) - p : i \in 1 .. Len(s) - (p + 1) + 1 /\ (p + 1) + i - 1 = p + i
      BY ONLY <3>1
    <3>4. Len(back) = Len(s) - p
      BY ONLY <3>1, <3>2, <2>1
    <3>5. \A i \in 1 .. Len(s) - p : back[i] = s[p + i]
      <4> TAKE i \in 1 .. Len(s) - p
      <4>1. i \in 1 .. Len(s) - (p + 1) + 1 /\ (p + 1) + i - 1 = p + i
        BY <3>3
      <4>2. back[i] = s[(p + 1) + i - 1]
        BY <3>2, <4>1
      <4> QED BY <4>1, <4>2
    <3> QED BY <3>2, <3>4, <3>5
  <2> HIDE DEF front, back
  <2>4. /\ w \in Seq(S) /\ Len(w) = Len(s) - 1
        /\ \A i \in 1 .. p - 1 : w[i] = s[i]
        /\ \A i \in 1 .. Len(s) - p : w[p - 1 + i] = s[p + i]
    <3>1. /\ w \in Seq(S) /\ Len(w) = Len(front) + Len(back)
          /\ \A i \in 1 .. Len(front) : w[i] = front[i]
          /\ \A i \in 1 .. Len(back) : w[Len(front) + i] = back[i]
      <4>1. front \in Seq(S) /\ back \in Seq(S)
        BY ONLY <2>2, <2>3
      <4> QED BY ONLY <4>1, ConcatOf DEF w
    <3> HIDE DEF w
    <3>2. p - 1 + (Len(s) - p) = Len(s) - 1
      BY <2>1, <1>0
    <3>3. \A i \in 1 .. p - 1 : w[i] = s[i]
      BY ONLY <3>1, <2>2
    <3>4. ASSUME NEW i \in 1 .. Len(s) - p
          PROVE  w[p - 1 + i] = s[p + i]
      <4>1. w[Len(front) + i] = back[i]
        BY <3>1, <2>3
      <4> QED BY <4>1, <2>2, <2>3
    <3>5. w \in Seq(S) /\ Len(w) = Len(s) - 1
      BY ONLY <3>1, <3>2, <2>2, <2>3
    <3> QED BY <3>3, <3>4, <3>5
  <2>5. Without(s, c) = w
    BY <1>2 DEF Without, RemoveAt, p, front, back, w
  <2>6. DOMAIN w = 1 .. Len(s) - 1
    BY <2>4, LenProperties
  <2> HIDE DEF w
  <2>7. \A i \in 1 .. Len(s) - 1 : w[i] = IF i < p THEN s[i] ELSE s[i + 1]
    <3> SUFFICES ASSUME NEW i \in 1 .. Len(s) - 1
                 PROVE  w[i] = IF i < p THEN s[i] ELSE s[i + 1]
      OBVIOUS
    <3>1. CASE i < p
      BY <3>1, <2>1, <2>4, <1>0
    <3>2. CASE ~(i < p)
      <4>1. i - p + 1 \in 1 .. Len(s) - p
        BY <3>2, <2>1, <1>0
      <4>2. p - 1 + (i - p + 1) = i /\ p + (i - p + 1) = i + 1
        BY <2>1, <1>0
      <4> QED BY <4>1, <4>2, <3>2, <2>4
    <3> QED BY <3>1, <3>2
  <2>8. Distinct(w)
    BY <2>1, <2>4, <2>7, <1>0 DEF Distinct
  <2>9. ToSet(w) \subseteq ToSet(s) \ {c}
    BY <2>1, <2>6, <2>7, <1>0 DEF ToSet, Distinct
  <2>10. ToSet(s) \ {c} \subseteq ToSet(w)
    <3> SUFFICES ASSUME NEW i \in 1 .. Len(s), s[i] # c PROVE \E j \in 1 .. Len(s) - 1 : w[j] = s[i]
      BY <1>0, <2>6 DEF ToSet
    <3>1. CASE i < p
      BY <3>1, <2>1, <2>7, <1>0
    <3>2. CASE ~(i < p)
      <4>1. i - 1 \in 1 .. Len(s) - 1 /\ ~(i - 1 < p) /\ (i - 1) + 1 = i
        BY <3>2, <2>1, <1>0
      <4> QED BY <4>1, <2>7
    <3> QED BY <3>1, <3>2
  <2> QED BY <2>4, <2>5, <2>8, <2>9, <2>10
<1> QED BY <1>1, <1>2


LineComplete == dungeonEntrance \subseteq ToSet(queue)

SeatInv == \A p \in Players : roomNumber[p] \in Slots => seat[p] = lastDungeon[p]

LineInv  == LineIsAtTheDoor /\ LineComplete
PlaceInv == InsideIsCounted /\ EntranceLeadsToOpen

DInv == TypeOK /\ LineInv /\ PlaceInv /\ SeatInv

-----------------------------------------------------------------------------
(* The instances. *)

LEMMA ZoneFields ==
    ASSUME NEW z \in Zone \union {NoZone}
    PROVE  /\ z.st \in {"open", "closed", "none"} /\ z.players \subseteq Players
           /\ z.st # "none" <=> z \in Zone
           /\ z \in Zone => z.slot \in Slots /\ z.timer \in 0 .. Ticks
           /\ z.st = "none" => z.players = {}
BY DEF Zone, NoZone

\* the same instances as before, as far as the entrance is concerned
SameInstances ==
    /\ dest' = dest
    /\ \A i \in Ids : /\ zones'[i].st = zones[i].st
                      /\ zones[i].st # "none" => zones'[i].slot = zones[i].slot

LEMMA EntranceKept ==
    ASSUME EntranceLeadsToOpen, SameInstances
    PROVE  EntranceLeadsToOpen'
<1>1. \A i \in Ids : i \in Live(zones') <=> i \in Live(zones)
  BY DEF SameInstances, Live
<1>2. \A i \in Live(zones) : i \in Ids /\ zones[i].st # "none"
  BY DEF Live
<1>3. Live(zones') = Live(zones)
  BY <1>1 DEF Live
<1>4. PICK i \in Live(zones) :
         {j \in Live(zones) : zones[j].st = "open"} = {i} /\ dest = zones[i].slot
  BY DEF EntranceLeadsToOpen
<1>5. {j \in Live(zones') : zones'[j].st = "open"} = {i} /\ dest' = zones'[i].slot
  BY <1>2, <1>3, <1>4 DEF SameInstances
<1> QED BY <1>3, <1>4, <1>5 DEF EntranceLeadsToOpen

\* p is in the room r now, and counted by the instance that has it, if any
Moved(p, r) ==
    /\ room' = [room EXCEPT ![p] = r]
    /\ \A i \in Ids : zones'[i].players =
          IF i \in Owner(r) THEN zones[i].players \union {p} ELSE zones[i].players \ {p}

LEMMA InsideMoved ==
    ASSUME TypeOK, InsideIsCounted, SameInstances,
           NEW p \in Players, NEW r, Moved(p, r), r \in Slots => Owner(r) # {}
    PROVE  InsideIsCounted'
<1>1. Live(zones') = Live(zones)
  BY DEF SameInstances, Live
<1>2. \A i \in Live(zones) : i \in Ids /\ zones'[i].slot = zones[i].slot
  BY DEF SameInstances, Live
<1>3. \A q \in Players : room'[q] = IF q = p THEN r ELSE room[q]
  BY DEF TypeOK, Moved
<1>4. ASSUME NEW q \in Players, room'[q] \in Slots
      PROVE  \E i \in Live(zones') : zones'[i].slot = room'[q] /\ q \in zones'[i].players
  <2>1. CASE q = p
    <3>1. PICK i \in Owner(r) : TRUE
      BY <1>3, <1>4, <2>1
    <3>2. i \in Live(zones) /\ zones[i].slot = r
      BY <3>1 DEF Owner
    <3> QED BY <1>1, <1>2, <1>3, <2>1, <3>1, <3>2 DEF Moved
  <2>2. CASE q # p
    <3>1. PICK i \in Owner(room[q]) : q \in zones[i].players
      BY <1>3, <1>4, <2>2 DEF InsideIsCounted
    <3>2. i \in Live(zones) /\ zones[i].slot = room[q]
      BY <3>1 DEF Owner
    <3> QED BY <1>1, <1>2, <1>3, <2>2, <3>1, <3>2 DEF Moved
  <2> QED BY <2>1, <2>2
<1>5. ASSUME NEW i \in Live(zones'), NEW q \in zones'[i].players
      PROVE  room'[q] = zones'[i].slot
  <2>1. i \in Live(zones) /\ i \in Ids
    BY <1>1, <1>2
  <2>2. zones[i].players \subseteq Players
    BY <2>1, ZoneFields DEF TypeOK
  <2>3. CASE q = p
    <3>1. i \in Owner(r)
      BY <1>5, <2>1, <2>3 DEF Moved
    <3> QED BY <1>2, <1>3, <2>1, <2>3, <3>1 DEF Owner
  <2>4. CASE q # p
    <3>1. q \in zones[i].players
      BY <1>5, <2>1, <2>4 DEF Moved
    <3>2. room[q] = zones[i].slot
      BY <2>1, <3>1 DEF InsideIsCounted
    <3> QED BY <1>2, <1>3, <2>1, <2>2, <2>4, <3>1, <3>2
  <2> QED BY <2>3, <2>4
<1>6. \A i, j \in Live(zones') : zones'[i].slot = zones'[j].slot => i = j
  BY <1>1, <1>2 DEF InsideIsCounted
<1> QED BY <1>4, <1>5, <1>6 DEF InsideIsCounted, Owner

\* a room of an instance belongs to one, the others to none
LEMMA OneOwner ==
    ASSUME TypeOK, InsideIsCounted, NEW r
    PROVE  /\ r \notin Slots => Owner(r) = {}
           /\ Owner(r) # {} => Min(Owner(r)) \in Owner(r) /\ Min(Owner(r)) \in Ids
<1>1. \A i \in Owner(r) : i \in Ids /\ i \in Live(zones) /\ zones[i].slot = r
  BY DEF Owner, Live
<1>2. \A i \in Live(zones) : zones[i].slot \in Slots
  BY ZoneFields DEF TypeOK, Live
<1>3. ASSUME NEW i \in Owner(r)
      PROVE  Min(Owner(r)) = i
  <2>1. Owner(r) = {i}
    BY <1>1, <1>3 DEF InsideIsCounted
  <2>2. i \in Nat
    BY <1>1, DungeonConstants
  <2>3. Min({i}) = i
    BY <2>2 DEF Min
  <2> QED BY <2>1, <2>3
<1> QED BY <1>1, <1>2, <1>3

LEMMA LeftOf ==
    ASSUME TypeOK, NEW p \in Players
    PROVE  /\ Left(p) \in [Ids -> Zone \union {NoZone}]
           /\ \A i \in Ids : /\ Left(p)[i].st = zones[i].st
                             /\ zones[i].st # "none" => Left(p)[i].slot = zones[i].slot
                             /\ Left(p)[i].players = zones[i].players \ {p}
<1>1. ASSUME NEW i \in Ids
      PROVE  /\ Left(p)[i] \in Zone \union {NoZone}
             /\ Left(p)[i].st = zones[i].st
             /\ zones[i].st # "none" => Left(p)[i].slot = zones[i].slot
             /\ Left(p)[i].players = zones[i].players \ {p}
  <2> DEFINE z == zones[i]
             l == [z EXCEPT !.players = @ \ {p}]
  <2>1. z \in Zone \union {NoZone} /\ Left(p)[i] = l
    BY DEF TypeOK, Left
  <2> HIDE DEF z
  <2>2. CASE z \in Zone
    <3>1. l \in Zone /\ l.st = z.st /\ l.slot = z.slot /\ l.players = z.players \ {p}
      BY <2>2 DEF Zone
    <3> QED BY <2>1, <3>1 DEF z
  <2>3. CASE z = NoZone
    <3>1. l = NoZone /\ l.st = z.st /\ l.players = z.players \ {p} /\ z.st = "none"
      BY <2>3 DEF NoZone
    <3> QED BY <2>1, <3>1 DEF z
  <2> QED BY <2>1, <2>2, <2>3
<1> QED BY <1>1 DEF Left

-----------------------------------------------------------------------------
(* The line. *)

\* delPlayerFromQueue takes p out, of the line and of dungeonEntrance
LEMMA OutOfLine ==
    ASSUME TypeOK, LineInv, NEW p \in Players
    PROVE  /\ QueueWithout(p) \in Seq(Players) /\ Distinct(QueueWithout(p))
           /\ ToSet(QueueWithout(p)) = ToSet(queue) \ {p}
           /\ EntranceWithout(p) = dungeonEntrance \ {p}
<1>1. InLine(p) <=> p \in ToSet(queue)
  BY DEF LineInv, LineIsAtTheDoor, InLine
<1>2. p \in dungeonEntrance => p \in ToSet(queue)
  BY DEF LineInv, LineComplete
<1>3. queue \in Seq(Players) /\ Distinct(queue)
  BY DEF TypeOK, LineInv, LineIsAtTheDoor
<1>4. /\ Without(queue, p) \in Seq(Players) /\ Distinct(Without(queue, p))
      /\ ToSet(Without(queue, p)) = ToSet(queue) \ {p}
  BY <1>3, WithoutOf
<1> QED BY <1>1, <1>2, <1>3, <1>4 DEF QueueWithout, EntranceWithout

\* p has left the line: whatever became of it, the line is in order
LEMMA LineAfter ==
    ASSUME TypeOK, LineInv, NEW p \in Players,
           queue' = QueueWithout(p), dungeonEntrance' = dungeonEntrance \ {p},
           \A q \in Players \ {p} : room'[q] = room[q] /\ (q \in online => q \in online')
    PROVE  LineInv' /\ queue' \in Seq(Players)
<1>1. queue' \in Seq(Players) /\ Distinct(queue') /\ ToSet(queue') = ToSet(queue) \ {p}
  BY OutOfLine
<1>2. ToSet(queue) \subseteq Players
  BY Members DEF TypeOK
<1>3. LineIsAtTheDoor'
  BY <1>1, <1>2 DEF LineInv, LineIsAtTheDoor
<1>4. LineComplete'
  BY <1>1 DEF LineInv, LineComplete
<1> QED BY <1>1, <1>3, <1>4 DEF LineInv

LEMMA LineKept ==
    ASSUME LineInv, UNCHANGED <<queue, dungeonEntrance, room>>, online \subseteq online'
    PROVE  LineInv'
BY DEF LineInv, LineIsAtTheDoor, LineComplete, Distinct

-----------------------------------------------------------------------------
(* Steps. *)

LEMMA DInvInit == Init => DInv
<1> SUFFICES ASSUME Init PROVE DInv
  OBVIOUS
<1>1. TypeOK
  BY DungeonConstants DEF Init, TypeOK, Rooms, NewZone, NoZone, Zone
<1>2. ToSet(queue) = {} /\ queue = <<>>
  BY DEF Init, ToSet
<1>3. LineInv
  BY <1>2 DEF Init, LineInv, LineIsAtTheDoor, LineComplete, Distinct
<1>4. Live(zones) = {0} /\ zones[0].slot = 0 /\ zones[0].st = "open" /\ zones[0].players = {}
  BY DungeonConstants DEF Init, Live, NewZone, NoZone
<1>5. \A p \in Players : room[p] \notin Slots /\ roomNumber[p] \notin Slots
  BY DungeonConstants DEF Init, Rooms
<1>6. PlaceInv
  <2>1. InsideIsCounted
    BY <1>4, <1>5 DEF InsideIsCounted
  <2>2. EntranceLeadsToOpen
    BY <1>4 DEF Init, EntranceLeadsToOpen
  <2> QED BY <2>1, <2>2 DEF PlaceInv
<1>7. SeatInv
  BY <1>5 DEF SeatInv
<1> QED BY <1>1, <1>3, <1>6, <1>7 DEF DInv

\* nothing that the instances are made of changes
LEMMA PlaceKept ==
    ASSUME PlaceInv, UNCHANGED <<zones, dest, room>>
    PROVE  PlaceInv'
BY DEF PlaceInv, InsideIsCounted, EntranceLeadsToOpen, Owner, Live

\* p, out of line, goes from its room to another
LEMMA ArriveStep ==
    ASSUME DInv, NEW p \in online, NEW r \in Rooms, FindRoom(r), Arrive(p, r),
           UNCHANGED <<dest, online, fighting, group>>,
           teleportRoomNum' \in [Players -> Rooms \union {None}]
    PROVE  DInv'
<1> DEFINE here == Owner(r)
<1>1. /\ TypeOK /\ LineInv /\ InsideIsCounted /\ EntranceLeadsToOpen /\ SeatInv
      /\ p \in Players
  BY DEF DInv, PlaceInv, TypeOK
<1>2. EntranceWithout(p) = dungeonEntrance \ {p}
  BY <1>1, OutOfLine
<1>3. /\ room' = [room EXCEPT ![p] = r]
      /\ roomNumber' = [roomNumber EXCEPT ![p] = r]
      /\ zones' = [i \in Ids |-> IF i \in here
                                 THEN [Left(p)[i] EXCEPT !.players = @ \union {p}]
                                 ELSE Left(p)[i]]
      /\ lastDungeon' = [lastDungeon EXCEPT ![p] = IF here = {} THEN 0 ELSE Min(here)]
      /\ seat' = [seat EXCEPT ![p] = IF here = {} THEN None ELSE Min(here)]
      /\ queue' = QueueWithout(p)
      /\ dungeonEntrance' = dungeonEntrance \ {p}
  BY <1>2 DEF Arrive
<1>4. r \in Slots <=> here # {}
  BY <1>1, OneOwner, DungeonConstants DEF FindRoom
<1>5. here # {} => Min(here) \in Ids
  BY <1>1, OneOwner
<1>6. here \subseteq {i \in Ids : zones[i].st # "none"}
  BY DEF Owner, Live
<1> HIDE DEF here
<1>7. ASSUME NEW i \in Ids
      PROVE  /\ zones'[i] \in Zone \union {NoZone}
             /\ zones'[i].st = zones[i].st
             /\ zones[i].st # "none" => zones'[i].slot = zones[i].slot
             /\ zones'[i].players = IF i \in here THEN zones[i].players \union {p}
                                    ELSE zones[i].players \ {p}
  <2> DEFINE z == Left(p)[i]
             a == [z EXCEPT !.players = @ \union {p}]
  <2>1. /\ z \in Zone \union {NoZone} /\ z.st = zones[i].st
        /\ zones[i].st # "none" => z.slot = zones[i].slot
        /\ z.players = zones[i].players \ {p}
    BY <1>1, LeftOf
  <2>2. zones'[i] = IF i \in here THEN a ELSE z
    BY <1>3
  <2>3. i \in here => z \in Zone
    BY <1>6, <2>1, ZoneFields
  <2> HIDE DEF z
  <2>4. z \in Zone => /\ a \in Zone /\ a.st = z.st /\ a.slot = z.slot
                      /\ a.players = z.players \union {p}
    BY <1>1 DEF Zone
  <2> HIDE DEF a
  <2>5. CASE i \in here
    <3>1. a.players = (zones[i].players \ {p}) \union {p}
      BY <2>1, <2>3, <2>4, <2>5
    <3> QED BY <2>1, <2>2, <2>3, <2>4, <2>5, <3>1
  <2>6. CASE i \notin here
    BY <2>1, <2>2, <2>6
  <2> QED BY <2>5, <2>6
<1>8. queue' \in Seq(Players) /\ LineInv'
  BY <1>1, <1>3, LineAfter DEF TypeOK
<1>9. TypeOK'
  <2>1. zones' \in [Ids -> Zone \union {NoZone}]
    BY <1>3, <1>7
  <2>2. /\ lastDungeon' \in [Players -> Ids] /\ seat' \in [Players -> Ids \union {None}]
        /\ room' \in [Players -> Rooms \union {None}]
        /\ roomNumber' \in [Players -> Rooms]
    BY <1>1, <1>3, <1>5, DungeonConstants DEF TypeOK
  <2> QED BY <1>1, <1>3, <1>8, <2>1, <2>2 DEF TypeOK
<1>10. SameInstances
  BY <1>7 DEF SameInstances
<1>11. InsideIsCounted'
  <2>1. Moved(p, r)
    BY <1>3, <1>7 DEF Moved, here
  <2> QED BY <1>1, <1>4, <1>10, <2>1, InsideMoved DEF here
<1>12. EntranceLeadsToOpen'
  BY <1>1, <1>10, EntranceKept
<1>13. SeatInv'
  BY <1>1, <1>3, <1>4 DEF SeatInv, TypeOK
<1> QED BY <1>8, <1>9, <1>11, <1>12, <1>13 DEF DInv, PlaceInv

\* p stays where it is, out of line
LEMMA StayStep ==
    ASSUME DInv, NEW p \in Players, DelPlayerFromQueue(p),
           UNCHANGED <<zones, dest, online, room, group, charVars>>,
           fighting' \subseteq online,
           teleportRoomNum' \in [Players -> Rooms \union {None}]
    PROVE  DInv'
<1>1. /\ TypeOK /\ LineInv /\ PlaceInv /\ SeatInv
      /\ queue' = QueueWithout(p) /\ dungeonEntrance' = EntranceWithout(p)
  BY DEF DInv, DelPlayerFromQueue
<1>2. dungeonEntrance' = dungeonEntrance \ {p}
  BY <1>1, OutOfLine
<1>3. queue' \in Seq(Players) /\ LineInv'
  BY <1>1, <1>2, LineAfter
<1>4. TypeOK'
  BY <1>1, <1>2, <1>3 DEF TypeOK, charVars
<1>5. PlaceInv'
  BY <1>1, PlaceKept
<1>6. SeatInv'
  BY <1>1 DEF SeatInv, charVars
<1> QED BY <1>3, <1>4, <1>5, <1>6 DEF DInv

\* only what does not concern the line and the instances changes
LEMMA QuietStep ==
    ASSUME DInv, UNCHANGED <<zones, dest, lineVars, room, seat>>,
           online \subseteq online', online' \subseteq Players,
           fighting' \subseteq online', group' \subseteq online',
           teleportRoomNum' \in [Players -> Rooms \union {None}],
           roomNumber' \in [Players -> Rooms], lastDungeon' \in [Players -> Ids],
           \A p \in Players : roomNumber'[p] \in Slots =>
               roomNumber'[p] = roomNumber[p] /\ lastDungeon'[p] = lastDungeon[p]
    PROVE  DInv'
<1>1. /\ TypeOK /\ LineInv /\ PlaceInv /\ SeatInv
      /\ queue' = queue /\ dungeonEntrance' = dungeonEntrance
  BY DEF DInv, lineVars
<1>2. TypeOK'
  BY <1>1 DEF TypeOK
<1>3. LineInv'
  BY <1>1, LineKept
<1>4. PlaceInv'
  BY <1>1, PlaceKept
<1>5. SeatInv'
  BY <1>1 DEF SeatInv
<1> QED BY <1>2, <1>3, <1>4, <1>5 DEF DInv

LEMMA JoinLineStep ==
    ASSUME DInv, NEW p \in Players, JoinLine(p)
    PROVE  DInv'
<1>1. /\ TypeOK /\ LineInv /\ PlaceInv /\ SeatInv
      /\ p \in online /\ room[p] = Door
      /\ dungeonEntrance' = dungeonEntrance \union {p} /\ queue' = Lined(p)
      /\ UNCHANGED <<zones, dest, online, room, teleportRoomNum, fighting, group, charVars>>
  BY DEF DInv, JoinLine
<1>2. /\ queue' \in Seq(Players) /\ Distinct(queue')
      /\ ToSet(queue') = ToSet(queue) \union {p}
  <2>1. queue \in Seq(Players) /\ Distinct(queue)
    BY <1>1 DEF TypeOK, LineInv, LineIsAtTheDoor
  <2>2. CASE p \in ToSet(queue)
    BY <1>1, <2>1, <2>2 DEF Lined
  <2>3. CASE p \notin ToSet(queue)
    <3>1. queue' = Append(queue, p)
      BY <1>1, <2>3 DEF Lined
    <3> QED BY <2>1, <2>3, <3>1, AppendOf
  <2> QED BY <2>2, <2>3
<1>3. TypeOK'
  BY <1>1, <1>2 DEF TypeOK, charVars
<1>4. LineInv'
  BY <1>1, <1>2 DEF LineInv, LineIsAtTheDoor, LineComplete
<1>5. PlaceInv'
  BY <1>1, PlaceKept
<1>6. SeatInv'
  BY <1>1 DEF SeatInv, charVars
<1> QED BY <1>3, <1>4, <1>5, <1>6 DEF DInv

LEMMA LogoutStep ==
    ASSUME DInv, NEW p \in Players, Logout(p)
    PROVE  DInv'
<1>1. /\ TypeOK /\ LineInv /\ InsideIsCounted /\ EntranceLeadsToOpen /\ SeatInv
      /\ online' = online \ {p} /\ queue' = QueueWithout(p)
      /\ dungeonEntrance' = dungeonEntrance \ {p} /\ fighting' = fighting \ {p}
      /\ zones' = Left(p) /\ room' = [room EXCEPT ![p] = None]
      /\ teleportRoomNum' = [teleportRoomNum EXCEPT ![p] = None]
      /\ UNCHANGED <<dest, charVars>>
  BY DEF DInv, PlaceInv, Logout
<1>2. group' \subseteq group \ {p}
  BY DEF Logout, Ungroup
<1>3. queue' \in Seq(Players) /\ LineInv'
  BY <1>1, LineAfter DEF TypeOK
<1>4. /\ zones' \in [Ids -> Zone \union {NoZone}]
      /\ \A i \in Ids : /\ zones'[i].st = zones[i].st
                        /\ zones[i].st # "none" => zones'[i].slot = zones[i].slot
                        /\ zones'[i].players = zones[i].players \ {p}
  BY <1>1, LeftOf
<1>5. TypeOK'
  BY <1>1, <1>2, <1>3, <1>4 DEF TypeOK, charVars
<1>6. None \notin Slots
  BY DungeonConstants DEF Rooms
<1>7. SameInstances
  BY <1>1, <1>4 DEF SameInstances
<1>8. InsideIsCounted'
  <2>1. Owner(None) = {}
    BY <1>1, <1>6, OneOwner
  <2>2. Moved(p, None)
    BY <1>1, <1>4, <2>1 DEF Moved
  <2> QED BY <1>1, <1>6, <1>7, <2>2, InsideMoved
<1>9. EntranceLeadsToOpen'
  BY <1>1, <1>7, EntranceKept
<1>10. SeatInv'
  BY <1>1 DEF SeatInv, charVars
<1> QED BY <1>3, <1>5, <1>8, <1>9, <1>10 DEF DInv, PlaceInv

-----------------------------------------------------------------------------
(* The pulse. *)

\* only instances without players are deleted, and open ones are left alone
LEMMA IdledFacts ==
    ASSUME TypeOK
    PROVE  /\ Idled \in [Ids -> Zone \union {NoZone}]
           /\ \A i \in Ids :
                 /\ Idled[i].players = zones[i].players
                 /\ Idled[i].st # "none" => /\ Idled[i].st = zones[i].st
                                            /\ Idled[i].slot = zones[i].slot
                 /\ Idled[i].st = "none" => zones[i].players = {}
                 /\ zones[i].st = "open" => Idled[i] = zones[i]
<1>1. ASSUME NEW i \in Ids
      PROVE  /\ Idled[i] \in Zone \union {NoZone}
             /\ Idled[i].players = zones[i].players
             /\ Idled[i].st # "none" => /\ Idled[i].st = zones[i].st
                                        /\ Idled[i].slot = zones[i].slot
             /\ Idled[i].st = "none" => zones[i].players = {}
             /\ zones[i].st = "open" => Idled[i] = zones[i]
  <2> DEFINE z == zones[i]
  <2>1. z \in Zone \union {NoZone} /\ Idled[i] = IF z.st = "closed" THEN Idle(z) ELSE z
    BY DEF TypeOK, Idled
  <2> HIDE DEF z
  <2>2. CASE z.st # "closed"
    <3>1. Idled[i] = z /\ (z.st = "none" => z.players = {})
      BY <2>1, <2>2, ZoneFields
    <3> QED BY <2>1, <3>1 DEF z
  <2>3. CASE z.st = "closed"
    <3>1. z \in Zone /\ z.timer \in 0 .. Ticks
      BY <2>1, <2>3, ZoneFields
    <3>2. 0 \in 0 .. Ticks /\ Countdown(z.timer) \in 0 .. Ticks
      BY <3>1, DungeonConstants DEF Countdown
    <3>3. \A t \in 0 .. Ticks : LET x == [z EXCEPT !.timer = t]
             IN x \in Zone /\ x.st = z.st /\ x.slot = z.slot /\ x.players = z.players
      BY <3>1 DEF Zone
    <3>4. CASE z.players # {}
      <4>1. Idle(z) = [z EXCEPT !.timer = 0]
        BY <3>4 DEF Idle
      <4> QED BY <2>1, <2>3, <3>2, <3>3, <4>1 DEF z
    <3>5. CASE z.players = {} /\ z.timer > 0 /\ Countdown(z.timer) = 0
      <4>1. Idle(z) = NoZone
        BY <3>5 DEF Idle
      <4> QED BY <2>1, <2>3, <3>5, <4>1 DEF z, NoZone
    <3>6. CASE z.players = {} /\ ~(z.timer > 0 /\ Countdown(z.timer) = 0)
      <4>1. Idle(z) = [z EXCEPT !.timer = Countdown(z.timer)]
        BY <3>6 DEF Idle
      <4> QED BY <2>1, <2>3, <3>2, <3>3, <4>1 DEF z
    <3> QED BY <3>4, <3>5, <3>6
  <2> QED BY <2>2, <2>3
<1> QED BY <1>1 DEF Idled

\* nobody is called, or there is no room: instances without players end
LEMMA IdleStep ==
    ASSUME DInv, zones' = Idled,
           UNCHANGED <<dest, teleportRoomNum, lineVars, online, room, fighting, group,
                       charVars>>
    PROVE  DInv'
<1>1. /\ TypeOK /\ LineInv /\ InsideIsCounted /\ EntranceLeadsToOpen /\ SeatInv
      /\ queue' = queue /\ dungeonEntrance' = dungeonEntrance
  BY DEF DInv, PlaceInv, lineVars
<1>2. /\ zones' \in [Ids -> Zone \union {NoZone}]
      /\ \A i \in Ids :
            /\ zones'[i].players = zones[i].players
            /\ zones'[i].st # "none" => /\ zones'[i].st = zones[i].st
                                        /\ zones'[i].slot = zones[i].slot
            /\ zones'[i].st = "none" => zones[i].players = {}
            /\ zones[i].st = "open" => zones'[i] = zones[i]
  BY <1>1, IdledFacts
<1>3. TypeOK'
  BY <1>1, <1>2 DEF TypeOK, charVars
<1>4. LineInv'
  BY <1>1, LineKept
<1>5. Live(zones') \subseteq Live(zones) /\ Live(zones) \subseteq Ids
  BY <1>2 DEF Live
<1>6. InsideIsCounted'
  <2>1. ASSUME NEW p \in Players, room[p] \in Slots
        PROVE  \E i \in Live(zones') : zones'[i].slot = room[p] /\ p \in zones'[i].players
    <3>1. PICK i \in Ids : i \in Live(zones) /\ zones[i].slot = room[p] /\ p \in zones[i].players
      BY <1>1, <1>5, <2>1 DEF InsideIsCounted, Owner
    <3>2. zones'[i].st # "none"
      BY <1>2, <3>1
    <3> QED BY <1>2, <3>1, <3>2 DEF Live
  <2>2. \A i \in Live(zones') : /\ i \in Live(zones) /\ zones'[i].slot = zones[i].slot
                                /\ zones'[i].players = zones[i].players
    BY <1>2, <1>5 DEF Live
  <2> QED BY <1>1, <2>1, <2>2 DEF InsideIsCounted, Owner
<1>7. EntranceLeadsToOpen'
  <2>1. PICK i \in Live(zones) :
           {j \in Live(zones) : zones[j].st = "open"} = {i} /\ dest = zones[i].slot
    BY <1>1 DEF EntranceLeadsToOpen
  <2>2. zones[i].st = "open" /\ i \in Ids
    BY <1>5, <2>1
  <2>3. i \in Live(zones') /\ zones'[i] = zones[i]
    BY <1>2, <2>2 DEF Live
  <2>4. \A j \in Live(zones') : j \in Live(zones) /\ zones'[j].st = zones[j].st
    BY <1>2, <1>5 DEF Live
  <2>5. {j \in Live(zones') : zones'[j].st = "open"} = {i}
    BY <2>1, <2>2, <2>3, <2>4
  <2> QED BY <1>1, <2>1, <2>3, <2>5 DEF EntranceLeadsToOpen
<1>8. SeatInv'
  BY <1>1 DEF SeatInv, charVars
<1> QED BY <1>3, <1>4, <1>6, <1>7, <1>8 DEF DInv, PlaceInv

\* the open instance is closed behind the party, and another takes its place
LEMMA SpawnStep ==
    ASSUME DInv, NEW slot \in FreeSlots(Idled), NEW id \in FreshIds(Idled),
           zones' = Spawned(slot, id), dest' = slot,
           teleportRoomNum' \in [Players -> Rooms \union {None}],
           UNCHANGED <<lineVars, online, room, fighting, group, charVars>>
    PROVE  DInv'
<1>1. /\ TypeOK /\ LineInv /\ InsideIsCounted /\ SeatInv
      /\ queue' = queue /\ dungeonEntrance' = dungeonEntrance
  BY DEF DInv, PlaceInv, lineVars
<1>2. /\ slot \in Slots /\ id \in Ids
      /\ Idled[id].st = "none"
      /\ \A i \in Ids : Idled[i].st # "none" => Idled[i].slot # slot
  BY DEF FreeSlots, FreshIds, Live
<1>3. /\ Idled \in [Ids -> Zone \union {NoZone}]
      /\ \A i \in Ids :
            /\ Idled[i].players = zones[i].players
            /\ Idled[i].st # "none" => /\ Idled[i].st = zones[i].st
                                       /\ Idled[i].slot = zones[i].slot
            /\ Idled[i].st = "none" => zones[i].players = {}
            /\ zones[i].st = "open" => Idled[i] = zones[i]
  BY <1>1, IdledFacts
<1>4. /\ zones'[id] = NewZone(slot) /\ NewZone(slot) \in Zone
      /\ zones'[id].st = "open" /\ zones'[id].slot = slot /\ zones'[id].players = {}
  BY <1>2, DungeonConstants DEF Spawned, NewZone, Zone
<1>5. ASSUME NEW i \in Ids, i # id
      PROVE  /\ zones'[i] \in Zone \union {NoZone}
             /\ zones'[i].st # "open"
             /\ zones'[i].players = zones[i].players
             /\ zones'[i].st # "none" => /\ zones[i].st # "none" /\ Idled[i].st # "none"
                                         /\ zones'[i].slot = zones[i].slot
                                         /\ Idled[i].slot = zones[i].slot
             /\ zones'[i].st = "none" => zones[i].players = {}
  <2>1. CASE zones[i].st = "open"
    <3> DEFINE z == zones[i]
               x == [z EXCEPT !.st = "closed"]
    <3>1. zones'[i] = x
      BY <1>5, <2>1 DEF Spawned
    <3>2. z \in Zone
      BY <1>1, <2>1, ZoneFields DEF TypeOK
    <3>3. Idled[i] = z
      BY <1>3, <2>1
    <3> HIDE DEF z
    <3>4. x \in Zone /\ x.st = "closed" /\ x.slot = z.slot /\ x.players = z.players
      BY <3>2 DEF Zone
    <3>5. z.st = "open"
      BY <2>1 DEF z
    <3> HIDE DEF x
    <3>6. zones[i] = z
      BY DEF z
    <3> QED BY <3>1, <3>3, <3>4, <3>5, <3>6
  <2>2. CASE zones[i].st # "open"
    <3>1. zones'[i] = Idled[i]
      BY <1>5, <2>2 DEF Spawned
    <3> QED BY <1>3, <2>2, <3>1
  <2> QED BY <2>1, <2>2
<1>6. TypeOK'
  <2>1. zones' \in [Ids -> Zone \union {NoZone}]
    BY <1>4, <1>5 DEF Spawned
  <2> QED BY <1>1, <1>2, <2>1 DEF TypeOK, charVars
<1>7. LineInv'
  BY <1>1, LineKept
<1>8. id \in Live(zones') /\ \A i \in Live(zones') : i \in Ids /\ zones'[i].st # "none"
  BY <1>2, <1>4 DEF Live
<1>9. \A i \in Live(zones') \ {id} :
         /\ i \in Live(zones) /\ zones'[i].slot = zones[i].slot /\ zones'[i].slot # slot
         /\ zones'[i].players = zones[i].players
  BY <1>2, <1>5, <1>8 DEF Live
<1>10. InsideIsCounted'
  <2>1. ASSUME NEW p \in Players, room[p] \in Slots
        PROVE  \E i \in Live(zones') : zones'[i].slot = room[p] /\ p \in zones'[i].players
    <3>1. PICK i \in Live(zones) : zones[i].slot = room[p] /\ p \in zones[i].players
      BY <1>1, <2>1 DEF InsideIsCounted, Owner
    <3>2. i \in Ids /\ i # id
      BY <1>2, <1>3, <3>1 DEF Live
    <3>3. zones'[i].st # "none" /\ p \in zones'[i].players /\ zones'[i].slot = room[p]
      BY <1>5, <3>1, <3>2
    <3> QED BY <3>2, <3>3 DEF Live
  <2>2. \A i \in Live(zones') : \A p \in zones'[i].players : room'[p] = zones'[i].slot
    BY <1>1, <1>4, <1>9 DEF InsideIsCounted
  <2>3. \A i, j \in Live(zones') : zones'[i].slot = zones'[j].slot => i = j
    BY <1>1, <1>4, <1>9 DEF InsideIsCounted
  <2> QED BY <2>1, <2>2, <2>3 DEF InsideIsCounted, Owner
<1>11. EntranceLeadsToOpen'
  <2>1. {j \in Live(zones') : zones'[j].st = "open"} = {id}
    BY <1>4, <1>5, <1>8
  <2> QED BY <1>4, <1>8, <2>1 DEF EntranceLeadsToOpen
<1>12. SeatInv'
  BY <1>1 DEF SeatInv, charVars
<1> QED BY <1>6, <1>7, <1>10, <1>11, <1>12 DEF DInv, PlaceInv

LEMMA PulseStep ==
    ASSUME DInv, Pulse
    PROVE  DInv'
<1>1. CASE ~MaySpawn /\ zones' = Idled /\ UNCHANGED <<dest, teleportRoomNum>>
  BY <1>1, IdleStep DEF Pulse
<1>2. CASE /\ \E slot \in Slots, id \in Ids :
                 /\ Lowest(FreeSlots(Idled), slot) /\ Lowest(FreshIds(Idled), id)
                 /\ zones' = Spawned(slot, id)
                 /\ dest' = Linked(slot)
           /\ teleportRoomNum' =
                 [p \in Players |-> IF p \in Called THEN dest ELSE teleportRoomNum[p]]
  <2>1. PICK slot \in Slots, id \in Ids :
           /\ slot \in FreeSlots(Idled) /\ id \in FreshIds(Idled)
           /\ zones' = Spawned(slot, id) /\ dest' = slot
    BY <1>2 DEF Lowest, Linked
  <2>2. teleportRoomNum' \in [Players -> Rooms \union {None}]
    BY <1>2 DEF DInv, TypeOK, Rooms
  <2>3. UNCHANGED <<lineVars, online, room, fighting, group, charVars>>
    BY DEF Pulse
  <2> QED BY <2>1, <2>2, <2>3, SpawnStep
<1> QED BY <1>1, <1>2 DEF Pulse

-----------------------------------------------------------------------------
(* The theorems. *)

LEMMA PlayerStep ==
    ASSUME DInv, NEW p \in Players, ByPlayer(p)
    PROVE  DInv'
<1>0. TypeOK /\ Town \in Rooms /\ Door \in Rooms /\ Town \notin Slots
  BY DungeonConstants DEF DInv, Rooms
<1>1. CASE Login(p)
  BY <1>0, <1>1, QuietStep DEF Login, TypeOK, charVars
<1>2. CASE GetPosn(p)
  <2>1. 0 \in Ids
    BY DungeonConstants
  <2>2. DungeonWasReset(p) => roomNumber'[p] = Town
    BY <1>0, <1>2 DEF GetPosn, TypeOK
  <2>3. roomNumber' \in [Players -> Rooms] /\ lastDungeon' \in [Players -> Ids]
        /\ teleportRoomNum' \in [Players -> Rooms \union {None}]
    BY <1>0, <1>2, <2>1 DEF GetPosn, TypeOK
  <2>4. \A q \in Players : roomNumber'[q] \in Slots =>
            roomNumber'[q] = roomNumber[q] /\ lastDungeon'[q] = lastDungeon[q]
    BY <1>0, <1>2, <2>2 DEF GetPosn, TypeOK
  <2> QED BY <1>0, <1>2, <2>3, <2>4, QuietStep DEF GetPosn, TypeOK
<1>3. CASE ChangeRoom(p)
  <2> DEFINE r == teleportRoomNum[p]
  <2>1. /\ p \in online /\ r \in Rooms
        /\ teleportRoomNum' \in [Players -> Rooms \union {None}]
        /\ UNCHANGED <<dest, online, fighting, group>>
    BY <1>0, <1>3 DEF ChangeRoom, TypeOK
  <2>2. CASE FindRoom(r) /\ Arrive(p, r)
    BY <2>1, <2>2, ArriveStep
  <2>3. CASE Stay(p)
    BY <1>0, <2>1, <2>3, StayStep DEF Stay, TypeOK
  <2> QED BY <1>3, <2>2, <2>3 DEF ChangeRoom
<1>4. CASE Walk(p)
  <2>1. /\ p \in online
        /\ teleportRoomNum' \in [Players -> Rooms \union {None}]
        /\ UNCHANGED <<dest, online, fighting, group>>
    BY <1>0, <1>4 DEF Walk, TypeOK
  <2>2. CASE Arrive(p, IF room[p] = Door THEN Town ELSE Door)
    <3> DEFINE r == IF room[p] = Door THEN Town ELSE Door
    <3>1. r \in Rooms /\ FindRoom(r)
      BY <1>0 DEF FindRoom
    <3> QED BY <2>1, <2>2, <3>1, ArriveStep
  <2>3. CASE Stay(p)
    BY <1>0, <2>1, <2>3, StayStep DEF Stay, TypeOK
  <2> QED BY <1>4, <2>2, <2>3 DEF Walk
<1>5. CASE LeaveByDoor(p)
  BY <1>0, <1>5, QuietStep DEF LeaveByDoor, TypeOK, charVars
<1>6. CASE JoinLine(p)
  BY <1>6, JoinLineStep
<1>7. CASE Close(p)
  BY <1>0, <1>7, StayStep DEF Close, TypeOK
<1>8. CASE Teleport(p)
  BY <1>0, <1>8, QuietStep DEF Teleport, TypeOK, charVars
<1>9. CASE StartFight(p)
  BY <1>0, <1>9, StayStep DEF StartFight, TypeOK
<1>10. CASE EndFight(p)
  BY <1>0, <1>10, QuietStep DEF EndFight, TypeOK, charVars
<1>11. CASE \E l \in Players : JoinGroup(p, l)
  BY <1>0, <1>11, QuietStep DEF JoinGroup, TypeOK, charVars
<1>12. CASE LeaveGroup(p)
  <2>1. group' \subseteq group
    BY <1>12 DEF LeaveGroup, Ungroup
  <2> QED BY <1>0, <1>12, <2>1, QuietStep DEF LeaveGroup, TypeOK, charVars
<1>13. CASE Logout(p)
  BY <1>13, LogoutStep
<1> QED BY <1>1, <1>2, <1>3, <1>4, <1>5, <1>6, <1>7, <1>8, <1>9, <1>10, <1>11, <1>12, <1>13
        DEF ByPlayer

LEMMA DInvNext == DInv /\ [Next]_vars => DInv'
<1> SUFFICES ASSUME DInv, [Next]_vars PROVE DInv'
  OBVIOUS
<1>1. CASE UNCHANGED vars
  BY <1>1, QuietStep DEF DInv, TypeOK, vars, lineVars, charVars
<1>2. CASE Pulse
  BY <1>2, PulseStep
<1>3. CASE \E p \in Players : ByPlayer(p)
  BY <1>3, PlayerStep
<1> QED BY <1>1, <1>2, <1>3 DEF Next

LEMMA DInvHolds == Spec => []DInv
BY DInvInit, DInvNext, PTL DEF Spec

(* The line, the instances and who is in them agree in every state.  The line *)
(* never holds a player that is not at the door, or one twice; who is in an   *)
(* instance is counted by it alone.                                           *)
THEOREM DungeonInvHolds == Spec => []DungeonInv
<1>1. DInv => DungeonInv
  BY DEF DInv, LineInv, PlaceInv, DungeonInv
<1> QED BY <1>1, DInvHolds, PTL

(* The entrance always leads to the one instance that is open.                *)
THEOREM EntranceLeadsToOpenHolds == Spec => []EntranceLeadsToOpen
<1>1. DInv => EntranceLeadsToOpen
  BY DEF DInv, PlaceInv
<1> QED BY <1>1, DInvHolds, PTL

\* GET_POSN names the room of an instance only to a character of that instance
LEMMA GetPosnTells ==
    ASSUME DInv, NEW p \in Players, GetPosn(p), seat[p] # 0, teleportRoomNum'[p] \in Slots
    PROVE  seat[p] \in Owner(teleportRoomNum'[p])
<1>1. TypeOK /\ SeatInv
  BY DEF DInv
<1>2. /\ ~DungeonWasReset(p) /\ teleportRoomNum'[p] = roomNumber[p]
      /\ FindRoom(roomNumber[p]) /\ roomNumber[p] \in Slots
  BY <1>1, DungeonConstants DEF GetPosn, TypeOK
<1>3. seat[p] = lastDungeon[p]
  BY <1>1, <1>2 DEF SeatInv
<1> QED BY <1>2, <1>3 DEF DungeonWasReset

\* nothing else names a room to a character without one
LEMMA OthersTellNothing ==
    ASSUME DInv, [Next]_vars, NEW p \in Players, room[p] = None, ~GetPosn(p)
    PROVE  teleportRoomNum'[p] \in {teleportRoomNum[p], None}
<1>1. TypeOK /\ None # Door /\ None \notin Slots
  BY DungeonConstants DEF DInv, Rooms
<1>2. CASE UNCHANGED vars
  BY <1>2 DEF vars
<1>3. CASE Pulse
  <2>1. p \notin Called
    BY <1>1 DEF Called
  <2> QED BY <2>1, <1>3 DEF Pulse
<1>4. ASSUME NEW q \in Players, ByPlayer(q)
      PROVE  teleportRoomNum'[p] \in {teleportRoomNum[p], None}
  <2>1. CASE q # p
    BY <1>1, <1>4, <2>1 DEF TypeOK, ByPlayer, Login, GetPosn, ChangeRoom, Walk, LeaveByDoor,
       JoinLine, Close, Teleport, StartFight, EndFight, JoinGroup, LeaveGroup, Logout
  <2>2. CASE q = p
    BY <1>1, <1>4, <2>2 DEF TypeOK, ByPlayer, Login, ChangeRoom, Walk, LeaveByDoor,
       JoinLine, Close, Teleport, StartFight, EndFight, JoinGroup, LeaveGroup, Logout
  <2> QED BY <2>1, <2>2
<1> QED BY <1>2, <1>3, <1>4 DEF Next

\* who has no room gets one, and loses its seat, only by answering a teleport
LEMMA RoomlessStep ==
    ASSUME DInv, [Next]_vars, NEW p \in Players, room[p] = None
    PROVE  \/ room'[p] = None /\ seat'[p] = seat[p]
           \/ ChangeRoom(p) /\ Arrive(p, teleportRoomNum[p]) /\ FindRoom(teleportRoomNum[p])
              /\ teleportRoomNum[p] # None
<1>1. TypeOK /\ None # Door /\ None # Town
  BY DungeonConstants DEF DInv, Rooms
<1>2. CASE UNCHANGED vars \/ Pulse
  BY <1>2 DEF vars, Pulse, charVars
<1>3. ASSUME NEW q \in Players, ByPlayer(q), q # p
      PROVE  room'[p] = None /\ seat'[p] = seat[p]
  BY <1>1, <1>3 DEF TypeOK, ByPlayer, Login, GetPosn, ChangeRoom, Walk, LeaveByDoor, JoinLine,
     Close, Teleport, StartFight, EndFight, JoinGroup, LeaveGroup, Logout, Arrive, Stay, charVars
<1>4. CASE ChangeRoom(p)
  BY <1>1, <1>4 DEF ChangeRoom, Stay, charVars
<1>5. CASE ByPlayer(p) /\ ~ChangeRoom(p)
  BY <1>1, <1>5 DEF TypeOK, ByPlayer, Login, GetPosn, Walk, LeaveByDoor, JoinLine,
     Close, Teleport, StartFight, EndFight, JoinGroup, LeaveGroup, Logout, charVars
<1> QED BY <1>2, <1>3, <1>4, <1>5 DEF Next

\* a step that gives somebody with a seat no room: only the logout
LEMMA LeavingStep ==
    ASSUME DInv, [Next]_vars, NEW p \in Players, room[p] # None, room'[p] = None
    PROVE  teleportRoomNum'[p] = None
<1>1. TypeOK /\ None # Door /\ None # Town /\ None \notin Rooms
  BY DungeonConstants DEF DInv, Rooms
<1>2. CASE UNCHANGED vars \/ Pulse
  BY <1>2 DEF vars, Pulse
<1>3. ASSUME NEW q \in Players, ByPlayer(q), q # p
      PROVE  room'[p] = room[p]
  BY <1>1, <1>3 DEF TypeOK, ByPlayer, Login, GetPosn, ChangeRoom, Walk, LeaveByDoor, JoinLine,
     Close, Teleport, StartFight, EndFight, JoinGroup, LeaveGroup, Logout, Arrive, Stay
<1>4. CASE Logout(p)
  BY <1>1, <1>4 DEF TypeOK, Logout
<1>5. CASE ByPlayer(p) /\ ~Logout(p)
  BY <1>1, <1>5 DEF TypeOK, ByPlayer, Login, GetPosn, ChangeRoom, Walk, LeaveByDoor, JoinLine,
     Close, Teleport, StartFight, EndFight, JoinGroup, LeaveGroup, Arrive, Stay
<1> QED BY <1>2, <1>3, <1>4, <1>5 DEF Next

\* an instance that somebody was last in is neither made nor renumbered
LEMMA SeatedInstance ==
    ASSUME DInv, [Next]_vars, NEW p \in Players, seat[p] \in Live(zones')
    PROVE  seat[p] \in Live(zones) /\ zones'[seat[p]].slot = zones[seat[p]].slot
<1> DEFINE i == seat[p]
<1>1. TypeOK /\ LineInv /\ InsideIsCounted /\ i \in Ids /\ zones'[i].st # "none"
  BY DEF DInv, PlaceInv, Live
<1>2. CASE zones' = zones
  BY <1>1, <1>2 DEF Live
<1>3. CASE zones' = Idled
  BY <1>1, <1>3, IdledFacts DEF Live
<1>4. ASSUME NEW slot \in Slots, NEW id \in FreshIds(Idled), zones' = Spawned(slot, id)
      PROVE  zones[i].st # "none" /\ zones'[i].slot = zones[i].slot
  <2>1. i # id
    BY <1>4 DEF FreshIds
  <2>2. CASE zones[i].st = "open"
    <3> DEFINE z == zones[i]
               x == [z EXCEPT !.st = "closed"]
    <3>1. zones'[i] = x
      BY <1>1, <1>4, <2>1, <2>2 DEF Spawned
    <3>2. z \in Zone
      BY <1>1, <2>2, ZoneFields DEF TypeOK
    <3> HIDE DEF z
    <3>3. x.slot = z.slot
      BY <3>2 DEF Zone
    <3> HIDE DEF x
    <3> QED BY <2>2, <3>1, <3>3 DEF z
  <2>3. CASE zones[i].st # "open"
    <3>1. zones'[i] = Idled[i]
      BY <1>1, <1>4, <2>1, <2>3 DEF Spawned
    <3> QED BY <1>1, <3>1, IdledFacts
  <2> QED BY <2>2, <2>3
<1>5. ASSUME NEW q \in Players, zones' = Left(q)
      PROVE  zones[i].st # "none" /\ zones'[i].slot = zones[i].slot
  BY <1>1, <1>5, LeftOf
<1>6. ASSUME NEW q \in Players, NEW r, Arrive(q, r)
      PROVE  zones[i].st # "none" /\ zones'[i].slot = zones[i].slot
  <2> DEFINE z == Left(q)[i]
             a == [z EXCEPT !.players = @ \union {q}]
  <2>1. zones'[i] = z \/ zones'[i] = a
    BY <1>1, <1>6 DEF Arrive
  <2>2. z \in Zone \union {NoZone} /\ z.st = zones[i].st
        /\ (zones[i].st # "none" => z.slot = zones[i].slot)
    BY <1>1, LeftOf
  <2> HIDE DEF z
  <2>3. a.st = z.st /\ (z \in Zone => a.slot = z.slot)
    BY <2>2 DEF Zone, NoZone
  <2> HIDE DEF a
  <2> QED BY <1>1, <2>1, <2>2, <2>3, ZoneFields
<1>7. CASE Pulse
  <2>1. CASE zones' = Idled
    BY <1>3, <2>1
  <2>2. CASE \E slot \in Slots, id \in Ids : Lowest(FreshIds(Idled), id) /\ zones' = Spawned(slot, id)
    BY <1>1, <1>4, <2>2 DEF Lowest, Live
  <2> QED BY <1>7, <2>1, <2>2 DEF Pulse
<1>8. ASSUME NEW q \in Players, ByPlayer(q)
      PROVE  \/ zones' = zones
             \/ zones' = Left(q)
             \/ \E r \in Rooms \union {None} : Arrive(q, r)
  <2>1. CASE ChangeRoom(q)
    BY <1>1, <2>1 DEF ChangeRoom, Stay, TypeOK
  <2>2. CASE Walk(q)
    BY <2>2 DEF Walk, Stay, Rooms
  <2>3. CASE Logout(q)
    BY <2>3 DEF Logout
  <2> QED BY <1>8, <2>1, <2>2, <2>3 DEF ByPlayer, Login, GetPosn, LeaveByDoor, JoinLine, Close,
             Teleport, StartFight, EndFight, JoinGroup, LeaveGroup
<1>9. ASSUME NEW q \in Players, ByPlayer(q)
      PROVE  seat[p] \in Live(zones) /\ zones'[seat[p]].slot = zones[seat[p]].slot
  BY <1>1, <1>2, <1>5, <1>6, <1>8, <1>9 DEF Live
<1> QED BY <1>2, <1>7, <1>9 DEF Next, vars

\* who was told to go back into an instance was in it, and it has that room
BackInv ==
    \A p \in Players :
        room[p] = None /\ teleportRoomNum[p] \in Slots /\ seat[p] # 0
            => /\ seat[p] \in Ids
               /\ seat[p] \in Live(zones) => zones[seat[p]].slot = teleportRoomNum[p]

LEMMA BackNext == DInv /\ BackInv /\ [Next]_vars => BackInv'
<1> SUFFICES ASSUME DInv, BackInv, [Next]_vars, NEW p \in Players,
                    room'[p] = None, teleportRoomNum'[p] \in Slots, seat'[p] # 0
             PROVE  /\ seat'[p] \in Ids
                    /\ seat'[p] \in Live(zones') => zones'[seat'[p]].slot = teleportRoomNum'[p]
  BY DEF BackInv
<1>1. TypeOK /\ None \notin Slots /\ None \notin Rooms
  BY DungeonConstants DEF DInv, Rooms
<1>2. room[p] = None
  BY <1>1, LeavingStep
<1>3. seat'[p] = seat[p]
  <2>1. ~(Arrive(p, teleportRoomNum[p]) /\ teleportRoomNum[p] # None)
    BY <1>1, <1>2 DEF Arrive, TypeOK
  <2> QED BY <1>2, <2>1, RoomlessStep
<1>4. seat[p] \in Live(zones') =>
          seat[p] \in Live(zones) /\ zones'[seat[p]].slot = zones[seat[p]].slot
  BY SeatedInstance
<1>5. CASE GetPosn(p)
  <2>1. seat[p] \in Owner(teleportRoomNum'[p])
    BY <1>3, <1>5, GetPosnTells
  <2> QED BY <1>3, <1>4, <2>1 DEF Owner, Live
<1>6. CASE ~GetPosn(p)
  <2>1. teleportRoomNum'[p] = teleportRoomNum[p]
    BY <1>1, <1>2, <1>6, OthersTellNothing
  <2> QED BY <1>2, <1>3, <1>4, <2>1 DEF BackInv
<1> QED BY <1>5, <1>6

\* what happens to a character without a room
LEMMA SeatStep ==
    ASSUME DInv, BackInv, [Next]_vars, NEW p \in Players, seat[p] # 0
    PROVE  SentBack(p) /\ ComesBack(p)
<1>1. /\ TypeOK /\ LineInv /\ InsideIsCounted
      /\ None \notin Slots /\ Door # None /\ Door \notin Slots /\ Town \notin Slots
  BY DungeonConstants DEF DInv, PlaceInv, Rooms
<1>2. SentBack(p)
  BY <1>1, GetPosnTells, OthersTellNothing DEF SentBack
<1>3. ASSUME room[p] = None, room'[p] \in Slots, seat[p] \notin Ids \ Live(zones)
      PROVE  seat'[p] = seat[p]
  <2> DEFINE r == teleportRoomNum[p]
  <2>1. Arrive(p, r) /\ FindRoom(r)
    BY <1>1, <1>3, RoomlessStep
  <2>2. r \in Slots
    BY <1>1, <1>3, <2>1 DEF Arrive, TypeOK
  <2>3. seat[p] \in Owner(r)
    BY <1>3, <2>2 DEF BackInv, Owner
  <2>4. p \notin EntranceWithout(p)
    BY <1>1, OutOfLine
  <2>5. seat'[p] = Min(Owner(r))
    BY <1>1, <2>1, <2>3, <2>4 DEF Arrive, TypeOK
  <2>6. Min(Owner(r)) \in Owner(r)
    BY <1>1, <2>3, OneOwner
  <2> QED BY <1>1, <2>3, <2>5, <2>6 DEF InsideIsCounted, Owner
<1> QED BY <1>2, <1>3 DEF ComesBack

(* A character of an instance other than the first that has no room yet is    *)
(* sent into an instance only by GET_POSN and only into its own; and where it *)
(* then arrives is its own instance, unless that one has been deleted between *)
(* the two, which CHANGE_ROOM does not notice.                                *)
THEOREM ReturnsUnlessFirstHolds == Spec => ReturnsUnlessFirst
<1>1. Init => BackInv
  BY DungeonConstants DEF Init, BackInv, Rooms
<1>2. ASSUME DInv, BackInv, [Next]_vars
      PROVE  [\A p \in Players : seat[p] # 0 => SentBack(p) /\ ComesBack(p)]_vars
  BY <1>2, SeatStep
<1>3. DInv /\ BackInv /\ [Next]_vars
          => [\A p \in Players : seat[p] # 0 => SentBack(p) /\ ComesBack(p)]_vars
  BY <1>2
<1> QED BY <1>1, <1>3, BackNext, DInvHolds, PTL DEF Spec, ReturnsUnlessFirst
=============================================================================
