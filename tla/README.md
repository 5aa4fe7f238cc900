# Verification of Dwarves & Giants (DnGServerSource)

TLA+ models of the server programs of this repository, the TLC runs that check
them on small instances, and TLAPS proofs for every instance. Everything is
translated from the code at the lines `PROJECT.json` names under `map`.

## 1. Inventory

Four programs share the IPC library of `global/`. Each is one thread that loops
over `gIPCPollMgr.doit()` and `server.doit()`; there are no locks and no threads,
so one message handler is one atomic step, and everything hard is in what comes
between two handlers: other clients' messages, hang-ups, and the other processes.

    interpreter --TCP--> roommgr --TCP--> datamgr --SQL--> MySQL
         |                 (one per game server)    (one)
         +--> router, updates

| component | state | operations | interacts through | hard behaviour | what makes it correct |
|---|---|---|---|---|---|
| IPC server, clients, poll manager (`global/ipcserver`, `ipcclient`, `ipcpollmgr`, `ipcmsg`) | client, incoming and dead lists, message queue, poll table, handle counters, `errno` | accept, dispatch, send, close dead, read, close, delete | the handlers of each program | a client closed in one loop while other loops hold it, handle reuse, `errno` read after a call that did not set it | no dangling client, exact counters and table, one CONNECTED, messages in order, one HUNG_UP |
| account locks (`datamgr`) | `accountLocks`, `serverList.userCount`, `messages` | LOGIN, LOGOUT, DOWNTIME, CONFIG/hello, HUNG_UP, start | requests of all game servers | two servers log in the same account; crash of either end | an account is in use once; a lock has exactly one holder |
| login queue and sessions (`roommgr/login.cpp`, `main.cpp`, `rmplayer.cpp`, `datamgrclient.cpp`) | `gPendingLogins`, `gActiveLoginContext`, `gLoginTree`, `RMPlayer::accountID`, `isDead` | CHECK_LOGIN, response, hang-up, forced logout, ghost check | asynchronous requests to datamgr | the client leaves while its login is queued, on its way, or answered | one login outstanding, FIFO, every login answered, no context without a player |
| connection to datamgr (`ipcclient.cpp`, `roommgr/main.cpp`) | `msgQueue`, handle | connect, hello, close, reconnect | - | resent requests on a connection without identity, lost responses | no lock without a holder |
| persistence (`datamgr`, `roommgr/rmroom.cpp`, `callbacks.cpp`, `bplayer.cpp`) | character and house rows, `gLoadingHouses`, `gEmptyBuildings`, room numbers of houses, `g_qHouseID` | SAVE_CHAR, NEW_CHAR, DEL_CHAR, GET/WRITE/NEW_HOUSE, GET_ALL/NEXT_HOUSE | requests and their replies, timers, the crash handler | a house thrown away while somebody is on the way; a character that leaves or is deleted while its house loads; cursor shared by servers | one building of a house; no change of it lost; who asks for a name gets there |
| zones and dungeons (`roommgr/zone.cpp`, pulses in `main.cpp`) | entrance queues, groups, players, spawn counts, shutdown timer | queue, leave, enter, spawn, reset, shut down | pulses, logouts, room changes | a player leaves while queued; timer against re-entry | no queued player that is gone; no dungeon deleted with players in it |
| object identities (`roommgr/main.cpp`) | `gServIDTbl`, `gCurServID` | allocate, free | every object | wrap-around, full table | no identity twice |
| parties and combat (`roommgr/combat.cpp`, `RMGroup`) | sides, pending lists, cloud, objects of a `CombatGroup`; `gPendingCombats`, `gDeadCombats` | engage, join, show, choose, round, flee, die, teleport, log out, delete | two pulses, requests, room changes, logouts | the last one waited for leaves; a fight deleted a pulse later; objects dropped in it | lists and characters agree, rounds go on, fights end, nothing names a dead one |
| trade, containers, shops, money (`rmplayer.cpp`, `bcontain`, `bcarry`, `bwear`, `bshop`) | `BCarryable::_owner`, `BContainer::contents`, `value`, records | get, drop, give, put in, wear, open, buy, sell, rob, money, die, save, load | two players, the crash handler | ownership kept in two places and nested; a crash in the middle of a verb; int amounts | two pointers agree; conservation; nobody takes what is another's |
| effects (`wobject.cpp`, `magic.cpp`) | `activeAffects`, `gAffectedObjects`, powers lent by worn things | cast, renew, age, dispel, lend, take back, write, read | a pulse, saving, death | a list that loses elements while it is walked; copies without a link back | no effect twice or off the list of those to age, no power without its thing |
| bounties and crimes (`wobject.cpp`, `rmparser.cpp`, `datamgr`) | `m_pCrimes`, `gWantedList`, the crimes column | rob, kill, place a bounty, load, write back | read-modify-write in the data manager and a copy in memory | a bounty on somebody who is just coming | copies agree; no gold of nothing; only criminals are hunted |
| rooms and movement, chat and friends | lists that point to each other | enter, exit, login, logout | players | logout in transit | both ends agree |
| spells that only do damage, monsters, talk trees, parsers, tokenizer | tables and world data | - | - | game rules without shared protocol state | not modelled |
| router, updates | nothing beyond their connections | one request, one answer | IPC server | those of the IPC server | those of the IPC server |
| SQL wrapper, logging, config, HTML, encryption | - | I/O and formatting | - | - | not modelled |

`PROJECT.json` lists the same components with their status, and under `hazards`
every place where something can go wrong that a test would hardly reach. The
repository has no tests and no SQL schema; `accountLocks.accountID` being a
unique key is inferred from `datamgr.cpp:357` ("account is already logged in"
when the insert fails).

## 2. Modules

| module | models | checked by |
|---|---|---|
| `DataMgrAccounts` | the rows and handlers of the data manager for accounts | through `AccountLogin` |
| `AccountLogin` | game servers, data manager, and the connections between them | `MCAccountLogin`: `login_*` |
| `AccountUse` | what the login protocol promises: exclusive use of accounts | `ImplementsAccountUse` |
| `AccountLoginInv` | the inductive invariant | `login_faults` |
| `IPCServer` | `IPCServer::doit`, the poll manager, and a program's own connection | `MCIPCServer`: `ipc_*` |
| `ClientSessions` | what the library promises to its program | `ImplementsClientSessions` |
| `DungeonQueue` | a dungeon: its line, its instances, their shutdown | `MCDungeonQueue`: `dungeon_core` |
| `LinkedLists` | `LinkedList::del`, for the lists of `IPCServer` and the line of `DungeonQueue` | through them |
| `Combat` | the fights of a room and their rounds | `MCCombat`: `combat_core` |
| `Houses` | houses in memory and in the database, and who goes into them | `MCHouses`: `house_*` |
| `Crimes` | crimes and bounties in memory, in the row, and on their way | `MCCrimes`: `crime_core` |
| `Belongings` | what characters own, in the room and in their records | `MCBelongings`: `trade_core` |
| `Affects` | effects on characters and things | `MCAffects`: `affect_core` |
| `*_proofs` | the theorems of `AccountLogin`, `IPCServer`, `DungeonQueue`, `Combat`, `Crimes`, `Houses`, `Belongings`, `Affects`, one module each, with the lemmas on lists, induction, sums and bags each needs | TLAPS |

### AccountLogin and DataMgrAccounts

A client `c` has at most one connection and one `RMPlayer`: `srv[c]` is its
server, `sess[c]` its `accountID`, `ctx[c]` its `loginContext`, `dead[c]` the
`isDead` flag of its connection. Each server has `gPendingLogins` (`pending`),
`gActiveLoginContext` (`active`, by context id), `gLoginCounter`, and
`gLoginTree` (`tree`). Connection `<<s, n>>` is the n-th connection of server
`s`; `req` holds what was sent on it and not yet handled, `rep[s]` the responses,
`out[s]` what is queued while there is no connection. One action is one handler:
`CheckLogin` is `_IPC_PLAYER_CHECK_LOGIN` with `LoginContext`'s constructor and
`start`; `HungUp` is the whole of `_IPC_CLIENT_HUNG_UP` with `~RMPlayer` and
`~LoginContext`; `LoginReply` is `_IPC_DATAMGR_LOGIN` in `DataMgrClient`;
`DmReceive` handles one request; `DmReap` is `_IPC_CLIENT_HUNG_UP` in `DataMgr`;
`LinkLost`, `Reconnect`, `Crash`, `Restart`, `DmRestart` are the faults.

Abstractions. Passwords, billing, bans and rights other than the two that
downtime looks at are one choice of verdict. A player whose memory was freed and
that a context or a tree node still names (`Dangling`) makes the next use
undefined: such a server can only crash. A message that was half written when a
connection broke counts as unhandled. `ctx` is reset when a login is answered
whatever the answer; character selection is not modelled.

`Faults` selects what may go wrong (`crash`, `dmcrash`, `reset`, `late`,
`downtime`); `Impatient` lets a client send CHECK_LOGIN again before its answer.
`MaxLogin` bounds `gLoginCounter` of one server process and `MaxConn` the
connections a server makes.

### IPCServer

The loop is `poll`, `app` (the program's own connection and its timers),
`accept`, `dispatch`, `send`, `dead`, `read`, `dispatch2`; `pc` says where it is,
and one step is one client's turn in a loop or one message dispatched. Peers dial,
send, close and break between any two steps. Handlers of the program are reduced
to the two effects they have on the library, a send and a forced logout, on any
client in play. `errno` is kept because `IPCMessage::read` looks at it after a
`read` that returned 0; accept attempts, `EAGAIN` of full and of drained sockets
are what sets it. `own` is roommgr's own connection to the data manager: in the
same poll table and in `gFileHandles`, but not subject to the limit. Handles are
given out lowest first from `Fds`, the numbers that nothing else in the process
uses. Bounds: `MaxIn` unread messages of a peer, `MaxOut` queued messages to it.

Peers send well formed traffic: the message types are those of ordinary requests,
and a message with an illegal size (`Bads`) stands for everything `read` refuses.

### DungeonQueue

One dungeon of one game server. `zones` is `gZones` by `Zone::id`, each instance
with its room number, its `players` and its countdown; `dest` is where the
entrance leads, `queue` the line, which the zone of the entrance (the hub) keeps.
A player has `room`, `teleportRoomNum`, `dungeonEntrance`, and in its record
`roomNumber` and `lastDungeon`. `Pulse` is the whole of
`_IPC_DUNGEON_QUEUE_PULSE`: countdowns, deletions, `enterFromQueue`, `spawn`.
`ChangeRoom` is the client's answer to a teleport, which may come at any time or
never; `Arrive` is `RMRoom::delPlayer` and `RMRoom::addPlayer` with what they call
in both zones. `delPlayerFromQueue` looks in the zone the player is in, so it does
nothing outside the hub, as the code does nothing there.

Abstractions. An instance is one room; all rooms outside are `Town` or the room
of the entrance; a full room is a walk that may fail. Combat is a flag of players
at the door. Groups: one, and who leads it is not kept, so that a departure may
or may not disband it. `seat` is an observer: the instance a character was last in.
Bounds: `MaxLive` instances at a time (the pulse calls nobody when there are so
many), `Ticks` pulses for the countdown of 60, and ids, which are used again when
nothing names them; 0, which the code takes for "none", is not.

### Combat

`war` holds what `combat.cpp` links by pointers: `in` is `WorldObject::combatGroup`,
`fight` the two sides, the two pending lists, the cloud and the objects of each
`CombatGroup`, `due` and `dead` the lists `gPendingCombats` and `gDeadCombats`. The
operators `Engage`, `Delete`, `Deleted` are `RMPlayer::engage`,
`CombatGroup::deleteCharacter` and the destructor, `CombatReady` and `TurnReady` its
two answers; each handler is an action that applies them
in the order of the code: `VerbEngage`, `Jump`, `CastAt` are the three ways into a
fight, `Begin` and `Choose` the two answers of a client, `CombatPulse` the whole of
a round with the deaths, flights and summons it may bring, `NpcPulse` the deletion
of the dead fights, and `Exit`, `Flee`, `Teleport`, `ChangeRoom`, `Logout`,
`NpcGone`, `RoomGone` the ways out. What an action does to its target is a choice,
so every outcome of the dice is covered; places on the grid, rewards and the order
of turns are left out. Bounds: `Fights` (the addresses in use at a time) and
`MaxRounds`, which is 5000 in the code: rounds after that are not processed.

### Houses

One row per name in the database, one `Building` per slot of room numbers in
memory, and the requests and replies between them in order. `GetPosnHome`,
`GetPosnLoad` and `GetPosnTown` are the branches of the login at home,
`GetHouse` and `GetHouseLoad` those of a call to a house by name, `ChangeRoom` the
client's arrival with what it was told, `Toss` the countdown that writes and throws
away an empty house, `Stop` the shutdown or crash handler that writes what is open.
`Receive` has every callback (`cbGetPosnHouseLoad`, `cbGetHouse`, the lists that
drop a reply whose player has left). The id of a house tells apart houses of one
name: `Destroy` and `Create` make a new one while old requests are on the way.
Characters are deleted and made at any point. Abstractions: the three rooms of a
house are one number; its contents are one value that `Redecorate` sets; the
connection is not lost. The observer `left` is what a character's house was last
given. Bounds: `Delay` is 0 instead of 5, so that a house that is empty at a pulse
goes with it; `MaxId` new houses per name and `MaxQueue` messages.

### Crimes

`crimes` is `m_pCrimes` of the player in memory, `row` the column, `req` and `rep`
what is between them: `Choose` asks for the record, `Receive` brings it, `Rob`,
`Die` and `BountyOnline` change it and write it back, `BountyOffline` lets the data
manager add to the row and give back the gold for a name nobody has. A killer that
is named by several victims, a bounty collected, and `updateWanted`'s toggle are
as in the code. `Early` allows a bounty on a character whose record has not come:
then that record is overwritten, so the run has it `FALSE`. Bounds: `MaxCrimes`,
`MaxQueue`, `Purse`, `Bounties`.

### Belongings

Ownership as the code keeps it: `place.owner` is `BCarryable::_owner` and
`place.contents` the list of the holder, changed by `Take`, `BeGivenTo`, `Drop` and
`Gone`; nested bags, worn packs, tossed
chests and piles of money. Each verb is one action with its early returns, among
them the two the code gets to only by chance: an object given to a bag, which
ends the server, and money put into what is no container, which is nowhere.
`Logout` writes the record and destroys what was owned; `Login` reads it;
`Crash` is `handleCrash`. Sums are `Wrap`ped to the width of an `int`. Bounds:
`MaxAmount` per step and `MaxGold`, small enough to be reached. Left out of a price
are the worthless and wholesale states, health and charges (`bshop.cpp:305`,
`wobject.cpp:4811`): objects are in full health and ordinary.

### Affects

`affs` is `activeAffects` as a bag, `listed` the list `gAffectedObjects`. `Cast`,
`CastAura`, `CastFreeze`, `CastCurePoison`, `CastDispelMagic` are the spells by what
they do to these; `ProcessAffects` the pulse, in which deletions by poison end the
walk over the list: since the order is left out, any set of effects may age.
Regeneration is left out: it heals through `takeDamage` (`wobject.cpp:4652`), which
ends a freeze as poison's damage does, a second way to end the walk early.
`PutOn`, `TakeOff`, `Drop`, `ForceDrop`, `AuraDestroys`, death and `Leave` are the
ways to part with a worn thing. Bound: `Long`, the longest duration of an effect.

## 3. Runs

| run | instance | distinct states | shows |
|---|---|---|---|
| `login_faults` | 1 server, 3 clients, an ordinary and a privileged account; crashes of both ends, downtime | 169 000 | the inductive invariant; locks, queue, contexts and login names agree; refinement of `AccountUse` |
| `login_live` | 2 servers, 2 clients, 1 account, crashes of servers, fairness | 55 000 | one session per account, locks and counts exact; logins are answered, accounts freed |
| `login_reset` (violation) | a connection between living processes breaks | - | the account is in use twice |
| `ipc_core` | 2 peers, 3 handles, limit 3, own connection | 735 000 | memory, counters, poll table, causes of a hang-up; refinement of `ClientSessions` |
| `ipc_live` | 2 peers, fairness | 244 000 | dead clients are closed, hang-ups noticed |
| `dungeon_core` | 2 players, 2 instances at a time, 5 ids, fairness | 80 000 | the line and its door, instances and their players, where a login sends and where it arrives, the line moves, empty instances end |
| `combat_core` | a party of two, a third player, a monster, an object; 1 fight at a time, 2 rounds; fairness | 110 000 | lists and characters agree, no round early, none forgotten, fights end |
| `house_core` | 2 names, 2 slots, 2 contents | 1 210 000 | one building of a house, no change lost, arrival at the name that was asked for |
| `house_stuck` (violation) | the same | - | a name stays on `gLoadingHouses` although nothing is loading |
| `crime_core` | 2 characters, bounties of 2 | 656 000 | memory and row agree, no gold of nothing, nobody innocent is hunted |
| `trade_core` | 2 characters, a thing, a sack, a pack, a pile, a chest | 19 000 | pointers agree, one copy of everything, conservation, nobody takes what is another's |
| `affect_core` | 1 player, 2 things, an effect of each kind, durations up to 2 | 522 000 | no effect doubled, none left off the ageing list, no power without its thing, enchantments last |

Why the bounds are enough. The login protocol relates one account to the players,
responses and logouts that answer for it. Two servers contending for an account
are in `login_live`, queues of three clients, accounts that differ, and all faults
are in `login_faults`, whose two connections per server contain one reconnect; the
combination of both is what the proof of `IInv` covers, for every number of
servers. `MaxLogin` counts the logins of one process lifetime and is what keeps a
run finite; it does not help the liveness properties, which speak of logins that
were queued. In `IPCServer` clients meet in the lists, in `errno` and in the handle
numbers; two of them, one own connection and three handles give every order, and
with the limit at three the second client is refused while the own connection is
up. In `DungeonQueue` a second player is what finds a number used again, waits
behind the first, or goes in with it; two numbers suffice for one instance to be
closed and emptied while the other is open, and for a number to pass to another
instance before or after a login is told to go there. In `Combat` the party gives a side of
two and the third player and the monster an opposition of either kind; one address
is used again by the next fight, which is how a stale pointer would show; the
proofs cover any number of fights. Two rounds contain one that is followed by
another and one that is the last. In `Houses` two names are an owner and a visitor,
and two slots let a number pass from one house to the other while somebody is on
the way. `MaxId` is 1, so no name gets a second house after its first was destroyed:
that case is in the theorems only.
In `Crimes` each of two characters is victim, killer and target in turn;
a bounty shared by two killers is not reached. In `Belongings` the amounts are
such that `MaxGold` is reached; `IntMax` is out of their reach, so the overflow
of a sum is in the definitions but not in the run: nor in
the theorem, which assumes that the amounts fit (`AmountsFit`). In `Affects` two things lend
the same power to one wearer, and duration 2 contains an effect that ages and
one that ends.

`CHECK_DEADLOCK FALSE` is said for `login_*` only: with the bounds used up and all
clients gone a run may stop.

What the violations are. `login_reset`: the data manager frees all locks of a
server whose connection it loses although the players go on playing.
`house_stuck`: `cbGetPosnHouseLoad` and the dispatch of a reply return when the
character has left, before the name is taken off `gLoadingHouses`; from then on
`loadHouse` of that name waits for a load that is not there.

What does not hold, and is therefore a hypothesis or an exclusion of a property.
With `Impatient`, CHECK_LOGIN twice, the second context replaces
`player->loginContext`, so that `~RMPlayer` deletes only that one and
`ContextHasPlayer` fails; with the fault `late` the notice of a lost connection
wipes the rows of the next one. At the end of a stream `read` returns 0 and leaves `errno` alone, so the
test for EAGAIN sees another client's: `HangUpNoticedWhenQuiet` excludes that. The
first instance of a dungeon has the id 0, and `process_IPC_GET_POSN` asks whether
`lastDungeon` is not 0 before it compares it: `ReturnsUnlessFirst` excludes its
characters. And a character that was told at GET_POSN to go back to its instance is
let into whichever instance has the room number when its client answers:
CHANGE_ROOM (`rmplayer.cpp:8468`) asks for no id, and between the two messages the
empty instance may be deleted by one pulse and its number given out by the next
spawn, in the same pulse even. In the bounds of `dungeon_core` this happens;
`ReturnsUnlessFirst` says that it is the only way to arrive in another instance than
one's own. No message or comment speaks of this case (the one at line 2673 is given at
GET_POSN). A fight that `engage` gives up half made has no cloud, and nothing but
a logout ends it: `FightsEnd` speaks of fights with a cloud. A second crime takes
its author off the wanted list (`updateWanted` toggles), so that
`NoInnocentHunted` has no converse. Poison that deletes effects ends the pulse for
the rest of the list, so that not every effect ages in every pulse; and a worn thing
that is enchanted lends nothing until it is put on again, so that `WornPowers` is
an inequality.

A privileged account is let in during a downtime without a lock row
(`datamgr.cpp:334`), and may then be played twice: `OneSession` and the refinement
of `AccountUse` are about ordinary accounts, with privileged ones present.

Fairness. `AccountLogin!Fairness` is weak fairness of each handler of a queued
message, of the data manager's notice of a closed connection, and of the close of
a client that is marked dead: both programs loop for ever, read every ready
handle in each pass and drain their queues. Nothing is assumed of clients,
operators or faults. `AccountFreed` has an account locked for a crashed server
freed when the data manager reaps its connection. `IPCServer` shows what this rests
on: a mark is seen when poll reports any event (`ForcedIsClosed` has that as a
hypothesis; another player's ping is enough), and a close is seen unless `errno` is
EAGAIN in every pass (`HangUpNoticedWhenQuiet`). `IPCServer!FairSpec` is weak
fairness of the program as a whole; peers owe nothing. `DungeonQueue!FairSpec` is
weak fairness of the pulse, which a timer sends every 15 seconds, and of the end of
a combat. `LineMoves` has two hypotheses the code does not provide: that teleported
clients answer (the called stay in the line until they do, since `enterFromQueue`
takes them out of the dungeon's queue array, which is empty, and not the hub's), and
that players leave their instances in the end, as numbers are limited.
`Combat!FairSpec` is weak fairness of the two pulses, which a timer sends every
second, and of the clients' answers: a fight waits for its players, and the code
has no time limit on a turn, so without answers `FightsEnd` is false. The other
modules have safety properties only: nothing in the code promises that a house is
entered, a bounty collected or a thing sold.

## 4. Proofs

### Accounts

For all `Servers`, `Clients`, `Accounts`, `Privileged`, `MaxLogin`, `MaxConn`, under
`Sound == ~Impatient /\ Faults \subseteq {"crash", "dmcrash", "downtime"}`:

- `Invariance`: `Spec => []IInv`, and from it `TypeCorrect`, `OneSessionHolds`,
  `SessionHasLockHolds`, `QueueDisciplineHolds`, `ContextHasPlayerHolds`;
- `UseImplemented`: `Spec => Use!Spec`;
- `TreeIsSessionsHolds`: `gLoginTree` holds exactly the accounts of the server's
  players, proved relative to `IInv`.

For any finite set of `Clients` (`ClientsFinite`: there are as many as a server has
handles), under `Steady == ~Impatient /\ Faults \subseteq {"crash", "downtime"}`:

- `HoldersKept`: `Spec => []HolderInv`, and from it `LockHasOneHolderHolds` and
  `UserCountIsUsersHolds`.

`OneSession` is not inductive: a player gets its session from a response, and
nothing in it says that no second response is on the way. `IInv` therefore counts
tokens. A token of an account is a player with a session, an accepted response
not yet handled, or a logout not yet handled. `TokenInv` says that an account has
at most one token and that its lock names the server where the token is; a login
creates a token only by inserting the row, and only handling the logout or
reaping the connection of a dead server removes the row. What a server has sent is
`Sent`, whether it is on the connection or still in `msgQueue`, which makes resent
messages an equality. `LinkInv` (a server has one connection that is not closed,
a dead process has sent nothing that waits) makes the reap safe: when it comes,
the server's tokens are gone. `QueueInv` and `ContextInv` tie queue, contexts and
players together, so that `Head` and `Pos` are applied where they are defined.
`Sound` is needed: `login_reset` is a counterexample without it, and section 3
names those for `Impatient` and `late`.

One lemma per action proves that it preserves `IInv`; lemmas on queues
(`WithoutFacts`), sending (`SendFacts`) and tokens (`TokensKept`, `LogoutAdded`,
`SessionAdded`, `LoginAccepted`) carry what they share. The last part shows
that every step begins one session on a free account, ends sessions, or stutters.

`IInv` says that an account has at most one token, `HeldInv` of `HolderInv` that it
has one as long as it is locked: `LockHasOneHolder` is the two together. `CountInv`
is `userCount` as the sum of three cardinalities: players of the server, accepted
responses and logouts that wait. Each action moves one user from one of the three
to the next, adds one or takes one away, so a count follows from a finite set
with one element more or less. `HelloInv` is the order that both rest on: what
introduces a connection is the first thing on it, so no login is handled for a
server that is not known, and the counts start at zero. `Steady` leaves out the
restart of the data manager and connections that break: a restart sets `userCount`
to zero while players stay in the game, and what a server queued meanwhile goes out
before its hello, so that a logout among it releases nothing.

### The IPC library

For any finite set of clients, any handles, any limit, and whatever peers and
handlers do: `SInvHolds`, and from it `ClientsListedHolds`, `HandlesExactHolds`,
`HungUpHasCauseHolds` and the refinement `SessionsImplemented`. That no pointer dangles is not inductive: a client may be
deleted when its `_IPC_CLIENT_HUNG_UP` is handled only because nothing of it is
queued behind that message, and nothing is because a closed client is not read.
`SInv` therefore has four parts that each action keeps together:

- `Mails`: the queue announces a client before it is listed, with one message and
  nothing of it before that is handled; whoever has said goodbye has no handle and
  says no more; every client that exists is listed or announced;
- `Tables`: no handle is used twice, the poll table has the listed clients that
  have a handle, under it, and lies below `maxHandle`, also after `delClient`
  has lowered it by one;
- `Counts`: both counters against the number of open handles;
- `ListsInv`, `DeadInv`, `NetInv`: the lists of `doit` name listed clients once and
  are empty outside their loops; who waits to be closed as dead is; the peer of a
  client that was closed comes back only after the object is deleted, so a new
  connection is never given an object that is still listed.

`Mail`, `Table` and `Count` are operators of constants, so each way of changing
queue, table or counters is a lemma of its own (`MailHungUp`, `TableDrop`, ...), and
one lemma per action puts them together; `DropOf` serves the three loops that
close clients. The lemmas on lists (`TailOf`, `WithoutOf`, ...) say what
the lists lose and keep. Only the finiteness of `Clients` is assumed for the counters.

`SessionsImplemented`: `IPCServer` implements `ClientSessions`. The mapping takes from the
queue what one client has said (`Spoken`, a recursive function along the queue) and
adds what it has sent and is not read. The lemmas on `Spoken` say what an append, a
concatenation, the handling of the head and a farewell do to it; they come from
`Tells`, the equation of the recursive function, which has a solution for every queue and
only one at each place (`TellsExist`, `TellsAgree`, by induction on the queue). One more
fact is inductive beside `SInv`: a connection that is off has nothing unread (`Silent`).
Most steps are stutters of every session (`Still`), among them reading, which moves
words from the one half of `unread` to the other; whoever closes a client makes the
step `Closed` with the words read before (`DropHangs`); and the hang-up is handled as
`HungUp` because `Mails` has it last of that client's messages.

### Dungeons

For any players, instance numbers, ids and ticks: `DungeonInvHolds`,
`EntranceLeadsToOpenHolds` and `ReturnsUnlessFirstHolds`. Two facts are added to make
the invariants inductive (`DInv`). `LineComplete`: whoever has `dungeonEntrance` is in
the line, therefore at the door, so that `delPlayerFromQueue` never does half its
work and `RMRoom::addPlayer` never takes an arrival for somebody who waits.
`SeatInv`: a room number of an instance in a character's record comes with the id
that the instance had, which is what `process_IPC_GET_POSN` compares. Players'
requests are of four kinds, with a lemma each: arriving in another room
(`ArriveStep`), leaving the line where one stands (`StayStep`), joining it, logging
out; all others leave line and instances alone (`QuietStep`). The pulse has two:
`IdleStep`, in which only instances without players end, and `SpawnStep`.
`ReturnsUnlessFirst` needs one more (`BackInv`): who has no room and was told to go
into an instance was last in it, and it still has that number, unless it is gone.
It holds because GET_POSN alone tells such a character anything (`GetPosnTells`,
`OthersTellNothing`), its seat stays until it arrives (`RoomlessStep`), and no step makes
or renumbers an instance that somebody was last in (`SeatedInstance`).

### Fights

For any players, monsters, parties, fights and objects, `CInvHolds` and from it
`OrderlyHolds`, `NobodyForgottenHolds`, `ChoiceCountsHolds`, `RoundAwaitsAllHolds`,
`ObjectsLetGoHolds`. `CInv` adds to the run's invariants what they need: a fight
that is due waits for nobody, turns are asked for when all have arrived, and
an object that names a live fight is in its list. The proof has a layer for the
operators on `war` (what each preserves of one fight) and one lemma per action
above it.

### Crimes

`HuntInvHolds`, `NoInnocentHuntedHolds` and `CrimesCounted`, for any characters,
bounties and bounds. That whoever is hunted is in the game and a criminal is not
inductive: a second reply to a request would replace the crimes of somebody on the
list. `HuntInv` therefore has `AskInv`: of a character there is at most one
request or reply for its record under way that will find it, and only while it
waits. `CrimesCounted` says that the flag and the counts agree in memory and in the row.

Under `~Early` (nobody puts a bounty on a character whose record has not come;
`Early` is the counterexample) two more hold, for any `MaxQueue`:

- `RecordsAgreeHolds`: what a player has in memory is what its row will hold when
  all that is under way has been read. `Later(r, q, c)` is that row, a recursive
  function of the queue; the proofs never unfold it, but show by induction on the
  queue (`Upto`) that there is one chain of records from the row through the
  requests, and argue about its links. `RecordInv` adds to `HuntInv` and the
  property `CalmInv`: behind the request for a record nothing in the queue
  concerns that character, so that the reply brings what the row still holds. All
  steps that write (a crime, a death, a bounty placed or collected) are `Written(ws)`
  for a set of characters, with one lemma.
- `NoMintingHolds`: gold of the characters, on their heads, in requests for bounties
  and in refunds never gets more. `Worth` is a sum over the characters (`Mine`)
  and one over each queue; a step changes it at one or two characters and at the
  head or the end of a queue, and the lemmas on sums (`SumChanged`,
  `SumShared` for a bounty that several collect, `SumLonger`, `SumShorter`) reduce that
  to arithmetic on the terms that change.

### Houses

For any names, any finite number of slots and any `MaxId > 0` (`HouseBounds`), and
queues of any length. `NobodyOutsideHolds` and `ArrivesAtNameHolds` come first. Their
invariant is the shape of `bld` and `at` and `NobodyOutside`; the actions are of two
kinds, those that leave all buildings with somebody in them alone (`Stays`) and
those that keep owner and place of each (`Kept`), with a lemma for each kind.
`ArrivesAtName` rests on the test of `teleportDestBuildingOwner` (`rmplayer.cpp:8387`).

`HousesInvHolds` and `NothingIsLostHolds` need `Whole`. It is about one sequence, the
replies followed by the requests (`Flight`): the data manager answers in order, so
the time until something takes effect is its place in that sequence. A message
that is handled becomes a reply, or none, at the same place. `Sound` says of it:

- `CallersInv`, `BirthInv`, `IdsInv`, `BoundInv`: who waits for an answer that names it;
  a row is made once, and ids of houses only grow, counting those that are still
  to be made;
- `OneHouse`: a house that is asked for is not in memory, and one in memory is
  there once;
- `ReplyInv`, `OrderInv`: a reply brings what was last left in the house; a house is
  asked for only behind the writes of it that are under way;
- `KeptInv`, `SavedInv`: a building in memory has what was last left in it, and
  either is marked as changed, or that is also the data of the newest write under
  way, or of the row when there is none; or the house is doomed: its deletion is
  under way and nobody asks for it before that.

`LoadInv` adds that the houses under way are the last of `gLoadingHouses`, in their
order: `cbGetPosnHouseLoad` removes the first name whatever house the reply is
about, and some replies remove none, so names may stay behind at its front
(`house_stuck` shows one), but no name of a house under way is lost and no house is
asked for twice at a time. The lemmas come in three layers: what happens to each conjunct when
a sequence loses or replaces messages (`Embeds`, `DropAt`, `PutAt`), what a kind of
change does to `Sound` as a whole (`SoundAdd`, `SoundPut`, `SoundGone`, `SoundRow`, `SoundNew`,
`SoundDelete`, `SoundWrites`), and one lemma per action.

### Belongings

For any characters, objects, prices and purses: `OrderlyHolds`, and, where amounts
fit in an `int` (`AmountsFit`), `NoMintingHolds` and `HandsOffHolds`.

`OwnInv` is the invariant of ownership. That no bag is inside itself is stated as
`Founded`: no set of bags is closed under owners, so every chain of owners ends.
`Into` keeps it because nothing goes into what it owns (`FoundedInto`), which each
verb tests or which holds of a character that receives. What somebody owns (`Owned`) and what is in a container (`Inside`)
are least sets; `OwnedFacts` and `OwnedLeast` are their two halves, and by
`InsideIs` the two agree as long as the two pointers do. A logout and a destruction
take away a set that is closed under both pointers, and a record holds a forest from which
a login can make the room again (`IsRecord`).

`NoMinting` is one ledger over characters and objects, in memory or in a record: a sum of
what each is worth at its place. A step keeps what exists and its worth, passes
some of it on, spends, or earns what it has just lost; each of those is a lemma on
sums, and each action is one of them. The invariant needs more than `OwnInv`: a bag is never
worth less than its price, gold goes into a bag only up to `MaxGold`, a pile has at
least one piece, and who is away has no gold in memory. `AmountsFit` says that all the
gold of the first records, with `MaxGold` or the price of a bag on top of it, fits in
an `int`: beyond it the sums of the code wrap, `MAX_GOLD_HELD` being 2 000 000 000
(`rmplayer.cpp:10`), and the ledger is not kept. The instance of `trade_core` satisfies it.

`HandsOff` compares owners before and after a step of somebody else. What stays
where it is stays owned (`OwnedStays`), and so does what moves within what the same
character owns (`OwnedMoves`). An object that a request takes has the requester as its base
owner, and by `Founded` base owners and `Owned` say the same, so it is not another's.
That another's purse does not shrink when something is added to it rests on the
invariant of `NoMinting`: the sum does not wrap.

### Effects

For any characters, finitely many things, any spells and any durations: `AffectsInvHolds`,
and from it `OrderlyHolds`, `WornPowersHolds` and `EnchantmentsLastHolds`.

The properties are not inductive alone. `AffectsInv` adds what an effect may be (`Sane`):
an aura, what an aura has made and what a thing lends last for ever, and what else a
spell has made does not. The code relies on this in three places. A renewal does not put a
thing on `gAffectedObjects`; it is there already only because what is renewed runs out
(`ListedByIs`). The pulse and the passing over of effects by poison touch only what runs out,
hence no enchantment and no lent power (`FitAged`). And `delAffect` takes a thing from the list when
nothing timed is left, which is right only if the rest needs no ageing. `CastFreeze`
lists nobody: whoever is in the room is listed, as a conjunct of its own.

The lemmas come in three layers. `CopiesOfSet`, `CopiesOfPlus` and `CopiesOfMinus` say what the
operators of bags do to the copies of one element; no proof above them unfolds a bag.
`FitRenewed`, `FitAged`, `FitLoaded`, `FitLent`, ... say for each change of one object's
effects that they stay `Sane` and single (`Fit`), and that spells and gifts leave what
comes of things alone (`Works`). Then there is one lemma per kind of step: an object
changes where it is (`OneChanged`), or a character parts with things, wears them or
takes them off (`WearerChanged`), and each action is one of them but for destruction,
leaving and coming back.

`WornPowers` counts: each thing in `Lenders(c, e)` accounts for one copy of `e`, since things
may lend the same power. What is lost takes as many copies with it as lenders
(`TakenBack`); an enchantment made in a thing that is worn adds a lender and no copy,
which is why the property is an inequality: the code lends the new power only when the
thing is put on again.

### Only model-checked

The liveness properties (`LoginAnswered`, `AccountFreed`, `HangUpNoticedWhenQuiet`,
`ForcedIsClosed`, `LineMoves`, `EmptyDungeonEnds`, `FightsEnd`), which the prover does not
reach. Every invariant and action property of the passing runs is a theorem, some under
an assumption named above, and so are both refinements. Induction
over the naturals and over finite sets is used without the library's theorems
that take an operator (`NatInd`, `SubsetsInduction` come from the minimal elements
of a well-founded order); that is enough for sums and chains of records, and what
a recursive function returns is only used through such facts.
Two proof modules each have the lemmas on lists (`IPCServer_proofs`,
`DungeonQueue_proofs`) and on sums (`Crimes_proofs`, `Belongings_proofs`): each proof
module stands by itself beside the model it is about.

## 5. Not modelled

- What is lost with a connection: a login request or its answer (nobody answers
  then, and the queue of the server stands still), and replies to houses and
  crimes; `Houses` and `Crimes` have a connection that is not lost.
- GROUP_JOIN, GROUP_QUESTION, GROUP_KICK: the answer to a question names any player
  and `joinGroup` asks nothing of it, so no property of theirs would hold.
- The cursor of GET_ALL_HOUSES, one for all servers: only a command of the staff
  (`rmparser.cpp:3658`) uses it.
- Object identities: a bit table searched round robin; the models take it that an
  identity is not used again while something refers to it.
- Chat channels, friends and mail: one-step operations with no effect on the state
  of the other parts.
- The grid of a fight, the damage of spells, scripted actions, monsters' decisions
  and talk trees: tables of independent rules, most of `magic.cpp`, `actions.cpp` and
  `rmparser.cpp`. Where they change the state of a model they are a choice.
- The loader and tokenizer of the world files, the containers of the IPC library,
  SQL, configuration, logging, HTML and encryption: sequential code, or I/O.

What could be added next: the places of the characters in a fight (the grid and the
summons that find no free cell), the outer doors of houses, and a server killed
without its crash handler between two saves.
