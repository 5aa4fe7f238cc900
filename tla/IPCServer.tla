------------------------------- MODULE IPCServer --------------------------------
(***************************************************************************)
(* A server of the IPC library: IPCServer, its IPCClients, and the poll    *)
(* manager.  It is the loop of every program of the repository:            *)
(*                                                                         *)
(*     gIPCPollMgr.doit();  gDataMgr->doit();  server.doit();  timers      *)
(*                                                                         *)
(* with doit = accept, dispatch, send, close the dead, read, dispatch.     *)
(* The program is single threaded; peers connect, send, close and break    *)
(* between any two of its steps, and each client's turn of a loop is a     *)
(* step.  The program's own message handlers are an arbitrary choice of    *)
(* the effects they have on this library: queueing a message for a client  *)
(* (send) and marking one dead (isDead, RMPlayer::forceLogout).  The        *)
(* connection that roommgr itself keeps to the data manager (gDataMgr) is  *)
(* in the same poll table and the same handle count.                       *)
(*                                                                         *)
(* A message is whole: one that has only partly arrived is not in inbox.   *)
(* Client c is the memory of one IPCClient; its peer may connect again     *)
(* once it is deleted, and the new object then has the same address.       *)
(***************************************************************************)
EXTENDS Integers, FiniteSets, SequencesExt, LinkedLists

CONSTANTS
    Clients,         \* peers, and the IPCClient objects that stand for them
    Fds,             \* handles the process does not use for anything else
    gMaxConnectCount,
    Msgs,            \* well formed messages
    Bads,            \* messages whose header carries an illegal size
    MaxIn,           \* bound: unread messages of a peer
    MaxOut,          \* bound: queued messages to a peer
    HasOwn,          \* does the program keep a connection of its own (roommgr)?
    Own,             \* that connection, in the poll table
    NoClient

ASSUME ServerConstants ==
    /\ IsFiniteSet(Clients)
    /\ Fds \subseteq Nat
    /\ gMaxConnectCount \in Nat
    /\ Bads \intersect Msgs = {}
    /\ MaxIn \in Nat /\ MaxOut \in Nat
    /\ HasOwn \in BOOLEAN
    /\ NoClient \notin Clients
    /\ Own \notin Clients \union {NoClient}

NoFd == -1

VARIABLES
    net,          \* net[c]: the peer's end of the connection
    inbox,        \* inbox[c]: sent by the peer, not read
    pc,           \* where the main loop is
    turn,         \* the clients the send loop has still to visit
    errno,        \* does errno hold EAGAIN?
    live,         \* IPCClient objects that exist
    handle,       \* IPCClient::handle
    isDead,       \* IPCClient::isDead
    msgOut,       \* size of IPCClient::msgQueue
    clientList, incomingClientList, deadClientList, msgQueue, connections,
    gFileHandles,
    own,          \* handle of the program's own connection
    clients,      \* IPCPollMgr::clients, by handle
    maxHandle

peerVars   == <<net, inbox>>
loopVars   == <<pc, turn, errno>>
objVars    == <<live, handle, isDead, msgOut>>
listVars   == <<clientList, incomingClientList, deadClientList>>
handleVars == <<connections, gFileHandles, own, clients, maxHandle>>
vars == <<peerVars, loopVars, objVars, listVars, msgQueue, handleVars>>

\* "eof": the peer closed its end; "reset": the connection is broken
Nets    == {"off", "open", "eof", "reset"}
Phases  == {"app", "poll", "accept", "dispatch", "send", "dead", "read", "dispatch2"}
Message == [type : {"CONNECTED", "HUNG_UP"}, from : Clients]
           \union [type : {"DATA"}, from : Clients, data : Msgs \union Bads]

TypeOK ==
    /\ net \in [Clients -> Nets]
    /\ inbox \in [Clients -> Seq(Msgs \union Bads)]
    /\ pc \in Phases
    /\ turn \in Seq(Clients)
    /\ errno \in {"EAGAIN", "other"}
    /\ live \subseteq Clients
    /\ handle \in [Clients -> Fds \union {NoFd}]
    /\ isDead \in [Clients -> BOOLEAN]
    /\ msgOut \in [Clients -> 0 .. MaxOut]
    /\ clientList \in Seq(Clients)
    /\ incomingClientList \in Seq(Clients)
    /\ deadClientList \in Seq(Clients)
    /\ msgQueue \in Seq(Message)
    /\ connections \in Nat
    /\ gFileHandles \in Nat
    /\ own \in Fds \union {NoFd}
    /\ clients \in [Fds -> Clients \union {NoClient, Own}]
    /\ maxHandle \in Nat

\* the server listens: its own socket is the first of gFileHandles
Init ==
    /\ net = [c \in Clients |-> "off"]
    /\ inbox = [c \in Clients |-> <<>>]
    /\ pc = "poll" /\ turn = <<>> /\ errno = "other"
    /\ live = {}
    /\ handle = [c \in Clients |-> NoFd]
    /\ isDead = [c \in Clients |-> FALSE]
    /\ msgOut = [c \in Clients |-> 0]
    /\ clientList = <<>> /\ incomingClientList = <<>> /\ deadClientList = <<>>
    /\ msgQueue = <<>>
    /\ connections = 0
    /\ gFileHandles = 1
    /\ own = NoFd
    /\ clients = [h \in Fds |-> NoClient]
    /\ maxHandle = 0

Connected(c) == [type |-> "CONNECTED", from |-> c]
HungUp(c)    == [type |-> "HUNG_UP", from |-> c]
Data(c, ms)  == [i \in 1 .. Len(ms) |-> [type |-> "DATA", from |-> c, data |-> ms[i]]]

\* accept and connect return the lowest handle that is free
FreeFds   == Fds \ ({handle[c] : c \in Clients} \union {own})
Lowest(h) == h \in FreeFds /\ \A k \in FreeFds : h <= k

\* clients with an open handle; peers the kernel has connected but not given us
Open       == {c \in Clients : handle[c] # NoFd}
Waiting(c) == net[c] # "off" /\ c \notin Open

-----------------------------------------------------------------------------
(* Peers. *)

Dial(c) ==
    /\ net[c] = "off" /\ c \notin live
    /\ net' = [net EXCEPT ![c] = "open"]
    /\ UNCHANGED <<inbox, loopVars, objVars, listVars, msgQueue, handleVars>>

PeerSends(c) ==
    /\ net[c] = "open"
    /\ Len(inbox[c]) < MaxIn
    /\ \E m \in Msgs \union Bads : inbox' = [inbox EXCEPT ![c] = Append(@, m)]
    /\ UNCHANGED <<net, loopVars, objVars, listVars, msgQueue, handleVars>>

PeerCloses(c) ==
    /\ net[c] = "open"
    /\ net' = [net EXCEPT ![c] = "eof"]
    /\ UNCHANGED <<inbox, loopVars, objVars, listVars, msgQueue, handleVars>>

PeerResets(c) ==
    /\ net[c] \in {"open", "eof"}
    /\ net' = [net EXCEPT ![c] = "reset"]
    /\ UNCHANGED <<inbox, loopVars, objVars, listVars, msgQueue, handleVars>>

-----------------------------------------------------------------------------
(* Mutants: plausible bugs in the operations below. *)

\* delClient lowers maxHandle whatever handle is closed
LowerMax_Always(h) == IF maxHandle = 0 THEN 0 ELSE maxHandle - 1

\* close forgets gIPCPollMgr.delClient
PollDel_Forgotten(h) == clients

\* the loops that close clients do not look at the handle
IsOpen_Unchecked(c) == TRUE

\* read takes every failed read for a hang-up
Unreadable_Always(c) == net[c] # "off"

\* read takes the end of the stream for "no data yet"
Unreadable_ResetOnly(c) == net[c] = "reset"

\* _IPC_CLIENT_HUNG_UP leaves the client in the client list
Unlist_Forgotten(s, c) == s

\* the poll manager does not look at isDead
IsDefunct_NetOnly(c) == net[c] = "reset"

\* the hang-up is queued in front of what was read before it
Farewell_First(c, read) == <<HungUp(c)>> \o read

-----------------------------------------------------------------------------
(* The poll manager. *)

\* IPCPollMgr::addClient, delClient
PollAdd(c, h) ==
    /\ clients' = [clients EXCEPT ![h] = c]
    /\ maxHandle' = IF h > maxHandle THEN h ELSE maxHandle

LowerMax(h) == IF h = maxHandle /\ maxHandle > 0 THEN maxHandle - 1 ELSE maxHandle
PollDel(h)  == [clients EXCEPT ![h] = NoClient]

\* revents & (POLLHUP | POLLERR | POLLNVAL) || isDead;  revents & POLLIN
IsDefunct(c) == net[c] = "reset" \/ isDead[c]
Readable(c)  == inbox[c] # <<>> \/ net[c] = "eof"

\* the clients of the handles hs, lowest handle first
ByHandle(hs) ==
    {[i \in 1 .. Cardinality(hs) |-> clients[order[i]]] :
        order \in {f \in [1 .. Cardinality(hs) -> hs] :
                      \A i, j \in 1 .. Cardinality(hs) : i < j => f[i] < f[j]}}

\* IPCPollMgr::doit, once the program's own connection is made
Poll ==
    LET polled == {h \in Fds : h <= maxHandle /\ clients[h] \in Clients}
        defunct == {h \in polled : IsDefunct(clients[h])}
        readable == {h \in polled \ defunct : Readable(clients[h])}
        ready == {h \in polled : net[clients[h]] = "reset" \/ Readable(clients[h])}
    IN
    /\ pc = "poll"
    /\ pc' = "app"
    /\ HasOwn => own # NoFd
    /\ \E ownReady \in {FALSE, own # NoFd} :
         IF ready = {} /\ ~ownReady
         THEN UNCHANGED <<incomingClientList, deadClientList>>
         ELSE \E dead \in ByHandle(defunct), incoming \in ByHandle(readable) :
                /\ deadClientList' = deadClientList \o dead
                /\ incomingClientList' = incomingClientList \o incoming
    /\ UNCHANGED <<peerVars, turn, errno, objVars, clientList, msgQueue, handleVars>>

-----------------------------------------------------------------------------
(* IPCServer::doit. *)

\* the accept loop: a connection is taken, given a client and queued as connected
Accept(c) ==
    /\ pc = "accept"
    /\ gFileHandles < gMaxConnectCount
    /\ Waiting(c)
    /\ \E h \in Fds : Lowest(h) /\ handle' = [handle EXCEPT ![c] = h]
    /\ live' = live \union {c}
    /\ gFileHandles' = gFileHandles + 1
    /\ connections' = connections + 1
    /\ msgQueue' = Append(msgQueue, Connected(c))
    /\ errno' = "other"
    /\ UNCHANGED <<peerVars, pc, turn, isDead, msgOut, listVars, own, clients, maxHandle>>

\* nobody is waiting or no handle is free (the failed accept sets errno), or
\* there are too many connections
AcceptNoMore ==
    /\ pc = "accept"
    /\ pc' = "dispatch"
    /\ IF gFileHandles < gMaxConnectCount
       THEN ((\A c \in Clients : ~Waiting(c)) \/ FreeFds = {}) /\ errno' = "other"
       ELSE UNCHANGED errno
    /\ UNCHANGED <<peerVars, turn, objVars, listVars, msgQueue, handleVars>>

\* what a handler of the program does to the clients of ps: nothing, a send, or
\* a forced logout
Effect(ps) ==
    \/ UNCHANGED <<isDead, msgOut>>
    \/ \E d \in ps : /\ msgOut[d] < MaxOut
                     /\ msgOut' = [msgOut EXCEPT ![d] = @ + 1]
                     /\ UNCHANGED isDead
    \/ \E d \in ps : isDead' = [isDead EXCEPT ![d] = TRUE] /\ UNCHANGED msgOut

Dispatching(type) ==
    /\ pc \in {"dispatch", "dispatch2"}
    /\ msgQueue # <<>>
    /\ Head(msgQueue).type = type
    /\ msgQueue' = Tail(msgQueue)

HandleConnected ==
    LET c == Head(msgQueue).from IN
    /\ Dispatching("CONNECTED")
    /\ clientList' = Append(clientList, c)
    /\ PollAdd(c, handle[c])
    /\ Effect(ToSet(clientList'))
    /\ UNCHANGED <<peerVars, loopVars, live, handle, incomingClientList, deadClientList,
                   connections, gFileHandles, own>>

HandleData ==
    /\ Dispatching("DATA")
    /\ Effect(ToSet(clientList))
    /\ UNCHANGED <<peerVars, loopVars, live, handle, listVars, handleVars>>

\* the player is deleted, then the client (its handle is closed already)
Unlist(s, c) == Without(s, c)

HandleHungUp ==
    LET c == Head(msgQueue).from
        gone == [msgOut EXCEPT ![c] = 0]
        alive == [isDead EXCEPT ![c] = FALSE]
        others == ToSet(clientList) \ {c}
    IN
    /\ Dispatching("HUNG_UP")
    /\ clientList' = Unlist(clientList, c)
    /\ incomingClientList' = Without(incomingClientList, c)
    /\ deadClientList' = Without(deadClientList, c)
    /\ live' = live \ {c}
    /\ \/ isDead' = alive /\ msgOut' = gone
       \/ \E d \in others : /\ msgOut[d] < MaxOut
                            /\ msgOut' = [gone EXCEPT ![d] = @ + 1]
                            /\ isDead' = alive
    /\ UNCHANGED <<peerVars, loopVars, handle, handleVars>>

\* the queue is empty: on to the send loop, or back to the main loop
Dispatched ==
    /\ msgQueue = <<>>
    /\ \/ pc = "dispatch" /\ pc' = "send" /\ turn' = clientList
       \/ pc = "dispatch2" /\ pc' = "poll" /\ UNCHANGED turn
    /\ UNCHANGED <<peerVars, errno, objVars, listVars, msgQueue, handleVars>>

\* delClient, addMessage of ms, and IPCClient::close: what the peer still had to
\* say is lost
Drop(c, ms) ==
    /\ connections' = connections - 1
    /\ msgQueue' = msgQueue \o ms
    /\ gFileHandles' = gFileHandles - 1
    /\ clients' = PollDel(handle[c])
    /\ maxHandle' = LowerMax(handle[c])
    /\ handle' = [handle EXCEPT ![c] = NoFd]
    /\ net' = [net EXCEPT ![c] = "off"]
    /\ inbox' = [inbox EXCEPT ![c] = <<>>]
    /\ UNCHANGED own

\* what is queued for a client that is closed
Farewell(c, read) == read \o <<HungUp(c)>>

IsOpen(c) == handle[c] # NoFd

\* sendNextMsg until the queue is empty, the socket is full or broken
SendTo ==
    LET c == Head(turn) IN
    /\ pc = "send" /\ turn # <<>>
    /\ \/ \* nothing to send, or everything is written
          /\ ~IsOpen(c) \/ msgOut[c] = 0 \/ net[c] # "reset"
          /\ msgOut' = IF IsOpen(c) THEN [msgOut EXCEPT ![c] = 0] ELSE msgOut
          /\ UNCHANGED <<errno, peerVars, handle, msgQueue, handleVars>>
       \/ \* the socket takes a part only; EAGAIN if it takes nothing
          /\ IsOpen(c) /\ msgOut[c] > 0 /\ net[c] = "open"
          /\ \E n \in 1 .. msgOut[c] : msgOut' = [msgOut EXCEPT ![c] = n]
          /\ errno' \in {errno, "EAGAIN"}
          /\ UNCHANGED <<peerVars, handle, msgQueue, handleVars>>
       \/ \* "the connection is deemed dead, close it down"
          /\ IsOpen(c) /\ msgOut[c] > 0 /\ net[c] = "reset"
          /\ Drop(c, Farewell(c, <<>>))
          /\ msgOut' = [msgOut EXCEPT ![c] = 0]
          /\ errno' = "other"
    /\ turn' = Tail(turn)
    /\ UNCHANGED <<pc, live, isDead, listVars>>

\* "process the dead clients"
CloseDead ==
    LET c == Head(deadClientList) IN
    /\ pc = "dead" /\ deadClientList # <<>>
    /\ deadClientList' = Tail(deadClientList)
    /\ IF IsOpen(c) THEN Drop(c, Farewell(c, <<>>))
       ELSE UNCHANGED <<peerVars, handle, msgQueue, handleVars>>
    /\ UNCHANGED <<loopVars, live, isDead, msgOut, clientList, incomingClientList>>

\* n messages of c can be read before an illegal one or the last
ReadUpTo(c, n) ==
    /\ \A i \in 1 .. n : inbox[c][i] \notin Bads
    /\ n < Len(inbox[c]) => inbox[c][n + 1] \in Bads

\* IPCMessage::read of a socket without data: the end of the stream returns 0
\* and leaves errno alone, so it is seen only when errno is not EAGAIN already
Unreadable(c) == net[c] = "reset" \/ (net[c] = "eof" /\ errno # "EAGAIN")

\* what becomes of the open client c of which n messages can be read
Read(c, n) ==
    LET read == Data(c, SubSeq(inbox[c], 1, n)) IN
    \/ \* _IPC_CLIENT_HACKED_MSG
       /\ n < Len(inbox[c])
       /\ Drop(c, Farewell(c, read \o Data(c, <<inbox[c][n + 1]>>)))
       /\ UNCHANGED errno
    \/ \* "the client must have hung up"
       /\ n = Len(inbox[c]) /\ Unreadable(c)
       /\ Drop(c, Farewell(c, read))
       /\ errno' = IF net[c] = "reset" THEN "other" ELSE errno
    \/ \* no more data; EAGAIN unless a message has partly arrived
       /\ n = Len(inbox[c]) /\ ~Unreadable(c)
       /\ msgQueue' = msgQueue \o read
       /\ inbox' = [inbox EXCEPT ![c] = <<>>]
       /\ errno' \in IF net[c] = "open" THEN {errno, "EAGAIN"} ELSE {errno}
       /\ UNCHANGED <<net, handle, handleVars>>

\* getNextMsg until there is no more
ReadFrom ==
    LET c == Head(incomingClientList) IN
    /\ pc = "read" /\ incomingClientList # <<>>
    /\ incomingClientList' = Tail(incomingClientList)
    /\ \/ /\ ~IsOpen(c)
          /\ UNCHANGED <<errno, peerVars, handle, msgQueue, handleVars>>
       \/ /\ IsOpen(c)
          /\ \E n \in 0 .. Len(inbox[c]) : ReadUpTo(c, n) /\ Read(c, n)
    /\ UNCHANGED <<pc, turn, live, isDead, msgOut, clientList, deadClientList>>

\* a loop of doit has visited every client
LoopDone ==
    /\ \/ pc = "send" /\ turn = <<>> /\ pc' = "dead"
       \/ pc = "dead" /\ deadClientList = <<>> /\ pc' = "read"
       \/ pc = "read" /\ incomingClientList = <<>> /\ pc' = "dispatch2"
    /\ UNCHANGED <<peerVars, turn, errno, objVars, listVars, msgQueue, handleVars>>

\* the handlers of the program's own connection, and of its timers
App ==
    /\ pc = "app"
    /\ pc' = "accept"
    /\ Effect(ToSet(clientList))
    /\ UNCHANGED <<peerVars, turn, errno, live, handle, listVars, msgQueue, handleVars>>

\* IPCClient::makeConnection and close of the program's own connection
OwnConnects ==
    /\ HasOwn /\ pc = "poll" /\ own = NoFd
    /\ \E h \in Fds : Lowest(h) /\ own' = h /\ PollAdd(Own, h)
    /\ gFileHandles' = gFileHandles + 1
    /\ UNCHANGED <<peerVars, loopVars, objVars, listVars, msgQueue, connections>>

OwnCloses ==
    /\ pc = "app" /\ own # NoFd
    /\ own' = NoFd
    /\ gFileHandles' = gFileHandles - 1
    /\ clients' = PollDel(own)
    /\ maxHandle' = LowerMax(own)
    /\ UNCHANGED <<peerVars, loopVars, objVars, listVars, msgQueue, connections>>

-----------------------------------------------------------------------------
Peers == \E c \in Clients : Dial(c) \/ PeerSends(c) \/ PeerCloses(c) \/ PeerResets(c)

Server ==
    \/ App \/ OwnConnects \/ OwnCloses
    \/ Poll
    \/ \E c \in Clients : Accept(c)
    \/ AcceptNoMore
    \/ HandleConnected \/ HandleData \/ HandleHungUp \/ Dispatched
    \/ SendTo \/ CloseDead \/ ReadFrom \/ LoopDone

Next == Peers \/ Server

Spec == Init /\ [][Next]_vars

\* the main loop never stops; nothing is assumed of the peers or the handlers
FairSpec == Spec /\ WF_vars(Server)

-----------------------------------------------------------------------------
(* Properties. *)

(* No list, queue or poll table entry leads to an IPCClient that has been   *)
(* deleted, whatever loop of doit closed it and in whatever order.         *)
NoDangling ==
    /\ ToSet(clientList) \union ToSet(incomingClientList) \union ToSet(deadClientList)
         \union ToSet(turn) \union {msgQueue[i].from : i \in 1 .. Len(msgQueue)} \subseteq live
    /\ \A h \in Fds : clients[h] \in live \union {NoClient, Own}

(* Every IPCClient that exists is in the client list exactly once, or is    *)
(* about to be put there: none is leaked, none is listed twice.            *)
Listings(c) == {<<"list", i>> : i \in {j \in 1 .. Len(clientList) : clientList[j] = c}}
               \union {<<"queue", i>> : i \in {j \in 1 .. Len(msgQueue) : msgQueue[j] = Connected(c)}}

EveryClientListed == \A c \in live : \E here \in Listings(c) : Listings(c) = {here}

(* The poll table is exact: a listed client with an open handle is polled   *)
(* under that handle (below maxHandle, which delClient lowers by one), and  *)
(* no handle that was closed, and may be somebody else's now, is.          *)
PollTableExact ==
    /\ \A c \in ToSet(clientList) : handle[c] # NoFd =>
          clients[handle[c]] = c /\ handle[c] <= maxHandle
    /\ own # NoFd => clients[own] = Own /\ own <= maxHandle
    /\ \A h \in Fds : clients[h] # NoClient =>
          h = IF clients[h] = Own THEN own ELSE handle[clients[h]]

(* The counters that limit the connections are exact, however a client was  *)
(* closed: the limit neither leaks away nor is passed by clients (the      *)
(* program's own connection does not ask).                                 *)
HandlesCounted ==
    /\ gFileHandles = 1 + Cardinality(Open) + (IF own = NoFd THEN 0 ELSE 1)
    /\ connections = Cardinality(Open)
    /\ Open # {} => 1 + connections <= gMaxConnectCount

(* What the lists hold is alive and complete, in every state of the loop:   *)
(* no client dangles, none is lost, none is listed twice.                  *)
ClientsListed == TypeOK /\ NoDangling /\ EveryClientListed

(* What the poll manager watches and what the limit counts are the handles  *)
(* that are open, in every state of the loop.                              *)
HandlesExact == PollTableExact /\ HandlesCounted

(* No healthy client is hung up: a client is closed only when its peer is   *)
(* gone, when it was marked dead, or after an illegal message.             *)
HungUpHasCause ==
    [][\A c \in Clients : handle[c] # NoFd /\ handle'[c] = NoFd =>
          net[c] \in {"eof", "reset"} \/ isDead[c] \/ ToSet(inbox[c]) \intersect Bads # {}]_vars

(* The program sees each client connect, speak in order and hang up once.   *)
SessionPhase(c) ==
    IF c \notin ToSet(clientList) THEN "away"
    ELSE IF handle[c] # NoFd THEN "playing" ELSE "leaving"
\* what c said, of the messages of q
Spoken(q, c) ==
    LET said[n \in 0 .. Len(q)] ==
            IF n = 0 THEN <<>>
            ELSE IF q[n].type = "DATA" /\ q[n].from = c THEN Append(said[n - 1], q[n].data)
            ELSE said[n - 1]
    IN  said[Len(q)]
Sessions == INSTANCE ClientSessions WITH
    Msgs <- Msgs \union Bads,
    phase <- [c \in Clients |-> SessionPhase(c)],
    unread <- [c \in Clients |-> Spoken(msgQueue, c) \o inbox[c]]
ImplementsClientSessions == Sessions!Spec

(* "If the message could not be read, the client must have hung up": a peer *)
(* that closed its connection is hung up.                                  *)
HangUpNoticed ==
    \A c \in Clients : (c \in Open /\ net[c] = "eof") ~> c \notin Open

(* What the code does instead: it is hung up unless errno is EAGAIN again   *)
(* and again when it is read, because other clients' sockets are empty or  *)
(* full.                                                                   *)
AgainAndAgain == []<>(pc = "read" /\ errno = "EAGAIN")
HangUpNoticedWhenQuiet == AgainAndAgain \/ HangUpNoticed

(* A client marked dead is closed, if only the poll manager goes on finding *)
(* some handle ready: isDead alone does not wake it.                       *)
SomeReady == \E h \in Fds : clients[h] \in Clients /\ h <= maxHandle
                            /\ (net[clients[h]] = "reset" \/ Readable(clients[h]))
ForcedIsClosed ==
    \A c \in Clients : []<>(pc = "poll" /\ SomeReady) => (isDead[c] ~> ~isDead[c])
=============================================================================
