----------------------------- MODULE AccountLogin ------------------------------
(***************************************************************************)
(* Logging accounts in and out: the game servers (roommgr) with their      *)
(* players and queues of LoginContexts, the data manager (datamgr) with    *)
(* the account locks, and the TCP connection that each game server keeps   *)
(* to the data manager.                                                    *)
(* Each process is single threaded, so one action is one whole handler.    *)
(* What a game server sends goes into the FIFO req of its connection; the  *)
(* data manager's responses go into rep.  Everything in between - client   *)
(* messages, hang-ups, handlers of the other servers - interleaves.        *)
(* Faults names what may go wrong besides clients hanging up:              *)
(*   crash     a game server dies and is started again                     *)
(*   dmcrash   the data manager dies and is started again                  *)
(*   reset     a connection breaks while both ends live                    *)
(*   late      the data manager may notice the end of a connection only    *)
(*             after it has accepted the server's next one                 *)
(*   downtime  a game server announces its shutdown (DowntimeMessage)      *)
(***************************************************************************)
EXTENDS DataMgrAccounts, SequencesExt

CONSTANTS
    Clients,     \* interpreters; each has at most one connection, one RMPlayer
    Faults,      \* the faults that may occur
    Impatient,   \* may a client send CHECK_LOGIN again before it is answered?
    MaxLogin,    \* bound: logins a server process starts (gLoginCounter)
    MaxConn,     \* bound: connections a server makes to the data manager
    NoAcct, NoClient, Off

FaultKinds == {"crash", "dmcrash", "reset", "late", "downtime"}

ASSUME LoginConstants ==
    /\ Faults \subseteq FaultKinds
    /\ Impatient \in BOOLEAN
    /\ MaxLogin \in Nat
    /\ MaxConn \in Nat \ {0}
    /\ NoAcct \notin Accounts
    /\ NoClient \notin Clients
    /\ Off \notin Servers

ASSUME ClientsFinite == IsFiniteSet(Clients)

NoId == -1

VARIABLES
    proc,     \* proc[s]: the process of game server s runs
    srv,      \* srv[c]: the server that holds the RMPlayer of client c, or Off
    dead,     \* dead[c]: owner->isDead, set by forceLogout
    sess,     \* sess[c]: RMPlayer::accountID, set once a login succeeded
    ctx,      \* ctx[c]: id of RMPlayer::loginContext
    pending,  \* pending[s]: gPendingLogins
    active,   \* active[s]: id of gActiveLoginContext
    counter,  \* counter[s]: gLoginCounter
    tree,     \* tree[s]: gLoginTree, from login name to player
    cur,      \* cur[s]: number of the newest connection of s to the data manager
    conn,     \* conn[k]: state of connection k; hello is client->uid() # -1
    req,      \* req[k]: sent on connection k and not yet handled
    rep,      \* rep[s]: responses on the newest connection, not yet handled
    out       \* out[s]: gDataMgr->msgQueue while there is no connection

playerVars == <<srv, dead, sess, ctx>>
queueVars  == <<pending, active, counter, tree>>
linkVars   == <<cur, conn, req, rep, out>>
vars == <<dmVars, proc, playerVars, queueVars, linkVars>>

Ids     == 0 .. (MaxLogin - 1)
ConnIds == Servers \X (1 .. MaxConn)
Context == [id : Ids, acct : Accounts, client : Clients]
Request == [type : {"LOGIN"}, id : Ids, acct : Accounts]
           \union [type : {"LOGOUT"}, id : {NoId}, acct : Accounts]
           \union [type : {"HELLO", "DOWNTIME"}, id : {NoId}, acct : {NoAcct}]
Reply   == [id : Ids, ok : BOOLEAN, acct : Accounts]

\* "up": both ends open; "cut": closed by the server, the data manager has not
\* noticed; "orphan": the data manager is gone, the server has not noticed
ConnState == [st : {"none", "up", "cut", "orphan"}, hello : BOOLEAN]

TypeOK ==
    /\ DmTypeOK
    /\ proc \in [Servers -> BOOLEAN]
    /\ srv \in [Clients -> Servers \union {Off}]
    /\ dead \in [Clients -> BOOLEAN]
    /\ sess \in [Clients -> Accounts \union {NoAcct}]
    /\ ctx \in [Clients -> Ids \union {NoId}]
    /\ pending \in [Servers -> Seq(Context)]
    /\ active \in [Servers -> Ids \union {NoId}]
    /\ counter \in [Servers -> 0 .. MaxLogin]
    /\ tree \in [Servers -> [Accounts -> Clients \union {NoClient}]]
    /\ cur \in [Servers -> 1 .. MaxConn]
    /\ conn \in [ConnIds -> ConnState]
    /\ req \in [ConnIds -> Seq(Request)]
    /\ rep \in [Servers -> Seq(Reply)]
    /\ out \in [Servers -> Seq(Request)]

LoginMsg(x)  == [type |-> "LOGIN", id |-> x.id, acct |-> x.acct]
LogoutMsg(a) == [type |-> "LOGOUT", id |-> NoId, acct |-> a]
HelloMsg     == [type |-> "HELLO", id |-> NoId, acct |-> NoAcct]
DowntimeMsg  == [type |-> "DOWNTIME", id |-> NoId, acct |-> NoAcct]

\* Every server has started, connected and queued its hello.
Init ==
    /\ DmInit
    /\ proc = [s \in Servers |-> TRUE]
    /\ srv = [c \in Clients |-> Off]
    /\ dead = [c \in Clients |-> FALSE]
    /\ sess = [c \in Clients |-> NoAcct]
    /\ ctx = [c \in Clients |-> NoId]
    /\ pending = [s \in Servers |-> <<>>]
    /\ active = [s \in Servers |-> NoId]
    /\ counter = [s \in Servers |-> 0]
    /\ tree = [s \in Servers |-> [a \in Accounts |-> NoClient]]
    /\ cur = [s \in Servers |-> 1]
    /\ conn = [k \in ConnIds |-> IF k[2] = 1 THEN [st |-> "up", hello |-> FALSE]
                                 ELSE [st |-> "none", hello |-> FALSE]]
    /\ req = [k \in ConnIds |-> IF k[2] = 1 THEN <<HelloMsg>> ELSE <<>>]
    /\ rep = [s \in Servers |-> <<>>]
    /\ out = [s \in Servers |-> <<>>]

-----------------------------------------------------------------------------
(* The game server's end of the connection. *)

Cur(s)    == <<s, cur[s]>>
Linked(s) == conn[Cur(s)].st \in {"up", "orphan"}

\* gDataMgr->send of each message of ms, in order
Send(s, ms) ==
    IF Linked(s)
    THEN /\ req' = [req EXCEPT ![Cur(s)] = @ \o ms]
         /\ UNCHANGED out
    ELSE /\ out' = [out EXCEPT ![s] = @ \o ms]
         /\ UNCHANGED req

\* A context or a tree node of s points to an RMPlayer that has been deleted:
\* the next handler that follows the pointer has no defined behaviour.
Dangling(s) ==
    \/ \E i \in 1 .. Len(pending[s]) : srv[pending[s][i].client] # s
    \/ \E a \in Accounts : tree[s][a] # NoClient /\ srv[tree[s][a]] # s

Runs(s) == proc[s] /\ ~Dangling(s)

\* LoginContext::start of the first context in q, none if q is empty
StartMsgs(q) == IF q = <<>> THEN <<>> ELSE <<LoginMsg(Head(q))>>
StartId(q)   == IF q = <<>> THEN NoId ELSE Head(q).id

\* gPendingLogins.del of the context id
Pos(q, id)     == CHOOSE i \in 1 .. Len(q) : q[i].id = id
Without(q, id) == RemoveAt(q, Pos(q, id))

-----------------------------------------------------------------------------
(* Mutants: plausible bugs in the actions below. *)

\* ~LoginContext does not start the next context when it was the active one
PassMsgs_NoBuck(s, id)   == <<>>
PassActive_NoBuck(s, id) == IF active[s] = id THEN NoId ELSE active[s]

\* the context of a player that leaves stays in gPendingLogins
DeleteContext_StaysQueued(s, id) ==
    /\ UNCHANGED pending
    /\ active' = IF active[s] = id THEN [active EXCEPT ![s] = NoId] ELSE active

\* a response that belongs to no context is dropped without a logout
StaleMsgs_Drop(r) == <<>>

\* the result of a response that belongs to no context is not looked at
StaleMsgs_Refused(r) == <<LogoutMsg(r.acct)>>

\* gLoginTree.del is forgotten
TreeDel_Forgotten(t, a) == t

-----------------------------------------------------------------------------
(* ~LoginContext of context id: the context leaves the queue and, if it was *)
(* the active one, the first context left is started.                      *)
PassMsgs(s, id) ==
    IF active[s] = id THEN StartMsgs(Without(pending[s], id)) ELSE <<>>
PassActive(s, id) ==
    IF active[s] = id THEN StartId(Without(pending[s], id)) ELSE active[s]

DeleteContext(s, id) ==
    /\ pending' = [pending EXCEPT ![s] = Without(@, id)]
    /\ active' = [active EXCEPT ![s] = PassActive(s, id)]

\* the accept of a client and the CLIENT_CONNECTED it leads to
Connect(c, s) ==
    /\ srv[c] = Off
    /\ Runs(s)
    /\ \A t \in Servers : ~Dangling(t)
    /\ srv' = [srv EXCEPT ![c] = s]
    /\ UNCHANGED <<dmVars, proc, dead, sess, ctx, queueVars, linkVars>>

\* RMPlayer::forceLogout: ping control, system operators, a bad client...
ForceLogout(c) ==
    /\ srv[c] # Off
    /\ Runs(srv[c])
    /\ ~dead[c]
    /\ dead' = [dead EXCEPT ![c] = TRUE]
    /\ UNCHANGED <<dmVars, proc, srv, sess, ctx, queueVars, linkVars>>

\* the account's player has not pinged for more than 180 seconds
Ghosted(s, a) ==
    /\ tree[s][a] # NoClient
    /\ dead' = [dead EXCEPT ![tree[s][a]] = TRUE]
    /\ UNCHANGED <<ctx, pending, active, counter, req, out>>

\* new LoginContext: append it, start it if it is the only one
QueueLogin(s, c, a) ==
    LET x == [id |-> counter[s], acct |-> a, client |-> c]
        first == pending[s] = <<>>
    IN  /\ counter[s] < MaxLogin
        /\ counter' = [counter EXCEPT ![s] = @ + 1]
        /\ ctx' = [ctx EXCEPT ![c] = x.id]
        /\ pending' = [pending EXCEPT ![s] = Append(@, x)]
        /\ active' = IF first THEN [active EXCEPT ![s] = x.id] ELSE active
        /\ Send(s, IF first THEN <<LoginMsg(x)>> ELSE <<>>)
        /\ UNCHANGED dead

\* case _IPC_PLAYER_CHECK_LOGIN
CheckLogin(c, a) ==
    LET s == srv[c] IN
    /\ s # Off
    /\ Runs(s)
    /\ Impatient \/ (ctx[c] = NoId /\ sess[c] = NoAcct)
    /\ Ghosted(s, a) \/ QueueLogin(s, c, a)
    /\ UNCHANGED <<dmVars, proc, srv, sess, tree, cur, conn, rep>>

\* case _IPC_CLIENT_HUNG_UP and ~RMPlayer: the client closed its connection,
\* or forceLogout had marked it dead
LogoutMsgs(c) == IF sess[c] # NoAcct THEN <<LogoutMsg(sess[c])>> ELSE <<>>
TreeDel(t, a) == IF a = NoAcct THEN t ELSE [t EXCEPT ![a] = NoClient]

HungUp(c) ==
    LET s == srv[c] IN
    /\ s # Off
    /\ Runs(s)
    /\ tree' = [tree EXCEPT ![s] = TreeDel(@, sess[c])]
    /\ IF ctx[c] # NoId
       THEN DeleteContext(s, ctx[c])
       ELSE UNCHANGED <<pending, active>>
    /\ Send(s, LogoutMsgs(c) \o (IF ctx[c] # NoId THEN PassMsgs(s, ctx[c]) ELSE <<>>))
    /\ srv' = [srv EXCEPT ![c] = Off]
    /\ dead' = [dead EXCEPT ![c] = FALSE]
    /\ sess' = [sess EXCEPT ![c] = NoAcct]
    /\ ctx' = [ctx EXCEPT ![c] = NoId]
    /\ UNCHANGED <<dmVars, proc, counter, cur, conn, rep>>

\* case _IPC_DATAMGR_LOGIN of DataMgrClient::handleMessage
IsStale(s, r) == active[s] # r.id
StaleMsgs(r)  == IF r.ok THEN <<LogoutMsg(r.acct)>> ELSE <<>>

StaleReply(s, r) ==
    /\ IsStale(s, r)
    /\ Send(s, StaleMsgs(r))
    /\ UNCHANGED <<sess, ctx, pending, active, tree>>

ActivePlayer(s) ==
    pending[s][Pos(pending[s], active[s])].client

ActiveReply(s, r) ==
    LET c == ActivePlayer(s) IN
    /\ ~IsStale(s, r)
    /\ IF r.ok
       THEN /\ sess' = [sess EXCEPT ![c] = r.acct]
            /\ tree' = [tree EXCEPT ![s][r.acct] = IF @ = NoClient THEN c ELSE @]
       ELSE UNCHANGED <<sess, tree>>
    /\ DeleteContext(s, active[s])
    /\ ctx' = [ctx EXCEPT ![c] = NoId]
    /\ Send(s, PassMsgs(s, active[s]))

LoginReply(s) ==
    /\ Runs(s)
    /\ rep[s] # <<>>
    /\ rep' = [rep EXCEPT ![s] = Tail(@)]
    /\ StaleReply(s, Head(rep[s])) \/ ActiveReply(s, Head(rep[s]))
    /\ UNCHANGED <<dmVars, proc, srv, dead, counter, cur, conn>>

\* the shutdown timer drops below 300 seconds; the timer runs only once
SendDowntime(s) ==
    /\ "downtime" \in Faults
    /\ Runs(s)
    /\ s \notin downtime
    /\ \A k \in ConnIds : ~Contains(req[k], DowntimeMsg)
    /\ ~Contains(out[s], DowntimeMsg)
    /\ Send(s, <<DowntimeMsg>>)
    /\ UNCHANGED <<dmVars, proc, playerVars, queueVars, cur, conn, rep>>

-----------------------------------------------------------------------------
(* Connections and crashes. *)

\* IPCClient::doit closes the connection: the first n unhandled messages had
\* been written to the socket, the others stay in msgQueue.
LinkLost(s) ==
    LET k == Cur(s) IN
    /\ proc[s]
    /\ conn[k].st = "orphan" \/ (conn[k].st = "up" /\ "reset" \in Faults)
    /\ \E n \in 0 .. Len(req[k]) :
          /\ out' = [out EXCEPT ![s] = SubSeq(req[k], n + 1, Len(req[k]))]
          /\ req' = [req EXCEPT ![k] = IF conn[k].st = "up" THEN SubSeq(@, 1, n)
                                       ELSE <<>>]
    /\ conn' = [conn EXCEPT ![k] = IF @.st = "up" THEN [@ EXCEPT !.st = "cut"]
                                   ELSE [st |-> "none", hello |-> FALSE]]
    /\ rep' = [rep EXCEPT ![s] = <<>>]
    /\ UNCHANGED <<dmVars, proc, playerVars, queueVars, cur>>

\* has the data manager noticed the end of every earlier connection of s?
Noticed(s) == \A n \in 1 .. MaxConn : conn[<<s, n>>].st # "cut"

NewConnection(s, ms) ==
    LET k == <<s, cur[s] + 1>> IN
    /\ ~Linked(s)
    /\ cur[s] < MaxConn
    /\ "late" \in Faults \/ Noticed(s)
    /\ cur' = [cur EXCEPT ![s] = @ + 1]
    /\ conn' = [conn EXCEPT ![k] = [st |-> "up", hello |-> FALSE]]
    /\ req' = [req EXCEPT ![k] = ms]
    /\ out' = [out EXCEPT ![s] = <<>>]

\* main: makeConnection and hello(); msgQueue keeps what it held
Reconnect(s) ==
    /\ proc[s]
    /\ NewConnection(s, Append(out[s], HelloMsg))
    /\ UNCHANGED <<dmVars, proc, playerVars, queueVars, rep>>

\* handleCrash, then the process ends and with it every player
Crash(s) ==
    LET gone == {c \in Clients : srv[c] = s}
        k == Cur(s)
    IN
    /\ proc[s]
    /\ "crash" \in Faults \/ Dangling(s)
    /\ proc' = [proc EXCEPT ![s] = FALSE]
    /\ srv' = [c \in Clients |-> IF c \in gone THEN Off ELSE srv[c]]
    /\ dead' = [c \in Clients |-> IF c \in gone THEN FALSE ELSE dead[c]]
    /\ sess' = [c \in Clients |-> IF c \in gone THEN NoAcct ELSE sess[c]]
    /\ ctx' = [c \in Clients |-> IF c \in gone THEN NoId ELSE ctx[c]]
    /\ pending' = [pending EXCEPT ![s] = <<>>]
    /\ active' = [active EXCEPT ![s] = NoId]
    /\ counter' = [counter EXCEPT ![s] = 0]
    /\ tree' = [tree EXCEPT ![s] = [a \in Accounts |-> NoClient]]
    /\ conn' = [conn EXCEPT ![k].st = CASE @ = "up" -> "cut"
                                        [] @ = "orphan" -> "none"
                                        [] OTHER -> @]
    /\ req' = IF conn[k].st = "orphan" THEN [req EXCEPT ![k] = <<>>] ELSE req
    /\ rep' = [rep EXCEPT ![s] = <<>>]
    /\ out' = [out EXCEPT ![s] = <<>>]
    /\ UNCHANGED <<dmVars, cur>>

Restart(s) ==
    /\ ~proc[s]
    /\ proc' = [proc EXCEPT ![s] = TRUE]
    /\ NewConnection(s, <<HelloMsg>>)
    /\ UNCHANGED <<dmVars, playerVars, queueVars, rep>>

-----------------------------------------------------------------------------
(* The data manager. *)

\* the data manager reads and handles the next request on connection k
DmReceive(k) ==
    LET m == Head(req[k])
        s == k[1]
        hello == conn[k].hello
        Respond(ok) == rep' = IF conn[k].st = "up"
                              THEN [rep EXCEPT ![s] = Append(@, [id |-> m.id, ok |-> ok,
                                                                 acct |-> m.acct])]
                              ELSE rep
    IN
    /\ conn[k].st \in {"up", "cut"}
    /\ req[k] # <<>>
    /\ req' = [req EXCEPT ![k] = Tail(@)]
    /\ \/ /\ m.type = "HELLO"
          /\ conn' = [conn EXCEPT ![k].hello = TRUE]
          /\ UNCHANGED <<dmVars, rep>>
       \/ /\ m.type = "LOGIN"
          /\ \E ok \in BOOLEAN : DmLogin(m.acct, s, hello, ok) /\ Respond(ok)
          /\ UNCHANGED conn
       \/ /\ m.type = "LOGOUT"
          /\ DmLogout(m.acct, s, hello)
          /\ UNCHANGED <<conn, rep>>
       \/ /\ m.type = "DOWNTIME"
          /\ DmDowntime(s, hello)
          /\ UNCHANGED <<conn, rep>>
    /\ UNCHANGED <<proc, playerVars, queueVars, cur, out>>

\* the data manager notices that the server closed connection k
DmReap(k) ==
    /\ conn[k].st = "cut"
    /\ DmHungUp(k[1], conn[k].hello)
    /\ conn' = [conn EXCEPT ![k] = [st |-> "none", hello |-> FALSE]]
    /\ req' = [req EXCEPT ![k] = <<>>]
    /\ UNCHANGED <<proc, playerVars, queueVars, cur, rep, out>>

\* the data manager dies and is started again; the database keeps its rows
DmRestart ==
    /\ "dmcrash" \in Faults
    /\ \E k \in ConnIds : conn[k].st \in {"up", "cut"}
    /\ DmStart
    /\ conn' = [k \in ConnIds |->
                  CASE conn[k].st = "up"  -> [st |-> "orphan", hello |-> FALSE]
                    [] conn[k].st = "cut" -> [st |-> "none", hello |-> FALSE]
                    [] OTHER -> conn[k]]
    /\ req' = [k \in ConnIds |-> IF conn[k].st = "cut" THEN <<>> ELSE req[k]]
    /\ UNCHANGED <<proc, playerVars, queueVars, cur, rep, out>>

-----------------------------------------------------------------------------
Next ==
    \/ \E c \in Clients :
         \/ \E s \in Servers : Connect(c, s)
         \/ \E a \in Accounts : CheckLogin(c, a)
         \/ ForceLogout(c)
         \/ HungUp(c)
    \/ \E s \in Servers :
         \/ LoginReply(s)
         \/ SendDowntime(s)
         \/ LinkLost(s)
         \/ Reconnect(s)
         \/ Crash(s)
         \/ Restart(s)
    \/ \E k \in ConnIds : DmReceive(k) \/ DmReap(k)
    \/ DmRestart

Spec == Init /\ [][Next]_vars

(* The loops of the two programs: each reads what has arrived, notices what *)
(* has closed and hangs up what has been marked dead.  Nothing is assumed   *)
(* of clients, operators or faults.                                        *)
ForcedGone(c) == dead[c] /\ HungUp(c)

Fairness ==
    /\ \A s \in Servers : WF_vars(LoginReply(s))
    /\ \A k \in ConnIds : WF_vars(DmReceive(k)) /\ WF_vars(DmReap(k))
    /\ \A c \in Clients : WF_vars(ForcedGone(c))

FairSpec == Spec /\ Fairness

-----------------------------------------------------------------------------
(* Properties. *)

\* A privileged account that logs in once the downtime is announced gets no row,
\* so exclusion is promised to the others (to every account if none is privileged).
Exclusive == Accounts \ Privileged

(* The account is in use on one machine at a time (the refusal message of  *)
(* _IPC_DATAMGR_LOGIN): no two players, on any servers, hold a session on  *)
(* one account.                                                            *)
OneSession ==
    \A c, d \in Clients : sess[c] \in Exclusive /\ sess[c] = sess[d] => c = d

(* The lock row of an account names the server that has its player: no     *)
(* handler, hang-up or crash releases the lock of an account in play.      *)
SessionHasLock ==
    \A c \in Clients : sess[c] \in Exclusive => locks[sess[c]] = srv[c]

\* who answers for the lock of account a: a player, an accepted response on
\* its way, a logout on its way, or a server whose connection is to be reaped
Players(a)  == {c \in Clients : sess[c] = a}
Replies(a)  == {p \in UNION {{s} \X (1 .. Len(rep[s])) : s \in Servers} :
                  rep[p[1]][p[2]].ok /\ rep[p[1]][p[2]].acct = a}
Logouts(a)  == {k \in ConnIds : Contains(req[k], LogoutMsg(a))}
ToReap(a)   == {k \in ConnIds : k[1] = locks[a] /\ conn[k].st = "cut"}

(* No account stays locked without anyone to unlock it, and nobody answers *)
(* for it twice: when its connection is not about to be reaped, a locked   *)
(* account has exactly one player, accepted response or logout, at the     *)
(* server its row names.                                                   *)
LockHasOneHolder ==
    \A a \in Exclusive : locks[a] # NoServer /\ ToReap(a) = {} =>
        /\ Cardinality(Players(a)) + Cardinality(Replies(a)) + Cardinality(Logouts(a)) = 1
        /\ \A c \in Players(a) : srv[c] = locks[a]
        /\ \A p \in Replies(a) : p[1] = locks[a]
        /\ \A k \in Logouts(a) : k[1] = locks[a]

(* The login that is being processed is the first of the queue, contexts    *)
(* keep the order of their arrival, and a queue with contexts is never idle *)
(* (LoginContext's constructor and destructor hand the turn on).            *)
QueueDiscipline ==
    \A s \in Servers :
        /\ active[s] = StartId(pending[s])
        /\ \A i, j \in 1 .. Len(pending[s]) : i < j => pending[s][i].id < pending[s][j].id

(* "toss the login context" (~RMPlayer): a queued context belongs to a      *)
(* player of this server that still exists and that points back to it.     *)
ContextHasPlayer ==
    \A s \in Servers : \A i \in 1 .. Len(pending[s]) :
        LET x == pending[s][i] IN srv[x.client] = s /\ ctx[x.client] = x.id

(* serverList.userCount, "so that the number of users is known": while the *)
(* server's connection is not about to be reaped, every player, every       *)
(* accepted response and every logout on its way is counted once, whether   *)
(* or not the login took a lock.                                            *)
UserCountIsUsers ==
    \A s \in Servers : (\A k \in ConnIds : k[1] = s => conn[k].st # "cut") =>
        userCount[s] =
            Cardinality({c \in Clients : srv[c] = s /\ sess[c] # NoAcct})
            + Cardinality({i \in 1 .. Len(rep[s]) : rep[s][i].ok})
            + Cardinality({i \in 1 .. Len(req[Cur(s)]) : req[Cur(s)][i].type = "LOGOUT"})

(* gLoginTree, which the ghost check searches by name, holds exactly the    *)
(* players of this server that have a session, under their own account.     *)
TreeIsSessions ==
    \A s \in Servers, a \in Exclusive, c \in Clients :
        tree[s][a] = c <=> (srv[c] = s /\ sess[c] = a)

(* Every login that is queued is answered, unless its client leaves.        *)
LoginAnswered ==
    \A c \in Clients : ctx[c] # NoId ~> ctx[c] = NoId

(* An account that is locked for nobody but a ghost is freed, or played      *)
(* again: a client that left in whatever phase of its login, a player forced *)
(* out for ghosting and the crash of its server do not block it for ever.   *)
AccountFreed ==
    \A a \in Accounts :
        (locks[a] # NoServer /\ \A c \in Players(a) : dead[c])
            ~> (locks[a] = NoServer \/ \E c \in Players(a) : ~dead[c])

(* The protocol implements the abstract promise. *)
Use == INSTANCE AccountUse
         WITH Accounts <- Exclusive, users <- [a \in Exclusive |-> Players(a)]
ImplementsAccountUse == Use!Spec
=============================================================================
