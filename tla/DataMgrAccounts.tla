---------------------------- MODULE DataMgrAccounts ----------------------------
(***************************************************************************)
(* The account bookkeeping of the data manager (datamgr/datamgr.cpp): the  *)
(* accountLocks table, the userCount column of serverList, the downtime    *)
(* rows of messages, and the handlers of _IPC_DATAMGR_LOGIN, LOGOUT,       *)
(* DOWNTIMEMESSAGE and of a hung up game server.                           *)
(*                                                                         *)
(* A handler takes the server the message comes from and whether that      *)
(* connection has said hello: client->uid() is -1 until it has, and every  *)
(* statement keyed by uid() then touches no row.                           *)
(***************************************************************************)
EXTENDS Integers, FiniteSets

CONSTANTS
    Servers,     \* game servers, the rows of serverList
    Accounts,    \* accounts; one login name each
    Privileged,  \* accounts with _ACCESS_IMPLEMENTOR or _ACCESS_PUBLICRELATIONS
    NoServer     \* no accountLocks row

ASSUME NoServerAssumption == NoServer \notin Servers

VARIABLES
    locks,       \* accountLocks: the server column of the account's row
    userCount,   \* serverList.userCount
    downtime     \* servers with a 'downtime' row in messages

dmVars == <<locks, userCount, downtime>>

DmTypeOK ==
    /\ locks \in [Accounts -> Servers \union {NoServer}]
    /\ userCount \in [Servers -> Int]
    /\ downtime \in SUBSET Servers

DmInit ==
    /\ locks = [a \in Accounts |-> NoServer]
    /\ userCount = [s \in Servers |-> 0]
    /\ downtime = {}

-----------------------------------------------------------------------------
(* Mutants: plausible bugs in the handlers below. *)

\* the unique key on accountLocks.accountID is missing
InsertLock_NoUniqueKey(a, s) ==
    locks' = [locks EXCEPT ![a] = s]

\* userCount is not decremented
DmLogout_NoCount(a, s, hello) ==
    /\ locks' = IF hello /\ locks[a] = s
                THEN [locks EXCEPT ![a] = NoServer] ELSE locks
    /\ UNCHANGED <<userCount, downtime>>

\* a hung up server's accounts stay locked
DmHungUp_KeepLocks(s, hello) ==
    /\ userCount' = IF hello THEN [userCount EXCEPT ![s] = 0] ELSE userCount
    /\ UNCHANGED <<locks, downtime>>

\* "delete from accountLocks" without "where server = %d"
DmHungUp_AllServers(s, hello) ==
    /\ locks' = [a \in Accounts |-> NoServer]
    /\ userCount' = IF hello THEN [userCount EXCEPT ![s] = 0] ELSE userCount
    /\ UNCHANGED downtime

\* the data manager clears accountLocks when it starts
DmStart_ClearLocks ==
    /\ userCount' = [s \in Servers |-> 0]
    /\ locks' = [a \in Accounts |-> NoServer]
    /\ UNCHANGED downtime

-----------------------------------------------------------------------------
(* "insert into accountLocks": it fails when the account already has a row. *)
InsertLock(a, s) ==
    /\ locks[a] = NoServer
    /\ locks' = [locks EXCEPT ![a] = s]

(* case _IPC_DATAMGR_LOGIN for account a from server s.  ok is the result   *)
(* code of the response; the account's password, status, billing and bans  *)
(* can always refuse it.                                                   *)
DmLogin(a, s, hello, ok) ==
    \/ /\ ~ok
       /\ UNCHANGED dmVars
    \/ \* the server is coming down: only privileged accounts, and no row
       /\ ok
       /\ hello /\ s \in downtime
       /\ a \in Privileged
       /\ userCount' = [userCount EXCEPT ![s] = @ + 1]
       /\ UNCHANGED <<locks, downtime>>
    \/ /\ ok
       /\ ~(hello /\ s \in downtime)
       /\ InsertLock(a, s)
       /\ userCount' = [userCount EXCEPT ![s] = @ + 1]
       /\ UNCHANGED downtime

(* case _IPC_DATAMGR_LOGOUT *)
DmLogout(a, s, hello) ==
    /\ locks' = IF hello /\ locks[a] = s
                THEN [locks EXCEPT ![a] = NoServer] ELSE locks
    /\ userCount' = IF hello THEN [userCount EXCEPT ![s] = @ - 1] ELSE userCount
    /\ UNCHANGED downtime

(* case _IPC_DATAMGR_DOWNTIMEMESSAGE *)
DmDowntime(s, hello) ==
    /\ downtime' = IF hello THEN downtime \union {s} ELSE downtime
    /\ UNCHANGED <<locks, userCount>>

(* case _IPC_CLIENT_HUNG_UP: every row of the server goes. *)
DmHungUp(s, hello) ==
    /\ locks' = IF hello
                THEN [a \in Accounts |-> IF locks[a] = s THEN NoServer ELSE locks[a]]
                ELSE locks
    /\ userCount' = IF hello THEN [userCount EXCEPT ![s] = 0] ELSE userCount
    /\ UNCHANGED downtime

(* main: "no servers can be up right now"; accountLocks is left as it is. *)
DmStart ==
    /\ userCount' = [s \in Servers |-> 0]
    /\ UNCHANGED <<locks, downtime>>
=============================================================================
