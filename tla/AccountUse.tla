------------------------------ MODULE AccountUse -------------------------------
(***************************************************************************)
(* What logging in promises, abstractly: an account is used by one client  *)
(* at a time ("You are only allowed to use the account on one machine at a *)
(* time", datamgr.cpp), a client uses one account at a time, and an        *)
(* account passes from one client to another only by being free between.   *)
(***************************************************************************)
EXTENDS FiniteSets

CONSTANTS Accounts, Clients

VARIABLE users   \* users[a]: the clients playing on account a

TypeOK == users \in [Accounts -> SUBSET Clients]

Init == users = [a \in Accounts |-> {}]

Begin(a, c) ==
    /\ users[a] = {}
    /\ \A b \in Accounts : c \notin users[b]
    /\ users' = [users EXCEPT ![a] = {c}]

\* clients leave; all those of one server when it crashes
End(C) ==
    users' = [a \in Accounts |-> users[a] \ C]

Next ==
    \/ \E a \in Accounts, c \in Clients : Begin(a, c)
    \/ \E C \in SUBSET Clients : End(C)

Spec == Init /\ [][Next]_users

Exclusive == \A a \in Accounts : \A c, d \in users[a] : c = d
=============================================================================
