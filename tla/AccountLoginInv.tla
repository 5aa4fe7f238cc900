--------------------------- MODULE AccountLoginInv ---------------------------
(***************************************************************************)
(* The inductive invariant of AccountLogin behind OneSession and           *)
(* SessionHasLock, for clients that wait for an answer and for every fault *)
(* except "reset" and "late": an account's lock is answered for by at most *)
(* one token - a player, an accepted response or a logout on its way - and *)
(* the token is at the server that the lock names.                         *)
(***************************************************************************)
EXTENDS AccountLogin

\* the faults the lock protocol survives
Sound == ~Impatient /\ Faults \subseteq {"crash", "dmcrash", "downtime"}

Ordered(q) == \A i, j \in 1 .. Len(q) : i < j => q[i].id < q[j].id

-----------------------------------------------------------------------------
(* The queue of logins and the players agree. *)

PlayersInv ==
    /\ \A c \in Clients : srv[c] = Off => sess[c] = NoAcct /\ ctx[c] = NoId
    /\ \A c \in Clients : srv[c] # Off => proc[srv[c]]

QueueInv ==
    \A s \in Servers :
        /\ active[s] = StartId(pending[s])
        /\ Ordered(pending[s])
        /\ \A i \in 1 .. Len(pending[s]) :
              /\ pending[s][i].id < counter[s]
              /\ srv[pending[s][i].client] = s
              /\ ctx[pending[s][i].client] = pending[s][i].id
              /\ sess[pending[s][i].client] = NoAcct

\* a player that waits is in the queue of its server
ContextInv ==
    \A c \in Clients : ctx[c] # NoId =>
        \E i \in 1 .. Len(pending[srv[c]]) :
            pending[srv[c]][i].id = ctx[c] /\ pending[srv[c]][i].client = c

-----------------------------------------------------------------------------
(* A server has one connection; the data manager notices its end before the *)
(* server makes the next one.                                              *)

LinkInv ==
    /\ \A k \in ConnIds : k # Cur(k[1]) => conn[k].st = "none"
    /\ \A k \in ConnIds : conn[k].st = "none" => req[k] = <<>>
    /\ \A s \in Servers : conn[Cur(s)].st = "cut" => ~proc[s]
    /\ \A s \in Servers : conn[Cur(s)].st = "up" => proc[s]
    /\ \A s \in Servers : out[s] # <<>> => proc[s] /\ conn[Cur(s)].st = "none"
    /\ \A s \in Servers : rep[s] # <<>> => proc[s]

-----------------------------------------------------------------------------
(* Tokens. *)

\* what each server has sent and the data manager has not handled
Sent == [s \in Servers |-> IF out[s] = <<>> THEN req[Cur(s)] ELSE out[s]]

PlayerTokens ==
    /\ \A c \in Clients : sess[c] \in Exclusive => locks[sess[c]] = srv[c]
    /\ \A c, d \in Clients : sess[c] \in Exclusive /\ sess[c] = sess[d] => c = d

ReplyTokens ==
    \A s \in Servers : \A i \in 1 .. Len(rep[s]) :
        rep[s][i].ok /\ rep[s][i].acct \in Exclusive =>
            /\ locks[rep[s][i].acct] = s
            /\ \A c \in Clients : sess[c] # rep[s][i].acct
            /\ \A j \in 1 .. Len(rep[s]) :
                  rep[s][j].ok /\ rep[s][j].acct = rep[s][i].acct => i = j
            /\ \A j \in 1 .. Len(Sent[s]) : Sent[s][j] # LogoutMsg(rep[s][i].acct)

LogoutTokens ==
    \A s \in Servers : \A i \in 1 .. Len(Sent[s]) :
        Sent[s][i].type = "LOGOUT" /\ Sent[s][i].acct \in Exclusive =>
            /\ locks[Sent[s][i].acct] = s
            /\ \A c \in Clients : sess[c] # Sent[s][i].acct
            /\ \A j \in 1 .. Len(Sent[s]) : Sent[s][j] = Sent[s][i] => i = j

TokenInv == PlayerTokens /\ ReplyTokens /\ LogoutTokens

(* The lock of an account in exclusive use is answered for once: its player, *)
(* an accepted response to a login that is still on its way, or a logout    *)
(* that is - never two of them - at the server that the lock row names.     *)
IInv == TypeOK /\ PlayersInv /\ QueueInv /\ ContextInv /\ LinkInv /\ TokenInv

-----------------------------------------------------------------------------
(* The holders of the locks: for clients that wait for an answer, when      *)
(* neither the data manager nor a connection between two live ends fails.   *)

Steady == ~Impatient /\ Faults \subseteq {"crash", "downtime"}

\* the data manager has nothing on server s
Unused(s) == userCount[s] = 0 /\ \A a \in Accounts : locks[a] # s

(* A process and its connection live and end together, and the hello goes   *)
(* before everything else that a server sends.                              *)
HelloInv ==
    \A s \in Servers :
        /\ conn[Cur(s)].st = "up" <=> proc[s]
        /\ conn[Cur(s)].st # "orphan"
        /\ out[s] = <<>>
        /\ conn[Cur(s)].st = "none" => Unused(s)
        /\ conn[Cur(s)].st # "none" /\ ~conn[Cur(s)].hello =>
              Unused(s) /\ req[Cur(s)] # <<>> /\ Head(req[Cur(s)]) = HelloMsg

(* a lock that no hang-up is about to release has a player, an accepted     *)
(* response or a logout, at the server of the lock                          *)
Played(a)  == \E c \in Clients : sess[c] = a
Granted(a) ==
    \E s \in Servers : \E i \in 1 .. Len(rep[s]) : rep[s][i].ok /\ rep[s][i].acct = a
Leaving(a) == \E s \in Servers : \E i \in 1 .. Len(Sent[s]) : Sent[s][i] = LogoutMsg(a)

Held(a) == Played(a) \/ Granted(a) \/ Leaving(a)

HeldInv ==
    \A a \in Exclusive :
        locks[a] # NoServer /\ conn[Cur(locks[a])].st # "cut" => Held(a)

\* how many elements of q are in M
CountIn(q, M) == Cardinality({i \in 1 .. Len(q) : q[i] \in M})

Accepted == {r \in Reply : r.ok}
Logoff   == {m \in Request : m.type = "LOGOUT"}
Online(s) == {c \in Clients : srv[c] = s /\ sess[c] # NoAcct}

CountInv ==
    \A s \in Servers : conn[Cur(s)].st # "cut" =>
        userCount[s] = Cardinality(Online(s)) + CountIn(rep[s], Accepted)
                       + CountIn(req[Cur(s)], Logoff)

HolderInv == HelloInv /\ HeldInv /\ CountInv
=============================================================================
