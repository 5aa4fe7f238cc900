-------------------------------- MODULE Crimes --------------------------------
(***************************************************************************)
(* Crimes and bounties (roommgr/wobject.cpp updateWanted, the end of       *)
(* RMPlayer::die, rmparser.cpp cmdBounty, and the handlers of the data     *)
(* manager that keep the crimes of a character).                           *)
(*                                                                         *)
(* A character's crimes are a column of its row.  They come to the game    *)
(* server with the reply to the CONFIG_INFO_GET that a chosen character    *)
(* sends, are changed in memory and written back at every change.  A       *)
(* bounty on the head of a character that is not online is added to the    *)
(* row by the data manager; its gold has been taken before, and is given   *)
(* back when there is no such character.                                   *)
(*                                                                         *)
(* The gold of a character is what it has in memory or in its row: it is   *)
(* saved when it leaves (see Belongings).  Tables belong to one game       *)
(* server, and its connection to the data manager is not lost.             *)
(***************************************************************************)
EXTENDS Integers, Sequences, FiniteSets, SequencesExt, FiniteSetsExt

CONSTANTS
    Chars,
    Purse,      \* what each character has at first
    Bounties,   \* amounts somebody may want to place: 100 or more in the code
    MaxCrimes,  \* bound on the murders and on the thefts of one character
    MaxQueue,   \* bound on the requests and replies under way
    Early,      \* a bounty may be placed on a character whose crimes have not come yet
    Out, Chosen, In,  \* where a character is
    None        \* nobody; as a name, one that no character has

ASSUME CrimesConstants ==
    /\ IsFiniteSet(Chars) /\ None \notin Chars
    /\ Out # Chosen /\ Chosen # In /\ In # Out
    /\ Purse \in Nat /\ Bounties \subseteq Nat \ {0}
    /\ MaxCrimes \in Nat /\ MaxQueue \in Nat /\ Early \in BOOLEAN

VARIABLES
    at,       \* not online, chosen by its owner and online, or its crimes have come
    gold,     \* what a character has
    crimes,   \* m_pCrimes of the player of a character that is online
    row,      \* the column crimes of the row of a character
    wanted,   \* gWantedList
    req, rep  \* messages to and from the data manager

vars == <<at, gold, crimes, row, wanted, req, rep>>

\* CrimeData; what the tournament, the arena and bounties collected count is left out
NoCrimes == [criminal |-> FALSE, murders |-> 0, pockets |-> 0, bounty |-> 0]

Init ==
    /\ at = [c \in Chars |-> Out]
    /\ gold = [c \in Chars |-> Purse]
    /\ crimes = [c \in Chars |-> NoCrimes]
    /\ row = [c \in Chars |-> NoCrimes]
    /\ wanted = {} /\ req = <<>> /\ rep = <<>>

HasRoom(k) == Len(req) + Len(rep) + k <= MaxQueue
Online     == {c \in Chars : at[c] # Out}

-----------------------------------------------------------------------------
(* Coming and going. *)

\* PLAYER_CHARACTER_LOGIN: the player has no crimes before its record comes
Choose(c) ==
    /\ at[c] = Out /\ HasRoom(1)
    /\ at' = [at EXCEPT ![c] = Chosen]
    /\ crimes' = [crimes EXCEPT ![c] = NoCrimes]
    /\ req' = Append(req, [type |-> "get", char |-> c])
    /\ UNCHANGED <<gold, row, wanted, rep>>

HungUp_Listed(c) ==
    /\ at[c] # Out
    /\ at' = [at EXCEPT ![c] = Out]
    /\ crimes' = [crimes EXCEPT ![c] = NoCrimes]
    /\ UNCHANGED <<wanted, req, rep, gold, row>>

\* CLIENT_HUNG_UP and ~RMPlayer: no later reply finds the object
HungUp(c) ==
    /\ at[c] # Out
    /\ at' = [at EXCEPT ![c] = Out]
    /\ crimes' = [crimes EXCEPT ![c] = NoCrimes]
    /\ wanted' = wanted \ {c}
    /\ req' = [i \in 1 .. Len(req) |->
                IF req[i].type # "write" /\ req[i].char = c THEN [req[i] EXCEPT !.char = None]
                ELSE req[i]]
    /\ rep' = [i \in 1 .. Len(rep) |->
                IF rep[i].char = c THEN [rep[i] EXCEPT !.char = None] ELSE rep[i]]
    /\ UNCHANGED <<gold, row>>

-----------------------------------------------------------------------------
(* Crimes. *)

Theft(r) == [r EXCEPT !.criminal = TRUE, !.pockets = @ + 1]
Murder(r) == [r EXCEPT !.criminal = TRUE, !.murders = @ + 1]

Clear_KeepsBounty(r) == [r EXCEPT !.pockets = 0, !.murders = 0, !.criminal = FALSE]

\* one murder is paid for, and every theft; with the last of them the criminal
\* is none any more
Clear(r) ==
    LET m == IF r.murders > 0 THEN r.murders - 1 ELSE 0
    IN  [r EXCEPT !.pockets = 0, !.murders = m, !.bounty = 0,
                  !.criminal = @ /\ m # 0]

\* updateWanted of several characters: their new records are written, and each
\* that was not on the list is put there if it is criminal; each that was is
\* taken off, whatever it is
Update(new, order) ==
    /\ HasRoom(Len(order))
    /\ crimes' = [c \in Chars |-> IF Contains(order, c) THEN new[c] ELSE crimes[c]]
    /\ wanted' = {c \in Chars : IF Contains(order, c) THEN c \notin wanted /\ new[c].criminal
                                ELSE c \in wanted}
    /\ req' = req \o [i \in 1 .. Len(order) |->
                        [type |-> "write", char |-> order[i], data |-> new[order[i]]]]

\* a theft is noticed; see Belongings for what it brought, if anything
Rob(c) ==
    /\ at[c] = In /\ crimes[c].pockets < MaxCrimes
    /\ Update([crimes EXCEPT ![c] = Theft(@)], <<c>>)
    /\ UNCHANGED <<at, gold, row, rep>>

\* the end of die for a victim and the players that stood against it: the
\* killing of an innocent who did not attack is a murder of each of them
KillInnocent(v, order) ==
    /\ ~crimes[v].criminal
    /\ \A i \in 1 .. Len(order) : crimes[order[i]].murders < MaxCrimes
    /\ Update([c \in Chars |-> Murder(crimes[c])], order)
    /\ UNCHANGED gold

\* the bounty on a criminal is shared by those who killed it, if all of them
\* are innocent; their records are written when they got something
KillCriminal(v, order) ==
    LET share == IF order = <<>> THEN 0 ELSE crimes[v].bounty \div Len(order)
        paid  == IF share = 0 THEN <<>> ELSE order
    IN  /\ crimes[v].criminal
        /\ \A i \in 1 .. Len(order) : ~crimes[order[i]].criminal
        /\ gold' = [c \in Chars |-> IF Contains(paid, c) THEN gold[c] + share ELSE gold[c]]
        /\ HasRoom(Len(paid) + 1)
        /\ crimes' = [crimes EXCEPT ![v] = Clear(@)]
        /\ wanted' = IF v \notin wanted /\ crimes'[v].criminal THEN wanted \union {v}
                     ELSE wanted \ {v}
        /\ req' = req
                  \o [i \in 1 .. Len(paid) |->
                        [type |-> "write", char |-> paid[i], data |-> crimes[paid[i]]]]
                  \o <<[type |-> "write", char |-> v, data |-> crimes'[v]]>>

Die(v, order) ==
    /\ at[v] = In /\ \A i \in 1 .. Len(order) : at[order[i]] = In /\ order[i] # v
    /\ KillInnocent(v, order) \/ KillCriminal(v, order)
    /\ UNCHANGED <<at, row, rep>>

-----------------------------------------------------------------------------
(* Bounties. *)

BountyOnline_NotWritten(c, t, b) ==
    /\ at[c] = In /\ t \in Online /\ gold[c] >= b
    /\ at[t] = In \/ Early
    /\ gold' = [gold EXCEPT ![c] = @ - b]
    /\ crimes' = [crimes EXCEPT ![t].bounty = @ + b]
    /\ UNCHANGED <<at, row, wanted, req, rep>>

\* cmdBounty, the target is online
BountyOnline(c, t, b) ==
    /\ at[c] = In /\ t \in Online /\ gold[c] >= b /\ HasRoom(1)
    /\ at[t] = In \/ Early
    /\ gold' = [gold EXCEPT ![c] = @ - b]
    /\ crimes' = [crimes EXCEPT ![t].bounty = @ + b]
    /\ req' = Append(req, [type |-> "write", char |-> t, data |-> crimes'[t]])
    /\ UNCHANGED <<at, row, wanted, rep>>

\* it is not, or there is no such name
BountyOffline(c, t, b) ==
    /\ at[c] = In /\ t \notin Online /\ gold[c] >= b /\ HasRoom(1)
    /\ gold' = [gold EXCEPT ![c] = @ - b]
    /\ req' = Append(req, [type |-> "place", char |-> c, target |-> t, amount |-> b])
    /\ UNCHANGED <<at, crimes, row, wanted, rep>>

-----------------------------------------------------------------------------
(* The data manager takes a request; the game server takes a reply. *)

\* what a request leaves of a character's record
After(r, m, c) ==
    IF m.type = "write" /\ m.char = c THEN m.data
    ELSE IF m.type = "place" /\ m.target = c THEN [r EXCEPT !.bounty = @ + m.amount]
    ELSE r

Answer(m) ==
    IF m.type = "get" /\ m.char # None THEN <<[type |-> "get", char |-> m.char, data |-> row[m.char]]>>
    ELSE IF m.type = "place" THEN
        <<[type |-> "place", char |-> m.char, amount |-> m.amount, ok |-> m.target \in Chars]>>
    ELSE <<>>

DmReceive ==
    /\ req # <<>>
    /\ row' = [c \in Chars |-> After(row[c], Head(req), c)]
    /\ rep' = rep \o Answer(Head(req))
    /\ req' = Tail(req)
    /\ UNCHANGED <<at, gold, crimes, wanted>>

ConfigReply(m) ==
    /\ m.type = "get"
    /\ IF m.char = None THEN UNCHANGED <<at, crimes>>
       ELSE /\ at' = [at EXCEPT ![m.char] = In]
            /\ crimes' = [crimes EXCEPT ![m.char] = m.data]
    /\ UNCHANGED gold

\* gold for a bounty on nobody comes back, to a character that is still there
BountyReply(m) ==
    /\ m.type = "place"
    /\ gold' = IF m.char # None /\ ~m.ok THEN [gold EXCEPT ![m.char] = @ + m.amount] ELSE gold
    /\ UNCHANGED <<at, crimes>>

Receive ==
    /\ rep # <<>>
    /\ ConfigReply(Head(rep)) \/ BountyReply(Head(rep))
    /\ rep' = Tail(rep)
    /\ UNCHANGED <<row, wanted, req>>

-----------------------------------------------------------------------------

Act(c) ==
    \/ Choose(c) \/ HungUp(c)
    \/ Rob(c)
    \/ \E K \in SUBSET Chars : \E order \in SetToSeqs(K) : Die(c, order)
    \/ \E b \in Bounties :
        (\E t \in Chars : BountyOnline(c, t, b)) \/ (\E t \in Chars \union {None} : BountyOffline(c, t, b))

Next == (\E c \in Chars : Act(c)) \/ DmReceive \/ Receive

Spec == Init /\ [][Next]_vars

-----------------------------------------------------------------------------
(* Properties. *)

Crime == [criminal : BOOLEAN, murders : 0 .. MaxCrimes, pockets : 0 .. MaxCrimes, bounty : Nat]

TypeOK ==
    /\ at \in [Chars -> {Out, Chosen, In}]
    /\ gold \in [Chars -> Nat]
    /\ crimes \in [Chars -> Crime] /\ row \in [Chars -> Crime]
    /\ wanted \subseteq Online

\* who is criminal has a crime to pay for, and the other way round
CrimesCount(r) == r.criminal <=> r.murders + r.pockets > 0

\* what requests q leave of a character's record r, and what the requests under
\* way will leave of its row
Later(r, q, c) ==
    LET record[n \in 0 .. Len(q)] == IF n = 0 THEN r ELSE After(record[n - 1], q[n], c)
    IN  record[Len(q)]
Pending(c) == Later(row[c], req, c)

\* The crimes of who plays are those of its row, as soon as all writes have
\* arrived: a bounty placed on it just before it came, its own thefts and
\* murders and the end of its life before do not get lost on the way.
RecordsAgree ==
    /\ TypeOK
    /\ \A c \in Chars : CrimesCount(crimes[c]) /\ CrimesCount(row[c])
    /\ \A c \in Chars : at[c] = In => crimes[c] = Pending(c)

\* gold of characters, on heads, and on its way back
Held     == [c \in Chars |-> gold[c] + Pending(c).bounty]
Asked(m) == IF m.type = "place" /\ m.target = None THEN m.amount ELSE 0
Back(m)  == IF m.type = "place" /\ ~m.ok THEN m.amount ELSE 0
Worth ==
    SumFunction(Held) + SumFunction([i \in 1 .. Len(rep) |-> Back(rep[i])])
                      + SumFunction([i \in 1 .. Len(req) |-> Asked(req[i])])

\* No bounty is paid twice, nor paid and given back: gold may disappear with a
\* shared bounty or a refund for somebody who left, it never gets more.
NoMinting == [][Worth' <= Worth]_vars

\* Whom the magistrate hunts is there, and is criminal.
NoInnocentHunted == \A c \in wanted : at[c] = In /\ crimes[c].criminal
=============================================================================
