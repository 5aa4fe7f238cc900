----------------------------- MODULE ClientSessions -----------------------------
(***************************************************************************)
(* What a server of the IPC library (global/ipcserver.cpp) promises to the *)
(* program built on it: a client is announced once, then its messages are  *)
(* handled in the order they were sent, each once, then it is announced    *)
(* gone, once.  Messages can only be lost by the hang-up, and then only    *)
(* the last ones.                                                          *)
(***************************************************************************)
EXTENDS Naturals, Sequences

CONSTANTS Clients, Msgs

VARIABLES
    phase,   \* phase[c]: what the program knows of client c
    unread   \* unread[c]: sent by c and not handled yet

Init ==
    /\ phase = [c \in Clients |-> "away"]
    /\ unread = [c \in Clients |-> <<>>]

Sends(c) ==
    \E m \in Msgs : unread' = [unread EXCEPT ![c] = Append(@, m)] /\ UNCHANGED phase

Connected(c) ==
    /\ phase[c] = "away"
    /\ phase' = [phase EXCEPT ![c] = "playing"]
    /\ UNCHANGED unread

Handled(c) ==
    /\ phase[c] # "away"
    /\ unread[c] # <<>>
    /\ unread' = [unread EXCEPT ![c] = Tail(@)]
    /\ UNCHANGED phase

\* the connection is closed; the messages read so far remain to be handled
Closed(c) ==
    /\ phase[c] = "playing"
    /\ phase' = [phase EXCEPT ![c] = "leaving"]
    /\ \E n \in 0 .. Len(unread[c]) : unread' = [unread EXCEPT ![c] = SubSeq(@, 1, n)]

HungUp(c) ==
    /\ phase[c] = "leaving"
    /\ unread[c] = <<>>
    /\ phase' = [phase EXCEPT ![c] = "away"]
    /\ UNCHANGED unread

Next == \E c \in Clients : Sends(c) \/ Connected(c) \/ Handled(c) \/ Closed(c) \/ HungUp(c)

Spec == Init /\ [][Next]_<<phase, unread>>
=============================================================================
