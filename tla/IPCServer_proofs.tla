---------------------------- MODULE IPCServer_proofs ----------------------------
(***************************************************************************)
(* Proofs about IPCServer, for any finite set of clients, any handles, any *)
(* limits, and whatever peers and handlers of the program do: the lists,   *)
(* the queue and the poll table name clients that exist, every client is   *)
(* listed once, the counters are exact, nobody is hung up without a cause, *)
(* and the sessions are those of ClientSessions.                           *)
(***************************************************************************)
EXTENDS IPCServer, FiniteSetTheorems, SequenceTheorems, WellFoundedInduction, TLAPS

-----------------------------------------------------------------------------
(* Lists and queues: what their operations keep and lose. *)

LEMMA Members ==
    ASSUME NEW S, NEW s \in Seq(S)
    PROVE  /\ Len(s) \in Nat
           /\ \A i \in 1 .. Len(s) : s[i] \in S /\ s[i] \in ToSet(s)
           /\ \A x : x \in ToSet(s) <=> \E i \in 1 .. Len(s) : s[i] = x
           /\ ToSet(s) \subseteq S
BY LenProperties, ElementOfSeq DEF ToSet

LEMMA TailOf ==
    ASSUME NEW S, NEW s \in Seq(S), s # <<>>
    PROVE  /\ Tail(s) \in Seq(S) /\ Head(s) \in S /\ Head(s) = s[1] /\ 1 \in 1 .. Len(s)
           /\ Len(Tail(s)) = Len(s) - 1
           /\ \A i \in 1 .. Len(Tail(s)) : Tail(s)[i] = s[i + 1]
           /\ Head(s) \in ToSet(s) /\ ToSet(Tail(s)) \subseteq ToSet(s)
           /\ Distinct(s) => Distinct(Tail(s)) /\ ToSet(Tail(s)) = ToSet(s) \ {Head(s)}
<1>1. /\ Tail(s) \in Seq(S) /\ Head(s) \in S /\ Head(s) = s[1] /\ Len(s) \in Nat \ {0}
      /\ Len(Tail(s)) = Len(s) - 1
      /\ \A i \in 1 .. Len(Tail(s)) : Tail(s)[i] = s[i + 1]
  BY HeadTailProperties, EmptySeq, LenProperties
<1>2. /\ \A x : x \in ToSet(s) <=> \E i \in 1 .. Len(s) : s[i] = x
      /\ \A x : x \in ToSet(Tail(s)) <=> \E i \in 1 .. Len(Tail(s)) : Tail(s)[i] = x
  <2>1. \A x : x \in ToSet(s) <=> \E i \in 1 .. Len(s) : s[i] = x
    BY Members
  <2> DEFINE t == Tail(s)
  <2>2. t \in Seq(S)
    BY <1>1
  <2> HIDE DEF t
  <2>3. \A x : x \in ToSet(t) <=> \E i \in 1 .. Len(t) : t[i] = x
    BY <2>2, Members
  <2> QED BY <2>1, <2>3 DEF t
<1>3. Head(s) \in ToSet(s) /\ ToSet(Tail(s)) \subseteq ToSet(s)
  <2>1. \A i \in 1 .. Len(Tail(s)) : i + 1 \in 1 .. Len(s)
    BY <1>1
  <2> QED BY <1>1, <1>2, <2>1
<1>4. ASSUME Distinct(s)
      PROVE  Distinct(Tail(s)) /\ ToSet(Tail(s)) = ToSet(s) \ {Head(s)}
  <2>1. Distinct(Tail(s))
    BY <1>1, <1>4 DEF Distinct
  <2>2. Head(s) \notin ToSet(Tail(s))
    BY <1>1, <1>2, <1>4 DEF Distinct
  <2>3. ASSUME NEW x \in ToSet(s), x # Head(s)
        PROVE  x \in ToSet(Tail(s))
    <3>1. PICK i \in 1 .. Len(s) : s[i] = x
      BY <1>2
    <3>2. i - 1 \in 1 .. Len(Tail(s)) /\ (i - 1) + 1 = i
      BY <1>1, <2>3, <3>1
    <3> QED BY <1>1, <1>2, <3>1, <3>2
  <2> QED BY <2>1, <2>2, <2>3, <1>3
<1> QED BY <1>1, <1>3, <1>4

LEMMA AppendOf ==
    ASSUME NEW S, NEW s \in Seq(S), NEW e \in S
    PROVE  /\ Append(s, e) \in Seq(S) /\ Len(Append(s, e)) = Len(s) + 1 /\ Len(s) \in Nat
           /\ \A i \in 1 .. Len(s) : Append(s, e)[i] = s[i]
           /\ Append(s, e)[Len(s) + 1] = e
           /\ ToSet(Append(s, e)) = ToSet(s) \union {e}
           /\ Distinct(s) /\ e \notin ToSet(s) => Distinct(Append(s, e))
<1> DEFINE t == Append(s, e)
<1>1. /\ t \in Seq(S) /\ Len(t) = Len(s) + 1 /\ Len(s) \in Nat
      /\ \A i \in 1 .. Len(s) : t[i] = s[i]
      /\ t[Len(s) + 1] = e
  BY AppendProperties, LenProperties
<1>2. DOMAIN s = 1 .. Len(s) /\ DOMAIN t = 1 .. Len(s) + 1
  BY <1>1, LenProperties
<1> HIDE DEF t
<1>3. ToSet(t) = ToSet(s) \union {e}
  BY <1>1, <1>2 DEF ToSet
<1>4. Distinct(s) /\ e \notin ToSet(s) => Distinct(t)
  BY <1>1, <1>2 DEF ToSet, Distinct
<1> QED BY <1>1, <1>3, <1>4 DEF t

LEMMA ConcatOf ==
    ASSUME NEW S, NEW s \in Seq(S), NEW t \in Seq(S)
    PROVE  /\ s \o t \in Seq(S) /\ Len(s \o t) = Len(s) + Len(t) /\ Len(s) \in Nat /\ Len(t) \in Nat
           /\ \A i \in 1 .. Len(s) : (s \o t)[i] = s[i]
           /\ \A i \in 1 .. Len(t) : (s \o t)[Len(s) + i] = t[i]
<1>1. Len(s) \in Nat /\ Len(t) \in Nat
  BY LenProperties
<1>2. /\ s \o t \in Seq(S) /\ Len(s \o t) = Len(s) + Len(t)
      /\ \A i \in 1 .. Len(s) + Len(t) :
            (s \o t)[i] = IF i <= Len(s) THEN s[i] ELSE t[i - Len(s)]
  BY ConcatProperties
<1>3. \A i \in 1 .. Len(t) : Len(s) + i \in 1 .. Len(s) + Len(t) /\ ~(Len(s) + i <= Len(s))
                             /\ (Len(s) + i) - Len(s) = i
  BY <1>1
<1>4. \A i \in 1 .. Len(t) : (s \o t)[Len(s) + i] = t[i]
  BY <1>2, <1>3
<1>5. \A i \in 1 .. Len(s) : (s \o t)[i] = s[i]
  BY <1>1, <1>2
<1> QED BY <1>1, <1>2, <1>4, <1>5

\* LinkedList::del takes out one element, which is all there is of it
LEMMA WithoutOf ==
    ASSUME NEW S, NEW s \in Seq(S), Distinct(s), NEW c
    PROVE  /\ Without(s, c) \in Seq(S) /\ Distinct(Without(s, c))
           /\ ToSet(Without(s, c)) = ToSet(s) \ {c}
<1>0. Len(s) \in Nat /\ DOMAIN s = 1 .. Len(s) /\ \A i \in 1 .. Len(s) : s[i] \in S
  BY LenProperties, ElementOfSeq
<1>1. CASE c \notin ToSet(s)
  BY <1>1 DEF Without
<1>2. CASE c \in ToSet(s)
  <2> DEFINE p == CHOOSE i \in 1 .. Len(s) : s[i] = c
             front == SubSeq(s, 1, p - 1)
             back == SubSeq(s, p + 1, Len(s))
             w == front \o back
  <2>1. p \in 1 .. Len(s) /\ s[p] = c
    BY <1>0, <1>2 DEF ToSet
  <2> HIDE DEF p
  <2>2. front \in Seq(S) /\ Len(front) = p - 1 /\ \A i \in 1 .. p - 1 : front[i] = s[i]
    <3>1. 1 \in Int /\ p - 1 \in Int /\ \A i \in 1 .. p - 1 : s[i] \in S
      BY <1>0, <2>1
    <3> QED BY <3>1, <2>1, <1>0, SubSeqProperties
  <2>3. /\ back \in Seq(S) /\ Len(back) = Len(s) - p
        /\ \A i \in 1 .. Len(s) - p : back[i] = s[p + i]
    <3>1. /\ p \in Int /\ p + 1 \in Int /\ Len(s) \in Int
          /\ \A i \in p + 1 .. Len(s) : s[i] \in S
      BY <1>0, <2>1
    <3>2. /\ back \in Seq(S)
          /\ Len(back) = IF p + 1 <= Len(s) THEN Len(s) - (p + 1) + 1 ELSE 0
          /\ \A i \in 1 .. Len(s) - (p + 1) + 1 : back[i] = s[(p + 1) + i - 1]
      BY <3>1, SubSeqProperties
    <3>3. \A i \in 1 .. Len(s) - p : i \in 1 .. Len(s) - (p + 1) + 1 /\ (p + 1) + i - 1 = p + i
      BY ONLY <3>1
    <3>4. Len(back) = Len(s) - p
      BY ONLY <3>1, <3>2, <2>1
    <3>5. \A i \in 1 .. Len(s) - p : back[i] = s[p + i]
      <4> TAKE i \in 1 .. Len(s) - p
      <4>1. i \in 1 .. Len(s) - (p + 1) + 1 /\ (p + 1) + i - 1 = p + i
        BY <3>3
      <4>2. back[i] = s[(p + 1) + i - 1]
        BY <3>2, <4>1
      <4> QED BY <4>1, <4>2
    <3> QED BY <3>2, <3>4, <3>5
  <2> HIDE DEF front, back
  <2>4. /\ w \in Seq(S) /\ Len(w) = Len(s) - 1
        /\ \A i \in 1 .. p - 1 : w[i] = s[i]
        /\ \A i \in 1 .. Len(s) - p : w[p - 1 + i] = s[p + i]
    <3>1. /\ w \in Seq(S) /\ Len(w) = Len(front) + Len(back)
          /\ \A i \in 1 .. Len(front) : w[i] = front[i]
          /\ \A i \in 1 .. Len(back) : w[Len(front) + i] = back[i]
      <4>1. front \in Seq(S) /\ back \in Seq(S)
        BY ONLY <2>2, <2>3
      <4> QED BY ONLY <4>1, ConcatOf DEF w
    <3> HIDE DEF w
    <3>2. p - 1 + (Len(s) - p) = Len(s) - 1
      BY <2>1, <1>0
    <3>3. \A i \in 1 .. p - 1 : w[i] = s[i]
      BY ONLY <3>1, <2>2
    <3>4. ASSUME NEW i \in 1 .. Len(s) - p
          PROVE  w[p - 1 + i] = s[p + i]
      <4>1. w[Len(front) + i] = back[i]
        BY <3>1, <2>3
      <4> QED BY <4>1, <2>2, <2>3
    <3>5. w \in Seq(S) /\ Len(w) = Len(s) - 1
      BY ONLY <3>1, <3>2, <2>2, <2>3
    <3> QED BY <3>3, <3>4, <3>5
  <2>5. Without(s, c) = w
    BY <1>2 DEF Without, RemoveAt, p, front, back, w
  <2>6. DOMAIN w = 1 .. Len(s) - 1
    BY <2>4, LenProperties
  <2> HIDE DEF w
  <2>7. \A i \in 1 .. Len(s) - 1 : w[i] = IF i < p THEN s[i] ELSE s[i + 1]
    <3> SUFFICES ASSUME NEW i \in 1 .. Len(s) - 1
                 PROVE  w[i] = IF i < p THEN s[i] ELSE s[i + 1]
      OBVIOUS
    <3>1. CASE i < p
      BY <3>1, <2>1, <2>4, <1>0
    <3>2. CASE ~(i < p)
      <4>1. i - p + 1 \in 1 .. Len(s) - p
        BY <3>2, <2>1, <1>0
      <4>2. p - 1 + (i - p + 1) = i /\ p + (i - p + 1) = i + 1
        BY <2>1, <1>0
      <4> QED BY <4>1, <4>2, <3>2, <2>4
    <3> QED BY <3>1, <3>2
  <2>8. Distinct(w)
    BY <2>1, <2>4, <2>7, <1>0 DEF Distinct
  <2>9. ToSet(w) \subseteq ToSet(s) \ {c}
    BY <2>1, <2>6, <2>7, <1>0 DEF ToSet, Distinct
  <2>10. ToSet(s) \ {c} \subseteq ToSet(w)
    <3> SUFFICES ASSUME NEW i \in 1 .. Len(s), s[i] # c PROVE \E j \in 1 .. Len(s) - 1 : w[j] = s[i]
      BY <1>0, <2>6 DEF ToSet
    <3>1. CASE i < p
      BY <3>1, <2>1, <2>7, <1>0
    <3>2. CASE ~(i < p)
      <4>1. i - 1 \in 1 .. Len(s) - 1 /\ ~(i - 1 < p) /\ (i - 1) + 1 = i
        BY <3>2, <2>1, <1>0
      <4> QED BY <4>1, <2>7
    <3> QED BY <3>1, <3>2
  <2> QED BY <2>4, <2>5, <2>8, <2>9, <2>10
<1> QED BY <1>1, <1>2

-----------------------------------------------------------------------------
(* Induction, from the minimal elements of a well-founded order. *)

LEMMA NatInd == ASSUME NEW T \in SUBSET Nat, 0 \in T, \A n \in T : n+1 \in T PROVE T = Nat
<1> DEFINE F == {0 .. m : m \in Nat \ T}
<1>1. SUFFICES ASSUME Nat \ T # {} PROVE FALSE
  OBVIOUS
<1>2. F \subseteq FiniteSubsetsOf(Nat)
  <2>1. ASSUME NEW m \in Nat PROVE IsFiniteSet(0 .. m) /\ 0 .. m \in SUBSET Nat
    BY <2>1, FS_Interval
  <2> QED BY <2>1 DEF FiniteSubsetsOf
<1>3. F # {}
  BY <1>1
<1>4. IsWellFoundedOn(StrictSubsetOrdering(Nat), FiniteSubsetsOf(Nat))
  BY FS_StrictSubsetOrderingWellFounded
<1>5. PICK X \in F : \A Y \in F : ~(<<Y, X>> \in StrictSubsetOrdering(Nat))
  <2> HIDE DEF F
  <2> QED
  BY <1>2, <1>3, <1>4, WFMin
<1>6. PICK m \in Nat \ T : X = 0 .. m
  BY <1>5
<1>7. m # 0
  OBVIOUS
<1>8. m - 1 \in Nat /\ m - 1 \notin T
  <2>1. m - 1 \in Nat
    BY <1>7
  <2>2. (m - 1) + 1 = m
    BY <1>6
  <2> QED BY <2>1, <2>2
<1>9. 0 .. (m - 1) \in F
  BY <1>8
<1>10. <<0 .. (m - 1), X>> \in StrictSubsetOrdering(Nat)
  <2>1. 0 .. (m-1) \subseteq X /\ m \in X /\ m \notin 0 .. (m-1)
    BY <1>6, <1>8
  <2>2. X \in SUBSET Nat /\ 0 .. (m-1) \in SUBSET Nat
    BY <1>6, <1>8
  <2> QED BY <2>1, <2>2 DEF StrictSubsetOrdering
<1> QED BY <1>5, <1>9, <1>10

\* the same up to a number
LEMMA Upto ==
    ASSUME NEW N \in Nat, NEW T, 0 \in T, \A n \in Nat : n \in T /\ n < N => n + 1 \in T
    PROVE  \A n \in 0 .. N : n \in T
<1> DEFINE F == {n \in Nat : n <= N => n \in T}
<1>1. F \in SUBSET Nat /\ 0 \in F
  OBVIOUS
<1>2. ASSUME NEW n \in F PROVE n + 1 \in F
  OBVIOUS
<1> HIDE DEF F
<1>3. F = Nat
  BY ONLY <1>1, <1>2, NatInd
<1> QED BY <1>3 DEF F


-----------------------------------------------------------------------------
(* The inductive invariant, part by part: L are the listed clients, al the  *)
(* ones that are alive, hd their handles, q the queue of messages.          *)

Listed == ToSet(clientList)

\* the queue announces a client before it is listed, and its end at last
QueueGood(q, L, al, hd) ==
    \A i \in 1 .. Len(q) :
        /\ q[i].type = "CONNECTED" =>
              /\ q[i].from \in al /\ q[i].from \notin L /\ hd[q[i].from] # NoFd
              /\ \A j \in 1 .. Len(q) : q[j].from = q[i].from => j = i
        /\ q[i].type # "CONNECTED" => q[i].from \in L
        /\ q[i].type = "HUNG_UP" =>
              /\ hd[q[i].from] = NoFd
              /\ \A j \in 1 .. Len(q) : q[j].from = q[i].from => j <= i

\* who is alive is listed or will be; who is not has no handle
LiveGood(q, L, al, hd) ==
    /\ \A c \in al : c \in L \/ \E i \in 1 .. Len(q) : q[i] = Connected(c)
    /\ \A c \in Clients : c \notin al => hd[c] = NoFd

\* no handle is used twice; the table is exact, and only listed clients are in it
TableGood(hd, o, tbl, max, L) ==
    /\ \A c, d \in Clients : hd[c] # NoFd /\ hd[c] = hd[d] => c = d
    /\ \A c \in Clients : o # NoFd => hd[c] # o
    /\ \A h \in Fds : tbl[h] \in Clients => tbl[h] \in L /\ hd[tbl[h]] = h
    /\ \A h \in Fds : tbl[h] = Own => o = h
    /\ \A c \in L : hd[c] # NoFd => tbl[hd[c]] = c /\ hd[c] <= max
    /\ o # NoFd => tbl[o] = Own /\ o <= max

\* the counters
CountGood(hd, o, n, files) ==
    LET used == {c \in Clients : hd[c] # NoFd}
    IN  /\ files = 1 + Cardinality(used) + (IF o = NoFd THEN 0 ELSE 1)
        /\ n = Cardinality(used)
        /\ used # {} => 1 + n <= gMaxConnectCount

\* the lists of doit hold listed clients, and are empty outside their loops
ListsInv ==
    /\ Distinct(clientList) /\ Distinct(incomingClientList) /\ Distinct(deadClientList)
    /\ Listed \subseteq live
    /\ ToSet(incomingClientList) \subseteq Listed
    /\ ToSet(deadClientList) \subseteq Listed
    /\ ToSet(turn) \subseteq Listed
    /\ pc # "send" => turn = <<>>
    /\ pc \in {"read", "dispatch2", "poll"} => deadClientList = <<>>
    /\ pc \in {"dispatch2", "poll"} => incomingClientList = <<>>

\* who is to be closed as dead is
DeadInv ==
    \A c \in ToSet(deadClientList) : handle[c] # NoFd => net[c] = "reset" \/ isDead[c]

\* a client that was closed is nobody's connection until it is deleted
NetInv == \A c \in live : handle[c] = NoFd => net[c] = "off"

-----------------------------------------------------------------------------
(* The queue of messages. *)

LEMMA Fields ==
    /\ NoFd \notin Fds
    /\ \A c \in Clients : /\ Connected(c) \in Message /\ HungUp(c) \in Message
                          /\ Connected(c).type = "CONNECTED" /\ Connected(c).from = c
                          /\ HungUp(c).type = "HUNG_UP" /\ HungUp(c).from = c
    /\ \A m \in Message : /\ m.from \in Clients
                          /\ m.type \in {"CONNECTED", "HUNG_UP", "DATA"}
                          /\ m.type = "CONNECTED" <=> m = Connected(m.from)
<1>1. NoFd \notin Fds
  BY ServerConstants DEF NoFd
<1>2. ASSUME NEW c \in Clients
      PROVE  /\ Connected(c) \in Message /\ HungUp(c) \in Message
             /\ Connected(c).type = "CONNECTED" /\ Connected(c).from = c
             /\ HungUp(c).type = "HUNG_UP" /\ HungUp(c).from = c
  BY DEF Connected, HungUp, Message
<1>3. ASSUME NEW m \in Message
      PROVE  /\ m.from \in Clients /\ m.type \in {"CONNECTED", "HUNG_UP", "DATA"}
             /\ m.type = "CONNECTED" <=> m = Connected(m.from)
  BY DEF Message, Connected
<1> QED BY <1>1, <1>2, <1>3

Mail(q, L, al, hd) ==
    /\ q \in Seq(Message) /\ L \subseteq al /\ al \subseteq Clients
    /\ hd \in [Clients -> Fds \union {NoFd}]
    /\ QueueGood(q, L, al, hd) /\ LiveGood(q, L, al, hd)

\* a new client is announced
LEMMA MailConnected ==
    ASSUME NEW q, NEW L, NEW al, NEW hd, Mail(q, L, al, hd),
           NEW c \in Clients, NEW h \in Fds, c \notin al
    PROVE  Mail(Append(q, Connected(c)), L, al \union {c}, [hd EXCEPT ![c] = h])
<1> DEFINE n == Append(q, Connected(c))
           hn == [hd EXCEPT ![c] = h]
           an == al \union {c}
<1>1. /\ q \in Seq(Message) /\ L \subseteq al /\ al \subseteq Clients
      /\ hd \in [Clients -> Fds \union {NoFd}]
  BY DEF Mail
<1>2. /\ n \in Seq(Message) /\ Len(n) = Len(q) + 1 /\ Len(q) \in Nat
      /\ \A i \in 1 .. Len(q) : n[i] = q[i]
      /\ n[Len(q) + 1] = Connected(c)
  BY <1>1, Fields, AppendOf
<1>3. hn \in [Clients -> Fds \union {NoFd}] /\ hn[c] = h /\ h # NoFd
      /\ \A d \in Clients : d # c => hn[d] = hd[d]
  BY <1>1, Fields
<1> HIDE DEF n, hn
<1>4. \A i \in 1 .. Len(q) : q[i] \in Message /\ q[i].from \in al
  <2>1. \A i \in 1 .. Len(q) : q[i] \in Message
    BY <1>1, ElementOfSeq
  <2> QED BY <2>1, <1>1 DEF Mail, QueueGood
<1>5. \A i \in 1 .. Len(n) : i \in 1 .. Len(q) \/ i = Len(q) + 1
  BY <1>2
<1>6. QueueGood(n, L, an, hn)
  <2> SUFFICES ASSUME NEW i \in 1 .. Len(n)
               PROVE  /\ n[i].type = "CONNECTED" =>
                            /\ n[i].from \in an /\ n[i].from \notin L /\ hn[n[i].from] # NoFd
                            /\ \A j \in 1 .. Len(n) : n[j].from = n[i].from => j = i
                      /\ n[i].type # "CONNECTED" => n[i].from \in L
                      /\ n[i].type = "HUNG_UP" =>
                            /\ hn[n[i].from] = NoFd
                            /\ \A j \in 1 .. Len(n) : n[j].from = n[i].from => j <= i
    BY DEF QueueGood
  <2>1. CASE i \in 1 .. Len(q)
    <3>1. n[i] = q[i] /\ q[i] \in Message /\ q[i].from \in al /\ q[i].from # c
          /\ hn[q[i].from] = hd[q[i].from]
      BY <2>1, <1>1, <1>2, <1>3, <1>4
    <3>2. /\ \A j \in 1 .. Len(q) : n[j] = q[j]
          /\ \A j \in 1 .. Len(n) : n[j].from = n[i].from => j \in 1 .. Len(q)
      BY <3>1, <1>2, <1>5, Fields
    <3>3. QueueGood(q, L, al, hd)
      BY DEF Mail
    <3> QED BY <2>1, <3>1, <3>2, <3>3 DEF QueueGood
  <2>2. CASE i = Len(q) + 1
    <3>1. n[i] = Connected(c) /\ n[i].type = "CONNECTED" /\ n[i].from = c
      BY <2>2, <1>2, Fields
    <3>2. \A j \in 1 .. Len(n) : n[j].from = c => j = i
      BY <2>2, <1>2, <1>4, <1>5
    <3> QED BY <3>1, <3>2, <1>1, <1>3
  <2> QED BY <2>1, <2>2, <1>5
<1>7. LiveGood(n, L, an, hn)
  <2>1. ASSUME NEW d \in an
        PROVE  d \in L \/ \E i \in 1 .. Len(n) : n[i] = Connected(d)
    <3>1. CASE d = c
      BY <3>1, <1>2
    <3>2. CASE d # c /\ d \notin L
      <4>1. PICK i \in 1 .. Len(q) : q[i] = Connected(d)
        BY <3>2 DEF Mail, LiveGood
      <4> QED BY <4>1, <1>2
    <3> QED BY <3>1, <3>2
  <2>2. \A d \in Clients : d \notin an => hn[d] = NoFd
    BY <1>3 DEF Mail, LiveGood
  <2> QED BY <2>1, <2>2 DEF LiveGood
<1>8. L \subseteq an /\ an \subseteq Clients
  BY <1>1
<1> QED BY <1>2, <1>3, <1>6, <1>7, <1>8 DEF Mail, n, hn

\* what a client with a handle says goes to the end of the queue
LEMMA DataOf ==
    ASSUME NEW c \in Clients, NEW ms \in Seq(Msgs \union Bads)
    PROVE  /\ Data(c, ms) \in Seq(Message) /\ Len(Data(c, ms)) = Len(ms)
           /\ \A i \in 1 .. Len(Data(c, ms)) :
                 Data(c, ms)[i].type = "DATA" /\ Data(c, ms)[i].from = c
<1>1. Len(ms) \in Nat /\ \A i \in 1 .. Len(ms) : ms[i] \in Msgs \union Bads
  BY LenProperties, ElementOfSeq
<1>2. \A x \in Msgs \union Bads : [type |-> "DATA", from |-> c, data |-> x] \in Message
  BY DEF Message
<1> QED BY <1>1, <1>2 DEF Data

LEMMA MailData ==
    ASSUME NEW q, NEW L, NEW al, NEW hd, Mail(q, L, al, hd),
           NEW c \in L, hd[c] # NoFd, NEW d \in Seq(Message),
           \A i \in 1 .. Len(d) : d[i].type = "DATA" /\ d[i].from = c
    PROVE  Mail(q \o d, L, al, hd)
<1> DEFINE n == q \o d
<1>1. /\ q \in Seq(Message) /\ L \subseteq al /\ al \subseteq Clients
      /\ QueueGood(q, L, al, hd) /\ LiveGood(q, L, al, hd)
  BY DEF Mail
<1>2. /\ n \in Seq(Message) /\ Len(n) = Len(q) + Len(d) /\ Len(q) \in Nat /\ Len(d) \in Nat
      /\ \A i \in 1 .. Len(q) : n[i] = q[i]
      /\ \A i \in 1 .. Len(d) : n[Len(q) + i] = d[i]
  BY <1>1, ConcatOf
<1> HIDE DEF n
<1>3. ASSUME NEW i \in 1 .. Len(n), i \notin 1 .. Len(q)
      PROVE  n[i].type = "DATA" /\ n[i].from = c
  <2>1. i - Len(q) \in 1 .. Len(d) /\ Len(q) + (i - Len(q)) = i
    BY <1>2, <1>3
  <2>2. n[i] = d[i - Len(q)]
    BY ONLY <1>2, <2>1
  <2> QED BY <2>1, <2>2
<1>4. \A i \in 1 .. Len(q) : q[i].type \in {"CONNECTED", "HUNG_UP"} => q[i].from # c
  BY <1>1 DEF QueueGood
<1>5. QueueGood(n, L, al, hd)
  <2> SUFFICES ASSUME NEW i \in 1 .. Len(n)
               PROVE  /\ n[i].type = "CONNECTED" =>
                            /\ n[i].from \in al /\ n[i].from \notin L /\ hd[n[i].from] # NoFd
                            /\ \A j \in 1 .. Len(n) : n[j].from = n[i].from => j = i
                      /\ n[i].type # "CONNECTED" => n[i].from \in L
                      /\ n[i].type = "HUNG_UP" =>
                            /\ hd[n[i].from] = NoFd
                            /\ \A j \in 1 .. Len(n) : n[j].from = n[i].from => j <= i
    BY DEF QueueGood
  <2>1. CASE i \in 1 .. Len(q)
    <3>1. n[i] = q[i] /\ (n[i].type \in {"CONNECTED", "HUNG_UP"} => n[i].from # c)
      BY <2>1, <1>2, <1>4
    <3>2. /\ \A j \in 1 .. Len(q) : n[j] = q[j]
          /\ n[i].type \in {"CONNECTED", "HUNG_UP"} =>
                \A j \in 1 .. Len(n) : n[j].from = n[i].from => j \in 1 .. Len(q)
      BY <3>1, <1>2, <1>3
    <3> QED BY <2>1, <3>1, <3>2, <1>1 DEF QueueGood
  <2>2. CASE i \notin 1 .. Len(q)
    BY <2>2, <1>3
  <2> QED BY <2>1, <2>2
<1>6. LiveGood(n, L, al, hd)
  <2>1. \A i \in 1 .. Len(q) : i \in 1 .. Len(n)
    BY <1>2
  <2> QED BY <1>1, <1>2, <2>1 DEF LiveGood
<1> QED BY <1>2, <1>5, <1>6 DEF Mail, n

\* a client that is closed says goodbye
LEMMA MailHungUp ==
    ASSUME NEW q, NEW L, NEW al, NEW hd, Mail(q, L, al, hd), NEW c \in L, hd[c] # NoFd
    PROVE  Mail(Append(q, HungUp(c)), L, al, [hd EXCEPT ![c] = NoFd])
<1> DEFINE n == Append(q, HungUp(c))
           hn == [hd EXCEPT ![c] = NoFd]
<1>1. /\ q \in Seq(Message) /\ L \subseteq al /\ al \subseteq Clients
      /\ hd \in [Clients -> Fds \union {NoFd}]
      /\ QueueGood(q, L, al, hd) /\ LiveGood(q, L, al, hd) /\ c \in Clients
  BY DEF Mail
<1>2. /\ n \in Seq(Message) /\ Len(n) = Len(q) + 1 /\ Len(q) \in Nat
      /\ \A i \in 1 .. Len(q) : n[i] = q[i]
      /\ n[Len(q) + 1] = HungUp(c)
  BY <1>1, Fields, AppendOf
<1>3. hn \in [Clients -> Fds \union {NoFd}] /\ hn[c] = NoFd
      /\ \A d \in Clients : d # c => hn[d] = hd[d]
  BY <1>1
<1> HIDE DEF n, hn
<1>4. \A i \in 1 .. Len(q) : q[i].from \in al
                             /\ (q[i].type \in {"CONNECTED", "HUNG_UP"} => q[i].from # c)
  BY <1>1 DEF QueueGood
<1>5. \A i \in 1 .. Len(n) : i \in 1 .. Len(q) \/ i = Len(q) + 1
  BY <1>2
<1>6. QueueGood(n, L, al, hn)
  <2> SUFFICES ASSUME NEW i \in 1 .. Len(n)
               PROVE  /\ n[i].type = "CONNECTED" =>
                            /\ n[i].from \in al /\ n[i].from \notin L /\ hn[n[i].from] # NoFd
                            /\ \A j \in 1 .. Len(n) : n[j].from = n[i].from => j = i
                      /\ n[i].type # "CONNECTED" => n[i].from \in L
                      /\ n[i].type = "HUNG_UP" =>
                            /\ hn[n[i].from] = NoFd
                            /\ \A j \in 1 .. Len(n) : n[j].from = n[i].from => j <= i
    BY DEF QueueGood
  <2>1. CASE i \in 1 .. Len(q)
    <3>1. n[i] = q[i] /\ n[i].from \in Clients
          /\ (n[i].type \in {"CONNECTED", "HUNG_UP"} => n[i].from # c)
      BY <2>1, <1>1, <1>2, <1>4
    <3>2. /\ \A j \in 1 .. Len(q) : n[j] = q[j]
          /\ n[i].type \in {"CONNECTED", "HUNG_UP"} =>
                \A j \in 1 .. Len(n) : n[j].from = n[i].from => j \in 1 .. Len(q)
      BY <3>1, <1>1, <1>2, <1>5, Fields
    <3>3. n[i].type \in {"CONNECTED", "HUNG_UP"} => hn[n[i].from] = hd[n[i].from]
      BY <3>1, <1>3
    <3> QED BY <2>1, <3>1, <3>2, <3>3, <1>1 DEF QueueGood
  <2>2. CASE i = Len(q) + 1
    <3>1. n[i].type = "HUNG_UP" /\ n[i].from = c
      BY <2>2, <1>1, <1>2, Fields
    <3>2. \A j \in 1 .. Len(n) : j <= i
      BY <2>2, <1>2
    <3> QED BY <3>1, <3>2, <1>3
  <2> QED BY <2>1, <2>2, <1>5
<1>7. LiveGood(n, L, al, hn)
  <2>1. \A i \in 1 .. Len(q) : i \in 1 .. Len(n)
    BY <1>2
  <2> QED BY <1>1, <1>2, <1>3, <2>1 DEF LiveGood
<1> QED BY <1>1, <1>2, <1>3, <1>6, <1>7 DEF Mail, n, hn

\* the first message is handled: L and al change for its sender at most
LEMMA MailHandled ==
    ASSUME NEW q, NEW L, NEW al, NEW hd, Mail(q, L, al, hd), q # <<>>,
           NEW L2, NEW al2, L2 \subseteq al2, al2 \subseteq al,
           \A d \in al : d # Head(q).from => ((d \in L <=> d \in L2) /\ d \in al2),
           \A i \in 1 .. Len(q) : q[i].from = Head(q).from /\ i # 1 =>
              q[i].type # "CONNECTED" /\ q[i].from \in L2 /\ q[i].from \in al2,
           Head(q).from \in al2 => Head(q).from \in L2,
           Head(q).from \notin al2 => hd[Head(q).from] = NoFd
    PROVE  Mail(Tail(q), L2, al2, hd)
<1> DEFINE n == Tail(q)
           c == Head(q).from
<1>1. /\ q \in Seq(Message) /\ L \subseteq al /\ al \subseteq Clients
      /\ hd \in [Clients -> Fds \union {NoFd}]
      /\ QueueGood(q, L, al, hd) /\ LiveGood(q, L, al, hd)
  BY DEF Mail
<1>2. /\ n \in Seq(Message) /\ Len(n) = Len(q) - 1 /\ 1 \in 1 .. Len(q) /\ Head(q) = q[1]
      /\ \A i \in 1 .. Len(n) : n[i] = q[i + 1]
  BY <1>1, TailOf
<1>3. /\ Len(q) \in Nat /\ \A i \in 1 .. Len(n) : i + 1 \in 1 .. Len(q) /\ i + 1 # 1
      /\ \A i \in 1 .. Len(q) : i # 1 => i - 1 \in 1 .. Len(n) /\ (i - 1) + 1 = i
  <2>1. Len(q) \in Nat
    BY <1>1, LenProperties
  <2> QED BY <2>1, <1>2
<1> HIDE DEF n
<1>4. \A i \in 1 .. Len(q) : q[i] \in Message /\ q[i].from \in al /\ q[i].from \in Clients
                             /\ (q[i].type # "CONNECTED" => q[i].from \in L)
  <2>1. \A i \in 1 .. Len(q) : q[i] \in Message
    BY <1>1, ElementOfSeq
  <2> QED BY <2>1, <1>1, Fields DEF QueueGood
<1>5. QueueGood(n, L2, al2, hd)
  <2> SUFFICES ASSUME NEW i \in 1 .. Len(n)
               PROVE  /\ n[i].type = "CONNECTED" =>
                            /\ n[i].from \in al2 /\ n[i].from \notin L2 /\ hd[n[i].from] # NoFd
                            /\ \A j \in 1 .. Len(n) : n[j].from = n[i].from => j = i
                      /\ n[i].type # "CONNECTED" => n[i].from \in L2
                      /\ n[i].type = "HUNG_UP" =>
                            /\ hd[n[i].from] = NoFd
                            /\ \A j \in 1 .. Len(n) : n[j].from = n[i].from => j <= i
    BY DEF QueueGood
  <2> DEFINE k == i + 1
             d == q[k].from
  <2>1. n[i] = q[k] /\ k \in 1 .. Len(q) /\ k # 1 /\ d \in al
    BY <1>2, <1>3, <1>4
  <2>2. \A j \in 1 .. Len(n) : n[j] = q[j + 1] /\ j + 1 \in 1 .. Len(q)
                               /\ (j + 1 = k => j = i) /\ (j + 1 <= k => j <= i)
    BY <1>2, <1>3
  <2>3. /\ q[k].type = "CONNECTED" =>
              /\ d \in al /\ d \notin L /\ hd[d] # NoFd
              /\ \A j \in 1 .. Len(q) : q[j].from = d => j = k
        /\ q[k].type # "CONNECTED" => d \in L
        /\ q[k].type = "HUNG_UP" =>
              /\ hd[d] = NoFd
              /\ \A j \in 1 .. Len(q) : q[j].from = d => j <= k
    BY <2>1, <1>1 DEF QueueGood
  <2>4. d = c => q[k].type # "CONNECTED" /\ d \in L2 /\ d \in al2
    BY <2>1
  <2>5. d # c => ((d \in L <=> d \in L2) /\ d \in al2)
    BY <2>1
  <2> HIDE DEF k, d, c
  <2>6. n[i].from = d /\ n[i].type = q[k].type
    BY <2>1 DEF d
  <2>7. ASSUME \A j \in 1 .. Len(q) : q[j].from = d => j = k
        PROVE  \A j \in 1 .. Len(n) : n[j].from = d => j = i
    BY ONLY <2>2, <2>7
  <2>8. ASSUME \A j \in 1 .. Len(q) : q[j].from = d => j <= k
        PROVE  \A j \in 1 .. Len(n) : n[j].from = d => j <= i
    BY ONLY <2>2, <2>8
  <2>9. n[i].type = "CONNECTED" =>
           /\ d \in al2 /\ d \notin L2 /\ hd[d] # NoFd
           /\ \A j \in 1 .. Len(n) : n[j].from = d => j = i
    BY <2>3, <2>4, <2>5, <2>6, <2>7
  <2>10. n[i].type # "CONNECTED" => d \in L2
    BY <2>3, <2>4, <2>5, <2>6
  <2>11. n[i].type = "HUNG_UP" =>
            hd[d] = NoFd /\ \A j \in 1 .. Len(n) : n[j].from = d => j <= i
    BY <2>3, <2>6, <2>8
  <2> QED BY ONLY <2>6, <2>9, <2>10, <2>11
<1>6. LiveGood(n, L2, al2, hd)
  <2>1. ASSUME NEW d \in al2, d \notin L2
        PROVE  \E i \in 1 .. Len(n) : n[i] = Connected(d)
    <3>1. d # c /\ d \in al /\ d \notin L /\ d \in Clients
      <4>1. d # c
        BY <2>1
      <4>2. d \in al /\ d \in Clients
        BY <1>1, <2>1
      <4>3. d \in L <=> d \in L2
        BY <4>1, <4>2
      <4> QED BY <2>1, <4>1, <4>2, <4>3
    <3>2. PICK i \in 1 .. Len(q) : q[i] = Connected(d)
      BY ONLY <3>1, <1>1 DEF LiveGood
    <3>3. i # 1
      BY <3>1, <3>2, <1>2, Fields
    <3>4. i - 1 \in 1 .. Len(n) /\ (i - 1) + 1 = i
      BY ONLY <3>2, <3>3, <1>3
    <3>5. n[i - 1] = q[i]
      BY ONLY <3>4, <1>2
    <3> QED BY <3>2, <3>4, <3>5
  <2>2. ASSUME NEW d \in Clients, d \notin al2
        PROVE  hd[d] = NoFd
    BY <2>2, <1>1 DEF LiveGood
  <2> QED BY <2>1, <2>2 DEF LiveGood
<1> QED BY <1>1, <1>2, <1>5, <1>6 DEF Mail, n

\* the three kinds of messages
LEMMA MailNext ==
    ASSUME NEW q, NEW L, NEW al, NEW hd, Mail(q, L, al, hd), q # <<>>
    PROVE  LET c == Head(q).from IN
           /\ c \in Clients /\ c \in al /\ Tail(q) \in Seq(Message)
           /\ Head(q).type = "DATA" => Mail(Tail(q), L, al, hd) /\ c \in L
           /\ Head(q).type = "CONNECTED" =>
                 Mail(Tail(q), L \union {c}, al, hd) /\ c \notin L /\ hd[c] # NoFd
           /\ Head(q).type = "HUNG_UP" =>
                 Mail(Tail(q), L \ {c}, al \ {c}, hd) /\ c \in L /\ hd[c] = NoFd
<1> DEFINE c == Head(q).from
<1>1. /\ q \in Seq(Message) /\ L \subseteq al /\ al \subseteq Clients
      /\ QueueGood(q, L, al, hd)
  BY DEF Mail
<1>2. Head(q) = q[1] /\ 1 \in 1 .. Len(q) /\ Tail(q) \in Seq(Message) /\ Len(q) \in Nat
  BY <1>1, TailOf, LenProperties
<1>3. /\ c \in al /\ c \in Clients
      /\ Head(q).type = "CONNECTED" =>
            /\ c \notin L /\ hd[c] # NoFd
            /\ \A j \in 1 .. Len(q) : q[j].from = c => j = 1
      /\ Head(q).type # "CONNECTED" => c \in L
      /\ Head(q).type = "HUNG_UP" =>
            /\ hd[c] = NoFd
            /\ \A j \in 1 .. Len(q) : q[j].from = c => j <= 1
  BY <1>1, <1>2 DEF QueueGood
<1>4. \A i \in 1 .. Len(q) : i <= 1 => i = 1
  BY <1>2
<1>5. \A i \in 1 .. Len(q) : q[i].type = "CONNECTED" => q[i].from \notin L
  BY <1>1 DEF QueueGood
<1>6. ASSUME Head(q).type = "DATA"
      PROVE  Mail(Tail(q), L, al, hd)
  BY <1>1, <1>3, <1>5, <1>6, MailHandled
<1>7. ASSUME Head(q).type = "CONNECTED"
      PROVE  Mail(Tail(q), L \union {c}, al, hd)
  <2>1. \A d \in al : d # c => ((d \in L <=> d \in L \union {c}) /\ d \in al)
    OBVIOUS
  <2> QED BY <1>1, <1>3, <1>7, <2>1, MailHandled
<1>8. ASSUME Head(q).type = "HUNG_UP"
      PROVE  Mail(Tail(q), L \ {c}, al \ {c}, hd)
  <2>1. \A d \in al : d # c => ((d \in L <=> d \in L \ {c}) /\ d \in al \ {c})
    OBVIOUS
  <2>2. \A i \in 1 .. Len(q) : ~(q[i].from = c /\ i # 1)
    BY <1>3, <1>4, <1>8
  <2> QED BY <1>1, <1>3, <1>8, <2>1, <2>2, MailHandled
<1> QED BY <1>2, <1>3, <1>6, <1>7, <1>8

-----------------------------------------------------------------------------
(* The poll table. *)

Table(hd, o, tbl, max, L) ==
    /\ hd \in [Clients -> Fds \union {NoFd}] /\ o \in Fds \union {NoFd}
    /\ tbl \in [Fds -> Clients \union {NoClient, Own}] /\ max \in Nat /\ L \subseteq Clients
    /\ TableGood(hd, o, tbl, max, L)

Others == Own \notin Clients /\ NoClient \notin Clients /\ Own # NoClient /\ NoFd \notin Fds
          /\ Fds \subseteq Nat

LEMMA OthersHold == Others
BY ServerConstants, Fields DEF Others

\* accept gives a free handle to a client that is not listed
LEMMA TableAccept ==
    ASSUME NEW hd, NEW o, NEW tbl, NEW max, NEW L, Table(hd, o, tbl, max, L),
           NEW c \in Clients, c \notin L, NEW h \in Fds,
           \A d \in Clients : hd[d] # h, o # h
    PROVE  Table([hd EXCEPT ![c] = h], o, tbl, max, L)
<1> DEFINE hn == [hd EXCEPT ![c] = h]
<1>1. hn \in [Clients -> Fds \union {NoFd}] /\ hn[c] = h
      /\ \A d \in Clients : d # c => hn[d] = hd[d]
  BY DEF Table
<1> HIDE DEF hn
<1>2. TableGood(hn, o, tbl, max, L)
  BY <1>1 DEF Table, TableGood
<1> QED BY <1>1, <1>2 DEF Table, hn

\* addClient of the client that is listed now
LEMMA TableListed ==
    ASSUME NEW hd, NEW o, NEW tbl, NEW max, NEW L, Table(hd, o, tbl, max, L),
           NEW c \in Clients, c \notin L, hd[c] # NoFd
    PROVE  Table(hd, o, [tbl EXCEPT ![hd[c]] = c], IF hd[c] > max THEN hd[c] ELSE max, L \union {c})
<1> DEFINE h == hd[c]
           tn == [tbl EXCEPT ![h] = c]
           mn == IF h > max THEN h ELSE max
<1>1. h \in Fds /\ h \in Nat /\ h # o
  <2>1. h \in Fds /\ (o # NoFd => h # o) /\ h # NoFd
    BY DEF Table, TableGood
  <2> QED BY <2>1, OthersHold DEF Others
<1>2. tn \in [Fds -> Clients \union {NoClient, Own}] /\ tn[h] = c /\ c # Own
      /\ \A k \in Fds : k # h => tn[k] = tbl[k]
  BY <1>1, OthersHold DEF Table, Others
<1>3. mn \in Nat /\ h <= mn /\ \A k \in Nat : k <= max => k <= mn
  BY <1>1 DEF Table
<1> HIDE DEF tn, mn
<1>4. \A d \in Clients : hd[d] # NoFd => hd[d] \in Fds /\ hd[d] \in Nat
  BY OthersHold DEF Table, Others
<1>5. o # NoFd => o \in Fds /\ o \in Nat
  BY OthersHold DEF Table, Others
<1>6. \A k \in Fds : tn[k] \in Clients => tn[k] \in L \union {c} /\ hd[tn[k]] = k
  BY <1>1, <1>2 DEF Table, TableGood
<1>7. \A k \in Fds : tn[k] = Own => o = k
  BY <1>1, <1>2 DEF Table, TableGood
<1>8. \A d \in L \union {c} : hd[d] # NoFd => tn[hd[d]] = d /\ hd[d] <= mn
  <2> SUFFICES ASSUME NEW d \in L, d # c, hd[d] # NoFd PROVE tn[hd[d]] = d /\ hd[d] <= mn
    BY <1>1, <1>2, <1>3
  <2>1. d \in Clients /\ hd[d] # h /\ tbl[hd[d]] = d /\ hd[d] <= max
    BY DEF Table, TableGood
  <2> QED BY <2>1, <1>2, <1>3, <1>4
<1>9. o # NoFd => tn[o] = Own /\ o <= mn
  BY <1>1, <1>2, <1>3, <1>5 DEF Table, TableGood
<1>10. TableGood(hd, o, tn, mn, L \union {c})
  BY <1>6, <1>7, <1>8, <1>9 DEF Table, TableGood
<1> QED BY <1>2, <1>3, <1>10 DEF Table, tn, mn

\* close and delClient of handle h, which is d's or the program's own
LEMMA TableMax ==
    ASSUME NEW h \in Nat, NEW max \in Nat
    PROVE  LET low == IF h = max /\ max > 0 THEN max - 1 ELSE max
           IN  low \in Nat /\ \A k \in Nat : k <= max /\ k # h => k <= low
OBVIOUS

LEMMA TableDrop ==
    ASSUME NEW hd, NEW o, NEW tbl, NEW max, NEW L, Table(hd, o, tbl, max, L),
           NEW c \in Clients, hd[c] # NoFd
    PROVE  Table([hd EXCEPT ![c] = NoFd], o, [tbl EXCEPT ![hd[c]] = NoClient],
                 IF hd[c] = max /\ max > 0 THEN max - 1 ELSE max, L)
<1> DEFINE h == hd[c]
           hn == [hd EXCEPT ![c] = NoFd]
           tn == [tbl EXCEPT ![h] = NoClient]
           mn == IF h = max /\ max > 0 THEN max - 1 ELSE max
<1>1. h \in Fds /\ h \in Nat /\ h # o
  BY OthersHold DEF Table, TableGood, Others
<1>2. /\ tn \in [Fds -> Clients \union {NoClient, Own}]
      /\ tn[h] = NoClient /\ NoClient \notin Clients /\ NoClient # Own
      /\ \A k \in Fds : k # h => tn[k] = tbl[k]
  BY <1>1, OthersHold DEF Table, Others
<1>3. mn \in Nat /\ \A k \in Nat : k <= max /\ k # h => k <= mn
  BY <1>1, TableMax DEF Table
<1>4. hn \in [Clients -> Fds \union {NoFd}] /\ hn[c] = NoFd
      /\ \A d \in Clients : d # c => hn[d] = hd[d]
  BY DEF Table
<1> HIDE DEF tn, mn, hn
<1>5. \A d \in Clients : hd[d] # NoFd => hd[d] \in Fds /\ hd[d] \in Nat
  BY OthersHold DEF Table, Others
<1>6. o # NoFd => o \in Fds /\ o \in Nat
  BY OthersHold DEF Table, Others
<1>7. \A k \in Fds : tn[k] \in Clients => tn[k] \in L /\ hn[tn[k]] = k
  BY <1>1, <1>2, <1>4 DEF Table, TableGood
<1>8. \A k \in Fds : tn[k] = Own => o = k
  BY <1>1, <1>2 DEF Table, TableGood
<1>9. \A d \in L : hn[d] # NoFd => tn[hn[d]] = d /\ hn[d] <= mn
  <2> SUFFICES ASSUME NEW d \in L, d # c, hd[d] # NoFd PROVE tn[hd[d]] = d /\ hd[d] <= mn
    BY <1>4 DEF Table
  <2>1. d \in Clients /\ hd[d] # h /\ tbl[hd[d]] = d /\ hd[d] <= max
    BY DEF Table, TableGood
  <2> QED BY <2>1, <1>2, <1>3, <1>5
<1>10. o # NoFd => tn[o] = Own /\ o <= mn
  BY <1>1, <1>2, <1>3, <1>6 DEF Table, TableGood
<1>11. TableGood(hn, o, tn, mn, L)
  BY <1>4, <1>7, <1>8, <1>9, <1>10 DEF Table, TableGood
<1> QED BY <1>2, <1>3, <1>4, <1>11 DEF Table, tn, mn, hn

\* a client without a handle leaves the list
LEMMA TableUnlisted ==
    ASSUME NEW hd, NEW o, NEW tbl, NEW max, NEW L, Table(hd, o, tbl, max, L),
           NEW c, hd[c] = NoFd
    PROVE  Table(hd, o, tbl, max, L \ {c})
<1>1. \A h \in Fds : tbl[h] \in Clients => tbl[h] # c
  BY OthersHold DEF Table, TableGood, Others
<1> QED BY <1>1 DEF Table, TableGood

\* the program's own connection
LEMMA TableOwn ==
    ASSUME NEW hd, NEW tbl, NEW max, NEW L, Table(hd, NoFd, tbl, max, L),
           NEW h \in Fds, \A d \in Clients : hd[d] # h
    PROVE  Table(hd, h, [tbl EXCEPT ![h] = Own], IF h > max THEN h ELSE max, L)
<1> DEFINE tn == [tbl EXCEPT ![h] = Own]
           mn == IF h > max THEN h ELSE max
<1>1. h \in Nat /\ h # NoFd
  BY OthersHold DEF Others
<1>2. tn \in [Fds -> Clients \union {NoClient, Own}] /\ tn[h] = Own /\ Own \notin Clients
      /\ \A k \in Fds : k # h => tn[k] = tbl[k]
  BY <1>1, OthersHold DEF Table, Others
<1>3. mn \in Nat /\ h <= mn /\ \A k \in Nat : k <= max => k <= mn
  BY <1>1 DEF Table
<1> HIDE DEF tn, mn
<1>4. \A d \in Clients : hd[d] # NoFd => hd[d] \in Fds /\ hd[d] \in Nat
  BY OthersHold DEF Table, Others
<1>5. \A k \in Fds : tn[k] \in Clients => tn[k] \in L /\ hd[tn[k]] = k
  BY <1>1, <1>2 DEF Table, TableGood
<1>6. \A k \in Fds : tn[k] = Own => h = k
  <2> SUFFICES ASSUME NEW k \in Fds, k # h, tn[k] = Own PROVE FALSE
    OBVIOUS
  <2>1. NoFd = k
    BY <1>2 DEF Table, TableGood
  <2> QED BY <2>1, OthersHold DEF Others
<1>7. \A d \in L : hd[d] # NoFd => tn[hd[d]] = d /\ hd[d] <= mn
  BY <1>2, <1>3, <1>4 DEF Table, TableGood
<1>8. TableGood(hd, h, tn, mn, L)
  BY <1>2, <1>3, <1>5, <1>6, <1>7 DEF Table, TableGood
<1> QED BY <1>2, <1>3, <1>8 DEF Table, tn, mn

LEMMA TableNotOwn ==
    ASSUME NEW hd, NEW o, NEW tbl, NEW max, NEW L, Table(hd, o, tbl, max, L), o # NoFd
    PROVE  Table(hd, NoFd, [tbl EXCEPT ![o] = NoClient],
                 IF o = max /\ max > 0 THEN max - 1 ELSE max, L)
<1> DEFINE tn == [tbl EXCEPT ![o] = NoClient]
           mn == IF o = max /\ max > 0 THEN max - 1 ELSE max
<1>1. o \in Fds /\ o \in Nat
  BY OthersHold DEF Table, Others
<1>2. /\ tn \in [Fds -> Clients \union {NoClient, Own}]
      /\ tn[o] = NoClient /\ NoClient \notin Clients /\ NoClient # Own
      /\ \A k \in Fds : k # o => tn[k] = tbl[k]
  BY <1>1, OthersHold DEF Table, Others
<1>3. mn \in Nat /\ \A k \in Nat : k <= max /\ k # o => k <= mn
  BY <1>1, TableMax DEF Table
<1> HIDE DEF tn, mn
<1>4. \A d \in Clients : hd[d] # NoFd => hd[d] \in Fds /\ hd[d] \in Nat
  BY OthersHold DEF Table, Others
<1>5. \A k \in Fds : tn[k] \in Clients => tn[k] \in L /\ hd[tn[k]] = k
  BY <1>1, <1>2 DEF Table, TableGood
<1>6. \A k \in Fds : tn[k] # Own
  BY <1>1, <1>2 DEF Table, TableGood
<1>7. \A d \in L : hd[d] # NoFd => tn[hd[d]] = d /\ hd[d] <= mn
  <2> SUFFICES ASSUME NEW d \in L, hd[d] # NoFd PROVE tn[hd[d]] = d /\ hd[d] <= mn
    OBVIOUS
  <2>1. d \in Clients /\ hd[d] # o /\ tbl[hd[d]] = d /\ hd[d] <= max
    BY DEF Table, TableGood
  <2> QED BY <2>1, <1>2, <1>3, <1>4
<1>8. TableGood(hd, NoFd, tn, mn, L)
  BY <1>2, <1>5, <1>6, <1>7 DEF Table, TableGood
<1> QED BY <1>2, <1>3, <1>8 DEF Table, tn, mn

-----------------------------------------------------------------------------
(* The counters. *)

Used(hd) == {c \in Clients : hd[c] # NoFd}

Count(hd, o, n, files) ==
    /\ hd \in [Clients -> Fds \union {NoFd}] /\ o \in Fds \union {NoFd}
    /\ n \in Nat /\ files \in Nat
    /\ CountGood(hd, o, n, files)

LEMMA CountIs ==
    ASSUME NEW hd, NEW o, NEW n, NEW files
    PROVE  CountGood(hd, o, n, files) <=>
              /\ files = 1 + Cardinality(Used(hd)) + (IF o = NoFd THEN 0 ELSE 1)
              /\ n = Cardinality(Used(hd))
              /\ Used(hd) # {} => 1 + n <= gMaxConnectCount
BY DEF CountGood, Used

LEMMA UsedFinite ==
    ASSUME NEW hd
    PROVE  IsFiniteSet(Used(hd)) /\ Cardinality(Used(hd)) \in Nat
<1>1. IsFiniteSet(Used(hd))
  BY ServerConstants, FS_Subset DEF Used
<1> QED BY <1>1, FS_CardinalityType

\* below the limit, a client gets a handle
LEMMA CountAccept ==
    ASSUME NEW hd, NEW o, NEW n, NEW files, Count(hd, o, n, files),
           NEW c \in Clients, hd[c] = NoFd, NEW h \in Fds, files < gMaxConnectCount
    PROVE  Count([hd EXCEPT ![c] = h], o, n + 1, files + 1)
<1> DEFINE hn == [hd EXCEPT ![c] = h]
<1>1. /\ hd \in [Clients -> Fds \union {NoFd}] /\ o \in Fds \union {NoFd}
      /\ n \in Nat /\ files \in Nat
      /\ files = 1 + Cardinality(Used(hd)) + (IF o = NoFd THEN 0 ELSE 1)
      /\ n = Cardinality(Used(hd))
  BY CountIs DEF Count
<1>2. hn \in [Clients -> Fds \union {NoFd}] /\ hn[c] = h /\ h # NoFd
      /\ \A d \in Clients : d # c => hn[d] = hd[d]
  BY <1>1, Fields
<1> HIDE DEF hn
<1>3. Used(hn) = Used(hd) \union {c} /\ c \notin Used(hd)
  BY <1>2 DEF Used
<1>4. Cardinality(Used(hn)) = Cardinality(Used(hd)) + 1
  BY <1>3, UsedFinite, FS_AddElement
<1>5. Cardinality(Used(hd)) \in Nat /\ gMaxConnectCount \in Nat
  BY UsedFinite, ServerConstants
<1>6. CountGood(hn, o, n + 1, files + 1)
  <2>1. /\ files + 1 = 1 + Cardinality(Used(hn)) + (IF o = NoFd THEN 0 ELSE 1)
        /\ n + 1 = Cardinality(Used(hn))
        /\ 1 + (n + 1) <= gMaxConnectCount
    BY ONLY <1>1, <1>4, <1>5, files < gMaxConnectCount
  <2> QED BY ONLY <2>1, CountIs
<1> QED BY <1>1, <1>2, <1>6 DEF Count, hn

LEMMA CountDrop ==
    ASSUME NEW hd, NEW o, NEW n, NEW files, Count(hd, o, n, files),
           NEW c \in Clients, hd[c] # NoFd
    PROVE  Count([hd EXCEPT ![c] = NoFd], o, n - 1, files - 1)
<1> DEFINE hn == [hd EXCEPT ![c] = NoFd]
<1>1. /\ hd \in [Clients -> Fds \union {NoFd}] /\ o \in Fds \union {NoFd}
      /\ n \in Nat /\ files \in Nat
      /\ files = 1 + Cardinality(Used(hd)) + (IF o = NoFd THEN 0 ELSE 1)
      /\ n = Cardinality(Used(hd))
      /\ Used(hd) # {} => 1 + n <= gMaxConnectCount
  BY CountIs DEF Count
<1>2. hn \in [Clients -> Fds \union {NoFd}] /\ hn[c] = NoFd
      /\ \A d \in Clients : d # c => hn[d] = hd[d]
  BY <1>1
<1> HIDE DEF hn
<1>3. Used(hn) = Used(hd) \ {c} /\ c \in Used(hd)
  BY <1>2 DEF Used
<1>4. Cardinality(Used(hn)) = Cardinality(Used(hd)) - 1
  BY <1>3, UsedFinite, FS_RemoveElement
<1>5. /\ Cardinality(Used(hd)) \in Nat /\ Cardinality(Used(hn)) \in Nat
      /\ gMaxConnectCount \in Nat /\ Used(hd) # {}
  BY <1>3, UsedFinite, ServerConstants
<1>6. /\ files - 1 = 1 + Cardinality(Used(hn)) + (IF o = NoFd THEN 0 ELSE 1)
      /\ n - 1 = Cardinality(Used(hn))
      /\ 1 + (n - 1) <= gMaxConnectCount
      /\ n - 1 \in Nat /\ files - 1 \in Nat
  BY ONLY <1>1, <1>4, <1>5
<1>7. CountGood(hn, o, n - 1, files - 1)
  BY ONLY <1>6, CountIs
<1> QED BY <1>1, <1>2, <1>6, <1>7 DEF Count, hn

\* the program's own connection does not ask for the limit
LEMMA CountOwn ==
    ASSUME NEW hd, NEW n, NEW files, NEW h \in Fds
    PROVE  /\ Count(hd, NoFd, n, files) => Count(hd, h, n, files + 1)
           /\ Count(hd, h, n, files) => Count(hd, NoFd, n, files - 1)
<1>1. h # NoFd
  BY Fields
<1>2. Cardinality(Used(hd)) \in Nat
  BY UsedFinite
<1>3. ASSUME Count(hd, NoFd, n, files) PROVE Count(hd, h, n, files + 1)
  <2>1. /\ files = 1 + Cardinality(Used(hd)) /\ n = Cardinality(Used(hd))
        /\ Used(hd) # {} => 1 + n <= gMaxConnectCount
    BY <1>2, <1>3, CountIs DEF Count
  <2>2. CountGood(hd, h, n, files + 1)
    BY <1>1, <1>2, <2>1, CountIs
  <2> QED BY <1>2, <1>3, <2>2, <2>1 DEF Count
<1>4. ASSUME Count(hd, h, n, files) PROVE Count(hd, NoFd, n, files - 1)
  <2>1. /\ files = 2 + Cardinality(Used(hd)) /\ n = Cardinality(Used(hd))
        /\ Used(hd) # {} => 1 + n <= gMaxConnectCount
    BY <1>1, <1>2, <1>4, CountIs DEF Count
  <2>2. CountGood(hd, NoFd, n, files - 1)
    BY <1>2, <2>1, CountIs
  <2> QED BY <1>2, <1>4, <2>2, <2>1 DEF Count
<1> QED BY <1>3, <1>4

-----------------------------------------------------------------------------
(* The inductive invariant. *)

Mails  == Mail(msgQueue, Listed, live, handle)
Tables == Table(handle, own, clients, maxHandle, Listed)
Counts == Count(handle, own, connections, gFileHandles)

SInv == TypeOK /\ ListsInv /\ DeadInv /\ NetInv /\ Mails /\ Tables /\ Counts

LEMMA SameLists ==
    ASSUME Mails, Tables, Counts, UNCHANGED <<msgQueue, clientList, live, handleVars, handle>>
    PROVE  Mails' /\ Tables' /\ Counts'
BY DEF Mails, Tables, Counts, Listed, handleVars

LEMMA SInvInit == Init => SInv
<1> SUFFICES ASSUME Init PROVE SInv
  OBVIOUS
<1> USE DEF Init
<1>1. \A S : <<>> \in Seq(S)
  BY EmptySeq
<1>2. ToSet(<<>>) = {} /\ Len(<<>>) = 0 /\ 1 .. Len(<<>>) = {}
  BY EmptySeq DEF ToSet
<1>3. Others
  BY OthersHold
<1>4. TypeOK
  BY <1>1, ServerConstants DEF TypeOK, Nets, Phases
<1>5. ListsInv
  BY <1>2 DEF ListsInv, Distinct, Listed
<1>6. DeadInv /\ NetInv
  BY <1>2 DEF DeadInv, NetInv
<1>7. Mails
  BY <1>1, <1>2, <1>4 DEF Mails, Mail, QueueGood, LiveGood, Listed, TypeOK
<1>8. Tables
  BY <1>2, <1>3, <1>4 DEF Tables, Table, TableGood, Listed, TypeOK, Others
<1>9. Counts
  <2>1. Used(handle) = {}
    BY DEF Used
  <2>2. /\ Cardinality(Used(handle)) = 0 /\ own = NoFd
        /\ connections = 0 /\ gFileHandles = 1
    BY <2>1, FS_EmptySet
  <2>3. CountGood(handle, own, connections, gFileHandles)
    BY ONLY <2>1, <2>2, CountIs
  <2> QED BY <1>4, <2>3 DEF Counts, Count, TypeOK
<1> QED BY <1>4, <1>5, <1>6, <1>7, <1>8, <1>9 DEF SInv

\* what handlers do to clients
LEMMA EffectOf ==
    ASSUME TypeOK, NEW ps \in SUBSET Clients, Effect(ps)
    PROVE  /\ isDead' \in [Clients -> BOOLEAN] /\ msgOut' \in [Clients -> 0 .. MaxOut]
           /\ \A c \in Clients : isDead[c] => isDead'[c]
<1>1. isDead \in [Clients -> BOOLEAN] /\ msgOut \in [Clients -> 0 .. MaxOut] /\ MaxOut \in Nat
  BY ServerConstants DEF TypeOK
<1>2. CASE UNCHANGED <<isDead, msgOut>>
  BY <1>1, <1>2
<1>3. CASE \E d \in ps : msgOut[d] < MaxOut /\ msgOut' = [msgOut EXCEPT ![d] = @ + 1] /\ UNCHANGED isDead
  BY <1>1, <1>3
<1>4. ASSUME NEW d \in ps, isDead' = [isDead EXCEPT ![d] = TRUE], UNCHANGED msgOut
      PROVE  /\ isDead' \in [Clients -> BOOLEAN] /\ msgOut' \in [Clients -> 0 .. MaxOut]
             /\ \A c \in Clients : isDead[c] => isDead'[c]
  BY <1>1, <1>4
<1> QED BY <1>2, <1>3, <1>4 DEF Effect

-----------------------------------------------------------------------------
(* The peers. *)

LEMMA PeersInv ==
    ASSUME SInv, Peers
    PROVE  SInv'
<1>1. PICK c \in Clients : Dial(c) \/ PeerSends(c) \/ PeerCloses(c) \/ PeerResets(c)
  BY DEF Peers
<1>2. UNCHANGED <<loopVars, objVars, listVars, msgQueue, handleVars>>
  BY <1>1 DEF Dial, PeerSends, PeerCloses, PeerResets
<1>3. net' \in [Clients -> Nets] /\ inbox' \in [Clients -> Seq(Msgs \union Bads)]
  <2>1. net \in [Clients -> Nets] /\ inbox \in [Clients -> Seq(Msgs \union Bads)]
    BY DEF SInv, TypeOK
  <2>2. CASE Dial(c) \/ PeerCloses(c) \/ PeerResets(c)
    BY <2>1, <2>2 DEF Dial, PeerCloses, PeerResets, Nets
  <2>3. CASE PeerSends(c)
    <3>1. PICK m \in Msgs \union Bads : inbox' = [inbox EXCEPT ![c] = Append(@, m)]
      BY <2>3 DEF PeerSends
    <3>2. Append(inbox[c], m) \in Seq(Msgs \union Bads)
      BY <2>1, AppendOf
    <3> QED BY <2>1, <2>3, <3>1, <3>2 DEF PeerSends
  <2> QED BY <1>1, <2>2, <2>3
<1>4. \A d \in Clients : /\ net[d] = "reset" => net'[d] = "reset"
                         /\ net'[d] # net[d] => d \notin live \/ net[d] # "off"
  <2>1. net \in [Clients -> Nets]
    BY DEF SInv, TypeOK
  <2> QED BY <1>1, <2>1 DEF Dial, PeerSends, PeerCloses, PeerResets
<1>5. TypeOK'
  BY <1>2, <1>3 DEF SInv, TypeOK, loopVars, objVars, listVars, handleVars
<1>6. ListsInv'
  BY <1>2 DEF SInv, ListsInv, Listed, Distinct, loopVars, objVars, listVars
<1>7. DeadInv'
  <2>1. ToSet(deadClientList) \subseteq Clients
    BY Members DEF SInv, TypeOK
  <2> QED BY <1>2, <1>4, <2>1 DEF SInv, DeadInv, objVars, listVars
<1>8. NetInv'
  <2>1. live \subseteq Clients
    BY DEF SInv, TypeOK
  <2> QED BY <1>2, <1>4, <2>1 DEF SInv, NetInv, objVars
<1>9. Mails' /\ Tables' /\ Counts'
  BY <1>2, SameLists DEF SInv, objVars, listVars
<1> QED BY <1>5, <1>6, <1>7, <1>8, <1>9 DEF SInv

-----------------------------------------------------------------------------
(* The program's own connection and its handlers. *)

LEMMA AppInv ==
    ASSUME SInv, App
    PROVE  SInv'
<1>1. /\ pc = "app" /\ pc' = "accept" /\ Effect(Listed)
      /\ UNCHANGED <<peerVars, turn, errno, live, handle, listVars, msgQueue, handleVars>>
  BY DEF App, Listed
<1>2. TypeOK /\ Listed \subseteq Clients
  BY Members DEF SInv, TypeOK, Listed
<1>3. /\ isDead' \in [Clients -> BOOLEAN] /\ msgOut' \in [Clients -> 0 .. MaxOut]
      /\ \A c \in Clients : isDead[c] => isDead'[c]
  BY <1>1, <1>2, EffectOf
<1>4. TypeOK'
  BY <1>1, <1>2, <1>3 DEF TypeOK, peerVars, listVars, handleVars, Phases
<1>5. ListsInv'
  BY <1>1 DEF SInv, ListsInv, Listed, Distinct, listVars
<1>6. DeadInv'
  <2>1. ToSet(deadClientList) \subseteq Clients
    BY <1>2, Members DEF TypeOK
  <2> QED BY <1>1, <1>3, <2>1 DEF SInv, DeadInv, listVars, peerVars
<1>7. NetInv'
  BY <1>1 DEF SInv, NetInv, peerVars
<1>8. Mails' /\ Tables' /\ Counts'
  BY <1>1, SameLists DEF SInv, listVars
<1> QED BY <1>4, <1>5, <1>6, <1>7, <1>8 DEF SInv

LEMMA OwnConnectsInv ==
    ASSUME SInv, OwnConnects
    PROVE  SInv'
<1>1. PICK h \in Fds : Lowest(h) /\ own' = h /\ PollAdd(Own, h)
  BY DEF OwnConnects
<1>2. /\ own = NoFd /\ gFileHandles' = gFileHandles + 1
      /\ UNCHANGED <<peerVars, loopVars, objVars, listVars, msgQueue, connections>>
  BY DEF OwnConnects
<1>3. clients' = [clients EXCEPT ![h] = Own] /\ maxHandle' = IF h > maxHandle THEN h ELSE maxHandle
  BY <1>1 DEF PollAdd
<1>4. \A d \in Clients : handle[d] # h
  BY <1>1 DEF Lowest, FreeFds
<1>5. Tables'
  <2>1. Table(handle, NoFd, clients, maxHandle, Listed)
    BY <1>2 DEF SInv, Tables
  <2>2. Table(handle, h, clients', maxHandle', Listed)
    BY <1>3, <1>4, <2>1, TableOwn
  <2> QED BY <1>1, <1>2, <2>2 DEF Tables, Listed, objVars, listVars
<1>6. Counts'
  <2>1. Count(handle, NoFd, connections, gFileHandles)
    BY <1>2 DEF SInv, Counts
  <2>2. Count(handle, h, connections, gFileHandles + 1)
    BY <2>1, CountOwn
  <2> QED BY <1>1, <1>2, <2>2 DEF Counts, objVars
<1>7. Mails'
  BY <1>2 DEF SInv, Mails, Listed, objVars, listVars
<1>8. TypeOK'
  BY <1>2, <1>5, <1>6
     DEF SInv, TypeOK, Tables, Table, Counts, Count, peerVars, loopVars, objVars, listVars
<1>9. ListsInv' /\ DeadInv' /\ NetInv'
  BY <1>2 DEF SInv, ListsInv, DeadInv, NetInv, Listed, Distinct, peerVars, loopVars, objVars, listVars
<1> QED BY <1>5, <1>6, <1>7, <1>8, <1>9 DEF SInv

LEMMA OwnClosesInv ==
    ASSUME SInv, OwnCloses
    PROVE  SInv'
<1>1. /\ own # NoFd /\ own' = NoFd /\ gFileHandles' = gFileHandles - 1
      /\ clients' = [clients EXCEPT ![own] = NoClient]
      /\ maxHandle' = IF own = maxHandle /\ maxHandle > 0 THEN maxHandle - 1 ELSE maxHandle
      /\ UNCHANGED <<peerVars, loopVars, objVars, listVars, msgQueue, connections>>
  BY DEF OwnCloses, PollDel, LowerMax
<1>2. Tables'
  <2>1. Table(handle, own, clients, maxHandle, Listed)
    BY DEF SInv, Tables
  <2>2. Table(handle, NoFd, clients', maxHandle', Listed)
    BY <1>1, <2>1, TableNotOwn
  <2> QED BY <1>1, <2>2 DEF Tables, Listed, objVars, listVars
<1>3. Counts'
  <2>1. Count(handle, own, connections, gFileHandles) /\ own \in Fds
    BY <1>1 DEF SInv, Counts, TypeOK
  <2>2. Count(handle, NoFd, connections, gFileHandles - 1)
    BY <2>1, CountOwn
  <2> QED BY <1>1, <2>2 DEF Counts, objVars
<1>4. Mails'
  BY <1>1 DEF SInv, Mails, Listed, objVars, listVars
<1>5. TypeOK'
  BY <1>1, <1>2, <1>3
     DEF SInv, TypeOK, Tables, Table, Counts, Count, peerVars, loopVars, objVars, listVars
<1>6. ListsInv' /\ DeadInv' /\ NetInv'
  BY <1>1 DEF SInv, ListsInv, DeadInv, NetInv, Listed, Distinct, peerVars, loopVars, objVars, listVars
<1> QED BY <1>2, <1>3, <1>4, <1>5, <1>6 DEF SInv

-----------------------------------------------------------------------------
(* The poll manager. *)

LEMMA ByHandleOf ==
    ASSUME NEW hs \in SUBSET Fds, maxHandle \in Nat,
           \A h \in hs : h <= maxHandle /\ clients[h] \in Clients /\ handle[clients[h]] = h,
           NEW s \in ByHandle(hs)
    PROVE  /\ s \in Seq(Clients) /\ Distinct(s)
           /\ \A x \in ToSet(s) : handle[x] \in hs /\ clients[handle[x]] = x
<1> DEFINE n == Cardinality(hs)
<1>1. n \in Nat
  <2>1. hs \subseteq 0 .. maxHandle
    BY ServerConstants
  <2>2. IsFiniteSet(0 .. maxHandle)
    BY FS_Interval
  <2> QED BY <2>1, <2>2, FS_Subset, FS_CardinalityType
<1>2. PICK order \in [1 .. n -> hs] :
          /\ \A i, j \in 1 .. n : i < j => order[i] < order[j]
          /\ s = [i \in 1 .. n |-> clients[order[i]]]
  BY DEF ByHandle
<1> HIDE DEF n
<1>3. \A i \in 1 .. n : /\ s[i] = clients[order[i]] /\ order[i] \in hs /\ order[i] \in Nat
                        /\ s[i] \in Clients /\ handle[s[i]] = order[i]
  BY <1>2, ServerConstants
<1>4. s \in Seq(Clients) /\ Len(s) = n
  BY <1>1, <1>2, <1>3
<1>5. Distinct(s)
  <2> SUFFICES ASSUME NEW i \in 1 .. n, NEW j \in 1 .. n, s[i] = s[j] PROVE i = j
    BY <1>4 DEF Distinct
  <2>1. order[i] = order[j] /\ order[i] \in Nat
    BY <1>3
  <2>2. ~(i < j) /\ ~(j < i)
    BY <1>2, <2>1
  <2> QED BY <2>2, <1>1
<1>6. \A x \in ToSet(s) : \E i \in 1 .. n : s[i] = x
  BY <1>4, Members
<1> QED BY <1>3, <1>4, <1>5, <1>6

LEMMA PollInv ==
    ASSUME SInv, Poll
    PROVE  SInv'
<1> DEFINE polled == {h \in Fds : h <= maxHandle /\ clients[h] \in Clients}
           defunct == {h \in polled : IsDefunct(clients[h])}
           readable == {h \in polled \ defunct : Readable(clients[h])}
           ready == {h \in polled : net[clients[h]] = "reset" \/ Readable(clients[h])}
<1>1. /\ pc = "poll" /\ pc' = "app"
      /\ UNCHANGED <<peerVars, turn, errno, objVars, clientList, msgQueue, handleVars>>
      /\ \/ UNCHANGED <<incomingClientList, deadClientList>>
         \/ \E dead \in ByHandle(defunct), incoming \in ByHandle(readable) :
                /\ deadClientList' = deadClientList \o dead
                /\ incomingClientList' = incomingClientList \o incoming
  BY DEF Poll
<1>2. TypeOK /\ ListsInv /\ deadClientList = <<>> /\ incomingClientList = <<>> /\ turn = <<>>
  BY <1>1 DEF SInv, ListsInv
<1>3. \A h \in polled : h <= maxHandle /\ clients[h] \in Listed /\ clients[h] \in Clients
                        /\ handle[clients[h]] = h
  BY DEF SInv, Tables, Table, TableGood
<1>4. /\ deadClientList' \in Seq(Clients) /\ incomingClientList' \in Seq(Clients)
      /\ Distinct(deadClientList') /\ Distinct(incomingClientList')
      /\ ToSet(deadClientList') \subseteq Listed /\ ToSet(incomingClientList') \subseteq Listed
      /\ \A c \in ToSet(deadClientList') : IsDefunct(c)
  <2>1. CASE UNCHANGED <<incomingClientList, deadClientList>>
    <3>1. ToSet(<<>>) = {} /\ Distinct(<<>>)
      BY EmptySeq DEF ToSet, Distinct
    <3> QED BY <1>2, <2>1, <3>1 DEF TypeOK
  <2>2. CASE \E dead \in ByHandle(defunct), incoming \in ByHandle(readable) :
                /\ deadClientList' = deadClientList \o dead
                /\ incomingClientList' = incomingClientList \o incoming
    <3>1. PICK dead \in ByHandle(defunct), incoming \in ByHandle(readable) :
                /\ deadClientList' = deadClientList \o dead
                /\ incomingClientList' = incomingClientList \o incoming
      BY <2>2
    <3>2. /\ maxHandle \in Nat /\ defunct \in SUBSET Fds /\ readable \in SUBSET Fds
          /\ \A h \in defunct : h \in polled /\ IsDefunct(clients[h])
          /\ \A h \in readable : h \in polled
      BY <1>2 DEF TypeOK
    <3> HIDE DEF polled, defunct, readable
    <3>3. /\ dead \in Seq(Clients) /\ Distinct(dead)
          /\ \A x \in ToSet(dead) : handle[x] \in defunct /\ clients[handle[x]] = x
      BY <1>3, <3>2, ByHandleOf
    <3>4. /\ incoming \in Seq(Clients) /\ Distinct(incoming)
          /\ \A x \in ToSet(incoming) : handle[x] \in readable /\ clients[handle[x]] = x
      <4>1. \A h \in readable : /\ h <= maxHandle /\ clients[h] \in Clients
                                /\ handle[clients[h]] = h
        BY <1>3, <3>2
      <4> QED BY ONLY <4>1, <3>1, <3>2, ByHandleOf
    <3>5. <<>> \o dead = dead /\ <<>> \o incoming = incoming
      BY ONLY <3>3, <3>4, ConcatEmptySeq
    <3>6. deadClientList' = dead /\ incomingClientList' = incoming
      BY ONLY <1>2, <3>1, <3>5
    <3> QED BY <1>3, <3>2, <3>3, <3>4, <3>6
  <2> QED BY <1>1, <2>1, <2>2
<1> HIDE DEF polled, defunct, readable
<1>5. TypeOK'
  BY <1>1, <1>2, <1>4 DEF TypeOK, peerVars, objVars, handleVars, Phases
<1>6. ListsInv'
  <2>1. Listed' = Listed /\ live' = live /\ clientList' = clientList /\ turn' = turn
        /\ Distinct(clientList)' /\ turn' = <<>> /\ ToSet(turn') \subseteq Listed
    BY <1>1, <1>2 DEF ListsInv, Listed, objVars, Distinct
  <2>2. Distinct(deadClientList)' /\ Distinct(incomingClientList)'
    BY <1>4 DEF Distinct
  <2> QED BY <1>1, <1>2, <1>4, <2>1, <2>2 DEF ListsInv
<1>7. DeadInv'
  BY <1>1, <1>4 DEF DeadInv, IsDefunct, peerVars, objVars
<1>8. NetInv'
  BY <1>1 DEF SInv, NetInv, peerVars, objVars
<1>9. Mails' /\ Tables' /\ Counts'
  BY <1>1, SameLists DEF SInv, objVars
<1> QED BY <1>5, <1>6, <1>7, <1>8, <1>9 DEF SInv

-----------------------------------------------------------------------------
(* The accept loop. *)

LEMMA AcceptInv ==
    ASSUME SInv, NEW c \in Clients, Accept(c)
    PROVE  SInv'
<1>1. PICK h \in Fds : Lowest(h) /\ handle' = [handle EXCEPT ![c] = h]
  BY DEF Accept
<1>2. /\ gFileHandles < gMaxConnectCount /\ handle[c] = NoFd /\ net[c] # "off"
      /\ pc = "accept" /\ pc' = pc /\ turn' = turn
      /\ live' = live \union {c} /\ msgQueue' = Append(msgQueue, Connected(c))
      /\ gFileHandles' = gFileHandles + 1 /\ connections' = connections + 1
      /\ errno' = "other"
      /\ UNCHANGED <<peerVars, isDead, msgOut, listVars, own, clients, maxHandle>>
  BY DEF Accept, Waiting, Open
<1>3. /\ TypeOK /\ ListsInv /\ DeadInv /\ NetInv
      /\ Mail(msgQueue, Listed, live, handle)
      /\ Table(handle, own, clients, maxHandle, Listed)
      /\ Count(handle, own, connections, gFileHandles)
  BY DEF SInv, Mails, Tables, Counts
<1>4. c \notin live /\ c \notin Listed /\ Listed' = Listed
  BY <1>2, <1>3 DEF NetInv, ListsInv, Listed, listVars
<1>5. Mails'
  <2>1. Mail(Append(msgQueue, Connected(c)), Listed, live \union {c}, [handle EXCEPT ![c] = h])
    BY <1>3, <1>4, MailConnected
  <2> QED BY <1>1, <1>2, <1>4, <2>1 DEF Mails
<1>6. Tables'
  <2>1. /\ \A d \in Clients : handle[d] # h
        /\ own # h
    BY <1>1 DEF Lowest, FreeFds
  <2>2. Table([handle EXCEPT ![c] = h], own, clients, maxHandle, Listed)
    BY <1>3, <1>4, <2>1, TableAccept
  <2> QED BY <1>1, <1>2, <1>4, <2>2 DEF Tables
<1>7. Counts'
  <2>1. Count([handle EXCEPT ![c] = h], own, connections + 1, gFileHandles + 1)
    BY <1>2, <1>3, CountAccept
  <2> QED BY <1>1, <1>2, <2>1 DEF Counts
<1>8. handle' \in [Clients -> Fds \union {NoFd}] /\ handle'[c] = h /\ h # NoFd
      /\ \A d \in Clients : d # c => handle'[d] = handle[d]
  BY <1>1, <1>3, Fields DEF TypeOK
<1>9. TypeOK'
  BY <1>2, <1>3, <1>5, <1>7, <1>8
     DEF TypeOK, Mails, Mail, Counts, Count, peerVars, listVars
<1>10. ListsInv'
  BY <1>2, <1>3 DEF ListsInv, Listed, Distinct, listVars
<1>11. DeadInv'
  <2>1. ToSet(deadClientList) \subseteq Clients /\ c \notin ToSet(deadClientList)
    BY <1>3, <1>4, Members DEF TypeOK, ListsInv
  <2> QED BY <1>2, <1>3, <1>8, <2>1 DEF DeadInv, peerVars, listVars
<1>12. NetInv'
  <2>1. live \subseteq Clients
    BY <1>3 DEF TypeOK
  <2> QED BY <1>2, <1>3, <1>8, <2>1 DEF NetInv, peerVars
<1> QED BY <1>5, <1>6, <1>7, <1>9, <1>10, <1>11, <1>12 DEF SInv

LEMMA PhaseInv ==
    ASSUME SInv, AcceptNoMore \/ Dispatched \/ LoopDone
    PROVE  SInv'
<1>1. UNCHANGED <<peerVars, objVars, listVars, msgQueue, handleVars>>
  BY DEF AcceptNoMore, Dispatched, LoopDone
<1>2. /\ pc' \in Phases /\ errno' \in {"EAGAIN", "other"}
      /\ turn' \in Seq(Clients) /\ ToSet(turn') \subseteq Listed
      /\ pc' # "send" => turn' = <<>>
      /\ pc' \in {"read", "dispatch2", "poll"} => deadClientList = <<>>
      /\ pc' \in {"dispatch2", "poll"} => incomingClientList = <<>>
  <2>1. TypeOK /\ ListsInv
    BY DEF SInv
  <2>2. CASE AcceptNoMore
    BY <2>1, <2>2 DEF AcceptNoMore, TypeOK, ListsInv, Phases
  <2>3. CASE Dispatched
    BY <2>1, <2>3 DEF Dispatched, TypeOK, ListsInv, Phases, Listed
  <2>4. CASE LoopDone
    BY <2>1, <2>4 DEF LoopDone, TypeOK, ListsInv, Phases
  <2> QED BY <2>2, <2>3, <2>4
<1>3. TypeOK'
  BY <1>1, <1>2 DEF SInv, TypeOK, peerVars, objVars, listVars, handleVars
<1>4. ListsInv'
  BY <1>1, <1>2 DEF SInv, ListsInv, Listed, Distinct, objVars, listVars
<1>5. DeadInv' /\ NetInv'
  BY <1>1 DEF SInv, DeadInv, NetInv, peerVars, objVars, listVars
<1>6. Mails' /\ Tables' /\ Counts'
  BY <1>1, SameLists DEF SInv, objVars, listVars
<1> QED BY <1>3, <1>4, <1>5, <1>6 DEF SInv

-----------------------------------------------------------------------------
(* The messages of the queue. *)

LEMMA HandleConnectedInv ==
    ASSUME SInv, HandleConnected
    PROVE  SInv'
<1> DEFINE c == Head(msgQueue).from
<1>1. /\ pc \in {"dispatch", "dispatch2"} /\ msgQueue # <<>>
      /\ Head(msgQueue).type = "CONNECTED" /\ msgQueue' = Tail(msgQueue)
      /\ clientList' = Append(clientList, c)
      /\ clients' = [clients EXCEPT ![handle[c]] = c]
      /\ maxHandle' = IF handle[c] > maxHandle THEN handle[c] ELSE maxHandle
      /\ Effect(Listed')
      /\ UNCHANGED <<peerVars, loopVars, live, handle, incomingClientList, deadClientList,
                     connections, gFileHandles, own>>
  BY DEF HandleConnected, Dispatching, PollAdd, Listed
<1>2. /\ TypeOK /\ ListsInv /\ DeadInv /\ NetInv
      /\ Mail(msgQueue, Listed, live, handle)
      /\ Table(handle, own, clients, maxHandle, Listed)
      /\ Count(handle, own, connections, gFileHandles)
  BY DEF SInv, Mails, Tables, Counts
<1>3. /\ c \in Clients /\ c \in live /\ c \notin Listed /\ handle[c] # NoFd
      /\ Mail(Tail(msgQueue), Listed \union {c}, live, handle)
  BY <1>1, <1>2, MailNext
<1> HIDE DEF c
<1>4. /\ clientList' \in Seq(Clients) /\ Listed' = Listed \union {c}
      /\ Distinct(clientList')
  <2>1. clientList \in Seq(Clients) /\ Distinct(clientList) /\ c \notin ToSet(clientList)
    BY <1>2, <1>3 DEF TypeOK, ListsInv, Listed
  <2> QED BY <1>1, <1>3, <2>1, AppendOf DEF Listed
<1>5. Mails'
  BY <1>1, <1>3, <1>4 DEF Mails
<1>6. Tables'
  <2>1. Table(handle, own, clients', maxHandle', Listed \union {c})
    BY <1>1, <1>2, <1>3, TableListed
  <2> QED BY <1>1, <1>4, <2>1 DEF Tables
<1>7. Counts'
  BY <1>1, <1>2 DEF Counts
<1>8. /\ isDead' \in [Clients -> BOOLEAN] /\ msgOut' \in [Clients -> 0 .. MaxOut]
      /\ \A d \in Clients : isDead[d] => isDead'[d]
  <2>1. Listed' \in SUBSET Clients
    BY <1>2, <1>3, <1>4 DEF Mail
  <2> QED BY <1>1, <1>2, <2>1, EffectOf
<1>9. TypeOK'
  BY <1>1, <1>2, <1>4, <1>5, <1>6, <1>8
     DEF TypeOK, Mails, Mail, Tables, Table, peerVars, loopVars
<1>10. ListsInv'
  <2>1. Distinct(clientList)' /\ Distinct(incomingClientList)' /\ Distinct(deadClientList)'
    <3>1. Distinct(clientList)'
      BY ONLY <1>4 DEF Distinct
    <3>2. Distinct(incomingClientList)' /\ Distinct(deadClientList)'
      <4>1. incomingClientList' = incomingClientList /\ deadClientList' = deadClientList
        BY <1>1
      <4>2. Distinct(incomingClientList) /\ Distinct(deadClientList)
        BY <1>2 DEF ListsInv
      <4> QED BY ONLY <4>1, <4>2 DEF Distinct
    <3> QED BY <3>1, <3>2
  <2> QED BY <1>1, <1>2, <1>3, <1>4, <2>1 DEF ListsInv, loopVars
<1>11. DeadInv'
  <2>1. ToSet(deadClientList) \subseteq Clients
    BY <1>2, Members DEF TypeOK
  <2> QED BY <1>1, <1>2, <1>8, <2>1 DEF DeadInv, peerVars
<1>12. NetInv'
  BY <1>1, <1>2 DEF NetInv, peerVars
<1> QED BY <1>5, <1>6, <1>7, <1>9, <1>10, <1>11, <1>12 DEF SInv

LEMMA HandleDataInv ==
    ASSUME SInv, HandleData
    PROVE  SInv'
<1>1. /\ pc \in {"dispatch", "dispatch2"} /\ msgQueue # <<>>
      /\ Head(msgQueue).type = "DATA" /\ msgQueue' = Tail(msgQueue)
      /\ Effect(Listed)
      /\ UNCHANGED <<peerVars, loopVars, live, handle, listVars, handleVars>>
  BY DEF HandleData, Dispatching, Listed
<1>2. /\ TypeOK /\ ListsInv /\ DeadInv /\ NetInv
      /\ Mail(msgQueue, Listed, live, handle) /\ Tables /\ Counts
  BY DEF SInv, Mails
<1>3. Mail(Tail(msgQueue), Listed, live, handle)
  BY <1>1, <1>2, MailNext
<1>4. Mails' /\ Tables' /\ Counts'
  BY <1>1, <1>2, <1>3 DEF Mails, Tables, Counts, Listed, listVars, handleVars
<1>5. /\ isDead' \in [Clients -> BOOLEAN] /\ msgOut' \in [Clients -> 0 .. MaxOut]
      /\ \A d \in Clients : isDead[d] => isDead'[d]
  <2>1. Listed \in SUBSET Clients
    BY <1>2 DEF Mail
  <2> QED BY <1>1, <1>2, <2>1, EffectOf
<1>6. TypeOK'
  BY <1>1, <1>2, <1>4, <1>5
     DEF TypeOK, Mails, Mail, peerVars, loopVars, listVars, handleVars
<1>7. ListsInv'
  BY <1>1, <1>2 DEF ListsInv, Listed, Distinct, loopVars, listVars
<1>8. DeadInv'
  <2>1. ToSet(deadClientList) \subseteq Clients
    BY <1>2, Members DEF TypeOK
  <2> QED BY <1>1, <1>2, <1>5, <2>1 DEF DeadInv, peerVars, listVars
<1>9. NetInv'
  BY <1>1, <1>2 DEF NetInv, peerVars
<1> QED BY <1>4, <1>6, <1>7, <1>8, <1>9 DEF SInv

LEMMA HandleHungUpInv ==
    ASSUME SInv, HandleHungUp
    PROVE  SInv'
<1> DEFINE c == Head(msgQueue).from
<1>1. /\ pc \in {"dispatch", "dispatch2"} /\ msgQueue # <<>>
      /\ Head(msgQueue).type = "HUNG_UP" /\ msgQueue' = Tail(msgQueue)
      /\ clientList' = Without(clientList, c)
      /\ incomingClientList' = Without(incomingClientList, c)
      /\ deadClientList' = Without(deadClientList, c)
      /\ live' = live \ {c}
      /\ UNCHANGED <<peerVars, loopVars, handle, handleVars>>
  BY DEF HandleHungUp, Dispatching, Unlist
<1>2. /\ TypeOK /\ ListsInv /\ DeadInv /\ NetInv
      /\ Mail(msgQueue, Listed, live, handle)
      /\ Table(handle, own, clients, maxHandle, Listed) /\ Counts
  BY DEF SInv, Mails, Tables
<1>3. /\ c \in Clients /\ c \in live /\ c \in Listed /\ handle[c] = NoFd
      /\ Mail(Tail(msgQueue), Listed \ {c}, live \ {c}, handle)
  BY <1>1, <1>2, MailNext
<1>4. isDead' = [isDead EXCEPT ![c] = FALSE] /\ msgOut' \in [Clients -> 0 .. MaxOut]
  <2>1. msgOut \in [Clients -> 0 .. MaxOut] /\ MaxOut \in Nat /\ ToSet(clientList) \subseteq Clients
    BY <1>2, ServerConstants, Members DEF TypeOK
  <2>2. [msgOut EXCEPT ![c] = 0] \in [Clients -> 0 .. MaxOut]
    BY <1>3, <2>1
  <2>3. CASE isDead' = [isDead EXCEPT ![c] = FALSE] /\ msgOut' = [msgOut EXCEPT ![c] = 0]
    BY <2>2, <2>3
  <2>4. CASE \E d \in ToSet(clientList) \ {c} :
                /\ msgOut[d] < MaxOut
                /\ msgOut' = [[msgOut EXCEPT ![c] = 0] EXCEPT ![d] = @ + 1]
                /\ isDead' = [isDead EXCEPT ![c] = FALSE]
    BY <1>3, <2>1, <2>2, <2>4
  <2> QED BY <2>3, <2>4 DEF HandleHungUp
<1> HIDE DEF c
<1>5. /\ clientList' \in Seq(Clients) /\ Distinct(clientList')
      /\ ToSet(clientList') = ToSet(clientList) \ {c}
      /\ incomingClientList' \in Seq(Clients) /\ Distinct(incomingClientList')
      /\ ToSet(incomingClientList') = ToSet(incomingClientList) \ {c}
      /\ deadClientList' \in Seq(Clients) /\ Distinct(deadClientList')
      /\ ToSet(deadClientList') = ToSet(deadClientList) \ {c}
  <2>1. /\ clientList \in Seq(Clients) /\ Distinct(clientList)
        /\ incomingClientList \in Seq(Clients) /\ Distinct(incomingClientList)
        /\ deadClientList \in Seq(Clients) /\ Distinct(deadClientList)
    BY <1>2 DEF TypeOK, ListsInv
  <2> QED BY <1>1, <2>1, WithoutOf
<1>6. Listed' = Listed \ {c}
  BY <1>5 DEF Listed
<1>7. Mails'
  BY <1>1, <1>3, <1>6 DEF Mails
<1>8. Tables'
  <2>1. Table(handle, own, clients, maxHandle, Listed \ {c})
    BY <1>2, <1>3, TableUnlisted
  <2> QED BY <1>1, <1>6, <2>1 DEF Tables, handleVars
<1>9. Counts'
  BY <1>1, <1>2 DEF Counts, handleVars
<1>10. isDead' \in [Clients -> BOOLEAN] /\ \A d \in Clients : d # c => isDead'[d] = isDead[d]
  BY <1>2, <1>3, <1>4 DEF TypeOK
<1>11. TypeOK'
  BY <1>1, <1>2, <1>4, <1>5, <1>7, <1>10
     DEF TypeOK, Mails, Mail, peerVars, loopVars, handleVars
<1>12. ListsInv'
  <2>1. Distinct(clientList)' /\ Distinct(incomingClientList)' /\ Distinct(deadClientList)'
    BY <1>5 DEF Distinct
  <2>2. ASSUME NEW s, s = <<>> PROVE Without(s, c) = <<>>
    BY <2>2, EmptySeq DEF Without, ToSet
  <2>3. turn' = <<>> /\ ToSet(<<>>) = {} /\ pc' = pc
    BY <1>1, <1>2 DEF ListsInv, loopVars, ToSet
  <2>4. /\ pc' \in {"read", "dispatch2", "poll"} => deadClientList' = <<>>
        /\ pc' \in {"dispatch2", "poll"} => incomingClientList' = <<>>
    BY <1>1, <1>2, <2>2, <2>3 DEF ListsInv
  <2>5. /\ Listed' \subseteq live' /\ ToSet(incomingClientList') \subseteq Listed'
        /\ ToSet(deadClientList') \subseteq Listed' /\ ToSet(turn') \subseteq Listed'
    BY <1>1, <1>2, <1>5, <1>6, <2>3 DEF ListsInv
  <2> QED BY <2>1, <2>3, <2>4, <2>5 DEF ListsInv
<1>13. DeadInv'
  <2>1. ToSet(deadClientList) \subseteq Clients
    BY <1>2, Members DEF TypeOK
  <2> QED BY <1>1, <1>2, <1>5, <1>10, <2>1 DEF DeadInv, peerVars
<1>14. NetInv'
  BY <1>1, <1>2 DEF NetInv, peerVars
<1> QED BY <1>7, <1>8, <1>9, <1>11, <1>12, <1>13, <1>14 DEF SInv

-----------------------------------------------------------------------------
(* The loops that close clients. *)

\* d is what c said before it was closed
Says(c, d) ==
    d \in Seq(Message) /\ \A i \in 1 .. Len(d) : d[i].type = "DATA" /\ d[i].from = c

LEMMA DropOf ==
    ASSUME Mails, Tables, Counts, NetInv, TypeOK, DeadInv,
           NEW c \in Listed, handle[c] # NoFd, NEW d, Says(c, d), Drop(c, Farewell(c, d)),
           UNCHANGED <<clientList, live, isDead>>,
           ToSet(deadClientList') \subseteq ToSet(deadClientList)
    PROVE  /\ Mails' /\ Tables' /\ Counts' /\ NetInv' /\ DeadInv'
           /\ net' \in [Clients -> Nets] /\ inbox' \in [Clients -> Seq(Msgs \union Bads)]
<1>1. /\ connections' = connections - 1 /\ gFileHandles' = gFileHandles - 1
      /\ msgQueue' = msgQueue \o (d \o <<HungUp(c)>>)
      /\ clients' = [clients EXCEPT ![handle[c]] = NoClient]
      /\ maxHandle' = IF handle[c] = maxHandle /\ maxHandle > 0 THEN maxHandle - 1 ELSE maxHandle
      /\ handle' = [handle EXCEPT ![c] = NoFd]
      /\ net' = [net EXCEPT ![c] = "off"] /\ inbox' = [inbox EXCEPT ![c] = <<>>]
      /\ own' = own
  BY DEF Drop, Farewell, PollDel, LowerMax
<1>2. /\ Mail(msgQueue, Listed, live, handle) /\ msgQueue \in Seq(Message)
      /\ Table(handle, own, clients, maxHandle, Listed)
      /\ Count(handle, own, connections, gFileHandles)
      /\ c \in Clients /\ Listed' = Listed
  BY DEF Mails, Tables, Counts, Table, Mail, Listed
<1>3. /\ handle' \in [Clients -> Fds \union {NoFd}] /\ handle'[c] = NoFd
      /\ \A e \in Clients : e # c => handle'[e] = handle[e] /\ net'[e] = net[e]
      /\ net' \in [Clients -> Nets] /\ net'[c] = "off"
  BY <1>1, <1>2 DEF TypeOK, Nets
<1>4. inbox' \in [Clients -> Seq(Msgs \union Bads)]
  <2>1. <<>> \in Seq(Msgs \union Bads)
    BY EmptySeq
  <2> QED BY <1>1, <1>2, <2>1 DEF TypeOK
<1>5. Mails'
  <2>1. d \in Seq(Message) /\ HungUp(c) \in Message
    BY <1>2, Fields DEF Says
  <2>2. <<HungUp(c)>> \in Seq(Message) /\ msgQueue \o d \in Seq(Message)
    BY <1>2, <2>1, ConcatOf
  <2>3. msgQueue \o (d \o <<HungUp(c)>>) = (msgQueue \o d) \o <<HungUp(c)>>
    BY ONLY <1>2, <2>1, <2>2, ConcatAssociative
  <2>4. (msgQueue \o d) \o <<HungUp(c)>> = Append(msgQueue \o d, HungUp(c))
    BY ONLY <2>1, <2>2, AppendIsConcat
  <2>5. Mail(msgQueue \o d, Listed, live, handle)
    BY <1>2, MailData DEF Says
  <2>6. Mail(Append(msgQueue \o d, HungUp(c)), Listed, live, [handle EXCEPT ![c] = NoFd])
    BY <2>5, MailHungUp
  <2>7. /\ msgQueue' = Append(msgQueue \o d, HungUp(c)) /\ live' = live
        /\ handle' = [handle EXCEPT ![c] = NoFd] /\ Listed' = Listed
    BY <1>1, <1>2, <2>3, <2>4
  <2> QED BY ONLY <2>6, <2>7 DEF Mails
<1>6. Tables'
  <2>1. Table(handle', own, clients', maxHandle', Listed)
    BY <1>1, <1>2, TableDrop
  <2> QED BY <1>1, <1>2, <2>1 DEF Tables
<1>7. Counts'
  <2>1. Count(handle', own, connections', gFileHandles')
    BY <1>1, <1>2, CountDrop
  <2> QED BY <1>1, <2>1 DEF Counts
<1>8. NetInv'
  <2>1. live \subseteq Clients
    BY DEF TypeOK
  <2> QED BY <1>2, <1>3, <2>1 DEF NetInv
<1>9. DeadInv'
  <2>1. ToSet(deadClientList) \subseteq Clients
    BY Members DEF TypeOK
  <2> QED BY <1>3, <2>1 DEF DeadInv
<1> QED BY <1>3, <1>4, <1>5, <1>6, <1>7, <1>8, <1>9

LEMMA SaysNothing == \A c \in Clients : Says(c, <<>>)
<1>1. <<>> \in Seq(Message) /\ Len(<<>>) = 0
  BY EmptySeq
<1> QED BY <1>1 DEF Says

LEMMA SendToInv ==
    ASSUME SInv, SendTo
    PROVE  SInv'
<1> DEFINE c == Head(turn)
<1>1. /\ pc = "send" /\ turn # <<>> /\ turn' = Tail(turn)
      /\ UNCHANGED <<pc, live, isDead, listVars>>
  BY DEF SendTo
<1>2. TypeOK /\ ListsInv /\ DeadInv /\ NetInv /\ Mails /\ Tables /\ Counts
  BY DEF SInv
<1>3. /\ turn' \in Seq(Clients) /\ ToSet(turn') \subseteq Listed /\ c \in Listed /\ c \in Clients
  <2>1. turn \in Seq(Clients) /\ ToSet(turn) \subseteq Listed
    BY <1>2 DEF TypeOK, ListsInv
  <2>2. /\ Tail(turn) \in Seq(Clients) /\ Head(turn) \in Clients
        /\ Head(turn) \in ToSet(turn) /\ ToSet(Tail(turn)) \subseteq ToSet(turn)
    BY <1>1, <2>1, TailOf
  <2> QED BY <1>1, <2>1, <2>2
<1> HIDE DEF c
<1>4. /\ Mails' /\ Tables' /\ Counts' /\ NetInv' /\ DeadInv'
      /\ net' \in [Clients -> Nets] /\ inbox' \in [Clients -> Seq(Msgs \union Bads)]
      /\ msgOut' \in [Clients -> 0 .. MaxOut] /\ errno' \in {"EAGAIN", "other"}
  <2>1. msgOut \in [Clients -> 0 .. MaxOut] /\ MaxOut \in Nat /\ errno \in {"EAGAIN", "other"}
        /\ net \in [Clients -> Nets] /\ inbox \in [Clients -> Seq(Msgs \union Bads)]
    BY <1>2, ServerConstants DEF TypeOK
  <2>2. CASE UNCHANGED <<peerVars, handle, msgQueue, handleVars>>
             /\ \/ msgOut' = IF IsOpen(c) THEN [msgOut EXCEPT ![c] = 0] ELSE msgOut
                \/ \E n \in 1 .. msgOut[c] : msgOut' = [msgOut EXCEPT ![c] = n]
             /\ errno' \in {errno, "EAGAIN"}
    <3>1. Mails' /\ Tables' /\ Counts'
      BY <1>1, <1>2, <2>2, SameLists DEF listVars
    <3>2. NetInv' /\ DeadInv'
      BY <1>1, <1>2, <2>2 DEF NetInv, DeadInv, peerVars, listVars
    <3>3. msgOut' \in [Clients -> 0 .. MaxOut]
      <4>1. \A n \in 1 .. msgOut[c] : n \in 0 .. MaxOut
        BY <1>3, <2>1
      <4>2. \A n \in 0 .. MaxOut : [msgOut EXCEPT ![c] = n] \in [Clients -> 0 .. MaxOut]
        BY <1>3, <2>1
      <4> QED BY <2>1, <2>2, <4>1, <4>2
    <3> QED BY <2>1, <2>2, <3>1, <3>2, <3>3 DEF peerVars
  <2>3. CASE /\ IsOpen(c) /\ Drop(c, Farewell(c, <<>>))
             /\ msgOut' = [msgOut EXCEPT ![c] = 0] /\ errno' = "other"
    <3>1. Says(c, <<>>) /\ handle[c] # NoFd
      BY <1>3, <2>3, SaysNothing DEF IsOpen
    <3>2. /\ Mails' /\ Tables' /\ Counts' /\ NetInv' /\ DeadInv'
          /\ net' \in [Clients -> Nets] /\ inbox' \in [Clients -> Seq(Msgs \union Bads)]
      BY <1>1, <1>2, <1>3, <2>3, <3>1, DropOf DEF listVars
    <3>3. msgOut' \in [Clients -> 0 .. MaxOut]
      BY <1>3, <2>1, <2>3
    <3> QED BY <2>3, <3>2, <3>3
  <2>4. CASE UNCHANGED <<errno, peerVars, handle, msgQueue, handleVars>>
             /\ msgOut' = IF IsOpen(c) THEN [msgOut EXCEPT ![c] = 0] ELSE msgOut
    BY <2>2, <2>4
  <2> QED BY <2>2, <2>3, <2>4 DEF SendTo, c
<1>5. TypeOK'
  BY <1>1, <1>2, <1>3, <1>4
     DEF TypeOK, Mails, Mail, Tables, Table, Counts, Count, listVars
<1>6. ListsInv'
  BY <1>1, <1>2, <1>3 DEF ListsInv, Listed, Distinct, listVars
<1> QED BY <1>4, <1>5, <1>6 DEF SInv

LEMMA CloseDeadInv ==
    ASSUME SInv, CloseDead
    PROVE  SInv'
<1> DEFINE c == Head(deadClientList)
<1>1. /\ pc = "dead" /\ deadClientList # <<>> /\ deadClientList' = Tail(deadClientList)
      /\ UNCHANGED <<loopVars, live, isDead, msgOut, clientList, incomingClientList>>
  BY DEF CloseDead
<1>2. TypeOK /\ ListsInv /\ DeadInv /\ NetInv /\ Mails /\ Tables /\ Counts
  BY DEF SInv
<1>3. /\ deadClientList' \in Seq(Clients) /\ Distinct(deadClientList')
      /\ ToSet(deadClientList') \subseteq ToSet(deadClientList)
      /\ c \in Listed /\ c \in Clients
  <2>1. deadClientList \in Seq(Clients) /\ Distinct(deadClientList)
        /\ ToSet(deadClientList) \subseteq Listed
    BY <1>2 DEF TypeOK, ListsInv
  <2> QED BY <1>1, <2>1, TailOf
<1> HIDE DEF c
<1>4. /\ Mails' /\ Tables' /\ Counts' /\ NetInv' /\ DeadInv'
      /\ net' \in [Clients -> Nets] /\ inbox' \in [Clients -> Seq(Msgs \union Bads)]
  <2>1. CASE UNCHANGED <<peerVars, handle, msgQueue, handleVars>>
    <3>1. Mails' /\ Tables' /\ Counts'
      BY <1>1, <1>2, <2>1, SameLists
    <3>2. NetInv' /\ DeadInv'
      BY <1>1, <1>2, <1>3, <2>1 DEF NetInv, DeadInv, peerVars
    <3> QED BY <1>2, <2>1, <3>1, <3>2 DEF TypeOK, peerVars
  <2>2. CASE IsOpen(c) /\ Drop(c, Farewell(c, <<>>))
    <3>1. Says(c, <<>>) /\ handle[c] # NoFd
      BY <1>3, <2>2, SaysNothing DEF IsOpen
    <3> QED BY <1>1, <1>2, <1>3, <2>2, <3>1, DropOf
  <2> QED BY <2>1, <2>2 DEF CloseDead, c
<1>5. TypeOK'
  BY <1>1, <1>2, <1>3, <1>4
     DEF TypeOK, Mails, Mail, Tables, Table, Counts, Count, loopVars
<1>6. ListsInv'
  <2>1. Distinct(deadClientList)'
    BY <1>3 DEF Distinct
  <2> QED BY <1>1, <1>2, <1>3, <2>1 DEF ListsInv, Listed, Distinct, loopVars
<1> QED BY <1>4, <1>5, <1>6 DEF SInv

LEMMA DataSays ==
    ASSUME NEW c \in Clients, NEW ms \in Seq(Msgs \union Bads)
    PROVE  Says(c, Data(c, ms))
BY DataOf DEF Says

LEMMA SaysMore ==
    ASSUME NEW c, NEW d, NEW e, Says(c, d), Says(c, e)
    PROVE  Says(c, d \o e)
<1>1. /\ d \in Seq(Message) /\ e \in Seq(Message)
      /\ \A i \in 1 .. Len(d) : d[i].type = "DATA" /\ d[i].from = c
      /\ \A i \in 1 .. Len(e) : e[i].type = "DATA" /\ e[i].from = c
  BY DEF Says
<1> DEFINE n == d \o e
<1>2. /\ n \in Seq(Message) /\ Len(n) = Len(d) + Len(e) /\ Len(d) \in Nat /\ Len(e) \in Nat
      /\ \A i \in 1 .. Len(d) : n[i] = d[i]
      /\ \A i \in 1 .. Len(e) : n[Len(d) + i] = e[i]
  BY ONLY <1>1, ConcatOf DEF n
<1> HIDE DEF n
<1>3. ASSUME NEW i \in 1 .. Len(n)
      PROVE  n[i].type = "DATA" /\ n[i].from = c
  <2>1. CASE i \in 1 .. Len(d)
    BY <1>1, <1>2, <2>1
  <2>2. CASE i \notin 1 .. Len(d)
    <3>1. i - Len(d) \in 1 .. Len(e) /\ Len(d) + (i - Len(d)) = i
      BY <1>2, <2>2
    <3>2. n[i] = e[i - Len(d)]
      BY <1>2, <3>1
    <3> QED BY <1>1, <3>1, <3>2
  <2> QED BY <2>1, <2>2
<1> QED BY <1>2, <1>3 DEF Says, n

\* what was read of c, up to an illegal message
LEMMA ReadOf ==
    ASSUME TypeOK, NEW c \in Clients, NEW n \in 0 .. Len(inbox[c])
    PROVE  /\ Says(c, Data(c, SubSeq(inbox[c], 1, n)))
           /\ n < Len(inbox[c]) =>
                 Says(c, Data(c, SubSeq(inbox[c], 1, n)) \o Data(c, <<inbox[c][n + 1]>>))
<1> DEFINE s == inbox[c]
<1>1. s \in Seq(Msgs \union Bads)
  BY DEF TypeOK
<1> HIDE DEF s
<1>2. Len(s) \in Nat /\ \A i \in 1 .. Len(s) : s[i] \in Msgs \union Bads
  BY <1>1, Members
<1>3. 1 \in Int /\ n \in Int /\ \A i \in 1 .. n : s[i] \in Msgs \union Bads
  BY <1>2 DEF s
<1>4. SubSeq(s, 1, n) \in Seq(Msgs \union Bads)
  BY ONLY <1>3, SubSeqProperties
<1>5. Says(c, Data(c, SubSeq(s, 1, n)))
  BY <1>4, DataSays
<1>6. ASSUME n < Len(s)
      PROVE  Says(c, Data(c, SubSeq(s, 1, n)) \o Data(c, <<s[n + 1]>>))
  <2>1. s[n + 1] \in Msgs \union Bads
    BY <1>2, <1>3, <1>6
  <2>2. <<s[n + 1]>> \in Seq(Msgs \union Bads)
    BY <2>1
  <2>3. Says(c, Data(c, <<s[n + 1]>>))
    BY <2>2, DataSays
  <2> QED BY <1>5, <2>3, SaysMore
<1> QED BY <1>5, <1>6 DEF s

LEMMA ReadFromInv ==
    ASSUME SInv, ReadFrom
    PROVE  SInv'
<1> DEFINE c == Head(incomingClientList)
<1>1. /\ pc = "read" /\ incomingClientList # <<>>
      /\ incomingClientList' = Tail(incomingClientList)
      /\ UNCHANGED <<pc, turn, live, isDead, msgOut, clientList, deadClientList>>
  BY DEF ReadFrom
<1>2. TypeOK /\ ListsInv /\ DeadInv /\ NetInv /\ Mails /\ Tables /\ Counts
  BY DEF SInv
<1>3. /\ incomingClientList' \in Seq(Clients) /\ Distinct(incomingClientList')
      /\ ToSet(incomingClientList') \subseteq ToSet(incomingClientList)
      /\ c \in Listed /\ c \in Clients
  <2>1. incomingClientList \in Seq(Clients) /\ Distinct(incomingClientList)
        /\ ToSet(incomingClientList) \subseteq Listed
    BY <1>2 DEF TypeOK, ListsInv
  <2> QED BY <1>1, <2>1, TailOf
<1> HIDE DEF c
<1>4. /\ Mails' /\ Tables' /\ Counts' /\ NetInv' /\ DeadInv'
      /\ net' \in [Clients -> Nets] /\ inbox' \in [Clients -> Seq(Msgs \union Bads)]
      /\ errno' \in {"EAGAIN", "other"}
  <2>1. CASE UNCHANGED <<errno, peerVars, handle, msgQueue, handleVars>>
    <3>1. Mails' /\ Tables' /\ Counts'
      BY <1>1, <1>2, <2>1, SameLists
    <3>2. NetInv' /\ DeadInv'
      BY <1>1, <1>2, <2>1 DEF NetInv, DeadInv, peerVars
    <3> QED BY <1>2, <2>1, <3>1, <3>2 DEF TypeOK, peerVars
  <2>2. ASSUME IsOpen(c), NEW n \in 0 .. Len(inbox[c]), Read(c, n)
        PROVE  /\ Mails' /\ Tables' /\ Counts' /\ NetInv' /\ DeadInv'
               /\ net' \in [Clients -> Nets] /\ inbox' \in [Clients -> Seq(Msgs \union Bads)]
               /\ errno' \in {"EAGAIN", "other"}
    <3> DEFINE read == Data(c, SubSeq(inbox[c], 1, n))
               worse == read \o Data(c, <<inbox[c][n + 1]>>)
    <3>1. /\ Says(c, read) /\ (n < Len(inbox[c]) => Says(c, worse))
          /\ handle[c] # NoFd /\ errno \in {"EAGAIN", "other"}
      BY <1>2, <1>3, <2>2, ReadOf DEF IsOpen, TypeOK
    <3>2. \/ n < Len(inbox[c]) /\ Drop(c, Farewell(c, worse)) /\ UNCHANGED errno
          \/ Drop(c, Farewell(c, read)) /\ errno' = (IF net[c] = "reset" THEN "other" ELSE errno)
          \/ /\ msgQueue' = msgQueue \o read /\ inbox' = [inbox EXCEPT ![c] = <<>>]
             /\ errno' \in IF net[c] = "open" THEN {errno, "EAGAIN"} ELSE {errno}
             /\ UNCHANGED <<net, handle, handleVars>>
      BY <2>2 DEF Read
    <3> HIDE DEF read, worse
    <3>3. ToSet(deadClientList') \subseteq ToSet(deadClientList)
      BY <1>1
    <3>4. CASE n < Len(inbox[c]) /\ Drop(c, Farewell(c, worse)) /\ UNCHANGED errno
      BY <1>1, <1>2, <1>3, <3>1, <3>3, <3>4, DropOf
    <3>5. CASE Drop(c, Farewell(c, read)) /\ errno' = (IF net[c] = "reset" THEN "other" ELSE errno)
      BY <1>1, <1>2, <1>3, <3>1, <3>3, <3>5, DropOf
    <3>6. CASE /\ msgQueue' = msgQueue \o read /\ inbox' = [inbox EXCEPT ![c] = <<>>]
               /\ errno' \in IF net[c] = "open" THEN {errno, "EAGAIN"} ELSE {errno}
               /\ UNCHANGED <<net, handle, handleVars>>
      <4>1. Mail(msgQueue \o read, Listed, live, handle)
        BY <1>2, <1>3, <3>1, MailData DEF Mails, Says
      <4>2. Mails'
        BY <1>1, <3>6, <4>1 DEF Mails, Listed
      <4>3. Tables' /\ Counts'
        BY <1>1, <1>2, <3>6 DEF Tables, Counts, Listed, handleVars
      <4>4. NetInv' /\ DeadInv'
        BY <1>1, <1>2, <3>6 DEF NetInv, DeadInv
      <4>5. net' \in [Clients -> Nets] /\ inbox' \in [Clients -> Seq(Msgs \union Bads)]
        <5>1. <<>> \in Seq(Msgs \union Bads)
          BY EmptySeq
        <5> QED BY <1>2, <1>3, <3>6, <5>1 DEF TypeOK
      <4> QED BY <3>1, <3>6, <4>2, <4>3, <4>4, <4>5
    <3> QED BY <3>2, <3>4, <3>5, <3>6
  <2> QED BY <2>1, <2>2 DEF ReadFrom, c
<1>5. TypeOK'
  BY <1>1, <1>2, <1>3, <1>4
     DEF TypeOK, Mails, Mail, Tables, Table, Counts, Count
<1>6. ListsInv'
  <2>1. Distinct(incomingClientList)'
    BY <1>3 DEF Distinct
  <2> QED BY <1>1, <1>2, <1>3, <2>1 DEF ListsInv, Listed, Distinct
<1> QED BY <1>4, <1>5, <1>6 DEF SInv

-----------------------------------------------------------------------------
(* Theorems. *)

LEMMA SInvNext == SInv /\ [Next]_vars => SInv'
<1> SUFFICES ASSUME SInv, [Next]_vars PROVE SInv'
  OBVIOUS
<1>1. CASE Peers
  BY <1>1, PeersInv
<1>2. CASE App \/ OwnConnects \/ OwnCloses \/ Poll
  BY <1>2, AppInv, OwnConnectsInv, OwnClosesInv, PollInv
<1>3. CASE \E c \in Clients : Accept(c)
  BY <1>3, AcceptInv
<1>4. CASE AcceptNoMore \/ Dispatched \/ LoopDone
  BY <1>4, PhaseInv
<1>5. CASE HandleConnected \/ HandleData \/ HandleHungUp
  BY <1>5, HandleConnectedInv, HandleDataInv, HandleHungUpInv
<1>6. CASE SendTo \/ CloseDead \/ ReadFrom
  BY <1>6, SendToInv, CloseDeadInv, ReadFromInv
<1>7. CASE UNCHANGED vars
  <2>1. UNCHANGED <<peerVars, loopVars, objVars, listVars, msgQueue, handleVars>>
    BY <1>7 DEF vars
  <2>2. Mails' /\ Tables' /\ Counts'
    BY <2>1, SameLists DEF SInv, objVars, listVars
  <2>3. TypeOK'
    BY <2>1 DEF SInv, TypeOK, peerVars, loopVars, objVars, listVars, handleVars
  <2>4. ListsInv'
    BY <2>1 DEF SInv, ListsInv, Listed, Distinct, loopVars, objVars, listVars
  <2>5. DeadInv' /\ NetInv'
    BY <2>1 DEF SInv, DeadInv, NetInv, peerVars, objVars, listVars
  <2> QED BY <2>2, <2>3, <2>4, <2>5 DEF SInv
<1> QED BY <1>1, <1>2, <1>3, <1>4, <1>5, <1>6, <1>7 DEF Next, Server

(* The inductive invariant: it ties the lists, the queue of messages, the   *)
(* poll table and the counters of IPCServer::doit to each other.           *)
THEOREM SInvHolds == Spec => []SInv
BY SInvInit, SInvNext, PTL DEF Spec

LEMMA NoDanglingIs == SInv => NoDangling
<1> SUFFICES ASSUME SInv PROVE NoDangling
  OBVIOUS
<1>1. TypeOK /\ ListsInv /\ Listed \subseteq live /\ live \subseteq Clients
  BY DEF SInv, ListsInv, TypeOK
<1>2. QueueGood(msgQueue, Listed, live, handle)
      /\ TableGood(handle, own, clients, maxHandle, Listed)
  BY DEF SInv, Mails, Mail, Tables, Table
<1>3. \A i \in 1 .. Len(msgQueue) : msgQueue[i].from \in live
  BY <1>1, <1>2 DEF QueueGood
<1>4. \A h \in Fds : clients[h] \in live \union {NoClient, Own}
  BY <1>1, <1>2 DEF TypeOK, TableGood
<1> QED BY <1>1, <1>3, <1>4 DEF NoDangling, ListsInv, Listed

LEMMA EveryClientListedIs == SInv => EveryClientListed
<1> SUFFICES ASSUME SInv, NEW c \in live
             PROVE  \E here \in Listings(c) : Listings(c) = {here}
  BY DEF EveryClientListed
<1> DEFINE inList == {j \in 1 .. Len(clientList) : clientList[j] = c}
           inQueue == {j \in 1 .. Len(msgQueue) : msgQueue[j] = Connected(c)}
<1>1. /\ c \in Clients /\ Distinct(clientList)
      /\ QueueGood(msgQueue, Listed, live, handle)
      /\ c \in Listed \/ inQueue # {}
  <2>1. /\ c \in Clients /\ Distinct(clientList)
        /\ QueueGood(msgQueue, Listed, live, handle) /\ LiveGood(msgQueue, Listed, live, handle)
    BY DEF SInv, TypeOK, ListsInv, Mails, Mail
  <2>2. CASE c \in Listed
    BY <2>1, <2>2
  <2>3. CASE c \notin Listed
    <3>1. PICK i \in 1 .. Len(msgQueue) : msgQueue[i] = Connected(c)
      BY <2>1, <2>3 DEF LiveGood
    <3>2. i \in inQueue
      BY <3>1
    <3> HIDE DEF inQueue
    <3> QED BY <2>1, <3>2
  <2> QED BY <2>2, <2>3
<1>2. c \in Listed <=> inList # {}
  <2>1. clientList \in Seq(Clients)
    BY DEF SInv, TypeOK
  <2>2. c \in ToSet(clientList) <=> \E i \in 1 .. Len(clientList) : clientList[i] = c
    BY ONLY <2>1, Members
  <2> QED BY <2>2 DEF Listed
<1>3. \A i, j \in inList : i = j
  BY <1>1 DEF Distinct
<1>4. \A i \in inQueue : msgQueue[i].type = "CONNECTED" /\ msgQueue[i].from = c
                         /\ i \in 1 .. Len(msgQueue)
  BY <1>1, Fields
<1>5. /\ inQueue # {} => c \notin Listed
      /\ \A i, j \in inQueue : i = j
  BY <1>1, <1>4 DEF QueueGood
<1>6. Listings(c) = {<<"list", i>> : i \in inList} \union {<<"queue", i>> : i \in inQueue}
  BY DEF Listings
<1> HIDE DEF inList, inQueue
<1>7. CASE c \in Listed
  <2>1. PICK i \in inList : TRUE
    BY <1>2, <1>7
  <2>2. inList = {i} /\ inQueue = {}
    BY <1>3, <1>5, <1>7, <2>1
  <2>3. Listings(c) = {<<"list", i>>}
    BY <1>6, <2>2
  <2> QED BY <2>3
<1>8. CASE c \notin Listed
  <2>1. PICK i \in inQueue : TRUE
    BY <1>1, <1>8
  <2>2. inQueue = {i} /\ inList = {}
    BY <1>2, <1>5, <1>8, <2>1
  <2>3. Listings(c) = {<<"queue", i>>}
    BY <1>6, <2>2
  <2> QED BY <2>3
<1> QED BY <1>7, <1>8

(* ClientsListed, for any clients and handles: no list, queue or table      *)
(* entry leads to a deleted IPCClient, and each client is listed once.     *)
THEOREM ClientsListedHolds == Spec => []ClientsListed
<1>1. SInv => ClientsListed
  BY NoDanglingIs, EveryClientListedIs DEF SInv, ClientsListed
<1> QED BY <1>1, SInvHolds, PTL

LEMMA HandlesExactIs == SInv => HandlesExact
<1> SUFFICES ASSUME SInv PROVE HandlesExact
  OBVIOUS
<1>1. /\ clients \in [Fds -> Clients \union {NoClient, Own}] /\ Others
      /\ TableGood(handle, own, clients, maxHandle, Listed)
      /\ CountGood(handle, own, connections, gFileHandles)
  BY OthersHold DEF SInv, Tables, Table, Counts, Count
<1>2. PollTableExact
  <2>1. \A c \in Listed : handle[c] # NoFd => clients[handle[c]] = c /\ handle[c] <= maxHandle
    BY <1>1 DEF TableGood
  <2>2. own # NoFd => clients[own] = Own /\ own <= maxHandle
    BY <1>1 DEF TableGood
  <2>3. \A h \in Fds : clients[h] # NoClient =>
           h = IF clients[h] = Own THEN own ELSE handle[clients[h]]
    BY <1>1 DEF TableGood
  <2> QED BY <2>1, <2>2, <2>3 DEF PollTableExact, Listed
<1>3. HandlesCounted
  <2>1. Used(handle) = Open
    BY DEF Used, Open
  <2>2. /\ gFileHandles = 1 + Cardinality(Used(handle)) + (IF own = NoFd THEN 0 ELSE 1)
        /\ connections = Cardinality(Used(handle))
        /\ Used(handle) # {} => 1 + connections <= gMaxConnectCount
    BY ONLY <1>1, CountIs
  <2> QED BY ONLY <2>1, <2>2 DEF HandlesCounted
<1> QED BY <1>2, <1>3 DEF HandlesExact

(* HandlesExact, for any handles and any limit: what the poll manager       *)
(* watches and what gFileHandles and connections count are the handles     *)
(* that are open, and clients never pass gMaxConnectCount.                 *)
THEOREM HandlesExactHolds == Spec => []HandlesExact
BY HandlesExactIs, SInvHolds, PTL

LEMMA CauseNext ==
    ASSUME SInv, Next, NEW c \in Clients, handle[c] # NoFd, handle'[c] = NoFd
    PROVE  net[c] \in {"eof", "reset"} \/ isDead[c] \/ ToSet(inbox[c]) \intersect Bads # {}
<1>1. TypeOK /\ DeadInv /\ handle \in [Clients -> Fds \union {NoFd}]
  BY DEF SInv, TypeOK
<1>2. ASSUME NEW d, NEW ms, Drop(d, ms) PROVE d = c
  BY <1>1, <1>2 DEF Drop
<1>3. SendTo \/ CloseDead \/ ReadFrom
  <2>1. handle' # handle
    OBVIOUS
  <2>2. ~UNCHANGED <<objVars, handleVars>> /\ ~UNCHANGED objVars
    BY <2>1 DEF objVars
  <2>3. ~Peers
    BY <2>1 DEF Peers, Dial, PeerSends, PeerCloses, PeerResets, objVars
  <2>4. ~App /\ ~OwnConnects /\ ~OwnCloses /\ ~Poll
    BY <2>1 DEF App, OwnConnects, OwnCloses, Poll, objVars
  <2>5. ASSUME NEW d \in Clients PROVE ~Accept(d)
    BY <1>1, Fields DEF Accept
  <2>6. ~AcceptNoMore /\ ~Dispatched /\ ~LoopDone
    BY <2>1 DEF AcceptNoMore, Dispatched, LoopDone, objVars
  <2>7. ~HandleConnected /\ ~HandleData /\ ~HandleHungUp
    BY <2>1 DEF HandleConnected, HandleData, HandleHungUp
  <2> QED BY <2>3, <2>4, <2>5, <2>6, <2>7 DEF Next, Server
<1>4. CASE SendTo
  BY <1>2, <1>4 DEF SendTo
<1>5. CASE CloseDead
  <2>1. Head(deadClientList) = c /\ deadClientList # <<>>
    BY <1>2, <1>5 DEF CloseDead
  <2>2. c \in ToSet(deadClientList)
    BY <1>1, <2>1, TailOf DEF TypeOK
  <2> QED BY <1>1, <2>2 DEF DeadInv
<1>6. CASE ReadFrom
  <2> DEFINE d == Head(incomingClientList)
  <2>1. PICK n \in 0 .. Len(inbox[d]) : ReadUpTo(d, n) /\ Read(d, n)
    BY <1>6 DEF ReadFrom
  <2> HIDE DEF d
  <2>2. \/ n < Len(inbox[d]) /\ \E ms : Drop(d, ms)
        \/ Unreadable(d) /\ \E ms : Drop(d, ms)
    BY <2>1 DEF Read
  <2>3. d = c
    BY <1>2, <2>2
  <2>4. CASE n < Len(inbox[d])
    <3>1. inbox[d] \in Seq(Msgs \union Bads)
      BY <1>1, <2>3 DEF TypeOK
    <3>2. n + 1 \in 1 .. Len(inbox[d])
      BY <2>4, <3>1, LenProperties
    <3>3. inbox[d][n + 1] \in Bads /\ inbox[d][n + 1] \in ToSet(inbox[d])
      BY <2>1, <2>4, <3>1, <3>2, Members DEF ReadUpTo
    <3> QED BY <2>3, <3>3
  <2>5. CASE Unreadable(d)
    BY <2>3, <2>5 DEF Unreadable
  <2> QED BY <2>2, <2>4, <2>5
<1> QED BY <1>3, <1>4, <1>5, <1>6

(* HungUpHasCause: whatever the other clients do, doit closes a client only *)
(* when its peer is gone, it was marked dead, or it sent an illegal message.*)
THEOREM HungUpHasCauseHolds == Spec => HungUpHasCause
<1>1. SInv /\ [Next]_vars =>
         [\A c \in Clients : handle[c] # NoFd /\ handle'[c] = NoFd =>
            net[c] \in {"eof", "reset"} \/ isDead[c] \/ ToSet(inbox[c]) \intersect Bads # {}]_vars
  BY CauseNext
<1> QED BY <1>1, SInvHolds, PTL DEF Spec, HungUpHasCause

-----------------------------------------------------------------------------
(* What a client has said, of the messages that wait. *)

\* induction over sequences, for a set of them
LEMMA SeqInd ==
    ASSUME NEW S, NEW T, <<>> \in T,
           \A s \in Seq(S) : \A e \in S : s \in T => Append(s, e) \in T
    PROVE  \A s \in Seq(S) : s \in T
<1> DEFINE L == {n \in Nat : \A s \in Seq(S) : Len(s) = n => s \in T}
<1>1. L \in SUBSET Nat
  OBVIOUS
<1>2. 0 \in L
  <2>1. \A s \in Seq(S) : Len(s) = 0 => s = <<>>
    BY EmptySeq
  <2> QED BY <2>1
<1>3. ASSUME NEW n \in L PROVE n + 1 \in L
  <2> SUFFICES ASSUME NEW s \in Seq(S), Len(s) = n + 1 PROVE s \in T
    OBVIOUS
  <2>1. n \in Nat /\ Len(s) > 0
    OBVIOUS
  <2> PICK f : f = SubSeq(s, 1, n)
    OBVIOUS
  <2>2. f \in Seq(S) /\ Len(f) = n /\ s[n + 1] \in S /\ \A i \in 1 .. n : f[i] = s[i]
    OBVIOUS
  <2>3. f \in T
    BY <2>2
  <2>4. Append(f, s[n + 1]) \in T
    BY <2>2, <2>3
  <2>5. s = Append(f, s[n + 1])
    BY <2>2
  <2> QED BY <2>4, <2>5
<1> HIDE DEF L
<1>4. L = Nat
  BY ONLY <1>1, <1>2, <1>3, NatInd
<1>5. \A s \in Seq(S) : Len(s) \in Nat
  OBVIOUS
<1> QED BY <1>4, <1>5 DEF L

\* m is something c said
Mine(m, c) == m.type = "DATA" /\ m.from = c

\* g[n] is what c says in the first n messages of q
Tells(g, q, c) ==
    g = [n \in 0 .. Len(q) |-> IF n = 0 THEN <<>>
                               ELSE IF Mine(q[n], c) THEN Append(g[n - 1], q[n].data)
                               ELSE g[n - 1]]

LEMMA TellsIs ==
    ASSUME NEW g, NEW q, NEW c, Tells(g, q, c), Len(q) \in Nat
    PROVE  /\ g[0] = <<>>
           /\ \A n \in 0 .. Len(q) : n # 0 =>
                 g[n] = IF Mine(q[n], c) THEN Append(g[n - 1], q[n].data) ELSE g[n - 1]
BY DEF Tells

LEMMA TellsAgree ==
    ASSUME NEW c, NEW q, NEW r, NEW N \in Nat, Len(q) \in Nat, Len(r) \in Nat,
           N <= Len(q), N <= Len(r), \A i \in 1 .. N : q[i] = r[i],
           NEW g, NEW h, Tells(g, q, c), Tells(h, r, c)
    PROVE  \A n \in 0 .. N : g[n] = h[n]
<1> DEFINE T == {n \in 0 .. N : g[n] = h[n]}
<1>1. 0 \in T
  BY TellsIs
<1>2. ASSUME NEW n \in Nat, n \in T, n < N PROVE n + 1 \in T
  <2>1. PICK k : k = n + 1
    OBVIOUS
  <2>2. k \in 0 .. Len(q) /\ k \in 0 .. Len(r) /\ k # 0 /\ k - 1 = n /\ q[k] = r[k] /\ g[n] = h[n]
    BY <1>2, <2>1
  <2>3. g[k] = IF Mine(q[k], c) THEN Append(g[k - 1], q[k].data) ELSE g[k - 1]
    BY <2>2, TellsIs
  <2>4. h[k] = IF Mine(r[k], c) THEN Append(h[k - 1], r[k].data) ELSE h[k - 1]
    BY <2>2, TellsIs
  <2>5. g[k] = h[k]
    BY <2>2, <2>3, <2>4
  <2> QED BY <1>2, <2>1, <2>5
<1>3. \A n \in Nat : n \in T /\ n < N => n + 1 \in T
  BY <1>2
<1> HIDE DEF T
<1>4. \A n \in 0 .. N : n \in T
  BY ONLY N \in Nat, <1>1, <1>3, Upto
<1> QED BY <1>4 DEF T

LEMMA TellsMore ==
    ASSUME NEW c, NEW q \in Seq(Message), NEW m \in Message, NEW g, Tells(g, q, c)
    PROVE  \E h : Tells(h, Append(q, m), c)
<1> DEFINE r == Append(q, m)
           N == Len(q)
           h == [n \in 0 .. N + 1 |-> IF n <= N THEN g[n]
                                      ELSE IF Mine(m, c) THEN Append(g[N], m.data) ELSE g[N]]
<1>1. N \in Nat /\ Len(r) = N + 1 /\ r[N + 1] = m /\ \A i \in 1 .. N : r[i] = q[i]
  BY AppendOf
<1> HIDE DEF r, N
<1>2. /\ g[0] = <<>>
      /\ \A n \in 0 .. N : n # 0 =>
            g[n] = IF Mine(q[n], c) THEN Append(g[n - 1], q[n].data) ELSE g[n - 1]
  BY <1>1, TellsIs DEF N
<1>3. \A n \in 0 .. N : h[n] = g[n]
  BY <1>1
<1>4. h[N + 1] = IF Mine(m, c) THEN Append(g[N], m.data) ELSE g[N]
  BY <1>1
<1>5. h = [n \in 0 .. N + 1 |-> h[n]]
  OBVIOUS
<1> HIDE DEF h
<1>6. ASSUME NEW n \in 0 .. N + 1
      PROVE  h[n] = IF n = 0 THEN <<>>
                    ELSE IF Mine(r[n], c) THEN Append(h[n - 1], r[n].data) ELSE h[n - 1]
  <2>1. CASE n = 0
    BY <1>1, <1>2, <1>3, <2>1
  <2>2. CASE n \in 1 .. N
    <3>1. n \in 0 .. N /\ n - 1 \in 0 .. N /\ n # 0 /\ r[n] = q[n]
      BY <1>1, <2>2
    <3>2. h[n] = g[n] /\ h[n - 1] = g[n - 1]
      BY <1>3, <3>1
    <3> QED BY <1>2, <3>1, <3>2
  <2>3. CASE n = N + 1
    <3>1. n # 0 /\ n - 1 = N /\ N \in 0 .. N /\ r[n] = m
      BY <1>1, <2>3
    <3>2. h[n - 1] = g[N]
      BY <1>3, <3>1
    <3> QED BY <1>4, <2>3, <3>1, <3>2
  <2> QED BY <1>1, <2>1, <2>2, <2>3
<1>7. h = [n \in 0 .. N + 1 |-> IF n = 0 THEN <<>>
                                ELSE IF Mine(r[n], c) THEN Append(h[n - 1], r[n].data) ELSE h[n - 1]]
  BY <1>5, <1>6
<1>8. Tells(h, r, c)
  BY <1>1, <1>7 DEF Tells
<1> QED BY <1>8 DEF r

LEMMA TellsExist ==
    ASSUME NEW c, NEW q \in Seq(Message)
    PROVE  \E g : Tells(g, q, c)
<1> DEFINE T == {s \in Seq(Message) : \E g : Tells(g, s, c)}
<1>1. <<>> \in T
  <2> DEFINE g == [n \in 0 .. 0 |-> <<>>]
  <2>1. \A n \in 0 .. 0 : n = 0
    OBVIOUS
  <2>2. Tells(g, <<>>, c)
    BY <2>1 DEF Tells
  <2> QED BY <2>2
<1>2. ASSUME NEW s \in Seq(Message), NEW e \in Message, s \in T PROVE Append(s, e) \in T
  <2>1. PICK g : Tells(g, s, c)
    BY <1>2
  <2>2. \E h : Tells(h, Append(s, e), c)
    BY <2>1, TellsMore
  <2> QED BY <2>2
<1>3. \A s \in Seq(Message) : \A e \in Message : s \in T => Append(s, e) \in T
  BY <1>2
<1> HIDE DEF T
<1>4. \A s \in Seq(Message) : s \in T
  BY ONLY <1>1, <1>3, SeqInd
<1> QED BY <1>4 DEF T

LEMMA SpokenTells ==
    ASSUME NEW c, NEW q \in Seq(Message)
    PROVE  \E g : Tells(g, q, c) /\ Spoken(q, c) = g[Len(q)]
<1> DEFINE f == CHOOSE g : Tells(g, q, c)
<1>1. Tells(f, q, c)
  BY TellsExist
<1>2. Spoken(q, c) = f[Len(q)]
  BY DEF Spoken, Tells, Mine
<1> QED BY <1>1, <1>2

LEMMA SpokenEmpty == ASSUME NEW c PROVE Spoken(<<>>, c) = <<>>
<1>1. PICK q : q = <<>>
  OBVIOUS
<1>2. q \in Seq(Message) /\ Len(q) = 0
  BY <1>1
<1>3. PICK g : Tells(g, q, c) /\ Spoken(q, c) = g[Len(q)]
  BY <1>2, SpokenTells
<1>4. g[0] = <<>>
  BY <1>2, <1>3, TellsIs
<1> QED BY <1>1, <1>2, <1>3, <1>4

LEMMA SpokenAppend ==
    ASSUME NEW c, NEW q \in Seq(Message), NEW m \in Message
    PROVE  Spoken(Append(q, m), c) = IF Mine(m, c) THEN Append(Spoken(q, c), m.data) ELSE Spoken(q, c)
<1>1. PICK r : r = Append(q, m)
  OBVIOUS
<1>2. PICK N : N = Len(q)
  OBVIOUS
<1>3. /\ r \in Seq(Message) /\ N \in Nat /\ Len(r) = N + 1 /\ r[N + 1] = m
      /\ \A i \in 1 .. N : q[i] = r[i]
  BY <1>1, <1>2, AppendOf
<1>4. PICK g : Tells(g, q, c) /\ Spoken(q, c) = g[Len(q)]
  BY SpokenTells
<1>5. PICK h : Tells(h, r, c) /\ Spoken(r, c) = h[Len(r)]
  BY <1>3, SpokenTells
<1>6. N <= Len(q) /\ N <= Len(r) /\ Len(q) \in Nat /\ Len(r) \in Nat
  BY <1>2, <1>3
<1>7. \A n \in 0 .. N : g[n] = h[n]
  BY ONLY <1>3, <1>4, <1>5, <1>6, TellsAgree
<1>8. PICK k : k = N + 1
  OBVIOUS
<1>9. k \in 0 .. Len(r) /\ k # 0 /\ k - 1 = N /\ r[k] = m /\ N \in 0 .. N
  BY <1>3, <1>8
<1>10. h[k] = IF Mine(r[k], c) THEN Append(h[k - 1], r[k].data) ELSE h[k - 1]
  BY <1>5, <1>6, <1>9, TellsIs
<1>11. h[k] = IF Mine(m, c) THEN Append(g[N], m.data) ELSE g[N]
  BY <1>7, <1>9, <1>10
<1>12. Spoken(r, c) = h[k] /\ Spoken(q, c) = g[N]
  BY <1>2, <1>3, <1>4, <1>5, <1>8
<1> QED BY <1>1, <1>11, <1>12

LEMMA SpokenSeq ==
    ASSUME NEW c, NEW q \in Seq(Message)
    PROVE  Spoken(q, c) \in Seq(Msgs \union Bads)
<1> DEFINE T == {s \in Seq(Message) : Spoken(s, c) \in Seq(Msgs \union Bads)}
<1>1. <<>> \in T
  <2>1. PICK z : z = <<>>
    OBVIOUS
  <2>2. z \in Seq(Message) /\ z \in Seq(Msgs \union Bads)
    BY <2>1
  <2>3. Spoken(z, c) = z
    BY <2>1, SpokenEmpty
  <2> QED BY <2>1, <2>2, <2>3
<1>2. ASSUME NEW s \in Seq(Message), NEW e \in Message, s \in T PROVE Append(s, e) \in T
  <2>1. Mine(e, c) => e.data \in Msgs \union Bads
    BY DEF Mine, Message
  <2>2. Spoken(s, c) \in Seq(Msgs \union Bads)
    BY <1>2
  <2>3. Mine(e, c) => Append(Spoken(s, c), e.data) \in Seq(Msgs \union Bads)
    BY <2>1, <2>2, AppendProperties
  <2>4. Spoken(Append(s, e), c) \in Seq(Msgs \union Bads)
    BY <2>2, <2>3, SpokenAppend
  <2>5. Append(s, e) \in Seq(Message)
    BY AppendProperties
  <2> QED BY <2>4, <2>5
<1>3. \A s \in Seq(Message) : \A e \in Message : s \in T => Append(s, e) \in T
  BY <1>2
<1> HIDE DEF T
<1>4. \A s \in Seq(Message) : s \in T
  BY ONLY <1>1, <1>3, SeqInd
<1> QED BY <1>4 DEF T

LEMMA SpokenConcat ==
    ASSUME NEW c, NEW q \in Seq(Message), NEW d \in Seq(Message)
    PROVE  Spoken(q \o d, c) = Spoken(q, c) \o Spoken(d, c)
<1> DEFINE T == {s \in Seq(Message) : Spoken(q \o s, c) = Spoken(q, c) \o Spoken(s, c)}
<1>0. PICK W : W = Msgs \union Bads
  OBVIOUS
<1>1. <<>> \in T
  <2>1. PICK z : z = <<>>
    OBVIOUS
  <2>2. q \o z = q /\ z \in Seq(Message)
    BY <2>1, ConcatEmptySeq
  <2>3. Spoken(q, c) \o z = Spoken(q, c)
    BY <2>1, SpokenSeq, ConcatEmptySeq
  <2>4. Spoken(z, c) = z
    BY <2>1, SpokenEmpty
  <2> QED BY <2>1, <2>2, <2>3, <2>4
<1>2. ASSUME NEW s \in Seq(Message), NEW e \in Message, s \in T PROVE Append(s, e) \in T
  <2>1. q \o Append(s, e) = Append(q \o s, e) /\ q \o s \in Seq(Message) /\ Append(s, e) \in Seq(Message)
    OBVIOUS
  <2>2. PICK a : a = Spoken(q, c)
    OBVIOUS
  <2>3. PICK b : b = Spoken(s, c)
    OBVIOUS
  <2>4. a \in Seq(W) /\ b \in Seq(W) /\ Spoken(q \o s, c) = a \o b
    BY <1>0, <1>2, <2>2, <2>3, SpokenSeq
  <2>5. CASE Mine(e, c)
    <3>1. e.data \in W
      BY <1>0, <2>5 DEF Mine, Message
    <3>2. Spoken(Append(q \o s, e), c) = Append(a \o b, e.data)
      BY <2>1, <2>4, <2>5, SpokenAppend
    <3>3. Spoken(Append(s, e), c) = Append(b, e.data)
      BY <2>3, <2>5, SpokenAppend
    <3>4. a \o Append(b, e.data) = Append(a \o b, e.data)
      BY <2>4, <3>1
    <3> QED BY <2>1, <2>2, <3>2, <3>3, <3>4
  <2>6. CASE ~Mine(e, c)
    <3>1. Spoken(Append(q \o s, e), c) = a \o b
      BY <2>1, <2>4, <2>6, SpokenAppend
    <3>2. Spoken(Append(s, e), c) = b
      BY <2>3, <2>6, SpokenAppend
    <3> QED BY <2>1, <2>2, <3>1, <3>2
  <2> QED BY <2>5, <2>6
<1>3. \A s \in Seq(Message) : \A e \in Message : s \in T => Append(s, e) \in T
  BY <1>2
<1> HIDE DEF T
<1>4. \A s \in Seq(Message) : s \in T
  BY ONLY <1>1, <1>3, SeqInd
<1> QED BY <1>4 DEF T

\* messages of others, and announcements, say nothing
LEMMA SpokenNothing ==
    ASSUME NEW c, NEW q \in Seq(Message), \A i \in 1 .. Len(q) : ~Mine(q[i], c)
    PROVE  Spoken(q, c) = <<>>
<1> DEFINE T == {s \in Seq(Message) : (\A i \in 1 .. Len(s) : ~Mine(s[i], c)) => Spoken(s, c) = <<>>}
<1>1. <<>> \in T
  BY SpokenEmpty
<1>2. ASSUME NEW s \in Seq(Message), NEW e \in Message, s \in T PROVE Append(s, e) \in T
  <2> SUFFICES ASSUME \A i \in 1 .. Len(Append(s, e)) : ~Mine(Append(s, e)[i], c)
               PROVE  Spoken(Append(s, e), c) = <<>>
    BY AppendProperties
  <2>1. /\ Len(Append(s, e)) = Len(s) + 1 /\ Len(s) \in Nat
        /\ \A i \in 1 .. Len(s) : Append(s, e)[i] = s[i]
        /\ Append(s, e)[Len(s) + 1] = e
    BY AppendOf
  <2>2. \A i \in 1 .. Len(s) : ~Mine(s[i], c)
    BY <2>1
  <2>3. ~Mine(e, c)
    BY <2>1
  <2> QED BY <1>2, <2>2, <2>3, SpokenAppend
<1>3. \A s \in Seq(Message) : \A e \in Message : s \in T => Append(s, e) \in T
  BY <1>2
<1> HIDE DEF T
<1>4. \A s \in Seq(Message) : s \in T
  BY ONLY <1>1, <1>3, SeqInd
<1> QED BY <1>4 DEF T

\* what is handled was said first
LEMMA SpokenFirst ==
    ASSUME NEW c, NEW q \in Seq(Message), q # <<>>
    PROVE  /\ Mine(Head(q), c) => Spoken(q, c) # <<>> /\ Spoken(Tail(q), c) = Tail(Spoken(q, c))
           /\ ~Mine(Head(q), c) => Spoken(Tail(q), c) = Spoken(q, c)
<1>1. PICK m : m = Head(q)
  OBVIOUS
<1>2. PICK t : t = Tail(q)
  OBVIOUS
<1>3. PICK o : o = <<m>>
  OBVIOUS
<1>4. m \in Message /\ t \in Seq(Message) /\ o \in Seq(Message) /\ q = o \o t
  BY <1>1, <1>2, <1>3
<1>5. o = Append(<<>>, m) /\ <<>> \in Seq(Message)
  BY <1>3
<1>6. Spoken(o, c) = IF Mine(m, c) THEN Append(<<>>, m.data) ELSE <<>>
  BY <1>4, <1>5, SpokenAppend, SpokenEmpty
<1>7. Spoken(q, c) = Spoken(o, c) \o Spoken(t, c)
  BY <1>4, SpokenConcat
<1>8. PICK W : W = Msgs \union Bads
  OBVIOUS
<1>9. PICK b : b = Spoken(t, c)
  OBVIOUS
<1>10. b \in Seq(W)
  BY <1>4, <1>8, <1>9, SpokenSeq
<1>11. CASE Mine(m, c)
  <2>1. m.data \in W
    BY <1>4, <1>8, <1>11 DEF Mine, Message
  <2>2. Spoken(q, c) = <<m.data>> \o b
    BY <1>6, <1>7, <1>9, <1>11
  <2>3. <<m.data>> \o b # <<>> /\ Tail(<<m.data>> \o b) = b
    BY <1>10, <2>1
  <2> QED BY <1>1, <1>2, <1>9, <1>11, <2>2, <2>3
<1>12. CASE ~Mine(m, c)
  <2>1. Spoken(q, c) = <<>> \o b
    BY <1>6, <1>7, <1>9, <1>12
  <2>2. <<>> \o b = b
    BY <1>10
  <2> QED BY <1>1, <1>2, <1>9, <1>12, <2>1, <2>2
<1> QED BY <1>11, <1>12

LEMMA SpokenData ==
    ASSUME NEW c \in Clients, NEW ms \in Seq(Msgs \union Bads)
    PROVE  Spoken(Data(c, ms), c) = ms
<1> DEFINE W == Msgs \union Bads
           T == {s \in Seq(W) : Spoken(Data(c, s), c) = s}
<1>1. <<>> \in T
  <2>1. Data(c, <<>>) = <<>>
    BY DEF Data
  <2> QED BY <2>1, SpokenEmpty
<1>2. ASSUME NEW s \in Seq(W), NEW e \in W, s \in T PROVE Append(s, e) \in T
  <2> DEFINE m == [type |-> "DATA", from |-> c, data |-> e]
  <2>1. m \in Message /\ Mine(m, c) /\ m.data = e
    BY DEF Message, Mine
  <2>2. Data(c, s) \in Seq(Message) /\ Len(Data(c, s)) = Len(s)
    BY DataOf
  <2>3. Data(c, Append(s, e)) = Append(Data(c, s), m)
    BY <2>2 DEF Data
  <2> HIDE DEF m
  <2>4. Spoken(Data(c, Append(s, e)), c) = Append(Spoken(Data(c, s), c), e)
    BY <2>1, <2>2, <2>3, SpokenAppend
  <2> QED BY <1>2, <2>4
<1>3. \A s \in Seq(W) : \A e \in W : s \in T => Append(s, e) \in T
  BY <1>2
<1> HIDE DEF T
<1>4. \A s \in Seq(W) : s \in T
  BY ONLY <1>1, <1>3, SeqInd
<1> QED BY <1>4 DEF T

\* what a peer may say
Words == Msgs \union Bads

\* r says what q says, and the messages ms of c
More(r, q, x, c, ms) == Spoken(r, x) = IF x = c THEN Spoken(q, x) \o ms ELSE Spoken(q, x)

LEMMA SpokenMore ==
    ASSUME NEW c \in Clients, NEW x \in Clients, NEW q \in Seq(Message), NEW ms \in Seq(Words)
    PROVE  Spoken(q \o Data(c, ms), x) = IF x = c THEN Spoken(q, x) \o ms ELSE Spoken(q, x)
<1>1. PICK d : d = Data(c, ms)
  OBVIOUS
<1>2. d \in Seq(Message) /\ \A i \in 1 .. Len(d) : d[i].type = "DATA" /\ d[i].from = c
  BY <1>1, DataOf DEF Words
<1>3. Spoken(q \o d, x) = Spoken(q, x) \o Spoken(d, x)
  BY <1>2, SpokenConcat
<1>4. CASE x = c
  <2>1. Spoken(d, x) = ms
    BY <1>1, <1>4, SpokenData DEF Words
  <2> QED BY <1>1, <1>3, <1>4, <2>1
<1>5. CASE x # c
  <2>1. \A i \in 1 .. Len(d) : ~Mine(d[i], x)
    BY <1>2, <1>5 DEF Mine
  <2>2. Spoken(d, x) = <<>>
    BY <1>2, <2>1, SpokenNothing
  <2>3. PICK a : a = Spoken(q, x)
    OBVIOUS
  <2>4. a \in Seq(Words)
    BY <2>3, SpokenSeq DEF Words
  <2>5. a \o <<>> = a
    BY <2>4
  <2> QED BY <1>1, <1>3, <1>5, <2>2, <2>3, <2>5
<1> QED BY <1>4, <1>5

LEMMA SpokenFarewell ==
    ASSUME NEW c \in Clients, NEW x \in Clients, NEW q \in Seq(Message), NEW ms \in Seq(Words),
           NEW r, r = q \o Farewell(c, Data(c, ms))
    PROVE  More(r, q, x, c, ms)
<1>1. PICK d : d = Data(c, ms)
  OBVIOUS
<1>2. PICK h : h = HungUp(c)
  OBVIOUS
<1>3. d \in Seq(Message) /\ h \in Message /\ ~Mine(h, x)
  BY <1>1, <1>2, DataOf, Fields DEF Words, Mine
<1>4. r = q \o (d \o <<h>>)
  BY <1>1, <1>2 DEF Farewell
<1>5. PICK s : s = q \o d
  OBVIOUS
<1>6. r = Append(s, h) /\ s \in Seq(Message)
  BY <1>3, <1>4, <1>5
<1>8. Spoken(Append(s, h), x) = IF Mine(h, x) THEN Append(Spoken(s, x), h.data) ELSE Spoken(s, x)
  BY <1>3, <1>6, SpokenAppend
<1>9. Spoken(r, x) = Spoken(s, x)
  BY <1>3, <1>6, <1>8
<1>7. Spoken(q \o Data(c, ms), x) = IF x = c THEN Spoken(q, x) \o ms ELSE Spoken(q, x)
  BY SpokenMore
<1> QED BY <1>1, <1>5, <1>7, <1>9 DEF More

LEMMA JoinIs ==
    ASSUME NEW S, NEW x \in Seq(S), NEW y \in Seq(S), NEW z \in Seq(S),
           Len(y) = 1 /\ Len(z) = Len(x) + 1 /\ z[Len(x) + 1] = y[1] /\ \A i \in 1 .. Len(x) : z[i] = x[i]
    PROVE  x \o y = z
<1>1. /\ x \o y \in Seq(S) /\ Len(x \o y) = Len(x) + Len(y) /\ Len(x) \in Nat
      /\ \A i \in 1 .. Len(x) : (x \o y)[i] = x[i]
      /\ \A i \in 1 .. Len(y) : (x \o y)[Len(x) + i] = y[i]
  <2>1. x \in Seq(S) /\ y \in Seq(S)
    OBVIOUS
  <2> QED BY ONLY <2>1, ConcatOf
<1> PICK w : w = x \o y
  OBVIOUS
<1>2. /\ w \in Seq(S) /\ Len(w) = Len(z) /\ Len(x) \in Nat
      /\ \A i \in 1 .. Len(x) : w[i] = z[i]
      /\ w[Len(x) + 1] = z[Len(x) + 1]
  BY <1>1
<1>3. \A i \in 1 .. Len(z) : i \in 1 .. Len(x) \/ i = Len(x) + 1
  BY <1>2
<1>4. \A i \in 1 .. Len(z) : w[i] = z[i]
  BY <1>2, <1>3
<1> QED BY <1>2, <1>4, SeqEqual

\* the messages of a client that were read, one after the other
LEMMA ReadTogether ==
    ASSUME NEW c \in Clients, NEW s \in Seq(Words), NEW n \in 0 .. Len(s), n < Len(s)
    PROVE  /\ Data(c, SubSeq(s, 1, n)) \o Data(c, <<s[n + 1]>>) = Data(c, SubSeq(s, 1, n + 1))
           /\ n + 1 \in 0 .. Len(s)
<1>1. PICK k : k = n + 1
  OBVIOUS
<1>2. PICK a : a = SubSeq(s, 1, n)
  OBVIOUS
<1>3. PICK b : b = SubSeq(s, 1, k)
  OBVIOUS
<1>4. PICK e : e = s[k]
  OBVIOUS
<1>5. /\ Len(s) \in Nat /\ k \in 1 .. Len(s) /\ e \in Words /\ a \in Seq(Words) /\ b \in Seq(Words)
      /\ Len(a) = n /\ Len(b) = k /\ \A i \in 1 .. n : b[i] = a[i]
      /\ b[k] = e
  BY <1>1, <1>2, <1>3, <1>4
<1>6. /\ Data(c, a) \in Seq(Message) /\ Len(Data(c, a)) = n
      /\ \A i \in 1 .. n : Data(c, a)[i] = [type |-> "DATA", from |-> c, data |-> a[i]]
  BY <1>5, DataOf DEF Data, Words
<1>7. /\ Data(c, <<e>>) \in Seq(Message) /\ Len(Data(c, <<e>>)) = 1
      /\ Data(c, <<e>>)[1] = [type |-> "DATA", from |-> c, data |-> e]
  <2>1. PICK o : o = <<e>>
    OBVIOUS
  <2>2. o \in Seq(Words) /\ Len(o) = 1 /\ o[1] = e
    BY <1>5, <2>1
  <2>3. /\ Data(c, o) \in Seq(Message) /\ Len(Data(c, o)) = 1
        /\ Data(c, o)[1] = [type |-> "DATA", from |-> c, data |-> e]
    BY <2>2, DataOf DEF Data, Words
  <2> QED BY <2>1, <2>3
<1>8. /\ Data(c, b) \in Seq(Message) /\ Len(Data(c, b)) = k
      /\ \A i \in 1 .. k : Data(c, b)[i] = [type |-> "DATA", from |-> c, data |-> b[i]]
  BY <1>5, DataOf DEF Data, Words
<1> PICK x : x = Data(c, a)
  OBVIOUS
<1> PICK y : y = Data(c, <<e>>)
  OBVIOUS
<1> PICK z : z = Data(c, b)
  OBVIOUS
<1>9. /\ x \in Seq(Message) /\ y \in Seq(Message) /\ z \in Seq(Message)
      /\ Len(x) = n /\ Len(y) = 1 /\ Len(z) = n + 1 /\ z[n + 1] = y[1]
      /\ \A i \in 1 .. n : z[i] = x[i]
  BY <1>1, <1>5, <1>6, <1>7, <1>8
<1>10. x \o y = z
  <2>1. x \in Seq(Message) /\ y \in Seq(Message) /\ z \in Seq(Message)
    BY ONLY <1>9
  <2>2. Len(y) = 1 /\ Len(z) = Len(x) + 1 /\ z[Len(x) + 1] = y[1] /\ \A i \in 1 .. Len(x) : z[i] = x[i]
    BY ONLY <1>9
  <2> QED BY ONLY <2>1, <2>2, JoinIs
<1>11. n + 1 \in 0 .. Len(s)
  OBVIOUS
<1>12. Data(c, SubSeq(s, 1, n)) = x /\ Data(c, <<s[n + 1]>>) = y /\ Data(c, SubSeq(s, 1, n + 1)) = z
  BY <1>1, <1>2, <1>3, <1>4
<1> QED BY <1>10, <1>11, <1>12

-----------------------------------------------------------------------------
(* A server implements the sessions of its clients. *)

\* what the program knows of each client, and what it has not heard yet
Phase  == [c \in Clients |-> SessionPhase(c)]
Unread == [c \in Clients |-> Spoken(msgQueue, c) \o inbox[c]]
Still  == Phase' = Phase /\ Unread' = Unread

\* a connection that is off says nothing more
Silent == \A c \in Clients : net[c] = "off" => inbox[c] = <<>>

LEMMA SilentDrop ==
    ASSUME TypeOK, Silent, NEW c \in Clients, NEW ms, Drop(c, ms)
    PROVE  Silent'
BY DEF Silent, Drop, TypeOK

LEMMA SilentNext ==
    ASSUME SInv, Silent, [Next]_vars
    PROVE  Silent'
<1>1. TypeOK
  BY DEF SInv
<1>2. CASE UNCHANGED peerVars
  BY <1>2 DEF Silent, peerVars
<1>3. CASE Peers
  <2>1. ASSUME NEW c \in Clients, Dial(c) \/ PeerSends(c) \/ PeerCloses(c) \/ PeerResets(c) PROVE Silent'
    BY <1>1, <2>1 DEF Silent, Dial, PeerSends, PeerCloses, PeerResets, TypeOK
  <2> QED BY <1>3, <2>1 DEF Peers
<1>4. CASE SendTo
  <2>1. Head(turn) \in Clients
    BY <1>1, <1>4, TailOf DEF SendTo, TypeOK
  <2> QED BY <1>1, <1>2, <1>4, <2>1, SilentDrop DEF SendTo
<1>5. CASE CloseDead
  <2>1. Head(deadClientList) \in Clients
    BY <1>1, <1>5, TailOf DEF CloseDead, TypeOK
  <2> QED BY <1>1, <1>2, <1>5, <2>1, SilentDrop DEF CloseDead
<1>6. CASE ReadFrom
  <2> PICK c : c = Head(incomingClientList)
    OBVIOUS
  <2>1. c \in Clients
    BY <1>1, <1>6, TailOf DEF ReadFrom, TypeOK
  <2>2. ASSUME NEW n, Read(c, n) PROVE Silent'
    <3>1. CASE \E ms : Drop(c, ms)
      BY <1>1, <2>1, <3>1, SilentDrop
    <3>2. CASE inbox' = [inbox EXCEPT ![c] = <<>>] /\ net' = net
      BY <1>1, <3>2 DEF Silent, TypeOK
    <3> QED BY <2>2, <3>1, <3>2 DEF Read
  <2> QED BY <1>2, <1>6, <2>2 DEF ReadFrom
<1>7. CASE \/ App \/ OwnConnects \/ OwnCloses \/ Poll \/ AcceptNoMore \/ Dispatched \/ LoopDone
           \/ HandleConnected \/ HandleData \/ HandleHungUp \/ UNCHANGED vars
           \/ \E c \in Clients : Accept(c)
  <2>1. UNCHANGED peerVars
    BY <1>7 DEF App, OwnConnects, OwnCloses, Poll, AcceptNoMore, Dispatched, LoopDone,
                HandleConnected, HandleData, HandleHungUp, vars, Accept
  <2> QED BY <1>2, <2>1
<1> QED BY <1>3, <1>4, <1>5, <1>6, <1>7 DEF Next, Server

LEMMA StillIf ==
    ASSUME UNCHANGED <<clientList, handle, msgQueue, inbox>>
    PROVE  Still
BY DEF Still, Phase, Unread, SessionPhase

\* a client is closed; what was read of it remains
Hangs(c) ==
    /\ Phase[c] = "playing" /\ Phase' = [Phase EXCEPT ![c] = "leaving"]
    /\ \E n \in 0 .. Len(Unread[c]) : Unread' = [Unread EXCEPT ![c] = SubSeq(@, 1, n)]

LEMMA DropHangs ==
    ASSUME SInv, NEW c \in Listed, handle[c] # NoFd, NEW n \in 0 .. Len(inbox[c]), NEW d,
           d = Data(c, SubSeq(inbox[c], 1, n)), Drop(c, Farewell(c, d)), UNCHANGED clientList
    PROVE  Hangs(c)
<1> PICK ms : ms = SubSeq(inbox[c], 1, n)
  OBVIOUS
<1>1. c \in Clients /\ handle \in [Clients -> Fds \union {NoFd}]
      /\ msgQueue \in Seq(Message) /\ inbox \in [Clients -> Seq(Words)]
  BY Members DEF SInv, TypeOK, Listed, Words
<1>2. ms \in Seq(Words)
  BY <1>1
<1>3. /\ msgQueue' = msgQueue \o Farewell(c, Data(c, ms))
      /\ handle' = [handle EXCEPT ![c] = NoFd]
      /\ inbox' = [inbox EXCEPT ![c] = <<>>]
  BY DEF Drop
<1>4. Phase[c] = "playing" /\ Phase' = [Phase EXCEPT ![c] = "leaving"]
  BY <1>1, <1>3 DEF Phase, SessionPhase, Listed
<1> PICK q : q = msgQueue
  OBVIOUS
<1> PICK r : r = msgQueue'
  OBVIOUS
<1>10. c \in Clients
  BY <1>1
<1>11. q \in Seq(Message) /\ r = q \o Farewell(c, Data(c, ms))
  BY <1>1, <1>3
<1>12. \A x \in Clients : More(r, q, x, c, ms)
  <2>1. q \in Seq(Message)
    BY <1>11
  <2>2. r = q \o Farewell(c, Data(c, ms))
    BY <1>11
  <2>3. ASSUME NEW x \in Clients PROVE More(r, q, x, c, ms)
    <3>1. x \in Clients
      OBVIOUS
    <3> QED BY ONLY <1>2, <1>10, <2>1, <2>2, <3>1, SpokenFarewell
  <2> QED BY <2>3
<1>5. \A x \in Clients : x # c => Spoken(msgQueue', x) = Spoken(msgQueue, x)
  BY <1>12 DEF More
<1>6. Spoken(msgQueue', c) = Spoken(msgQueue, c) \o ms
  BY <1>10, <1>12 DEF More
<1> PICK a : a = Spoken(msgQueue, c)
  OBVIOUS
<1> PICK b : b = inbox[c]
  OBVIOUS
<1> PICK k : k = Len(a) + n
  OBVIOUS
<1>7. a \in Seq(Words) /\ b \in Seq(Words) /\ ms = SubSeq(b, 1, n) /\ n \in 0 .. Len(b)
  BY <1>1, SpokenSeq DEF Words
<1>8. Len(a) \in Nat /\ Len(b) \in Nat /\ Len(ms) = n /\ \A i \in 1 .. n : ms[i] = b[i]
  BY <1>7
<1>9. k \in 0 .. Len(a \o b) /\ (a \o ms) \o <<>> = SubSeq(a \o b, 1, k)
  <2>1. /\ a \o b \in Seq(Words) /\ Len(a \o b) = Len(a) + Len(b)
        /\ \A i \in 1 .. Len(a) : (a \o b)[i] = a[i]
        /\ \A i \in 1 .. Len(b) : (a \o b)[Len(a) + i] = b[i]
    BY <1>7, ConcatOf
  <2>2. /\ a \o ms \in Seq(Words) /\ Len(a \o ms) = k
        /\ \A i \in 1 .. Len(a) : (a \o ms)[i] = a[i]
        /\ \A i \in 1 .. n : (a \o ms)[Len(a) + i] = ms[i]
    BY <1>2, <1>7, <1>8, ConcatOf
  <2> PICK u : u = a \o b
    OBVIOUS
  <2> PICK v : v = a \o ms
    OBVIOUS
  <2>3. k \in 0 .. Len(u) /\ k \in Nat
    BY <1>7, <1>8, <2>1
  <2>4. ASSUME NEW i \in 1 .. k PROVE v[i] = u[i]
    <3>1. CASE i <= Len(a)
      BY <1>8, <2>1, <2>2, <3>1
    <3>2. CASE i > Len(a)
      <4>1. PICK j : j = i - Len(a)
        OBVIOUS
      <4>2. j \in 1 .. n /\ i = Len(a) + j /\ j \in 1 .. Len(b)
        BY <1>7, <1>8, <3>2, <4>1
      <4> QED BY <1>8, <2>1, <2>2, <4>2
    <3> QED BY <1>8, <3>1, <3>2
  <2>5. v = SubSeq(u, 1, k)
    BY <2>1, <2>2, <2>3, <2>4
  <2>6. v \o <<>> = v
    BY <2>2
  <2> QED BY <2>3, <2>5, <2>6
<1>13. Unread' = [Unread EXCEPT ![c] = SubSeq(@, 1, k)] /\ k \in 0 .. Len(Unread[c])
  <2>1. Unread[c] = a \o b
    BY <1>1 DEF Unread
  <2>2. \A x \in Clients : x # c => inbox'[x] = inbox[x]
    BY <1>1, <1>3
  <2>3. inbox'[c] = <<>>
    BY <1>1, <1>3
  <2>4. Unread' = [x \in Clients |-> Spoken(msgQueue', x) \o inbox'[x]]
    BY DEF Unread
  <2>5. Spoken(msgQueue', c) \o inbox'[c] = SubSeq(a \o b, 1, k)
    BY <1>6, <1>9, <2>3
  <2>6. \A x \in Clients : x # c => Spoken(msgQueue', x) \o inbox'[x] = Unread[x]
    BY <1>5, <2>2 DEF Unread
  <2> PICK U : U = Unread
    OBVIOUS
  <2>7. U = [x \in Clients |-> U[x]]
    BY DEF Unread
  <2>8. \A x \in Clients : Spoken(msgQueue', x) \o inbox'[x] = IF x = c THEN SubSeq(U[c], 1, k) ELSE U[x]
    BY <2>1, <2>5, <2>6
  <2>9. Unread' = [x \in Clients |-> IF x = c THEN SubSeq(U[c], 1, k) ELSE U[x]]
    BY <2>4, <2>8
  <2>10. [x \in Clients |-> IF x = c THEN SubSeq(U[c], 1, k) ELSE U[x]] = [U EXCEPT ![c] = SubSeq(@, 1, k)]
    BY <1>1, <2>7
  <2> QED BY <1>9, <2>1, <2>9, <2>10
<1> QED BY <1>4, <1>13 DEF Hangs

-----------------------------------------------------------------------------
(* The other steps of a session. *)

\* the actions of ClientSessions
Speaks(c) == Phase' = Phase /\ \E m \in Words : Unread' = [Unread EXCEPT ![c] = Append(@, m)]
Joins(c)  == Phase[c] = "away" /\ Phase' = [Phase EXCEPT ![c] = "playing"] /\ Unread' = Unread
Heard(c)  == /\ Phase[c] # "away" /\ Unread[c] # <<>>
             /\ Unread' = [Unread EXCEPT ![c] = Tail(@)] /\ Phase' = Phase
Leaves(c) == /\ Phase[c] = "leaving" /\ Unread[c] = <<>>
             /\ Phase' = [Phase EXCEPT ![c] = "away"] /\ Unread' = Unread

SessionStep ==
    \/ Still
    \/ \E c \in Clients : Speaks(c) \/ Joins(c) \/ Heard(c) \/ Hangs(c) \/ Leaves(c)

LEMMA UnreadBut ==
    ASSUME NEW c \in Clients, NEW v, Spoken(msgQueue', c) \o inbox'[c] = v,
           \A x \in Clients : x # c => Spoken(msgQueue', x) \o inbox'[x] = Unread[x]
    PROVE  Unread' = [Unread EXCEPT ![c] = v]
<1> PICK U : U = Unread
  OBVIOUS
<1>1. U = [x \in Clients |-> U[x]]
  BY DEF Unread
<1>2. Unread' = [x \in Clients |-> Spoken(msgQueue', x) \o inbox'[x]]
  BY DEF Unread
<1>3. \A x \in Clients : Spoken(msgQueue', x) \o inbox'[x] = IF x = c THEN v ELSE U[x]
  OBVIOUS
<1>4. Unread' = [x \in Clients |-> IF x = c THEN v ELSE U[x]]
  BY <1>2, <1>3
<1>5. [x \in Clients |-> IF x = c THEN v ELSE U[x]] = [U EXCEPT ![c] = v]
  BY <1>1
<1> QED BY <1>4, <1>5

LEMMA UnreadSame ==
    ASSUME \A x \in Clients : Spoken(msgQueue', x) \o inbox'[x] = Unread[x]
    PROVE  Unread' = Unread
<1>1. Unread' = [x \in Clients |-> Spoken(msgQueue', x) \o inbox'[x]]
  BY DEF Unread
<1>2. Unread = [x \in Clients |-> Unread[x]]
  BY DEF Unread
<1> QED BY <1>1, <1>2

LEMMA PhaseBut ==
    ASSUME NEW c \in Clients, NEW v, SessionPhase(c)' = v,
           \A x \in Clients : x # c => SessionPhase(x)' = SessionPhase(x)
    PROVE  Phase' = [Phase EXCEPT ![c] = v]
<1> PICK P : P = Phase
  OBVIOUS
<1>1. P = [x \in Clients |-> P[x]] /\ \A x \in Clients : P[x] = SessionPhase(x)
  BY DEF Phase
<1>2. Phase' = [x \in Clients |-> SessionPhase(x)']
  BY DEF Phase
<1>3. \A x \in Clients : SessionPhase(x)' = IF x = c THEN v ELSE P[x]
  BY <1>1
<1>4. Phase' = [x \in Clients |-> IF x = c THEN v ELSE P[x]]
  BY <1>2, <1>3
<1>5. [x \in Clients |-> IF x = c THEN v ELSE P[x]] = [P EXCEPT ![c] = v]
  BY <1>1
<1> QED BY <1>4, <1>5

LEMMA PhaseIs ==
    ASSUME NEW c \in Clients
    PROVE  /\ Phase[c] = IF c \notin Listed THEN "away" ELSE IF handle[c] # NoFd THEN "playing" ELSE "leaving"
           /\ Unread[c] = Spoken(msgQueue, c) \o inbox[c]
BY DEF Phase, Unread, SessionPhase, Listed

LEMMA SessionTypes ==
    ASSUME SInv
    PROVE  /\ TypeOK /\ msgQueue \in Seq(Message) /\ inbox \in [Clients -> Seq(Words)]
           /\ \A c \in Clients : Spoken(msgQueue, c) \in Seq(Words) /\ inbox[c] \in Seq(Words)
           /\ handle \in [Clients -> Fds \union {NoFd}]
           /\ Listed \subseteq Clients /\ live \subseteq Clients
<1>1. TypeOK /\ Listed \subseteq live
  BY DEF SInv, ListsInv
<1>2. msgQueue \in Seq(Message) /\ inbox \in [Clients -> Seq(Words)] /\ live \subseteq Clients
      /\ handle \in [Clients -> Fds \union {NoFd}]
  BY <1>1 DEF TypeOK, Words
<1>3. \A c \in Clients : Spoken(msgQueue, c) \in Seq(Words)
  BY <1>2, SpokenSeq DEF Words
<1> QED BY <1>1, <1>2, <1>3

\* a peer says something more
LEMMA PeerSendsSpeaks ==
    ASSUME SInv, NEW c \in Clients, PeerSends(c)
    PROVE  Speaks(c)
<1>1. PICK m \in Words : inbox' = [inbox EXCEPT ![c] = Append(@, m)]
  BY DEF PeerSends, Words
<1>2. clientList' = clientList /\ handle' = handle /\ msgQueue' = msgQueue
  BY DEF PeerSends, listVars, objVars
<1>3. /\ inbox \in [Clients -> Seq(Words)]
      /\ \A x \in Clients : Spoken(msgQueue, x) \in Seq(Words) /\ inbox[x] \in Seq(Words)
  BY SessionTypes
<1>4. Phase' = Phase
  BY <1>2 DEF Phase, SessionPhase
<1>5. /\ inbox'[c] = Append(inbox[c], m)
      /\ \A x \in Clients : x # c => inbox'[x] = inbox[x]
  BY <1>1, <1>3
<1> PICK a : a = Spoken(msgQueue, c)
  OBVIOUS
<1> PICK b : b = inbox[c]
  OBVIOUS
<1>6. Unread[c] = a \o b
  BY PhaseIs
<1> PICK u : u = Unread[c]
  OBVIOUS
<1>7. a \in Seq(Words) /\ b \in Seq(Words)
  BY <1>3
<1>8. a \o Append(b, m) = Append(a \o b, m)
  BY <1>7
<1>9. Spoken(msgQueue', c) \o inbox'[c] = Append(u, m)
  BY <1>2, <1>5, <1>6, <1>8
<1>10. \A x \in Clients : x # c => Spoken(msgQueue', x) \o inbox'[x] = Unread[x]
  BY <1>2, <1>5, PhaseIs
<1>11. Unread' = [Unread EXCEPT ![c] = Append(u, m)]
  BY <1>9, <1>10, UnreadBut
<1> QED BY <1>4, <1>11 DEF Speaks

\* a client that is accepted is announced later
LEMMA AcceptStill ==
    ASSUME SInv, NEW c \in Clients, Accept(c)
    PROVE  Still
<1>1. /\ handle[c] = NoFd /\ net[c] # "off" /\ clientList' = clientList /\ inbox' = inbox
      /\ msgQueue' = Append(msgQueue, Connected(c))
  BY DEF Accept, Waiting, Open, listVars, peerVars
<1>2. PICK h : handle' = [handle EXCEPT ![c] = h]
  BY DEF Accept
<1>3. c \notin Listed
  BY <1>1 DEF SInv, NetInv, ListsInv
<1>4. /\ msgQueue \in Seq(Message) /\ handle \in [Clients -> Fds \union {NoFd}]
  BY SessionTypes
<1>5. ASSUME NEW x \in Clients PROVE SessionPhase(x)' = SessionPhase(x)
  BY <1>1, <1>2, <1>3, <1>4 DEF SessionPhase, Listed
<1>6. Phase' = Phase
  BY <1>5 DEF Phase
<1>7. PICK m : m = Connected(c)
  OBVIOUS
<1>8. m \in Message /\ m.type = "CONNECTED"
  BY <1>7, Fields
<1>9. ASSUME NEW x \in Clients PROVE Spoken(msgQueue', x) = Spoken(msgQueue, x)
  <2>1. ~Mine(m, x)
    BY <1>8 DEF Mine
  <2>2. Spoken(Append(msgQueue, m), x) = Spoken(msgQueue, x)
    BY <1>4, <1>8, <2>1, SpokenAppend
  <2> QED BY <1>1, <1>7, <2>2
<1>10. Unread' = Unread
  BY <1>1, <1>9, PhaseIs, UnreadSame
<1> QED BY <1>6, <1>10 DEF Still

\* the first message, when it is an announcement
LEMMA AnnouncementStill ==
    ASSUME SInv, msgQueue # <<>>, Head(msgQueue).type # "DATA", msgQueue' = Tail(msgQueue), inbox' = inbox
    PROVE  Unread' = Unread
<1>1. msgQueue \in Seq(Message)
  BY SessionTypes
<1>2. ASSUME NEW x \in Clients PROVE Spoken(msgQueue', x) = Spoken(msgQueue, x)
  <2>1. ~Mine(Head(msgQueue), x)
    BY DEF Mine
  <2> QED BY <1>1, <2>1, SpokenFirst
<1> QED BY <1>2, PhaseIs, UnreadSame

LEMMA HandleConnectedJoins ==
    ASSUME SInv, HandleConnected
    PROVE  \E c \in Clients : Joins(c)
<1>0. PICK c : c = Head(msgQueue).from
  OBVIOUS
<1>1. /\ msgQueue # <<>> /\ Head(msgQueue).type = "CONNECTED" /\ msgQueue' = Tail(msgQueue)
      /\ clientList' = Append(clientList, c) /\ handle' = handle /\ inbox' = inbox
  BY <1>0 DEF HandleConnected, Dispatching, peerVars
<1>2. c \in Clients /\ c \notin Listed /\ handle[c] # NoFd
  BY <1>0, <1>1, MailNext DEF SInv, Mails
<1>3. clientList \in Seq(Clients)
  BY DEF SInv, TypeOK
<1>4. ToSet(clientList') = ToSet(clientList) \union {c}
  BY <1>1, <1>2, <1>3, AppendOf
<1>5. SessionPhase(c)' = "playing"
  BY <1>1, <1>2, <1>4 DEF SessionPhase
<1>6. \A x \in Clients : x # c => SessionPhase(x)' = SessionPhase(x)
  BY <1>1, <1>4 DEF SessionPhase
<1>7. Phase' = [Phase EXCEPT ![c] = "playing"]
  BY <1>2, <1>5, <1>6, PhaseBut
<1>8. Phase[c] = "away"
  BY <1>2, PhaseIs
<1>9. Unread' = Unread
  BY <1>1, AnnouncementStill
<1> QED BY <1>2, <1>7, <1>8, <1>9 DEF Joins

LEMMA HandleDataHeard ==
    ASSUME SInv, HandleData
    PROVE  \E c \in Clients : Heard(c)
<1> DEFINE c == Head(msgQueue).from
<1>1. /\ msgQueue # <<>> /\ Head(msgQueue).type = "DATA" /\ msgQueue' = Tail(msgQueue)
      /\ clientList' = clientList /\ handle' = handle /\ inbox' = inbox
  BY DEF HandleData, Dispatching, peerVars, listVars
<1>2. c \in Clients /\ c \in Listed
  BY <1>1, MailNext DEF SInv, Mails
<1>3. /\ msgQueue \in Seq(Message)
      /\ \A x \in Clients : Spoken(msgQueue, x) \in Seq(Words) /\ inbox[x] \in Seq(Words)
  BY SessionTypes
<1>4. /\ Spoken(msgQueue, c) # <<>> /\ Spoken(Tail(msgQueue), c) = Tail(Spoken(msgQueue, c))
      /\ \A x \in Clients : x # c => Spoken(Tail(msgQueue), x) = Spoken(msgQueue, x)
  <2>1. Mine(Head(msgQueue), c) /\ \A x \in Clients : x # c => ~Mine(Head(msgQueue), x)
    BY <1>1 DEF Mine
  <2> HIDE DEF c
  <2> QED BY <1>1, <1>3, <2>1, SpokenFirst
<1> HIDE DEF c
<1> PICK a : a = Spoken(msgQueue, c)
  OBVIOUS
<1> PICK b : b = inbox[c]
  OBVIOUS
<1> PICK u : u = a \o b
  OBVIOUS
<1>5. a \in Seq(Words) /\ b \in Seq(Words) /\ a # <<>>
  BY <1>2, <1>3, <1>4
<1>6. u # <<>> /\ Tail(u) = Tail(a) \o b
  BY <1>5
<1>7. Unread[c] = u
  BY <1>2, PhaseIs
<1>8. Spoken(msgQueue', c) \o inbox'[c] = Tail(u)
  BY <1>1, <1>4, <1>6
<1>9. \A x \in Clients : x # c => Spoken(msgQueue', x) \o inbox'[x] = Unread[x]
  BY <1>1, <1>4, PhaseIs
<1>10. Unread' = [Unread EXCEPT ![c] = Tail(u)]
  BY <1>2, <1>8, <1>9, UnreadBut
<1>11. Phase' = Phase
  BY <1>1 DEF Phase, SessionPhase
<1>12. Phase[c] # "away"
  BY <1>2, PhaseIs
<1> QED BY <1>2, <1>6, <1>7, <1>10, <1>11, <1>12 DEF Heard

\* the hang-up is the last of a client's messages
LEMMA HandleHungUpLeaves ==
    ASSUME SInv, Silent, HandleHungUp
    PROVE  \E c \in Clients : Leaves(c)
<1>0. PICK c : c = Head(msgQueue).from
  OBVIOUS
<1>1. /\ msgQueue # <<>> /\ Head(msgQueue).type = "HUNG_UP" /\ msgQueue' = Tail(msgQueue)
      /\ clientList' = Without(clientList, c) /\ handle' = handle /\ inbox' = inbox
  BY <1>0 DEF HandleHungUp, Dispatching, Unlist, peerVars
<1>2. c \in Clients /\ c \in live /\ c \in Listed /\ handle[c] = NoFd
  BY <1>0, <1>1, MailNext DEF SInv, Mails
<1>3. \A i \in 1 .. Len(msgQueue) : ~Mine(msgQueue[i], c)
  <2>1. /\ msgQueue \in Seq(Message) /\ QueueGood(msgQueue, Listed, live, handle)
    BY DEF SInv, Mails, Mail
  <2>2. Head(msgQueue) = msgQueue[1] /\ 1 \in 1 .. Len(msgQueue)
    BY <1>1, <2>1, TailOf
  <2>3. \A j \in 1 .. Len(msgQueue) : msgQueue[j].from = c => j <= 1
    BY <1>0, <1>1, <2>1, <2>2 DEF QueueGood
  <2>4. \A j \in 1 .. Len(msgQueue) : j <= 1 => j = 1
    BY <2>1
  <2> QED BY <1>1, <2>2, <2>3, <2>4 DEF Mine
<1>4. msgQueue \in Seq(Message) /\ clientList \in Seq(Clients) /\ Distinct(clientList)
  BY DEF SInv, TypeOK, ListsInv
<1>5. Spoken(msgQueue, c) = <<>>
  BY <1>2, <1>3, <1>4, SpokenNothing
<1>6. inbox[c] = <<>>
  BY <1>2 DEF SInv, NetInv, Silent
<1>7. Unread[c] = <<>>
  <2>1. <<>> \o <<>> = <<>>
    OBVIOUS
  <2> QED BY <1>2, <1>5, <1>6, <2>1, PhaseIs
<1>8. Phase[c] = "leaving"
  BY <1>2, PhaseIs
<1>9. ToSet(clientList') = ToSet(clientList) \ {c}
  BY <1>1, <1>4, WithoutOf
<1>10. SessionPhase(c)' = "away"
  BY <1>9 DEF SessionPhase
<1>11. \A x \in Clients : x # c => SessionPhase(x)' = SessionPhase(x)
  BY <1>1, <1>9 DEF SessionPhase
<1>12. Phase' = [Phase EXCEPT ![c] = "away"]
  BY <1>2, <1>10, <1>11, PhaseBut
<1>13. Unread' = Unread
  BY <1>1, AnnouncementStill
<1> QED BY <1>2, <1>7, <1>8, <1>12, <1>13 DEF Leaves

\* a client that is closed with nothing read of it
LEMMA DropHangsEmpty ==
    ASSUME SInv, NEW c \in Listed, handle[c] # NoFd, Drop(c, Farewell(c, <<>>)), UNCHANGED clientList
    PROVE  Hangs(c)
<1>1. c \in Clients /\ inbox[c] \in Seq(Words)
  BY SessionTypes
<1>2. PICK n : n = 0
  OBVIOUS
<1>3. PICK d : d = Data(c, SubSeq(inbox[c], 1, n))
  OBVIOUS
<1>4. n \in 0 .. Len(inbox[c]) /\ SubSeq(inbox[c], 1, n) = <<>>
  BY <1>1, <1>2
<1>5. d = <<>>
  BY <1>3, <1>4 DEF Data
<1>6. Drop(c, Farewell(c, d))
  BY <1>5
<1> QED BY <1>3, <1>4, <1>6, DropHangs

LEMMA SendToStep ==
    ASSUME SInv, SendTo
    PROVE  SessionStep
<1> DEFINE c == Head(turn)
<1>1. /\ turn # <<>> /\ clientList' = clientList
      /\ \/ UNCHANGED <<peerVars, handle, msgQueue, handleVars>>
         \/ IsOpen(c) /\ Drop(c, Farewell(c, <<>>))
  BY DEF SendTo, listVars
<1>2. c \in Listed
  <2>1. turn \in Seq(Clients) /\ ToSet(turn) \subseteq Listed
    BY DEF SInv, TypeOK, ListsInv
  <2> QED BY <1>1, <2>1, TailOf
<1> HIDE DEF c
<1>3. CASE UNCHANGED <<peerVars, handle, msgQueue, handleVars>>
  BY <1>1, <1>3, StillIf DEF SessionStep, peerVars
<1>4. CASE IsOpen(c) /\ Drop(c, Farewell(c, <<>>))
  <2>1. Hangs(c) /\ c \in Clients
    BY <1>1, <1>2, <1>4, DropHangsEmpty, SessionTypes DEF IsOpen
  <2> QED BY <2>1 DEF SessionStep
<1> QED BY <1>1, <1>3, <1>4

LEMMA CloseDeadStep ==
    ASSUME SInv, CloseDead
    PROVE  SessionStep
<1> DEFINE c == Head(deadClientList)
<1>1. /\ deadClientList # <<>> /\ clientList' = clientList
      /\ \/ UNCHANGED <<peerVars, handle, msgQueue, handleVars>>
         \/ IsOpen(c) /\ Drop(c, Farewell(c, <<>>))
  BY DEF CloseDead
<1>2. c \in Listed
  <2>1. deadClientList \in Seq(Clients) /\ ToSet(deadClientList) \subseteq Listed
    BY DEF SInv, TypeOK, ListsInv
  <2> QED BY <1>1, <2>1, TailOf
<1> HIDE DEF c
<1>3. CASE UNCHANGED <<peerVars, handle, msgQueue, handleVars>>
  BY <1>1, <1>3, StillIf DEF SessionStep, peerVars
<1>4. CASE IsOpen(c) /\ Drop(c, Farewell(c, <<>>))
  <2>1. Hangs(c) /\ c \in Clients
    BY <1>1, <1>2, <1>4, DropHangsEmpty, SessionTypes DEF IsOpen
  <2> QED BY <2>1 DEF SessionStep
<1> QED BY <1>1, <1>3, <1>4

\* what c has sent is read, and c goes on
LEMMA ReadStill ==
    ASSUME SInv, NEW c \in Clients, NEW n, n = Len(inbox[c]),
           msgQueue' = msgQueue \o Data(c, SubSeq(inbox[c], 1, n)),
           inbox' = [inbox EXCEPT ![c] = <<>>], UNCHANGED <<clientList, handle>>
    PROVE  Still
<1>1. /\ msgQueue \in Seq(Message) /\ inbox \in [Clients -> Seq(Words)]
      /\ \A x \in Clients : Spoken(msgQueue, x) \in Seq(Words) /\ inbox[x] \in Seq(Words)
  BY SessionTypes
<1> PICK b : b = inbox[c]
  OBVIOUS
<1>2. b \in Seq(Words) /\ SubSeq(inbox[c], 1, n) = b
  BY <1>1
<1>3. msgQueue' = msgQueue \o Data(c, b)
  BY <1>2
<1>4. ASSUME NEW x \in Clients PROVE Spoken(msgQueue', x) \o inbox'[x] = Unread[x]
  <2>1. Spoken(msgQueue \o Data(c, b), x) = IF x = c THEN Spoken(msgQueue, x) \o b ELSE Spoken(msgQueue, x)
    BY <1>1, <1>2, SpokenMore
  <2>2. CASE x = c
    <3> PICK a : a = Spoken(msgQueue, x)
      OBVIOUS
    <3>1. (a \o b) \o <<>> = a \o b
      BY <1>1, <1>2
    <3>2. inbox'[x] = <<>>
      BY <1>1, <2>2
    <3>3. Spoken(msgQueue', x) = a \o b
      BY <1>3, <2>1, <2>2
    <3>4. Unread[x] = a \o b
      BY <2>2, PhaseIs
    <3> QED BY <3>1, <3>2, <3>3, <3>4
  <2>3. CASE x # c
    <3>1. inbox'[x] = inbox[x]
      BY <1>1, <2>3
    <3> QED BY <1>3, <2>1, <2>3, <3>1, PhaseIs
  <2> QED BY <2>2, <2>3
<1>5. Unread' = Unread
  BY <1>4, UnreadSame
<1>6. Phase' = Phase
  BY DEF Phase, SessionPhase
<1> QED BY <1>5, <1>6 DEF Still

LEMMA ReadFromStep ==
    ASSUME SInv, ReadFrom
    PROVE  SessionStep
<1> DEFINE c == Head(incomingClientList)
<1>1. /\ incomingClientList # <<>> /\ clientList' = clientList
      /\ \/ UNCHANGED <<errno, peerVars, handle, msgQueue, handleVars>>
         \/ IsOpen(c) /\ \E n \in 0 .. Len(inbox[c]) : Read(c, n)
  BY DEF ReadFrom
<1>2. c \in Listed
  <2>1. incomingClientList \in Seq(Clients) /\ ToSet(incomingClientList) \subseteq Listed
    BY DEF SInv, TypeOK, ListsInv
  <2> QED BY <1>1, <2>1, TailOf
<1> HIDE DEF c
<1>3. c \in Clients /\ inbox[c] \in Seq(Words)
  BY <1>2, SessionTypes
<1>4. CASE UNCHANGED <<errno, peerVars, handle, msgQueue, handleVars>>
  BY <1>1, <1>4, StillIf DEF SessionStep, peerVars
<1>5. ASSUME IsOpen(c), NEW n \in 0 .. Len(inbox[c]), Read(c, n)
      PROVE  SessionStep
  <2> PICK s : s = inbox[c]
    OBVIOUS
  <2> PICK k : k = n + 1
    OBVIOUS
  <2>1. handle[c] # NoFd
    BY <1>5 DEF IsOpen
  <2>2. CASE /\ n < Len(inbox[c])
             /\ Drop(c, Farewell(c, Data(c, SubSeq(inbox[c], 1, n)) \o Data(c, <<inbox[c][n + 1]>>)))
    <3>1. s \in Seq(Words) /\ n \in 0 .. Len(s) /\ n < Len(s)
      BY <1>3, <2>2
    <3>2. /\ Data(c, SubSeq(s, 1, n)) \o Data(c, <<s[n + 1]>>) = Data(c, SubSeq(s, 1, n + 1))
          /\ n + 1 \in 0 .. Len(s)
      BY <1>3, <3>1, ReadTogether
    <3> PICK d : d = Data(c, SubSeq(inbox[c], 1, k))
      OBVIOUS
    <3>3. Drop(c, Farewell(c, d)) /\ k \in 0 .. Len(inbox[c])
      BY <2>2, <3>2
    <3>4. Hangs(c)
      BY <1>1, <1>2, <2>1, <3>3, DropHangs
    <3> QED BY <1>3, <3>4 DEF SessionStep
  <2>3. CASE Drop(c, Farewell(c, Data(c, SubSeq(inbox[c], 1, n))))
    <3> PICK d : d = Data(c, SubSeq(inbox[c], 1, n))
      OBVIOUS
    <3>1. Drop(c, Farewell(c, d))
      BY <2>3
    <3>2. Hangs(c)
      BY <1>1, <1>2, <2>1, <3>1, DropHangs
    <3> QED BY <1>3, <3>2 DEF SessionStep
  <2>4. CASE /\ n = Len(inbox[c]) /\ msgQueue' = msgQueue \o Data(c, SubSeq(inbox[c], 1, n))
             /\ inbox' = [inbox EXCEPT ![c] = <<>>] /\ UNCHANGED handle
    <3>1. Still
      BY <1>1, <1>3, <2>4, ReadStill
    <3> QED BY <3>1 DEF SessionStep
  <2> QED BY <1>5, <2>2, <2>3, <2>4 DEF Read
<1> QED BY <1>1, <1>4, <1>5

LEMMA SessionNext ==
    ASSUME SInv, Silent, [Next]_vars
    PROVE  SessionStep
<1>1. CASE Peers
  <2>1. PICK c \in Clients : Dial(c) \/ PeerSends(c) \/ PeerCloses(c) \/ PeerResets(c)
    BY <1>1 DEF Peers
  <2>2. CASE PeerSends(c)
    BY <2>2, PeerSendsSpeaks DEF SessionStep
  <2>3. CASE Dial(c) \/ PeerCloses(c) \/ PeerResets(c)
    <3>1. UNCHANGED <<clientList, handle, msgQueue, inbox>>
      BY <2>3 DEF Dial, PeerCloses, PeerResets, listVars, objVars
    <3> QED BY <3>1, StillIf DEF SessionStep
  <2> QED BY <2>1, <2>2, <2>3
<1>2. CASE App \/ OwnConnects \/ OwnCloses \/ Poll \/ AcceptNoMore \/ Dispatched \/ LoopDone \/ UNCHANGED vars
  <2>1. UNCHANGED <<clientList, handle, msgQueue, inbox>>
    BY <1>2 DEF App, OwnConnects, OwnCloses, Poll, AcceptNoMore, Dispatched, LoopDone,
                vars, listVars, objVars, peerVars
  <2> QED BY <2>1, StillIf DEF SessionStep
<1>3. CASE \E c \in Clients : Accept(c)
  BY <1>3, AcceptStill DEF SessionStep
<1>4. CASE HandleConnected
  BY <1>4, HandleConnectedJoins DEF SessionStep
<1>5. CASE HandleData
  BY <1>5, HandleDataHeard DEF SessionStep
<1>6. CASE HandleHungUp
  BY <1>6, HandleHungUpLeaves DEF SessionStep
<1>7. CASE SendTo \/ CloseDead \/ ReadFrom
  BY <1>7, SendToStep, CloseDeadStep, ReadFromStep
<1> QED BY <1>1, <1>2, <1>3, <1>4, <1>5, <1>6, <1>7 DEF Next, Server

LEMMA SessionInit == Init => Silent /\ Sessions!Init
<1> SUFFICES ASSUME Init PROVE Silent /\ Sessions!Init
  OBVIOUS
<1> PICK z : z = <<>>
  OBVIOUS
<1>1. msgQueue = z /\ clientList = z /\ inbox = [c \in Clients |-> z]
  BY DEF Init
<1>2. ToSet(clientList) = {}
  BY EmptySeq DEF Init, ToSet
<1>3. Phase = [c \in Clients |-> "away"]
  BY <1>2 DEF Phase, SessionPhase
<1>4. Unread = [c \in Clients |-> <<>>]
  <2>1. \A c \in Clients : Spoken(msgQueue, c) = z
    BY <1>1, SpokenEmpty
  <2>2. z \o z = z
    OBVIOUS
  <2> QED BY <1>1, <2>1, <2>2 DEF Unread
<1>5. Silent
  BY <1>1 DEF Silent
<1> QED BY <1>3, <1>4, <1>5 DEF Sessions!Init, Phase, Unread

\* a step of a session is one of the abstract specification
LEMMA SessionIs == SessionStep => [Sessions!Next]_<<Phase, Unread>>
<1> SUFFICES ASSUME SessionStep PROVE [Sessions!Next]_<<Phase, Unread>>
  OBVIOUS
<1>1. CASE Still
  BY <1>1 DEF Still
<1>2. ASSUME NEW c \in Clients, Speaks(c) PROVE Sessions!Next
  <2>1. Sessions!Sends(c)
    BY <1>2 DEF Speaks, Sessions!Sends, Phase, Unread, Words
  <2> QED BY <2>1 DEF Sessions!Next
<1>3. ASSUME NEW c \in Clients, Joins(c) PROVE Sessions!Next
  <2>1. Sessions!Connected(c)
    BY <1>3 DEF Joins, Sessions!Connected, Phase, Unread
  <2> QED BY <2>1 DEF Sessions!Next
<1>4. ASSUME NEW c \in Clients, Heard(c) PROVE Sessions!Next
  <2>1. Sessions!Handled(c)
    BY <1>4 DEF Heard, Sessions!Handled, Phase, Unread
  <2> QED BY <2>1 DEF Sessions!Next
<1>5. ASSUME NEW c \in Clients, Hangs(c) PROVE Sessions!Next
  <2>1. Sessions!Closed(c)
    BY <1>5 DEF Hangs, Sessions!Closed, Phase, Unread
  <2> QED BY <2>1 DEF Sessions!Next
<1>6. ASSUME NEW c \in Clients, Leaves(c) PROVE Sessions!Next
  <2>1. Sessions!HungUp(c)
    BY <1>6 DEF Leaves, Sessions!HungUp, Phase, Unread
  <2> QED BY <2>1 DEF Sessions!Next
<1> QED BY <1>1, <1>2, <1>3, <1>4, <1>5, <1>6 DEF SessionStep

(* ImplementsClientSessions: whatever peers and handlers do, the program is *)
(* told of each client once, hears what it said in order, each message      *)
(* once, and is told of its end once, after everything that was read of it. *)
THEOREM SessionsImplemented == Spec => ImplementsClientSessions
<1>1. Init => Silent /\ Sessions!Init
  BY SessionInit
<1>2. SInv /\ Silent /\ [Next]_vars => Silent'
  BY SilentNext
<1>3. SInv /\ Silent /\ [Next]_vars
        => [Sessions!Next]_<<[c \in Clients |-> SessionPhase(c)],
                             [c \in Clients |-> Spoken(msgQueue, c) \o inbox[c]]>>
  BY SessionNext, SessionIs DEF Phase, Unread
<1> QED BY <1>1, <1>2, <1>3, SInvHolds, PTL DEF Spec, ImplementsClientSessions, Sessions!Spec
=============================================================================
