------------------------- MODULE AccountLogin_proofs -------------------------
(***************************************************************************)
(* Proofs that IInv is an invariant of AccountLogin under Sound, and what  *)
(* follows from it.  One lemma per action shows that the action preserves  *)
(* IInv; most of them show what becomes of the tokens of an account and    *)
(* leave the rest to the lemmas on queues and on tokens that come first.   *)
(***************************************************************************)
EXTENDS AccountLoginInv, SequenceTheorems, FiniteSetTheorems, TLAPS

-----------------------------------------------------------------------------
(* Queues of contexts. *)

\* gPendingLogins.del keeps the other contexts, in their order.
LEMMA WithoutFacts ==
    ASSUME NEW q \in Seq(Context), Ordered(q),
           NEW p \in 1 .. Len(q)
    PROVE  LET w == Without(q, q[p].id) IN
           /\ w \in Seq(Context)
           /\ Ordered(w)
           /\ \A j \in 1 .. Len(w) : w[j].id # q[p].id /\ \E i \in 1 .. Len(q) : w[j] = q[i]
           /\ \A i \in 1 .. Len(q) : i # p => \E j \in 1 .. Len(w) : w[j] = q[i]
           /\ q[1].id # q[p].id => StartId(w) = StartId(q)
<1> DEFINE w == Without(q, q[p].id)
           front == SubSeq(q, 1, p - 1)
           back == SubSeq(q, p + 1, Len(q))
<1>0. \A i \in 1 .. Len(q) : q[i] \in Context /\ q[i].id \in Int
  <2>1. \A i \in 1 .. Len(q) : q[i] \in Context
    BY ElementOfSeq
  <2>2. \A x \in Context : x.id \in Int
    BY LoginConstants DEF Context, Ids
  <2> QED BY <2>1, <2>2
<1>1. Pos(q, q[p].id) = p
  BY <1>0 DEF Pos, Ordered
<1>2. front \in Seq(Context) /\ Len(front) = p - 1 /\ \A i \in 1 .. p - 1 : front[i] = q[i]
  BY <1>0, SubSeqProperties
<1>3. /\ back \in Seq(Context) /\ Len(back) = Len(q) - p
      /\ \A i \in 1 .. Len(q) - p : back[i] = q[i + p]
  <2>1. p + 1 \in Int /\ Len(q) \in Int /\ \A i \in p + 1 .. Len(q) : q[i] \in Context
    BY <1>0
  <2> QED BY <2>1, SubSeqProperties
<1>4. w = front \o back
  BY <1>1 DEF Without, RemoveAt
<1>5. /\ w \in Seq(Context) /\ Len(w) = Len(q) - 1
      /\ \A i \in 1 .. Len(q) - 1 : w[i] = IF i < p THEN q[i] ELSE q[i + 1]
  <2> HIDE DEF front, back, w
  <2> QED BY <1>2, <1>3, <1>4, ConcatProperties, SMTT(30)
<1> HIDE DEF w
<1>6. Ordered(w)
  <2>1. SUFFICES ASSUME NEW i \in 1 .. Len(w), NEW j \in 1 .. Len(w), i < j
                 PROVE  w[i].id < w[j].id
    BY DEF Ordered
  <2>2. PICK m \in 1 .. Len(q), n \in 1 .. Len(q) : w[i] = q[m] /\ w[j] = q[n] /\ m < n
    <3>1. CASE j < p
      <4>1. i \in 1 .. Len(q) /\ j \in 1 .. Len(q) /\ i < p BY <1>5, <2>1, <3>1
      <4> QED BY <1>5, <2>1, <3>1, <4>1
    <3>2. CASE i < p /\ ~(j < p)
      <4>1. i \in 1 .. Len(q) /\ j + 1 \in 1 .. Len(q) /\ i < j + 1 BY <1>5, <2>1
      <4> QED BY <1>5, <3>2, <4>1
    <3>3. CASE ~(i < p)
      <4>1. i + 1 \in 1 .. Len(q) /\ j + 1 \in 1 .. Len(q) /\ i + 1 < j + 1 /\ ~(j < p)
        BY <1>5, <2>1, <3>3
      <4> QED BY <1>5, <3>3, <4>1
    <3> QED BY <3>1, <3>2, <3>3
  <2> QED BY <2>2 DEF Ordered
<1>7. \A j \in 1 .. Len(w) : w[j].id # q[p].id /\ \E i \in 1 .. Len(q) : w[j] = q[i]
  BY <1>0, <1>5, SMTT(30) DEF Ordered
<1>8. ASSUME NEW i \in 1 .. Len(q), i # p
      PROVE  \E j \in 1 .. Len(w) : w[j] = q[i]
  <2>1. CASE i < p BY <2>1, <1>5
  <2>2. CASE i > p
    <3>1. i - 1 \in 1 .. Len(w) /\ w[i - 1] = q[i]
      BY <2>2, <1>5
    <3> QED BY <3>1
  <2> QED BY <1>8, <2>1, <2>2
<1>9. ASSUME q[1].id # q[p].id
      PROVE  StartId(w) = StartId(q)
  <2>1. p > 1 /\ Len(w) > 0 /\ w[1] = q[1]
    BY <1>9, <1>5
  <2>2. w # <<>> /\ q # <<>> /\ Head(w) = w[1] /\ Head(q) = q[1]
    BY <2>1, <1>5
  <2> QED BY <2>1, <2>2 DEF StartId
<1> QED BY <1>5, <1>6, <1>7, <1>8, <1>9 DEF w

-----------------------------------------------------------------------------
(* What a server has queued and sends. *)

\* The conjuncts of QueueInv for one server.
LEMMA QueueFacts ==
    ASSUME TypeOK, NEW s \in Servers, NEW i \in 1 .. Len(pending[s])
    PROVE  /\ pending[s] \in Seq(Context)
           /\ pending[s][i].id \in Ids /\ pending[s][i].id \in Int
           /\ pending[s][i].acct \in Accounts
           /\ pending[s][i].client \in Clients
<1>1. pending[s] \in Seq(Context)
  BY DEF TypeOK
<1>2. pending[s][i] \in Context
  BY <1>1, ElementOfSeq
<1>3. \A x \in Context : x.id \in Ids /\ x.acct \in Accounts /\ x.client \in Clients
  BY DEF Context
<1>4. \A n \in Ids : n \in Int
  BY LoginConstants DEF Ids
<1> QED BY <1>1, <1>2, <1>3, <1>4

\* A server's current connection is one of ConnIds, and connections differ.
LEMMA CurFacts ==
    ASSUME TypeOK, NEW s \in Servers
    PROVE  Cur(s) \in ConnIds /\ Cur(s)[1] = s /\ Sent[s] \in Seq(Request)
BY LoginConstants DEF TypeOK, Cur, ConnIds, Sent

\* Send appends the messages to what the server has sent, whether or not it is connected.
LEMMA SendFacts ==
    ASSUME TypeOK, LinkInv, NEW s \in Servers, proc[s],
           NEW ms \in Seq(Request), Send(s, ms),
           UNCHANGED <<cur, conn, proc>>
    PROVE  /\ req' \in [ConnIds -> Seq(Request)]
           /\ out' \in [Servers -> Seq(Request)]
           /\ Sent'[s] = Sent[s] \o ms
           /\ \A t \in Servers : t # s => Sent'[t] = Sent[t]
           /\ (\A t \in Servers : rep'[t] # <<>> => rep[t] # <<>>) => LinkInv'
<1>0. /\ Cur(s) \in ConnIds /\ Cur(s)[1] = s
      /\ \A t \in Servers : Cur(t)' = Cur(t) /\ Cur(t) \in ConnIds /\ (t # s => Cur(t) # Cur(s))
  BY CurFacts DEF Cur
<1>1. req[Cur(s)] \in Seq(Request) /\ out[s] \in Seq(Request)
  BY <1>0 DEF TypeOK
<1>2. CASE Linked(s)
  <2>1. req' = [req EXCEPT ![Cur(s)] = @ \o ms] /\ out' = out
    BY <1>2 DEF Send
  <2>2. out[s] = <<>>
    BY <1>2, <1>0 DEF LinkInv, Linked
  <2>3. req'[Cur(s)] = req[Cur(s)] \o ms /\ \A k \in ConnIds : k # Cur(s) => req'[k] = req[k]
    BY <2>1, <1>0 DEF TypeOK
  <2>4. req[Cur(s)] \o ms \in Seq(Request)
    BY <1>1, ConcatProperties
  <2>5. req' \in [ConnIds -> Seq(Request)] /\ out' \in [Servers -> Seq(Request)]
    BY <2>1, <2>4, <1>0 DEF TypeOK
  <2>6. Sent'[s] = Sent[s] \o ms
    BY <2>1, <2>2, <2>3, <1>0 DEF Sent
  <2>7. \A t \in Servers : t # s => Sent'[t] = Sent[t]
    BY <2>1, <2>3, <1>0 DEF Sent
  <2>8. (\A t \in Servers : rep'[t] # <<>> => rep[t] # <<>>) => LinkInv'
    BY <2>1, <2>3, <1>2, <1>0, ZenonT(60) DEF LinkInv, Linked, Cur
  <2> QED BY <2>5, <2>6, <2>7, <2>8
<1>3. CASE ~Linked(s)
  <2>1. out' = [out EXCEPT ![s] = @ \o ms] /\ req' = req
    BY <1>3 DEF Send
  <2>2. conn[Cur(s)].st = "none" /\ req[Cur(s)] = <<>>
    BY <1>3, <1>0 DEF LinkInv, Linked, TypeOK, ConnState
  <2>3. out'[s] = out[s] \o ms /\ \A t \in Servers : t # s => out'[t] = out[t]
    BY <2>1 DEF TypeOK
  <2>4. out[s] \o ms \in Seq(Request)
    BY <1>1, ConcatProperties
  <2>5. req' \in [ConnIds -> Seq(Request)] /\ out' \in [Servers -> Seq(Request)]
    BY <2>1, <2>4 DEF TypeOK
  <2>6. Sent'[s] = Sent[s] \o ms
    BY <2>1, <2>2, <2>3, <1>0 DEF Sent
  <2>7. \A t \in Servers : t # s => Sent'[t] = Sent[t]
    BY <2>1, <2>3, <1>0 DEF Sent
  <2>8. (\A t \in Servers : rep'[t] # <<>> => rep[t] # <<>>) => LinkInv'
    BY <2>1, <2>2, <2>3, <1>0, SMTT(30) DEF LinkInv, Cur
  <2> QED BY <2>5, <2>6, <2>7, <2>8
<1> QED BY <1>2, <1>3

-----------------------------------------------------------------------------
(* Tokens under steps that create none: sessions end, responses and what    *)
(* was sent are consumed from the front, and what is newly sent holds no    *)
(* logout.  A lock may change if the account is left with no token.         *)

NoToken(a, S, R, M) ==
    /\ \A c \in Clients : S[c] # a
    /\ \A s \in Servers : \A i \in 1 .. Len(R[s]) : R[s][i].ok => R[s][i].acct # a
    /\ \A s \in Servers : \A i \in 1 .. Len(M[s]) : M[s][i].type = "LOGOUT" => M[s][i].acct # a

\* Tokens stay right when sessions, responses and logouts only go away, and a lock
\* changes only where no token is left.
LEMMA TokensKept ==
    ASSUME TypeOK, TokenInv,
           \A a \in Exclusive : locks'[a] = locks[a] \/ NoToken(a, sess', rep', Sent'),
           \A c \in Clients : sess'[c] \in Exclusive => sess'[c] = sess[c] /\ srv'[c] = srv[c],
           \A c \in Clients : sess'[c] = sess[c] \/ sess'[c] = NoAcct,
           \A s \in Servers : rep'[s] \in Seq(Reply) /\ \E n \in Nat :
               \A i \in 1 .. Len(rep'[s]) :
                   rep'[s][i].ok /\ rep'[s][i].acct \in Exclusive =>
                       i + n \in 1 .. Len(rep[s]) /\ rep'[s][i] = rep[s][i + n],
           \A s \in Servers : Sent'[s] \in Seq(Request) /\ \E n \in Nat :
               \A i \in 1 .. Len(Sent'[s]) :
                   Sent'[s][i].type = "LOGOUT" =>
                       i + n \in 1 .. Len(Sent[s]) /\ Sent'[s][i] = Sent[s][i + n]
    PROVE  TokenInv'
<1>0. \A a \in Exclusive : a \in Accounts /\ a # NoAcct
  BY LoginConstants DEF Exclusive
<1>1. PlayerTokens'
  <2>1. ASSUME NEW c \in Clients, sess'[c] \in Exclusive
        PROVE  locks'[sess'[c]] = srv'[c]
    <3>1. sess'[c] = sess[c] /\ srv'[c] = srv[c] /\ locks[sess[c]] = srv[c]
      BY <2>1 DEF TokenInv, PlayerTokens
    <3>2. ~NoToken(sess'[c], sess', rep', Sent')
      BY DEF NoToken
    <3> QED BY <2>1, <3>1, <3>2
  <2>2. ASSUME NEW c \in Clients, NEW d \in Clients, sess'[c] \in Exclusive, sess'[c] = sess'[d]
        PROVE  c = d
    BY <2>2 DEF TokenInv, PlayerTokens
  <2> QED BY <2>1, <2>2 DEF PlayerTokens
<1>2. ReplyTokens'
  <2>1. SUFFICES ASSUME NEW s \in Servers, NEW i \in 1 .. Len(rep'[s]),
                        rep'[s][i].ok, rep'[s][i].acct \in Exclusive
                 PROVE  /\ locks'[rep'[s][i].acct] = s
                        /\ \A c \in Clients : sess'[c] # rep'[s][i].acct
                        /\ \A j \in 1 .. Len(rep'[s]) :
                              rep'[s][j].ok /\ rep'[s][j].acct = rep'[s][i].acct => i = j
                        /\ \A j \in 1 .. Len(Sent'[s]) : Sent'[s][j] # LogoutMsg(rep'[s][i].acct)
    BY ZenonT(60) DEF ReplyTokens, LogoutMsg
  <2> DEFINE a == rep'[s][i].acct
  <2>2. PICK n \in Nat : \A x \in 1 .. Len(rep'[s]) :
                            rep'[s][x].ok /\ rep'[s][x].acct \in Exclusive =>
                                x + n \in 1 .. Len(rep[s]) /\ rep'[s][x] = rep[s][x + n]
    OBVIOUS
  <2>3. i + n \in 1 .. Len(rep[s]) /\ rep[s][i + n].ok /\ rep[s][i + n].acct = a
    BY <2>1, <2>2
  <2>4. /\ locks[a] = s
        /\ \A c \in Clients : sess[c] # a
        /\ \A j \in 1 .. Len(rep[s]) : rep[s][j].ok /\ rep[s][j].acct = a => i + n = j
        /\ \A j \in 1 .. Len(Sent[s]) : Sent[s][j] # LogoutMsg(a)
    BY <2>1, <2>3 DEF TokenInv, ReplyTokens
  <2>5. locks'[a] = s
    <3>1. ~NoToken(a, sess', rep', Sent')
      BY <2>1 DEF NoToken
    <3> QED BY <2>1, <2>4, <3>1
  <2>6. \A c \in Clients : sess'[c] # a
    BY <2>1, <2>4, <1>0
  <2>7. \A j \in 1 .. Len(rep'[s]) : rep'[s][j].ok /\ rep'[s][j].acct = a => i = j
    <3> SUFFICES ASSUME NEW j \in 1 .. Len(rep'[s]), rep'[s][j].ok, rep'[s][j].acct = a
                 PROVE  i = j
      OBVIOUS
    <3>1. j + n \in 1 .. Len(rep[s]) /\ rep[s][j + n].ok /\ rep[s][j + n].acct = a
      BY <2>1, <2>2
    <3>2. i + n = j + n
      BY <2>4, <3>1
    <3> QED BY <3>2
  <2>8. \A j \in 1 .. Len(Sent'[s]) : Sent'[s][j] # LogoutMsg(a)
    <3> SUFFICES ASSUME NEW j \in 1 .. Len(Sent'[s]), Sent'[s][j] = LogoutMsg(a)
                 PROVE  FALSE
      OBVIOUS
    <3>0. Sent'[s][j].type = "LOGOUT"
      BY DEF LogoutMsg
    <3>1. PICK m \in Nat : j + m \in 1 .. Len(Sent[s]) /\ Sent'[s][j] = Sent[s][j + m]
      BY <3>0
    <3> QED BY <2>4, <3>1
  <2> QED BY <2>5, <2>6, <2>7, <2>8
<1>3. LogoutTokens'
  <2>1. SUFFICES ASSUME NEW s \in Servers, NEW i \in 1 .. Len(Sent'[s]),
                        Sent'[s][i].type = "LOGOUT", Sent'[s][i].acct \in Exclusive
                 PROVE  /\ locks'[Sent'[s][i].acct] = s
                        /\ \A c \in Clients : sess'[c] # Sent'[s][i].acct
                        /\ \A j \in 1 .. Len(Sent'[s]) : Sent'[s][j] = Sent'[s][i] => i = j
    BY DEF LogoutTokens
  <2> DEFINE a == Sent'[s][i].acct
  <2>2. PICK n \in Nat : \A x \in 1 .. Len(Sent'[s]) : Sent'[s][x].type = "LOGOUT" =>
                            x + n \in 1 .. Len(Sent[s]) /\ Sent'[s][x] = Sent[s][x + n]
    OBVIOUS
  <2>3. i + n \in 1 .. Len(Sent[s]) /\ Sent[s][i + n].type = "LOGOUT" /\ Sent[s][i + n].acct = a
    BY <2>1, <2>2
  <2>4. /\ locks[a] = s
        /\ \A c \in Clients : sess[c] # a
        /\ \A j \in 1 .. Len(Sent[s]) : Sent[s][j] = Sent[s][i + n] => i + n = j
    BY <2>1, <2>3 DEF TokenInv, LogoutTokens
  <2>5. locks'[a] = s
    <3>1. ~NoToken(a, sess', rep', Sent')
      BY <2>1 DEF NoToken
    <3> QED BY <2>1, <2>4, <3>1
  <2>6. \A c \in Clients : sess'[c] # a
    BY <2>1, <2>4, <1>0
  <2>7. \A j \in 1 .. Len(Sent'[s]) : Sent'[s][j] = Sent'[s][i] => i = j
    <3> SUFFICES ASSUME NEW j \in 1 .. Len(Sent'[s]), Sent'[s][j] = Sent'[s][i] PROVE i = j
      OBVIOUS
    <3>1. j + n \in 1 .. Len(Sent[s]) /\ Sent[s][j + n] = Sent[s][i + n]
      BY <2>1, <2>2
    <3> QED BY <2>4, <3>1
  <2> QED BY <2>5, <2>6, <2>7
<1> QED BY <1>1, <1>2, <1>3 DEF TokenInv

-----------------------------------------------------------------------------
(* The initial states and the handlers of a game server. *)

\* The invariant holds when every server has just connected.
LEMMA InitIInv == Init => IInv
<1> SUFFICES ASSUME Init PROVE IInv
  OBVIOUS
<1> USE LoginConstants DEF Init, DmInit
<1>1. TypeOK
  <2>1. HelloMsg \in Request
    BY DEF HelloMsg, Request
  <2>2. <<HelloMsg>> \in Seq(Request) /\ <<>> \in Seq(Request)
    BY <2>1
  <2>3. req \in [ConnIds -> Seq(Request)] /\ out \in [Servers -> Seq(Request)]
    BY <2>2
  <2>4. conn \in [ConnIds -> ConnState]
    BY DEF ConnState
  <2>5. 1 \in 1 .. MaxConn /\ 0 \in 0 .. MaxLogin /\ 0 \in Int
    OBVIOUS
  <2>6. DmTypeOK
    BY <2>5 DEF DmTypeOK
  <2>7. tree \in [Servers -> [Accounts -> Clients \union {NoClient}]]
    OBVIOUS
  <2> QED BY <2>3, <2>4, <2>5, <2>6, <2>7 DEF TypeOK
<1>2. PlayersInv /\ QueueInv /\ ContextInv
  BY DEF PlayersInv, QueueInv, ContextInv, StartId, Ordered
<1>3. LinkInv
  BY DEF LinkInv, Cur, ConnIds
<1>4. TokenInv
  <2>1. \A s \in Servers : Sent[s] = <<HelloMsg>> /\ rep[s] = <<>>
    BY DEF Sent, Cur, ConnIds
  <2>2. PlayerTokens /\ ReplyTokens
    BY <2>1 DEF PlayerTokens, ReplyTokens, Exclusive
  <2>3. LogoutTokens
    BY <2>1 DEF LogoutTokens, HelloMsg
  <2> QED BY <2>2, <2>3 DEF TokenInv
<1> QED BY <1>1, <1>2, <1>3, <1>4 DEF IInv

\* steps that send and receive nothing and end no session
LEMMA QuietTokens ==
    ASSUME IInv, UNCHANGED <<locks, sess, rep, req, out, cur>>,
           \A c \in Clients : sess[c] # NoAcct => srv'[c] = srv[c]
    PROVE  TokenInv'
<1>1. Sent' = Sent
  BY DEF Sent, Cur
<1> QED BY <1>1, LoginConstants
        DEF IInv, TokenInv, PlayerTokens, ReplyTokens, LogoutTokens, Exclusive

\* Accepting a client preserves the invariant.
LEMMA ConnectIInv ==
    ASSUME IInv, NEW c \in Clients, NEW s \in Servers, Connect(c, s)
    PROVE  IInv'
<1> USE LoginConstants DEF IInv, Connect, Runs, vars, dmVars, playerVars, queueVars, linkVars
<1>1. TypeOK'
  BY DEF TypeOK, DmTypeOK
<1>2. PlayersInv'
  BY DEF PlayersInv, TypeOK
<1>3. \A d \in Clients : ctx[d] # NoId \/ sess[d] # NoAcct => srv'[d] = srv[d]
  BY DEF PlayersInv, TypeOK
<1>4. QueueInv'
  <2>1. \A t \in Servers : \A i \in 1 .. Len(pending[t]) :
           pending[t][i].client \in Clients /\ pending[t][i].client # c
    BY QueueFacts DEF QueueInv
  <2> QED BY <2>1, SMTT(30) DEF QueueInv, TypeOK, Ordered, StartId
<1>5. ContextInv'
  BY <1>3 DEF ContextInv
<1>6. LinkInv'
  BY DEF LinkInv, Cur
<1>7. TokenInv'
  BY <1>3, QuietTokens
<1> QED BY <1>1, <1>2, <1>4, <1>5, <1>6, <1>7

\* Marking a client dead preserves the invariant.
LEMMA ForceLogoutIInv ==
    ASSUME IInv, NEW c \in Clients, ForceLogout(c)
    PROVE  IInv'
<1> USE LoginConstants DEF IInv, ForceLogout, Runs, vars, dmVars, playerVars, queueVars, linkVars
<1>1. TypeOK'
  BY DEF TypeOK, DmTypeOK
<1>2. PlayersInv' /\ ContextInv'
  BY DEF PlayersInv, ContextInv
<1>3. QueueInv'
  BY DEF QueueInv, StartId, Ordered
<1>4. LinkInv'
  BY DEF LinkInv, Cur
<1>5. TokenInv'
  BY QuietTokens
<1> QED BY <1>1, <1>2, <1>3, <1>4, <1>5

\* steps of a server that only send, and no logout
LEMMA SendTokens ==
    ASSUME IInv, NEW s \in Servers, NEW ms \in Seq(Request),
           \A i \in 1 .. Len(ms) : ms[i].type # "LOGOUT",
           Sent'[s] = Sent[s] \o ms,
           \A t \in Servers : t # s => Sent'[t] = Sent[t],
           UNCHANGED <<locks, sess, srv, rep>>
    PROVE  TokenInv'
<1>1. \A t \in Servers : rep'[t] \in Seq(Reply) /\ \E n \in Nat :
         \A i \in 1 .. Len(rep'[t]) : rep'[t][i].ok /\ rep'[t][i].acct \in Exclusive =>
             i + n \in 1 .. Len(rep[t]) /\ rep'[t][i] = rep[t][i + n]
  <2> SUFFICES ASSUME NEW t \in Servers
               PROVE  rep'[t] \in Seq(Reply) /\ \A i \in 1 .. Len(rep'[t]) :
                        i + 0 \in 1 .. Len(rep[t]) /\ rep'[t][i] = rep[t][i + 0]
    OBVIOUS
  <2>1. rep[t] \in Seq(Reply)
    BY DEF IInv, TypeOK
  <2> QED BY <2>1
<1>2. \A t \in Servers : Sent'[t] \in Seq(Request) /\ \E n \in Nat :
         \A i \in 1 .. Len(Sent'[t]) : Sent'[t][i].type = "LOGOUT" =>
             i + n \in 1 .. Len(Sent[t]) /\ Sent'[t][i] = Sent[t][i + n]
  <2> SUFFICES ASSUME NEW t \in Servers
               PROVE  Sent'[t] \in Seq(Request) /\
                      \A i \in 1 .. Len(Sent'[t]) : Sent'[t][i].type = "LOGOUT" =>
                         i + 0 \in 1 .. Len(Sent[t]) /\ Sent'[t][i] = Sent[t][i + 0]
    OBVIOUS
  <2>1. Sent[t] \in Seq(Request)
    BY CurFacts DEF IInv
  <2>2. CASE t # s
    BY <2>1, <2>2
  <2>3. CASE t = s
    <3>1. /\ Sent'[t] \in Seq(Request)
          /\ Len(Sent'[t]) = Len(Sent[t]) + Len(ms)
          /\ \A i \in 1 .. Len(Sent[t]) + Len(ms) :
               Sent'[t][i] = IF i <= Len(Sent[t]) THEN Sent[t][i] ELSE ms[i - Len(Sent[t])]
      <4>1. Sent'[t] = Sent[t] \o ms
        BY <2>3
      <4> QED BY <2>1, <4>1, ConcatProperties
    <3>2. Len(Sent[t]) \in Nat /\ Len(ms) \in Nat
      BY <2>1
    <3>3. SUFFICES ASSUME NEW i \in 1 .. Len(Sent'[t]), Sent'[t][i].type = "LOGOUT"
                   PROVE  i \in 1 .. Len(Sent[t]) /\ Sent'[t][i] = Sent[t][i]
      BY <3>1
    <3>4. CASE i <= Len(Sent[t])
      BY <3>1, <3>2, <3>4
    <3>5. CASE ~(i <= Len(Sent[t]))
      <4>1. i - Len(Sent[t]) \in 1 .. Len(ms) /\ Sent'[t][i] = ms[i - Len(Sent[t])]
        BY <3>1, <3>2, <3>5
      <4> QED BY <4>1, <3>3
    <3> QED BY <3>4, <3>5
  <2> QED BY <2>2, <2>3
<1>3. TypeOK /\ TokenInv
  BY DEF IInv
<1> QED BY <1>1, <1>2, <1>3, TokensKept

\* CHECK_LOGIN, queued or taken for a ghost, preserves the invariant.
LEMMA CheckLoginIInv ==
    ASSUME IInv, Sound, NEW c \in Clients, NEW a \in Accounts, CheckLogin(c, a)
    PROVE  IInv'
<1> DEFINE s == srv[c]
           x == [id |-> counter[s], acct |-> a, client |-> c]
<1>0. /\ s \in Servers /\ proc[s] /\ ctx[c] = NoId /\ sess[c] = NoAcct
      /\ \A t \in Servers : \A i \in 1 .. Len(pending[t]) : pending[t][i].client # c
  <2>1. s \in Servers /\ proc[s] /\ ctx[c] = NoId /\ sess[c] = NoAcct
    BY DEF IInv, TypeOK, CheckLogin, Runs, Sound
  <2>2. \A t \in Servers : \A i \in 1 .. Len(pending[t]) : pending[t][i].client # c
    BY <2>1, QueueFacts, LoginConstants DEF IInv, QueueInv, NoId, Ids
  <2> QED BY <2>1, <2>2
<1>1. UNCHANGED <<dmVars, proc, srv, sess, tree, cur, conn, rep>>
  BY DEF CheckLogin
<1>2. CASE Ghosted(s, a)
  <2> USE <1>0, <1>1, <1>2 DEF IInv, Ghosted, dmVars
  <2>1. TypeOK'
    BY DEF TypeOK, DmTypeOK
  <2>2. PlayersInv' /\ ContextInv' /\ QueueInv' /\ LinkInv'
    BY DEF PlayersInv, ContextInv, QueueInv, StartId, Ordered, LinkInv, Cur
  <2>3. TokenInv'
    BY QuietTokens
  <2> QED BY <2>1, <2>2, <2>3
<1>3. CASE QueueLogin(s, c, a)
  <2> DEFINE ms == IF pending[s] = <<>> THEN <<LoginMsg(x)>> ELSE <<>>
  <2>1. /\ counter[s] < MaxLogin
        /\ counter' = [counter EXCEPT ![s] = @ + 1]
        /\ ctx' = [ctx EXCEPT ![c] = x.id]
        /\ pending' = [pending EXCEPT ![s] = Append(@, x)]
        /\ active' = IF pending[s] = <<>> THEN [active EXCEPT ![s] = x.id] ELSE active
        /\ Send(s, ms)
        /\ UNCHANGED dead
    BY <1>3 DEF QueueLogin
  <2>2. x \in Context /\ counter[s] \in Ids /\ counter[s] + 1 \in 0 .. MaxLogin
    BY <1>0, <2>1, LoginConstants, SMTT(30) DEF IInv, TypeOK, Context, Ids
  <2>3. ms \in Seq(Request) /\ \A i \in 1 .. Len(ms) : ms[i].type # "LOGOUT"
    <3>1. LoginMsg(x) \in Request /\ LoginMsg(x).type # "LOGOUT"
      BY <2>2 DEF LoginMsg, Request
    <3> HIDE DEF x
    <3> QED BY <3>1
  <2> HIDE DEF ms, x
  <2>4. /\ req' \in [ConnIds -> Seq(Request)] /\ out' \in [Servers -> Seq(Request)]
        /\ Sent'[s] = Sent[s] \o ms
        /\ \A t \in Servers : t # s => Sent'[t] = Sent[t]
        /\ LinkInv'
    BY <1>0, <1>1, <2>1, <2>3, SendFacts DEF IInv
  <2>5. /\ pending[s] \in Seq(Context)
        /\ pending'[s] = Append(pending[s], x)
        /\ pending' \in [Servers -> Seq(Context)]
        /\ \A t \in Servers : t # s => pending'[t] = pending[t]
    BY <1>0, <2>1, <2>2 DEF IInv, TypeOK
  <2>6. TypeOK'
    <3>1. active' \in [Servers -> Ids \union {NoId}] /\ ctx' \in [Clients -> Ids \union {NoId}]
          /\ counter' \in [Servers -> 0 .. MaxLogin]
      BY <1>0, <2>1, <2>2 DEF IInv, TypeOK, x
    <3>2. DmTypeOK'
      BY <1>1 DEF IInv, TypeOK, DmTypeOK, dmVars
    <3> QED BY <1>1, <2>1, <2>4, <2>5, <3>1, <3>2 DEF IInv, TypeOK
  <2>7. PlayersInv'
    BY <1>0, <1>1, <2>1, LoginConstants DEF IInv, TypeOK, PlayersInv
  <2>8. QueueInv'
    <3>1. SUFFICES ASSUME NEW t \in Servers
                   PROVE  /\ active'[t] = StartId(pending'[t])
                          /\ Ordered(pending'[t])
                          /\ \A i \in 1 .. Len(pending'[t]) :
                               /\ pending'[t][i].id < counter'[t]
                               /\ srv[pending'[t][i].client] = t
                               /\ ctx'[pending'[t][i].client] = pending'[t][i].id
                               /\ sess[pending'[t][i].client] = NoAcct
      BY <1>1 DEF QueueInv, Ordered, StartId
    <3>2. /\ active[t] = StartId(pending[t]) /\ Ordered(pending[t])
          /\ \A i \in 1 .. Len(pending[t]) :
                /\ pending[t][i].id < counter[t]
                /\ srv[pending[t][i].client] = t
                /\ ctx'[pending[t][i].client] = pending[t][i].id
                /\ sess[pending[t][i].client] = NoAcct
                /\ pending[t][i].id \in Int
      <4>1. active[t] = StartId(pending[t]) /\ Ordered(pending[t])
        BY DEF IInv, QueueInv
      <4>2. ASSUME NEW i \in 1 .. Len(pending[t])
            PROVE  /\ pending[t][i].id < counter[t]
                   /\ srv[pending[t][i].client] = t
                   /\ ctx[pending[t][i].client] = pending[t][i].id
                   /\ sess[pending[t][i].client] = NoAcct
                   /\ pending[t][i].id \in Int
                   /\ pending[t][i].client \in Clients
        BY QueueFacts DEF IInv, QueueInv
      <4>3. \A d \in Clients : d # c => ctx'[d] = ctx[d]
        BY <2>1 DEF IInv, TypeOK
      <4> QED BY <1>0, <4>1, <4>2, <4>3
    <3>3. CASE t # s
      <4>1. active'[t] = active[t] /\ counter'[t] = counter[t]
        BY <1>0, <2>1, <3>3 DEF IInv, TypeOK
      <4> QED BY <2>5, <3>2, <3>3, <4>1
    <3>4. CASE t = s
      <4>1. /\ Len(pending'[s]) = Len(pending[s]) + 1 /\ Len(pending[s]) \in Nat
            /\ \A i \in 1 .. Len(pending[s]) : pending'[s][i] = pending[s][i]
            /\ pending'[s][Len(pending[s]) + 1] = x
        BY <2>5
      <4>2. counter'[s] = counter[s] + 1 /\ ctx'[c] = counter[s] /\ counter[s] \in Int
        BY <1>0, <2>1, LoginConstants DEF IInv, TypeOK, x
      <4>3. x.id = counter[s] /\ x.client = c
        BY DEF x
      <4>4. Ordered(pending'[s])
        <5>1. SUFFICES ASSUME NEW i \in 1 .. Len(pending'[s]), NEW j \in 1 .. Len(pending'[s]), i < j
                       PROVE  pending'[s][i].id < pending'[s][j].id
          BY DEF Ordered
        <5>2. i \in 1 .. Len(pending[s])
          BY <4>1, <5>1
        <5>3. CASE j = Len(pending[s]) + 1
          BY <3>2, <3>4, <4>1, <4>3, <5>2, <5>3
        <5>4. CASE j # Len(pending[s]) + 1
          <6>1. j \in 1 .. Len(pending[s])
            BY <4>1, <5>4
          <6> QED BY <3>2, <3>4, <4>1, <5>1, <5>2, <6>1 DEF Ordered
        <5> QED BY <5>3, <5>4
      <4>5. active'[s] = StartId(pending'[s])
        <5>1. CASE pending[s] = <<>>
          BY <1>0, <2>1, <2>5, <5>1 DEF IInv, TypeOK, StartId
        <5>2. CASE pending[s] # <<>>
          BY <2>1, <2>5, <3>2, <3>4, <5>2 DEF StartId
        <5> QED BY <5>1, <5>2
      <4>6. \A i \in 1 .. Len(pending'[s]) :
               /\ pending'[s][i].id < counter'[s]
               /\ srv[pending'[s][i].client] = s
               /\ ctx'[pending'[s][i].client] = pending'[s][i].id
               /\ sess[pending'[s][i].client] = NoAcct
        <5> SUFFICES ASSUME NEW i \in 1 .. Len(pending'[s])
                     PROVE  /\ pending'[s][i].id < counter'[s]
                            /\ srv[pending'[s][i].client] = s
                            /\ ctx'[pending'[s][i].client] = pending'[s][i].id
                            /\ sess[pending'[s][i].client] = NoAcct
          OBVIOUS
        <5>1. CASE i = Len(pending[s]) + 1
          BY <1>0, <4>1, <4>2, <4>3, <5>1, SMTT(30)
        <5>2. CASE i # Len(pending[s]) + 1
          <6>1. i \in 1 .. Len(pending[s]) /\ pending'[s][i] = pending[s][i]
            BY <4>1, <5>2
          <6> QED BY <3>2, <3>4, <4>2, <6>1
        <5> QED BY <5>1, <5>2
      <4> QED BY <3>4, <4>4, <4>5, <4>6
    <3> QED BY <3>3, <3>4
  <2>9. ContextInv'
    <3>1. SUFFICES ASSUME NEW d \in Clients, ctx'[d] # NoId
                   PROVE  \E i \in 1 .. Len(pending'[srv[d]]) :
                             pending'[srv[d]][i].id = ctx'[d] /\ pending'[srv[d]][i].client = d
      BY <1>1 DEF ContextInv
    <3>2. CASE d = c
      <4>1. Len(pending[s]) + 1 \in 1 .. Len(pending'[s]) /\ pending'[s][Len(pending[s]) + 1] = x
        BY <2>5
      <4>2. ctx'[c] = x.id /\ x.client = c
        BY <2>1 DEF IInv, TypeOK, x
      <4> QED BY <3>2, <4>1, <4>2
    <3>3. CASE d # c
      <4>1. ctx'[d] = ctx[d] /\ srv[d] \in Servers
        BY <2>1, <3>1, <3>3 DEF IInv, TypeOK, PlayersInv
      <4>2. PICK i \in 1 .. Len(pending[srv[d]]) :
                   pending[srv[d]][i].id = ctx[d] /\ pending[srv[d]][i].client = d
        BY <3>1, <4>1 DEF IInv, ContextInv
      <4>3. i \in 1 .. Len(pending'[srv[d]]) /\ pending'[srv[d]][i] = pending[srv[d]][i]
        <5>1. CASE srv[d] = s
          <6>1. Len(pending'[s]) = Len(pending[s]) + 1
                /\ \A n \in 1 .. Len(pending[s]) : pending'[s][n] = pending[s][n]
            BY <2>5
          <6> QED BY <5>1, <6>1
        <5>2. CASE srv[d] # s
          BY <2>5, <4>1, <5>2
        <5> QED BY <5>1, <5>2
      <4> QED BY <4>1, <4>2, <4>3
    <3> QED BY <3>2, <3>3
  <2>10. TokenInv'
    BY <1>0, <1>1, <2>3, <2>4, SendTokens DEF dmVars
  <2> QED BY <2>4, <2>6, <2>7, <2>8, <2>9, <2>10 DEF IInv
<1> QED BY <1>2, <1>3 DEF CheckLogin

\* steps that only touch players outside the queues
LEMMA QueueKept ==
    ASSUME IInv, UNCHANGED <<pending, active, counter>>,
           \A c \in Clients : ctx[c] # NoId =>
               srv'[c] = srv[c] /\ sess'[c] = sess[c] /\ ctx'[c] = ctx[c],
           \A c \in Clients : ctx[c] = NoId => ctx'[c] = NoId
    PROVE  QueueInv' /\ ContextInv'
<1>1. ASSUME NEW s \in Servers, NEW i \in 1 .. Len(pending[s])
      PROVE  /\ pending[s][i].id < counter[s]
             /\ srv'[pending[s][i].client] = s
             /\ ctx'[pending[s][i].client] = pending[s][i].id
             /\ sess'[pending[s][i].client] = NoAcct
  <2>1. /\ pending[s][i].client \in Clients
        /\ ctx[pending[s][i].client] # NoId
    BY QueueFacts, LoginConstants DEF IInv, QueueInv, NoId, Ids
  <2> QED BY <2>1 DEF IInv, QueueInv
<1>2. QueueInv'
  BY <1>1 DEF IInv, QueueInv, Ordered, StartId
<1>3. ContextInv'
  BY DEF IInv, ContextInv
<1> QED BY <1>2, <1>3

\* ~LoginContext of context p of server s, whose player is c
LEMMA LeaveQueue ==
    ASSUME IInv, NEW s \in Servers, NEW p \in 1 .. Len(pending[s]),
           NEW c \in Clients, c = pending[s][p].client,
           DeleteContext(s, pending[s][p].id),
           counter' = counter,
           ctx' = [ctx EXCEPT ![c] = NoId],
           \A d \in Clients : d # c => srv'[d] = srv[d] /\ sess'[d] = sess[d]
    PROVE  /\ pending' \in [Servers -> Seq(Context)]
           /\ active' \in [Servers -> Ids \union {NoId}]
           /\ QueueInv' /\ ContextInv'
           /\ PassMsgs(s, pending[s][p].id) \in Seq(Request)
           /\ \A i \in 1 .. Len(PassMsgs(s, pending[s][p].id)) :
                 PassMsgs(s, pending[s][p].id)[i].type # "LOGOUT"
<1> DEFINE q == pending[s]
           w == Without(q, q[p].id)
<1>0. /\ q \in Seq(Context) /\ Ordered(q) /\ active[s] = StartId(q)
      /\ \A i \in 1 .. Len(q) : q[i].id \in Ids /\ q[i].id \in Int /\ q[i].client \in Clients
  BY QueueFacts DEF IInv, QueueInv
<1>1. /\ w \in Seq(Context)
      /\ Ordered(w)
      /\ \A j \in 1 .. Len(w) : w[j].id # q[p].id /\ \E i \in 1 .. Len(q) : w[j] = q[i]
      /\ \A i \in 1 .. Len(q) : i # p => \E j \in 1 .. Len(w) : w[j] = q[i]
      /\ q[1].id # q[p].id => StartId(w) = StartId(q)
  BY <1>0, WithoutFacts
<1>2. /\ pending' = [pending EXCEPT ![s] = w]
      /\ active' = [active EXCEPT ![s] = IF active[s] = q[p].id THEN StartId(w) ELSE active[s]]
  BY DEF DeleteContext, PassActive
<1> HIDE DEF w
<1>3. q[p].id # NoId /\ q # <<>> /\ active[s] = q[1].id
  <2>1. q # <<>> /\ Head(q) = q[1]
    BY <1>0
  <2>2. \A n \in Ids : n # NoId
    BY LoginConstants DEF NoId, Ids
  <2>3. active[s] = q[1].id
    BY <1>0, <2>1 DEF StartId
  <2>4. q[p].id # NoId
    BY <1>0, <2>2
  <2> HIDE DEF q
  <2> QED BY <2>1, <2>3, <2>4
<1>4. pending'[s] = w /\ \A t \in Servers : t # s => pending'[t] = pending[t] /\ active'[t] = active[t]
  BY <1>2 DEF IInv, TypeOK
<1>5. active'[s] = StartId(w)
  BY <1>0, <1>1, <1>2, <1>3 DEF IInv, TypeOK
<1>6. StartId(w) \in Ids \union {NoId}
  <2>1. CASE w = <<>>
    BY <2>1 DEF StartId
  <2>2. CASE w # <<>>
    <3>1. Head(w) \in Context
      BY <1>1, <2>2, HeadTailProperties
    <3> QED BY <2>2, <3>1 DEF StartId, Context
  <2> QED BY <2>1, <2>2
<1>7. pending' \in [Servers -> Seq(Context)] /\ active' \in [Servers -> Ids \union {NoId}]
  BY <1>1, <1>2, <1>4, <1>5, <1>6 DEF IInv, TypeOK
<1>8. ASSUME NEW t \in Servers, NEW i \in 1 .. Len(pending'[t])
      PROVE  /\ pending'[t][i].id < counter[t]
             /\ srv'[pending'[t][i].client] = t
             /\ ctx'[pending'[t][i].client] = pending'[t][i].id
             /\ sess'[pending'[t][i].client] = NoAcct
  <2>1. PICK j \in 1 .. Len(pending[t]) :
               pending'[t][i] = pending[t][j] /\ (t = s => pending[t][j].id # q[p].id)
    <3>1. CASE t = s
      <4>1. pending'[t][i] = w[i] /\ i \in 1 .. Len(w)
        BY <1>4, <3>1
      <4>2. w[i].id # q[p].id
        BY <1>1, <4>1
      <4>3. PICK j \in 1 .. Len(q) : w[i] = q[j]
        BY <1>1, <4>1
      <4>4. j \in 1 .. Len(pending[t]) /\ pending'[t][i] = pending[t][j]
            /\ pending[t][j].id # q[p].id
        BY <3>1, <4>1, <4>2, <4>3
      <4> QED BY <4>4
    <3>2. CASE t # s
      BY <1>4, <3>2
    <3> QED BY <3>1, <3>2
  <2>2. /\ pending[t][j].id < counter[t] /\ pending[t][j].client \in Clients
        /\ srv[pending[t][j].client] = t
        /\ ctx[pending[t][j].client] = pending[t][j].id
        /\ sess[pending[t][j].client] = NoAcct
    BY QueueFacts DEF IInv, QueueInv
  <2>3. pending[t][j].client # c
    <3>1. srv[c] = s /\ ctx[c] = q[p].id
      BY DEF IInv, QueueInv
    <3> QED BY <2>1, <2>2, <3>1
  <2>4. ctx'[pending[t][j].client] = ctx[pending[t][j].client]
    BY <2>2, <2>3 DEF IInv, TypeOK
  <2> QED BY <2>1, <2>2, <2>3, <2>4
<1>9. QueueInv'
  <2>1. \A t \in Servers : active'[t] = StartId(pending'[t]) /\ Ordered(pending'[t])
    BY <1>1, <1>4, <1>5 DEF IInv, QueueInv
  <2> QED BY <1>8, <2>1 DEF QueueInv, Ordered, StartId
<1>10. ContextInv'
  <2>1. SUFFICES ASSUME NEW d \in Clients, ctx'[d] # NoId
                 PROVE  \E i \in 1 .. Len(pending'[srv'[d]]) :
                           pending'[srv'[d]][i].id = ctx'[d] /\ pending'[srv'[d]][i].client = d
    BY DEF ContextInv
  <2>2. d # c /\ ctx'[d] = ctx[d] /\ srv'[d] = srv[d] /\ srv[d] \in Servers
    BY <2>1 DEF IInv, TypeOK, PlayersInv
  <2>3. PICK i \in 1 .. Len(pending[srv[d]]) :
               pending[srv[d]][i].id = ctx[d] /\ pending[srv[d]][i].client = d
    BY <2>1, <2>2 DEF IInv, ContextInv
  <2>4. CASE srv[d] = s
    <3>1. i # p
      BY <2>2, <2>3, <2>4
    <3>2. PICK j \in 1 .. Len(w) : w[j] = q[i]
      BY <1>1, <2>3, <2>4, <3>1
    <3> QED BY <1>4, <2>2, <2>3, <2>4, <3>2
  <2>5. CASE srv[d] # s
    BY <1>4, <2>2, <2>3, <2>5
  <2> QED BY <2>4, <2>5
<1>11. /\ PassMsgs(s, q[p].id) \in Seq(Request)
       /\ \A i \in 1 .. Len(PassMsgs(s, q[p].id)) : PassMsgs(s, q[p].id)[i].type # "LOGOUT"
  <2>1. CASE active[s] = q[p].id /\ w # <<>>
    <3>1. Head(w) \in Context
      BY <1>1, <2>1, HeadTailProperties
    <3>2. LoginMsg(Head(w)) \in Request /\ LoginMsg(Head(w)).type # "LOGOUT"
      BY <3>1 DEF Context, LoginMsg, Request
    <3>3. PassMsgs(s, q[p].id) = <<LoginMsg(Head(w))>>
      BY <2>1 DEF PassMsgs, StartMsgs, w
    <3> QED BY <3>2, <3>3
  <2>2. CASE ~(active[s] = q[p].id /\ w # <<>>)
    <3>1. PassMsgs(s, q[p].id) = <<>>
      BY <2>2 DEF PassMsgs, StartMsgs, w
    <3> QED BY <3>1
  <2> QED BY <2>1, <2>2
<1> QED BY <1>7, <1>9, <1>10, <1>11

\* A token of a is turned into a logout that server s sends.
LEMMA LogoutAdded ==
    ASSUME TypeOK, TokenInv, locks' = locks,
           NEW s \in Servers, NEW a, NEW ms \in Seq(Request),
           a \in Exclusive => locks[a] = s /\ NoToken(a, sess', rep', Sent),
           Sent'[s] = Sent[s] \o ms,
           \A t \in Servers : t # s => Sent'[t] = Sent[t],
           \A i \in 1 .. Len(ms) : ms[i].type = "LOGOUT" => i = 1 /\ ms[i] = LogoutMsg(a),
           \A c \in Clients : sess'[c] \in Exclusive => sess'[c] = sess[c] /\ srv'[c] = srv[c],
           \A c \in Clients : sess'[c] = sess[c] \/ sess'[c] = NoAcct,
           \A t \in Servers : \E n \in Nat :
               \A i \in 1 .. Len(rep'[t]) : i + n \in 1 .. Len(rep[t]) /\ rep'[t][i] = rep[t][i + n]
    PROVE  TokenInv'
<1>0. /\ \A b \in Exclusive : b \in Accounts /\ b # NoAcct
      /\ LogoutMsg(a).type = "LOGOUT" /\ LogoutMsg(a).acct = a
  BY LoginConstants DEF Exclusive, LogoutMsg
<1>1. Sent[s] \in Seq(Request) /\ Len(Sent[s]) \in Nat /\ Len(ms) \in Nat
  BY CurFacts
<1>2. /\ Len(Sent'[s]) = Len(Sent[s]) + Len(ms)
      /\ \A i \in 1 .. Len(Sent[s]) + Len(ms) :
            Sent'[s][i] = IF i <= Len(Sent[s]) THEN Sent[s][i] ELSE ms[i - Len(Sent[s])]
  BY <1>1, ConcatProperties
\* the only new logout is that of a
<1>3. ASSUME NEW i \in 1 .. Len(Sent'[s]), Sent'[s][i].type = "LOGOUT"
      PROVE  \/ i \in 1 .. Len(Sent[s]) /\ Sent'[s][i] = Sent[s][i]
             \/ i = Len(Sent[s]) + 1 /\ Sent'[s][i] = LogoutMsg(a)
  <2>1. CASE i <= Len(Sent[s])
    BY <1>1, <1>2, <2>1
  <2>2. CASE ~(i <= Len(Sent[s]))
    <3> DEFINE k == i - Len(Sent[s])
    <3>1. k \in 1 .. Len(ms) /\ Sent'[s][i] = ms[k]
      BY <1>1, <1>2, <2>2
    <3>2. k = 1 /\ ms[k] = LogoutMsg(a)
      BY <1>3, <3>1
    <3> QED BY <1>1, <3>1, <3>2
  <2> QED BY <2>1, <2>2
<1>4. \A t \in Servers : \A i \in 1 .. Len(Sent'[t]) : Sent'[t][i].type = "LOGOUT" =>
         \/ i \in 1 .. Len(Sent[t]) /\ Sent'[t][i] = Sent[t][i]
         \/ t = s /\ i = Len(Sent[s]) + 1 /\ Sent'[t][i] = LogoutMsg(a)
  <2> SUFFICES ASSUME NEW t \in Servers, NEW i \in 1 .. Len(Sent'[t]), Sent'[t][i].type = "LOGOUT"
               PROVE  \/ i \in 1 .. Len(Sent[t]) /\ Sent'[t][i] = Sent[t][i]
                      \/ t = s /\ i = Len(Sent[s]) + 1 /\ Sent'[t][i] = LogoutMsg(a)
    OBVIOUS
  <2>1. CASE t # s BY <2>1
  <2>2. CASE t = s BY <1>3, <2>2
  <2> QED BY <2>1, <2>2
<1>5. PlayerTokens'
  BY DEF TokenInv, PlayerTokens
<1>6. ReplyTokens'
  <2>1. SUFFICES ASSUME NEW t \in Servers, NEW i \in 1 .. Len(rep'[t]),
                        rep'[t][i].ok, rep'[t][i].acct \in Exclusive
                 PROVE  /\ locks[rep'[t][i].acct] = t
                        /\ \A d \in Clients : sess'[d] # rep'[t][i].acct
                        /\ \A j \in 1 .. Len(rep'[t]) :
                              rep'[t][j].ok /\ rep'[t][j].acct = rep'[t][i].acct => i = j
                        /\ \A j \in 1 .. Len(Sent'[t]) : Sent'[t][j] # LogoutMsg(rep'[t][i].acct)
    BY DEF ReplyTokens, LogoutMsg
  <2> DEFINE b == rep'[t][i].acct
  <2>2. PICK n \in Nat : \A x \in 1 .. Len(rep'[t]) :
                            x + n \in 1 .. Len(rep[t]) /\ rep'[t][x] = rep[t][x + n]
    OBVIOUS
  <2>3. i + n \in 1 .. Len(rep[t]) /\ rep[t][i + n].ok /\ rep[t][i + n].acct = b
    BY <2>1, <2>2
  <2>4. /\ locks[b] = t
        /\ \A d \in Clients : sess[d] # b
        /\ \A j \in 1 .. Len(rep[t]) : rep[t][j].ok /\ rep[t][j].acct = b => i + n = j
        /\ \A j \in 1 .. Len(Sent[t]) : Sent[t][j] # LogoutMsg(b)
    BY <2>1, <2>3, SMTT(30) DEF TokenInv, ReplyTokens
  <2>5. \A d \in Clients : sess'[d] # b
    BY <2>1, <2>4, <1>0
  <2>6. ASSUME NEW j \in 1 .. Len(rep'[t]), rep'[t][j].ok, rep'[t][j].acct = b
        PROVE  i = j
    <3>1. j + n \in 1 .. Len(rep[t]) /\ rep[t][j + n].ok /\ rep[t][j + n].acct = b
      BY <2>2, <2>6
    <3>2. i + n = j + n
      BY <2>4, <3>1
    <3> QED BY <3>2
  <2>7. ASSUME NEW j \in 1 .. Len(Sent'[t]), Sent'[t][j] = LogoutMsg(b)
        PROVE  FALSE
    <3>1. Sent'[t][j].type = "LOGOUT" /\ Sent'[t][j].acct = b
      BY <2>7 DEF LogoutMsg
    <3>2. a # b
      BY <2>1 DEF NoToken
    <3>3. j \in 1 .. Len(Sent[t]) /\ Sent'[t][j] = Sent[t][j]
      BY <1>0, <1>4, <3>1, <3>2
    <3> QED BY <2>4, <2>7, <3>3
  <2> QED BY <2>4, <2>5, <2>6, <2>7
<1>7. LogoutTokens'
  <2>1. SUFFICES ASSUME NEW t \in Servers, NEW i \in 1 .. Len(Sent'[t]),
                        Sent'[t][i].type = "LOGOUT", Sent'[t][i].acct \in Exclusive
                 PROVE  /\ locks[Sent'[t][i].acct] = t
                        /\ \A d \in Clients : sess'[d] # Sent'[t][i].acct
                        /\ \A j \in 1 .. Len(Sent'[t]) : Sent'[t][j] = Sent'[t][i] => i = j
    BY DEF LogoutTokens
  <2>2. CASE i \in 1 .. Len(Sent[t]) /\ Sent'[t][i] = Sent[t][i]
    <3>1. /\ locks[Sent[t][i].acct] = t
          /\ \A d \in Clients : sess[d] # Sent[t][i].acct
          /\ \A j \in 1 .. Len(Sent[t]) : Sent[t][j] = Sent[t][i] => i = j
      BY <2>1, <2>2 DEF TokenInv, LogoutTokens
    <3>2. \A d \in Clients : sess'[d] # Sent'[t][i].acct
      BY <2>1, <2>2, <3>1, <1>0
    <3>3. ASSUME NEW j \in 1 .. Len(Sent'[t]), Sent'[t][j] = Sent'[t][i]
          PROVE  i = j
      <4>1. Sent[t][i].acct # a
        BY <2>1, <2>2 DEF NoToken
      <4>2. j \in 1 .. Len(Sent[t]) /\ Sent'[t][j] = Sent[t][j]
        BY <1>0, <1>4, <2>1, <2>2, <3>3, <4>1
      <4> QED BY <2>2, <3>1, <3>3, <4>2
    <3> QED BY <2>2, <3>1, <3>2, <3>3
  <2>3. CASE t = s /\ i = Len(Sent[s]) + 1 /\ Sent'[t][i] = LogoutMsg(a)
    <3>1. Sent'[t][i].acct = a /\ a \in Exclusive
      BY <1>0, <2>1, <2>3
    <3>2. ASSUME NEW j \in 1 .. Len(Sent'[t]), Sent'[t][j] = Sent'[t][i]
          PROVE  i = j
      <4>1. Sent'[t][j].type = "LOGOUT" /\ Sent'[t][j].acct = a
        BY <2>1, <3>1, <3>2
      <4>2. ~(j \in 1 .. Len(Sent[t]) /\ Sent'[t][j] = Sent[t][j])
        BY <3>1, <4>1 DEF NoToken
      <4> QED BY <1>4, <2>3, <4>1, <4>2
    <3>3. \A d \in Clients : sess'[d] # a
      BY <3>1 DEF NoToken
    <3> QED BY <2>3, <3>1, <3>2, <3>3
  <2> QED BY <1>4, <2>1, <2>2, <2>3
<1> QED BY <1>5, <1>6, <1>7 DEF TokenInv

\* The hang-up of a client preserves the invariant: its session becomes a logout on its way.
LEMMA HungUpIInv ==
    ASSUME IInv, NEW c \in Clients, HungUp(c)
    PROVE  IInv'
<1> DEFINE s == srv[c]
           a == sess[c]
           ps == IF ctx[c] # NoId THEN PassMsgs(s, ctx[c]) ELSE <<>>
           ms == LogoutMsgs(c) \o ps
<1>0. /\ s \in Servers /\ proc[s] /\ a \in Accounts \union {NoAcct}
      /\ UNCHANGED <<dmVars, proc, counter, cur, conn, rep>>
  BY DEF IInv, TypeOK, HungUp, Runs
<1>1. /\ tree' = [tree EXCEPT ![s] = TreeDel(@, a)]
      /\ Send(s, ms)
      /\ srv' = [srv EXCEPT ![c] = Off]
      /\ dead' = [dead EXCEPT ![c] = FALSE]
      /\ sess' = [sess EXCEPT ![c] = NoAcct]
      /\ ctx' = [ctx EXCEPT ![c] = NoId]
  BY DEF HungUp
<1>2. /\ QueueInv' /\ ContextInv'
      /\ pending' \in [Servers -> Seq(Context)]
      /\ active' \in [Servers -> Ids \union {NoId}]
      /\ ps \in Seq(Request) /\ \A i \in 1 .. Len(ps) : ps[i].type # "LOGOUT"
  <2>1. CASE ctx[c] = NoId
    <3>1. UNCHANGED <<pending, active, counter>> /\ ps = <<>>
      BY <1>0, <2>1 DEF HungUp
    <3>2. QueueInv' /\ ContextInv'
      BY <1>1, <2>1, <3>1, QueueKept DEF IInv, TypeOK
    <3> HIDE DEF ps
    <3>3. ps \in Seq(Request) /\ \A i \in 1 .. Len(ps) : ps[i].type # "LOGOUT"
      BY <3>1
    <3> QED BY <3>1, <3>2, <3>3 DEF IInv, TypeOK
  <2>2. CASE ctx[c] # NoId
    <3>1. PICK p \in 1 .. Len(pending[s]) : pending[s][p].id = ctx[c] /\ pending[s][p].client = c
      BY <2>2 DEF IInv, ContextInv
    <3>2. DeleteContext(s, pending[s][p].id) /\ ps = PassMsgs(s, pending[s][p].id)
      BY <2>2, <3>1 DEF HungUp
    <3>3. \A d \in Clients : d # c => srv'[d] = srv[d] /\ sess'[d] = sess[d]
      BY <1>1 DEF IInv, TypeOK
    <3> HIDE DEF s, ps
    <3> QED BY <1>0, <1>1, <3>1, <3>2, <3>3, LeaveQueue, ZenonT(60)
  <2> QED BY <2>1, <2>2
<1>3. LogoutMsgs(c) \in Seq(Request) /\ LogoutMsgs(c) = IF a = NoAcct THEN <<>> ELSE <<LogoutMsg(a)>>
  <2>1. a # NoAcct => LogoutMsg(a) \in Request
    BY <1>0 DEF LogoutMsg, Request
  <2>2. LogoutMsgs(c) = IF a = NoAcct THEN <<>> ELSE <<LogoutMsg(a)>>
    BY DEF LogoutMsgs
  <2> QED BY <2>1, <2>2
<1>4. /\ ms \in Seq(Request)
      /\ Len(ms) = Len(LogoutMsgs(c)) + Len(ps)
      /\ \A i \in 1 .. Len(LogoutMsgs(c)) + Len(ps) :
            ms[i] = IF i <= Len(LogoutMsgs(c)) THEN LogoutMsgs(c)[i] ELSE ps[i - Len(LogoutMsgs(c))]
  <2> HIDE DEF ps
  <2> QED BY <1>2, <1>3, ConcatProperties
<1> HIDE DEF ms, ps
<1>5. /\ req' \in [ConnIds -> Seq(Request)] /\ out' \in [Servers -> Seq(Request)]
      /\ Sent'[s] = Sent[s] \o ms
      /\ \A t \in Servers : t # s => Sent'[t] = Sent[t]
      /\ LinkInv'
  BY <1>0, <1>1, <1>4, SendFacts DEF IInv
<1>6. TypeOK'
  <2>1. /\ tree' \in [Servers -> [Accounts -> Clients \union {NoClient}]]
        /\ srv' \in [Clients -> Servers \union {Off}]
        /\ dead' \in [Clients -> BOOLEAN]
        /\ sess' \in [Clients -> Accounts \union {NoAcct}]
        /\ ctx' \in [Clients -> Ids \union {NoId}]
    BY <1>0, <1>1 DEF IInv, TypeOK, TreeDel
  <2>2. DmTypeOK'
    BY <1>0 DEF IInv, TypeOK, DmTypeOK, dmVars
  <2> QED BY <1>0, <1>2, <1>5, <2>1, <2>2 DEF IInv, TypeOK
<1>7. PlayersInv'
  BY <1>0, <1>1 DEF IInv, TypeOK, PlayersInv
<1>8. \A d \in Clients : sess'[d] = (IF d = c THEN NoAcct ELSE sess[d]) /\ (d # c => srv'[d] = srv[d])
  BY <1>1 DEF IInv, TypeOK
<1>9. TokenInv'
  <2>1. a \in Exclusive => locks[a] = s /\ NoToken(a, sess', rep', Sent)
    <3> SUFFICES ASSUME a \in Exclusive
                 PROVE  locks[a] = s /\ NoToken(a, sess', rep', Sent)
      OBVIOUS
    <3>1. locks[a] = s /\ \A d \in Clients : sess[d] = a => d = c
      BY DEF IInv, TokenInv, PlayerTokens
    <3>2. \A d \in Clients : sess'[d] # a
      BY <1>8, <3>1, LoginConstants DEF Exclusive
    <3>3. \A t \in Servers : \A i \in 1 .. Len(rep[t]) : rep[t][i].ok => rep[t][i].acct # a
      BY DEF IInv, TokenInv, ReplyTokens
    <3>4. \A t \in Servers : \A i \in 1 .. Len(Sent[t]) :
             Sent[t][i].type = "LOGOUT" => Sent[t][i].acct # a
      BY DEF IInv, TokenInv, LogoutTokens
    <3> QED BY <1>0, <3>1, <3>2, <3>3, <3>4 DEF NoToken
  <2>2. ASSUME NEW i \in 1 .. Len(ms), ms[i].type = "LOGOUT"
        PROVE  i = 1 /\ ms[i] = LogoutMsg(a)
    <3>1. CASE a = NoAcct
      <4>1. Len(LogoutMsgs(c)) = 0
        BY <1>3, <3>1
      <4>2. i \in 1 .. Len(ps) /\ ms[i] = ps[i]
        BY <1>2, <1>4, <4>1
      <4> QED BY <1>2, <2>2, <4>2
    <3>2. CASE a # NoAcct
      <4>1. Len(LogoutMsgs(c)) = 1 /\ LogoutMsgs(c)[1] = LogoutMsg(a)
        BY <1>3, <3>2
      <4>2. CASE i = 1
        <5>1. 1 \in 1 .. Len(LogoutMsgs(c)) + Len(ps)
          BY <1>4, <2>2, <4>2
        <5>2. ms[1] = LogoutMsg(a)
          BY <1>4, <4>1, <5>1
        <5> QED BY <4>2, <5>2
      <4>3. CASE i # 1
        <5>1. i - 1 \in 1 .. Len(ps) /\ ms[i] = ps[i - 1]
          BY <1>2, <1>4, <4>1, <4>3
        <5> QED BY <1>2, <2>2, <5>1
      <4> QED BY <4>2, <4>3
    <3> QED BY <3>1, <3>2
  <2>3. \A t \in Servers : \E n \in Nat :
           \A i \in 1 .. Len(rep'[t]) : i + n \in 1 .. Len(rep[t]) /\ rep'[t][i] = rep[t][i + n]
    <3> SUFFICES ASSUME NEW t \in Servers
                 PROVE  \A i \in 1 .. Len(rep'[t]) :
                           i + 0 \in 1 .. Len(rep[t]) /\ rep'[t][i] = rep[t][i + 0]
      OBVIOUS
    <3> QED BY <1>0
  <2>4. locks' = locks
    BY <1>0 DEF dmVars
  <2>5. \A d \in Clients : sess'[d] \in Exclusive => sess'[d] = sess[d] /\ srv'[d] = srv[d]
    BY <1>8, LoginConstants DEF Exclusive
  <2>6. \A d \in Clients : sess'[d] = sess[d] \/ sess'[d] = NoAcct
    BY <1>8
  <2>7. s \in Servers /\ ms \in Seq(Request) /\ TypeOK /\ TokenInv
    BY <1>0, <1>4 DEF IInv
  <2> HIDE DEF a, s
  <2> QED BY <1>5, <2>1, <2>2, <2>3, <2>4, <2>5, <2>6, <2>7, LogoutAdded
<1> QED BY <1>2, <1>5, <1>6, <1>7, <1>9 DEF IInv

\* the response at the head of rep[s] is taken
LEMMA TakeReply ==
    ASSUME TypeOK, NEW s \in Servers, rep[s] # <<>>, rep' = [rep EXCEPT ![s] = Tail(@)]
    PROVE  /\ rep' \in [Servers -> Seq(Reply)]
           /\ 1 \in 1 .. Len(rep[s]) /\ Head(rep[s]) = rep[s][1]
           /\ rep[s][1].id \in Ids /\ rep[s][1].ok \in BOOLEAN /\ rep[s][1].acct \in Accounts
           /\ \A i \in 1 .. Len(rep'[s]) : i + 1 \in 1 .. Len(rep[s]) /\ rep'[s][i] = rep[s][i + 1]
           /\ \A t \in Servers : t # s => rep'[t] = rep[t]
           /\ \A t \in Servers : rep'[t] # <<>> => rep[t] # <<>>
           /\ \A t \in Servers : \E n \in Nat :
                \A i \in 1 .. Len(rep'[t]) : i + n \in 1 .. Len(rep[t]) /\ rep'[t][i] = rep[t][i + n]
<1>1. rep[s] \in Seq(Reply)
  BY DEF TypeOK
<1>2. /\ Tail(rep[s]) \in Seq(Reply) /\ Len(Tail(rep[s])) = Len(rep[s]) - 1
      /\ \A i \in 1 .. Len(Tail(rep[s])) : Tail(rep[s])[i] = rep[s][i + 1]
      /\ Head(rep[s]) = rep[s][1] /\ 1 \in 1 .. Len(rep[s])
  BY <1>1, HeadTailProperties
<1>3. rep[s][1] \in Reply
  BY <1>1, <1>2, ElementOfSeq
<1>4. rep[s][1].id \in Ids /\ rep[s][1].ok \in BOOLEAN /\ rep[s][1].acct \in Accounts
  BY <1>3 DEF Reply
<1>5. rep'[s] = Tail(rep[s]) /\ \A t \in Servers : t # s => rep'[t] = rep[t]
  BY DEF TypeOK
<1>6. rep' \in [Servers -> Seq(Reply)]
  BY <1>2 DEF TypeOK
<1>7. \A i \in 1 .. Len(rep'[s]) : i + 1 \in 1 .. Len(rep[s]) /\ rep'[s][i] = rep[s][i + 1]
  <2> SUFFICES ASSUME NEW i \in 1 .. Len(rep'[s])
               PROVE  i + 1 \in 1 .. Len(rep[s]) /\ rep'[s][i] = rep[s][i + 1]
    OBVIOUS
  <2>1. Len(rep'[s]) = Len(rep[s]) - 1 /\ Len(rep[s]) \in Nat
    <3>1. Len(rep[s]) \in Nat
      BY <1>1, LenProperties
    <3>2. Len(rep'[s]) = Len(rep[s]) - 1
      BY <1>2, <1>5, Zenon
    <3> QED BY <3>1, <3>2
  <2>2. i + 1 \in 1 .. Len(rep[s])
    BY <2>1
  <2>3. rep'[s][i] = rep[s][i + 1]
    BY <1>2, <1>5
  <2> QED BY <2>2, <2>3
<1>8. \A t \in Servers : rep'[t] # <<>> => rep[t] # <<>>
  <2> SUFFICES ASSUME NEW t \in Servers, rep'[t] # <<>> PROVE rep[t] # <<>>
    OBVIOUS
  <2>1. CASE t = s BY <2>1
  <2>2. CASE t # s BY <1>5, <2>2
  <2> QED BY <2>1, <2>2
<1>9. ASSUME NEW t \in Servers
      PROVE  \E n \in Nat : \A i \in 1 .. Len(rep'[t]) :
                i + n \in 1 .. Len(rep[t]) /\ rep'[t][i] = rep[t][i + n]
  <2>1. CASE t = s
    BY <1>7, <2>1
  <2>2. CASE t # s
    <3>1. \A i \in 1 .. Len(rep'[t]) : i + 0 \in 1 .. Len(rep[t]) /\ rep'[t][i] = rep[t][i + 0]
      BY <1>5, <2>2
    <3> QED BY <3>1
  <2> QED BY <2>1, <2>2
<1> QED BY <1>2, <1>4, <1>5, <1>6, <1>7, <1>8, <1>9

\* an accepted response has no other token of its account beside it
LEMMA ReplyAlone ==
    ASSUME TypeOK, TokenInv, NEW s \in Servers, rep[s] # <<>>, rep' = [rep EXCEPT ![s] = Tail(@)],
           rep[s][1].ok, rep[s][1].acct \in Exclusive
    PROVE  locks[rep[s][1].acct] = s /\ NoToken(rep[s][1].acct, sess, rep', Sent)
<1> DEFINE a == rep[s][1].acct
<1>1. /\ 1 \in 1 .. Len(rep[s])
      /\ \A i \in 1 .. Len(rep'[s]) : i + 1 \in 1 .. Len(rep[s]) /\ rep'[s][i] = rep[s][i + 1]
      /\ \A t \in Servers : t # s => rep'[t] = rep[t]
  BY TakeReply
<1>2. /\ locks[a] = s
      /\ \A c \in Clients : sess[c] # a
      /\ \A j \in 1 .. Len(rep[s]) : rep[s][j].ok /\ rep[s][j].acct = a => 1 = j
      /\ \A j \in 1 .. Len(Sent[s]) : Sent[s][j] # LogoutMsg(a)
  BY <1>1 DEF TokenInv, ReplyTokens
<1>3. ASSUME NEW t \in Servers, NEW i \in 1 .. Len(rep'[t]), rep'[t][i].ok
      PROVE  rep'[t][i].acct # a
  <2>1. CASE t = s
    <3>1. i \in 1 .. Len(rep'[s]) /\ rep'[s][i].ok
      BY <1>3, <2>1
    <3>2. i + 1 \in 1 .. Len(rep[s]) /\ rep'[s][i] = rep[s][i + 1] /\ i + 1 # 1
      BY <1>1, <3>1
    <3>3. rep[s][i + 1].ok
      BY <3>1, <3>2
    <3>4. rep[s][i + 1].acct # a
      BY <1>2, <3>2, <3>3
    <3> QED BY <2>1, <3>2, <3>4
  <2>2. CASE t # s
    BY <1>1, <1>2, <1>3, <2>2 DEF TokenInv, ReplyTokens
  <2> QED BY <2>1, <2>2
<1>4. ASSUME NEW t \in Servers, NEW i \in 1 .. Len(Sent[t]), Sent[t][i].type = "LOGOUT"
      PROVE  Sent[t][i].acct # a
  <2> SUFFICES ASSUME Sent[t][i].acct = a PROVE FALSE
    OBVIOUS
  <2>1. locks[a] = t
    BY <1>4 DEF TokenInv, LogoutTokens
  <2>2. t = s
    BY <1>2, <2>1
  <2>3. Sent[s][i] \in Request
    BY <2>2, CurFacts, ElementOfSeq
  <2>4. Sent[s][i] = LogoutMsg(a)
    BY <1>4, <2>2, <2>3 DEF Request, LogoutMsg
  <2> QED BY <1>2, <2>2, <2>4
<1> QED BY <1>2, <1>3, <1>4 DEF NoToken

\* A response without a context preserves the invariant: if accepted it becomes a logout.
LEMMA StaleReplyIInv ==
    ASSUME IInv, NEW s \in Servers, LoginReply(s), StaleReply(s, Head(rep[s]))
    PROVE  IInv'
<1> DEFINE r == Head(rep[s])
           a == IF r.ok THEN r.acct ELSE NoAcct
           ms == StaleMsgs(r)
<1>0. /\ rep[s] # <<>> /\ rep' = [rep EXCEPT ![s] = Tail(@)] /\ proc[s]
      /\ UNCHANGED <<dmVars, proc, srv, dead, counter, cur, conn, sess, ctx, pending, active, tree>>
      /\ Send(s, ms)
  BY DEF LoginReply, StaleReply, Runs
<1>1. /\ rep' \in [Servers -> Seq(Reply)]
      /\ r = rep[s][1] /\ r.acct \in Accounts /\ r.ok \in BOOLEAN
      /\ \A t \in Servers : rep'[t] # <<>> => rep[t] # <<>>
      /\ \A t \in Servers : \E n \in Nat :
            \A i \in 1 .. Len(rep'[t]) : i + n \in 1 .. Len(rep[t]) /\ rep'[t][i] = rep[t][i + n]
  BY <1>0, TakeReply DEF IInv
<1> HIDE DEF r
<1>2. ms \in Seq(Request) /\ \A i \in 1 .. Len(ms) : i = 1 /\ ms[i] = LogoutMsg(a)
  <2>1. LogoutMsg(r.acct) \in Request
    BY <1>1 DEF LogoutMsg, Request
  <2> QED BY <2>1 DEF StaleMsgs
<1> HIDE DEF ms
<1>3. /\ req' \in [ConnIds -> Seq(Request)] /\ out' \in [Servers -> Seq(Request)]
      /\ Sent'[s] = Sent[s] \o ms
      /\ \A t \in Servers : t # s => Sent'[t] = Sent[t]
      /\ LinkInv'
  BY <1>0, <1>1, <1>2, SendFacts DEF IInv
<1>4. TypeOK'
  BY <1>0, <1>1, <1>3 DEF IInv, TypeOK, DmTypeOK, dmVars
<1>5. PlayersInv' /\ QueueInv' /\ ContextInv'
  BY <1>0, QueueKept DEF IInv, PlayersInv
<1>6. TokenInv'
  <2>1. a \in Exclusive => locks[a] = s /\ NoToken(a, sess', rep', Sent)
    BY <1>0, <1>1, ReplyAlone, LoginConstants DEF IInv, Exclusive
  <2>2. locks' = locks /\ sess' = sess /\ srv' = srv /\ TypeOK /\ TokenInv
    BY <1>0 DEF dmVars, IInv
  <2>3. \A c \in Clients : sess'[c] = sess[c] /\ srv'[c] = srv[c]
    BY <2>2
  <2>4. \A i \in 1 .. Len(ms) : ms[i].type = "LOGOUT" => i = 1 /\ ms[i] = LogoutMsg(a)
    BY <1>2
  <2> HIDE DEF a
  <2> QED BY <1>1, <1>2, <1>3, <2>1, <2>2, <2>3, <2>4, LogoutAdded
<1> QED BY <1>3, <1>4, <1>5, <1>6 DEF IInv

\* The accepted response at the head of rep[s] becomes the session of c.
LEMMA SessionAdded ==
    ASSUME TypeOK, TokenInv, locks' = locks, srv' = srv,
           NEW s \in Servers, NEW c \in Clients, NEW a \in Accounts, NEW ms \in Seq(Request),
           srv[c] = s, sess[c] = NoAcct, sess' = [sess EXCEPT ![c] = a],
           a \in Exclusive => locks[a] = s /\ NoToken(a, sess, rep', Sent),
           Sent'[s] = Sent[s] \o ms,
           \A t \in Servers : t # s => Sent'[t] = Sent[t],
           \A i \in 1 .. Len(ms) : ms[i].type # "LOGOUT",
           \A t \in Servers : \E n \in Nat :
               \A i \in 1 .. Len(rep'[t]) : i + n \in 1 .. Len(rep[t]) /\ rep'[t][i] = rep[t][i + n]
    PROVE  TokenInv'
<1>0. \A d \in Clients : sess'[d] = IF d = c THEN a ELSE sess[d]
  BY DEF TypeOK
<1>1. Sent[s] \in Seq(Request) /\ Len(Sent[s]) \in Nat /\ Len(ms) \in Nat
  BY CurFacts
<1>2. /\ Len(Sent'[s]) = Len(Sent[s]) + Len(ms)
      /\ \A i \in 1 .. Len(Sent[s]) + Len(ms) :
            Sent'[s][i] = IF i <= Len(Sent[s]) THEN Sent[s][i] ELSE ms[i - Len(Sent[s])]
  BY <1>1, ConcatProperties
<1>3. ASSUME NEW t \in Servers, NEW i \in 1 .. Len(Sent'[t]), Sent'[t][i].type = "LOGOUT"
      PROVE  i \in 1 .. Len(Sent[t]) /\ Sent'[t][i] = Sent[t][i]
  <2>1. CASE t # s
    BY <2>1
  <2>2. CASE t = s /\ i <= Len(Sent[s])
    BY <1>1, <1>2, <2>2
  <2>3. CASE t = s /\ ~(i <= Len(Sent[s]))
    <3> DEFINE k == i - Len(Sent[s])
    <3>1. k \in 1 .. Len(ms) /\ Sent'[s][i] = ms[k]
      BY <1>1, <1>2, <2>3
    <3> QED BY <1>3, <2>3, <3>1
  <2> QED BY <2>1, <2>2, <2>3
<1>4. PlayerTokens'
  <2>1. ASSUME NEW d \in Clients, sess'[d] \in Exclusive
        PROVE  locks[sess'[d]] = srv[d]
    BY <1>0, <2>1 DEF TokenInv, PlayerTokens
  <2>2. ASSUME NEW d \in Clients, NEW e \in Clients, sess'[d] \in Exclusive, sess'[d] = sess'[e]
        PROVE  d = e
    <3>1. CASE d = c /\ e # c
      BY <1>0, <2>2, <3>1 DEF NoToken
    <3>2. CASE d # c /\ e = c
      BY <1>0, <2>2, <3>2 DEF NoToken
    <3>3. CASE d # c /\ e # c
      BY <1>0, <2>2, <3>3 DEF TokenInv, PlayerTokens
    <3> QED BY <3>1, <3>2, <3>3
  <2> QED BY <2>1, <2>2 DEF PlayerTokens
<1>5. ReplyTokens'
  <2>1. SUFFICES ASSUME NEW t \in Servers, NEW i \in 1 .. Len(rep'[t]),
                        rep'[t][i].ok, rep'[t][i].acct \in Exclusive
                 PROVE  /\ locks[rep'[t][i].acct] = t
                        /\ \A d \in Clients : sess'[d] # rep'[t][i].acct
                        /\ \A j \in 1 .. Len(rep'[t]) :
                              rep'[t][j].ok /\ rep'[t][j].acct = rep'[t][i].acct => i = j
                        /\ \A j \in 1 .. Len(Sent'[t]) : Sent'[t][j] # LogoutMsg(rep'[t][i].acct)
    BY DEF ReplyTokens, LogoutMsg
  <2> DEFINE b == rep'[t][i].acct
  <2>2. PICK n \in Nat : \A x \in 1 .. Len(rep'[t]) :
                            x + n \in 1 .. Len(rep[t]) /\ rep'[t][x] = rep[t][x + n]
    OBVIOUS
  <2>3. i + n \in 1 .. Len(rep[t]) /\ rep[t][i + n].ok /\ rep[t][i + n].acct = b
    BY <2>1, <2>2
  <2>4. /\ locks[b] = t
        /\ \A d \in Clients : sess[d] # b
        /\ \A j \in 1 .. Len(rep[t]) : rep[t][j].ok /\ rep[t][j].acct = b => i + n = j
        /\ \A j \in 1 .. Len(Sent[t]) : Sent[t][j] # LogoutMsg(b)
    BY <2>1, <2>3, SMTT(30) DEF TokenInv, ReplyTokens
  <2>5. a # b
    BY <2>1, ZenonT(60) DEF NoToken
  <2>6. ASSUME NEW j \in 1 .. Len(rep'[t]), rep'[t][j].ok, rep'[t][j].acct = b
        PROVE  i = j
    <3>1. j + n \in 1 .. Len(rep[t]) /\ rep[t][j + n].ok /\ rep[t][j + n].acct = b
      BY <2>2, <2>6
    <3>2. i + n = j + n
      BY <2>4, <3>1
    <3> QED BY <3>2
  <2>7. ASSUME NEW j \in 1 .. Len(Sent'[t]), Sent'[t][j] = LogoutMsg(b)
        PROVE  FALSE
    <3>1. Sent'[t][j].type = "LOGOUT"
      BY <2>7 DEF LogoutMsg
    <3> QED BY <1>3, <2>4, <2>7, <3>1
  <2>8. \A d \in Clients : sess'[d] # b
    BY <1>0, <2>4, <2>5
  <2> QED BY <2>4, <2>6, <2>7, <2>8
<1>6. LogoutTokens'
  <2>1. SUFFICES ASSUME NEW t \in Servers, NEW i \in 1 .. Len(Sent'[t]),
                        Sent'[t][i].type = "LOGOUT", Sent'[t][i].acct \in Exclusive
                 PROVE  /\ locks[Sent'[t][i].acct] = t
                        /\ \A d \in Clients : sess'[d] # Sent'[t][i].acct
                        /\ \A j \in 1 .. Len(Sent'[t]) : Sent'[t][j] = Sent'[t][i] => i = j
    BY DEF LogoutTokens
  <2>2. i \in 1 .. Len(Sent[t]) /\ Sent'[t][i] = Sent[t][i]
    BY <1>3, <2>1
  <2>3. /\ locks[Sent[t][i].acct] = t
        /\ \A d \in Clients : sess[d] # Sent[t][i].acct
        /\ \A j \in 1 .. Len(Sent[t]) : Sent[t][j] = Sent[t][i] => i = j
    BY <2>1, <2>2 DEF TokenInv, LogoutTokens
  <2>4. Sent[t][i].acct # a
    BY <2>1, <2>2 DEF NoToken
  <2>5. ASSUME NEW j \in 1 .. Len(Sent'[t]), Sent'[t][j] = Sent'[t][i]
        PROVE  i = j
    BY <1>3, <2>1, <2>2, <2>3, <2>5
  <2> QED BY <1>0, <2>2, <2>3, <2>4, <2>5
<1> QED BY <1>4, <1>5, <1>6 DEF TokenInv

\* The active login is the first context of the queue.
LEMMA ActiveIsFirst ==
    ASSUME IInv, NEW s \in Servers, active[s] # NoId
    PROVE  /\ 1 \in 1 .. Len(pending[s]) /\ active[s] = pending[s][1].id
           /\ ActivePlayer(s) = pending[s][1].client
<1> DEFINE q == pending[s]
<1>1. q \in Seq(Context) /\ active[s] = StartId(q) /\ Ordered(q)
  BY DEF IInv, TypeOK, QueueInv
<1>2. q # <<>>
  BY <1>1 DEF StartId
<1>3. 1 \in 1 .. Len(q) /\ Head(q) = q[1]
  BY <1>1, <1>2
<1>4. active[s] = q[1].id
  BY <1>1, <1>2, <1>3 DEF StartId
<1>5. \A i \in 1 .. Len(q) : q[i].id \in Int
  BY QueueFacts DEF IInv
<1>6. Pos(q, active[s]) = 1
  BY <1>1, <1>3, <1>4, <1>5 DEF Pos, Ordered
<1> QED BY <1>3, <1>4, <1>6 DEF ActivePlayer

\* The response to the active login preserves the invariant: if accepted it becomes a session.
LEMMA ActiveReplyIInv ==
    ASSUME IInv, NEW s \in Servers, LoginReply(s), ActiveReply(s, Head(rep[s]))
    PROVE  IInv'
<1> DEFINE r == Head(rep[s])
           q == pending[s]
           c == ActivePlayer(s)
           ms == PassMsgs(s, active[s])
<1>0. /\ rep[s] # <<>> /\ rep' = [rep EXCEPT ![s] = Tail(@)] /\ proc[s]
      /\ UNCHANGED <<dmVars, proc, srv, dead, counter, cur, conn>>
      /\ active[s] = r.id
      /\ IF r.ok
         THEN /\ sess' = [sess EXCEPT ![c] = r.acct]
              /\ tree' = [tree EXCEPT ![s][r.acct] = IF @ = NoClient THEN c ELSE @]
         ELSE UNCHANGED <<sess, tree>>
      /\ DeleteContext(s, active[s])
      /\ ctx' = [ctx EXCEPT ![c] = NoId]
      /\ Send(s, ms)
  BY DEF LoginReply, ActiveReply, Runs, IsStale
<1>1. /\ rep' \in [Servers -> Seq(Reply)]
      /\ r = rep[s][1] /\ r.acct \in Accounts /\ r.ok \in BOOLEAN /\ r.id \in Ids
      /\ \A t \in Servers : rep'[t] # <<>> => rep[t] # <<>>
      /\ \A t \in Servers : \E n \in Nat :
            \A i \in 1 .. Len(rep'[t]) : i + n \in 1 .. Len(rep[t]) /\ rep'[t][i] = rep[t][i + n]
  BY <1>0, TakeReply DEF IInv
<1> HIDE DEF r
<1>2. 1 \in 1 .. Len(q) /\ active[s] = q[1].id /\ c = q[1].client
  <2>1. active[s] # NoId
    BY <1>0, <1>1, LoginConstants DEF NoId, Ids
  <2> QED BY <2>1, ActiveIsFirst
<1> HIDE DEF c
<1>3. c \in Clients /\ srv[c] = s /\ sess[c] = NoAcct
  BY <1>2, QueueFacts DEF IInv, QueueInv
<1>4. \A d \in Clients : d # c => sess'[d] = sess[d] /\ srv'[d] = srv[d]
  BY <1>0, <1>3 DEF IInv, TypeOK
<1>5. /\ pending' \in [Servers -> Seq(Context)]
      /\ active' \in [Servers -> Ids \union {NoId}]
      /\ QueueInv' /\ ContextInv'
      /\ ms \in Seq(Request)
      /\ \A i \in 1 .. Len(ms) : ms[i].type # "LOGOUT"
  <2>1. DeleteContext(s, q[1].id) /\ counter' = counter /\ ms = PassMsgs(s, q[1].id)
    BY <1>0, <1>2
  <2>2. 1 \in 1 .. Len(q) /\ c = q[1].client /\ c \in Clients /\ ctx' = [ctx EXCEPT ![c] = NoId]
    BY <1>0, <1>2, <1>3
  <2> HIDE DEF ms
  <2> QED BY <1>4, <2>1, <2>2, LeaveQueue
<1> HIDE DEF ms
<1>6. /\ req' \in [ConnIds -> Seq(Request)] /\ out' \in [Servers -> Seq(Request)]
      /\ Sent'[s] = Sent[s] \o ms
      /\ \A t \in Servers : t # s => Sent'[t] = Sent[t]
      /\ LinkInv'
  BY <1>0, <1>1, <1>5, SendFacts DEF IInv
<1>7. TypeOK'
  <2>1. sess' \in [Clients -> Accounts \union {NoAcct}] /\ ctx' \in [Clients -> Ids \union {NoId}]
    BY <1>0, <1>1 DEF IInv, TypeOK
  <2>2. tree' \in [Servers -> [Accounts -> Clients \union {NoClient}]]
    <3>1. CASE r.ok
      <4>1. tree[s] \in [Accounts -> Clients \union {NoClient}]
        BY DEF IInv, TypeOK
      <4>2. tree' = [tree EXCEPT ![s] = [tree[s] EXCEPT ![r.acct] =
                        IF tree[s][r.acct] = NoClient THEN c ELSE tree[s][r.acct]]]
        BY <1>0, <3>1
      <4>3. [tree[s] EXCEPT ![r.acct] = IF tree[s][r.acct] = NoClient THEN c ELSE tree[s][r.acct]]
               \in [Accounts -> Clients \union {NoClient}]
        BY <1>1, <1>3, <4>1
      <4> QED BY <4>2, <4>3 DEF IInv, TypeOK
    <3>2. CASE ~r.ok
      BY <1>0, <3>2 DEF IInv, TypeOK
    <3> QED BY <3>1, <3>2
  <2>3. DmTypeOK'
    BY <1>0 DEF IInv, TypeOK, DmTypeOK, dmVars
  <2> QED BY <1>0, <1>1, <1>5, <1>6, <2>1, <2>2, <2>3 DEF IInv, TypeOK
<1>8. PlayersInv'
  <2>1. srv[c] # Off /\ \A d \in Clients : d # c => ctx'[d] = ctx[d]
    BY <1>0, <1>3, LoginConstants DEF IInv, TypeOK
  <2> QED BY <1>0, <1>4, <2>1 DEF IInv, PlayersInv
<1>9. locks' = locks /\ srv' = srv /\ TypeOK /\ TokenInv
  BY <1>0 DEF dmVars, IInv
<1>10. TokenInv'
  <2>1. CASE r.ok
    <3>1. r.acct \in Exclusive => locks[r.acct] = s /\ NoToken(r.acct, sess, rep', Sent)
      BY <1>0, <1>1, <1>9, <2>1, ReplyAlone
    <3>2. sess' = [sess EXCEPT ![c] = r.acct]
      BY <1>0, <2>1
    <3> QED BY <1>1, <1>3, <1>5, <1>6, <1>9, <3>1, <3>2, SessionAdded
  <2>2. CASE ~r.ok
    <3>1. sess' = sess
      BY <1>0, <2>2
    <3>2. \A d \in Clients : sess'[d] = sess[d] /\ srv'[d] = srv[d]
      BY <1>9, <3>1
    <3>3. NoAcct \notin Exclusive
      BY LoginConstants DEF Exclusive
    <3>4. \A i \in 1 .. Len(ms) : ms[i].type = "LOGOUT" => i = 1 /\ ms[i] = LogoutMsg(NoAcct)
      BY <1>5
    <3> QED BY <1>1, <1>5, <1>6, <1>9, <3>2, <3>3, <3>4, LogoutAdded
  <2> QED BY <2>1, <2>2
<1> QED BY <1>5, <1>6, <1>7, <1>8, <1>10 DEF IInv

\* A login response preserves the invariant.
LEMMA LoginReplyIInv ==
    ASSUME IInv, NEW s \in Servers, LoginReply(s)
    PROVE  IInv'
BY StaleReplyIInv, ActiveReplyIInv DEF LoginReply

\* The downtime message preserves the invariant.
LEMMA SendDowntimeIInv ==
    ASSUME IInv, NEW s \in Servers, SendDowntime(s)
    PROVE  IInv'
<1> DEFINE ms == <<DowntimeMsg>>
<1>0. /\ proc[s] /\ Send(s, ms)
      /\ UNCHANGED <<dmVars, proc, playerVars, queueVars, cur, conn, rep>>
  BY DEF SendDowntime, Runs
<1>1. ms \in Seq(Request) /\ \A i \in 1 .. Len(ms) : ms[i].type # "LOGOUT"
  <2>1. DowntimeMsg \in Request /\ DowntimeMsg.type # "LOGOUT"
    BY DEF DowntimeMsg, Request
  <2> HIDE DEF DowntimeMsg
  <2> QED BY <2>1
<1> HIDE DEF ms
<1>2. /\ req' \in [ConnIds -> Seq(Request)] /\ out' \in [Servers -> Seq(Request)]
      /\ Sent'[s] = Sent[s] \o ms
      /\ \A t \in Servers : t # s => Sent'[t] = Sent[t]
      /\ LinkInv'
  BY <1>0, <1>1, SendFacts DEF IInv
<1>3. TypeOK'
  BY <1>0, <1>2 DEF IInv, TypeOK, DmTypeOK, dmVars, playerVars, queueVars
<1>4. PlayersInv' /\ QueueInv' /\ ContextInv'
  <2>1. UNCHANGED <<srv, sess, ctx, proc, pending, active, counter>>
    BY <1>0 DEF playerVars, queueVars
  <2>2. QueueInv' /\ ContextInv'
    BY <2>1, QueueKept
  <2>3. PlayersInv'
    BY <2>1 DEF IInv, PlayersInv
  <2> QED BY <2>2, <2>3
<1>5. UNCHANGED <<locks, sess, srv, rep>>
  BY <1>0 DEF dmVars, playerVars
<1>6. TokenInv'
  BY <1>1, <1>2, <1>5, SendTokens
<1> QED BY <1>2, <1>3, <1>4, <1>6 DEF IInv

-----------------------------------------------------------------------------
(* Connections and crashes. *)

\* The messages that had not been written are a suffix of what was sent.
LEMMA SuffixFacts ==
    ASSUME NEW S, NEW q \in Seq(S), NEW n \in 0 .. Len(q)
    PROVE  LET r == SubSeq(q, n + 1, Len(q)) IN
           /\ r \in Seq(S)
           /\ \A i \in 1 .. Len(r) : i + n \in 1 .. Len(q) /\ r[i] = q[i + n]
<1> DEFINE r == SubSeq(q, n + 1, Len(q))
<1>1. n + 1 \in Int /\ Len(q) \in Int /\ \A i \in n + 1 .. Len(q) : q[i] \in S
  OBVIOUS
<1>2. /\ r \in Seq(S)
      /\ Len(r) = IF n + 1 <= Len(q) THEN Len(q) - (n + 1) + 1 ELSE 0
      /\ \A i \in 1 .. Len(q) - (n + 1) + 1 : r[i] = q[n + 1 + i - 1]
  BY <1>1, SubSeqProperties
<1> HIDE DEF r
<1>3. ASSUME NEW i \in 1 .. Len(r)
      PROVE  i + n \in 1 .. Len(q) /\ r[i] = q[i + n]
  <2>1. i \in 1 .. Len(q) - (n + 1) + 1 /\ n + 1 + i - 1 = i + n
    BY <1>1, <1>2
  <2> QED BY <1>2, <2>1, SMTT(30)
<1> QED BY <1>2, <1>3 DEF r

\* Noticing the end of a data manager that died preserves the invariant.
LEMMA LinkLostIInv ==
    ASSUME IInv, Sound, NEW s \in Servers, LinkLost(s)
    PROVE  IInv'
<1> DEFINE k == Cur(s)
<1>0. k \in ConnIds /\ k[1] = s /\ Sent[s] \in Seq(Request) /\ req[k] \in Seq(Request)
      /\ \A t \in Servers : Cur(t) \in ConnIds /\ (t # s => Cur(t) # k)
  BY CurFacts DEF IInv, TypeOK, Cur
<1> HIDE DEF k
<1>1. PICK n \in 0 .. Len(req[k]) :
         /\ out' = [out EXCEPT ![s] = SubSeq(req[k], n + 1, Len(req[k]))]
         /\ conn[k].st = "orphan"
         /\ req' = [req EXCEPT ![k] = <<>>]
         /\ conn' = [conn EXCEPT ![k] = [st |-> "none", hello |-> FALSE]]
  BY <1>0 DEF LinkLost, Sound, k, IInv, TypeOK
<1>2. /\ proc[s] /\ rep' = [rep EXCEPT ![s] = <<>>]
      /\ UNCHANGED <<dmVars, proc, playerVars, queueVars, cur>>
  BY DEF LinkLost
<1>3. out[s] = <<>> /\ Sent[s] = req[k]
  BY <1>0, <1>1 DEF IInv, LinkInv, Sent, k
<1> DEFINE rest == SubSeq(req[k], n + 1, Len(req[k]))
<1>4. /\ rest \in Seq(Request)
      /\ \A i \in 1 .. Len(rest) : i + n \in 1 .. Len(req[k]) /\ rest[i] = req[k][i + n]
      /\ out' = [out EXCEPT ![s] = rest]
  BY <1>0, <1>1, SuffixFacts
<1> HIDE DEF rest
<1>5. /\ out'[s] = rest /\ rep'[s] = <<>> /\ req'[k] = <<>>
      /\ \A t \in Servers : t # s => out'[t] = out[t] /\ rep'[t] = rep[t]
      /\ \A j \in ConnIds : j # k => req'[j] = req[j] /\ conn'[j] = conn[j]
      /\ conn'[k].st = "none"
      /\ \A t \in Servers : Cur(t)' = Cur(t)
  BY <1>0, <1>1, <1>2, <1>4 DEF IInv, TypeOK, Cur
<1>6. Sent'[s] = rest /\ \A t \in Servers : t # s => Sent'[t] = Sent[t]
  BY <1>0, <1>5 DEF Sent, k
<1>7. TypeOK'
  <2>1. out' \in [Servers -> Seq(Request)] /\ req' \in [ConnIds -> Seq(Request)]
        /\ rep' \in [Servers -> Seq(Reply)]
    <3>1. <<>> \in Seq(Request) /\ <<>> \in Seq(Reply)
      OBVIOUS
    <3> QED BY <1>1, <1>2, <1>4, <3>1, ZenonT(60) DEF IInv, TypeOK
  <2>2. conn' \in [ConnIds -> ConnState]
    BY <1>0, <1>1 DEF IInv, TypeOK, ConnState
  <2> QED BY <1>2, <2>1, <2>2 DEF IInv, TypeOK, DmTypeOK, dmVars, playerVars, queueVars
<1>8. PlayersInv' /\ QueueInv' /\ ContextInv'
  <2>1. UNCHANGED <<srv, sess, ctx, proc, pending, active, counter>>
    BY <1>2 DEF playerVars, queueVars
  <2> QED BY <2>1, QueueKept DEF IInv, PlayersInv
<1>9. LinkInv'
  <2>1. ASSUME NEW j \in ConnIds
        PROVE  /\ j # Cur(j[1])' => conn'[j].st = "none"
               /\ conn'[j].st = "none" => req'[j] = <<>>
    <3>1. j[1] \in Servers
      BY DEF ConnIds
    <3> QED BY <1>5, <3>1 DEF IInv, LinkInv
  <2>2. ASSUME NEW t \in Servers
        PROVE  /\ conn'[Cur(t)'].st = "cut" => ~proc'[t]
               /\ conn'[Cur(t)'].st = "up" => proc'[t]
               /\ out'[t] # <<>> => proc'[t] /\ conn'[Cur(t)'].st = "none"
               /\ rep'[t] # <<>> => proc'[t]
    <3>1. CASE t = s
      BY <1>2, <1>5, <3>1 DEF k
    <3>2. CASE t # s
      BY <1>0, <1>2, <1>5, <3>2 DEF IInv, LinkInv
    <3> QED BY <3>1, <3>2
  <2> QED BY <2>1, <2>2 DEF LinkInv
<1>10. TokenInv'
  <2>1. locks' = locks /\ sess' = sess /\ srv' = srv /\ TypeOK /\ TokenInv
    BY <1>2 DEF IInv, dmVars, playerVars
  <2>2. ASSUME NEW t \in Servers
        PROVE  rep'[t] \in Seq(Reply) /\ \E m \in Nat :
                 \A i \in 1 .. Len(rep'[t]) : i + m \in 1 .. Len(rep[t]) /\ rep'[t][i] = rep[t][i + m]
    <3>1. rep'[t] \in Seq(Reply) /\ rep[t] \in Seq(Reply)
      BY <1>7 DEF IInv, TypeOK
    <3>2. \A i \in 1 .. Len(rep'[t]) : i + 0 \in 1 .. Len(rep[t]) /\ rep'[t][i] = rep[t][i + 0]
      BY <1>5, <3>1
    <3> QED BY <3>1, <3>2
  <2>3. ASSUME NEW t \in Servers
        PROVE  Sent'[t] \in Seq(Request) /\ \E m \in Nat :
                 \A i \in 1 .. Len(Sent'[t]) : Sent'[t][i].type = "LOGOUT" =>
                     i + m \in 1 .. Len(Sent[t]) /\ Sent'[t][i] = Sent[t][i + m]
    <3>1. CASE t = s
      <4>1. Sent'[t] = rest /\ Sent[t] = req[k] /\ n \in Nat
        BY <1>3, <1>6, <3>1
      <4> QED BY <1>4, <4>1
    <3>2. CASE t # s
      <4>1. Sent[t] \in Seq(Request) /\ Sent'[t] = Sent[t]
        BY <1>6, <3>2, CurFacts DEF IInv
      <4>2. \A i \in 1 .. Len(Sent'[t]) : i + 0 \in 1 .. Len(Sent[t]) /\ Sent'[t][i] = Sent[t][i + 0]
        BY <4>1
      <4> QED BY <4>1, <4>2
    <3> QED BY <3>1, <3>2
  <2> QED BY <2>1, <2>2, <2>3, TokensKept
<1> QED BY <1>7, <1>8, <1>9, <1>10 DEF IInv

\* What a new connection is given to send, and that the old one is gone.
LEMMA NewConnectionFacts ==
    ASSUME IInv, Sound, NEW s \in Servers, NEW ms \in Seq(Request), NewConnection(s, ms),
           proc' = [proc EXCEPT ![s] = TRUE], rep' = rep
    PROVE  /\ cur' \in [Servers -> 1 .. MaxConn]
           /\ conn' \in [ConnIds -> ConnState]
           /\ req' \in [ConnIds -> Seq(Request)]
           /\ out' \in [Servers -> Seq(Request)]
           /\ Sent[s] = out[s] /\ Sent'[s] = ms
           /\ \A t \in Servers : t # s => Sent'[t] = Sent[t]
           /\ LinkInv'
<1> DEFINE k == <<s, cur[s] + 1>>
<1>0. /\ cur[s] \in 1 .. MaxConn /\ cur[s] < MaxConn /\ k \in ConnIds /\ MaxConn \in Nat
      /\ Cur(s) \in ConnIds /\ Cur(s) # k /\ Cur(s)[1] = s
  BY LoginConstants DEF NewConnection, IInv, TypeOK, ConnIds, Cur
<1>1. /\ cur' = [cur EXCEPT ![s] = @ + 1]
      /\ conn' = [conn EXCEPT ![k] = [st |-> "up", hello |-> FALSE]]
      /\ req' = [req EXCEPT ![k] = ms]
      /\ out' = [out EXCEPT ![s] = <<>>]
  BY DEF NewConnection
<1>2. conn[Cur(s)].st = "none" /\ req[Cur(s)] = <<>>
  <2>1. conn[Cur(s)].st \in {"none", "cut"}
    BY <1>0 DEF NewConnection, Linked, IInv, TypeOK, ConnState
  <2>2. Noticed(s)
    BY DEF NewConnection, Sound
  <2>3. conn[Cur(s)].st # "cut"
    BY <1>0, <2>2 DEF Noticed, Cur
  <2> QED BY <1>0, <2>1, <2>3 DEF IInv, LinkInv
<1>3. Sent[s] = out[s]
  BY <1>2 DEF Sent
<1>4. cur' \in [Servers -> 1 .. MaxConn]
  BY <1>0, <1>1 DEF IInv, TypeOK
<1>5. conn' \in [ConnIds -> ConnState]
  BY <1>0, <1>1 DEF IInv, TypeOK, ConnState
<1>6. req' \in [ConnIds -> Seq(Request)] /\ out' \in [Servers -> Seq(Request)]
  BY <1>0, <1>1 DEF IInv, TypeOK
<1>7. /\ cur'[s] = cur[s] + 1 /\ req'[k] = ms /\ out'[s] = <<>> /\ conn'[k].st = "up"
      /\ \A t \in Servers : t # s => cur'[t] = cur[t] /\ out'[t] = out[t]
      /\ \A j \in ConnIds : j # k => req'[j] = req[j] /\ conn'[j] = conn[j]
      /\ proc'[s] /\ \A t \in Servers : t # s => proc'[t] = proc[t]
  BY <1>0, <1>1 DEF IInv, TypeOK
<1>8. /\ Cur(s)' = k /\ \A t \in Servers : t # s => Cur(t)' = Cur(t) /\ Cur(t) # k /\ Cur(t) \in ConnIds
  BY <1>7, CurFacts DEF Cur, IInv
<1>9. Sent'[s] = ms /\ \A t \in Servers : t # s => Sent'[t] = Sent[t]
  BY <1>7, <1>8 DEF Sent
<1>10. LinkInv'
  <2>1. ASSUME NEW j \in ConnIds, j # Cur(j[1])'
        PROVE  conn'[j].st = "none"
    <3>1. j[1] \in Servers
      BY DEF ConnIds
    <3>2. CASE j[1] = s
      <4>1. j # k
        BY <1>8, <2>1, <3>2
      <4>2. CASE j = Cur(s)
        BY <1>2, <1>7, <4>1, <4>2
      <4>3. CASE j # Cur(s)
        BY <1>7, <3>2, <4>1, <4>3 DEF IInv, LinkInv
      <4> QED BY <4>2, <4>3
    <3>3. CASE j[1] # s
      <4>1. j # k /\ j # Cur(j[1])
        BY <1>8, <2>1, <3>1, <3>3
      <4> QED BY <1>7, <4>1 DEF IInv, LinkInv
    <3> QED BY <3>2, <3>3
  <2>2. ASSUME NEW j \in ConnIds, conn'[j].st = "none"
        PROVE  req'[j] = <<>>
    BY <1>7, <2>2 DEF IInv, LinkInv
  <2>3. ASSUME NEW t \in Servers
        PROVE  /\ conn'[Cur(t)'].st = "cut" => ~proc'[t]
               /\ conn'[Cur(t)'].st = "up" => proc'[t]
               /\ out'[t] # <<>> => proc'[t] /\ conn'[Cur(t)'].st = "none"
               /\ rep'[t] # <<>> => proc'[t]
    <3>1. CASE t = s
      BY <1>7, <1>8, <3>1
    <3>2. CASE t # s
      BY <1>7, <1>8, <3>2 DEF IInv, LinkInv
    <3> QED BY <3>1, <3>2
  <2> QED BY <2>1, <2>2, <2>3 DEF LinkInv
<1> QED BY <1>3, <1>4, <1>5, <1>6, <1>9, <1>10

\* A new connection with the old queue or a hello preserves the invariant.
LEMMA NewConnectionIInv ==
    ASSUME IInv, Sound, NEW s \in Servers, NEW ms \in Seq(Request), NewConnection(s, ms),
           proc' = [proc EXCEPT ![s] = TRUE],
           UNCHANGED <<dmVars, playerVars, queueVars, rep>>,
           \A i \in 1 .. Len(ms) : ms[i].type = "LOGOUT" =>
               i \in 1 .. Len(out[s]) /\ ms[i] = out[s][i]
    PROVE  IInv'
<1>0. UNCHANGED <<locks, userCount, downtime, srv, dead, sess, ctx, pending, active, counter, tree, rep>>
  BY DEF dmVars, playerVars, queueVars
<1>1. /\ cur' \in [Servers -> 1 .. MaxConn]
      /\ conn' \in [ConnIds -> ConnState]
      /\ req' \in [ConnIds -> Seq(Request)]
      /\ out' \in [Servers -> Seq(Request)]
      /\ Sent[s] = out[s] /\ Sent'[s] = ms
      /\ \A t \in Servers : t # s => Sent'[t] = Sent[t]
      /\ LinkInv'
  BY <1>0, NewConnectionFacts
<1>2. TypeOK'
  BY <1>0, <1>1 DEF IInv, TypeOK, DmTypeOK
<1>3. PlayersInv' /\ QueueInv' /\ ContextInv'
  <2>1. PlayersInv'
    BY <1>0 DEF IInv, PlayersInv, TypeOK
  <2> QED BY <1>0, <2>1, QueueKept
<1>4. TokenInv'
  <2>1. ASSUME NEW t \in Servers
        PROVE  rep'[t] \in Seq(Reply) /\ \E m \in Nat :
                 \A i \in 1 .. Len(rep'[t]) : i + m \in 1 .. Len(rep[t]) /\ rep'[t][i] = rep[t][i + m]
    <3>1. rep'[t] \in Seq(Reply) /\ rep'[t] = rep[t]
      BY <1>0 DEF IInv, TypeOK
    <3>2. \A i \in 1 .. Len(rep'[t]) : i + 0 \in 1 .. Len(rep[t]) /\ rep'[t][i] = rep[t][i + 0]
      BY <3>1
    <3> QED BY <3>1, <3>2
  <2>2. ASSUME NEW t \in Servers
        PROVE  Sent'[t] \in Seq(Request) /\ \E m \in Nat :
                 \A i \in 1 .. Len(Sent'[t]) : Sent'[t][i].type = "LOGOUT" =>
                     i + m \in 1 .. Len(Sent[t]) /\ Sent'[t][i] = Sent[t][i + m]
    <3>1. Sent[t] \in Seq(Request) /\ Sent'[t] \in Seq(Request)
      BY <1>1, CurFacts DEF IInv
    <3>2. \A i \in 1 .. Len(Sent'[t]) : Sent'[t][i].type = "LOGOUT" =>
             i + 0 \in 1 .. Len(Sent[t]) /\ Sent'[t][i] = Sent[t][i + 0]
      <4>1. CASE t = s
        BY <1>1, <4>1
      <4>2. CASE t # s
        BY <1>1, <3>1, <4>2
      <4> QED BY <4>1, <4>2
    <3> QED BY <3>1, <3>2
  <2>3. TypeOK /\ TokenInv
    BY DEF IInv
  <2> QED BY <1>0, <2>1, <2>2, <2>3, TokensKept, ZenonT(60)
<1> QED BY <1>1, <1>2, <1>3, <1>4 DEF IInv

\* Reconnecting preserves the invariant.
LEMMA ReconnectIInv ==
    ASSUME IInv, Sound, NEW s \in Servers, Reconnect(s)
    PROVE  IInv'
<1> DEFINE ms == Append(out[s], HelloMsg)
<1>0. out[s] \in Seq(Request) /\ HelloMsg \in Request /\ HelloMsg.type # "LOGOUT"
  BY DEF IInv, TypeOK, HelloMsg, Request
<1>1. ms \in Seq(Request) /\ \A i \in 1 .. Len(ms) : ms[i].type = "LOGOUT" =>
         i \in 1 .. Len(out[s]) /\ ms[i] = out[s][i]
  BY <1>0
<1>2. proc' = [proc EXCEPT ![s] = TRUE] /\ NewConnection(s, ms)
      /\ UNCHANGED <<dmVars, playerVars, queueVars, rep>>
  BY DEF Reconnect, IInv, TypeOK
<1> HIDE DEF ms
<1> QED BY <1>1, <1>2, NewConnectionIInv

\* The restart of a game server preserves the invariant.
LEMMA RestartIInv ==
    ASSUME IInv, Sound, NEW s \in Servers, Restart(s)
    PROVE  IInv'
<1> DEFINE ms == <<HelloMsg>>
<1>0. HelloMsg \in Request /\ HelloMsg.type # "LOGOUT"
  BY DEF HelloMsg, Request
<1>1. ms \in Seq(Request) /\ \A i \in 1 .. Len(ms) : ms[i].type # "LOGOUT"
  BY <1>0
<1>2. proc' = [proc EXCEPT ![s] = TRUE] /\ NewConnection(s, ms)
      /\ UNCHANGED <<dmVars, playerVars, queueVars, rep>>
  BY DEF Restart
<1> HIDE DEF ms
<1> QED BY <1>1, <1>2, NewConnectionIInv

\* The crash of a game server preserves the invariant: its tokens vanish, its locks wait for the reap.
LEMMA CrashIInv ==
    ASSUME IInv, NEW s \in Servers, Crash(s)
    PROVE  IInv'
<1> DEFINE k == Cur(s)
           gone == {c \in Clients : srv[c] = s}
<1>0. k \in ConnIds /\ k[1] = s /\ s # Off
      /\ \A t \in Servers : Cur(t) \in ConnIds /\ (t # s => Cur(t) # k) /\ Cur(t)' = Cur(t)
  BY CurFacts, LoginConstants DEF IInv, TypeOK, Cur, Crash
<1>1. /\ proc[s] /\ proc' = [proc EXCEPT ![s] = FALSE]
      /\ srv' = [c \in Clients |-> IF c \in gone THEN Off ELSE srv[c]]
      /\ dead' = [c \in Clients |-> IF c \in gone THEN FALSE ELSE dead[c]]
      /\ sess' = [c \in Clients |-> IF c \in gone THEN NoAcct ELSE sess[c]]
      /\ ctx' = [c \in Clients |-> IF c \in gone THEN NoId ELSE ctx[c]]
      /\ pending' = [pending EXCEPT ![s] = <<>>]
      /\ active' = [active EXCEPT ![s] = NoId]
      /\ counter' = [counter EXCEPT ![s] = 0]
      /\ tree' = [tree EXCEPT ![s] = [a \in Accounts |-> NoClient]]
      /\ rep' = [rep EXCEPT ![s] = <<>>]
      /\ out' = [out EXCEPT ![s] = <<>>]
      /\ UNCHANGED <<dmVars, cur>>
  BY DEF Crash
<1> HIDE DEF k
<1>2. /\ conn' \in [ConnIds -> ConnState]
      /\ conn'[k].st \in {"none", "cut"}
      /\ conn[k].st = "up" => conn'[k].st = "cut"
      /\ conn[k].st = "orphan" => conn'[k].st = "none"
      /\ conn[k].st \in {"none", "cut"} => conn'[k].st = conn[k].st
      /\ \A j \in ConnIds : j # k => conn'[j] = conn[j]
  <2>1. conn' = [conn EXCEPT ![k].st = CASE @ = "up" -> "cut"
                                         [] @ = "orphan" -> "none"
                                         [] OTHER -> @]
    BY DEF Crash, k
  <2>2. conn[k] \in ConnState /\ conn[k].st \in {"none", "up", "cut", "orphan"}
    BY <1>0 DEF IInv, TypeOK, ConnState
  <2>3. conn \in [ConnIds -> ConnState]
    BY DEF IInv, TypeOK
  <2>4. CASE conn[k].st = "up"
    BY <1>0, <2>1, <2>2, <2>3, <2>4 DEF ConnState
  <2>5. CASE conn[k].st = "orphan"
    BY <1>0, <2>1, <2>2, <2>3, <2>5 DEF ConnState
  <2>6. CASE conn[k].st \in {"none", "cut"}
    BY <1>0, <2>1, <2>2, <2>3, <2>6 DEF ConnState
  <2> QED BY <2>2, <2>4, <2>5, <2>6
<1>3. /\ req' \in [ConnIds -> Seq(Request)]
      /\ conn[k].st = "orphan" => req'[k] = <<>>
      /\ conn[k].st # "orphan" => req'[k] = req[k]
      /\ \A j \in ConnIds : j # k => req'[j] = req[j]
  <2>1. req' = IF conn[k].st = "orphan" THEN [req EXCEPT ![k] = <<>>] ELSE req
    BY DEF Crash, k
  <2>2. <<>> \in Seq(Request)
    OBVIOUS
  <2> QED BY <1>0, <2>1, <2>2 DEF IInv, TypeOK
<1>4. /\ rep'[s] = <<>> /\ out'[s] = <<>> /\ pending'[s] = <<>> /\ active'[s] = NoId /\ counter'[s] = 0
      /\ \A t \in Servers : t # s =>
            /\ rep'[t] = rep[t] /\ out'[t] = out[t] /\ pending'[t] = pending[t]
            /\ active'[t] = active[t] /\ counter'[t] = counter[t]
            /\ proc'[t] = proc[t]
  BY <1>1 DEF IInv, TypeOK
<1>5. TypeOK'
  <2>1. <<>> \in Seq(Request) /\ <<>> \in Seq(Reply) /\ <<>> \in Seq(Context)
        /\ 0 \in 0 .. MaxLogin
    BY LoginConstants
  <2>2. /\ proc' \in [Servers -> BOOLEAN]
        /\ srv' \in [Clients -> Servers \union {Off}]
        /\ dead' \in [Clients -> BOOLEAN]
        /\ sess' \in [Clients -> Accounts \union {NoAcct}]
        /\ ctx' \in [Clients -> Ids \union {NoId}]
    BY <1>1 DEF IInv, TypeOK
  <2>3. /\ pending' \in [Servers -> Seq(Context)]
        /\ active' \in [Servers -> Ids \union {NoId}]
        /\ counter' \in [Servers -> 0 .. MaxLogin]
        /\ rep' \in [Servers -> Seq(Reply)]
        /\ out' \in [Servers -> Seq(Request)]
    BY <1>1, <2>1 DEF IInv, TypeOK
  <2>4. tree' \in [Servers -> [Accounts -> Clients \union {NoClient}]]
    BY <1>1 DEF IInv, TypeOK
  <2> QED BY <1>1, <1>2, <1>3, <2>2, <2>3, <2>4 DEF IInv, TypeOK, DmTypeOK, dmVars
<1>6. PlayersInv'
  <2>1. ASSUME NEW c \in Clients, srv'[c] = Off
        PROVE  sess'[c] = NoAcct /\ ctx'[c] = NoId
    BY <1>1, <2>1 DEF IInv, PlayersInv
  <2>2. ASSUME NEW c \in Clients, srv'[c] # Off
        PROVE  proc'[srv'[c]]
    <3>1. srv'[c] = srv[c] /\ srv[c] # s /\ srv[c] \in Servers
      BY <1>1, <2>2 DEF IInv, TypeOK
    <3> QED BY <1>4, <2>2, <3>1 DEF IInv, PlayersInv
  <2> QED BY <2>1, <2>2 DEF PlayersInv
<1>7. QueueInv'
  <2>1. SUFFICES ASSUME NEW t \in Servers
                 PROVE  /\ active'[t] = StartId(pending'[t])
                        /\ Ordered(pending'[t])
                        /\ \A i \in 1 .. Len(pending'[t]) :
                             /\ pending'[t][i].id < counter'[t]
                             /\ srv'[pending'[t][i].client] = t
                             /\ ctx'[pending'[t][i].client] = pending'[t][i].id
                             /\ sess'[pending'[t][i].client] = NoAcct
    BY DEF QueueInv, Ordered, StartId
  <2>2. CASE t = s
    BY <1>4, <2>2 DEF StartId, Ordered
  <2>3. CASE t # s
    <3>1. ASSUME NEW i \in 1 .. Len(pending[t])
          PROVE  /\ pending[t][i].client \in Clients /\ pending[t][i].client \notin gone
                 /\ pending[t][i].id < counter[t]
                 /\ srv[pending[t][i].client] = t
                 /\ ctx[pending[t][i].client] = pending[t][i].id
                 /\ sess[pending[t][i].client] = NoAcct
      BY <2>3, QueueFacts DEF IInv, QueueInv
    <3>2. active[t] = StartId(pending[t]) /\ Ordered(pending[t])
      BY DEF IInv, QueueInv
    <3>3. pending'[t] = pending[t] /\ active'[t] = active[t] /\ counter'[t] = counter[t]
      BY <1>4, <2>3
    <3>4. \A c \in Clients : c \notin gone => srv'[c] = srv[c] /\ ctx'[c] = ctx[c] /\ sess'[c] = sess[c]
      BY <1>1
    <3> HIDE DEF gone
    <3> QED BY <3>1, <3>2, <3>3, <3>4
  <2> QED BY <2>2, <2>3
<1>8. ContextInv'
  <2>1. SUFFICES ASSUME NEW c \in Clients, ctx'[c] # NoId
                 PROVE  \E i \in 1 .. Len(pending'[srv'[c]]) :
                           pending'[srv'[c]][i].id = ctx'[c] /\ pending'[srv'[c]][i].client = c
    BY DEF ContextInv
  <2>2. c \notin gone /\ ctx'[c] = ctx[c] /\ srv'[c] = srv[c] /\ ctx[c] # NoId
    BY <1>1, <2>1
  <2>3. srv[c] \in Servers /\ srv[c] # s
    BY <2>2 DEF IInv, TypeOK, PlayersInv
  <2> QED BY <1>4, <2>2, <2>3 DEF IInv, ContextInv
<1>9. LinkInv'
  <2>1. ASSUME NEW j \in ConnIds
        PROVE  /\ j # Cur(j[1])' => conn'[j].st = "none"
               /\ conn'[j].st = "none" => req'[j] = <<>>
    <3>1. j[1] \in Servers /\ Cur(j[1])' = Cur(j[1])
      BY <1>0 DEF ConnIds
    <3>2. CASE j = k
      <4>1. conn[k].st = "none" => req[k] = <<>>
        BY <1>0 DEF IInv, LinkInv
      <4>2. conn[k].st \in {"none", "up", "cut", "orphan"}
        BY <1>0 DEF IInv, TypeOK, ConnState
      <4>3. j = Cur(j[1])
        BY <1>0, <3>2 DEF k
      <4> QED BY <1>2, <1>3, <3>1, <3>2, <4>1, <4>2, <4>3
    <3>3. CASE j # k
      BY <1>2, <1>3, <3>1, <3>3 DEF IInv, LinkInv
    <3> QED BY <3>2, <3>3
  <2>2. ASSUME NEW t \in Servers
        PROVE  /\ conn'[Cur(t)'].st = "cut" => ~proc'[t]
               /\ conn'[Cur(t)'].st = "up" => proc'[t]
               /\ out'[t] # <<>> => proc'[t] /\ conn'[Cur(t)'].st = "none"
               /\ rep'[t] # <<>> => proc'[t]
    <3>1. CASE t = s
      <4>1. ~proc'[s]
        BY <1>1 DEF IInv, TypeOK
      <4>2. conn'[Cur(t)'].st \in {"none", "cut"}
        BY <1>0, <1>2, <3>1 DEF k
      <4> QED BY <1>4, <3>1, <4>1, <4>2
    <3>2. CASE t # s
      BY <1>0, <1>2, <1>4, <3>2 DEF IInv, LinkInv
    <3> QED BY <3>1, <3>2
  <2> QED BY <2>1, <2>2 DEF LinkInv
<1>10. TokenInv'
  <2>1. locks' = locks /\ TypeOK /\ TokenInv
    BY <1>1 DEF IInv, dmVars
  <2>2. /\ \A c \in Clients : sess'[c] \in Exclusive => sess'[c] = sess[c] /\ srv'[c] = srv[c]
        /\ \A c \in Clients : sess'[c] = sess[c] \/ sess'[c] = NoAcct
    BY <1>1, LoginConstants DEF Exclusive
  <2>3. ASSUME NEW t \in Servers
        PROVE  rep'[t] \in Seq(Reply) /\ \E m \in Nat :
                 \A i \in 1 .. Len(rep'[t]) : i + m \in 1 .. Len(rep[t]) /\ rep'[t][i] = rep[t][i + m]
    <3>1. rep'[t] \in Seq(Reply) /\ rep[t] \in Seq(Reply)
      BY <1>5 DEF IInv, TypeOK
    <3>2. \A i \in 1 .. Len(rep'[t]) : i + 0 \in 1 .. Len(rep[t]) /\ rep'[t][i] = rep[t][i + 0]
      <4>1. CASE t = s
        BY <1>4, <4>1
      <4>2. CASE t # s
        BY <1>4, <3>1, <4>2
      <4> QED BY <4>1, <4>2
    <3> QED BY <3>1, <3>2
  <2>4. ASSUME NEW t \in Servers
        PROVE  Sent'[t] \in Seq(Request) /\ \E m \in Nat :
                 \A i \in 1 .. Len(Sent'[t]) : Sent'[t][i].type = "LOGOUT" =>
                     i + m \in 1 .. Len(Sent[t]) /\ Sent'[t][i] = Sent[t][i + m]
    <3>1. Sent[t] \in Seq(Request)
      BY CurFacts DEF IInv
    <3>2. Sent'[t] = <<>> \/ Sent'[t] = Sent[t]
      <4>1. CASE t = s
        <5>1. Sent'[s] = req'[k]
          BY <1>0, <1>4 DEF Sent, k
        <5>2. out[s] = <<>> \/ req[k] = <<>>
          BY <1>0 DEF IInv, LinkInv, k
        <5>3. out[s] = <<>> => Sent[s] = req[k]
          BY DEF Sent, k
        <5>4. req'[k] = <<>> \/ req'[k] = req[k]
          BY <1>3
        <5> QED BY <4>1, <5>1, <5>2, <5>3, <5>4
      <4>2. CASE t # s
        BY <1>0, <1>3, <1>4, <4>2 DEF Sent
      <4> QED BY <4>1, <4>2
    <3>3. Sent'[t] \in Seq(Request)
      <4>1. <<>> \in Seq(Request)
        OBVIOUS
      <4> QED BY <3>1, <3>2, <4>1
    <3>4. \A i \in 1 .. Len(Sent'[t]) : i + 0 \in 1 .. Len(Sent[t]) /\ Sent'[t][i] = Sent[t][i + 0]
      BY <3>1, <3>2
    <3> QED BY <3>3, <3>4
  <2> QED BY <2>1, <2>2, <2>3, <2>4, TokensKept
<1> QED BY <1>5, <1>6, <1>7, <1>8, <1>9, <1>10 DEF IInv

-----------------------------------------------------------------------------
(* The data manager. *)

\* Reaping a dead connection preserves the invariant: only locks without tokens are released.
LEMMA DmReapIInv ==
    ASSUME IInv, NEW k \in ConnIds, DmReap(k)
    PROVE  IInv'
<1> DEFINE s == k[1]
<1>1. /\ conn[k].st = "cut"
      /\ conn' = [conn EXCEPT ![k] = [st |-> "none", hello |-> FALSE]]
      /\ req' = [req EXCEPT ![k] = <<>>]
      /\ UNCHANGED <<proc, playerVars, queueVars, cur, rep, out>>
      /\ DmHungUp(s, conn[k].hello)
  BY DEF DmReap
<1>2. UNCHANGED <<proc, srv, dead, sess, ctx, pending, active, counter, tree, cur, rep, out>>
  BY <1>1 DEF playerVars, queueVars
<1>3. s \in Servers /\ k = Cur(s) /\ ~proc[s]
  BY <1>1 DEF IInv, LinkInv, ConnIds
<1>4. \A t \in Servers : Cur(t) \in ConnIds /\ Cur(t)' = Cur(t) /\ (t # s => Cur(t) # k)
  BY <1>2, <1>3, CurFacts DEF IInv, Cur
<1>5. /\ \A a \in Accounts : locks'[a] = locks[a] \/ (locks[a] = s /\ locks'[a] = NoServer)
      /\ locks' \in [Accounts -> Servers \union {NoServer}]
      /\ userCount' \in [Servers -> Int]
      /\ downtime' = downtime
  BY <1>1, <1>3 DEF DmHungUp, IInv, TypeOK, DmTypeOK
<1>6. /\ conn'[k].st = "none" /\ req'[k] = <<>>
      /\ \A j \in ConnIds : j # k => conn'[j] = conn[j] /\ req'[j] = req[j]
      /\ conn' \in [ConnIds -> ConnState] /\ req' \in [ConnIds -> Seq(Request)]
  BY <1>1 DEF IInv, TypeOK, ConnState
<1> HIDE DEF s
<1>7. TypeOK'
  BY <1>2, <1>5, <1>6 DEF IInv, TypeOK, DmTypeOK
<1>8. PlayersInv' /\ QueueInv' /\ ContextInv'
  BY <1>2, QueueKept DEF IInv, PlayersInv
<1>9. LinkInv'
  <2>1. ASSUME NEW j \in ConnIds
        PROVE  /\ j # Cur(j[1])' => conn'[j].st = "none"
               /\ conn'[j].st = "none" => req'[j] = <<>>
    <3>1. j[1] \in Servers
      BY DEF ConnIds
    <3>2. CASE j = k
      BY <1>6, <3>2
    <3>3. CASE j # k
      <4>1. conn'[j] = conn[j] /\ req'[j] = req[j] /\ Cur(j[1])' = Cur(j[1])
        BY <1>4, <1>6, <3>1, <3>3
      <4> QED BY <4>1 DEF IInv, LinkInv
    <3> QED BY <3>2, <3>3
  <2>2. ASSUME NEW t \in Servers
        PROVE  /\ conn'[Cur(t)'].st = "cut" => ~proc'[t]
               /\ conn'[Cur(t)'].st = "up" => proc'[t]
               /\ out'[t] # <<>> => proc'[t] /\ conn'[Cur(t)'].st = "none"
               /\ rep'[t] # <<>> => proc'[t]
    <3>1. CASE t = s
      BY <1>2, <1>3, <1>4, <1>6, <3>1 DEF IInv, LinkInv
    <3>2. CASE t # s
      BY <1>2, <1>4, <1>6, <3>2 DEF IInv, LinkInv
    <3> QED BY <3>1, <3>2
  <2> QED BY <2>1, <2>2 DEF LinkInv
<1>10. /\ Sent'[s] = <<>> /\ rep'[s] = <<>>
       /\ \A t \in Servers : t # s => Sent'[t] = Sent[t]
  <2>1. out[s] = <<>> /\ rep[s] = <<>>
    BY <1>3 DEF IInv, LinkInv
  <2> QED BY <2>1, <1>2, <1>3, <1>4, <1>6 DEF Sent
<1>11. TokenInv'
  <2>1. TypeOK /\ TokenInv
    BY DEF IInv
  <2>2. ASSUME NEW a \in Exclusive, locks'[a] # locks[a]
        PROVE  NoToken(a, sess', rep', Sent')
    <3>1. locks[a] = s /\ a \in Accounts /\ a # NoAcct
      BY <1>5, <2>2, LoginConstants DEF Exclusive
    <3>2. \A c \in Clients : sess'[c] # a
      <4>1. SUFFICES ASSUME NEW c \in Clients, sess[c] = a PROVE FALSE
        BY <1>2
      <4>2. srv[c] = s
        BY <2>1, <3>1, <4>1 DEF TokenInv, PlayerTokens
      <4> QED BY <1>3, <4>2, LoginConstants DEF IInv, PlayersInv
    <3>3. ASSUME NEW t \in Servers, NEW i \in 1 .. Len(rep'[t]), rep'[t][i].ok
          PROVE  rep'[t][i].acct # a
      <4>1. t # s
        BY <1>10, <3>3
      <4> QED BY <1>2, <2>1, <3>1, <3>3, <4>1 DEF TokenInv, ReplyTokens
    <3>4. ASSUME NEW t \in Servers, NEW i \in 1 .. Len(Sent'[t]), Sent'[t][i].type = "LOGOUT"
          PROVE  Sent'[t][i].acct # a
      <4>1. t # s /\ Sent'[t] = Sent[t]
        BY <1>10, <3>4
      <4> QED BY <2>1, <3>1, <3>4, <4>1 DEF TokenInv, LogoutTokens
    <3> QED BY <3>2, <3>3, <3>4 DEF NoToken
  <2>3. ASSUME NEW t \in Servers
        PROVE  rep'[t] \in Seq(Reply) /\ \E m \in Nat :
                 \A i \in 1 .. Len(rep'[t]) : i + m \in 1 .. Len(rep[t]) /\ rep'[t][i] = rep[t][i + m]
    <3>1. rep'[t] \in Seq(Reply) /\ rep'[t] = rep[t]
      BY <1>2, <1>7 DEF TypeOK
    <3>2. \A i \in 1 .. Len(rep'[t]) : i + 0 \in 1 .. Len(rep[t]) /\ rep'[t][i] = rep[t][i + 0]
      BY <3>1
    <3> QED BY <3>1, <3>2
  <2>4. ASSUME NEW t \in Servers
        PROVE  Sent'[t] \in Seq(Request) /\ \E m \in Nat :
                 \A i \in 1 .. Len(Sent'[t]) : Sent'[t][i].type = "LOGOUT" =>
                     i + m \in 1 .. Len(Sent[t]) /\ Sent'[t][i] = Sent[t][i + m]
    <3>1. Sent[t] \in Seq(Request) /\ <<>> \in Seq(Request)
      BY CurFacts DEF IInv
    <3>2. Sent'[t] = <<>> \/ Sent'[t] = Sent[t]
      BY <1>10
    <3>3. \A i \in 1 .. Len(Sent'[t]) : i + 0 \in 1 .. Len(Sent[t]) /\ Sent'[t][i] = Sent[t][i + 0]
      BY <3>1, <3>2
    <3> QED BY <3>1, <3>2, <3>3
  <2> QED BY <1>2, <2>1, <2>2, <2>3, <2>4, TokensKept, ZenonT(60)
<1> QED BY <1>7, <1>8, <1>9, <1>11 DEF IInv

\* The restart of the data manager preserves the invariant.
LEMMA DmRestartIInv ==
    ASSUME IInv, DmRestart
    PROVE  IInv'
<1>1. UNCHANGED <<proc, srv, dead, sess, ctx, pending, active, counter, tree, cur, rep, out>>
  BY DEF DmRestart, playerVars, queueVars
<1>2. UNCHANGED <<locks, downtime>> /\ userCount' = [s \in Servers |-> 0]
  BY DEF DmRestart, DmStart
<1>3. /\ conn' = [k \in ConnIds |->
                    CASE conn[k].st = "up"  -> [st |-> "orphan", hello |-> FALSE]
                      [] conn[k].st = "cut" -> [st |-> "none", hello |-> FALSE]
                      [] OTHER -> conn[k]]
      /\ req' = [k \in ConnIds |-> IF conn[k].st = "cut" THEN <<>> ELSE req[k]]
  BY DEF DmRestart
<1>4. ASSUME NEW k \in ConnIds
      PROVE  /\ conn'[k] \in ConnState /\ req'[k] \in Seq(Request)
             /\ conn[k].st \in {"none", "orphan"} => conn'[k] = conn[k] /\ req'[k] = req[k]
             /\ conn[k].st = "up" => conn'[k].st = "orphan" /\ req'[k] = req[k]
             /\ conn[k].st = "cut" => conn'[k].st = "none" /\ req'[k] = <<>>
             /\ conn[k].st \in {"none", "up", "cut", "orphan"}
  <2>1. conn[k] \in ConnState /\ conn[k].st \in {"none", "up", "cut", "orphan"}
        /\ req[k] \in Seq(Request)
    BY DEF IInv, TypeOK, ConnState
  <2>2. CASE conn[k].st \in {"none", "orphan"}
    BY <1>3, <2>1, <2>2
  <2>3. CASE conn[k].st = "up"
    BY <1>3, <2>1, <2>3 DEF ConnState
  <2>4. CASE conn[k].st = "cut"
    <3>1. <<>> \in Seq(Request)
      OBVIOUS
    <3> QED BY <1>3, <2>1, <2>4, <3>1 DEF ConnState
  <2> QED BY <2>1, <2>2, <2>3, <2>4
<1>5. TypeOK'
  <2>1. conn' \in [ConnIds -> ConnState] /\ req' \in [ConnIds -> Seq(Request)]
    BY <1>3, <1>4
  <2>2. userCount' \in [Servers -> Int]
    BY <1>2
  <2> QED BY <1>1, <1>2, <2>1, <2>2 DEF IInv, TypeOK, DmTypeOK
<1>6. PlayersInv' /\ QueueInv' /\ ContextInv'
  BY <1>1, QueueKept DEF IInv, PlayersInv
<1>7. \A t \in Servers : Cur(t) \in ConnIds /\ Cur(t)' = Cur(t)
  BY <1>1, CurFacts DEF IInv, Cur
<1>8. LinkInv'
  <2>1. ASSUME NEW j \in ConnIds
        PROVE  /\ j # Cur(j[1])' => conn'[j].st = "none"
               /\ conn'[j].st = "none" => req'[j] = <<>>
    <3>1. j[1] \in Servers
      BY DEF ConnIds
    <3> QED BY <1>4, <1>7, <3>1 DEF IInv, LinkInv
  <2>2. ASSUME NEW t \in Servers
        PROVE  /\ conn'[Cur(t)'].st = "cut" => ~proc'[t]
               /\ conn'[Cur(t)'].st = "up" => proc'[t]
               /\ out'[t] # <<>> => proc'[t] /\ conn'[Cur(t)'].st = "none"
               /\ rep'[t] # <<>> => proc'[t]
    BY <1>1, <1>4, <1>7 DEF IInv, LinkInv
  <2> QED BY <2>1, <2>2 DEF LinkInv
<1>9. \A t \in Servers : Sent'[t] = <<>> \/ Sent'[t] = Sent[t]
  BY <1>1, <1>4, <1>7 DEF Sent
<1>10. TokenInv'
  <2>1. TypeOK /\ TokenInv
    BY DEF IInv
  <2>2. ASSUME NEW t \in Servers
        PROVE  rep'[t] \in Seq(Reply) /\ \E m \in Nat :
                 \A i \in 1 .. Len(rep'[t]) : i + m \in 1 .. Len(rep[t]) /\ rep'[t][i] = rep[t][i + m]
    <3>1. rep'[t] \in Seq(Reply) /\ rep'[t] = rep[t]
      BY <1>1, <1>5 DEF TypeOK
    <3>2. \A i \in 1 .. Len(rep'[t]) : i + 0 \in 1 .. Len(rep[t]) /\ rep'[t][i] = rep[t][i + 0]
      BY <3>1
    <3> QED BY <3>1, <3>2
  <2>3. ASSUME NEW t \in Servers
        PROVE  Sent'[t] \in Seq(Request) /\ \E m \in Nat :
                 \A i \in 1 .. Len(Sent'[t]) : Sent'[t][i].type = "LOGOUT" =>
                     i + m \in 1 .. Len(Sent[t]) /\ Sent'[t][i] = Sent[t][i + m]
    <3>1. Sent[t] \in Seq(Request) /\ <<>> \in Seq(Request)
      BY CurFacts DEF IInv
    <3>2. Sent'[t] = <<>> \/ Sent'[t] = Sent[t]
      BY <1>9
    <3>3. \A i \in 1 .. Len(Sent'[t]) : i + 0 \in 1 .. Len(Sent[t]) /\ Sent'[t][i] = Sent[t][i + 0]
      BY <3>1, <3>2
    <3> QED BY <3>1, <3>2, <3>3
  <2> QED BY <1>1, <1>2, <2>1, <2>2, <2>3, TokensKept, ZenonT(60)
<1> QED BY <1>5, <1>6, <1>8, <1>10 DEF IInv

\* the next request of server s is taken from what it has sent
LEMMA DmReceiveFacts ==
    ASSUME IInv, NEW k \in ConnIds, DmReceive(k)
    PROVE  /\ k[1] \in Servers /\ k = Cur(k[1])
           /\ conn[k].st = "up" => proc[k[1]]
           /\ Head(req[k]) \in Request /\ Sent[k[1]][1] = Head(req[k]) /\ 1 \in 1 .. Len(Sent[k[1]])
           /\ Sent'[k[1]] = Tail(Sent[k[1]])
           /\ \A t \in Servers : t # k[1] => Sent'[t] = Sent[t]
           /\ \A t \in Servers : Sent'[t] \in Seq(Request) /\ \E n \in Nat :
                 \A i \in 1 .. Len(Sent'[t]) :
                     i + n \in 1 .. Len(Sent[t]) /\ Sent'[t][i] = Sent[t][i + n]
           /\ conn' \in [ConnIds -> ConnState] /\ req' \in [ConnIds -> Seq(Request)]
           /\ (\A t \in Servers : rep'[t] # <<>> => proc[t]) => LinkInv'
           /\ PlayersInv' /\ QueueInv' /\ ContextInv'
<1> DEFINE s == k[1]
<1>1. /\ conn[k].st \in {"up", "cut"}
      /\ req[k] # <<>>
      /\ req' = [req EXCEPT ![k] = Tail(@)]
      /\ conn' = conn \/ conn' = [conn EXCEPT ![k].hello = TRUE]
      /\ UNCHANGED <<proc, playerVars, queueVars, cur, out>>
  BY DEF DmReceive
<1>2. UNCHANGED <<proc, srv, dead, sess, ctx, pending, active, counter, tree, cur, out>>
  BY <1>1 DEF playerVars, queueVars
<1>3. s \in Servers /\ k = Cur(s)
  BY <1>1 DEF IInv, LinkInv, ConnIds
<1>4. out[s] = <<>> /\ (conn[k].st = "up" => proc[s])
  BY <1>1, <1>3 DEF IInv, LinkInv
<1>5. \A t \in Servers : Cur(t) \in ConnIds /\ Cur(t)' = Cur(t) /\ (t # s => Cur(t) # k)
  BY <1>2, <1>3, CurFacts DEF IInv, Cur
<1>6. req[k] \in Seq(Request) /\ Tail(req[k]) \in Seq(Request) /\ Head(req[k]) \in Request
      /\ req[k][1] = Head(req[k]) /\ 1 \in 1 .. Len(req[k])
      /\ Len(Tail(req[k])) = Len(req[k]) - 1
      /\ \A i \in 1 .. Len(Tail(req[k])) : Tail(req[k])[i] = req[k][i + 1]
  <2>1. req[k] \in Seq(Request)
    BY DEF IInv, TypeOK
  <2> QED BY <1>1, <2>1
<1>7. req' \in [ConnIds -> Seq(Request)] /\ req'[k] = Tail(req[k])
      /\ \A j \in ConnIds : j # k => req'[j] = req[j]
  BY <1>1, <1>6 DEF IInv, TypeOK
<1>8. conn' \in [ConnIds -> ConnState] /\ \A j \in ConnIds : conn'[j].st = conn[j].st
  <2>1. conn \in [ConnIds -> ConnState]
    BY DEF IInv, TypeOK
  <2>2. CASE conn' = conn
    BY <2>1, <2>2
  <2>3. CASE conn' = [conn EXCEPT ![k].hello = TRUE]
    <3> DEFINE v == [conn[k] EXCEPT !.hello = TRUE]
    <3>1. conn' = [conn EXCEPT ![k] = v]
      BY <2>3
    <3>2. v \in ConnState /\ v.st = conn[k].st
      BY <2>1 DEF ConnState
    <3> HIDE DEF v
    <3> QED BY <2>1, <3>1, <3>2
  <2> QED BY <1>1, <2>2, <2>3
<1>9. /\ Sent[s] = req[k] /\ Sent'[s] = Tail(req[k])
      /\ \A t \in Servers : t # s => Sent'[t] = Sent[t]
  BY <1>2, <1>3, <1>4, <1>5, <1>7 DEF Sent
<1> HIDE DEF s
<1>10. ASSUME NEW t \in Servers
       PROVE  Sent'[t] \in Seq(Request) /\ \E n \in Nat :
                 \A i \in 1 .. Len(Sent'[t]) :
                     i + n \in 1 .. Len(Sent[t]) /\ Sent'[t][i] = Sent[t][i + n]
  <2>1. CASE t = s
    <3>1. Sent[t] = req[k] /\ Sent'[t] = Tail(req[k]) /\ Len(req[k]) \in Nat
      BY <1>6, <1>9, <2>1
    <3>2. \A i \in 1 .. Len(Sent'[t]) : i + 1 \in 1 .. Len(Sent[t]) /\ Sent'[t][i] = Sent[t][i + 1]
      BY <1>6, <3>1
    <3> QED BY <1>6, <3>1, <3>2
  <2>2. CASE t # s
    <3>1. Sent[t] \in Seq(Request) /\ Sent'[t] = Sent[t]
      BY <1>9, <2>2, CurFacts DEF IInv
    <3>2. \A i \in 1 .. Len(Sent'[t]) : i + 0 \in 1 .. Len(Sent[t]) /\ Sent'[t][i] = Sent[t][i + 0]
      BY <3>1
    <3> QED BY <3>1, <3>2
  <2> QED BY <2>1, <2>2
<1>11. (\A t \in Servers : rep'[t] # <<>> => proc[t]) => LinkInv'
  <2> SUFFICES ASSUME \A t \in Servers : rep'[t] # <<>> => proc[t]
               PROVE  LinkInv'
    OBVIOUS
  <2>1. ASSUME NEW j \in ConnIds
        PROVE  /\ j # Cur(j[1])' => conn'[j].st = "none"
               /\ conn'[j].st = "none" => req'[j] = <<>>
    <3>1. j[1] \in Servers
      BY DEF ConnIds
    <3>2. CASE j = k
      <4>1. j = Cur(j[1])' /\ conn'[j].st # "none"
        BY <1>1, <1>3, <1>5, <1>8, <3>1, <3>2 DEF s
      <4> QED BY <4>1
    <3>3. CASE j # k
      <4>1. req'[j] = req[j] /\ conn'[j].st = conn[j].st /\ Cur(j[1])' = Cur(j[1])
        BY <1>5, <1>7, <1>8, <3>1, <3>3
      <4> QED BY <4>1 DEF IInv, LinkInv
    <3> QED BY <3>2, <3>3
  <2>2. ASSUME NEW t \in Servers
        PROVE  /\ conn'[Cur(t)'].st = "cut" => ~proc'[t]
               /\ conn'[Cur(t)'].st = "up" => proc'[t]
               /\ out'[t] # <<>> => proc'[t] /\ conn'[Cur(t)'].st = "none"
               /\ rep'[t] # <<>> => proc'[t]
    BY <1>2, <1>5, <1>8 DEF IInv, LinkInv
  <2> QED BY <2>1, <2>2 DEF LinkInv
<1>12. PlayersInv' /\ QueueInv' /\ ContextInv'
  BY <1>2, QueueKept DEF IInv, PlayersInv
<1>13. s = k[1]
  BY DEF s
<1> QED BY <1>3, <1>4, <1>6, <1>7, <1>8, <1>9, <1>10, <1>11, <1>12, <1>13

\* what a request leaves to show once the tokens are known to be right
LEMMA ReceiveRest ==
    ASSUME IInv, NEW k \in ConnIds, DmReceive(k), DmTypeOK',
           rep' \in [Servers -> Seq(Reply)],
           \A t \in Servers : rep'[t] # <<>> => proc[t],
           TokenInv'
    PROVE  IInv'
<1>1. /\ conn' \in [ConnIds -> ConnState] /\ req' \in [ConnIds -> Seq(Request)]
      /\ LinkInv' /\ PlayersInv' /\ QueueInv' /\ ContextInv'
  BY DmReceiveFacts
<1>2. UNCHANGED <<proc, srv, dead, sess, ctx, pending, active, counter, tree, cur, out>>
  BY DEF DmReceive, playerVars, queueVars
<1>3. TypeOK'
  BY <1>1, <1>2 DEF IInv, TypeOK
<1> QED BY <1>1, <1>3 DEF IInv

\* a request that is answered with no accepted login of an exclusive account
LEMMA ReceiveKept ==
    ASSUME IInv, NEW k \in ConnIds, DmReceive(k), DmTypeOK',
           rep' \in [Servers -> Seq(Reply)],
           \A t \in Servers : rep'[t] # <<>> => proc[t],
           \A a \in Exclusive : locks'[a] = locks[a] \/ NoToken(a, sess', rep', Sent'),
           \A t \in Servers : \A i \in 1 .. Len(rep'[t]) :
               rep'[t][i].ok /\ rep'[t][i].acct \in Exclusive =>
                   i \in 1 .. Len(rep[t]) /\ rep'[t][i] = rep[t][i]
    PROVE  IInv'
<1>1. sess' = sess /\ srv' = srv
  BY DEF DmReceive, playerVars
<1>2. ASSUME NEW t \in Servers
      PROVE  rep'[t] \in Seq(Reply) /\ \E n \in Nat :
                \A i \in 1 .. Len(rep'[t]) :
                    rep'[t][i].ok /\ rep'[t][i].acct \in Exclusive =>
                        i + n \in 1 .. Len(rep[t]) /\ rep'[t][i] = rep[t][i + n]
  <2>1. rep'[t] \in Seq(Reply)
    OBVIOUS
  <2>2. \A i \in 1 .. Len(rep'[t]) :
           rep'[t][i].ok /\ rep'[t][i].acct \in Exclusive =>
               i + 0 \in 1 .. Len(rep[t]) /\ rep'[t][i] = rep[t][i + 0]
    <3> SUFFICES ASSUME NEW i \in 1 .. Len(rep'[t]),
                        rep'[t][i].ok, rep'[t][i].acct \in Exclusive
                 PROVE  i + 0 \in 1 .. Len(rep[t]) /\ rep'[t][i] = rep[t][i + 0]
      OBVIOUS
    <3>1. i \in 1 .. Len(rep[t]) /\ rep'[t][i] = rep[t][i] /\ i + 0 = i
      OBVIOUS
    <3> QED BY <3>1
  <2> QED BY <2>1, <2>2
<1>3. ASSUME NEW t \in Servers
      PROVE  Sent'[t] \in Seq(Request) /\ \E n \in Nat :
                \A i \in 1 .. Len(Sent'[t]) : Sent'[t][i].type = "LOGOUT" =>
                    i + n \in 1 .. Len(Sent[t]) /\ Sent'[t][i] = Sent[t][i + n]
  BY DmReceiveFacts, ZenonT(60)
<1>4. TypeOK /\ TokenInv
  BY DEF IInv
<1>5. TokenInv'
  BY <1>1, <1>2, <1>3, <1>4, TokensKept
<1> QED BY <1>5, ReceiveRest

\* an accepted login of an account that was free
LEMMA LoginAccepted ==
    ASSUME IInv, NEW s \in Servers, NEW a \in Accounts, NEW r \in Reply, r.acct = a,
           locks[a] = NoServer, locks' = [locks EXCEPT ![a] = s],
           sess' = sess, srv' = srv,
           rep' = rep \/ rep' = [rep EXCEPT ![s] = Append(@, r)],
           \A t \in Servers : Sent'[t] \in Seq(Request) /\ \E n \in Nat :
               \A i \in 1 .. Len(Sent'[t]) :
                   i + n \in 1 .. Len(Sent[t]) /\ Sent'[t][i] = Sent[t][i + n]
    PROVE  TokenInv'
<1>1. PlayerTokens /\ ReplyTokens /\ LogoutTokens
  BY DEF IInv, TokenInv
<1>2. locks'[a] = s /\ \A b \in Accounts : b # a => locks'[b] = locks[b]
  BY DEF IInv, TypeOK, DmTypeOK
<1>3. \A b \in Exclusive : b \in Accounts /\ b # NoAcct
  BY LoginConstants DEF Exclusive
<1>4. a \in Exclusive => NoToken(a, sess, rep, Sent)
  <2> SUFFICES ASSUME a \in Exclusive PROVE NoToken(a, sess, rep, Sent)
    OBVIOUS
  <2>1. ASSUME NEW c \in Clients, sess[c] = a PROVE FALSE
    <3>1. srv[c] = NoServer
      BY <1>1, <2>1 DEF PlayerTokens
    <3>2. srv[c] \in Servers
      BY <1>3, <2>1 DEF IInv, TypeOK, PlayersInv
    <3> QED BY <3>1, <3>2, NoServerAssumption
  <2>2. ASSUME NEW t \in Servers, NEW i \in 1 .. Len(rep[t]), rep[t][i].ok, rep[t][i].acct = a
        PROVE  FALSE
    BY <1>1, <2>2, NoServerAssumption DEF ReplyTokens
  <2>3. ASSUME NEW t \in Servers, NEW i \in 1 .. Len(Sent[t]),
               Sent[t][i].type = "LOGOUT", Sent[t][i].acct = a
        PROVE  FALSE
    BY <1>1, <2>3, NoServerAssumption DEF LogoutTokens
  <2> QED BY <2>1, <2>2, <2>3 DEF NoToken
<1>5. PlayerTokens'
  <2>1. \A c \in Clients : sess[c] \in Exclusive => sess[c] # a
    BY <1>4 DEF NoToken
  <2> QED BY <1>1, <1>2, <1>3, <2>1 DEF PlayerTokens
<1>6. \A t \in Servers : \A j \in 1 .. Len(Sent'[t]) : \E i \in 1 .. Len(Sent[t]) : Sent'[t][j] = Sent[t][i]
  OBVIOUS
<1>7. ReplyTokens'
  <2>1. SUFFICES ASSUME NEW t \in Servers, NEW i \in 1 .. Len(rep'[t]),
                        rep'[t][i].ok, rep'[t][i].acct \in Exclusive
                 PROVE  /\ locks'[rep'[t][i].acct] = t
                        /\ \A c \in Clients : sess'[c] # rep'[t][i].acct
                        /\ \A j \in 1 .. Len(rep'[t]) :
                              rep'[t][j].ok /\ rep'[t][j].acct = rep'[t][i].acct => i = j
                        /\ \A j \in 1 .. Len(Sent'[t]) : Sent'[t][j] # LogoutMsg(rep'[t][i].acct)
    BY DEF ReplyTokens, LogoutMsg
  <2> DEFINE b == rep'[t][i].acct
  <2>2. /\ rep[t] \in Seq(Reply)
        /\ \A j \in 1 .. Len(rep'[t]) :
              \/ j \in 1 .. Len(rep[t]) /\ rep'[t][j] = rep[t][j]
              \/ t = s /\ j = Len(rep[t]) + 1 /\ rep'[t][j] = r
    <3>1. rep[t] \in Seq(Reply)
      BY DEF IInv, TypeOK
    <3>2. CASE rep'[t] = rep[t]
      BY <3>1, <3>2
    <3>3. CASE t = s /\ rep'[t] = Append(rep[t], r)
      BY <3>1, <3>3
    <3>4. rep'[t] = rep[t] \/ (t = s /\ rep'[t] = Append(rep[t], r))
      BY SMTT(30) DEF IInv, TypeOK
    <3> QED BY <3>1, <3>2, <3>3, <3>4
  <2>3. CASE i \in 1 .. Len(rep[t]) /\ rep'[t][i] = rep[t][i]
    <3>1. /\ locks[b] = t
          /\ \A c \in Clients : sess[c] # b
          /\ \A j \in 1 .. Len(rep[t]) : rep[t][j].ok /\ rep[t][j].acct = b => i = j
          /\ \A j \in 1 .. Len(Sent[t]) : Sent[t][j] # LogoutMsg(b)
      BY <1>1, <2>1, <2>3 DEF ReplyTokens
    <3>2. b # a /\ b \in Accounts
      BY <1>3, <2>1, <3>1, NoServerAssumption
    <3>3. \A j \in 1 .. Len(rep'[t]) : rep'[t][j].ok /\ rep'[t][j].acct = b => i = j
      <4> SUFFICES ASSUME NEW j \in 1 .. Len(rep'[t]), rep'[t][j].ok, rep'[t][j].acct = b
                   PROVE  i = j
        OBVIOUS
      <4>1. j \in 1 .. Len(rep[t]) /\ rep'[t][j] = rep[t][j]
        BY <2>2, <3>2
      <4> QED BY <3>1, <4>1
    <3> QED BY <1>2, <1>6, <3>1, <3>2, <3>3
  <2>4. CASE t = s /\ i = Len(rep[t]) + 1 /\ rep'[t][i] = r
    <3>1. b = a /\ a \in Exclusive
      BY <2>1, <2>4
    <3>2. NoToken(a, sess, rep, Sent)
      BY <1>4, <3>1
    <3>3. \A j \in 1 .. Len(rep'[t]) : rep'[t][j].ok /\ rep'[t][j].acct = b => i = j
      <4> SUFFICES ASSUME NEW j \in 1 .. Len(rep'[t]), rep'[t][j].ok, rep'[t][j].acct = b
                   PROVE  i = j
        OBVIOUS
      <4>1. ~(j \in 1 .. Len(rep[t]) /\ rep'[t][j] = rep[t][j])
        BY <3>1, <3>2 DEF NoToken
      <4> QED BY <2>2, <2>4, <4>1
    <3>4. \A j \in 1 .. Len(Sent'[t]) : Sent'[t][j] # LogoutMsg(a)
      <4>1. SUFFICES ASSUME NEW j \in 1 .. Len(Sent'[t]), Sent'[t][j] = LogoutMsg(a)
                     PROVE  FALSE
        OBVIOUS
      <4>2. Sent'[t][j].type = "LOGOUT" /\ Sent'[t][j].acct = a
        BY <4>1 DEF LogoutMsg
      <4>3. PICK x \in 1 .. Len(Sent[t]) : Sent'[t][j] = Sent[t][x]
        BY <1>6
      <4>4. Sent[t][x].type = "LOGOUT" /\ Sent[t][x].acct = a
        BY <4>2, <4>3
      <4> QED BY <3>2, <4>4 DEF NoToken
    <3> QED BY <1>2, <2>4, <3>1, <3>2, <3>3, <3>4 DEF NoToken
  <2> QED BY <2>2, <2>3, <2>4
<1>8. LogoutTokens'
  <2>1. SUFFICES ASSUME NEW t \in Servers, NEW i \in 1 .. Len(Sent'[t]),
                        Sent'[t][i].type = "LOGOUT", Sent'[t][i].acct \in Exclusive
                 PROVE  /\ locks'[Sent'[t][i].acct] = t
                        /\ \A c \in Clients : sess'[c] # Sent'[t][i].acct
                        /\ \A j \in 1 .. Len(Sent'[t]) : Sent'[t][j] = Sent'[t][i] => i = j
    BY DEF LogoutTokens
  <2> DEFINE b == Sent'[t][i].acct
  <2>2. PICK n \in Nat : \A x \in 1 .. Len(Sent'[t]) :
                            x + n \in 1 .. Len(Sent[t]) /\ Sent'[t][x] = Sent[t][x + n]
    OBVIOUS
  <2>3. /\ locks[b] = t
        /\ \A c \in Clients : sess[c] # b
        /\ \A j \in 1 .. Len(Sent[t]) : Sent[t][j] = Sent[t][i + n] => i + n = j
    <3>1. i + n \in 1 .. Len(Sent[t]) /\ Sent[t][i + n].type = "LOGOUT" /\ Sent[t][i + n].acct = b
      BY <2>1, <2>2
    <3>2. b \in Exclusive
      BY <2>1
    <3> HIDE DEF b
    <3> QED BY <1>1, <3>1, <3>2 DEF LogoutTokens
  <2>4. b # a /\ b \in Accounts
    BY <1>3, <2>1, <2>3, NoServerAssumption
  <2>5. \A j \in 1 .. Len(Sent'[t]) : Sent'[t][j] = Sent'[t][i] => i = j
    <3> SUFFICES ASSUME NEW j \in 1 .. Len(Sent'[t]), Sent'[t][j] = Sent'[t][i] PROVE i = j
      OBVIOUS
    <3>1. j + n \in 1 .. Len(Sent[t]) /\ Sent[t][j + n] = Sent[t][i + n]
      BY <2>2
    <3> QED BY <2>3, <3>1
  <2> QED BY <1>2, <2>3, <2>4, <2>5
<1> QED BY <1>5, <1>7, <1>8 DEF TokenInv

\* Every request the data manager handles preserves the invariant.
LEMMA DmReceiveIInv ==
    ASSUME IInv, NEW k \in ConnIds, DmReceive(k)
    PROVE  IInv'
<1> DEFINE s == k[1]
           m == Head(req[k])
           hello == conn[k].hello
<1>1. /\ s \in Servers
      /\ conn[k].st = "up" => proc[s]
      /\ m \in Request /\ Sent[s][1] = m /\ 1 \in 1 .. Len(Sent[s])
      /\ Sent'[s] = Tail(Sent[s])
      /\ \A t \in Servers : t # s => Sent'[t] = Sent[t]
      /\ \A t \in Servers : Sent'[t] \in Seq(Request) /\ \E n \in Nat :
            \A i \in 1 .. Len(Sent'[t]) :
                i + n \in 1 .. Len(Sent[t]) /\ Sent'[t][i] = Sent[t][i + n]
  BY DmReceiveFacts
<1>2. DmTypeOK /\ rep \in [Servers -> Seq(Reply)] /\ \A t \in Servers : rep[t] # <<>> => proc[t]
  BY DEF IInv, TypeOK, LinkInv
<1>3. sess' = sess /\ srv' = srv
  BY DEF DmReceive, playerVars
<1>4. PlayerTokens /\ ReplyTokens /\ LogoutTokens
  BY DEF IInv, TokenInv
<1>5. \A t \in Servers : \A i \in 1 .. Len(rep[t]) : rep[t][i] = rep[t][i]
  OBVIOUS
<1>6. CASE (m.type = "HELLO" /\ UNCHANGED <<dmVars, rep>>)
           \/ (m.type = "DOWNTIME" /\ DmDowntime(s, hello) /\ UNCHANGED rep)
  <2>1. locks' = locks /\ rep' = rep /\ DmTypeOK'
    BY <1>1, <1>2, <1>6 DEF DmDowntime, DmTypeOK, dmVars
  <2> HIDE DEF s, m, hello
  <2> QED BY <1>2, <2>1, ReceiveKept
<1>7. CASE /\ m.type = "LOGIN"
           /\ \E ok \in BOOLEAN :
                /\ DmLogin(m.acct, s, hello, ok)
                /\ rep' = IF conn[k].st = "up"
                          THEN [rep EXCEPT ![s] = Append(@, [id |-> m.id, ok |-> ok, acct |-> m.acct])]
                          ELSE rep
  <2>1. PICK ok \in BOOLEAN :
           /\ DmLogin(m.acct, s, hello, ok)
           /\ rep' = IF conn[k].st = "up"
                     THEN [rep EXCEPT ![s] = Append(@, [id |-> m.id, ok |-> ok, acct |-> m.acct])]
                     ELSE rep
    BY <1>7
  <2> DEFINE r == [id |-> m.id, ok |-> ok, acct |-> m.acct]
  <2>2. m.id \in Ids /\ m.acct \in Accounts
    BY <1>1, <1>7 DEF Request
  <2>3. r \in Reply /\ r.acct = m.acct /\ r.ok = ok
    BY <2>2 DEF Reply
  <2>4. (rep' = rep \/ (proc[s] /\ rep' = [rep EXCEPT ![s] = Append(@, r)]))
    BY <1>1, <2>1
  <2> HIDE DEF r
  <2>5. /\ rep' \in [Servers -> Seq(Reply)] /\ \A t \in Servers : rep'[t] # <<>> => proc[t]
        /\ \A t \in Servers : \A i \in 1 .. Len(rep'[t]) :
               (i \in 1 .. Len(rep[t]) /\ rep'[t][i] = rep[t][i]) \/ rep'[t][i] = r
    <3>1. CASE rep' = rep
      BY <1>2, <3>1
    <3>2. CASE proc[s] /\ rep' = [rep EXCEPT ![s] = Append(@, r)]
      <4>1. rep[s] \in Seq(Reply) /\ Append(rep[s], r) \in Seq(Reply)
        BY <1>1, <1>2, <2>3
      <4>2. rep'[s] = Append(rep[s], r) /\ \A t \in Servers : t # s => rep'[t] = rep[t]
        BY <1>1, <1>2, <3>2
      <4>3. rep' \in [Servers -> Seq(Reply)]
        BY <1>2, <3>2, <4>1
      <4>4. ASSUME NEW t \in Servers, NEW i \in 1 .. Len(rep'[t])
            PROVE  (i \in 1 .. Len(rep[t]) /\ rep'[t][i] = rep[t][i]) \/ rep'[t][i] = r
        <5>1. CASE t = s
          BY <4>1, <4>2, <5>1, SMTT(30)
        <5>2. CASE t # s
          BY <4>2, <5>2
        <5> QED BY <5>1, <5>2
      <4> QED BY <1>2, <3>2, <4>2, <4>3, <4>4
    <3> QED BY <2>4, <3>1, <3>2
  <2>6. CASE UNCHANGED locks /\ DmTypeOK' /\ ~(ok /\ m.acct \in Exclusive)
    <3>1. \A t \in Servers : \A i \in 1 .. Len(rep'[t]) :
               rep'[t][i].ok /\ rep'[t][i].acct \in Exclusive =>
                   i \in 1 .. Len(rep[t]) /\ rep'[t][i] = rep[t][i]
      BY <2>3, <2>5, <2>6
    <3> HIDE DEF s, m, hello
    <3> QED BY <2>5, <2>6, <3>1, ReceiveKept
  <2>7. CASE ok /\ InsertLock(m.acct, s) /\ DmTypeOK'
    <3>1. locks[m.acct] = NoServer /\ locks' = [locks EXCEPT ![m.acct] = s]
      BY <2>7 DEF InsertLock
    <3>2. rep' = rep \/ rep' = [rep EXCEPT ![s] = Append(@, r)]
      BY <2>4
    <3> HIDE DEF s, m, hello
    <3>3. TokenInv'
      BY <1>1, <1>3, <2>2, <2>3, <3>1, <3>2, LoginAccepted
    <3> QED BY <2>5, <2>7, <3>3, ReceiveRest
  <2>8. CASE ~ok
    <3>1. UNCHANGED locks /\ DmTypeOK'
      BY <1>2, <2>1, <2>8 DEF DmLogin, dmVars, DmTypeOK
    <3> QED BY <2>6, <2>8, <3>1
  <2>9. CASE ok /\ m.acct \in Privileged /\ UNCHANGED <<locks, downtime>>
             /\ userCount' = [userCount EXCEPT ![s] = @ + 1]
    <3>1. UNCHANGED locks /\ DmTypeOK' /\ m.acct \notin Exclusive
      BY <1>1, <1>2, <2>9 DEF DmTypeOK, Exclusive
    <3> QED BY <2>6, <3>1
  <2>10. CASE ok /\ InsertLock(m.acct, s) /\ UNCHANGED downtime
              /\ userCount' = [userCount EXCEPT ![s] = @ + 1]
    <3>1. DmTypeOK'
      BY <1>1, <1>2, <2>2, <2>10 DEF DmTypeOK, InsertLock
    <3> QED BY <2>7, <2>10, <3>1
  <2> QED BY <2>1, <2>8, <2>9, <2>10 DEF DmLogin
<1>8. CASE m.type = "LOGOUT" /\ DmLogout(m.acct, s, hello) /\ UNCHANGED rep
  <2> DEFINE a == m.acct
  <2>1. m = LogoutMsg(a) /\ a \in Accounts
    BY <1>1, <1>8 DEF Request, LogoutMsg
  <2>2. DmTypeOK'
    BY <1>1, <1>2, <1>8, <2>1 DEF DmTypeOK, DmLogout
  <2>3. \A b \in Accounts : locks'[b] = locks[b] \/ (b = a /\ locks[a] = s)
    BY <1>2, <1>8, <2>1 DEF DmTypeOK, DmLogout
  <2>4. ASSUME NEW b \in Exclusive, locks'[b] # locks[b]
        PROVE  NoToken(b, sess', rep', Sent')
    <3>1. b = a /\ locks[a] = s
      BY <2>3, <2>4 DEF Exclusive
    <3>2. /\ \A c \in Clients : sess[c] # a
          /\ \A j \in 1 .. Len(Sent[s]) : Sent[s][j] = Sent[s][1] => j = 1
      <4>1. Sent[s][1].type = "LOGOUT" /\ Sent[s][1].acct = a /\ a \in Exclusive /\ 1 \in 1 .. Len(Sent[s])
        BY <1>1, <1>8, <2>4, <3>1
      <4> HIDE DEF s, a, m
      <4> QED BY <1>1, <1>4, <4>1 DEF LogoutTokens
    <3>3. ASSUME NEW t \in Servers, NEW i \in 1 .. Len(rep[t]), rep[t][i].ok, rep[t][i].acct = a
          PROVE  FALSE
      <4>1. t = s /\ \A j \in 1 .. Len(Sent[t]) : Sent[t][j] # LogoutMsg(a)
        BY <1>4, <2>4, <3>1, <3>3 DEF ReplyTokens
      <4> QED BY <1>1, <2>1, <4>1
    <3>4. ASSUME NEW t \in Servers, NEW i \in 1 .. Len(Sent'[t]),
                 Sent'[t][i].type = "LOGOUT", Sent'[t][i].acct = a
          PROVE  FALSE
      <4>1. CASE t # s
        <5>1. Sent'[t] = Sent[t] /\ a \in Exclusive /\ s \in Servers
          BY <1>1, <2>4, <3>1, <4>1
        <5> HIDE DEF s, a, m
        <5>2. locks[a] = t
          BY <1>4, <3>4, <5>1 DEF LogoutTokens
        <5> QED BY <3>1, <4>1, <5>2
      <4>2. CASE t = s
        <5>1. Sent[s] \in Seq(Request) /\ Sent'[s] = Tail(Sent[s]) /\ Sent[s] # <<>>
          BY <1>1, CurFacts DEF IInv
        <5>2. i + 1 \in 1 .. Len(Sent[s]) /\ Sent'[s][i] = Sent[s][i + 1] /\ i + 1 # 1
          BY <4>2, <5>1
        <5>3. Sent[s][i + 1] \in Request
          BY <5>1, <5>2, ElementOfSeq
        <5>4. Sent[s][i + 1] = LogoutMsg(a)
          BY <3>4, <4>2, <5>2, <5>3 DEF Request, LogoutMsg
        <5>5. Sent[s][i + 1] = Sent[s][1]
          BY <1>1, <2>1, <5>4
        <5> HIDE DEF s, a, m
        <5> QED BY <3>2, <5>2, <5>5
      <4> QED BY <4>1, <4>2
    <3> QED BY <1>3, <1>8, <3>1, <3>2, <3>3, <3>4 DEF NoToken
  <2>5. \A b \in Exclusive : locks'[b] = locks[b] \/ NoToken(b, sess', rep', Sent')
    BY <2>4
  <2>6. rep' = rep
    BY <1>8
  <2> HIDE DEF s, m, hello, a
  <2> QED BY <1>2, <2>2, <2>5, <2>6, ReceiveKept
<1> QED BY <1>6, <1>7, <1>8 DEF DmReceive

-----------------------------------------------------------------------------
(* The invariant and what follows from it. *)

\* A step that changes nothing preserves the invariant.
LEMMA StutterIInv ==
    ASSUME IInv, UNCHANGED vars
    PROVE  IInv'
<1>1. UNCHANGED <<locks, userCount, downtime, proc, srv, dead, sess, ctx,
                  pending, active, counter, tree, cur, conn, req, rep, out>>
  BY DEF vars, dmVars, playerVars, queueVars, linkVars
<1>2. TypeOK' /\ PlayersInv'
  BY <1>1 DEF IInv, TypeOK, DmTypeOK, PlayersInv
<1>3. QueueInv' /\ ContextInv'
  BY <1>1, QueueKept DEF IInv
<1>4. LinkInv'
  BY <1>1 DEF IInv, LinkInv, Cur
<1>5. TokenInv'
  BY <1>1, QuietTokens
<1> QED BY <1>2, <1>3, <1>4, <1>5 DEF IInv

\* Every step preserves the invariant.
LEMMA NextIInv ==
    ASSUME Sound, IInv, [Next]_vars
    PROVE  IInv'
<1>1. CASE \E c \in Clients : \E s \in Servers : Connect(c, s)
  BY <1>1, ConnectIInv
<1>2. CASE \E c \in Clients : \E a \in Accounts : CheckLogin(c, a)
  BY <1>2, CheckLoginIInv
<1>3. CASE \E c \in Clients : ForceLogout(c)
  BY <1>3, ForceLogoutIInv
<1>4. CASE \E c \in Clients : HungUp(c)
  BY <1>4, HungUpIInv
<1>5. CASE \E s \in Servers : LoginReply(s)
  BY <1>5, LoginReplyIInv
<1>6. CASE \E s \in Servers : SendDowntime(s)
  BY <1>6, SendDowntimeIInv
<1>7. CASE \E s \in Servers : LinkLost(s)
  BY <1>7, LinkLostIInv
<1>8. CASE \E s \in Servers : Reconnect(s)
  BY <1>8, ReconnectIInv
<1>9. CASE \E s \in Servers : Crash(s)
  BY <1>9, CrashIInv
<1>10. CASE \E s \in Servers : Restart(s)
  BY <1>10, RestartIInv
<1>11. CASE \E k \in ConnIds : DmReceive(k)
  BY <1>11, DmReceiveIInv
<1>12. CASE \E k \in ConnIds : DmReap(k)
  BY <1>12, DmReapIInv
<1>13. CASE DmRestart
  BY <1>13, DmRestartIInv
<1>14. CASE UNCHANGED vars
  BY <1>14, StutterIInv
<1> QED BY <1>1, <1>2, <1>3, <1>4, <1>5, <1>6, <1>7, <1>8, <1>9, <1>10, <1>11, <1>12, <1>13, <1>14
        DEF Next

(* IInv is an inductive invariant: for any number of servers, clients and   *)
(* accounts, at every step of the two programs, the lock of an account in   *)
(* exclusive use is answered for at most once.                              *)
THEOREM Invariance ==
    ASSUME Sound
    PROVE  Spec => []IInv
<1>1. Init => IInv
  BY InitIInv
<1>2. IInv /\ [Next]_vars => IInv'
  BY NextIInv
<1> QED BY <1>1, <1>2, PTL DEF Spec

(* Every reachable state has the types that the declarations claim; the    *)
(* head and the position operators are only applied where they are defined. *)
THEOREM TypeCorrect ==
    ASSUME Sound
    PROVE  Spec => []TypeOK
<1>1. IInv => TypeOK
  BY DEF IInv
<1> QED BY <1>1, Invariance, PTL

(* "You are only allowed to use the account on one machine at a time"       *)
(* (datamgr.cpp, _IPC_DATAMGR_LOGIN): no two players on any servers have a  *)
(* session on one account, whatever crashes and is started again.           *)
THEOREM OneSessionHolds ==
    ASSUME Sound
    PROVE  Spec => []OneSession
<1>1. IInv => OneSession
  BY DEF IInv, TokenInv, PlayerTokens, OneSession
<1> QED BY <1>1, Invariance, PTL

(* accountLocks: the row of an account in play names the server that has    *)
(* its player, so no logout, reap or restart has released it too early.     *)
THEOREM SessionHasLockHolds ==
    ASSUME Sound
    PROVE  Spec => []SessionHasLock
<1>1. IInv => SessionHasLock
  BY DEF IInv, TokenInv, PlayerTokens, SessionHasLock
<1> QED BY <1>1, Invariance, PTL

(* LoginContext: the active login is the first of the queue and the queue   *)
(* keeps the order of arrival.                                              *)
THEOREM QueueDisciplineHolds ==
    ASSUME Sound
    PROVE  Spec => []QueueDiscipline
<1>1. IInv => QueueDiscipline
  BY DEF IInv, QueueInv, Ordered, QueueDiscipline
<1> QED BY <1>1, Invariance, PTL

(* ~RMPlayer, "toss the login context": every queued context belongs to a   *)
(* living player of the same server, so no response meets a deleted one.    *)
THEOREM ContextHasPlayerHolds ==
    ASSUME Sound
    PROVE  Spec => []ContextHasPlayer
<1>1. IInv => ContextHasPlayer
  BY DEF IInv, QueueInv, ContextHasPlayer
<1> QED BY <1>1, Invariance, PTL

-----------------------------------------------------------------------------
(* What the sessions are to others: every step of the game servers, of the  *)
(* data manager and of what fails around them begins one session on a free  *)
(* account, ends sessions, or changes nothing.                              *)

\* every step is one of: a login succeeds, players go, sessions stay
LEMMA SessionSteps ==
    ASSUME IInv, [Next]_vars
    PROVE  \/ sess' = sess
           \/ \E a \in Accounts, c \in Clients :
                 /\ a \in Exclusive => \A d \in Clients : sess[d] # a
                 /\ sess[c] = NoAcct
                 /\ sess' = [sess EXCEPT ![c] = a]
           \/ \E C \in SUBSET Clients :
                 sess' = [c \in Clients |-> IF c \in C THEN NoAcct ELSE sess[c]]
<1>1. CASE \E c \in Clients : HungUp(c)
  <2>1. PICK c \in Clients : sess' = [sess EXCEPT ![c] = NoAcct]
    BY <1>1 DEF HungUp
  <2>2. sess' = [d \in Clients |-> IF d \in {c} THEN NoAcct ELSE sess[d]]
    BY <2>1 DEF IInv, TypeOK
  <2> QED BY <2>2
<1>2. CASE \E s \in Servers : Crash(s)
  <2>1. PICK s \in Servers : Crash(s)
    BY <1>2
  <2> DEFINE gone == {c \in Clients : srv[c] = s}
  <2>2. sess' = [c \in Clients |-> IF c \in gone THEN NoAcct ELSE sess[c]]
    BY <2>1 DEF Crash
  <2>3. gone \in SUBSET Clients
    OBVIOUS
  <2> QED BY <2>2, <2>3
<1>3. CASE \E s \in Servers : LoginReply(s)
  <2>1. PICK s \in Servers : LoginReply(s)
    BY <1>3
  <2> DEFINE r == Head(rep[s])
  <2>2. /\ rep[s] # <<>> /\ rep' = [rep EXCEPT ![s] = Tail(@)]
        /\ StaleReply(s, r) \/ ActiveReply(s, r)
    BY <2>1 DEF LoginReply
  <2>3. /\ 1 \in 1 .. Len(rep[s]) /\ r = rep[s][1]
        /\ r.id \in Ids /\ r.ok \in BOOLEAN /\ r.acct \in Accounts
    BY <2>2, TakeReply DEF IInv
  <2> HIDE DEF r
  <2>4. CASE StaleReply(s, r)
    BY <2>4 DEF StaleReply
  <2>5. CASE ActiveReply(s, r) /\ ~r.ok
    BY <2>5 DEF ActiveReply
  <2>6. CASE ActiveReply(s, r) /\ r.ok
    <3> DEFINE c == ActivePlayer(s)
    <3>1. sess' = [sess EXCEPT ![c] = r.acct] /\ active[s] = r.id
      BY <2>6 DEF ActiveReply, IsStale
    <3>2. active[s] # NoId
      BY <2>3, <3>1, LoginConstants DEF NoId, Ids
    <3>3. 1 \in 1 .. Len(pending[s]) /\ c = pending[s][1].client
      BY <3>2, ActiveIsFirst
    <3>4. c \in Clients /\ sess[c] = NoAcct
      BY <3>3, QueueFacts DEF IInv, QueueInv
    <3>6. r.acct \in Exclusive => \A d \in Clients : sess[d] # r.acct
      BY <2>3, <2>6 DEF IInv, TokenInv, ReplyTokens
    <3> HIDE DEF c
    <3> QED BY <2>3, <3>1, <3>4, <3>6
  <2> QED BY <2>2, <2>4, <2>5, <2>6, <2>3
<1>4. CASE ~(\E c \in Clients : HungUp(c)) /\ ~(\E s \in Servers : Crash(s) \/ LoginReply(s))
  BY <1>4 DEF Next, Connect, CheckLogin, ForceLogout, SendDowntime, LinkLost, Reconnect, Restart,
              DmReceive, DmReap, DmRestart, vars, playerVars
<1> QED BY <1>1, <1>2, <1>3, <1>4

(* The initial states of the protocol are initial states of AccountUse.     *)
LEMMA UseInit == Init => Use!Init
BY LoginConstants DEF Init, Use!Init, Players, Exclusive

(* Every step of the protocol is a step of AccountUse or changes no user.   *)
LEMMA UseStep ==
    ASSUME IInv, [Next]_vars
    PROVE  [Use!Next]_[a \in Exclusive |-> Players(a)]
<1> DEFINE users == [a \in Exclusive |-> Players(a)]
<1>0. sess \in [Clients -> Accounts \union {NoAcct}]
  BY DEF IInv, TypeOK
<1>1. CASE sess' = sess
  BY <1>1 DEF Players
<1>2. CASE \E a \in Accounts, c \in Clients :
              /\ a \in Exclusive => \A d \in Clients : sess[d] # a
              /\ sess[c] = NoAcct
              /\ sess' = [sess EXCEPT ![c] = a]
  <2>1. PICK a \in Accounts, c \in Clients :
              /\ a \in Exclusive => \A d \in Clients : sess[d] # a
              /\ sess[c] = NoAcct
              /\ sess' = [sess EXCEPT ![c] = a]
    BY <1>2
  <2>2. \A b \in Exclusive : b \in Accounts
    BY DEF Exclusive
  <2>3. \A b \in Exclusive : Players(b)' = IF b = a THEN Players(b) \union {c} ELSE Players(b)
    BY <1>0, <2>1, <2>2, LoginConstants DEF Players
  <2>4. CASE a \in Exclusive
    <3>1. users[a] = {} /\ \A b \in Exclusive : c \notin users[b]
      BY <2>1, <2>2, <2>4, LoginConstants DEF Players
    <3>2. users' = [users EXCEPT ![a] = {c}]
      BY <2>3, <2>4, <3>1
    <3>3. Use!Begin(a, c)
      BY <3>1, <3>2 DEF Use!Begin
    <3> QED BY <2>4, <3>3 DEF Use!Next
  <2>5. CASE a \notin Exclusive
    BY <2>3, <2>5
  <2> QED BY <2>4, <2>5
<1>3. CASE \E C \in SUBSET Clients :
              sess' = [c \in Clients |-> IF c \in C THEN NoAcct ELSE sess[c]]
  <2>1. PICK C \in SUBSET Clients :
              sess' = [c \in Clients |-> IF c \in C THEN NoAcct ELSE sess[c]]
    BY <1>3
  <2>2. \A a \in Exclusive : Players(a)' = Players(a) \ C
    BY <2>1, LoginConstants DEF Players, Exclusive
  <2>3. Use!End(C)
    BY <2>2 DEF Use!End
  <2> QED BY <2>3 DEF Use!Next
<1> QED BY <1>1, <1>2, <1>3, SessionSteps

(* The login protocol implements the exclusive use of the accounts that are *)
(* not privileged: whatever servers, clients and the data manager do or     *)
(* suffer, sessions only begin on free accounts and one at a time.          *)
THEOREM UseImplemented ==
    ASSUME Sound
    PROVE  Spec => ImplementsAccountUse
<1>1. Init => Use!Init
  BY UseInit
<1>2. IInv /\ [Next]_vars => [Use!Next]_[a \in Exclusive |-> Players(a)]
  BY UseStep
<1> QED BY <1>1, <1>2, Invariance, PTL DEF Spec, ImplementsAccountUse, Use!Spec

-----------------------------------------------------------------------------
(* The login tree. *)

\* the sessions, their servers and the trees stay as they are
TreeKept == srv' = srv /\ sess' = sess /\ tree' = tree

LEMMA TreeInit == Init => TreeIsSessions
BY LoginConstants DEF Init, TreeIsSessions, Exclusive

LEMMA TreeConnect ==
    ASSUME IInv, TreeIsSessions, NEW c \in Clients, NEW s \in Servers, Connect(c, s)
    PROVE  TreeIsSessions'
<1>1. srv \in [Clients -> Servers \union {Off}]
  BY DEF IInv, TypeOK
<1>2. sess[c] = NoAcct /\ srv[c] = Off /\ srv' = [srv EXCEPT ![c] = s]
      /\ sess' = sess /\ tree' = tree
  BY DEF IInv, PlayersInv, Connect, queueVars
<1> QED BY <1>1, <1>2, LoginConstants DEF TreeIsSessions, Exclusive

LEMMA TreeHungUp ==
    ASSUME IInv, TreeIsSessions, NEW c \in Clients, HungUp(c)
    PROVE  TreeIsSessions'
<1> DEFINE s == srv[c]
<1>1. /\ srv \in [Clients -> Servers \union {Off}]
      /\ sess \in [Clients -> Accounts \union {NoAcct}]
      /\ tree \in [Servers -> [Accounts -> Clients \union {NoClient}]]
  BY DEF IInv, TypeOK
<1>2. /\ s \in Servers
      /\ tree' = [tree EXCEPT ![s] = TreeDel(@, sess[c])]
      /\ srv' = [srv EXCEPT ![c] = Off]
      /\ sess' = [sess EXCEPT ![c] = NoAcct]
  BY <1>1 DEF HungUp
<1>3. \A d \in Clients : sess[d] \in Exclusive /\ sess[d] = sess[c] => d = c
  BY DEF IInv, TokenInv, PlayerTokens
<1>4. \A t \in Servers, a \in Exclusive :
        tree'[t][a] = IF t = s /\ a = sess[c] THEN NoClient ELSE tree[t][a]
  BY <1>1, <1>2, LoginConstants DEF TreeDel, Exclusive
<1> SUFFICES ASSUME NEW t \in Servers, NEW a \in Exclusive, NEW d \in Clients
             PROVE  tree'[t][a] = d <=> (srv'[d] = t /\ sess'[d] = a)
  BY DEF TreeIsSessions
<1>5. a \in Accounts /\ a # NoAcct /\ d # NoClient /\ t # Off
  BY LoginConstants DEF Exclusive
<1>6. tree[t][a] = d <=> (srv[d] = t /\ sess[d] = a)
  BY DEF TreeIsSessions
<1>7. CASE d = c
  BY <1>1, <1>2, <1>4, <1>5, <1>6, <1>7
<1>8. CASE d # c
  BY <1>1, <1>2, <1>3, <1>4, <1>5, <1>6, <1>8
<1> QED BY <1>7, <1>8

LEMMA TreeReply ==
    ASSUME IInv, TreeIsSessions, NEW s \in Servers, LoginReply(s)
    PROVE  TreeIsSessions'
<1> DEFINE r == Head(rep[s])
<1>1. /\ rep[s] # <<>> /\ rep' = [rep EXCEPT ![s] = Tail(@)] /\ srv' = srv
      /\ StaleReply(s, r) \/ ActiveReply(s, r)
  BY DEF LoginReply
<1>2. /\ 1 \in 1 .. Len(rep[s]) /\ r = rep[s][1]
      /\ r.id \in Ids /\ r.ok \in BOOLEAN /\ r.acct \in Accounts
  BY <1>1, TakeReply DEF IInv
<1> HIDE DEF r
<1>3. CASE sess' = sess /\ tree' = tree
  BY <1>1, <1>3 DEF TreeIsSessions
<1>4. CASE ActiveReply(s, r) /\ r.ok
  <2> DEFINE c == ActivePlayer(s)
             b == r.acct
  <2>1. /\ sess' = [sess EXCEPT ![c] = b] /\ active[s] = r.id
        /\ tree' = [tree EXCEPT ![s][b] = IF @ = NoClient THEN c ELSE @]
    BY <1>4 DEF ActiveReply, IsStale
  <2>2. active[s] # NoId
    BY <1>2, <2>1, LoginConstants DEF NoId, Ids
  <2>3. 1 \in 1 .. Len(pending[s]) /\ c = pending[s][1].client
    BY <2>2, ActiveIsFirst
  <2>4. c \in Clients /\ sess[c] = NoAcct /\ srv[c] = s
    BY <2>3, QueueFacts DEF IInv, QueueInv
  <2>5. b \in Accounts /\ (b \in Exclusive => \A d \in Clients : sess[d] # b)
    BY <1>2, <1>4 DEF IInv, TokenInv, ReplyTokens
  <2>6. /\ sess \in [Clients -> Accounts \union {NoAcct}]
        /\ tree \in [Servers -> [Accounts -> Clients \union {NoClient}]]
    BY DEF IInv, TypeOK
  <2> HIDE DEF c, b
  <2>7. b \in Exclusive => tree[s][b] = NoClient
    BY <2>5, <2>6 DEF TreeIsSessions
  <2>8. \A t \in Servers, a \in Exclusive :
          tree'[t][a] = IF t = s /\ a = b THEN c ELSE tree[t][a]
    BY <2>1, <2>5, <2>6, <2>7 DEF Exclusive
  <2> SUFFICES ASSUME NEW t \in Servers, NEW a \in Exclusive, NEW d \in Clients
               PROVE  tree'[t][a] = d <=> (srv'[d] = t /\ sess'[d] = a)
    BY DEF TreeIsSessions
  <2>9. a # NoAcct /\ (tree[t][a] = d <=> (srv[d] = t /\ sess[d] = a))
    BY LoginConstants DEF TreeIsSessions, Exclusive
  <2>10. sess'[d] = IF d = c THEN b ELSE sess[d]
    BY <2>1, <2>4, <2>6
  <2> QED BY <1>1, <2>4, <2>5, <2>8, <2>9, <2>10
<1> QED BY <1>1, <1>2, <1>3, <1>4 DEF StaleReply, ActiveReply

LEMMA TreeCrash ==
    ASSUME IInv, TreeIsSessions, NEW s \in Servers, Crash(s)
    PROVE  TreeIsSessions'
<1>1. /\ srv' = [c \in Clients |-> IF srv[c] = s THEN Off ELSE srv[c]]
      /\ sess' = [c \in Clients |-> IF srv[c] = s THEN NoAcct ELSE sess[c]]
      /\ tree' = [tree EXCEPT ![s] = [a \in Accounts |-> NoClient]]
  BY DEF Crash
<1>2. tree \in [Servers -> [Accounts -> Clients \union {NoClient}]]
  BY DEF IInv, TypeOK
<1> QED BY <1>1, <1>2, LoginConstants DEF TreeIsSessions, Exclusive

LEMMA TreeStep ==
    ASSUME IInv, TreeIsSessions, [Next]_vars
    PROVE  TreeIsSessions'
<1>1. CASE \E c \in Clients, s \in Servers : Connect(c, s)
  BY <1>1, TreeConnect
<1>2. CASE \E c \in Clients : HungUp(c)
  BY <1>2, TreeHungUp
<1>3. CASE \E s \in Servers : LoginReply(s)
  BY <1>3, TreeReply
<1>4. CASE \E s \in Servers : Crash(s)
  BY <1>4, TreeCrash
<1>5. CASE TreeKept
  BY <1>5 DEF TreeKept, TreeIsSessions
<1>6. \/ \E c \in Clients, s \in Servers : Connect(c, s)
      \/ \E c \in Clients : HungUp(c)
      \/ \E s \in Servers : LoginReply(s) \/ Crash(s)
      \/ TreeKept
  BY DEF Next, TreeKept, CheckLogin, ForceLogout, SendDowntime, LinkLost, Reconnect, Restart,
         DmReceive, DmReap, DmRestart, vars, playerVars, queueVars
<1> QED BY <1>1, <1>2, <1>3, <1>4, <1>5, <1>6

(* gLoginTree holds exactly the players of its server that have a session,  *)
(* under their own account: the ghost check of a login never reaches a      *)
(* player that has left and never misses one that plays.                    *)
THEOREM TreeIsSessionsHolds ==
    ASSUME Sound
    PROVE  Spec => []TreeIsSessions
<1>1. IInv /\ TreeIsSessions /\ [Next]_vars => TreeIsSessions'
  BY TreeStep
<1> QED BY <1>1, TreeInit, Invariance, PTL DEF Spec

-----------------------------------------------------------------------------
(* The holders of the locks, when neither the data manager nor a connection *)
(* between two live ends fails: counting in queues, the effect of sending   *)
(* and receiving on HolderInv, and the actions one by one.                  *)

\* the positions counted by CountIn are a finite set
LEMMA CountNat ==
    ASSUME NEW S, NEW q \in Seq(S), NEW M
    PROVE  CountIn(q, M) \in Nat /\ IsFiniteSet({i \in 1 .. Len(q) : q[i] \in M})
<1> DEFINE A == {i \in 1 .. Len(q) : q[i] \in M}
<1>1. IsFiniteSet(1 .. Len(q))
  BY FS_Interval
<1>2. A \in SUBSET (1 .. Len(q))
  OBVIOUS
<1> HIDE DEF A
<1>3. IsFiniteSet(A)
  BY <1>1, <1>2, FS_Subset
<1>4. Cardinality(A) \in Nat
  BY <1>3, FS_CardinalityType
<1> QED BY <1>3, <1>4 DEF CountIn, A

\* nothing is counted in a queue without elements of M
LEMMA CountNone ==
    ASSUME NEW S, NEW q \in Seq(S), NEW M, \A i \in 1 .. Len(q) : q[i] \notin M
    PROVE  CountIn(q, M) = 0
<1>1. {i \in 1 .. Len(q) : q[i] \in M} = {}
  OBVIOUS
<1> QED BY <1>1, FS_EmptySet DEF CountIn

\* a queue of one element
LEMMA CountOne ==
    ASSUME NEW x, NEW M
    PROVE  CountIn(<<x>>, M) = IF x \in M THEN 1 ELSE 0
<1>1. CASE x \in M
  <2>1. {i \in 1 .. Len(<<x>>) : <<x>>[i] \in M} = {1}
    BY <1>1
  <2> QED BY <1>1, <2>1, FS_Singleton DEF CountIn
<1>2. CASE x \notin M
  <2>1. {i \in 1 .. Len(<<x>>) : <<x>>[i] \in M} = {}
    BY <1>2
  <2> QED BY <1>2, <2>1, FS_EmptySet DEF CountIn
<1> QED BY <1>1, <1>2

\* counting adds up over concatenation
LEMMA CountConcat ==
    ASSUME NEW S, NEW q \in Seq(S), NEW r \in Seq(S), NEW M
    PROVE  CountIn(q \o r, M) = CountIn(q, M) + CountIn(r, M)
<1> DEFINE A == {i \in 1 .. Len(q) : q[i] \in M}
           B == {i \in 1 .. Len(r) : r[i] \in M}
           C == {j \in Len(q) + 1 .. Len(q) + Len(r) : r[j - Len(q)] \in M}
           f == [i \in B |-> i + Len(q)]
<1>1. /\ q \o r \in Seq(S) /\ Len(q \o r) = Len(q) + Len(r)
      /\ \A i \in 1 .. Len(q) + Len(r) : (q \o r)[i] = IF i <= Len(q) THEN q[i] ELSE r[i - Len(q)]
  BY ConcatProperties
<1>2. IsFiniteSet(A) /\ IsFiniteSet(B)
  BY CountNat
<1>3. {i \in 1 .. Len(q \o r) : (q \o r)[i] \in M} = A \union C
  <2> DEFINE D == {i \in 1 .. Len(q \o r) : (q \o r)[i] \in M}
  <2>1. ASSUME NEW i \in D PROVE i \in A \union C
    BY <1>1, <2>1
  <2>2. ASSUME NEW i \in A PROVE i \in D
    BY <1>1, <2>2
  <2>3. ASSUME NEW i \in C PROVE i \in D
    <3>1. i \in 1 .. Len(q) + Len(r) /\ ~(i <= Len(q)) /\ r[i - Len(q)] \in M
      BY <2>3
    <3> QED BY <1>1, <3>1
  <2> QED BY <2>1, <2>2, <2>3
<1>4. A \intersect C = {}
  OBVIOUS
<1>5. f \in Bijection(B, C)
  <2>1. f \in [B -> C]
    <3>1. ASSUME NEW i \in B PROVE i + Len(q) \in C
      <4>1. i \in 1 .. Len(r) /\ r[i] \in M /\ Len(q) \in Nat /\ Len(r) \in Nat
        OBVIOUS
      <4>2. i + Len(q) \in Len(q) + 1 .. Len(q) + Len(r) /\ (i + Len(q)) - Len(q) = i
        BY <4>1
      <4> QED BY <4>1, <4>2
    <3> QED BY <3>1
  <2>2. \A i, j \in B : f[i] = f[j] => i = j
    OBVIOUS
  <2>3. ASSUME NEW j \in C PROVE \E i \in B : f[i] = j
    <3>1. j - Len(q) \in B /\ (j - Len(q)) + Len(q) = j
      BY <2>3
    <3> QED BY <3>1
  <2> HIDE DEF f, B, C
  <2> QED BY <2>1, <2>2, <2>3 DEF Bijection, Injection, Surjection, IsInjective
<1>6. IsFiniteSet(C) /\ Cardinality(C) = Cardinality(B)
  <2> HIDE DEF f, B, C
  <2> QED BY <1>2, <1>5, FS_Bijection DEF ExistsBijection
<1> HIDE DEF A, B, C, f
<1>7. Cardinality(A \union C) = Cardinality(A) + Cardinality(C) - 0
  BY <1>2, <1>4, <1>6, FS_Union, FS_EmptySet
<1>8. Cardinality(A) \in Nat /\ Cardinality(C) \in Nat
  BY <1>2, <1>6, FS_CardinalityType
<1>9. CountIn(q, M) = Cardinality(A) /\ CountIn(r, M) = Cardinality(B)
  BY DEF CountIn, A, B
<1>10. CountIn(q \o r, M) = Cardinality(A \union C)
  BY <1>3 DEF CountIn
<1> QED BY <1>6, <1>7, <1>8, <1>9, <1>10

\* one element at the end
LEMMA CountAppend ==
    ASSUME NEW S, NEW q \in Seq(S), NEW x \in S, NEW M
    PROVE  CountIn(Append(q, x), M) = CountIn(q, M) + (IF x \in M THEN 1 ELSE 0)
<1>1. <<x>> \in Seq(S)
  OBVIOUS
<1>2. Append(q, x) = q \o <<x>>
  OBVIOUS
<1>3. CountIn(q \o <<x>>, M) = CountIn(q, M) + CountIn(<<x>>, M)
  BY <1>1, CountConcat
<1>4. CountIn(<<x>>, M) = IF x \in M THEN 1 ELSE 0
  BY CountOne
<1> QED BY <1>2, <1>3, <1>4

\* the first element goes
LEMMA CountTail ==
    ASSUME NEW S, NEW q \in Seq(S), q # <<>>, NEW M
    PROVE  CountIn(q, M) = CountIn(Tail(q), M) + (IF Head(q) \in M THEN 1 ELSE 0)
<1> DEFINE h == Head(q)
           t == Tail(q)
<1>1. h \in S /\ t \in Seq(S) /\ q = <<h>> \o t
  OBVIOUS
<1> HIDE DEF h, t
<1>2. <<h>> \in Seq(S)
  BY <1>1
<1>3. CountIn(<<h>> \o t, M) = CountIn(<<h>>, M) + CountIn(t, M)
  BY <1>1, <1>2, CountConcat
<1>4. CountIn(t, M) \in Nat
  BY <1>1, CountNat
<1>5. CountIn(<<h>>, M) = IF h \in M THEN 1 ELSE 0
  BY CountOne
<1>6. CountIn(q, M) = CountIn(<<h>> \o t, M)
  BY <1>1
<1>7. CountIn(q, M) = CountIn(t, M) + (IF h \in M THEN 1 ELSE 0)
  BY <1>3, <1>4, <1>5, <1>6
<1> QED BY <1>7 DEF h, t

-----------------------------------------------------------------------------
(* The holders of the locks. *)

\* the sets that CountInv counts
LEMMA CountTypes ==
    ASSUME TypeOK, NEW s \in Servers
    PROVE  /\ IsFiniteSet(Online(s)) /\ Cardinality(Online(s)) \in Nat
           /\ CountIn(rep[s], Accepted) \in Nat
           /\ CountIn(req[Cur(s)], Logoff) \in Nat
           /\ rep[s] \in Seq(Reply) /\ req[Cur(s)] \in Seq(Request)
<1>1. Online(s) \in SUBSET Clients
  BY DEF Online
<1>2. IsFiniteSet(Online(s))
  BY <1>1, ClientsFinite, FS_Subset
<1>3. rep[s] \in Seq(Reply) /\ req[Cur(s)] \in Seq(Request)
  BY CurFacts DEF TypeOK
<1> QED BY <1>2, <1>3, FS_CardinalityType, CountNat

\* A living server is connected, so what it sends goes to its connection.
LEMMA SendUp ==
    ASSUME HelloInv, NEW s \in Servers, proc[s], NEW ms, Send(s, ms)
    PROVE  req' = [req EXCEPT ![Cur(s)] = @ \o ms] /\ out' = out
BY DEF HelloInv, Send, Linked

\* What a server with a connection has sent is what its connection holds.
LEMMA SentIsReq ==
    ASSUME HelloInv, NEW s \in Servers
    PROVE  Sent[s] = req[Cur(s)]
BY DEF HelloInv, Sent

\* A handler of server s that sends ms keeps the holders, if each session or
\* response that goes leaves a successor, and keeps the count.
LEMMA HolderSend ==
    ASSUME TypeOK, HolderInv, NEW s \in Servers, NEW ms \in Seq(Request),
           req' = [req EXCEPT ![Cur(s)] = @ \o ms], rep'[s] \in Seq(Reply),
           UNCHANGED <<locks, userCount, conn, cur, proc, out>>,
           \A t \in Servers : t # s => rep'[t] = rep[t] /\ Online(t)' = Online(t),
           Cardinality(Online(s)') + CountIn(rep'[s], Accepted) + CountIn(ms, Logoff)
               = Cardinality(Online(s)) + CountIn(rep[s], Accepted),
           \A a \in Exclusive : Played(a) \/ Granted(a) => Held(a)'
    PROVE  HolderInv'
<1>0. \A t \in Servers : Cur(t) \in ConnIds /\ Cur(t)' = Cur(t) /\ (t # s => Cur(t) # Cur(s))
  BY CurFacts DEF Cur
<1>1. req[Cur(s)] \in Seq(Request)
  BY CountTypes
<1>2. req'[Cur(s)] = req[Cur(s)] \o ms /\ \A t \in Servers : t # s => req'[Cur(t)] = req[Cur(t)]
  BY <1>0 DEF TypeOK
<1>3. /\ req'[Cur(s)] \in Seq(Request) /\ Len(req'[Cur(s)]) = Len(req[Cur(s)]) + Len(ms)
      /\ \A i \in 1 .. Len(req[Cur(s)]) : i \in 1 .. Len(req'[Cur(s)]) /\ req'[Cur(s)][i] = req[Cur(s)][i]
  <2> DEFINE q == req[Cur(s)]
  <2>1. /\ q \o ms \in Seq(Request) /\ Len(q \o ms) = Len(q) + Len(ms)
        /\ \A i \in 1 .. Len(q) + Len(ms) : (q \o ms)[i] = IF i <= Len(q) THEN q[i] ELSE ms[i - Len(q)]
    BY <1>1, ConcatProperties
  <2>2. Len(q) \in Nat /\ Len(ms) \in Nat
    BY <1>1
  <2> HIDE DEF q
  <2>3. \A i \in 1 .. Len(q) : i \in 1 .. Len(q) + Len(ms) /\ i <= Len(q)
    BY <2>2
  <2> QED BY <1>2, <2>1, <2>3 DEF q
<1>4. HelloInv'
  <2> SUFFICES ASSUME NEW t \in Servers
               PROVE  /\ conn[Cur(t)].st = "up" <=> proc[t]
                      /\ conn[Cur(t)].st # "orphan"
                      /\ out[t] = <<>>
                      /\ conn[Cur(t)].st = "none" => Unused(t)
                      /\ conn[Cur(t)].st # "none" /\ ~conn[Cur(t)].hello =>
                            Unused(t) /\ req'[Cur(t)] # <<>> /\ Head(req'[Cur(t)]) = HelloMsg
    BY <1>0 DEF HelloInv, Unused
  <2>1. CASE t # s
    BY <1>2, <2>1 DEF HolderInv, HelloInv
  <2>2. CASE t = s
    <3>1. req[Cur(s)] # <<>> => req'[Cur(s)] # <<>> /\ Head(req'[Cur(s)]) = Head(req[Cur(s)])
      <4> DEFINE q == req[Cur(s)]
                 p == req'[Cur(s)]
      <4>1. q \in Seq(Request) /\ p \in Seq(Request)
            /\ \A i \in 1 .. Len(q) : i \in 1 .. Len(p) /\ p[i] = q[i]
        BY <1>1, <1>3
      <4> HIDE DEF q, p
      <4>2. ASSUME q # <<>> PROVE p # <<>> /\ Head(p) = Head(q)
        <5>1. 1 \in 1 .. Len(q)
          BY <4>1, <4>2
        <5>2. 1 \in 1 .. Len(p) /\ p[1] = q[1]
          BY <4>1, <5>1
        <5> QED BY <4>1, <5>2, <4>2
      <4> QED BY <4>2 DEF p, q
    <3> QED BY <2>2, <3>1 DEF HolderInv, HelloInv
  <2> QED BY <2>1, <2>2
<1>5. HeldInv'
  <2>1. ASSUME NEW a \in Exclusive, Leaving(a) PROVE Held(a)'
    <3>0. PICK t \in Servers : \E i \in 1 .. Len(Sent[t]) : Sent[t][i] = LogoutMsg(a)
      BY <2>1 DEF Leaving
    <3>1. PICK i \in 1 .. Len(Sent[t]) : Sent[t][i] = LogoutMsg(a)
      BY <3>0
    <3>2. Sent[t] = req[Cur(t)] /\ Sent'[t] = req'[Cur(t)]
      BY <1>0, <1>4, SentIsReq DEF HolderInv, HelloInv, Sent
    <3>3. i \in 1 .. Len(Sent'[t]) /\ Sent'[t][i] = Sent[t][i]
      BY <1>2, <1>3, <3>1, <3>2
    <3> QED BY <3>1, <3>3 DEF Held, Leaving, LogoutMsg
  <2>2. \A a \in Exclusive : Held(a) => Held(a)'
    BY <2>1 DEF Held
  <2>3. \A a \in Exclusive : a \in Accounts
    BY DEF Exclusive
  <2>4. \A a \in Exclusive : locks[a] # NoServer => Cur(locks[a])' = Cur(locks[a])
    BY DEF Cur
  <2> QED BY <2>2, <2>4 DEF HolderInv, HeldInv
<1>6. CountInv'
  <2> DEFINE on(t) == {c \in Clients : srv'[c] = t /\ sess'[c] # NoAcct}
  <2>0. \A t \in Servers : Online(t)' = on(t)
    BY DEF Online
  <2> HIDE DEF on
  <2> SUFFICES ASSUME NEW t \in Servers, conn[Cur(t)].st # "cut"
               PROVE  userCount[t] = Cardinality(on(t)) + CountIn(rep'[t], Accepted)
                                     + CountIn(req'[Cur(t)], Logoff)
    BY <1>0, <2>0 DEF CountInv, CountIn, Accepted, Logoff
  <2>1. userCount[t] = Cardinality(Online(t)) + CountIn(rep[t], Accepted) + CountIn(req[Cur(t)], Logoff)
    BY DEF HolderInv, CountInv
  <2>2. CASE t # s
    BY <1>2, <2>0, <2>1, <2>2
  <2>3. CASE t = s
    <3>1. CountIn(req'[Cur(s)], Logoff) = CountIn(req[Cur(s)], Logoff) + CountIn(ms, Logoff)
      <4> DEFINE q == req[Cur(s)]
      <4>1. q \in Seq(Request)
        BY <1>1
      <4> HIDE DEF q
      <4>2. CountIn(q \o ms, Logoff) = CountIn(q, Logoff) + CountIn(ms, Logoff)
        BY <4>1, CountConcat
      <4> QED BY <1>2, <4>2 DEF q
    <3>2. /\ Cardinality(Online(s)) \in Nat /\ CountIn(rep[s], Accepted) \in Nat
          /\ CountIn(req[Cur(s)], Logoff) \in Nat
      BY CountTypes
    <3>3. CountIn(ms, Logoff) \in Nat /\ CountIn(rep'[s], Accepted) \in Nat
      BY CountNat
    <3>4. Cardinality(on(s)) \in Nat
      <4>1. on(s) \in SUBSET Clients
        BY DEF on
      <4> QED BY <4>1, ClientsFinite, FS_Subset, FS_CardinalityType
    <3>5. Cardinality(on(s)) + CountIn(rep'[s], Accepted) + CountIn(ms, Logoff)
              = Cardinality(Online(s)) + CountIn(rep[s], Accepted)
      BY <2>0
    <3>6. userCount[s] = Cardinality(on(s)) + CountIn(rep'[s], Accepted) + CountIn(req'[Cur(s)], Logoff)
      BY <2>1, <2>3, <3>1, <3>2, <3>3, <3>4, <3>5
    <3> QED BY <2>3, <3>6
  <2> QED BY <2>2, <2>3
<1> QED BY <1>4, <1>5, <1>6 DEF HolderInv

\* A logout that server s sends answers for its account.
LEMMA LeavingSent ==
    ASSUME TypeOK, HelloInv, NEW s \in Servers, NEW ms \in Seq(Request),
           req' = [req EXCEPT ![Cur(s)] = @ \o ms], UNCHANGED <<out, cur>>,
           NEW a, NEW i \in 1 .. Len(ms), ms[i] = LogoutMsg(a)
    PROVE  Leaving(a)'
<1> DEFINE q == req[Cur(s)]
<1>1. q \in Seq(Request) /\ Cur(s) \in ConnIds /\ Cur(s)' = Cur(s)
  BY CountTypes, CurFacts DEF Cur
<1>2. Sent'[s] = q \o ms
  BY <1>1 DEF HelloInv, Sent, TypeOK
<1> HIDE DEF q
<1>3. /\ Len(q \o ms) = Len(q) + Len(ms)
      /\ \A j \in 1 .. Len(q) + Len(ms) : (q \o ms)[j] = IF j <= Len(q) THEN q[j] ELSE ms[j - Len(q)]
  BY <1>1, ConcatProperties
<1>4. /\ Len(q) + i \in 1 .. Len(q) + Len(ms) /\ ~(Len(q) + i <= Len(q))
      /\ (Len(q) + i) - Len(q) = i
  BY <1>1
<1>5. Len(q) + i \in 1 .. Len(Sent'[s]) /\ Sent'[s][Len(q) + i] = LogoutMsg(a)
  BY <1>2, <1>3, <1>4
<1> QED BY <1>5 DEF Leaving, LogoutMsg

\* Starting a context sends a login request or nothing.
LEMMA StartFacts ==
    ASSUME NEW q \in Seq(Context)
    PROVE  StartMsgs(q) \in Seq(Request) /\ CountIn(StartMsgs(q), Logoff) = 0
<1>1. CASE q = <<>>
  <2>1. StartMsgs(q) = <<>> /\ <<>> \in Seq(Request) /\ \A i \in 1 .. Len(<<>>) : <<>>[i] \notin Logoff
    BY <1>1 DEF StartMsgs
  <2> QED BY <2>1, CountNone
<1>2. CASE q # <<>>
  <2>1. Head(q) \in Context
    BY <1>2
  <2>2. LoginMsg(Head(q)) \in Request /\ LoginMsg(Head(q)) \notin Logoff
    BY <2>1 DEF LoginMsg, Request, Context, Logoff
  <2>3. StartMsgs(q) = <<LoginMsg(Head(q))>>
    BY <1>2 DEF StartMsgs
  <2> HIDE DEF LoginMsg
  <2> QED BY <2>2, <2>3, CountOne
<1> QED BY <1>1, <1>2

\* So does a context that leaves the queue.
LEMMA PassFacts ==
    ASSUME TypeOK, QueueInv, NEW s \in Servers, NEW p \in 1 .. Len(pending[s])
    PROVE  /\ PassMsgs(s, pending[s][p].id) \in Seq(Request)
           /\ CountIn(PassMsgs(s, pending[s][p].id), Logoff) = 0
<1> DEFINE w == Without(pending[s], pending[s][p].id)
<1>1. w \in Seq(Context)
  BY WithoutFacts, QueueFacts DEF QueueInv
<1>2. StartMsgs(w) \in Seq(Request) /\ CountIn(StartMsgs(w), Logoff) = 0
  <2> HIDE DEF w
  <2> QED BY <1>1, StartFacts
<1>3. <<>> \in Seq(Request) /\ CountIn(<<>>, Logoff) = 0
  <2>1. StartMsgs(<<>>) = <<>> /\ <<>> \in Seq(Context)
    BY DEF StartMsgs
  <2> QED BY <2>1, StartFacts
<1> QED BY <1>2, <1>3 DEF PassMsgs

\* steps that send and receive nothing and end no session
LEMMA HolderQuiet ==
    ASSUME TypeOK, HolderInv,
           UNCHANGED <<locks, userCount, conn, cur, proc, out, req, rep, sess>>,
           \A c \in Clients : sess[c] # NoAcct => srv'[c] = srv[c]
    PROVE  HolderInv'
<1>1. \A s \in Servers : Cur(s)' = Cur(s) /\ Online(s)' = Online(s)
  BY DEF Cur, Online
<1>2. HelloInv'
  BY <1>1 DEF HolderInv, HelloInv, Unused
<1>3. HeldInv'
  <2>1. Sent' = Sent
    BY <1>1 DEF Sent
  <2>2. \A a \in Exclusive : Held(a) => Held(a)'
    BY <2>1 DEF Held, Played, Granted, Leaving
  <2>3. \A a \in Exclusive : Cur(locks[a])' = Cur(locks[a])
    BY DEF Cur
  <2> QED BY <2>2, <2>3 DEF HolderInv, HeldInv
<1>4. CountInv'
  BY <1>1 DEF HolderInv, CountInv, CountIn, Accepted, Logoff
<1> QED BY <1>2, <1>3, <1>4 DEF HolderInv

\* A server that sends no logout and keeps its players and responses.
LEMMA HolderRequest ==
    ASSUME TypeOK, HolderInv, NEW s \in Servers, proc[s],
           NEW ms \in Seq(Request), CountIn(ms, Logoff) = 0, Send(s, ms),
           UNCHANGED <<locks, userCount, conn, cur, proc, rep, sess, srv>>
    PROVE  HolderInv'
<1>1. req' = [req EXCEPT ![Cur(s)] = @ \o ms] /\ out' = out
  BY SendUp DEF HolderInv
<1>2. \A t \in Servers : Online(t)' = Online(t) /\ rep'[t] = rep[t] /\ rep[t] \in Seq(Reply)
  BY DEF Online, TypeOK
<1>3. CountIn(rep[s], Accepted) \in Nat /\ Cardinality(Online(s)) \in Nat
  BY CountTypes
<1>4. \A a \in Exclusive : Played(a) \/ Granted(a) => Held(a)'
  BY DEF Played, Granted, Held
<1>5. Cardinality(Online(s)') + CountIn(rep'[s], Accepted) + CountIn(ms, Logoff)
        = Cardinality(Online(s)) + CountIn(rep[s], Accepted)
  BY <1>2, <1>3
<1>6. rep'[s] \in Seq(Reply)
      /\ \A t \in Servers : t # s => rep'[t] = rep[t] /\ Online(t)' = Online(t)
  BY <1>2
<1> QED BY <1>1, <1>4, <1>5, <1>6, HolderSend

\* A login request is queued, and sent if it is the only one.
LEMMA CheckLoginHolder ==
    ASSUME IInv, HolderInv, NEW c \in Clients, NEW a \in Accounts, CheckLogin(c, a)
    PROVE  HolderInv'
<1> DEFINE s == srv[c]
           x == [id |-> counter[s], acct |-> a, client |-> c]
           ms == IF pending[s] = <<>> THEN <<LoginMsg(x)>> ELSE <<>>
<1>0. s \in Servers /\ proc[s] /\ TypeOK
      /\ UNCHANGED <<locks, userCount, conn, cur, proc, rep, sess, srv>>
  BY DEF IInv, TypeOK, CheckLogin, Runs, dmVars
<1>1. CASE Ghosted(s, a)
  <2>1. req' = req /\ out' = out
    BY <1>1 DEF Ghosted
  <2> QED BY <1>0, <2>1, HolderQuiet
<1>2. CASE QueueLogin(s, c, a)
  <2>1. Send(s, ms) /\ counter[s] < MaxLogin
    BY <1>2 DEF QueueLogin
  <2>2. x \in Context
    BY <1>0, <2>1, LoginConstants, SMTT(30) DEF IInv, TypeOK, Context, Ids
  <2>3. ms = StartMsgs(IF pending[s] = <<>> THEN <<x>> ELSE <<>>)
    BY DEF StartMsgs
  <2> HIDE DEF x, ms
  <2>4. (IF pending[s] = <<>> THEN <<x>> ELSE <<>>) \in Seq(Context)
    BY <2>2
  <2>5. ms \in Seq(Request) /\ CountIn(ms, Logoff) = 0
    BY <2>3, <2>4, StartFacts
  <2> HIDE DEF s
  <2> QED BY <1>0, <2>1, <2>5, HolderRequest
<1> QED BY <1>1, <1>2 DEF CheckLogin

LEMMA SendDowntimeHolder ==
    ASSUME IInv, HolderInv, NEW s \in Servers, SendDowntime(s)
    PROVE  HolderInv'
<1> DEFINE ms == <<DowntimeMsg>>
<1>1. ms \in Seq(Request) /\ CountIn(ms, Logoff) = 0
  <2>1. DowntimeMsg \in Request /\ DowntimeMsg \notin Logoff
    BY DEF DowntimeMsg, Request, Logoff
  <2> HIDE DEF DowntimeMsg
  <2> QED BY <2>1, CountOne
<1>2. /\ proc[s] /\ Send(s, ms) /\ TypeOK
      /\ UNCHANGED <<locks, userCount, conn, cur, proc, rep, sess, srv>>
  BY DEF SendDowntime, Runs, dmVars, playerVars, IInv
<1> HIDE DEF ms
<1> QED BY <1>1, <1>2, HolderRequest

\* The player of c leaves: its session, if it has one, becomes a logout.
LEMMA HungUpHolder ==
    ASSUME IInv, HolderInv, NEW c \in Clients, HungUp(c)
    PROVE  HolderInv'
<1>s. PICK s \in Servers : s = srv[c]
  BY DEF HungUp, IInv, TypeOK
<1> DEFINE a == sess[c]
           ls == LogoutMsgs(c)
           ps == IF ctx[c] # NoId THEN PassMsgs(s, ctx[c]) ELSE <<>>
           ms == ls \o ps
<1>0. /\ s \in Servers /\ proc[s] /\ a \in Accounts \union {NoAcct} /\ s # Off /\ TypeOK
      /\ UNCHANGED <<locks, userCount, conn, cur, proc, rep>>
      /\ Send(s, ms)
      /\ srv' = [srv EXCEPT ![c] = Off]
      /\ sess' = [sess EXCEPT ![c] = NoAcct]
  BY <1>s DEF IInv, TypeOK, HungUp, Runs, dmVars
<1>1. ps \in Seq(Request) /\ CountIn(ps, Logoff) = 0
  <2>1. CASE ctx[c] = NoId
    <3>1. ps = <<>> /\ <<>> \in Seq(Request) /\ \A i \in 1 .. Len(<<>>) : <<>>[i] \notin Logoff
      BY <2>1
    <3> HIDE DEF ps
    <3> QED BY <3>1, CountNone
  <2>2. CASE ctx[c] # NoId
    <3>1. PICK p \in 1 .. Len(pending[s]) : pending[s][p].id = ctx[c] /\ pending[s][p].client = c
      BY <1>s, <2>2 DEF IInv, ContextInv
    <3>2. ps = PassMsgs(s, pending[s][p].id)
      BY <2>2, <3>1
    <3> HIDE DEF ps
    <3> QED BY <1>0, <3>1, <3>2, PassFacts DEF IInv
  <2> QED BY <2>1, <2>2
<1>2. /\ ls \in Seq(Request)
      /\ CountIn(ls, Logoff) = IF a = NoAcct THEN 0 ELSE 1
      /\ a # NoAcct => 1 \in 1 .. Len(ls) /\ ls[1] = LogoutMsg(a)
  <2>1. CASE a = NoAcct
    <3>1. ls = <<>> /\ <<>> \in Seq(Request) /\ \A i \in 1 .. Len(<<>>) : <<>>[i] \notin Logoff
      BY <2>1 DEF LogoutMsgs
    <3> HIDE DEF ls, a
    <3> QED BY <2>1, <3>1, CountNone
  <2>2. CASE a # NoAcct
    <3>1. LogoutMsg(a) \in Request /\ LogoutMsg(a) \in Logoff
      BY <1>0, <2>2 DEF LogoutMsg, Request, Logoff
    <3>2. ls = <<LogoutMsg(a)>>
      BY <2>2 DEF LogoutMsgs
    <3> HIDE DEF ls, a
    <3> QED BY <2>2, <3>1, <3>2, CountOne
  <2> QED BY <2>1, <2>2
<1> HIDE DEF ls, ps
<1>3. /\ ms \in Seq(Request) /\ CountIn(ms, Logoff) = IF a = NoAcct THEN 0 ELSE 1
      /\ a # NoAcct => 1 \in 1 .. Len(ms) /\ ms[1] = LogoutMsg(a)
  <2>1. /\ ms \in Seq(Request) /\ Len(ms) = Len(ls) + Len(ps)
        /\ \A i \in 1 .. Len(ls) + Len(ps) : ms[i] = IF i <= Len(ls) THEN ls[i] ELSE ps[i - Len(ls)]
    BY <1>1, <1>2, ConcatProperties
  <2>2. CountIn(ms, Logoff) = CountIn(ls, Logoff) + CountIn(ps, Logoff)
    BY <1>1, <1>2, CountConcat
  <2>3. Len(ls) \in Nat /\ Len(ps) \in Nat
    BY <1>1, <1>2
  <2> HIDE DEF ms, a
  <2>4. CountIn(ms, Logoff) = IF a = NoAcct THEN 0 ELSE 1
    BY <1>1, <1>2, <2>2
  <2>5. a # NoAcct => 1 \in 1 .. Len(ms) /\ ms[1] = LogoutMsg(a)
    BY <1>2, <2>1, <2>3
  <2> QED BY <2>1, <2>4, <2>5
<1> HIDE DEF ms
<1>4. req' = [req EXCEPT ![Cur(s)] = @ \o ms] /\ out' = out
  BY <1>0, <1>3, SendUp DEF HolderInv
<1>5. Online(s)' = Online(s) \ {c} /\ \A t \in Servers : t # s => Online(t)' = Online(t)
  <2>1. srv \in [Clients -> Servers \union {Off}] /\ sess \in [Clients -> Accounts \union {NoAcct}]
    BY DEF IInv, TypeOK
  <2>2. ASSUME NEW t \in Servers, NEW d \in Clients
        PROVE  srv'[d] = t /\ sess'[d] # NoAcct <=> d # c /\ srv[d] = t /\ sess[d] # NoAcct
    BY <1>s, <1>0, <2>1
  <2>3. ASSUME NEW t \in Servers PROVE Online(t)' = Online(t) \ {c}
    BY <2>2 DEF Online
  <2>4. \A t \in Servers : t # s => c \notin Online(t)
    BY <1>s DEF Online
  <2> QED BY <1>0, <2>3, <2>4
<1>6. Cardinality(Online(s)') + CountIn(rep'[s], Accepted) + CountIn(ms, Logoff)
        = Cardinality(Online(s)) + CountIn(rep[s], Accepted)
  <2>1. IsFiniteSet(Online(s)) /\ Cardinality(Online(s)) \in Nat /\ CountIn(rep[s], Accepted) \in Nat
    BY <1>0, CountTypes
  <2>2. c \in Online(s) <=> a # NoAcct
    BY <1>s DEF Online
  <2>3. Cardinality(Online(s) \ {c}) = IF c \in Online(s) THEN Cardinality(Online(s)) - 1
                                       ELSE Cardinality(Online(s))
    BY <2>1, FS_RemoveElement
  <2> HIDE DEF a
  <2> QED BY <1>0, <1>3, <1>5, <2>1, <2>2, <2>3
<1>7. ASSUME NEW b \in Exclusive, Played(b) \/ Granted(b) PROVE Held(b)'
  <2>1. CASE Granted(b)
    BY <1>0, <2>1 DEF Granted, Held
  <2>2. CASE Played(b) /\ b # a
    BY <1>0, <2>2 DEF Played, Held, TypeOK
  <2>3. CASE Played(b) /\ b = a
    <3>1. a # NoAcct
      BY <2>3, LoginConstants DEF Exclusive
    <3>2. 1 \in 1 .. Len(ms) /\ ms[1] = LogoutMsg(b) /\ HelloInv /\ UNCHANGED <<out, cur>>
      BY <1>0, <1>3, <1>4, <2>3, <3>1 DEF HolderInv
    <3>3. Leaving(b)'
      <4> HIDE DEF a
      <4> QED BY <1>0, <1>3, <1>4, <3>2, LeavingSent
    <3> QED BY <3>3 DEF Held
  <2> QED BY <1>7, <2>1, <2>2, <2>3
<1>8. rep'[s] \in Seq(Reply) /\ \A t \in Servers : t # s => rep'[t] = rep[t] /\ Online(t)' = Online(t)
  BY <1>0, <1>5 DEF TypeOK
<1> HIDE DEF a
<1> QED BY <1>0, <1>3, <1>4, <1>6, <1>7, <1>8, HolderSend

\* A response: an accepted one becomes the session of the active login's player,
\* or a logout if that login is no longer there.
LEMMA LoginReplyHolder ==
    ASSUME IInv, HolderInv, NEW s \in Servers, LoginReply(s)
    PROVE  HolderInv'
<1> DEFINE r == Head(rep[s])
           b == IF r.ok THEN 1 ELSE 0
<1>0. /\ rep[s] # <<>> /\ rep' = [rep EXCEPT ![s] = Tail(@)] /\ proc[s] /\ TypeOK
      /\ UNCHANGED <<locks, userCount, srv, cur, conn, proc>>
      /\ StaleReply(s, r) \/ ActiveReply(s, r)
  BY DEF LoginReply, Runs, dmVars, IInv
<1>1. /\ rep[s] \in Seq(Reply) /\ rep'[s] \in Seq(Reply)
      /\ r = rep[s][1] /\ r.acct \in Accounts /\ r.ok \in BOOLEAN /\ r.id \in Ids
      /\ \A t \in Servers : t # s => rep'[t] = rep[t]
  BY <1>0, TakeReply DEF TypeOK
<1>2. CountIn(rep[s], Accepted) = CountIn(rep'[s], Accepted) + b
      /\ CountIn(rep'[s], Accepted) \in Nat
  <2> DEFINE q == rep[s]
  <2>1. q \in Seq(Reply) /\ q # <<>> /\ rep'[s] = Tail(q) /\ r = Head(q)
    BY <1>0, <1>1 DEF TypeOK
  <2>2. Head(q) \in Accepted <=> r.ok
    <3>1. Head(q) \in Reply
      BY <2>1
    <3> QED BY <2>1, <3>1 DEF Accepted
  <2> HIDE DEF q, r
  <2>3. CountIn(q, Accepted) = CountIn(Tail(q), Accepted) + (IF Head(q) \in Accepted THEN 1 ELSE 0)
    BY <2>1, CountTail
  <2>4. CountIn(rep'[s], Accepted) \in Nat
    BY <1>1, CountNat
  <2> QED BY <2>1, <2>2, <2>3, <2>4 DEF q
<1>3. ASSUME NEW a \in Exclusive, Granted(a) PROVE Granted(a)' \/ (r.ok /\ r.acct = a)
  <2>1. PICK t \in Servers : \E i \in 1 .. Len(rep[t]) : rep[t][i].ok /\ rep[t][i].acct = a
    BY <1>3 DEF Granted
  <2>2. CASE t # s
    BY <1>1, <2>1, <2>2 DEF Granted
  <2>3. CASE t = s
    <3>1. PICK i \in 1 .. Len(rep[s]) : rep[s][i].ok /\ rep[s][i].acct = a
      BY <2>1, <2>3
    <3>2. CASE i = 1
      BY <1>1, <3>1, <3>2
    <3>3. CASE i # 1
      <4>1. rep'[s] = Tail(rep[s]) /\ Len(Tail(rep[s])) = Len(rep[s]) - 1
            /\ \A j \in 1 .. Len(Tail(rep[s])) : Tail(rep[s])[j] = rep[s][j + 1]
        <5>1. rep'[s] = Tail(rep[s])
          BY <1>0 DEF TypeOK
        <5> QED BY <1>0, <1>1, <5>1, HeadTailProperties
      <4>2. i - 1 \in 1 .. Len(Tail(rep[s])) /\ (i - 1) + 1 = i
        BY <1>1, <3>3, <4>1
      <4>3. rep'[s][i - 1] = rep[s][i]
        BY <4>1, <4>2
      <4> QED BY <3>1, <4>1, <4>2, <4>3 DEF Granted
    <3> QED BY <3>2, <3>3
  <2> QED BY <2>2, <2>3
<1> HIDE DEF r
<1>4. CASE StaleReply(s, r)
  <2> DEFINE ms == StaleMsgs(r)
  <2>1. Send(s, ms) /\ sess' = sess
    BY <1>4 DEF StaleReply
  <2>2. /\ ms \in Seq(Request) /\ CountIn(ms, Logoff) = b
        /\ r.ok => 1 \in 1 .. Len(ms) /\ ms[1] = LogoutMsg(r.acct)
    <3>1. CASE r.ok
      <4>1. LogoutMsg(r.acct) \in Request /\ LogoutMsg(r.acct) \in Logoff
        BY <1>1 DEF LogoutMsg, Request, Logoff
      <4>2. ms = <<LogoutMsg(r.acct)>>
        BY <3>1 DEF StaleMsgs
      <4> HIDE DEF ms
      <4> QED BY <3>1, <4>1, <4>2, CountOne
    <3>2. CASE ~r.ok
      <4>1. ms = <<>> /\ <<>> \in Seq(Request) /\ \A i \in 1 .. Len(<<>>) : <<>>[i] \notin Logoff
        BY <3>2 DEF StaleMsgs
      <4> HIDE DEF ms
      <4> QED BY <3>2, <4>1, CountNone
    <3> QED BY <3>1, <3>2
  <2> HIDE DEF ms
  <2>3. req' = [req EXCEPT ![Cur(s)] = @ \o ms] /\ out' = out
    BY <1>0, <2>1, SendUp DEF HolderInv
  <2>4. \A t \in Servers : Online(t)' = Online(t)
    BY <1>0, <2>1 DEF Online
  <2>5. Cardinality(Online(s)') + CountIn(rep'[s], Accepted) + CountIn(ms, Logoff)
          = Cardinality(Online(s)) + CountIn(rep[s], Accepted)
    <3>1. Cardinality(Online(s)) \in Nat
      BY <1>0, CountTypes
    <3> QED BY <1>2, <2>2, <2>4, <3>1
  <2>6. ASSUME NEW a \in Exclusive, Played(a) \/ Granted(a) PROVE Held(a)'
    <3>1. CASE Played(a)
      BY <2>1, <3>1 DEF Played, Held
    <3>2. CASE Granted(a)'
      BY <3>2 DEF Held
    <3>3. CASE r.ok /\ r.acct = a
      <4>1. Leaving(a)'
        BY <1>0, <2>2, <2>3, <3>3, LeavingSent DEF HolderInv
      <4> QED BY <4>1 DEF Held
    <3> QED BY <1>3, <2>6, <3>1, <3>2, <3>3
  <2> QED BY <1>0, <1>1, <2>2, <2>3, <2>4, <2>5, <2>6, HolderSend
<1>5. CASE ActiveReply(s, r)
  <2> DEFINE c == ActivePlayer(s)
             ms == PassMsgs(s, active[s])
  <2>1. /\ active[s] = r.id /\ Send(s, ms)
        /\ r.ok => sess' = [sess EXCEPT ![c] = r.acct]
        /\ ~r.ok => sess' = sess
    BY <1>5 DEF ActiveReply, IsStale
  <2>2. 1 \in 1 .. Len(pending[s]) /\ active[s] = pending[s][1].id /\ c = pending[s][1].client
    <3>1. active[s] # NoId
      BY <1>1, <2>1, LoginConstants DEF NoId, Ids
    <3> QED BY <3>1, ActiveIsFirst
  <2>3. c \in Clients /\ srv[c] = s /\ sess[c] = NoAcct
    BY <2>2, QueueFacts DEF IInv, QueueInv
  <2>4. ms \in Seq(Request) /\ CountIn(ms, Logoff) = 0
    BY <2>2, PassFacts DEF IInv
  <2> HIDE DEF c, ms
  <2>5. req' = [req EXCEPT ![Cur(s)] = @ \o ms] /\ out' = out
    BY <1>0, <2>1, <2>4, SendUp DEF HolderInv
  <2>6. /\ \A t \in Servers : t # s => Online(t)' = Online(t)
        /\ Online(s)' = IF r.ok THEN Online(s) \union {c} ELSE Online(s)
    BY <1>0, <1>1, <2>1, <2>3, LoginConstants DEF Online, TypeOK
  <2>7. Cardinality(Online(s)') + CountIn(rep'[s], Accepted) + CountIn(ms, Logoff)
          = Cardinality(Online(s)) + CountIn(rep[s], Accepted)
    <3>1. IsFiniteSet(Online(s)) /\ Cardinality(Online(s)) \in Nat
      BY <1>0, CountTypes
    <3>2. c \notin Online(s)
      BY <2>3 DEF Online
    <3>3. Cardinality(Online(s) \union {c}) = Cardinality(Online(s)) + 1
      BY <3>1, <3>2, FS_AddElement
    <3>4. Cardinality(Online(s)') = Cardinality(Online(s)) + b
      BY <2>6, <3>1, <3>3
    <3> QED BY <1>2, <2>4, <3>1, <3>4
  <2>8. ASSUME NEW a \in Exclusive, Played(a) \/ Granted(a) PROVE Held(a)'
    <3>0. a # NoAcct
      BY LoginConstants DEF Exclusive
    <3>1. CASE Played(a)
      BY <1>0, <1>1, <2>1, <2>3, <3>0, <3>1 DEF Played, Held, TypeOK
    <3>2. CASE Granted(a)'
      BY <3>2 DEF Held
    <3>3. CASE r.ok /\ r.acct = a
      <4>1. sess'[c] = a
        BY <1>0, <2>1, <2>3, <3>3 DEF TypeOK
      <4> QED BY <2>3, <4>1 DEF Played, Held
    <3> QED BY <1>3, <2>8, <3>1, <3>2, <3>3
  <2>9. \A t \in Servers : t # s => rep'[t] = rep[t] /\ Online(t)' = Online(t)
    BY <1>1, <2>6
  <2> QED BY <1>0, <1>1, <2>4, <2>5, <2>7, <2>8, <2>9, HolderSend
<1> QED BY <1>0, <1>4, <1>5

\* A token is at the server that the lock of its account names.
LEMMA TokenPlace ==
    ASSUME IInv, NEW a \in Exclusive
    PROVE  /\ \A c \in Clients : sess[c] = a => srv[c] = locks[a]
           /\ \A s \in Servers : \A i \in 1 .. Len(rep[s]) :
                 rep[s][i].ok /\ rep[s][i].acct = a => locks[a] = s
           /\ \A s \in Servers : \A i \in 1 .. Len(Sent[s]) :
                 Sent[s][i] = LogoutMsg(a) => locks[a] = s
<1>1. \A c \in Clients : sess[c] = a => srv[c] = locks[a]
  BY DEF IInv, TokenInv, PlayerTokens
<1>2. \A s \in Servers : \A i \in 1 .. Len(rep[s]) :
         rep[s][i].ok /\ rep[s][i].acct = a => locks[a] = s
  BY DEF IInv, TokenInv, ReplyTokens
<1>3. ASSUME NEW s \in Servers, NEW i \in 1 .. Len(Sent[s]), Sent[s][i] = LogoutMsg(a)
      PROVE  locks[a] = s
  <2>1. Sent[s][i].type = "LOGOUT" /\ Sent[s][i].acct = a
    BY <1>3 DEF LogoutMsg
  <2> QED BY <2>1 DEF IInv, TokenInv, LogoutTokens
<1> QED BY <1>1, <1>2, <1>3

\* What is held at a server other than s stays held when only s changes.
LEMMA HeldElsewhere ==
    ASSUME IInv, NEW s \in Servers, NEW a \in Exclusive, locks[a] # s, Held(a),
           \A c \in Clients : srv[c] # s => sess'[c] = sess[c],
           \A t \in Servers : t # s => rep'[t] = rep[t] /\ Sent'[t] = Sent[t]
    PROVE  Held(a)'
<1>1. CASE Played(a)
  <2>1. PICK c \in Clients : sess[c] = a
    BY <1>1 DEF Played
  <2>2. sess'[c] = a
    BY <2>1, TokenPlace
  <2> QED BY <2>2 DEF Held, Played
<1>2. CASE Granted(a)
  <2>1. PICK t \in Servers : \E i \in 1 .. Len(rep[t]) : rep[t][i].ok /\ rep[t][i].acct = a
    BY <1>2 DEF Granted
  <2>2. t # s
    BY <2>1, TokenPlace
  <2> QED BY <2>1, <2>2 DEF Held, Granted
<1>3. CASE Leaving(a)
  <2>1. PICK t \in Servers : \E i \in 1 .. Len(Sent[t]) : Sent[t][i] = LogoutMsg(a)
    BY <1>3 DEF Leaving
  <2>2. t # s
    BY <2>1, TokenPlace
  <2> QED BY <2>1, <2>2 DEF Held, Leaving, LogoutMsg
<1> QED BY <1>1, <1>2, <1>3 DEF Held

\* No player is at a server whose process does not run.
LEMMA NobodyOnline ==
    ASSUME TypeOK, PlayersInv, NEW s \in Servers, ~proc[s]
    PROVE  Online(s) = {}
BY DEF PlayersInv, Online

\* A crash leaves a connection to be reaped.
LEMMA CrashHolder ==
    ASSUME IInv, HolderInv, NEW s \in Servers, Crash(s)
    PROVE  HolderInv'
<1> DEFINE k == Cur(s)
           gone == {c \in Clients : srv[c] = s}
<1>1. /\ proc[s] /\ proc' = [proc EXCEPT ![s] = FALSE]
      /\ srv' = [c \in Clients |-> IF c \in gone THEN Off ELSE srv[c]]
      /\ sess' = [c \in Clients |-> IF c \in gone THEN NoAcct ELSE sess[c]]
      /\ rep' = [rep EXCEPT ![s] = <<>>]
      /\ out' = [out EXCEPT ![s] = <<>>]
      /\ UNCHANGED <<locks, userCount, cur>>
  BY DEF Crash, dmVars
<1>2. \A t \in Servers : Cur(t) \in ConnIds /\ Cur(t)' = Cur(t) /\ (t # s => Cur(t) # Cur(s))
  BY <1>1, CurFacts DEF Cur, IInv
<1>3. conn[k].st = "up"
  BY <1>1 DEF HolderInv, HelloInv
<1>4. req' = req
  BY <1>3 DEF Crash
<1>5. /\ conn'[Cur(s)].st = "cut" /\ conn'[Cur(s)].hello = conn[Cur(s)].hello
      /\ \A t \in Servers : t # s => conn'[Cur(t)] = conn[Cur(t)]
  <2>1. conn' = [conn EXCEPT ![k].st = CASE @ = "up" -> "cut"
                                         [] @ = "orphan" -> "none"
                                         [] OTHER -> @]
    BY DEF Crash
  <2>2. conn \in [ConnIds -> ConnState] /\ conn[k] \in ConnState
    BY <1>2 DEF IInv, TypeOK
  <2> QED BY <1>2, <1>3, <2>1, <2>2 DEF ConnState
<1> HIDE DEF k
<1>6. \A t \in Servers : /\ out'[t] = <<>>
                         /\ t # s => proc'[t] = proc[t] /\ rep'[t] = rep[t]
  BY <1>1 DEF HolderInv, HelloInv, IInv, TypeOK
<1>7. ~proc'[s]
  BY <1>1 DEF IInv, TypeOK
<1>8. HelloInv'
  <2> SUFFICES ASSUME NEW t \in Servers
               PROVE  /\ conn'[Cur(t)].st = "up" <=> proc'[t]
                      /\ conn'[Cur(t)].st # "orphan"
                      /\ out'[t] = <<>>
                      /\ conn'[Cur(t)].st = "none" => Unused(t)
                      /\ conn'[Cur(t)].st # "none" /\ ~conn'[Cur(t)].hello =>
                            Unused(t) /\ req[Cur(t)] # <<>> /\ Head(req[Cur(t)]) = HelloMsg
    BY <1>1, <1>2, <1>4 DEF HelloInv, Unused
  <2>1. CASE t = s
    BY <1>3, <1>5, <1>6, <1>7, <2>1 DEF HolderInv, HelloInv, k
  <2>2. CASE t # s
    BY <1>5, <1>6, <2>2 DEF HolderInv, HelloInv
  <2> QED BY <2>1, <2>2
<1>9. HeldInv'
  <2>1. SUFFICES ASSUME NEW a \in Exclusive, locks[a] # NoServer, conn'[Cur(locks[a])].st # "cut"
                 PROVE  Held(a)'
    BY <1>1 DEF HeldInv, Cur
  <2>2. locks[a] \in Servers
    BY <2>1 DEF IInv, TypeOK, DmTypeOK, Exclusive
  <2>3. locks[a] # s
    BY <1>5, <2>1
  <2>4. Held(a)
    BY <1>5, <2>1, <2>2, <2>3 DEF HolderInv, HeldInv
  <2>5. \A c \in Clients : srv[c] # s => sess'[c] = sess[c]
    BY <1>1
  <2>6. \A t \in Servers : Sent'[t] = Sent[t]
    BY <1>2, <1>4, <1>6, SentIsReq DEF HolderInv, Sent
  <2> QED BY <1>6, <2>3, <2>4, <2>5, <2>6, HeldElsewhere
<1>10. CountInv'
  <2> SUFFICES ASSUME NEW t \in Servers, conn'[Cur(t)].st # "cut"
               PROVE  (userCount[t] = Cardinality(Online(t)) + CountIn(rep[t], Accepted)
                                     + CountIn(req[Cur(t)], Logoff))'
    BY <1>2 DEF CountInv
  <2>1. t # s
    BY <1>5
  <2>2. Online(t)' = Online(t)
    BY <1>1, <2>1, LoginConstants DEF Online
  <2>3. userCount[t] = Cardinality(Online(t)) + CountIn(rep[t], Accepted) + CountIn(req[Cur(t)], Logoff)
    BY <1>5, <2>1 DEF HolderInv, CountInv
  <2> QED BY <1>1, <1>2, <1>4, <1>6, <2>1, <2>2, <2>3 DEF CountIn, Accepted, Logoff
<1> QED BY <1>8, <1>9, <1>10 DEF HolderInv

\* A server that starts again finds nothing of its last process.
LEMMA RestartHolder ==
    ASSUME IInv, HolderInv, Steady, NEW s \in Servers, Restart(s)
    PROVE  HolderInv'
<1> DEFINE ms == <<HelloMsg>>
<1>0. Sound
  BY DEF Steady, Sound
<1>1. /\ ~proc[s] /\ proc' = [proc EXCEPT ![s] = TRUE] /\ NewConnection(s, ms)
      /\ UNCHANGED <<locks, userCount, srv, sess, rep>>
  BY DEF Restart, dmVars, playerVars
<1>2. ms \in Seq(Request) /\ CountIn(ms, Logoff) = 0 /\ ms # <<>> /\ Head(ms) = HelloMsg
  <2>1. HelloMsg \in Request /\ HelloMsg \notin Logoff
    BY DEF HelloMsg, Request, Logoff
  <2> HIDE DEF HelloMsg
  <2> QED BY <2>1, CountOne
<1> HIDE DEF ms
<1>3. /\ Sent'[s] = ms
      /\ \A t \in Servers : t # s => Sent'[t] = Sent[t]
  BY <1>0, <1>1, <1>2, NewConnectionFacts
<1>4. /\ cur' = [cur EXCEPT ![s] = @ + 1]
      /\ conn' = [conn EXCEPT ![<<s, cur[s] + 1>>] = [st |-> "up", hello |-> FALSE]]
      /\ req' = [req EXCEPT ![<<s, cur[s] + 1>>] = ms]
      /\ out' = [out EXCEPT ![s] = <<>>]
      /\ cur[s] < MaxConn /\ ~Linked(s) /\ Noticed(s)
  BY <1>0, <1>1 DEF NewConnection, Sound
<1>5. Cur(s) \in ConnIds /\ <<s, cur[s] + 1>> \in ConnIds /\ cur[s] \in 1 .. MaxConn
  BY <1>4, CurFacts, LoginConstants DEF IInv, TypeOK, ConnIds
<1>6. /\ Cur(s)' = <<s, cur[s] + 1>>
      /\ \A t \in Servers : t # s => Cur(t)' = Cur(t) /\ Cur(t) # <<s, cur[s] + 1>> /\ Cur(t) \in ConnIds
  BY <1>4, CurFacts DEF Cur, IInv, TypeOK
<1>7. conn[Cur(s)].st = "none" /\ Unused(s)
  <2>1. conn[Cur(s)].st # "cut"
    BY <1>4, <1>5 DEF Noticed, Cur
  <2>2. conn[Cur(s)].st # "up" /\ conn[Cur(s)].st # "orphan"
    BY <1>4 DEF Linked
  <2>3. conn[Cur(s)] \in ConnState
    BY <1>5 DEF IInv, TypeOK
  <2>4. conn[Cur(s)].st = "none"
    BY <2>1, <2>2, <2>3 DEF ConnState
  <2> QED BY <2>4 DEF HolderInv, HelloInv
<1>8. /\ conn'[Cur(s)'] = [st |-> "up", hello |-> FALSE] /\ req'[Cur(s)'] = ms
      /\ \A t \in Servers : t # s => conn'[Cur(t)'] = conn[Cur(t)] /\ req'[Cur(t)'] = req[Cur(t)]
  BY <1>4, <1>5, <1>6 DEF IInv, TypeOK
<1>9. \A t \in Servers : /\ out'[t] = <<>>
                         /\ t # s => proc'[t] = proc[t]
  BY <1>1, <1>4 DEF HolderInv, HelloInv, IInv, TypeOK
<1>10. proc'[s]
  BY <1>1 DEF IInv, TypeOK
<1>11. HelloInv'
  <2> SUFFICES ASSUME NEW t \in Servers
               PROVE  /\ conn'[Cur(t)'].st = "up" <=> proc'[t]
                      /\ conn'[Cur(t)'].st # "orphan"
                      /\ out'[t] = <<>>
                      /\ conn'[Cur(t)'].st = "none" => Unused(t)
                      /\ conn'[Cur(t)'].st # "none" /\ ~conn'[Cur(t)'].hello =>
                            Unused(t) /\ req'[Cur(t)'] # <<>> /\ Head(req'[Cur(t)']) = HelloMsg
    BY <1>1 DEF HelloInv, Unused
  <2>1. CASE t = s
    BY <1>2, <1>7, <1>8, <1>9, <1>10, <2>1
  <2>2. CASE t # s
    BY <1>8, <1>9, <2>2 DEF HolderInv, HelloInv
  <2> QED BY <2>1, <2>2
<1>12. HeldInv'
  <2>1. SUFFICES ASSUME NEW a \in Exclusive, locks[a] # NoServer, conn'[Cur(locks[a])'].st # "cut"
                 PROVE  Held(a)'
    BY <1>1 DEF HeldInv, Cur
  <2>2. locks[a] \in Servers /\ a \in Accounts
    BY <2>1 DEF IInv, TypeOK, DmTypeOK, Exclusive
  <2>3. locks[a] # s
    BY <1>7, <2>2 DEF Unused
  <2>4. PICK t \in Servers : t = locks[a]
    BY <2>2
  <2>5. Held(a)
    <3>1. conn'[Cur(t)'].st # "cut"
      BY <1>1, <2>1, <2>4 DEF Cur
    <3>2. conn[Cur(t)].st # "cut"
      BY <1>8, <2>3, <2>4, <3>1
    <3> QED BY <2>1, <2>4, <3>2 DEF HolderInv, HeldInv
  <2>6. \A c \in Clients : sess'[c] = sess[c]
    BY <1>1
  <2>7. \A v \in Servers : v # s => rep'[v] = rep[v] /\ Sent'[v] = Sent[v]
    BY <1>1, <1>3
  <2> QED BY <2>3, <2>5, <2>6, <2>7, HeldElsewhere
<1>13. CountInv'
  <2>1. \A t \in Servers : Online(t)' = Online(t)
    BY <1>1 DEF Online
  <2>2. Online(s) = {} /\ Cardinality({}) = 0
    BY <1>1, NobodyOnline, FS_EmptySet DEF IInv
  <2>3. CountIn(rep[s], Accepted) = 0
    <3>1. rep[s] = <<>> /\ rep[s] \in Seq(Reply)
      BY <1>1 DEF IInv, LinkInv, TypeOK
    <3>2. \A i \in 1 .. Len(rep[s]) : rep[s][i] \notin Accepted
      BY <3>1
    <3> QED BY <3>1, <3>2, CountNone
  <2>4. userCount[s] = 0
    BY <1>7 DEF Unused
  <2>5. ASSUME NEW t \in Servers, conn'[Cur(t)'].st # "cut"
        PROVE  userCount'[t] = Cardinality(Online(t)') + CountIn(rep'[t], Accepted)
                                 + CountIn(req'[Cur(t)'], Logoff)
    <3>1. CASE t = s
      <4>1. userCount'[s] = 0 /\ Cardinality(Online(s)') = 0 /\ CountIn(rep'[s], Accepted) = 0
            /\ CountIn(req'[Cur(s)'], Logoff) = 0
        BY <1>1, <1>2, <1>8, <2>1, <2>2, <2>3, <2>4
      <4>2. userCount'[s] = Cardinality(Online(s)') + CountIn(rep'[s], Accepted)
                                 + CountIn(req'[Cur(s)'], Logoff)
        BY <4>1
      <4> QED BY <3>1, <4>2
    <3>2. CASE t # s
      <4>1. userCount[t] = Cardinality(Online(t)) + CountIn(rep[t], Accepted) + CountIn(req[Cur(t)], Logoff)
        BY <1>8, <2>5, <3>2 DEF HolderInv, CountInv
      <4> QED BY <1>1, <1>8, <2>1, <3>2, <4>1
    <3> QED BY <3>1, <3>2
  <2> QED BY <2>5 DEF CountInv, CountIn, Accepted, Logoff
<1> QED BY <1>11, <1>12, <1>13 DEF HolderInv

\* What the data manager reads: the first request of a current connection, whose hello is handled.
LEMMA ReceiveBase ==
    ASSUME IInv, HelloInv, NEW k \in ConnIds, DmReceive(k)
    PROVE  /\ k[1] \in Servers /\ k = Cur(k[1]) /\ conn[k].st # "none" /\ conn[k].st # "orphan"
           /\ req[k] \in Seq(Request) /\ req[k] # <<>> /\ Head(req[k]) \in Request
           /\ req' = [req EXCEPT ![k] = Tail(@)]
           /\ UNCHANGED <<proc, srv, sess, cur, out>>
           /\ conn[k].hello \/ (Head(req[k]) = HelloMsg /\ Head(req[k]).type = "HELLO")
           /\ \A t \in Servers : Cur(t) \in ConnIds /\ Cur(t)' = Cur(t) /\ (t # k[1] => Cur(t) # k)
<1>1. /\ conn[k].st \in {"up", "cut"} /\ req[k] # <<>> /\ req' = [req EXCEPT ![k] = Tail(@)]
      /\ UNCHANGED <<proc, srv, sess, cur, out>>
  BY DEF DmReceive, playerVars
<1>2. k[1] \in Servers /\ k = Cur(k[1])
  BY DmReceiveFacts
<1>3. req[k] \in Seq(Request) /\ Head(req[k]) \in Request
  BY <1>1 DEF IInv, TypeOK
<1>4. conn[k].hello \/ Head(req[k]) = HelloMsg
  <2>1. conn[Cur(k[1])].st # "none" /\ ~conn[Cur(k[1])].hello => Head(req[Cur(k[1])]) = HelloMsg
    BY <1>2 DEF HelloInv
  <2> QED BY <1>1, <1>2, <2>1
<1>5. HelloMsg.type = "HELLO"
  BY DEF HelloMsg
<1>6. \A t \in Servers : Cur(t) \in ConnIds /\ Cur(t)' = Cur(t) /\ (t # k[1] => Cur(t) # k)
  BY <1>1, <1>2, CurFacts DEF Cur, IInv
<1> QED BY <1>1, <1>2, <1>3, <1>4, <1>5, <1>6

\* The holders and the count after a request m that is no login: the tokens that
\* remain, and the locks and the count of the server as m says.
LEMMA ReceiveHolder ==
    ASSUME IInv, HolderInv, NEW k \in ConnIds, DmReceive(k), NEW s \in Servers, s = k[1],
           NEW d \in Int,
           (conn' = conn /\ conn[k].hello) \/ conn' = [conn EXCEPT ![k].hello = TRUE],
           \A t \in Servers : t # s => rep'[t] = rep[t] /\ userCount'[t] = userCount[t],
           userCount'[s] = userCount[s] + d,
           \A a \in Accounts :
               locks'[a] = locks[a] \/ locks'[a] = s \/ (locks[a] = s /\ locks'[a] = NoServer),
           \A a \in Exclusive : Granted(a) => Granted(a)',
           \A a \in Exclusive : locks'[a] = s /\ conn[k].st = "up" =>
               \/ Granted(a)'
               \/ locks[a] = s /\ Head(req[k]) # LogoutMsg(a),
           conn[k].st = "up" =>
               CountIn(rep'[s], Accepted) = CountIn(rep[s], Accepted) + d
                   + (IF Head(req[k]) \in Logoff THEN 1 ELSE 0),
           DmTypeOK'
    PROVE  HolderInv'
<1> DEFINE m == Head(req[k])
<1>1. /\ k = Cur(s) /\ conn[k].st # "none" /\ conn[k].st # "orphan"
      /\ req[k] \in Seq(Request) /\ req[k] # <<>> /\ m \in Request
      /\ req' = [req EXCEPT ![k] = Tail(@)]
      /\ UNCHANGED <<proc, srv, sess, cur, out>>
      /\ \A t \in Servers : Cur(t) \in ConnIds /\ Cur(t)' = Cur(t) /\ (t # s => Cur(t) # k)
  BY ReceiveBase DEF HolderInv
<1>2. /\ req'[k] = Tail(req[k]) /\ \A t \in Servers : t # s => req'[Cur(t)] = req[Cur(t)]
      /\ conn'[k].st = conn[k].st /\ conn'[k].hello
      /\ \A t \in Servers : t # s => conn'[Cur(t)] = conn[Cur(t)]
  <2>1. req \in [ConnIds -> Seq(Request)] /\ conn \in [ConnIds -> ConnState]
    BY DEF IInv, TypeOK
  <2>2. conn[k] \in ConnState
    BY <2>1
  <2>3. CASE conn' = conn /\ conn[k].hello
    BY <1>1, <2>1, <2>3
  <2>4. CASE conn' = [conn EXCEPT ![k].hello = TRUE]
    BY <1>1, <2>1, <2>2, <2>4 DEF ConnState
  <2> QED BY <2>3, <2>4
<1>3. HelloInv'
  <2> SUFFICES ASSUME NEW t \in Servers
               PROVE  /\ conn'[Cur(t)].st = "up" <=> proc[t]
                      /\ conn'[Cur(t)].st # "orphan"
                      /\ out[t] = <<>>
                      /\ conn'[Cur(t)].st = "none" => Unused(t)'
                      /\ conn'[Cur(t)].st # "none" /\ ~conn'[Cur(t)].hello =>
                            Unused(t)' /\ req'[Cur(t)] # <<>> /\ Head(req'[Cur(t)]) = HelloMsg
    BY <1>1 DEF HelloInv
  <2>1. CASE t = s
    BY <1>1, <1>2, <2>1 DEF HolderInv, HelloInv
  <2>2. CASE t # s
    <3>1. Unused(t) => Unused(t)'
      BY <2>2, NoServerAssumption DEF Unused
    <3> QED BY <1>2, <2>2, <3>1 DEF HolderInv, HelloInv
  <2> QED BY <2>1, <2>2
<1>4. ASSUME NEW a \in Exclusive, Leaving(a) PROVE Leaving(a)' \/ (m = LogoutMsg(a))
  <2>1. PICK t \in Servers : \E i \in 1 .. Len(Sent[t]) : Sent[t][i] = LogoutMsg(a)
    BY <1>4 DEF Leaving
  <2>2. PICK i \in 1 .. Len(Sent[t]) : Sent[t][i] = LogoutMsg(a)
    BY <2>1
  <2>3. Sent[t] = req[Cur(t)] /\ Sent'[t] = req'[Cur(t)]
    BY <1>1 DEF HolderInv, HelloInv, Sent
  <2>4. CASE t # s
    BY <1>2, <2>2, <2>3, <2>4 DEF Leaving, LogoutMsg
  <2>5. CASE t = s /\ i = 1
    BY <1>1, <2>2, <2>3, <2>5
  <2>6. CASE t = s /\ i # 1
    <3> DEFINE q == req[k]
    <3>1. /\ q \in Seq(Request) /\ q # <<>> /\ i \in 1 .. Len(q) /\ q[i] = LogoutMsg(a)
          /\ Sent'[s] = Tail(q)
      BY <1>1, <1>2, <2>2, <2>3, <2>6
    <3> HIDE DEF q
    <3>2. Len(Tail(q)) = Len(q) - 1 /\ \A j \in 1 .. Len(Tail(q)) : Tail(q)[j] = q[j + 1]
      BY <3>1, HeadTailProperties
    <3>3. i - 1 \in 1 .. Len(Tail(q)) /\ (i - 1) + 1 = i
      BY <2>6, <3>1, <3>2
    <3>4. Sent'[s][i - 1] = LogoutMsg(a)
      BY <3>1, <3>2, <3>3
    <3> QED BY <3>1, <3>3, <3>4 DEF Leaving, LogoutMsg
  <2> QED BY <2>4, <2>5, <2>6
<1>5. ASSUME NEW a \in Exclusive, Held(a) PROVE Held(a)' \/ (m = LogoutMsg(a))
  BY <1>1, <1>4, <1>5 DEF Held, Played
<1>6. HeldInv'
  <2>1. SUFFICES ASSUME NEW a \in Exclusive, locks'[a] # NoServer, (conn[Cur(locks[a])].st # "cut")'
                 PROVE  Held(a)'
    BY DEF HeldInv
  <2>2. a \in Accounts /\ locks'[a] \in Servers
    BY <2>1 DEF DmTypeOK, Exclusive
  <2>3. PICK t \in Servers : t = locks'[a]
    BY <2>2
  <2>4. conn'[Cur(t)].st # "cut"
    BY <1>1, <2>1, <2>3 DEF Cur
  <2>5. CASE t # s
    <3>1. conn[Cur(t)].st # "cut"
      BY <1>2, <2>4, <2>5
    <3>2. locks[a] = t
      BY <2>1, <2>2, <2>3, <2>5
    <3>3. Held(a)
      BY <2>1, <2>3, <3>1, <3>2 DEF HolderInv, HeldInv
    <3>4. m # LogoutMsg(a)
      <4>1. CASE m = LogoutMsg(a)
        <5>1. Sent[s] = req[Cur(s)] /\ 1 \in 1 .. Len(req[k]) /\ req[k][1] = m
          BY <1>1, SentIsReq DEF HolderInv
        <5>2. locks[a] = s
          BY <1>1, <4>1, <5>1, TokenPlace
        <5> QED BY <2>5, <3>2, <5>2
      <4> QED BY <4>1
    <3> QED BY <1>5, <3>3, <3>4
  <2>6. CASE t = s
    <3>1. conn[k].st = "up"
      BY <1>1, <1>2, <2>4, <2>6 DEF IInv, TypeOK, ConnState
    <3>2. Granted(a)' \/ (locks[a] = s /\ m # LogoutMsg(a))
      BY <2>3, <2>6, <3>1
    <3>3. CASE locks[a] = s /\ m # LogoutMsg(a)
      <4>1. Held(a)
        BY <1>1, <2>1, <3>1, <3>3, NoServerAssumption DEF HolderInv, HeldInv
      <4> QED BY <1>5, <3>3, <4>1
    <3> QED BY <3>2, <3>3 DEF Held
  <2> QED BY <2>5, <2>6
<1>7. CountInv'
  <2>1. \A t \in Servers : Online(t)' = Online(t)
    BY <1>1 DEF Online
  <2>2. ASSUME NEW t \in Servers, conn'[Cur(t)].st # "cut"
        PROVE  userCount'[t] = Cardinality(Online(t)') + CountIn(rep'[t], Accepted)
                                 + CountIn(req'[Cur(t)], Logoff)
    <3>1. CASE t # s
      <4>1. userCount[t] = Cardinality(Online(t)) + CountIn(rep[t], Accepted) + CountIn(req[Cur(t)], Logoff)
        BY <1>2, <2>2, <3>1 DEF HolderInv, CountInv
      <4> QED BY <1>2, <2>1, <3>1, <4>1
    <3>2. CASE t = s
      <4>1. conn[k].st = "up"
        BY <1>1, <1>2, <2>2, <3>2 DEF IInv, TypeOK, ConnState
      <4>2. userCount[s] = Cardinality(Online(s)) + CountIn(rep[s], Accepted) + CountIn(req[k], Logoff)
        BY <1>1, <4>1 DEF HolderInv, CountInv
      <4>3. CountIn(req[k], Logoff) = CountIn(Tail(req[k]), Logoff) + (IF m \in Logoff THEN 1 ELSE 0)
            /\ CountIn(Tail(req[k]), Logoff) \in Nat
        <5> DEFINE q == req[k]
        <5>1. q \in Seq(Request) /\ q # <<>> /\ Tail(q) \in Seq(Request)
          BY <1>1
        <5> HIDE DEF q
        <5>2. CountIn(q, Logoff) = CountIn(Tail(q), Logoff) + (IF Head(q) \in Logoff THEN 1 ELSE 0)
          BY <5>1, CountTail
        <5>3. CountIn(Tail(q), Logoff) \in Nat
          BY <5>1, CountNat
        <5> QED BY <5>2, <5>3 DEF q
      <4>4. Cardinality(Online(s)) \in Nat /\ CountIn(rep[s], Accepted) \in Nat
        BY CountTypes DEF IInv
      <4>5. CountIn(rep'[s], Accepted) = CountIn(rep[s], Accepted) + d + (IF m \in Logoff THEN 1 ELSE 0)
        BY <4>1
      <4> HIDE DEF m
      <4>6. userCount'[s] = Cardinality(Online(s)) + CountIn(rep'[s], Accepted) + CountIn(Tail(req[k]), Logoff)
        BY <4>2, <4>3, <4>4, <4>5
      <4>7. Cardinality(Online(t)') = Cardinality(Online(s))
        BY <2>1, <3>2
      <4>8. CountIn(req'[Cur(t)], Logoff) = CountIn(Tail(req[k]), Logoff)
            /\ CountIn(rep'[t], Accepted) = CountIn(rep'[s], Accepted)
            /\ userCount'[t] = userCount'[s]
        BY <1>1, <1>2, <3>2
      <4> QED BY <4>6, <4>7, <4>8
    <3> QED BY <3>1, <3>2
  <2> QED BY <1>1, <2>2 DEF CountInv, CountIn, Accepted, Logoff
<1> QED BY <1>3, <1>6, <1>7 DEF HolderInv

\* Each request that the data manager handles.
LEMMA DmReceiveHolder ==
    ASSUME IInv, HolderInv, NEW k \in ConnIds, DmReceive(k)
    PROVE  HolderInv'
<1> DEFINE m == Head(req[k])
           Responded(ok) == rep' = IF conn[k].st = "up"
                              THEN [rep EXCEPT ![k[1]] = Append(@, [id |-> m.id, ok |-> ok, acct |-> m.acct])]
                              ELSE rep
<1>s. PICK s \in Servers : s = k[1]
  BY ReceiveBase DEF HolderInv
<1>1. /\ m \in Request /\ (conn[k].hello \/ (m = HelloMsg /\ m.type = "HELLO"))
  BY ReceiveBase DEF HolderInv
<1>2. DmTypeOK /\ rep \in [Servers -> Seq(Reply)] /\ rep[s] \in Seq(Reply)
      /\ CountIn(rep[s], Accepted) \in Nat
  BY CountTypes DEF IInv, TypeOK
<1>3. \/ m.type = "HELLO" /\ conn' = [conn EXCEPT ![k].hello = TRUE] /\ UNCHANGED <<dmVars, rep>>
      \/ m.type = "LOGIN" /\ UNCHANGED conn
            /\ \E ok \in BOOLEAN : DmLogin(m.acct, s, conn[k].hello, ok) /\ Responded(ok)
      \/ m.type = "LOGOUT" /\ DmLogout(m.acct, s, conn[k].hello) /\ UNCHANGED <<conn, rep>>
      \/ m.type = "DOWNTIME" /\ DmDowntime(s, conn[k].hello) /\ UNCHANGED <<conn, rep>>
  BY <1>s DEF DmReceive
<1>4. m \in Logoff <=> m.type = "LOGOUT"
  BY <1>1 DEF Logoff
<1>5. \A a : m = LogoutMsg(a) => m.type = "LOGOUT" /\ m.acct = a
  BY DEF LogoutMsg
<1>6. m.type \in {"LOGIN", "LOGOUT"} => m.acct \in Accounts
  BY <1>1 DEF Request
<1>7. m.type = "LOGIN" => m.id \in Ids
  BY <1>1 DEF Request
<1> HIDE DEF m
<1>8. CASE \/ m.type = "HELLO" /\ conn' = [conn EXCEPT ![k].hello = TRUE] /\ UNCHANGED <<dmVars, rep>>
           \/ m.type = "DOWNTIME" /\ DmDowntime(s, conn[k].hello) /\ UNCHANGED <<conn, rep>>
  <2>1. /\ (conn' = conn /\ conn[k].hello) \/ conn' = [conn EXCEPT ![k].hello = TRUE]
        /\ UNCHANGED <<locks, userCount, rep>> /\ DmTypeOK'
    BY <1>1, <1>2, <1>8 DEF DmDowntime, dmVars, DmTypeOK
  <2>0. PICK d \in Int : d = 0
    OBVIOUS
  <2>2. userCount'[s] = userCount[s] + d
    BY <1>2, <2>0, <2>1 DEF DmTypeOK
  <2>3. \A a \in Exclusive : Granted(a) => Granted(a)'
    BY <2>1 DEF Granted
  <2>4. \A a \in Exclusive : m # LogoutMsg(a)
    BY <1>5, <1>8
  <2>5. conn[k].st = "up" =>
          CountIn(rep'[s], Accepted) = CountIn(rep[s], Accepted) + d + (IF m \in Logoff THEN 1 ELSE 0)
    BY <1>2, <1>4, <1>8, <2>0, <2>1
  <2>6. \A t \in Servers : t # s => rep'[t] = rep[t] /\ userCount'[t] = userCount[t]
    BY <2>1
  <2>7. \A a \in Accounts : locks'[a] = locks[a] \/ locks'[a] = s \/ (locks[a] = s /\ locks'[a] = NoServer)
    BY <2>1
  <2>8. \A a \in Exclusive : locks'[a] = s /\ conn[k].st = "up" =>
            Granted(a)' \/ (locks[a] = s /\ m # LogoutMsg(a))
    BY <2>1, <2>4
  <2>9. ((conn' = conn /\ conn[k].hello) \/ conn' = [conn EXCEPT ![k].hello = TRUE]) /\ DmTypeOK'
    BY <2>1
  <2> QED BY <1>s, <2>2, <2>3, <2>5, <2>6, <2>7, <2>8, <2>9, ReceiveHolder DEF m
<1>9. CASE m.type = "LOGOUT" /\ DmLogout(m.acct, s, conn[k].hello) /\ UNCHANGED <<conn, rep>>
  <2>1. conn' = conn /\ conn[k].hello /\ rep' = rep /\ m.acct \in Accounts
    BY <1>1, <1>6, <1>9
  <2>2. /\ locks' = IF locks[m.acct] = s THEN [locks EXCEPT ![m.acct] = NoServer] ELSE locks
        /\ userCount' = [userCount EXCEPT ![s] = @ - 1] /\ downtime' = downtime
    BY <1>9, <2>1 DEF DmLogout
  <2>0. PICK d \in Int : d = -1
    OBVIOUS
  <2>3. /\ userCount'[s] = userCount[s] + d /\ \A t \in Servers : t # s => userCount'[t] = userCount[t]
        /\ \A a \in Accounts : locks'[a] = IF a = m.acct /\ locks[a] = s THEN NoServer ELSE locks[a]
        /\ DmTypeOK'
    BY <1>2, <2>0, <2>1, <2>2 DEF DmTypeOK
  <2>4. \A a \in Exclusive : Granted(a) => Granted(a)'
    BY <2>1 DEF Granted
  <2>5. \A a \in Exclusive : locks'[a] = s => locks[a] = s /\ m # LogoutMsg(a)
    BY <1>5, <2>3, NoServerAssumption DEF Exclusive
  <2>6. conn[k].st = "up" =>
          CountIn(rep'[s], Accepted) = CountIn(rep[s], Accepted) + d + (IF m \in Logoff THEN 1 ELSE 0)
    BY <1>2, <1>4, <1>9, <2>0, <2>1
  <2>7. \A a \in Accounts : locks'[a] = locks[a] \/ locks'[a] = s \/ (locks[a] = s /\ locks'[a] = NoServer)
    BY <2>3
  <2>8. \A t \in Servers : t # s => rep'[t] = rep[t] /\ userCount'[t] = userCount[t]
    BY <2>1, <2>3
  <2>9. \A a \in Exclusive : locks'[a] = s /\ conn[k].st = "up" =>
            Granted(a)' \/ (locks[a] = s /\ m # LogoutMsg(a))
    BY <2>5
  <2> QED BY <1>s, <2>1, <2>3, <2>4, <2>6, <2>7, <2>8, <2>9, ReceiveHolder DEF m
<1>10. CASE m.type = "LOGIN" /\ UNCHANGED conn
            /\ \E ok \in BOOLEAN : DmLogin(m.acct, s, conn[k].hello, ok) /\ Responded(ok)
  <2>1. PICK ok \in BOOLEAN : DmLogin(m.acct, s, conn[k].hello, ok) /\ Responded(ok)
    BY <1>10
  <2> DEFINE r == [id |-> m.id, ok |-> ok, acct |-> m.acct]
             d == IF ok THEN 1 ELSE 0
  <2>2. r \in Reply /\ r.acct = m.acct /\ r.ok = ok /\ (r \in Accepted <=> ok)
    BY <1>6, <1>7, <1>10 DEF Reply, Accepted
  <2>3. rep' = IF conn[k].st = "up" THEN [rep EXCEPT ![s] = Append(@, r)] ELSE rep
    BY <1>s, <2>1
  <2> HIDE DEF r
  <2>4. \A t \in Servers : t # s => rep'[t] = rep[t]
    BY <1>2, <2>3
  <2>5. conn[k].st = "up" => rep'[s] = Append(rep[s], r)
    BY <1>2, <2>3
  <2>6. \A a \in Exclusive : Granted(a) => Granted(a)'
    <3>1. CASE conn[k].st # "up"
      BY <2>3, <3>1 DEF Granted
    <3>2. CASE conn[k].st = "up"
      <4>1. ASSUME NEW t \in Servers, NEW i \in 1 .. Len(rep[t])
            PROVE  i \in 1 .. Len(rep'[t]) /\ rep'[t][i] = rep[t][i]
        <5>1. CASE t = s
          BY <1>2, <2>2, <2>5, <3>2, <5>1
        <5>2. CASE t # s
          BY <2>4, <5>2
        <5> QED BY <5>1, <5>2
      <4> QED BY <4>1 DEF Granted
    <3> QED BY <3>1, <3>2
  <2>8. conn[k].st = "up" =>
          CountIn(rep'[s], Accepted) = CountIn(rep[s], Accepted) + d + (IF m \in Logoff THEN 1 ELSE 0)
    <3>1. CountIn(Append(rep[s], r), Accepted) = CountIn(rep[s], Accepted) + (IF r \in Accepted THEN 1 ELSE 0)
      BY <1>2, <2>2, CountAppend
    <3> QED BY <1>2, <1>4, <1>10, <2>2, <2>5, <3>1
  <2>9. conn' = conn /\ conn[k].hello /\ m.acct \in Accounts /\ m.type # "LOGOUT"
    BY <1>1, <1>6, <1>10
  <2>10. /\ userCount'[s] = userCount[s] + d /\ \A t \in Servers : t # s => userCount'[t] = userCount[t]
         /\ DmTypeOK'
         /\ locks' = locks \/ (ok /\ locks' = [locks EXCEPT ![m.acct] = s])
    <3>1. CASE ~ok /\ UNCHANGED dmVars
      BY <1>2, <3>1 DEF dmVars, DmTypeOK
    <3>2. CASE ok /\ userCount' = [userCount EXCEPT ![s] = @ + 1] /\ UNCHANGED downtime
               /\ (locks' = locks \/ locks' = [locks EXCEPT ![m.acct] = s])
      BY <1>2, <2>9, <3>2 DEF DmTypeOK
    <3> QED BY <2>1, <2>9, <3>1, <3>2 DEF DmLogin, InsertLock
  <2>11. \A a \in Accounts : locks'[a] = locks[a] \/ locks'[a] = s \/ (locks[a] = s /\ locks'[a] = NoServer)
    BY <1>2, <2>9, <2>10 DEF DmTypeOK
  <2>12. ASSUME NEW a \in Exclusive, locks'[a] = s, conn[k].st = "up"
         PROVE  Granted(a)' \/ (locks[a] = s /\ m # LogoutMsg(a))
    <3>1. CASE locks'[a] = locks[a]
      BY <1>5, <2>9, <2>12, <3>1
    <3>2. CASE locks'[a] # locks[a]
      <4>1. a = m.acct /\ ok
        BY <1>2, <2>10, <3>2 DEF DmTypeOK, Exclusive
      <4>2. \E i \in 1 .. Len(rep'[s]) : rep'[s][i].ok /\ rep'[s][i].acct = a
        <5>1. Len(rep[s]) + 1 \in 1 .. Len(rep'[s]) /\ rep'[s][Len(rep[s]) + 1] = r
          BY <1>2, <2>2, <2>5, <2>12
        <5> QED BY <2>2, <4>1, <5>1
      <4> QED BY <4>2 DEF Granted
    <3> QED BY <3>1, <3>2
  <2>13. d \in Int
    OBVIOUS
  <2> HIDE DEF d
  <2> QED BY <1>s, <2>4, <2>6, <2>8, <2>9, <2>10, <2>11, <2>12, <2>13, ReceiveHolder DEF m
<1> QED BY <1>3, <1>8, <1>9, <1>10

\* The reap of a crashed server's connection clears its rows.
LEMMA DmReapHolder ==
    ASSUME IInv, HolderInv, NEW k \in ConnIds, DmReap(k)
    PROVE  HolderInv'
<1>1. /\ conn[k].st = "cut"
      /\ conn' = [conn EXCEPT ![k] = [st |-> "none", hello |-> FALSE]]
      /\ req' = [req EXCEPT ![k] = <<>>]
      /\ UNCHANGED <<proc, srv, sess, cur, rep, out>>
      /\ DmHungUp(k[1], conn[k].hello)
  BY DEF DmReap, playerVars
<1>s. PICK s \in Servers : s = k[1] /\ k = Cur(s) /\ ~proc[s]
  BY <1>1 DEF IInv, LinkInv, ConnIds
<1>2. \A t \in Servers : Cur(t) \in ConnIds /\ Cur(t)' = Cur(t) /\ (t # s => Cur(t) # k)
  BY <1>1, <1>s, CurFacts DEF IInv, Cur
<1>3. /\ conn'[k].st = "none" /\ req'[k] = <<>>
      /\ \A t \in Servers : t # s => conn'[Cur(t)] = conn[Cur(t)] /\ req'[Cur(t)] = req[Cur(t)]
  BY <1>1, <1>2 DEF IInv, TypeOK
<1>4. DmTypeOK /\ (~conn[k].hello => Unused(s))
  <2>1. conn[Cur(s)].st # "none" /\ ~conn[Cur(s)].hello => Unused(s)
    BY DEF HolderInv, HelloInv
  <2> QED BY <1>1, <1>s, <2>1 DEF IInv, TypeOK
<1>5. /\ \A t \in Servers : t # s => userCount'[t] = userCount[t]
      /\ \A a \in Accounts : locks'[a] = IF locks[a] = s THEN NoServer ELSE locks[a]
      /\ Unused(s)'
  <2>1. CASE conn[k].hello
    <3>1. /\ userCount' = [userCount EXCEPT ![s] = 0]
          /\ locks' = [a \in Accounts |-> IF locks[a] = s THEN NoServer ELSE locks[a]]
      BY <1>1, <1>s, <2>1 DEF DmHungUp
    <3> QED BY <1>4, <3>1, NoServerAssumption DEF Unused, DmTypeOK
  <2>2. CASE ~conn[k].hello
    <3>1. userCount' = userCount /\ locks' = locks
      BY <1>1, <2>2 DEF DmHungUp
    <3> QED BY <1>4, <2>2, <3>1 DEF Unused
  <2> QED BY <2>1, <2>2
<1>6. HelloInv'
  <2> SUFFICES ASSUME NEW t \in Servers
               PROVE  /\ conn'[Cur(t)].st = "up" <=> proc[t]
                      /\ conn'[Cur(t)].st # "orphan"
                      /\ out[t] = <<>>
                      /\ conn'[Cur(t)].st = "none" => Unused(t)'
                      /\ conn'[Cur(t)].st # "none" /\ ~conn'[Cur(t)].hello =>
                            Unused(t)' /\ req'[Cur(t)] # <<>> /\ Head(req'[Cur(t)]) = HelloMsg
    BY <1>1, <1>2 DEF HelloInv
  <2>1. CASE t = s
    <3>1. Unused(t)'
      BY <1>5, <2>1 DEF Unused
    <3> QED BY <1>s, <1>3, <2>1, <3>1 DEF HolderInv, HelloInv
  <2>2. CASE t # s
    <3>1. Unused(t) => Unused(t)'
      BY <1>5, <2>2, NoServerAssumption DEF Unused
    <3> QED BY <1>3, <2>2, <3>1 DEF HolderInv, HelloInv
  <2> QED BY <2>1, <2>2
<1>7. HeldInv'
  <2>1. SUFFICES ASSUME NEW a \in Exclusive, locks'[a] # NoServer, (conn[Cur(locks[a])].st # "cut")'
                 PROVE  Held(a)'
    BY DEF HeldInv
  <2>2. a \in Accounts /\ locks'[a] = locks[a] /\ locks[a] # s /\ locks[a] \in Servers
    BY <1>4, <1>5, <2>1 DEF DmTypeOK, Exclusive
  <2>3. PICK t \in Servers : t = locks'[a]
    BY <2>2
  <2>4. conn'[Cur(t)].st # "cut"
    BY <1>1, <2>1, <2>3 DEF Cur
  <2>5. conn[Cur(t)].st # "cut"
    BY <1>3, <2>2, <2>3, <2>4
  <2>6. Held(a)
    BY <2>1, <2>2, <2>3, <2>5 DEF HolderInv, HeldInv
  <2>7. \A c \in Clients : sess'[c] = sess[c]
    BY <1>1
  <2>8. \A u \in Servers : u # s => rep'[u] = rep[u] /\ Sent'[u] = Sent[u]
    BY <1>1, <1>2, <1>3 DEF HolderInv, HelloInv, Sent
  <2> QED BY <2>2, <2>6, <2>7, <2>8, HeldElsewhere
<1>8. CountInv'
  <2>1. \A t \in Servers : Online(t)' = Online(t)
    BY <1>1 DEF Online
  <2>2. Online(s) = {} /\ Cardinality({}) = 0
    BY <1>s, NobodyOnline, FS_EmptySet DEF IInv
  <2>3. CountIn(rep[s], Accepted) = 0
    <3>1. rep[s] = <<>> /\ rep[s] \in Seq(Reply)
      BY <1>s DEF IInv, LinkInv, TypeOK
    <3>2. \A i \in 1 .. Len(rep[s]) : rep[s][i] \notin Accepted
      BY <3>1
    <3> QED BY <3>1, <3>2, CountNone
  <2>4. CountIn(<<>>, Logoff) = 0
    <3>1. <<>> \in Seq(Request) /\ \A i \in 1 .. Len(<<>>) : <<>>[i] \notin Logoff
      OBVIOUS
    <3> QED BY <3>1, CountNone
  <2>5. ASSUME NEW t \in Servers, conn'[Cur(t)].st # "cut"
        PROVE  userCount'[t] = Cardinality(Online(t)') + CountIn(rep'[t], Accepted)
                                 + CountIn(req'[Cur(t)], Logoff)
    <3>1. CASE t = s
      <4>1. userCount'[s] = 0
        BY <1>5 DEF Unused
      <4>2. Cardinality(Online(t)') = 0
        BY <2>1, <2>2, <3>1
      <4>3. CountIn(rep'[s], Accepted) = 0 /\ CountIn(req'[Cur(s)], Logoff) = 0
        BY <1>1, <1>s, <1>3, <2>3, <2>4
      <4> QED BY <3>1, <4>1, <4>2, <4>3
    <3>2. CASE t # s
      <4>1. userCount[t] = Cardinality(Online(t)) + CountIn(rep[t], Accepted) + CountIn(req[Cur(t)], Logoff)
        BY <1>3, <2>5, <3>2 DEF HolderInv, CountInv
      <4> QED BY <1>1, <1>3, <1>5, <2>1, <3>2, <4>1
    <3> QED BY <3>1, <3>2
  <2> QED BY <1>2, <2>5 DEF CountInv, CountIn, Accepted, Logoff
<1> QED BY <1>6, <1>7, <1>8 DEF HolderInv
\* Every server has just connected and said hello.
LEMMA InitHolder == Init => HolderInv
<1> SUFFICES ASSUME Init PROVE HolderInv
  OBVIOUS
<1>1. \A s \in Servers : /\ conn[Cur(s)] = [st |-> "up", hello |-> FALSE] /\ req[Cur(s)] = <<HelloMsg>>
                         /\ proc[s] /\ out[s] = <<>> /\ rep[s] = <<>> /\ userCount[s] = 0
  BY LoginConstants DEF Init, DmInit, Cur, ConnIds
<1>2. \A a \in Accounts : locks[a] = NoServer
  BY DEF Init, DmInit
<1>3. HelloInv
  BY <1>1, <1>2, NoServerAssumption DEF HelloInv, Unused
<1>4. HeldInv
  BY <1>2 DEF HeldInv, Exclusive
<1>5. CountInv
  <2> SUFFICES ASSUME NEW s \in Servers
               PROVE  userCount[s] = Cardinality(Online(s)) + CountIn(rep[s], Accepted)
                                     + CountIn(req[Cur(s)], Logoff)
    BY DEF CountInv
  <2>1. Online(s) = {}
    BY DEF Init, Online
  <2>2. Cardinality({}) = 0
    BY FS_EmptySet
  <2>3. CountIn(<<>>, Accepted) = 0
    <3>1. <<>> \in Seq(Reply) /\ \A i \in 1 .. Len(<<>>) : <<>>[i] \notin Accepted
      OBVIOUS
    <3> QED BY <3>1, CountNone
  <2>4. CountIn(<<HelloMsg>>, Logoff) = 0
    <3>1. HelloMsg \notin Logoff
      BY DEF HelloMsg, Logoff
    <3> HIDE DEF HelloMsg
    <3> QED BY <3>1, CountOne
  <2> QED BY <1>1, <2>1, <2>2, <2>3, <2>4
<1> QED BY <1>3, <1>4, <1>5 DEF HolderInv

\* Every step keeps the holders, as long as no connection between two live
\* processes breaks and the data manager runs.
LEMMA NextHolder ==
    ASSUME Steady, IInv, HolderInv, [Next]_vars
    PROVE  HolderInv'
<1>0. TypeOK
  BY DEF IInv
<1>1. CASE \E c \in Clients : \E s \in Servers : Connect(c, s)
  <2>1. PICK c \in Clients, s \in Servers : Connect(c, s)
    BY <1>1
  <2>2. /\ UNCHANGED <<locks, userCount, conn, cur, proc, out, req, rep, sess>>
        /\ srv[c] = Off /\ srv' = [srv EXCEPT ![c] = s]
    BY <2>1 DEF Connect, dmVars, linkVars
  <2>3. \A d \in Clients : sess[d] # NoAcct => srv'[d] = srv[d]
    BY <2>2 DEF IInv, PlayersInv, TypeOK
  <2> QED BY <1>0, <2>2, <2>3, HolderQuiet
<1>2. CASE \E c \in Clients : \E a \in Accounts : CheckLogin(c, a)
  BY <1>2, CheckLoginHolder
<1>3. CASE \E c \in Clients : ForceLogout(c)
  <2>1. UNCHANGED <<locks, userCount, conn, cur, proc, out, req, rep, sess, srv>>
    BY <1>3 DEF ForceLogout, dmVars, linkVars
  <2> QED BY <1>0, <2>1, HolderQuiet
<1>4. CASE \E c \in Clients : HungUp(c)
  BY <1>4, HungUpHolder
<1>5. CASE \E s \in Servers : LoginReply(s)
  BY <1>5, LoginReplyHolder
<1>6. CASE \E s \in Servers : SendDowntime(s)
  BY <1>6, SendDowntimeHolder
<1>7. CASE \E s \in Servers : LinkLost(s)
  <2>1. PICK s \in Servers : conn[Cur(s)].st = "orphan" \/ "reset" \in Faults
    BY <1>7 DEF LinkLost
  <2> QED BY <2>1 DEF HolderInv, HelloInv, Steady
<1>8. CASE \E s \in Servers : Reconnect(s)
  <2>1. PICK s \in Servers : proc[s] /\ conn[Cur(s)].st # "up"
    BY <1>8 DEF Reconnect, NewConnection, Linked
  <2> QED BY <2>1 DEF HolderInv, HelloInv
<1>9. CASE \E s \in Servers : Crash(s)
  BY <1>9, CrashHolder
<1>10. CASE \E s \in Servers : Restart(s)
  BY <1>10, RestartHolder
<1>11. CASE \E k \in ConnIds : DmReceive(k)
  BY <1>11, DmReceiveHolder
<1>12. CASE \E k \in ConnIds : DmReap(k)
  BY <1>12, DmReapHolder
<1>13. CASE DmRestart
  BY <1>13 DEF DmRestart, Steady
<1>14. CASE UNCHANGED vars
  <2>1. UNCHANGED <<locks, userCount, conn, cur, proc, out, req, rep, sess, srv>>
    BY <1>14 DEF vars, dmVars, playerVars, linkVars
  <2> QED BY <1>0, <2>1, HolderQuiet
<1> QED BY <1>1, <1>2, <1>3, <1>4, <1>5, <1>6, <1>7, <1>8, <1>9, <1>10, <1>11, <1>12, <1>13, <1>14
        DEF Next

\* The connections that carry a logout of a: only that of the lock's server.
LEMMA LogoutPlace ==
    ASSUME IInv, HelloInv, NEW a \in Exclusive, NEW k \in Logouts(a)
    PROVE  locks[a] \in Servers /\ k = Cur(locks[a]) /\ k[1] = locks[a] /\ Leaving(a)
<1>1. k \in ConnIds /\ k[1] \in Servers /\ \E i \in 1 .. Len(req[k]) : req[k][i] = LogoutMsg(a)
  BY DEF Logouts, Contains, ConnIds
<1>2. k = Cur(k[1])
  BY <1>1 DEF IInv, LinkInv
<1>3. Sent[k[1]] = req[k]
  BY <1>1, <1>2, SentIsReq
<1>4. Leaving(a)
  BY <1>1, <1>3 DEF Leaving
<1>5. locks[a] = k[1]
  BY <1>1, <1>3, TokenPlace
<1> QED BY <1>1, <1>2, <1>4, <1>5

\* The three kinds of holders exclude each other.
LEMMA OneKind ==
    ASSUME IInv, HelloInv, NEW a \in Exclusive
    PROVE  /\ Played(a) => ~Granted(a) /\ ~Leaving(a)
           /\ Granted(a) => ~Leaving(a)
<1>1. ASSUME Played(a), Granted(a) PROVE FALSE
  BY <1>1 DEF Played, Granted, IInv, TokenInv, ReplyTokens
<1>2. ASSUME NEW s \in Servers, NEW i \in 1 .. Len(Sent[s]), Sent[s][i] = LogoutMsg(a)
      PROVE  locks[a] = s /\ ~Played(a)
  <2>1. Sent[s][i].type = "LOGOUT" /\ Sent[s][i].acct = a
    BY <1>2 DEF LogoutMsg
  <2> QED BY <2>1 DEF IInv, TokenInv, LogoutTokens, Played
<1>3. ASSUME Granted(a), Leaving(a) PROVE FALSE
  <2>1. PICK s \in Servers : \E i \in 1 .. Len(Sent[s]) : Sent[s][i] = LogoutMsg(a)
    BY <1>3 DEF Leaving
  <2>2. PICK t \in Servers : \E i \in 1 .. Len(rep[t]) : rep[t][i].ok /\ rep[t][i].acct = a
    BY <1>3 DEF Granted
  <2>3. s = t
    BY <1>2, <2>1, <2>2, TokenPlace
  <2> QED BY <2>1, <2>2, <2>3 DEF IInv, TokenInv, ReplyTokens
<1> QED BY <1>1, <1>2, <1>3 DEF Leaving

\* A lock whose connection is not to be reaped has exactly one holder.
LEMMA OneHolder ==
    ASSUME IInv, HolderInv
    PROVE  LockHasOneHolder
<1> SUFFICES ASSUME NEW a \in Exclusive, locks[a] # NoServer, ToReap(a) = {}
             PROVE  /\ Cardinality(Players(a)) + Cardinality(Replies(a)) + Cardinality(Logouts(a)) = 1
                    /\ \A c \in Players(a) : srv[c] = locks[a]
                    /\ \A p \in Replies(a) : p[1] = locks[a]
                    /\ \A k \in Logouts(a) : k[1] = locks[a]
  BY DEF LockHasOneHolder
<1>0. PICK l \in Servers : l = locks[a]
  BY DEF IInv, TypeOK, DmTypeOK, Exclusive
<1>1. Held(a)
  <2>1. Cur(l) \in ConnIds /\ Cur(l)[1] = l
    BY CurFacts DEF IInv
  <2>2. conn[Cur(l)].st # "cut"
    BY <1>0, <2>1 DEF ToReap
  <2> QED BY <1>0, <2>2 DEF HolderInv, HeldInv
<1>2. \A p \in Replies(a) :
         /\ p[1] \in Servers /\ p[2] \in 1 .. Len(rep[p[1]]) /\ p = <<p[1], p[2]>>
         /\ rep[p[1]][p[2]].ok /\ rep[p[1]][p[2]].acct = a
  BY DEF Replies
<1>3. Granted(a) <=> Replies(a) # {}
  <2>1. Replies(a) # {} => Granted(a)
    BY <1>2 DEF Granted
  <2>2. ASSUME Granted(a) PROVE Replies(a) # {}
    <3>1. PICK s \in Servers : \E i \in 1 .. Len(rep[s]) : rep[s][i].ok /\ rep[s][i].acct = a
      BY <2>2 DEF Granted
    <3>2. PICK i \in 1 .. Len(rep[s]) : rep[s][i].ok /\ rep[s][i].acct = a
      BY <3>1
    <3>3. <<s, i>> \in Replies(a)
      BY <3>2 DEF Replies
    <3> QED BY <3>3
  <2> QED BY <2>1, <2>2
<1>4. Played(a) <=> Players(a) # {}
  BY DEF Played, Players
<1>5. Leaving(a) <=> Logouts(a) # {}
  <2>1. Logouts(a) # {} => Leaving(a)
    BY LogoutPlace DEF HolderInv
  <2>2. ASSUME Leaving(a) PROVE Logouts(a) # {}
    <3>1. PICK s \in Servers : \E i \in 1 .. Len(Sent[s]) : Sent[s][i] = LogoutMsg(a)
      BY <2>2 DEF Leaving
    <3>2. Sent[s] = req[Cur(s)] /\ Cur(s) \in ConnIds
      BY SentIsReq, CurFacts DEF HolderInv, IInv
    <3> QED BY <3>1, <3>2 DEF Logouts, Contains
  <2> QED BY <2>1, <2>2
<1>6. \A c, d \in Players(a) : c = d
  BY DEF Players, IInv, TokenInv, PlayerTokens
<1>7. \A p, r \in Replies(a) : p = r
  <2> SUFFICES ASSUME NEW p \in Replies(a), NEW r \in Replies(a) PROVE p = r
    OBVIOUS
  <2>1. p[1] = l /\ r[1] = l
    BY <1>0, <1>2, TokenPlace
  <2>2. p[2] = r[2]
    BY <1>2, <2>1 DEF IInv, TokenInv, ReplyTokens
  <2> QED BY <1>2, <2>1, <2>2
<1>8. \A k, m \in Logouts(a) : k = m
  BY LogoutPlace DEF HolderInv
<1>9. Cardinality({}) = 0
  BY FS_EmptySet
<1>10. ASSUME NEW S, S # {}, \A x, y \in S : x = y PROVE Cardinality(S) = 1
  <2>1. PICK x \in S : S = {x}
    BY <1>10
  <2> QED BY <2>1, FS_Singleton
<1>11. /\ Played(a) => Cardinality(Players(a)) = 1
       /\ Granted(a) => Cardinality(Replies(a)) = 1
       /\ Leaving(a) => Cardinality(Logouts(a)) = 1
  BY <1>3, <1>4, <1>5, <1>6, <1>7, <1>8, <1>10
<1>12. /\ ~Played(a) => Cardinality(Players(a)) = 0
       /\ ~Granted(a) => Cardinality(Replies(a)) = 0
       /\ ~Leaving(a) => Cardinality(Logouts(a)) = 0
  BY <1>3, <1>4, <1>5, <1>9
<1>13. Cardinality(Players(a)) + Cardinality(Replies(a)) + Cardinality(Logouts(a)) = 1
  BY <1>1, <1>11, <1>12, OneKind DEF Held, HolderInv
<1>14. /\ \A c \in Players(a) : srv[c] = locks[a]
       /\ \A p \in Replies(a) : p[1] = locks[a]
       /\ \A k \in Logouts(a) : k[1] = locks[a]
  BY <1>2, TokenPlace, LogoutPlace DEF Players, HolderInv
<1> QED BY <1>13, <1>14

\* The count of CountInv is the one of the property.
LEMMA UserCount ==
    ASSUME IInv, HolderInv
    PROVE  UserCountIsUsers
<1> SUFFICES ASSUME NEW s \in Servers, \A k \in ConnIds : k[1] = s => conn[k].st # "cut"
             PROVE  userCount[s] =
                        Cardinality({c \in Clients : srv[c] = s /\ sess[c] # NoAcct})
                        + Cardinality({i \in 1 .. Len(rep[s]) : rep[s][i].ok})
                        + Cardinality({i \in 1 .. Len(req[Cur(s)]) : req[Cur(s)][i].type = "LOGOUT"})
  BY DEF UserCountIsUsers
<1>1. Cur(s) \in ConnIds /\ Cur(s)[1] = s
  BY CurFacts DEF IInv
<1>2. userCount[s] = Cardinality(Online(s)) + CountIn(rep[s], Accepted) + CountIn(req[Cur(s)], Logoff)
  BY <1>1 DEF HolderInv, CountInv
<1>3. rep[s] \in Seq(Reply) /\ req[Cur(s)] \in Seq(Request)
  BY CountTypes DEF IInv
<1>4. {i \in 1 .. Len(rep[s]) : rep[s][i] \in Accepted} = {i \in 1 .. Len(rep[s]) : rep[s][i].ok}
  <2>1. \A i \in 1 .. Len(rep[s]) : rep[s][i] \in Reply
    BY <1>3
  <2> QED BY <2>1 DEF Accepted
<1>5. {i \in 1 .. Len(req[Cur(s)]) : req[Cur(s)][i] \in Logoff}
        = {i \in 1 .. Len(req[Cur(s)]) : req[Cur(s)][i].type = "LOGOUT"}
  <2>1. \A i \in 1 .. Len(req[Cur(s)]) : req[Cur(s)][i] \in Request
    BY <1>3
  <2> QED BY <2>1 DEF Logoff
<1> QED BY <1>2, <1>4, <1>5 DEF Online, CountIn

(* Every lock is answered for, and every user counted, in every reachable   *)
(* state.                                                                   *)
THEOREM HoldersKept ==
    ASSUME Steady
    PROVE  Spec => [](IInv /\ HolderInv)
<1>0. Sound
  BY DEF Steady, Sound
<1>1. Init => IInv /\ HolderInv
  BY InitIInv, InitHolder
<1>2. IInv /\ HolderInv /\ [Next]_vars => (IInv /\ HolderInv)'
  BY <1>0, NextIInv, NextHolder
<1> QED BY <1>1, <1>2, PTL DEF Spec

(* "delete from accountLocks" (_IPC_DATAMGR_LOGOUT, _IPC_CLIENT_HUNG_UP): no  *)
(* account stays locked with nobody to unlock it.  A row whose server's end *)
(* has no hang-up pending has exactly one player, accepted response or      *)
(* logout, at the server that the row names.                                *)
THEOREM LockHasOneHolderHolds ==
    ASSUME Steady
    PROVE  Spec => []LockHasOneHolder
<1>1. IInv /\ HolderInv => LockHasOneHolder
  BY OneHolder
<1> QED BY <1>1, HoldersKept, PTL

(* serverList.userCount: the players with a session, the accepted responses *)
(* and the logouts on their way, each counted once.                         *)
THEOREM UserCountIsUsersHolds ==
    ASSUME Steady
    PROVE  Spec => []UserCountIsUsers
<1>1. IInv /\ HolderInv => UserCountIsUsers
  BY UserCount
<1> QED BY <1>1, HoldersKept, PTL
=============================================================================
