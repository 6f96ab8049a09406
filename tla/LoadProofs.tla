----------------------------- MODULE LoadProofs -----------------------------
(***************************************************************************)
(* Proofs about what protects a device under load.                         *)
(*                                                                         *)
(* CheckMAC2 only accepts recent cookies, for any number of workers,       *)
(* addresses and messages, and any CookieRefreshTime.  CheckMAC2 looks at  *)
(* the age of the secret, not at that of the cookie.  The invariant        *)
(* relates the two: a cookie that still fits, wherever it is kept or on    *)
(* its way, was made when there was the present secret.                    *)
(*                                                                         *)
(* The rate limiter is exact, for any number of addresses, workers and     *)
(* entries, and any costs that satisfy LimiterAssumption.  LimiterExact is *)
(* inductive together with the types and with one more fact: no two        *)
(* addresses share an entry, so that what a worker takes from an entry is  *)
(* taken from one address only.                                            *)
(***************************************************************************)
EXTENDS Cookies, RateLimiter, TLAPS

-----------------------------------------------------------------------------
(* The inductive invariant.                                                *)

Age == 0 .. Expired

Place == {"next", "check", "reply", "refresh", "derive"}

WorkerState == [at : Place, msg : Message]

GeneratorState == [lastMAC1 : Mac1 \cup {None}, cookie : Cookie, age : Age]

Reply == [mac1 : Mac1, cookie : Cookie]

TypeOK ==
    /\ secretAge \in Age
    /\ given \in [Address -> Age]
    /\ queue \in Seq(Message)
    /\ worker \in [Worker -> WorkerState]
    /\ generator \in GeneratorState
    /\ address \in Address
    /\ replies \subseteq Reply

Queued == {queue[i] : i \in DOMAIN queue}

\* A message whose cookie was made with the present secret.
MessageRecent(m) == m.mac2 \in Address => given[m.mac2] <= secretAge

CookiesRecent ==
    /\ \A m \in Queued : MessageRecent(m)
    /\ \A w \in Worker : MessageRecent(worker[w].msg)
    /\ generator.cookie \in Address => given[generator.cookie] <= secretAge
    /\ \A r \in replies : r.cookie \in Address => given[r.cookie] <= secretAge

IInv == TypeOK /\ CookiesRecent

-----------------------------------------------------------------------------
(* Lemmas.                                                                 *)

\* Ages and how they grow.
LEMMA AgeFacts ==
    /\ RefreshTime \in Nat /\ Expired \in Age /\ 0 \in Age
    /\ \A a \in Age : a \in Nat /\ a <= Expired /\ Older(a) \in Age
    /\ \A a, b \in Age : a <= b => Older(a) <= Older(b)
BY CookiesAssumption DEF Age, Expired, Older

\* Messages: those of others carry no cookie.
LEMMA MessageFacts ==
    /\ Foreign \in Message /\ Foreign.mac2 = None
    /\ \A m \in Message : m # Foreign =>
          m.mac1 \in Mac1 /\ m.mac2 \in Cookie /\ m.src \in Address
    /\ None \notin Address
<1>1. None \notin Address
  BY CookiesAssumption
<1>2. Foreign \in Message /\ Foreign.mac2 = None
  BY DEF Foreign, Message
<1>3. \A m \in Message : m # Foreign =>
          m.mac1 \in Mac1 /\ m.mac2 \in Cookie /\ m.src \in Address
  BY DEF Message
<1> QED
  BY <1>1, <1>2, <1>3

\* A message that loses its cookie.
LEMMA Uncookied ==
    ASSUME NEW m \in Message
    PROVE  [m EXCEPT !.mac2 = None] \in Message /\ [m EXCEPT !.mac2 = None].mac2 = None
<1>1. CASE m = Foreign
  BY <1>1 DEF Foreign, Message
<1>2. CASE m \in [mac1 : Mac1, mac2 : Cookie, src : Address]
  BY <1>2 DEF Message, Cookie
<1> QED
  BY <1>1, <1>2 DEF Message

\* Taking the head off the queue.
LEMMA TailFacts ==
    ASSUME NEW q \in Seq(Message), q # <<>>
    PROVE  /\ Head(q) \in Message /\ Tail(q) \in Seq(Message)
           /\ Head(q) \in {q[i] : i \in DOMAIN q}
           /\ {Tail(q)[i] : i \in DOMAIN Tail(q)} \subseteq {q[i] : i \in DOMAIN q}
<1>1. /\ Len(q) \in Nat \ {0} /\ Tail(q) \in Seq(Message) /\ Len(Tail(q)) = Len(q) - 1
      /\ DOMAIN q = 1 .. Len(q) /\ DOMAIN Tail(q) = 1 .. Len(Tail(q))
      /\ \A i \in 1 .. Len(q) : q[i] \in Message
  OBVIOUS
<1>2. Head(q) = q[1] /\ 1 \in DOMAIN q
  BY <1>1
<1>3. \A i \in DOMAIN Tail(q) : i + 1 \in DOMAIN q /\ Tail(q)[i] = q[i + 1]
  BY <1>1
<1> QED
  BY <1>1, <1>2, <1>3

\* Putting a message at its end.
LEMMA QueueFacts ==
    ASSUME NEW q \in Seq(Message), NEW m \in Message
    PROVE  /\ addToHandshakeQueue(q, m) \in Seq(Message)
           /\ \A x \in {addToHandshakeQueue(q, m)[i] : i \in DOMAIN addToHandshakeQueue(q, m)} :
                 x = m \/ x \in {q[i] : i \in DOMAIN q}
<1> DEFINE t == IF Len(q) = QueueSize THEN Tail(q) ELSE q
<1>1. t \in Seq(Message) /\ {t[i] : i \in DOMAIN t} \subseteq {q[i] : i \in DOMAIN q}
  <2>1. CASE Len(q) = QueueSize
    <3>1. q # <<>>
      BY <2>1, CookiesAssumption
    <3> QED
      BY <2>1, <3>1, TailFacts
  <2>2. CASE Len(q) # QueueSize
    BY <2>2
  <2> QED
    BY <2>1, <2>2
<1> HIDE DEF t
<1>2. Append(t, m) \in Seq(Message) /\ DOMAIN Append(t, m) = 1 .. Len(t) + 1
  BY <1>1
<1>3. \A i \in DOMAIN Append(t, m) : Append(t, m)[i] = m \/ (i \in DOMAIN t /\ Append(t, m)[i] = t[i])
  BY <1>1
<1>4. addToHandshakeQueue(q, m) = Append(t, m)
  BY DEF addToHandshakeQueue, t
<1> QED
  BY <1>1, <1>2, <1>3, <1>4, Zenon

\* The forms in which the steps change a worker.
LEMMA WorkerChanges ==
    ASSUME TypeOK, NEW w \in Worker
    PROVE  /\ worker[w].at \in Place /\ worker[w].msg \in Message
           /\ \A a \in Place : Goto(w, a) =>
                 /\ worker' \in [Worker -> WorkerState]
                 /\ \A v \in Worker : worker'[v].msg = worker[v].msg
           /\ Done(w) =>
                 /\ worker' \in [Worker -> WorkerState]
                 /\ \A v \in Worker : worker'[v].msg \in {worker[v].msg, Foreign}
           /\ \A m \in Message : worker' = [worker EXCEPT ![w] = [at |-> "check", msg |-> m]] =>
                 /\ worker' \in [Worker -> WorkerState]
                 /\ \A v \in Worker : worker'[v].msg \in {worker[v].msg, m}
<1>1. /\ worker \in [Worker -> WorkerState] /\ worker[w] \in WorkerState
      /\ worker[w].at \in Place /\ worker[w].msg \in Message
  BY DEF TypeOK, WorkerState
<1>2. \A a \in Place, m \in Message : [at |-> a, msg |-> m] \in WorkerState
  BY DEF WorkerState
<1>3. ASSUME NEW a \in Place, Goto(w, a)
      PROVE  /\ worker' \in [Worker -> WorkerState]
             /\ \A v \in Worker : worker'[v].msg = worker[v].msg
  BY <1>1, <1>3 DEF Goto, WorkerState
<1>4. Idle \in WorkerState /\ Idle.msg = Foreign
  BY MessageFacts DEF Idle, WorkerState, Place
<1>5. Done(w) => /\ worker' \in [Worker -> WorkerState]
                 /\ \A v \in Worker : worker'[v].msg \in {worker[v].msg, Foreign}
  BY <1>1, <1>4 DEF Done
<1>6. ASSUME NEW m \in Message, worker' = [worker EXCEPT ![w] = [at |-> "check", msg |-> m]]
      PROVE  /\ worker' \in [Worker -> WorkerState]
             /\ \A v \in Worker : worker'[v].msg \in {worker[v].msg, m}
  BY <1>1, <1>2, <1>6 DEF Place
<1> QED
  BY <1>1, <1>3, <1>5, <1>6

\* The generator takes over a cookie, or forgets the one it has.
LEMMA HoldingFacts ==
    ASSUME NEW g \in GeneratorState, NEW c \in Cookie
    PROVE  Holding(g, c) \in GeneratorState /\ Holding(g, c).cookie = c
BY AgeFacts, Zenon DEF Holding, GeneratorState

-----------------------------------------------------------------------------
(* The steps.                                                              *)

\* A step that makes no cookie and keeps the secret, or lets it expire.
LEMMA NoneMade ==
    ASSUME IInv, UNCHANGED given, secretAge' \in {secretAge, Expired},
           queue' \in Seq(Message),
           \A m \in Queued' : m \in Queued \/ MessageRecent(m),
           worker' \in [Worker -> WorkerState],
           \A w \in Worker : \/ worker'[w].msg = worker[w].msg
                             \/ MessageRecent(worker'[w].msg),
           generator' \in GeneratorState,
           \/ generator'.cookie \in {generator.cookie, None}
           \/ \E r \in replies : generator'.cookie = r.cookie,
           address' \in Address, replies' \subseteq replies
    PROVE  IInv'
<1>1. secretAge \in Age /\ secretAge' \in Age /\ secretAge <= secretAge'
  BY AgeFacts DEF IInv, TypeOK
<1>2. \A c \in Address : given[c] <= secretAge => given'[c] <= secretAge'
  BY <1>1, AgeFacts DEF IInv, TypeOK
<1>3. TypeOK'
  BY <1>1 DEF IInv, TypeOK
<1>4. \A m : MessageRecent(m) => MessageRecent(m)'
  BY <1>2 DEF MessageRecent
<1>5. /\ \A m \in Queued' : MessageRecent(m)'
      /\ \A w \in Worker : (MessageRecent(worker[w].msg))'
  BY <1>2, <1>4 DEF IInv, CookiesRecent, MessageRecent
<1>6. generator'.cookie \in Address => given'[generator'.cookie] <= secretAge'
  BY <1>2, MessageFacts DEF IInv, CookiesRecent
<1>7. \A r \in replies' : r.cookie \in Address => given'[r.cookie] <= secretAge'
  BY <1>2 DEF IInv, CookiesRecent
<1> QED
  BY <1>3, <1>5, <1>6, <1>7 DEF IInv, CookiesRecent

\* Messages of others, and those whose cookie is the generator's, are recent.
LEMMA RecentMessages ==
    ASSUME IInv
    PROVE  /\ MessageRecent(Foreign)
           /\ \A m \in Queued : MessageRecent(m)
           /\ \A m : m.mac2 \in {None, generator.cookie} => MessageRecent(m)
BY MessageFacts DEF IInv, CookiesRecent, MessageRecent

\* Receiving a message of another peer.
LEMMA StepReceiveForeign ==
    ASSUME IInv, ReceiveForeign
    PROVE  IInv'
<1>1. queue' \in Seq(Message) /\ \A m \in Queued' : m \in Queued \/ m = Foreign
  BY QueueFacts, MessageFacts, Zenon DEF ReceiveForeign, IInv, TypeOK, Queued
<1> QED
  BY <1>1, RecentMessages, NoneMade DEF ReceiveForeign, device, peer, IInv, TypeOK

\* The steps of a worker that neither take a new secret nor make a cookie.
LEMMA StepWorker ==
    ASSUME IInv, NEW w \in Worker,
           Take(w) \/ Limited(w) \/ Admit(w) \/ Refuse(w) \/ CreateReply(w) \/ ReplyFails(w)
    PROVE  IInv'
<1>1. /\ UNCHANGED given /\ UNCHANGED secretAge /\ UNCHANGED generator
      /\ UNCHANGED address /\ UNCHANGED replies
  BY DEF Take, Limited, Admit, Refuse, CreateReply, ReplyFails, device, peer
<1>2. CASE Take(w)
  <2>1. /\ Head(queue) \in Message /\ Head(queue) \in Queued
        /\ queue' \in Seq(Message) /\ Queued' \subseteq Queued
    BY <1>2, TailFacts DEF Take, IInv, TypeOK, Queued
  <2>2. /\ worker' \in [Worker -> WorkerState]
        /\ \A v \in Worker : worker'[v].msg \in {worker[v].msg, Head(queue)}
    BY <1>2, <2>1, WorkerChanges, Zenon DEF Take, IInv
  <2>3. MessageRecent(Head(queue))
    BY <2>1, RecentMessages
  <2> QED
    BY <1>1, <2>1, <2>2, <2>3, NoneMade DEF IInv, TypeOK
<1>3. CASE ~Take(w)
  <2>1. UNCHANGED queue /\ (Done(w) \/ \E a \in Place : Goto(w, a))
    BY <1>3 DEF Limited, Admit, Refuse, CreateReply, ReplyFails, Place
  <2>2. /\ worker' \in [Worker -> WorkerState]
        /\ \A v \in Worker : worker'[v].msg \in {worker[v].msg, Foreign}
    BY <2>1, WorkerChanges DEF IInv
  <2>3. queue' \in Seq(Message) /\ Queued' = Queued
    BY <2>1 DEF IInv, TypeOK, Queued
  <2> QED
    BY <1>1, <2>2, <2>3, RecentMessages, NoneMade DEF IInv, TypeOK
<1> QED
  BY <1>2, <1>3

\* A new secret: no cookie fits any more, so none is older than it.
LEMMA StepRefresh ==
    ASSUME IInv, NEW w \in Worker, Refresh(w)
    PROVE  IInv'
<1>1. /\ queue' = [i \in DOMAIN queue |-> [queue[i] EXCEPT !.mac2 = None]]
      /\ worker' = [v \in Worker |-> [worker[v] EXCEPT !.msg.mac2 = None,
                                                       !.at = IF v = w THEN "derive" ELSE @]]
      /\ generator' = Holding(generator, None)
      /\ replies' = {[r EXCEPT !.cookie = None] : r \in replies}
      /\ given' = [a \in Address |-> Expired]
      /\ secretAge' = 0 /\ UNCHANGED address
  BY Zenon DEF Refresh, NewSecret
<1>2. queue' \in Seq(Message) /\ \A m \in Queued' : m.mac2 = None
  <2>1. DOMAIN queue = 1 .. Len(queue) /\ Len(queue) \in Nat /\ \A i \in DOMAIN queue : queue[i] \in Message
    BY SMTT(30) DEF IInv, TypeOK
  <2>2. \A i \in DOMAIN queue : queue'[i] \in Message /\ queue'[i].mac2 = None
    BY <1>1, <2>1, Uncookied, Zenon
  <2>3. DOMAIN queue' = 1 .. Len(queue) /\ queue' \in [1 .. Len(queue) -> Message]
    BY <1>1, <2>1, <2>2, Zenon
  <2>4. queue' \in Seq(Message)
    BY <2>1, <2>3
  <2> QED
    BY <2>1, <2>2, <2>3, <2>4 DEF Queued
<1>3. worker' \in [Worker -> WorkerState] /\ \A v \in Worker : worker'[v].msg.mac2 = None
  <2> SUFFICES ASSUME NEW v \in Worker
               PROVE  worker'[v] \in WorkerState /\ worker'[v].msg.mac2 = None
    BY <1>1, Zenon
  <2> DEFINE m == [worker[v].msg EXCEPT !.mac2 = None]
             a == IF v = w THEN "derive" ELSE worker[v].at
  <2>1. worker[v] \in WorkerState /\ worker[v].at \in Place /\ worker[v].msg \in Message
    BY SMTT(30) DEF IInv, TypeOK, WorkerState
  <2>2. worker'[v] = [at |-> a, msg |-> m]
    BY <1>1, <2>1, Zenon DEF WorkerState
  <2>3. m \in Message /\ m.mac2 = None /\ a \in Place
    BY <2>1, Uncookied, SMTT(30) DEF Place
  <2> HIDE DEF m, a
  <2> QED
    BY <2>2, <2>3, SMTT(30) DEF WorkerState
<1>4. generator' \in GeneratorState /\ generator'.cookie = None
  BY <1>1, HoldingFacts, Zenon DEF IInv, TypeOK, Cookie
<1>5. replies' \subseteq Reply /\ \A r \in replies' : r.cookie = None
  BY <1>1, Zenon DEF IInv, TypeOK, Reply, Cookie
<1>6. TypeOK'
  BY <1>1, <1>2, <1>3, <1>4, <1>5, AgeFacts, Zenon DEF IInv, TypeOK
<1>7. CookiesRecent'
  BY <1>2, <1>3, <1>4, <1>5, MessageFacts DEF CookiesRecent, MessageRecent
<1> QED
  BY <1>6, <1>7 DEF IInv

\* A cookie is made.
LEMMA StepDerive ==
    ASSUME IInv, NEW w \in Worker, Derive(w)
    PROVE  IInv'
<1>1. PICK m \in Message : m = worker[w].msg
  BY WorkerChanges DEF IInv
<1>2. /\ Done(w) /\ UNCHANGED <<secretAge, queue, generator, address>>
      /\ \/ m = Foreign /\ UNCHANGED <<replies, given>>
         \/ /\ m # Foreign /\ given' = [given EXCEPT ![m.src] = 0]
            /\ replies' = replies \cup {[mac1 |-> m.mac1, cookie |-> m.src]}
  BY <1>1 DEF Derive, device, peer
<1>3. /\ worker' \in [Worker -> WorkerState]
      /\ \A v \in Worker : worker'[v].msg \in {worker[v].msg, Foreign}
  BY <1>2, WorkerChanges DEF IInv
<1>4. queue' \in Seq(Message) /\ Queued' = Queued
  BY <1>2 DEF IInv, TypeOK, Queued
<1>5. CASE m = Foreign
  BY <1>2, <1>3, <1>4, <1>5, RecentMessages, NoneMade, SMTT(30) DEF IInv, TypeOK
<1>6. CASE m # Foreign
  <2>1. m.mac1 \in Mac1 /\ m.src \in Address
    BY <1>6, MessageFacts
  <2>2. given' \in [Address -> Age] /\ \A c \in Address : given'[c] = IF c = m.src THEN 0 ELSE given[c]
    BY <1>2, <1>6, <2>1, AgeFacts, Zenon DEF IInv, TypeOK
  <2>3. \A c \in Address : given[c] <= secretAge => given'[c] <= secretAge'
    BY <1>2, <2>2, AgeFacts, SMTT(30) DEF IInv, TypeOK
  <2>4. replies' \subseteq Reply
    <3>1. [mac1 |-> m.mac1, cookie |-> m.src] \in Reply
      BY <2>1 DEF Reply, Cookie
    <3> QED
      BY <1>2, <1>6, <3>1 DEF IInv, TypeOK
  <2>5. TypeOK'
    BY <1>2, <1>3, <1>4, <2>2, <2>4, SMTT(30) DEF IInv, TypeOK
  <2>6. /\ \A x \in Queued' : MessageRecent(x)'
        /\ \A v \in Worker : (MessageRecent(worker[v].msg))'
    BY <1>3, <1>4, <2>3, RecentMessages DEF IInv, CookiesRecent, MessageRecent
  <2>7. generator'.cookie \in Address => given'[generator'.cookie] <= secretAge'
    BY <1>2, <2>3 DEF IInv, CookiesRecent
  <2>8. given'[m.src] <= secretAge'
    BY <1>2, <2>1, <2>2, AgeFacts, SMTT(30) DEF IInv, TypeOK
  <2>9. \A r \in replies' : r.cookie \in Address => given'[r.cookie] <= secretAge'
    BY <1>2, <1>6, <2>3, <2>8 DEF IInv, CookiesRecent
  <2> QED
    BY <2>5, <2>6, <2>7, <2>9 DEF IInv, CookiesRecent
<1> QED
  BY <1>5, <1>6

\* The load passes, the key is set, the peer asks for a handshake, moves, or loses a reply.
LEMMA StepOutside ==
    ASSUME IInv, \/ LoadPasses \/ SetPrivateKey \/ Ask \/ Roam
                 \/ \E r \in replies : LoseReply(r)
    PROVE  IInv'
<1>1. /\ UNCHANGED given /\ secretAge' \in {secretAge, Expired} /\ UNCHANGED queue
      /\ UNCHANGED worker /\ UNCHANGED generator /\ replies' \subseteq replies
      /\ address' \in {address} \cup Address
  BY DEF LoadPasses, SetPrivateKey, Ask, Roam, LoseReply, device, peer
<1>2. queue' \in Seq(Message) /\ Queued' = Queued
  BY <1>1 DEF IInv, TypeOK, Queued
<1>3. generator' \in GeneratorState /\ worker' \in [Worker -> WorkerState] /\ address' \in Address
  BY <1>1 DEF IInv, TypeOK
<1> QED
  BY <1>1, <1>2, <1>3, NoneMade

\* An initiation carries the generator's cookie, if it carries any.
LEMMA StepSend ==
    ASSUME IInv, NEW arrives \in BOOLEAN, Send(arrives)
    PROVE  IInv'
<1>1. PICK m1 \in Mac1 :
          /\ generator' = [generator EXCEPT !.lastMAC1 = m1]
          /\ queue' = IF arrives THEN addToHandshakeQueue(queue, AddMacs(generator, m1)) ELSE queue
  BY Zenon DEF Send
<1>2. UNCHANGED <<secretAge, worker, address, replies, given>>
  BY DEF Send, device
<1>3. generator \in GeneratorState /\ generator.cookie \in Cookie
  BY DEF IInv, TypeOK, GeneratorState
<1>4. generator' \in GeneratorState /\ generator'.cookie = generator.cookie
  BY <1>1, <1>3 DEF GeneratorState
<1>5. /\ AddMacs(generator, m1) \in Message
      /\ AddMacs(generator, m1).mac2 \in {None, generator.cookie}
  BY <1>3 DEF AddMacs, Message, Cookie, IInv, TypeOK
<1>6. /\ queue' \in Seq(Message)
      /\ \A m \in Queued' : m \in Queued \/ m = AddMacs(generator, m1)
  <2>1. PICK n \in Message : n = AddMacs(generator, m1)
    BY <1>5
  <2>2. queue \in Seq(Message)
    BY DEF IInv, TypeOK
  <2>3. CASE arrives
    <3>1. PICK q \in Seq(Message) : q = queue
      BY <2>2
    <3>2. queue' = addToHandshakeQueue(q, n)
      BY <1>1, <2>1, <2>3, <3>1
    <3>3. /\ queue' \in Seq(Message)
          /\ \A x \in {queue'[i] : i \in DOMAIN queue'} : x = n \/ x \in {q[i] : i \in DOMAIN q}
      BY <3>2, QueueFacts, Zenon
    <3>4. Queued' = {queue'[i] : i \in DOMAIN queue'} /\ Queued = {q[i] : i \in DOMAIN q}
      BY <3>1 DEF Queued
    <3> QED
      BY <2>1, <3>3, <3>4, SMTT(30)
  <2>4. CASE ~arrives
    BY <1>1, <2>2, <2>4 DEF Queued
  <2> QED
    BY <2>3, <2>4
<1>7. MessageRecent(AddMacs(generator, m1))
  BY <1>5, RecentMessages
<1> QED
  BY <1>2, <1>4, <1>6, <1>7, NoneMade DEF IInv, TypeOK

\* The generator takes over the cookie of a reply.
LEMMA StepConsumeReply ==
    ASSUME IInv, NEW r \in replies, ConsumeReply(r)
    PROVE  IInv'
<1>1. /\ replies' \subseteq replies
      /\ generator' = IF generator.lastMAC1 = r.mac1 THEN Holding(generator, r.cookie) ELSE generator
      /\ UNCHANGED <<secretAge, queue, worker, address, given>>
  BY DEF ConsumeReply, device
<1>2. r.cookie \in Cookie /\ generator \in GeneratorState
  BY DEF IInv, TypeOK, Reply
<1>3. /\ generator' \in GeneratorState
      /\ generator'.cookie = generator.cookie \/ generator'.cookie = r.cookie
  BY <1>1, <1>2, HoldingFacts
<1> QED
  BY <1>1, <1>3, NoneMade DEF IInv, TypeOK, Queued

\* Everything gets older, and the generator forgets an old cookie.
LEMMA StepTick ==
    ASSUME IInv, Tick
    PROVE  IInv'
<1>1. /\ secretAge' = Older(secretAge)
      /\ generator' = IF generator.age < RefreshTime
                      THEN [generator EXCEPT !.age = @ + 1] ELSE Holding(generator, None)
      /\ given' = [a \in Address |-> Older(given[a])]
      /\ UNCHANGED <<queue, worker, address, replies>>
  BY DEF Tick
<1>2. /\ secretAge' \in Age /\ given' \in [Address -> Age]
      /\ \A c \in Address : given[c] <= secretAge => given'[c] <= secretAge'
  BY <1>1, AgeFacts, SMTT(30) DEF IInv, TypeOK
<1>3. generator' \in GeneratorState /\ generator'.cookie \in {generator.cookie, None}
  <2>1. generator \in GeneratorState /\ generator.age \in Age
    BY DEF IInv, TypeOK, GeneratorState
  <2>2. CASE generator.age < RefreshTime
    <3>1. generator.age + 1 \in Age
      BY <2>1, <2>2, AgeFacts DEF Age, Expired
    <3> QED
      BY <1>1, <2>1, <2>2, <3>1 DEF GeneratorState
  <2>3. CASE ~(generator.age < RefreshTime)
    BY <1>1, <2>1, <2>3, HoldingFacts DEF Cookie
  <2> QED
    BY <2>2, <2>3
<1>4. TypeOK'
  BY <1>1, <1>2, <1>3 DEF IInv, TypeOK
<1>5. CookiesRecent'
  BY <1>1, <1>2, <1>3, MessageFacts DEF IInv, CookiesRecent, MessageRecent, Queued
<1> QED
  BY <1>4, <1>5 DEF IInv

-----------------------------------------------------------------------------
(* The theorems.                                                           *)

\* IInv holds in every state of every behaviour.
THEOREM Invariance == Spec => []IInv
<1>1. Init => IInv
  <2> SUFFICES ASSUME Init PROVE IInv
    OBVIOUS
  <2>1. NewGenerator \in GeneratorState /\ NewGenerator.cookie = None
    BY AgeFacts DEF NewGenerator, GeneratorState, Cookie
  <2>2. Idle \in WorkerState /\ Idle.msg = Foreign
    BY MessageFacts DEF Idle, WorkerState, Place
  <2>3. TypeOK
    BY <2>1, <2>2, AgeFacts DEF Init, TypeOK
  <2>4. CookiesRecent
    BY <2>1, <2>2, MessageFacts DEF Init, CookiesRecent, MessageRecent, Queued
  <2> QED
    BY <2>3, <2>4 DEF IInv
<1>2. IInv /\ [Next]_vars => IInv'
  <2> SUFFICES ASSUME IInv, [Next]_vars PROVE IInv'
    OBVIOUS
  <2>1. CASE \E w \in Worker : Routine(w) \/ Limited(w) \/ ReplyFails(w)
    BY <2>1, StepWorker, StepRefresh, StepDerive DEF Routine
  <2>2. CASE ReceiveForeign
    BY <2>2, StepReceiveForeign
  <2>3. CASE LoadPasses \/ SetPrivateKey \/ Ask \/ Roam
    BY <2>3, StepOutside
  <2>4. CASE Send(TRUE) \/ Send(FALSE)
    BY <2>4, StepSend, Zenon
  <2>5. CASE Tick
    BY <2>5, StepTick
  <2>6. CASE \E r \in replies : ConsumeReply(r) \/ LoseReply(r)
    BY <2>6, StepConsumeReply, StepOutside
  <2>7. CASE UNCHANGED vars
    BY <2>7, NoneMade DEF vars, IInv, TypeOK, Queued
  <2> QED
    BY <2>1, <2>2, <2>3, <2>4, <2>5, <2>6, <2>7, Zenon DEF Next
<1> QED
  BY <1>1, <1>2, PTL DEF Spec

\* CheckMAC2 accepts only the cookie of an address for which one was made in the last
\* CookieRefreshTime.
THEOREM CookieIsRecent == Spec => []CookieRecent
<1>1. IInv => CookieRecent
  <2> SUFFICES ASSUME IInv, NEW m \in Pending, m # Foreign, CheckMAC2(m)
               PROVE  given[m.src] <= RefreshTime
    BY DEF CookieRecent
  <2>1. MessageRecent(m) /\ m \in Message
    BY DEF IInv, TypeOK, CookiesRecent, Pending, Queued, Handled, WorkerState
  <2>2. m.src \in Address /\ given[m.src] <= secretAge /\ given[m.src] \in Age
    BY <2>1, MessageFacts DEF MessageRecent, CheckMAC2, IInv, TypeOK
  <2> QED
    BY <2>2, AgeFacts DEF CheckMAC2, IInv, TypeOK
<1> QED
  BY Invariance, <1>1, PTL

-----------------------------------------------------------------------------
(* The rate limiter.                                                       *)

\* Addresses have entries of their own, and a worker looks at an entry that some
\* address had, or has, and no other.
Own ==
    /\ \A a, b \in Source : table[a] = table[b] /\ table[a] # 0 => a = b
    /\ \A w \in Caller, b \in Source :
          entry[w] # 0 /\ table[b] = entry[w] => b = serving[w]

LimiterInv == LimiterTypeOK /\ Own /\ LimiterExact

\* The smaller of two numbers, and its defining property.
LEMMA MinFacts ==
    ASSUME NEW m \in Nat, NEW n \in Nat
    PROVE  /\ Min(m, n) \in Nat /\ Min(m, n) <= m
           /\ Min(m, n) <= n /\ Min(m, n) \in {m, n}
BY DEF Min

\* What an entry holds once it is refilled is at most a full bucket.
LEMMA RefilledType ==
    ASSUME LimiterTypeOK, NEW e \in 1..MaxEntries
    PROVE  Refilled(e) \in 0..MaxTokens
<1>1. tokens[e] \in Nat /\ age[e] \in Nat /\ tokens[e] <= MaxTokens
  BY LimiterAssumption DEF LimiterTypeOK
<1>2. QED
  BY <1>1, LimiterAssumption DEF Refilled, Min

\* At first every bucket is full and nothing is spent.
LEMMA LimiterInitInv ==
    LimiterInit => LimiterInv
BY LimiterAssumption DEF LimiterInit, LimiterInv, LimiterTypeOK, Own,
       LimiterExact, Level

\* Looking up an entry changes nothing but the worker.
LEMMA LookupInv ==
    ASSUME LimiterInv,
           NEW w \in Caller, NEW a \in Source, Lookup(w, a)
    PROVE  LimiterInv'
<1>1. LimiterTypeOK'
  BY LimiterAssumption DEF LimiterInv, LimiterTypeOK, Lookup
<1>2. Own'
  BY DEF LimiterInv, LimiterTypeOK, Own, Lookup
<1>3. LimiterExact'
  BY DEF LimiterInv, LimiterExact, Level, Refilled, Lookup
<1>4. QED
  BY <1>1, <1>2, <1>3 DEF LimiterInv

\* A new entry takes the place of none, or the lookup was out of date.
LEMMA CreateEntryInv ==
    ASSUME LimiterInv, NEW w \in Caller, Create(w)
    PROVE  LimiterInv'
<1> DEFINE a == serving[w]
<1>0. a \in Source
  BY DEF LimiterInv, LimiterTypeOK, Create
<1>1. /\ made \in Nat /\ made + 1 \in 1..MaxEntries /\ made' = made + 1
      /\ tokens' = [tokens EXCEPT ![made + 1] = MaxTokens - PacketCost]
      /\ age' = [age EXCEPT ![made + 1] = 0]
      /\ table' = [table EXCEPT ![a] = made + 1]
      /\ spent' = [spent EXCEPT ![a] = @ + PacketCost]
      /\ outdated' = IF table[a] = 0 THEN outdated ELSE outdated \cup {a}
      /\ serving' = [serving EXCEPT ![w] = Nobody] /\ entry' = entry /\ entry[w] = 0
  BY LimiterAssumption DEF LimiterInv, LimiterTypeOK, Create
<1> HIDE DEF a
<1>2. LimiterTypeOK'
  <2>1. MaxTokens - PacketCost \in 0..MaxTokens /\ 0 \in 0..(GarbageCollectTime + 1)
    BY LimiterAssumption
  <2>2. /\ tokens' \in [1..MaxEntries -> 0..MaxTokens]
        /\ age' \in [1..MaxEntries -> 0..(GarbageCollectTime + 1)]
    BY <1>1, <2>1 DEF LimiterInv, LimiterTypeOK
  <2>3. table' \in [Source -> 0..made'] /\ made' \in 0..MaxEntries
    BY SMTT(30), <1>0, <1>1, LimiterAssumption DEF LimiterInv, LimiterTypeOK
  <2>4. spent' \in [Source -> Nat] /\ outdated' \in SUBSET Source
    <3>1. PacketCost \in Nat /\ spent \in [Source -> Nat] /\ outdated \in SUBSET Source
      BY LimiterAssumption DEF LimiterInv, LimiterTypeOK
    <3>2. QED
      BY <3>1, <1>0, <1>1
  <2>5. /\ serving' \in [Caller -> Source \cup {Nobody}]
        /\ entry' \in [Caller -> 0..made']
        /\ \A v \in Caller : entry'[v] # 0 => serving'[v] # Nobody
    <3>1. /\ serving \in [Caller -> Source \cup {Nobody}] /\ entry \in [Caller -> 0..made]
          /\ \A v \in Caller : entry[v] # 0 => serving[v] # Nobody
      BY DEF LimiterInv, LimiterTypeOK
    <3>2. QED
      BY <3>1, <1>1
  <2>6. QED
    BY <2>2, <2>3, <2>4, <2>5 DEF LimiterTypeOK
<1>3. Own'
  <2>1. \A b \in Source : table[b] # made + 1
    BY <1>1 DEF LimiterInv, LimiterTypeOK
  <2>2. \A v \in Caller : entry[v] # made + 1
    BY <1>1 DEF LimiterInv, LimiterTypeOK
  <2>3. \A v \in Caller : entry'[v] # 0 => entry'[v] = entry[v] /\ serving'[v] = serving[v]
    BY <1>1 DEF LimiterInv, LimiterTypeOK
  <2>4. \A b \in Source : table'[b] = IF b = a THEN made + 1 ELSE table[b]
    BY <1>1 DEF LimiterInv, LimiterTypeOK
  <2>5. QED
    BY <2>1, <2>2, <2>3, <2>4 DEF LimiterInv, Own
<1>4. LimiterExact'
  <2> SUFFICES ASSUME NEW b \in Source, b \notin outdated'
               PROVE  (Level(b) + spent[b] = MaxTokens)'
    BY DEF LimiterExact
  <2>1. b \notin outdated /\ Level(b) + spent[b] = MaxTokens
    BY <1>1 DEF LimiterInv, LimiterExact
  <2>2. CASE b = a
    <3>1. table[a] = 0 /\ spent[a] = 0
      BY <1>0, <1>1, <2>1, <2>2, LimiterAssumption
         DEF Level, LimiterInv, LimiterTypeOK
    <3>2. table'[a] = made + 1 /\ spent'[a] = PacketCost
      BY <1>0, <1>1, <3>1, LimiterAssumption DEF LimiterInv, LimiterTypeOK
    <3>3. tokens'[made + 1] = MaxTokens - PacketCost /\ age'[made + 1] = 0
      BY <1>1 DEF LimiterInv, LimiterTypeOK
    <3>4. (Level(b))' = Min(tokens'[made + 1] + age'[made + 1], MaxTokens)
      <4>1. table'[b] = made + 1 /\ made + 1 # 0
        BY <2>2, <3>2, <1>1
      <4>2. QED
        BY <4>1 DEF Level, Refilled
    <3>5. MaxTokens \in Nat /\ PacketCost \in Nat /\ PacketCost <= MaxTokens
      BY LimiterAssumption
    <3>6. QED
      BY <3>2, <3>3, <3>4, <3>5, <2>2 DEF Min
  <2>3. CASE b # a
    <3>1. table'[b] = table[b] /\ spent'[b] = spent[b]
      BY <1>1, <2>3 DEF LimiterInv, LimiterTypeOK
    <3>2. table[b] # 0 => tokens'[table[b]] = tokens[table[b]] /\ age'[table[b]] = age[table[b]]
      BY <1>1 DEF LimiterInv, LimiterTypeOK
    <3>3. QED
      BY <2>1, <3>1, <3>2 DEF Level, Refilled
  <2>4. QED
    BY <2>2, <2>3
<1>5. QED
  BY <1>2, <1>3, <1>4 DEF LimiterInv

\* Taking from the entry of an address is accounted to that address; taking from another
\* entry is what a lookup that is out of date does.
LEMMA TakeTokensInv ==
    ASSUME LimiterInv, NEW w \in Caller, TakeTokens(w)
    PROVE  LimiterInv'
<1> DEFINE a == serving[w]
           e == entry[w]
           allowed == Refilled(e) > PacketCost
           left == IF allowed THEN Refilled(e) - PacketCost ELSE Refilled(e)
<1>0. a \in Source /\ e \in 1..made /\ e \in 1..MaxEntries
  BY SMTT(30), LimiterAssumption DEF LimiterInv, LimiterTypeOK, TakeTokens
<1>1. /\ tokens' = [tokens EXCEPT ![e] = left] /\ age' = [age EXCEPT ![e] = 0]
      /\ spent' = IF allowed THEN [spent EXCEPT ![a] = @ + PacketCost] ELSE spent
      /\ outdated' = IF allowed /\ table[a] # e THEN outdated \cup {a} ELSE outdated
      /\ serving' = [serving EXCEPT ![w] = Nobody] /\ entry' = [entry EXCEPT ![w] = 0]
      /\ table' = table /\ made' = made
  BY DEF TakeTokens
<1>2. Refilled(e) \in 0..MaxTokens /\ left \in 0..MaxTokens
  <2>1. Refilled(e) \in 0..MaxTokens
    BY <1>0, RefilledType DEF LimiterInv
  <2> HIDE DEF e
  <2>2. QED
    BY <2>1, LimiterAssumption
<1>3. LimiterTypeOK'
  <2>1. /\ tokens' \in [1..MaxEntries -> 0..MaxTokens]
        /\ age' \in [1..MaxEntries -> 0..(GarbageCollectTime + 1)]
    BY SMTT(30), <1>0, <1>1, <1>2, LimiterAssumption DEF LimiterInv, LimiterTypeOK
  <2>2. spent' \in [Source -> Nat] /\ outdated' \in SUBSET Source
    <3>1. PacketCost \in Nat /\ spent \in [Source -> Nat] /\ outdated \in SUBSET Source
      BY LimiterAssumption DEF LimiterInv, LimiterTypeOK
    <3> HIDE DEF a, e, allowed
    <3>2. QED
      BY <3>1, <1>0, <1>1
  <2>3. /\ serving' \in [Caller -> Source \cup {Nobody}]
        /\ entry' \in [Caller -> 0..made']
        /\ \A v \in Caller : entry'[v] # 0 => serving'[v] # Nobody
    BY <1>1 DEF LimiterInv, LimiterTypeOK
  <2>4. QED
    BY <1>1, <2>1, <2>2, <2>3 DEF LimiterInv, LimiterTypeOK
<1>4. Own'
  <2>1. \A v \in Caller : entry'[v] # 0 => entry'[v] = entry[v] /\ serving'[v] = serving[v]
    BY <1>1 DEF LimiterInv, LimiterTypeOK
  <2>2. QED
    BY <1>1, <2>1 DEF LimiterInv, Own
<1>5. LimiterExact'
  <2> SUFFICES ASSUME NEW b \in Source, b \notin outdated'
               PROVE  (Level(b) + spent[b] = MaxTokens)'
    BY DEF LimiterExact
  <2>1. b \notin outdated /\ Level(b) + spent[b] = MaxTokens
    BY <1>1 DEF LimiterInv, LimiterExact
  <2>2. CASE table[b] = e
    <3>1. b = a /\ table[a] = e /\ table[a] # 0
      BY <1>0, <2>2 DEF LimiterInv, Own
    <3>2. tokens'[table[b]] = left /\ age'[table[b]] = 0
      BY <1>0, <1>1, <2>2 DEF LimiterInv, LimiterTypeOK
    <3>3. (Level(b))' = Min(tokens'[table[b]] + age'[table[b]], MaxTokens)
      BY <3>1, <1>1 DEF Level, Refilled
    <3>4. (Level(b))' = left
      <4>1. MaxTokens \in Nat
        BY LimiterAssumption
      <4> HIDE DEF left
      <4>2. QED
        BY <4>1, <3>2, <3>3, <1>2 DEF Min
    <3>5. spent'[b] = IF allowed THEN spent[b] + PacketCost ELSE spent[b]
      BY <3>1, <1>0, <1>1 DEF LimiterInv, LimiterTypeOK
    <3>6. Level(b) = Refilled(e)
      BY <3>1 DEF Level
    <3>7. spent[b] \in Nat
      BY <1>0, <3>1 DEF LimiterInv, LimiterTypeOK
    <3>8. QED
      BY <3>4, <3>5, <3>6, <3>7, <2>1, <1>1, <1>2, LimiterAssumption
  <2>3. CASE table[b] # e
    <3>1. spent'[b] = spent[b]
      BY <1>0, <1>1, <2>3 DEF LimiterInv, LimiterTypeOK
    <3>2. table[b] # 0 => tokens'[table[b]] = tokens[table[b]] /\ age'[table[b]] = age[table[b]]
      BY <1>0, <1>1, <2>3 DEF LimiterInv, LimiterTypeOK
    <3>3. QED
      BY <2>1, <3>1, <3>2, <1>1 DEF Level, Refilled
  <2>4. QED
    BY <2>2, <2>3
<1>6. QED
  BY <1>3, <1>4, <1>5 DEF LimiterInv

\* A bucket that is collected is full: it has been idle for longer than it takes to fill.
LEMMA CollectInv ==
    ASSUME LimiterInv, CollectGarbage
    PROVE  LimiterInv'
<1>1. LimiterTypeOK' /\ Own'
  BY SMTT(30), LimiterAssumption DEF LimiterInv, LimiterTypeOK, Own, CollectGarbage
<1>2. LimiterExact'
  <2> SUFFICES ASSUME NEW b \in Source, b \notin outdated'
               PROVE  (Level(b) + spent[b] = MaxTokens)'
    BY DEF LimiterExact
  <2>1. /\ Level(b) + spent[b] = MaxTokens
        /\ tokens' = tokens /\ age' = age /\ spent' = spent
        /\ table'[b] = IF table[b] # 0 /\ age[table[b]] > GarbageCollectTime
                       THEN 0 ELSE table[b]
    BY DEF LimiterInv, LimiterExact, CollectGarbage
  <2>2. CASE table[b] # 0 /\ age[table[b]] > GarbageCollectTime
    <3>1. table[b] \in 1..MaxEntries
      BY <2>2, LimiterAssumption DEF LimiterInv, LimiterTypeOK
    <3>2. tokens[table[b]] \in Nat /\ age[table[b]] \in Nat
      BY <3>1, LimiterAssumption DEF LimiterInv, LimiterTypeOK
    <3>3. Refilled(table[b]) = MaxTokens
      BY <2>2, <3>2, LimiterAssumption DEF Refilled, Min
    <3>4. QED
      BY <2>1, <2>2, <3>3 DEF Level
  <2>3. CASE ~(table[b] # 0 /\ age[table[b]] > GarbageCollectTime)
    BY <2>1, <2>3 DEF Level, Refilled
  <2>4. QED
    BY <2>2, <2>3
<1>3. QED
  BY <1>1, <1>2 DEF LimiterInv

\* A tick gives back one token to every bucket that is not full.
LEMMA LimiterTickInv ==
    ASSUME LimiterInv, TimePasses
    PROVE  LimiterInv'
<1>1. LimiterTypeOK'
  <2>1. \A e \in 1..MaxEntries :
           Min(age[e] + 1, GarbageCollectTime + 1) \in 0..(GarbageCollectTime + 1)
    BY LimiterAssumption DEF LimiterInv, LimiterTypeOK, Min
  <2>2. age' \in [1..MaxEntries -> 0..(GarbageCollectTime + 1)]
    BY <2>1 DEF TimePasses
  <2>3. spent' \in [Source -> Nat]
    <3>1. /\ spent \in [Source -> Nat]
          /\ spent' = [a \in Source |-> IF spent[a] = 0 THEN 0 ELSE spent[a] - 1]
      BY DEF LimiterInv, LimiterTypeOK, TimePasses
    <3>2. QED
      BY <3>1, SMT
  <2>4. QED
    BY <2>2, <2>3 DEF LimiterInv, LimiterTypeOK, TimePasses
<1>2. Own'
  BY DEF LimiterInv, Own, TimePasses
<1>3. LimiterExact'
  <2> SUFFICES ASSUME NEW b \in Source, b \notin outdated'
               PROVE  (Level(b) + spent[b] = MaxTokens)'
    BY DEF LimiterExact
  <2>1. /\ Level(b) + spent[b] = MaxTokens /\ spent[b] \in Nat
        /\ spent'[b] = IF spent[b] = 0 THEN 0 ELSE spent[b] - 1
        /\ table' = table
    BY DEF LimiterInv, LimiterTypeOK, LimiterExact, TimePasses
  <2>2. CASE table[b] = 0
    BY <2>1, <2>2, LimiterAssumption DEF Level
  <2>3. CASE table[b] # 0
    <3> DEFINE e == table[b]
    <3>1. e \in 1..MaxEntries
      BY <2>3, LimiterAssumption DEF LimiterInv, LimiterTypeOK
    <3>2. tokens[e] \in 0..MaxTokens /\ age[e] \in 0..(GarbageCollectTime + 1)
      BY <3>1 DEF LimiterInv, LimiterTypeOK
    <3>3. tokens' = tokens /\ age'[e] = Min(age[e] + 1, GarbageCollectTime + 1)
      BY <3>1 DEF LimiterInv, LimiterTypeOK, TimePasses
    <3>4. (Refilled(e))' = Min(Refilled(e) + 1, MaxTokens)
      BY <3>2, <3>3, <2>1, LimiterAssumption DEF Refilled, Min
    <3>5. Refilled(e) \in 0..MaxTokens
      BY <3>1, RefilledType DEF LimiterInv
    <3>6. Level(b) = Refilled(e) /\ (Level(b))' = (Refilled(e))'
      BY <2>1, <2>3 DEF Level, Refilled
    <3>7. QED
      BY <3>4, <3>5, <3>6, <2>1, LimiterAssumption DEF Min
  <2>4. QED
    BY <2>2, <2>3
<1>4. QED
  BY <1>1, <1>2, <1>3 DEF LimiterInv

\* The invariant is inductive.
LEMMA LimiterStepInv ==
    ASSUME LimiterInv, [LimiterNext]_limiterVars
    PROVE  LimiterInv'
<1>1. CASE UNCHANGED limiterVars
  BY <1>1 DEF limiterVars, LimiterInv, LimiterTypeOK, Own, LimiterExact, Level, Refilled
<1>2. CASE LimiterNext
  BY <1>2, LookupInv, CreateEntryInv, TakeTokensInv, CollectInv, LimiterTickInv DEF LimiterNext
<1>3. QED
  BY <1>1, <1>2

\* An address none of whose packets was served after a lookup that was out of date gets
\* neither more nor less than its rate.
THEOREM LimiterAlwaysExact == LimiterSpec => []LimiterExact
<1>1. LimiterInit => LimiterInv
  BY LimiterInitInv
<1>2. LimiterInv /\ [LimiterNext]_limiterVars => LimiterInv'
  BY LimiterStepInv
<1>3. LimiterInv => LimiterExact
  BY DEF LimiterInv
<1>4. QED
  BY <1>1, <1>2, <1>3, PTL DEF LimiterSpec

\* An entry made for an address starts with what the packet leaves of a full bucket.
LEMMA CreateStrict ==
    ASSUME LimiterInv, NeverStricter, NEW w \in Caller, Create(w)
    PROVE  NeverStricter'
<1> DEFINE a == serving[w]
<1>0. a \in Source
  BY DEF LimiterInv, LimiterTypeOK, Create
<1>1. /\ made \in Nat /\ made + 1 \in 1..MaxEntries
      /\ tokens' = [tokens EXCEPT ![made + 1] = MaxTokens - PacketCost]
      /\ age' = [age EXCEPT ![made + 1] = 0]
      /\ table' = [table EXCEPT ![a] = made + 1]
      /\ spent' = [spent EXCEPT ![a] = @ + PacketCost]
  BY LimiterAssumption DEF LimiterInv, LimiterTypeOK, Create
<1> HIDE DEF a
<1> SUFFICES ASSUME NEW b \in Source
             PROVE  (Level(b) + spent[b] >= MaxTokens)'
  BY DEF NeverStricter
<1>2. CASE b = a
  <2>1. table'[b] = made + 1 /\ spent'[b] = spent[b] + PacketCost /\ spent[b] \in Nat
    BY <1>0, <1>1, <1>2 DEF LimiterInv, LimiterTypeOK
  <2>2. tokens'[made + 1] = MaxTokens - PacketCost /\ age'[made + 1] = 0
    BY <1>1 DEF LimiterInv, LimiterTypeOK
  <2>3. (Level(b))' = Min(tokens'[made + 1] + age'[made + 1], MaxTokens)
    <3>1. table'[b] = made + 1 /\ made + 1 # 0
      BY <2>1, <1>1
    <3>2. QED
      BY <3>1 DEF Level, Refilled
  <2>4. QED
    BY <2>1, <2>2, <2>3, LimiterAssumption DEF Min
<1>3. CASE b # a
  <2>1. table'[b] = table[b] /\ spent'[b] = spent[b]
    BY <1>1, <1>3 DEF LimiterInv, LimiterTypeOK
  <2>2. table[b] # 0 => tokens'[table[b]] = tokens[table[b]] /\ age'[table[b]] = age[table[b]]
    BY <1>1 DEF LimiterInv, LimiterTypeOK
  <2>3. QED
    BY <2>1, <2>2 DEF NeverStricter, Level, Refilled
<1>4. QED
  BY <1>2, <1>3

\* A packet is charged to one entry, and only when it is allowed.
LEMMA TakeTokensStrict ==
    ASSUME LimiterInv, NeverStricter, NEW w \in Caller, TakeTokens(w)
    PROVE  NeverStricter'
<1> DEFINE a == serving[w]
           e == entry[w]
           allowed == Refilled(e) > PacketCost
           left == IF allowed THEN Refilled(e) - PacketCost ELSE Refilled(e)
<1>0. a \in Source /\ e \in 1..made /\ e \in 1..MaxEntries
  BY SMTT(30), LimiterAssumption DEF LimiterInv, LimiterTypeOK, TakeTokens
<1>1. /\ tokens' = [tokens EXCEPT ![e] = left] /\ age' = [age EXCEPT ![e] = 0]
      /\ spent' = IF allowed THEN [spent EXCEPT ![a] = @ + PacketCost] ELSE spent
      /\ table' = table
  BY DEF TakeTokens
<1>2. Refilled(e) \in 0..MaxTokens /\ left \in 0..MaxTokens
  <2>1. Refilled(e) \in 0..MaxTokens
    BY <1>0, RefilledType DEF LimiterInv
  <2> HIDE DEF e
  <2>2. QED
    BY <2>1, LimiterAssumption
<1> SUFFICES ASSUME NEW b \in Source
             PROVE  (Level(b) + spent[b] >= MaxTokens)'
  BY DEF NeverStricter
<1>3. Level(b) + spent[b] >= MaxTokens /\ spent[b] \in Nat
  BY DEF NeverStricter, LimiterInv, LimiterTypeOK
<1>4. CASE table[b] = e
  <2>1. b = a /\ table[a] = e /\ table[a] # 0
    BY <1>0, <1>4 DEF LimiterInv, Own
  <2>2. tokens'[table[b]] = left /\ age'[table[b]] = 0
    BY <1>0, <1>1, <1>4 DEF LimiterInv, LimiterTypeOK
  <2>3. (Level(b))' = Min(tokens'[table[b]] + age'[table[b]], MaxTokens)
    BY <2>1, <1>1 DEF Level, Refilled
  <2>4. (Level(b))' = left
    <3>1. MaxTokens \in Nat
      BY LimiterAssumption
    <3> HIDE DEF left
    <3>2. QED
      BY <3>1, <2>2, <2>3, <1>2 DEF Min
  <2>5. spent'[b] = IF allowed THEN spent[b] + PacketCost ELSE spent[b]
    BY <2>1, <1>0, <1>1 DEF LimiterInv, LimiterTypeOK
  <2>6. Level(b) = Refilled(e)
    BY <2>1 DEF Level
  <2>7. QED
    BY <2>4, <2>5, <2>6, <1>3, <1>2, LimiterAssumption
<1>5. CASE table[b] # e
  <2>1. spent'[b] \in {spent[b], spent[b] + PacketCost}
    BY <1>0, <1>1 DEF LimiterInv, LimiterTypeOK
  <2>2. table[b] # 0 => tokens'[table[b]] = tokens[table[b]] /\ age'[table[b]] = age[table[b]]
    BY <1>0, <1>1, <1>5 DEF LimiterInv, LimiterTypeOK
  <2>3. (Level(b))' = Level(b)
    BY <2>2, <1>1 DEF Level, Refilled
  <2>4. Level(b) \in Nat
    <3>1. table[b] # 0 => table[b] \in 1..MaxEntries
      BY LimiterAssumption DEF LimiterInv, LimiterTypeOK
    <3>2. QED
      BY <3>1, RefilledType, LimiterAssumption DEF Level, LimiterInv
  <2>5. QED
    BY <2>1, <2>3, <2>4, <1>3, LimiterAssumption
<1>6. QED
  BY <1>4, <1>5

\* Collecting a bucket forgets none of its tokens: it is full.
LEMMA CollectStrict ==
    ASSUME LimiterInv, NeverStricter, CollectGarbage
    PROVE  NeverStricter'
<1> SUFFICES ASSUME NEW b \in Source
             PROVE  (Level(b) + spent[b] >= MaxTokens)'
  BY DEF NeverStricter
<1>1. /\ Level(b) + spent[b] >= MaxTokens /\ spent[b] \in Nat
      /\ tokens' = tokens /\ age' = age /\ spent' = spent
      /\ table'[b] \in {0, table[b]}
  BY DEF LimiterInv, LimiterTypeOK, NeverStricter, CollectGarbage
<1>2. CASE table'[b] = 0
  BY <1>1, <1>2, LimiterAssumption DEF Level
<1>3. CASE table'[b] = table[b]
  BY <1>1, <1>3 DEF Level, Refilled
<1>4. QED
  BY <1>1, <1>2, <1>3

\* A tick gives a bucket that is not full the token that it takes off what was spent.
LEMMA LimiterTickStrict ==
    ASSUME LimiterInv, NeverStricter, TimePasses
    PROVE  NeverStricter'
<1> SUFFICES ASSUME NEW b \in Source
             PROVE  (Level(b) + spent[b] >= MaxTokens)'
  BY DEF NeverStricter
<1>1. /\ Level(b) + spent[b] >= MaxTokens /\ spent[b] \in Nat
      /\ spent'[b] = IF spent[b] = 0 THEN 0 ELSE spent[b] - 1
      /\ table' = table
  BY DEF LimiterInv, LimiterTypeOK, NeverStricter, TimePasses
<1>2. CASE table[b] = 0
  BY <1>1, <1>2, LimiterAssumption DEF Level
<1>3. CASE table[b] # 0
  <2> DEFINE e == table[b]
  <2>1. e \in 1..MaxEntries
    BY <1>3, LimiterAssumption DEF LimiterInv, LimiterTypeOK
  <2>2. tokens[e] \in 0..MaxTokens /\ age[e] \in 0..(GarbageCollectTime + 1)
    BY <2>1 DEF LimiterInv, LimiterTypeOK
  <2>3. tokens' = tokens /\ age'[e] = Min(age[e] + 1, GarbageCollectTime + 1)
    BY <2>1 DEF LimiterInv, LimiterTypeOK, TimePasses
  <2>4. (Refilled(e))' = Min(Refilled(e) + 1, MaxTokens)
    BY <2>2, <2>3, <1>1, LimiterAssumption DEF Refilled, Min
  <2>5. Refilled(e) \in 0..MaxTokens
    BY <2>1, RefilledType DEF LimiterInv
  <2>6. Level(b) = Refilled(e) /\ (Level(b))' = (Refilled(e))'
    BY <1>1, <1>3 DEF Level, Refilled
  <2>7. QED
    BY <2>4, <2>5, <2>6, <1>1, LimiterAssumption DEF Min
<1>4. QED
  BY <1>2, <1>3

\* The property depends on the table, the entries and the packets alone.
LEMMA UntouchedStrict ==
    ASSUME NeverStricter, table' = table, tokens' = tokens, age' = age, spent' = spent
    PROVE  NeverStricter'
<1> SUFFICES ASSUME NEW b \in Source
             PROVE  (Level(b) + spent[b] >= MaxTokens)'
  BY DEF NeverStricter
<1>1. (Level(b))' = Level(b)
  BY DEF Level, Refilled
<1>2. Level(b) + spent[b] >= MaxTokens
  BY DEF NeverStricter
<1>3. QED
  BY <1>1, <1>2

\* However many workers use the limiter at once, and whatever they found before entries
\* were replaced or collected, no address is refused below its rate.
THEOREM LimiterNeverStricter == LimiterSpec => []NeverStricter
<1>1. LimiterInit => LimiterInv /\ NeverStricter
  <2>1. LimiterInit => LimiterInv
    BY LimiterInitInv
  <2>2. LimiterInit => NeverStricter
    BY LimiterAssumption DEF LimiterInit, NeverStricter, Level
  <2>3. QED
    BY <2>1, <2>2
<1>2. LimiterInv /\ NeverStricter /\ [LimiterNext]_limiterVars => (LimiterInv /\ NeverStricter)'
  <2> SUFFICES ASSUME LimiterInv, NeverStricter, [LimiterNext]_limiterVars
               PROVE  LimiterInv' /\ NeverStricter'
    OBVIOUS
  <2>1. LimiterInv'
    BY LimiterStepInv
  <2>2. CASE UNCHANGED limiterVars
    BY <2>1, <2>2, UntouchedStrict DEF limiterVars
  <2>3. ASSUME NEW w \in Caller, NEW a \in Source, Lookup(w, a) PROVE NeverStricter'
    BY <2>3, UntouchedStrict DEF Lookup
  <2>4. CASE LimiterNext
    BY <2>4, <2>1, <2>3, CreateStrict, TakeTokensStrict, CollectStrict, LimiterTickStrict
       DEF LimiterNext
  <2>5. QED
    BY <2>1, <2>2, <2>4
<1>3. QED
  BY <1>1, <1>2, PTL DEF LimiterSpec
=============================================================================
