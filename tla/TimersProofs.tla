---------------------------- MODULE TimersProofs ----------------------------
(***************************************************************************)
(* Proofs about the timers of a peer, for any number of attempts at a      *)
(* handshake, any size of the queues and any number of events.             *)
(*                                                                         *)
(* KeysTimed and StoppedSilent are inductive together with the types, with *)
(* which a timer that is ripe is armed, so that none fires that was        *)
(* stopped.  The invariant also holds the state halves of three liveness   *)
(* properties: whoever waits for something to be sent, received or         *)
(* negotiated has a timer that is set, or somebody who is about to act.    *)
(* Del and Mod are each done in two halves by one routine while another    *)
(* may act in between, so that Unheard and Answering are stated with       *)
(* isPending and with the place the routine is at.                         *)
(***************************************************************************)
EXTENDS Timers, TLAPS

USE TimersAssumption, Zenon

-----------------------------------------------------------------------------
(* The inductive invariant.                                                *)

Packet == {"data", "keepalive"}

\* peer.timers.  Attempts at a handshake are counted up to the one that gives up.
TimersState ==
    [armed : SUBSET Timer, ripe : SUBSET Timer, pending : SUBSET Timer,
     attempts : 0 .. MaxTimerHandshakes + 1, needAnother : BOOLEAN, lastMinute : BOOLEAN,
     recent : {"no", "initiation", "response"}, early : BOOLEAN]

NonceState ==
    [at : {"next", "await", "select"}, elem : Packet \cup {"none"},
     awaiting : BOOLEAN, stranded : BOOLEAN]

KeyPairs ==
    [current : {"none", "fresh", "old", "expired", "stale"}, isInitiator : BOOLEAN,
     next : BOOLEAN, young : BOOLEAN]

\* The types of the variables.
TypeOK ==
    /\ life \in {"up", "stopping", "down", "crashed"}
    /\ timers \in TimersState
    /\ firing \subseteq {"sendKeepalive", "persistentKeepalive"}
    /\ keyPairs \in KeyPairs
    /\ queue \in Seq(Packet) /\ outbound \in Seq(Packet)
    /\ nonce \in NonceState
    /\ sender \in {"next", "stop"}
    /\ receiver \in {"next", "data", "keepalive", "reset"}

\* A timer that is ripe is armed, in the value t of peer.timers.
Sound(t) == t \in TimersState /\ t.ripe \subseteq t.armed

\* There are keys only with the timer that destroys them.
Keys ==
    keyPairs.current # "none" \/ keyPairs.next =>
        "zeroKeyMaterial" \in timers.armed \/ life = "stopping" \/ "lateKey" \in faults

\* timersStop leaves nothing that may set a timer again, or run a callback.
Silent ==
    life # "up" /\ "late" \notin faults =>
        life # "crashed" /\ timers.armed = {} /\ firing = {}

\* RoutineNonce waits only with an element that it holds.
Awaiting == nonce.at # "next" \/ nonce.awaiting => nonce.at # "next" /\ nonce.elem \in Packet

\* A packet that waits for a key pair is never forgotten: as long as RoutineNonce waits,
\* the next attempt at a handshake is timed, or a signal that wakes it is there.
WaitIsTimed ==
    life = "up" /\ Waiting /\ ~nonce.stranded =>
        "retransmitHandshake" \in timers.armed \/ signals # {}

\* As long as the peer has not been heard of since data was sent, newHandshake is pending,
\* or the sender is about to set it.
Unheard == life = "up" /\ unheard => sender = "stop" \/ "newHandshake" \in timers.pending

\* A packet is on its way from the nonce queue to the socket.
OnItsWay == queue # <<>> \/ nonce.at # "next" \/ outbound # <<>>

\* As long as data has to be answered, sendKeepalive is pending or has expired, or there
\* is a packet on its way.
Answering ==
    life = "up" /\ owed =>
        \/ "sendKeepalive" \in timers.pending \cup firing
        \/ OnItsWay \/ "failed" \in faults

IInv ==
    /\ TypeOK /\ Sound(timers) /\ Keys /\ Silent
    /\ Awaiting /\ WaitIsTimed /\ Unheard /\ Answering

-----------------------------------------------------------------------------
(* What the operations on timers do.                                       *)

\* At most timers of X are stopped.
Keeps(t, u, X) == Sound(u) /\ t.armed \ X \subseteq u.armed /\ t.pending \ X \subseteq u.pending

\* No timer is set or stopped.
Same(t, u) == Sound(u) /\ u.armed = t.armed /\ u.pending = t.pending

\* Timer.Mod sets the timer, to fire later.
LEMMA ModFacts ==
    ASSUME NEW t, Sound(t), NEW x \in Timer
    PROVE  /\ Keeps(t, Mod(t, x), {})
           /\ x \in Mod(t, x).armed /\ x \in Mod(t, x).pending
BY DEF Sound, Keeps, TimersState, Mod, Reset, Pending

\* Timer.Del stops the timer.
LEMMA DelFacts ==
    ASSUME NEW t, Sound(t), NEW x \in Timer
    PROVE  /\ Keeps(t, Del(t, x), {x}) /\ Del(t, x).armed \subseteq t.armed
           /\ Del(t, x).attempts = t.attempts /\ Del(t, x).recent = t.recent
BY DEF Sound, Keeps, TimersState, Del, Stop, NotPending

\* The halves of Timer.Mod and Timer.Del.
LEMMA HalfFacts ==
    ASSUME NEW t, Sound(t), NEW x \in Timer
    PROVE  /\ Keeps(t, Pending(t, x), {}) /\ Pending(t, x).armed = t.armed
           /\ x \in Pending(t, x).pending
           /\ Keeps(t, NotPending(t, x), {x}) /\ NotPending(t, x).armed = t.armed
           /\ Keeps(t, Reset(t, x), {}) /\ Reset(t, x).pending = t.pending
           /\ Keeps(t, Stop(t, x), {x}) /\ Stop(t, x).pending = t.pending
           /\ Stop(t, x).armed \subseteq t.armed
BY DEF Sound, Keeps, TimersState, Reset, Stop, Pending, NotPending

\* A field of the record that is no set of timers.
LEMMA FieldFacts ==
    ASSUME NEW t, Sound(t)
    PROVE  /\ \A r \in {"no", "initiation", "response"} :
                 LET u == [t EXCEPT !.recent = r] IN
                 Sound(u) /\ u.armed = t.armed /\ u.ripe = t.ripe /\ u.pending = t.pending
           /\ \A n \in 0 .. MaxTimerHandshakes + 1 :
                 LET u == [t EXCEPT !.attempts = n] IN
                 /\ Sound(u) /\ u.armed = t.armed /\ u.ripe = t.ripe /\ u.pending = t.pending
                 /\ u.recent = t.recent
           /\ \A b \in BOOLEAN :
                 LET u == [t EXCEPT !.lastMinute = b] IN
                 /\ Sound(u) /\ u.armed = t.armed /\ u.ripe = t.ripe /\ u.pending = t.pending
                 /\ u.recent = t.recent
           /\ \A b \in BOOLEAN :
                 LET u == [t EXCEPT !.needAnother = b] IN
                 /\ Sound(u) /\ u.armed = t.armed /\ u.ripe = t.ripe /\ u.pending = t.pending
                 /\ u.recent = t.recent
           /\ \A b \in BOOLEAN :
                 LET u == [t EXCEPT !.early = b] IN
                 Sound(u) /\ u.armed = t.armed /\ u.ripe = t.ripe /\ u.pending = t.pending
BY DEF Sound, TimersState

\* timersHandshakeInitiated times the retransmission, and stops sendKeepalive at most.
LEMMA HandshakeInitiatedFacts ==
    ASSUME NEW t, Sound(t)
    PROVE  LET u == timersHandshakeInitiated(t) IN
           /\ Keeps(t, u, {"sendKeepalive"})
           /\ timersActive => "retransmitHandshake" \in u.armed
           /\ ~timersActive => u = t
<1> DEFINE d == Del(t, "sendKeepalive")
<1>0. "sendKeepalive" \in Timer /\ "retransmitHandshake" \in Timer
  BY DEF Timer
<1>1. Keeps(t, d, {"sendKeepalive"})
  BY <1>0, DelFacts
<1>2. Sound(d)
  BY <1>1 DEF Keeps
<1> HIDE DEF d
<1>3. /\ Keeps(d, Mod(d, "retransmitHandshake"), {})
      /\ "retransmitHandshake" \in Mod(d, "retransmitHandshake").armed
  BY <1>0, <1>2, ModFacts
<1>4. CASE timersActive
  <2> DEFINE m == Mod(d, "retransmitHandshake")
             u == timersHandshakeInitiated(t)
  <2>1. u = [m EXCEPT !.early = @ \/ interval = "off"]
    BY <1>4 DEF timersHandshakeInitiated, d
  <2>2. Sound(m) /\ (m.early \/ interval = "off") \in BOOLEAN
    BY <1>3 DEF Keeps
  <2> HIDE DEF m
  <2>3. Sound(u) /\ u.armed = m.armed /\ u.pending = m.pending
    BY <2>1, <2>2, FieldFacts
  <2> QED
    BY <1>1, <1>3, <1>4, <2>3 DEF Keeps, m
<1>5. CASE ~timersActive
  BY <1>5 DEF timersHandshakeInitiated, Keeps
<1> QED
  BY <1>4, <1>5

\* timersHandshakeComplete stops the retransmission at most.
LEMMA HandshakeCompleteFacts ==
    ASSUME NEW t, Sound(t)
    PROVE  LET u == timersHandshakeComplete(t) IN
           /\ Keeps(t, u, {"retransmitHandshake"})
           /\ ~timersActive => Same(t, u)
<1> DEFINE d == IF timersActive THEN Del(t, "retransmitHandshake") ELSE t
           u == timersHandshakeComplete(t)
<1>1. Keeps(t, d, {"retransmitHandshake"}) /\ (~timersActive => d = t)
  BY DelFacts DEF Timer, Keeps
<1>2. u = [d EXCEPT !.attempts = 0, !.lastMinute = FALSE]
  BY DEF timersHandshakeComplete
<1> HIDE DEF d, u
<1>3. Sound(u) /\ u.armed = d.armed /\ u.pending = d.pending
  <2>1. 0 \in 0 .. MaxTimerHandshakes + 1
    BY SMT
  <2> QED
    BY <1>1, <1>2, <2>1 DEF Keeps, Sound, TimersState
<1>4. QED
  BY <1>1, <1>3 DEF Keeps, Same, u

\* timersSessionDerived times the end of the new keys.
LEMMA SessionDerivedFacts ==
    ASSUME NEW t, Sound(t)
    PROVE  LET u == timersSessionDerived(t) IN
           /\ Keeps(t, u, {})
           /\ timersActive => "zeroKeyMaterial" \in u.armed
           /\ ~timersActive => u = t
BY ModFacts DEF timersSessionDerived, Timer, Keeps

\* timersAnyAuthenticatedPacketTraversal stops nothing.
LEMMA TraversalFacts ==
    ASSUME NEW t, Sound(t)
    PROVE  LET u == timersAnyAuthenticatedPacketTraversal(t) IN
           Keeps(t, u, {}) /\ (~timersActive => u = t)
<1> DEFINE m == Mod(t, "persistentKeepalive")
           u == timersAnyAuthenticatedPacketTraversal(t)
           r == IF interval = "short" THEN m.ripe \cup {"persistentKeepalive"} ELSE m.ripe
<1>1. "persistentKeepalive" \in Timer
  BY DEF Timer
<1>2. Keeps(t, m, {}) /\ "persistentKeepalive" \in m.armed
  BY <1>1, ModFacts
<1>3. CASE interval # "off" /\ timersActive
  <2>1. u = [m EXCEPT !.ripe = r, !.early = interval = "short"]
    BY <1>3 DEF timersAnyAuthenticatedPacketTraversal
  <2>2. Sound(m)
    BY <1>2 DEF Keeps
  <2> HIDE DEF m, u
  <2>3. r \subseteq m.armed /\ r \in SUBSET Timer
    BY <1>1, <1>2, <2>2 DEF Sound, TimersState
  <2> HIDE DEF r
  <2>4. Sound(u) /\ u.armed = m.armed /\ u.pending = m.pending
    BY <2>1, <2>2, <2>3 DEF Sound, TimersState
  <2> QED
    BY <1>2, <1>3, <2>4 DEF Keeps, u
<1>4. CASE ~(interval # "off" /\ timersActive)
  BY <1>4 DEF timersAnyAuthenticatedPacketTraversal, Keeps
<1> QED
  BY <1>3, <1>4

\* timersAnyAuthenticatedPacketReceived stops newHandshake at most.
LEMMA AuthenticatedFacts ==
    ASSUME NEW t, Sound(t)
    PROVE  LET u == timersAnyAuthenticatedPacketReceived(t) IN
           Keeps(t, u, {"newHandshake"}) /\ (~timersActive => u = t)
BY DelFacts DEF timersAnyAuthenticatedPacketReceived, Timer, Keeps

\* SendHandshakeInitiation touches three timers; if it sends one, the retransmission of it
\* is timed, and otherwise (one was sent lately, or there is an error) no timer is changed.
LEMMA InitiationFacts ==
    ASSUME NEW t, Sound(t), NEW isRetry \in BOOLEAN
    PROVE  LET u == SendHandshakeInitiation(t, isRetry) IN
           /\ Keeps(t, u, {"sendKeepalive"})
           /\ Initiates(t) /\ timersActive => "retransmitHandshake" \in u.armed
           /\ ~Initiates(t) \/ ~timersActive => Same(t, u)
<1> DEFINE r == IF isRetry THEN t ELSE [t EXCEPT !.attempts = 0]
           s == IF t.recent = "no" THEN [r EXCEPT !.recent = "initiation"] ELSE r
           v == timersAnyAuthenticatedPacketTraversal(s)
           u == SendHandshakeInitiation(t, isRetry)
<1>1. Same(t, r)
  <2>1. 0 \in 0 .. MaxTimerHandshakes + 1
    BY SMT
  <2> QED
    BY <2>1, FieldFacts DEF Same
<1>2. u = IF Initiates(t) THEN timersHandshakeInitiated(v) ELSE s
  BY DEF SendHandshakeInitiation
<1> HIDE DEF r, u
<1>3. Same(r, s)
  BY <1>1, FieldFacts DEF Same
<1> HIDE DEF s
<1>4. Keeps(s, v, {}) /\ (~timersActive => v = s)
  BY <1>3, TraversalFacts DEF Same
<1> HIDE DEF v
<1>5. CASE Initiates(t)
  <2>1. /\ Keeps(v, u, {"sendKeepalive"})
        /\ timersActive => "retransmitHandshake" \in u.armed
        /\ ~timersActive => u = v
    BY <1>2, <1>4, <1>5, HandshakeInitiatedFacts DEF Keeps
  <2> QED
    BY <1>1, <1>3, <1>4, <1>5, <2>1 DEF Keeps, Same, u
<1>6. CASE ~Initiates(t)
  BY <1>1, <1>2, <1>3, <1>6 DEF Keeps, Same, u
<1> QED
  BY <1>5, <1>6

-----------------------------------------------------------------------------
(* The queues.                                                             *)

\* A packet that is added to a queue is in it, whatever it drops.
LEMMA AddFacts ==
    ASSUME NEW q \in Seq(Packet), NEW e \in Packet
    PROVE  addToOutboundQueue(q, e) \in Seq(Packet) /\ addToOutboundQueue(q, e) # <<>>
<1> DEFINE r == IF Len(q) = QueueSize THEN Tail(q) ELSE q
<1>1. r \in Seq(Packet)
  BY SMT
<1>2. Append(r, e) \in Seq(Packet) /\ Append(r, e) # <<>>
  BY <1>1, SMT
<1> QED
  BY <1>2 DEF addToOutboundQueue

\* A packet that is taken from a queue.
LEMMA TakeFacts ==
    ASSUME NEW q \in Seq(Packet), q # <<>>
    PROVE  Head(q) \in Packet /\ Tail(q) \in Seq(Packet)
BY SMT

\* SendKeepalive leaves a packet on its way.
LEMMA KeepaliveFacts ==
    ASSUME TypeOK, Awaiting
    PROVE  /\ SendKeepalive \in Seq(Packet)
           /\ SendKeepalive # <<>> \/ nonce.at # "next"
           /\ queue # <<>> => SendKeepalive # <<>>
<1>1. <<"keepalive">> \in Seq(Packet) /\ <<"keepalive">> # <<>>
  BY SMT DEF Packet
<1> QED
  BY <1>1 DEF TypeOK, Awaiting, SendKeepalive

\* What RoutineNonce does with an element: it is on its way afterwards.
LEMMA NonceCheckFacts ==
    ASSUME TypeOK, NEW e \in Packet, NonceCheck(e)
    PROVE  /\ nonce' \in NonceState /\ outbound' \in Seq(Packet)
           /\ nonce'.at # "select" /\ Awaiting'
           /\ nonce'.at # "next" \/ outbound' # <<>>
<1>1. CASE keyPairs.current \in {"fresh", "old"}
  <2>1. nonce' = NextPacket /\ outbound' = addToOutboundQueue(outbound, e)
    BY <1>1 DEF NonceCheck
  <2>2. outbound' \in Seq(Packet) /\ outbound' # <<>>
    BY <2>1, AddFacts DEF TypeOK
  <2> QED
    BY <2>1, <2>2 DEF NextPacket, NonceState, Awaiting
<1>2. CASE ~(keyPairs.current \in {"fresh", "old"})
  <2>1. nonce' = [nonce EXCEPT !.at = "await", !.elem = e] /\ outbound' = outbound
    BY <1>2 DEF NonceCheck
  <2> QED
    BY <2>1 DEF TypeOK, NonceState, Awaiting
<1> QED
  BY <1>1, <1>2

-----------------------------------------------------------------------------
(* RoutineReadFromTUN and RoutineNonce.                                    *)

\* A packet of the TUN device, with the initiation it may cause.
LEMMA ReadFromTUNInv ==
    ASSUME IInv, RoutineReadFromTUN
    PROVE  IInv'
<1>1. /\ life = "up" /\ queue' \in Seq(Packet) /\ queue' # <<>>
      /\ UNCHANGED <<life, firing, keyPairs, outbound, nonce, sender, receiver, signals, faults>>
  BY AddFacts DEF RoutineReadFromTUN, IInv, TypeOK, Packet
<1>2. Keeps(timers, timers', {"sendKeepalive"})
  BY InitiationFacts DEF RoutineReadFromTUN, IInv, Keeps
<1>3. TypeOK' /\ Sound(timers')
  BY <1>1, <1>2 DEF IInv, TypeOK, Keeps, Sound
<1>4. Keys' /\ Silent' /\ Awaiting' /\ WaitIsTimed'
  BY <1>1, <1>2 DEF IInv, Keeps, Keys, Silent, Awaiting, WaitIsTimed, Waiting
<1>5. unheard' => unheard
  BY DEF RoutineReadFromTUN, Initiation
<1>6. Unheard' /\ Answering'
  BY <1>1, <1>2, <1>5 DEF IInv, Keeps, Unheard, Answering, OnItsWay
<1> QED
  BY <1>3, <1>4, <1>6 DEF IInv

\* RoutineNonce takes an element, which stays on its way.
LEMMA NonceTakeInv ==
    ASSUME IInv, NonceTake
    PROVE  IInv'
<1>1. /\ Head(queue) \in Packet /\ queue' \in Seq(Packet) /\ NonceCheck(Head(queue))
      /\ UNCHANGED <<life, timers, firing, keyPairs, sender, receiver, signals, owed, unheard,
                     faults>>
  BY TakeFacts DEF NonceTake, IInv, TypeOK
<1>2. /\ nonce' \in NonceState /\ outbound' \in Seq(Packet)
      /\ nonce'.at # "select" /\ Awaiting'
      /\ nonce'.at # "next" \/ outbound' # <<>>
  BY <1>1, NonceCheckFacts DEF IInv
<1>3. TypeOK' /\ Sound(timers')
  BY <1>1, <1>2 DEF IInv, TypeOK
<1>4. Keys' /\ Silent' /\ WaitIsTimed'
  BY <1>1, <1>2 DEF IInv, Keys, Silent, WaitIsTimed, Waiting
<1>5. Unheard' /\ Answering'
  BY <1>1, <1>2 DEF IInv, Unheard, Answering, OnItsWay
<1> QED
  BY <1>2, <1>3, <1>4, <1>5 DEF IInv

\* RoutineNonce begins to wait: an initiation is sent and timed, or its retransmission is
\* already timed, or else the wait is marked as stranded.
LEMMA NonceAwaitInv ==
    ASSUME IInv, NonceAwait
    PROVE  IInv'
<1>1. /\ nonce' \in NonceState /\ nonce'.at = "select" /\ nonce'.elem \in Packet
      /\ nonce'.stranded = HeldBack(timers)
      /\ UNCHANGED <<life, firing, keyPairs, queue, outbound, sender, receiver, faults>>
  BY DEF NonceAwait, IInv, TypeOK, Awaiting, NonceState, HeldBack, Initiates
<1>2. /\ Keeps(timers, timers', {"sendKeepalive"})
      /\ Initiates(timers) /\ life = "up" => "retransmitHandshake" \in timers'.armed
      /\ life # "up" => timers'.armed = timers.armed
  BY InitiationFacts DEF NonceAwait, IInv, Same, timersActive
<1>3. TypeOK' /\ Sound(timers')
  BY <1>1, <1>2 DEF IInv, TypeOK, Keeps, Sound
<1>4. Keys' /\ Silent' /\ Awaiting'
  BY <1>1, <1>2 DEF IInv, Keeps, Keys, Silent, Awaiting
<1>5. WaitIsTimed'
  BY <1>1, <1>2 DEF IInv, Keeps, WaitIsTimed, Waiting, HeldBack
<1>6. ~unheard'
  BY DEF NonceAwait, Initiation
<1>7. Unheard' /\ Answering'
  BY <1>1, <1>6 DEF Unheard, Answering, OnItsWay
<1> QED
  BY <1>3, <1>4, <1>5, <1>7 DEF IInv

\* A signal wakes RoutineNonce, which looks at its key pair again.
LEMMA NonceWakeInv ==
    ASSUME IInv, NonceWake
    PROVE  IInv'
<1>1. /\ nonce.elem \in Packet /\ NonceCheck(nonce.elem)
      /\ UNCHANGED <<life, timers, firing, keyPairs, queue, sender, receiver, owed, unheard,
                     faults>>
  BY DEF NonceWake, IInv, Awaiting
<1>2. /\ nonce' \in NonceState /\ outbound' \in Seq(Packet)
      /\ nonce'.at # "select" /\ Awaiting'
      /\ nonce'.at # "next" \/ outbound' # <<>>
  BY <1>1, NonceCheckFacts DEF IInv
<1>3. TypeOK' /\ Sound(timers')
  BY <1>1, <1>2 DEF IInv, TypeOK
<1>4. Keys' /\ Silent' /\ WaitIsTimed'
  BY <1>1, <1>2 DEF IInv, Keys, Silent, WaitIsTimed, Waiting
<1>5. Unheard' /\ Answering'
  BY <1>1, <1>2 DEF IInv, Unheard, Answering, OnItsWay
<1> QED
  BY <1>2, <1>3, <1>4, <1>5 DEF IInv

\* FlushNonceQueue drops what is queued, only when the handshake was given up.
LEMMA NonceFlushInv ==
    ASSUME IInv, NonceFlush
    PROVE  IInv'
<1>1. /\ nonce' \in NonceState /\ nonce'.at = "next" /\ ~nonce'.awaiting
      /\ queue' \in Seq(Packet) /\ ~owed'
      /\ UNCHANGED <<life, timers, firing, keyPairs, outbound, sender, receiver, unheard, faults>>
  <2>1. <<>> \in Seq(Packet)
    BY SMT
  <2> QED
    BY <2>1 DEF NonceFlush, NextPacket, NonceState
<1>2. TypeOK' /\ Sound(timers')
  BY <1>1 DEF IInv, TypeOK
<1>3. Keys' /\ Silent' /\ Awaiting' /\ WaitIsTimed' /\ Unheard' /\ Answering'
  BY <1>1 DEF IInv, Keys, Silent, Awaiting, WaitIsTimed, Waiting, Unheard, Answering
<1> QED
  BY <1>2, <1>3 DEF IInv

-----------------------------------------------------------------------------
(* RoutineSequentialSender.                                                *)

\* keepKeyFreshSending stops sendKeepalive only with an initiation, which is an answer.
LEMMA FreshFacts ==
    ASSUME NEW t, Sound(t), keepKeyFreshSending(t)
    PROVE  /\ Keeps(t, timers', {"sendKeepalive"})
           /\ life # "up" => timers'.armed = t.armed
           /\ owed' => owed /\ sender = "stop" /\ t.pending \subseteq timers'.pending
<1>1. PICK calls \in BOOLEAN :
         /\ timers' = IF calls THEN SendHandshakeInitiation(t, FALSE) ELSE t
         /\ owed' => owed /\ sender = "stop" /\ ~(calls /\ Initiates(t))
  BY DEF keepKeyFreshSending
<1>2. CASE calls
  BY <1>1, <1>2, InitiationFacts DEF Keeps, Same, timersActive
<1>3. CASE ~calls
  BY <1>1, <1>3 DEF Keeps
<1> QED
  BY <1>2, <1>3

\* A packet leaves: data that is sent is unheard of, and answers what was owed.
LEMMA SenderSendInv ==
    ASSUME IInv, SenderSend
    PROVE  IInv'
<1> DEFINE t == timersAnyAuthenticatedPacketTraversal(timers)
<1>1. /\ outbound' \in Seq(Packet) /\ sender = "next"
      /\ UNCHANGED <<life, firing, keyPairs, queue, nonce, receiver, signals, faults>>
  BY TakeFacts DEF SenderSend, IInv, TypeOK
<1>2. Keeps(timers, t, {}) /\ (life # "up" => t = timers)
  BY TraversalFacts DEF IInv, timersActive
<1>3. /\ Keeps(timers, timers', {"sendKeepalive"}) /\ (life # "up" => timers'.armed = timers.armed)
      /\ ~owed'
      /\ \/ sender' = "stop"
         \/ sender' = sender /\ (unheard' => unheard)
  <2>1. CASE Head(outbound) = "data" /\ timersActive
    <3>1. timers' = NotPending(t, "sendKeepalive") /\ sender' = "stop" /\ ~owed'
      BY <2>1 DEF SenderSend
    <3>2. Keeps(t, NotPending(t, "sendKeepalive"), {"sendKeepalive"})
      BY <1>2, HalfFacts DEF Keeps, Timer
    <3> QED
      BY <1>2, <2>1, <3>1, <3>2 DEF Keeps, timersActive
  <2>2. CASE ~(Head(outbound) = "data" /\ timersActive)
    <3>1. keepKeyFreshSending(t) /\ UNCHANGED <<sender, unheard>>
      BY <2>2 DEF SenderSend
    <3>2. /\ Keeps(t, timers', {"sendKeepalive"})
          /\ life # "up" => timers'.armed = t.armed
          /\ ~owed'
      BY <1>1, <1>2, <3>1, FreshFacts DEF Keeps
    <3> QED
      BY <1>2, <3>1, <3>2 DEF Keeps
  <2> QED
    BY <2>1, <2>2
<1>4. TypeOK' /\ Sound(timers')
  BY <1>1, <1>3 DEF IInv, TypeOK, Keeps, Sound
<1>5. Keys' /\ Silent' /\ Awaiting' /\ WaitIsTimed'
  BY <1>1, <1>3 DEF IInv, Keeps, Keys, Silent, Awaiting, WaitIsTimed, Waiting
<1>6. "newHandshake" \in timers.pending => "newHandshake" \in timers'.pending
  BY <1>3 DEF Keeps
<1>7. Unheard' /\ Answering'
  BY <1>1, <1>3, <1>6 DEF IInv, Unheard, Answering
<1> QED
  BY <1>4, <1>5, <1>7 DEF IInv

\* A packet that cannot be sent is on record.
LEMMA SenderFailInv ==
    ASSUME IInv, SenderFail
    PROVE  IInv'
<1>1. /\ outbound' \in Seq(Packet) /\ faults' = faults \cup {"failed"}
      /\ UNCHANGED <<life, timers, firing, keyPairs, queue, nonce, sender, receiver, signals,
                     owed, unheard>>
  BY TakeFacts DEF SenderFail, IInv, TypeOK
<1>2. TypeOK' /\ Sound(timers')
  BY <1>1 DEF IInv, TypeOK
<1>3. Keys' /\ Silent' /\ Awaiting' /\ WaitIsTimed' /\ Unheard' /\ Answering'
  BY <1>1 DEF IInv, Keys, Silent, Awaiting, WaitIsTimed, Waiting, Unheard, Answering
<1> QED
  BY <1>2, <1>3 DEF IInv

\* timersDataSent sets newHandshake after data, and the key is kept fresh.
LEMMA SenderStopInv ==
    ASSUME IInv, SenderStop
    PROVE  IInv'
<1> DEFINE t == Stop(timers, "sendKeepalive")
           u == IF timersActive /\ "newHandshake" \notin t.pending
                THEN Mod(t, "newHandshake") ELSE t
<1>1. /\ keepKeyFreshSending(u) /\ sender' = "next"
      /\ UNCHANGED <<life, firing, keyPairs, queue, outbound, nonce, receiver, signals, unheard,
                     faults>>
  BY DEF SenderStop
<1>2. /\ Keeps(timers, t, {"sendKeepalive"}) /\ t.pending = timers.pending
      /\ t.armed \subseteq timers.armed
  BY HalfFacts DEF IInv, Timer
<1> HIDE DEF t
<1>3. /\ Keeps(t, u, {}) /\ (life # "up" => u = t)
      /\ life = "up" => "newHandshake" \in u.pending
  BY <1>2, ModFacts DEF Keeps, Timer, timersActive
<1> HIDE DEF u
<1>4. /\ Keeps(u, timers', {"sendKeepalive"})
      /\ life # "up" => timers'.armed = u.armed
      /\ owed' => owed /\ u.pending \subseteq timers'.pending
  BY <1>1, <1>3, FreshFacts DEF Keeps
<1>5. /\ Keeps(timers, timers', {"sendKeepalive"})
      /\ life # "up" => timers'.armed \subseteq timers.armed
      /\ life = "up" => "newHandshake" \in timers'.pending
      /\ owed' => owed /\ timers.pending \subseteq timers'.pending
  BY <1>2, <1>3, <1>4 DEF Keeps
<1>6. TypeOK' /\ Sound(timers')
  BY <1>1, <1>5 DEF IInv, TypeOK, Keeps, Sound
<1>7. Keys' /\ Silent' /\ Awaiting' /\ WaitIsTimed'
  BY <1>1, <1>5 DEF IInv, Keeps, Keys, Silent, Awaiting, WaitIsTimed, Waiting
<1>8. Unheard' /\ Answering'
  BY <1>1, <1>5 DEF IInv, Unheard, Answering, OnItsWay
<1> QED
  BY <1>6, <1>7, <1>8 DEF IInv

-----------------------------------------------------------------------------
(* RoutineSequentialReceiver.                                              *)

\* What the receiver does to the timers for every packet that authenticates.
LEMMA ReceivedFacts ==
    ASSUME NEW t, Sound(t)
    PROVE  /\ Keeps(t, Received(t), {"newHandshake"}) /\ t.armed \subseteq Received(t).armed
           /\ life # "up" => Received(t) = t
<1> DEFINE u == timersAnyAuthenticatedPacketTraversal(t)
<1>1. Keeps(t, u, {}) /\ (~timersActive => u = t)
  BY TraversalFacts
<1>2. Received(t) = IF timersActive THEN NotPending(u, "newHandshake") ELSE u
  BY DEF Received
<1> HIDE DEF u
<1>3. /\ Keeps(u, NotPending(u, "newHandshake"), {"newHandshake"})
      /\ NotPending(u, "newHandshake").armed = u.armed
  BY <1>1, HalfFacts DEF Keeps, Timer
<1> QED
  BY <1>1, <1>2, <1>3 DEF Keeps, timersActive

\* A packet is received, from a peer that is thereby heard of.
LEMMA ReceiverTakeInv ==
    ASSUME IInv, NEW kind \in Packet, NEW last \in BOOLEAN, ReceiverTake(kind, last)
    PROVE  IInv'
<1> DEFINE calls == keepKeyFreshReceiving(last)
           t == [timers EXCEPT !.lastMinute = TRUE]
           u == IF calls THEN SendHandshakeInitiation(t, FALSE) ELSE timers
<1>1. /\ timers' = Received(u) /\ receiver' = kind /\ ~unheard'
      /\ owed' => owed /\ ~(calls /\ Initiates(timers))
      /\ UNCHANGED <<life, firing, keyPairs, queue, outbound, nonce, sender, signals, faults>>
  BY DEF ReceiverTake
<1> HIDE DEF calls
<1>2. Same(timers, t) /\ (Initiates(t) <=> Initiates(timers))
  BY FieldFacts DEF IInv, Same, Initiates
<1> HIDE DEF t
<1>3. /\ Keeps(timers, u, {"sendKeepalive"}) /\ (life # "up" => u.armed = timers.armed)
      /\ owed' => timers.pending \subseteq u.pending
  <2>1. CASE calls
    BY <1>1, <1>2, <2>1, InitiationFacts DEF Keeps, Same, timersActive
  <2>2. CASE ~calls
    BY <2>2 DEF IInv, Keeps
  <2> QED
    BY <2>1, <2>2
<1> HIDE DEF u
<1>4. /\ Keeps(u, timers', {"newHandshake"}) /\ u.armed \subseteq timers'.armed
      /\ life # "up" => timers' = u
  BY <1>1, <1>3, ReceivedFacts DEF Keeps
<1>5. TypeOK' /\ Sound(timers')
  BY <1>1, <1>4 DEF IInv, TypeOK, Keeps, Sound, Packet
<1>6. Keys' /\ Silent' /\ Awaiting' /\ WaitIsTimed' /\ Unheard'
  BY <1>1, <1>3, <1>4 DEF IInv, Keeps, Keys, Silent, Awaiting, WaitIsTimed, Waiting, Unheard
<1>7. Answering'
  BY <1>1, <1>3, <1>4 DEF IInv, Keeps, Answering, OnItsWay
<1> QED
  BY <1>5, <1>6, <1>7 DEF IInv

\* ReceivedWithKeypair moves keys that are timed already.
LEMMA ReceiverPromoteInv ==
    ASSUME IInv, NEW kind \in Packet, ReceiverPromote(kind)
    PROVE  IInv'
<1> DEFINE t == timersHandshakeComplete(timers)
<1>1. /\ timers' = Received(t) /\ receiver' = kind /\ ~unheard' /\ signals' # {}
      /\ keyPairs.next /\ keyPairs' \in KeyPairs
      /\ UNCHANGED <<life, firing, queue, outbound, nonce, sender, owed, faults>>
  BY DEF ReceiverPromote, IInv, TypeOK, KeyPairs
<1>2. Keeps(timers, t, {"retransmitHandshake"}) /\ (life # "up" => t.armed = timers.armed)
  BY HandshakeCompleteFacts DEF IInv, Same, timersActive
<1> HIDE DEF t
<1>3. /\ Keeps(t, timers', {"newHandshake"}) /\ t.armed \subseteq timers'.armed
      /\ life # "up" => timers' = t
  BY <1>1, <1>2, ReceivedFacts DEF Keeps
<1>4. TypeOK' /\ Sound(timers')
  BY <1>1, <1>3 DEF IInv, TypeOK, Keeps, Sound, Packet
<1>5. Keys' /\ Silent'
  BY <1>1, <1>2, <1>3 DEF IInv, Keeps, Keys, Silent
<1>6. Awaiting' /\ WaitIsTimed' /\ Unheard'
  BY <1>1 DEF IInv, Awaiting, WaitIsTimed, Unheard
<1>7. Answering'
  BY <1>1, <1>2, <1>3 DEF IInv, Keeps, Answering, OnItsWay
<1> QED
  BY <1>4, <1>5, <1>6, <1>7 DEF IInv

\* Data was received: sendKeepalive is pending afterwards.
LEMMA ReceiverStopInv ==
    ASSUME IInv, ReceiverStop
    PROVE  IInv'
<1> DEFINE t == IF timersActive THEN Stop(timers, "newHandshake") ELSE timers
           data == receiver = "data" /\ timersActive
           mods == data /\ "sendKeepalive" \notin t.pending
<1>1. /\ timers' = CASE mods          -> Pending(t, "sendKeepalive")
                     [] data /\ ~mods -> [t EXCEPT !.needAnother = TRUE]
                     [] OTHER         -> t
      /\ receiver' \in {"reset", "next"}
      /\ owed' = (owed \/ data)
      /\ UNCHANGED <<life, firing, keyPairs, queue, outbound, nonce, sender, signals, unheard,
                     faults>>
  BY DEF ReceiverStop
<1>2. /\ Keeps(timers, t, {"newHandshake"}) /\ t.pending = timers.pending
      /\ life # "up" => t = timers
  BY HalfFacts DEF IInv, Keeps, Timer, timersActive
<1>3. data => life = "up"
  BY DEF timersActive
<1>4. data \in BOOLEAN
  OBVIOUS
<1> HIDE DEF t
<1>5. mods => data /\ "sendKeepalive" \notin t.pending
  OBVIOUS
<1>6. data /\ ~mods => "sendKeepalive" \in t.pending
  OBVIOUS
<1> HIDE DEF data, mods
<1>7. /\ Keeps(t, timers', {}) /\ (life # "up" => timers'.armed = t.armed)
      /\ data => "sendKeepalive" \in timers'.pending
  <2>1. CASE mods
    <3>1. timers' = Pending(t, "sendKeepalive")
      BY <1>1, <2>1
    <3> QED
      BY <1>2, <3>1, HalfFacts DEF Keeps, Timer
  <2>2. CASE data /\ ~mods
    <3>1. timers' = [t EXCEPT !.needAnother = TRUE]
      BY <1>1, <2>2
    <3> QED
      BY <1>2, <1>6, <2>2, <3>1, FieldFacts DEF Keeps
  <2>3. CASE ~data
    <3>1. timers' = t
      BY <1>1, <1>5, <2>3
    <3> QED
      BY <1>2, <2>3, <3>1 DEF Keeps
  <2> QED
    BY <2>1, <2>2, <2>3
<1>8. TypeOK' /\ Sound(timers')
  BY <1>1, <1>7 DEF IInv, TypeOK, Keeps, Sound
<1>9. Keys' /\ Silent' /\ Awaiting' /\ WaitIsTimed'
  BY <1>1, <1>2, <1>7 DEF IInv, Keeps, Keys, Silent, Awaiting, WaitIsTimed, Waiting
<1>10. Unheard' /\ Answering'
  BY <1>1, <1>2, <1>7 DEF IInv, Keeps, Unheard, Answering, OnItsWay
<1> QED
  BY <1>8, <1>9, <1>10 DEF IInv

\* The second half of Timer.Mod, which may come after timersStop.
LEMMA ReceiverResetInv ==
    ASSUME IInv, ReceiverReset
    PROVE  IInv'
<1>1. /\ receiver' = "next" /\ faults \subseteq faults'
      /\ life = "up" => faults' = faults
      /\ life # "up" => "late" \in faults'
      /\ UNCHANGED <<life, firing, keyPairs, queue, outbound, nonce, sender, signals, owed,
                     unheard>>
  BY DEF ReceiverReset, timersActive
<1>2. Keeps(timers, timers', {})
  BY HalfFacts DEF ReceiverReset, IInv, Timer
<1>3. TypeOK' /\ Sound(timers')
  BY <1>1, <1>2 DEF IInv, TypeOK, Keeps, Sound
<1>4. Keys' /\ Silent' /\ Awaiting' /\ WaitIsTimed'
  BY <1>1, <1>2 DEF IInv, Keeps, Keys, Silent, Awaiting, WaitIsTimed, Waiting
<1>5. Unheard' /\ Answering'
  BY <1>1, <1>2 DEF IInv, Keeps, Unheard, Answering, OnItsWay
<1> QED
  BY <1>3, <1>4, <1>5 DEF IInv

-----------------------------------------------------------------------------
(* RoutineHandshake and configuration.                                     *)

\* An initiation is consumed: the keys that are derived are timed.
LEMMA HandshakeInitiationInv ==
    ASSUME IInv, RoutineHandshakeInitiation
    PROVE  IInv'
<1> DEFINE t == timersAnyAuthenticatedPacketReceived(timers)
           u == timersSessionDerived(t)
           v == [u EXCEPT !.recent = "response"]
<1>1. /\ timers' = timersAnyAuthenticatedPacketTraversal(v) /\ ~unheard'
      /\ life # "crashed" /\ keyPairs' \in KeyPairs
      /\ faults' = IF life = "down" THEN faults \cup {"lateKey"} ELSE faults
      /\ UNCHANGED <<life, firing, queue, outbound, nonce, sender, receiver, signals, owed>>
  BY DEF RoutineHandshakeInitiation, IInv, TypeOK, KeyPairs
<1>2. Keeps(timers, t, {"newHandshake"}) /\ (life # "up" => t = timers)
  BY AuthenticatedFacts DEF IInv, timersActive
<1> HIDE DEF t
<1>3. /\ Keeps(t, u, {}) /\ (life # "up" => u = t)
      /\ life = "up" => "zeroKeyMaterial" \in u.armed
  BY <1>2, SessionDerivedFacts DEF Keeps, timersActive
<1> HIDE DEF u
<1>4. Same(u, v)
  BY <1>3, FieldFacts DEF Keeps, Same
<1> HIDE DEF v
<1>5. Keeps(v, timers', {}) /\ (life # "up" => timers' = v)
  BY <1>1, <1>4, TraversalFacts DEF Same, timersActive
<1>6. /\ Keeps(timers, timers', {"newHandshake"})
      /\ life = "up" => "zeroKeyMaterial" \in timers'.armed
      /\ life # "up" => timers'.armed = timers.armed
  BY <1>2, <1>3, <1>4, <1>5 DEF Keeps, Same
<1>7. TypeOK' /\ Sound(timers')
  BY <1>1, <1>6 DEF IInv, TypeOK, Keeps, Sound
<1>8. Keys'
  BY <1>1, <1>6 DEF IInv, TypeOK, Keys
<1>9. Silent' /\ Awaiting' /\ WaitIsTimed' /\ Unheard'
  BY <1>1, <1>6 DEF IInv, Keeps, Silent, Awaiting, WaitIsTimed, Waiting, Unheard
<1>10. Answering'
  BY <1>1, <1>6 DEF IInv, Keeps, Answering, OnItsWay
<1> QED
  BY <1>7, <1>8, <1>9, <1>10 DEF IInv

\* A response is consumed: the retransmission stops, with a signal to RoutineNonce.
LEMMA HandshakeResponseInv ==
    ASSUME IInv, RoutineHandshakeResponse
    PROVE  IInv'
<1> DEFINE t == timersAnyAuthenticatedPacketTraversal(timers)
           u == timersAnyAuthenticatedPacketReceived(t)
           v == timersSessionDerived(u)
<1>1. /\ timers' = timersHandshakeComplete(v) /\ ~unheard' /\ signals' # {}
      /\ life \in {"up", "stopping"} /\ keyPairs' \in KeyPairs /\ queue' = SendKeepalive
      /\ UNCHANGED <<life, firing, outbound, nonce, sender, receiver, owed, faults>>
  BY DEF RoutineHandshakeResponse, KeyPairs
<1>2. /\ SendKeepalive \in Seq(Packet)
      /\ SendKeepalive # <<>> \/ nonce.at # "next"
  BY KeepaliveFacts DEF IInv
<1>3. Keeps(timers, t, {}) /\ (life # "up" => t = timers)
  BY TraversalFacts DEF IInv, timersActive
<1> HIDE DEF t
<1>4. Keeps(t, u, {"newHandshake"}) /\ (life # "up" => u = t)
  BY <1>3, AuthenticatedFacts DEF Keeps, timersActive
<1> HIDE DEF u
<1>5. /\ Keeps(u, v, {}) /\ (life # "up" => v = u)
      /\ life = "up" => "zeroKeyMaterial" \in v.armed
  BY <1>4, SessionDerivedFacts DEF Keeps, timersActive
<1> HIDE DEF v
<1>6. Keeps(v, timers', {"retransmitHandshake"}) /\ (life # "up" => timers'.armed = v.armed)
  BY <1>1, <1>5, HandshakeCompleteFacts DEF Keeps, Same, timersActive
<1>7. TypeOK' /\ Sound(timers')
  BY <1>1, <1>2, <1>6 DEF IInv, TypeOK, Keeps, Sound
<1>8. Keys'
  BY <1>1, <1>5, <1>6 DEF Keeps, Keys
<1>9. Silent'
  BY <1>1, <1>3, <1>4, <1>5, <1>6 DEF IInv, Silent
<1>10. Awaiting' /\ WaitIsTimed' /\ Unheard' /\ Answering'
  BY <1>1, <1>2 DEF IInv, Awaiting, WaitIsTimed, Unheard, Answering, OnItsWay
<1> QED
  BY <1>7, <1>8, <1>9, <1>10 DEF IInv

\* The configuration turns persistent keepalives on or off, or changes their interval.
LEMMA SetPersistentKeepaliveInv ==
    ASSUME IInv, NEW secs, SetPersistentKeepalive(secs)
    PROVE  IInv'
<1>1. /\ queue' = SendKeepalive \/ queue' = queue
      /\ UNCHANGED <<life, timers, firing, keyPairs, outbound, nonce, sender, receiver, signals,
                     owed, unheard, faults>>
  BY DEF SetPersistentKeepalive
<1>2. /\ SendKeepalive \in Seq(Packet)
      /\ SendKeepalive # <<>> \/ nonce.at # "next"
  BY KeepaliveFacts DEF IInv
<1>3. TypeOK' /\ Sound(timers')
  BY <1>1, <1>2 DEF IInv, TypeOK
<1>4. Keys' /\ Silent' /\ Awaiting' /\ WaitIsTimed' /\ Unheard'
  BY <1>1 DEF IInv, Keys, Silent, Awaiting, WaitIsTimed, Waiting, Unheard
<1>5. Answering'
  BY <1>1, <1>2 DEF IInv, Answering, OnItsWay
<1> QED
  BY <1>3, <1>4, <1>5 DEF IInv

-----------------------------------------------------------------------------
(* Callbacks.                                                              *)

\* A timer that fires is set; so the peer has not been stopped, or a callback or Mod was
\* under way when it was.
LEMMA FiresFacts ==
    ASSUME IInv, NEW x \in Timer, Fires(x)
    PROVE  /\ x \in timers.armed /\ (life = "up" \/ "late" \in faults)
           /\ life # "crashed" /\ (nonce.at = "select" => signals = {})
BY DEF IInv, Sound, Silent, Fires, Quiet

\* The handshake is given up, with a signal to RoutineNonce; or it is tried again, and
\* timed again or marked as stranded.
LEMMA RetransmitHandshakeInv ==
    ASSUME IInv, expiredRetransmitHandshake
    PROVE  IInv'
<1> DEFINE t == Del(timers, "retransmitHandshake")
<1>1. /\ life = "up" \/ "late" \in faults
      /\ UNCHANGED <<life, firing, keyPairs, queue, outbound, sender, receiver, faults>>
  BY FiresFacts DEF expiredRetransmitHandshake, Timer
<1>2. /\ Keeps(timers, t, {"retransmitHandshake"})
      /\ t.attempts = timers.attempts /\ t.recent = timers.recent
  BY DelFacts DEF IInv, Timer
<1>3. CASE t.attempts > MaxTimerHandshakes
  <2> DEFINE d == Del(t, "sendKeepalive")
  <2>1. /\ timers' = CASE ~timersActive -> t
                       [] timersActive /\ "zeroKeyMaterial" \in t.pending -> d
                       [] OTHER -> Mod(d, "zeroKeyMaterial")
        /\ signals' # {} /\ ~owed' /\ UNCHANGED <<nonce, unheard>>
    BY <1>3 DEF expiredRetransmitHandshake
  <2>2. Keeps(t, d, {"sendKeepalive"})
    BY <1>2, DelFacts DEF Keeps, Timer
  <2> HIDE DEF d, t
  <2>3. Keeps(d, Mod(d, "zeroKeyMaterial"), {})
    BY <2>2, ModFacts DEF Keeps, Timer
  <2>4. timers' \in {t, d, Mod(d, "zeroKeyMaterial")}
    BY <2>1
  <2>5. Keeps(t, timers', {"sendKeepalive"})
    BY <1>2, <2>2, <2>3, <2>4 DEF Keeps
  <2>6. TypeOK' /\ Sound(timers')
    BY <1>1, <2>1, <2>5 DEF IInv, TypeOK, Keeps, Sound
  <2>7. Keys' /\ Silent' /\ Awaiting' /\ WaitIsTimed'
    BY <1>1, <1>2, <2>1, <2>5 DEF IInv, Keeps, Keys, Silent, Awaiting, WaitIsTimed
  <2>8. Unheard' /\ Answering'
    BY <1>1, <1>2, <2>1, <2>5 DEF IInv, Keeps, Unheard, Answering
  <2> QED
    BY <2>6, <2>7, <2>8 DEF IInv
<1>4. CASE ~(t.attempts > MaxTimerHandshakes)
  <2> DEFINE u == [t EXCEPT !.attempts = @ + 1]
  <2>1. /\ timers' = SendHandshakeInitiation(u, TRUE)
        /\ owed' => owed /\ ~Initiates(timers)
        /\ ~unheard'
        /\ nonce' = [nonce EXCEPT !.stranded = @ \/ (nonce.at = "select" /\ HeldBack(t))]
        /\ signals' = signals
    BY <1>4 DEF expiredRetransmitHandshake, Initiation
  <2>2. t.attempts \in 0 .. MaxTimerHandshakes + 1
    BY <1>2 DEF Keeps, Sound, TimersState
  <2>3. t.attempts + 1 \in 0 .. MaxTimerHandshakes + 1
    BY <1>4, <2>2, SMT
  <2>4. Same(t, u) /\ u.recent = t.recent
    BY <1>2, <2>3, FieldFacts DEF Keeps, Same
  <2> HIDE DEF t, u
  <2>5. /\ Keeps(u, timers', {"sendKeepalive"})
        /\ Initiates(t) /\ life = "up" => "retransmitHandshake" \in timers'.armed
        /\ owed' => u.pending \subseteq timers'.pending
    BY <1>2, <2>1, <2>4, InitiationFacts DEF Keeps, Same, Initiates, timersActive
  <2>6. /\ nonce' \in NonceState /\ nonce'.at = nonce.at /\ nonce'.awaiting = nonce.awaiting
        /\ nonce'.elem = nonce.elem
        /\ nonce'.at = "select" /\ ~nonce'.stranded => ~HeldBack(t)
    BY <2>1 DEF IInv, TypeOK, NonceState
  <2>7. TypeOK' /\ Sound(timers')
    BY <1>1, <2>5, <2>6 DEF IInv, TypeOK, Keeps, Sound
  <2>8. Keys' /\ Silent' /\ Awaiting'
    BY <1>1, <1>2, <2>4, <2>5, <2>6 DEF IInv, Keeps, Same, Keys, Silent, Awaiting
  <2>9. WaitIsTimed'
    BY <1>1, <1>2, <2>4, <2>5, <2>6 DEF Keeps, Same, WaitIsTimed, Waiting, HeldBack
  <2>10. Unheard' /\ Answering'
    BY <1>1, <1>2, <2>1, <2>4, <2>5, <2>6
    DEF IInv, Keeps, Same, Unheard, Answering, OnItsWay
  <2> QED
    BY <2>7, <2>8, <2>9, <2>10 DEF IInv
<1> QED
  BY <1>3, <1>4

\* expiredNewHandshake: newHandshake is no longer pending, nor is silence noted.
LEMMA NewHandshakeInv ==
    ASSUME IInv, expiredNewHandshake
    PROVE  IInv'
<1> DEFINE t == Del(timers, "newHandshake")
<1>1. /\ life = "up" \/ "late" \in faults
      /\ UNCHANGED <<life, firing, keyPairs, queue, outbound, nonce, sender, receiver, signals,
                     faults>>
  BY FiresFacts DEF expiredNewHandshake, Timer
<1>2. Keeps(timers, t, {"newHandshake"}) /\ t.recent = timers.recent
  BY DelFacts DEF IInv, Timer
<1>3. /\ timers' = SendHandshakeInitiation(t, FALSE)
      /\ owed' => owed /\ ~Initiates(timers)
      /\ ~unheard'
  BY DEF expiredNewHandshake, Initiation
<1> HIDE DEF t
<1>4. Keeps(t, timers', {"sendKeepalive"}) /\ (owed' => t.pending \subseteq timers'.pending)
  BY <1>2, <1>3, InitiationFacts DEF Keeps, Same, Initiates
<1>5. TypeOK' /\ Sound(timers')
  BY <1>1, <1>4 DEF IInv, TypeOK, Keeps, Sound
<1>6. Keys' /\ Silent' /\ Awaiting' /\ WaitIsTimed'
  BY <1>1, <1>2, <1>4 DEF IInv, Keeps, Keys, Silent, Awaiting, WaitIsTimed, Waiting
<1>7. Unheard' /\ Answering'
  BY <1>1, <1>2, <1>3, <1>4 DEF IInv, Keeps, Unheard, Answering, OnItsWay
<1> QED
  BY <1>5, <1>6, <1>7 DEF IInv

\* expiredZeroKeyMaterial: no keys are left.
LEMMA ZeroKeyMaterialInv ==
    ASSUME IInv, expiredZeroKeyMaterial
    PROVE  IInv'
<1>1. /\ life = "up" \/ "late" \in faults
      /\ keyPairs' \in KeyPairs /\ keyPairs'.current = "none" /\ ~keyPairs'.next
      /\ UNCHANGED <<life, firing, queue, outbound, nonce, sender, receiver, signals, owed,
                     unheard, faults>>
  BY FiresFacts DEF expiredZeroKeyMaterial, Timer, KeyPairs
<1>2. Keeps(timers, timers', {"zeroKeyMaterial"})
  BY DelFacts DEF expiredZeroKeyMaterial, IInv, Timer
<1>3. TypeOK' /\ Sound(timers')
  BY <1>1, <1>2 DEF IInv, TypeOK, Keeps, Sound
<1>4. Keys' /\ Silent' /\ Awaiting' /\ WaitIsTimed'
  BY <1>1, <1>2 DEF IInv, Keeps, Keys, Silent, Awaiting, WaitIsTimed, Waiting
<1>5. Unheard' /\ Answering'
  BY <1>1, <1>2 DEF IInv, Keeps, Unheard, Answering, OnItsWay
<1> QED
  BY <1>3, <1>4, <1>5 DEF IInv

\* A timer fires whose callback sends a keepalive: it is on record until the callback ends.
LEMMA FireInv ==
    ASSUME IInv, NEW x \in Timer, Fire(x)
    PROVE  IInv'
<1>1. /\ x \in {"sendKeepalive", "persistentKeepalive"} /\ firing' = firing \cup {x}
      /\ life = "up" \/ "late" \in faults
      /\ UNCHANGED <<life, keyPairs, queue, outbound, nonce, sender, receiver, signals, owed,
                     unheard, faults>>
  BY FiresFacts DEF Fire
<1>2. Keeps(timers, timers', {x})
  BY DelFacts DEF Fire, IInv
<1>3. TypeOK' /\ Sound(timers')
  BY <1>1, <1>2 DEF IInv, TypeOK, Keeps, Sound
<1>4. Keys' /\ Silent' /\ Awaiting' /\ WaitIsTimed'
  BY <1>1, <1>2 DEF IInv, Keeps, Keys, Silent, Awaiting, WaitIsTimed, Waiting
<1>5. Unheard' /\ Answering'
  BY <1>1, <1>2 DEF IInv, Keeps, Unheard, Answering, OnItsWay
<1> QED
  BY <1>3, <1>4, <1>5 DEF IInv

\* A callback that sends a keepalive leaves a packet on its way, or panics on a peer that
\* is down.
LEMMA KeepaliveExpiredInv ==
    ASSUME IInv, NEW x \in {"sendKeepalive", "persistentKeepalive"}, Expires(x),
           NEW t, Keeps(timers, t, {"sendKeepalive"}), KeepaliveExpired(t)
    PROVE  IInv'
<1>1. /\ x \in firing /\ firing' \subseteq firing
      /\ UNCHANGED <<keyPairs, outbound, nonce, sender, receiver, signals, owed, unheard, faults>>
  BY DEF Expires, KeepaliveExpired
<1>2. life = "up" \/ "late" \in faults
  BY <1>1 DEF IInv, Silent
<1>3. CASE life = "down"
  <2>1. life' = "crashed" /\ UNCHANGED <<queue, timers>>
    BY <1>3 DEF KeepaliveExpired
  <2>2. TypeOK' /\ Sound(timers')
    BY <1>1, <2>1 DEF IInv, TypeOK
  <2>3. Keys' /\ Silent'
    BY <1>1, <1>2, <1>3, <2>1 DEF IInv, Keys, Silent
  <2>4. Awaiting' /\ WaitIsTimed' /\ Unheard' /\ Answering'
    BY <1>1, <2>1 DEF IInv, Awaiting, WaitIsTimed, Unheard, Answering
  <2> QED
    BY <2>2, <2>3, <2>4 DEF IInv
<1>4. CASE life # "down"
  <2>1. queue' = SendKeepalive /\ timers' = t /\ UNCHANGED life
    BY <1>4 DEF KeepaliveExpired
  <2>2. SendKeepalive \in Seq(Packet) /\ (SendKeepalive # <<>> \/ nonce.at # "next")
    BY KeepaliveFacts DEF IInv
  <2>3. TypeOK' /\ Sound(timers')
    BY <1>1, <2>1, <2>2 DEF IInv, TypeOK, Keeps, Sound
  <2>4. Keys' /\ Silent' /\ Awaiting' /\ WaitIsTimed'
    BY <1>1, <1>2, <2>1 DEF IInv, Keeps, Keys, Silent, Awaiting, WaitIsTimed, Waiting
  <2>5. Unheard' /\ Answering'
    BY <1>1, <2>1, <2>2 DEF IInv, Keeps, Unheard, Answering, OnItsWay
  <2> QED
    BY <2>3, <2>4, <2>5 DEF IInv
<1> QED
  BY <1>3, <1>4

\* expiredSendKeepalive.
LEMMA SendKeepaliveInv ==
    ASSUME IInv, expiredSendKeepalive
    PROVE  IInv'
<1> DEFINE t == [timers EXCEPT !.needAnother = FALSE]
           u == IF timers.needAnother /\ timersActive THEN Mod(t, "sendKeepalive") ELSE t
<1>1. Expires("sendKeepalive") /\ KeepaliveExpired(u)
  BY DEF expiredSendKeepalive
<1>2. Keeps(timers, t, {})
  BY FieldFacts DEF IInv, Keeps
<1> HIDE DEF t
<1>3. Keeps(timers, u, {"sendKeepalive"})
  BY <1>2, ModFacts DEF Keeps, Timer
<1> HIDE DEF u
<1> QED
  BY <1>1, <1>3, KeepaliveExpiredInv

\* expiredPersistentKeepalive.
LEMMA PersistentKeepaliveInv ==
    ASSUME IInv, expiredPersistentKeepalive
    PROVE  IInv'
<1>1. CASE interval # "off"
  <2> DEFINE t == IF timersActive THEN Del(timers, "sendKeepalive") ELSE timers
  <2>1. Expires("persistentKeepalive") /\ KeepaliveExpired(t)
    BY <1>1 DEF expiredPersistentKeepalive
  <2>2. Keeps(timers, t, {"sendKeepalive"})
    BY DelFacts DEF IInv, Keeps, Timer
  <2> HIDE DEF t
  <2> QED
    BY <2>1, <2>2, KeepaliveExpiredInv
<1>2. CASE interval = "off"
  <2>1. /\ firing' = firing \ {"persistentKeepalive"}
        /\ UNCHANGED <<life, timers, keyPairs, queue, outbound, nonce, sender, receiver, signals,
                       owed, unheard, faults>>
    BY <1>2 DEF expiredPersistentKeepalive, Expires
  <2>2. TypeOK' /\ Sound(timers')
    BY <2>1 DEF IInv, TypeOK
  <2>3. Keys' /\ Silent' /\ Awaiting' /\ WaitIsTimed'
    BY <2>1 DEF IInv, Keys, Silent, Awaiting, WaitIsTimed, Waiting
  <2>4. Unheard' /\ Answering'
    BY <2>1 DEF IInv, Unheard, Answering, OnItsWay
  <2> QED
    BY <2>2, <2>3, <2>4 DEF IInv
<1> QED
  BY <1>1, <1>2

-----------------------------------------------------------------------------
(* Time and Peer.Stop.                                                     *)

\* RekeyTimeout passes: the timers that are set become ripe.
LEMMA ElapseInv ==
    ASSUME IInv, Elapse
    PROVE  IInv'
<1>1. Same(timers, timers')
  BY DEF Elapse, IInv, Sound, TimersState, Same
<1>2. /\ keyPairs' \in KeyPairs /\ keyPairs'.next = keyPairs.next
      /\ keyPairs'.current = "none" <=> keyPairs.current = "none"
  BY DEF Elapse, IInv, TypeOK, KeyPairs
<1>3. UNCHANGED <<life, firing, queue, outbound, nonce, sender, receiver, signals, owed,
                  unheard, faults>>
  BY DEF Elapse
<1>4. TypeOK' /\ Sound(timers')
  BY <1>1, <1>2, <1>3 DEF IInv, TypeOK, Same, Sound
<1>5. Keys' /\ Silent' /\ Awaiting' /\ WaitIsTimed'
  BY <1>1, <1>2, <1>3 DEF IInv, Same, Keys, Silent, Awaiting, WaitIsTimed, Waiting
<1>6. Unheard' /\ Answering'
  BY <1>1, <1>3 DEF IInv, Same, Unheard, Answering, OnItsWay
<1> QED
  BY <1>4, <1>5, <1>6 DEF IInv

\* A key pair grows old.
LEMMA AgeInv ==
    ASSUME IInv, Age
    PROVE  IInv'
<1>1. /\ keyPairs.current # "none" /\ keyPairs' \in KeyPairs
      /\ UNCHANGED <<life, timers, firing, queue, outbound, nonce, sender, receiver, signals,
                     owed, unheard, faults>>
  BY DEF Age, IInv, TypeOK, KeyPairs
<1>2. TypeOK' /\ Sound(timers')
  BY <1>1 DEF IInv, TypeOK
<1>3. Keys' /\ Silent' /\ Awaiting' /\ WaitIsTimed'
  BY <1>1 DEF IInv, Keys, Silent, Awaiting, WaitIsTimed, Waiting
<1>4. Unheard' /\ Answering'
  BY <1>1 DEF IInv, Unheard, Answering, OnItsWay
<1> QED
  BY <1>2, <1>3, <1>4 DEF IInv

\* timersStop leaves no timer set; a callback that has begun is on record.
LEMMA StopBeginInv ==
    ASSUME IInv, StopBegin
    PROVE  IInv'
<1>1. /\ life' = "stopping"
      /\ "late" \notin faults' => firing = {}
      /\ UNCHANGED <<firing, keyPairs, queue, outbound, nonce, sender, receiver>>
  BY DEF StopBegin
<1>2. Sound(timers') /\ timers'.armed = {}
  BY DEF StopBegin, timersStop, IInv, Sound, TimersState
<1>3. TypeOK'
  BY <1>1, <1>2 DEF IInv, TypeOK, Sound
<1>4. Keys' /\ Silent' /\ Awaiting' /\ WaitIsTimed' /\ Unheard' /\ Answering'
  BY <1>1, <1>2 DEF IInv, Keys, Silent, Awaiting, WaitIsTimed, Unheard, Answering
<1> QED
  BY <1>2, <1>3, <1>4 DEF IInv

\* Peer.Stop zeroes the keys once its routines are gone.
LEMMA StopEndInv ==
    ASSUME IInv, StopEnd
    PROVE  IInv'
<1>1. /\ life = "stopping" /\ life' = "down"
      /\ keyPairs' \in KeyPairs /\ keyPairs'.current = "none" /\ ~keyPairs'.next
      /\ nonce' \in NonceState /\ nonce'.at = "next" /\ ~nonce'.awaiting
      /\ queue' = <<>> /\ outbound' = <<>>
      /\ UNCHANGED <<timers, firing, sender, receiver, faults>>
  BY DEF StopEnd, KeyPairs, NextPacket, NonceState
<1>2. <<>> \in Seq(Packet)
  BY SMT
<1>3. TypeOK' /\ Sound(timers')
  BY <1>1, <1>2 DEF IInv, TypeOK
<1>4. Keys' /\ Silent' /\ Awaiting' /\ WaitIsTimed' /\ Unheard' /\ Answering'
  BY <1>1 DEF IInv, Keys, Silent, Awaiting, WaitIsTimed, Unheard, Answering
<1> QED
  BY <1>3, <1>4 DEF IInv

-----------------------------------------------------------------------------
(* Theorems.                                                               *)

\* A peer that has just been started.
LEMMA InitInv == Init => IInv
<1> SUFFICES ASSUME Init PROVE IInv
  OBVIOUS
<1>1. <<>> \in Seq(Packet) /\ 0 \in 0 .. MaxTimerHandshakes + 1
  BY SMT
<1>2. Sound(timers)
  BY <1>1 DEF Init, Sound, TimersState
<1>3. TypeOK
  BY <1>1, <1>2 DEF Init, Sound, TypeOK, KeyPairs, NonceState, NextPacket
<1>4. Keys /\ Silent /\ Awaiting /\ WaitIsTimed /\ Unheard /\ Answering
  BY DEF Init, NextPacket, Keys, Silent, Awaiting, WaitIsTimed, Waiting, Unheard, Answering
<1> QED
  BY <1>2, <1>3, <1>4 DEF IInv

\* Steps of other parts.
LEMMA StutterInv == ASSUME IInv, UNCHANGED vars PROVE IInv'
<1>1. /\ UNCHANGED <<life, timers, firing, keyPairs, queue, outbound, nonce, sender, receiver>>
      /\ UNCHANGED <<signals, owed, unheard, faults>>
  BY DEF vars
<1>2. TypeOK' /\ Sound(timers')
  BY <1>1 DEF IInv, TypeOK
<1>3. Keys' /\ Silent' /\ Awaiting' /\ WaitIsTimed'
  BY <1>1 DEF IInv, Keys, Silent, Awaiting, WaitIsTimed, Waiting
<1>4. Unheard' /\ Answering'
  BY <1>1 DEF IInv, Unheard, Answering, OnItsWay
<1> QED
  BY <1>2, <1>3, <1>4 DEF IInv

\* Every step of the routines, of the handshake workers, of the callbacks, of time and of
\* Peer.Stop preserves the invariant.
LEMMA NextInv == IInv /\ [Next]_vars => IInv'
<1> SUFFICES ASSUME IInv, [Next]_vars PROVE IInv'
  OBVIOUS
<1>1. CASE RoutineReadFromTUN
  BY <1>1, ReadFromTUNInv
<1>2. CASE RoutineNonce
  BY <1>2, NonceTakeInv, NonceAwaitInv, NonceWakeInv, NonceFlushInv DEF RoutineNonce
<1>3. CASE RoutineSequentialSender
  BY <1>3, SenderSendInv, SenderFailInv, SenderStopInv DEF RoutineSequentialSender
<1>4. CASE RoutineSequentialReceiver
  BY <1>4, ReceiverStopInv, ReceiverResetInv DEF RoutineSequentialReceiver
<1>5. CASE Receive
  BY <1>5, ReceiverTakeInv, ReceiverPromoteInv DEF Receive, Packet
<1>6. CASE \/ RoutineHandshakeInitiation \/ RoutineHandshakeResponse
            \/ \E secs \in {"off", "short", "long"} : SetPersistentKeepalive(secs)
  BY <1>6, HandshakeInitiationInv, HandshakeResponseInv, SetPersistentKeepaliveInv
<1>7. CASE \E x \in Timer : Fire(x)
  BY <1>7, FireInv
<1>8. CASE Expire
  BY <1>8, RetransmitHandshakeInv, SendKeepaliveInv, NewHandshakeInv, ZeroKeyMaterialInv,
     PersistentKeepaliveInv DEF Expire
<1>9. CASE Elapse \/ Age \/ StopBegin \/ StopEnd
  BY <1>9, ElapseInv, AgeInv, StopBeginInv, StopEndInv
<1>10. CASE UNCHANGED vars
  BY <1>10, StutterInv
<1> QED
  BY <1>1, <1>2, <1>3, <1>4, <1>5, <1>6, <1>7, <1>8, <1>9, <1>10 DEF Next

\* The inductive invariant holds in every reachable state.
THEOREM Invariance == Spec => []IInv
<1>1. Init => IInv
  BY InitInv
<1>2. IInv /\ [Next]_vars => IInv'
  BY NextInv
<1> QED
  BY <1>1, <1>2, PTL DEF Spec

\* The variables keep their types; in particular handshakeAttempts never exceeds
\* MaxTimerHandshakes + 1, where expiredRetransmitHandshake gives up.
THEOREM TypeCorrect == Spec => []TypeOK
<1>1. IInv => TypeOK
  BY DEF IInv
<1> QED
  BY <1>1, Invariance, PTL

\* There is key material only as long as zeroKeyMaterial is set, whatever the order in
\* which handshakes, callbacks and Peer.Stop come.
THEOREM KeyMaterialTimed == Spec => []KeysTimed
<1>1. IInv => KeysTimed
  BY DEF IInv, Keys, KeysTimed
<1> QED
  BY <1>1, Invariance, PTL

\* No timer of a stopped peer is set, and no callback sends on a closed queue, unless one
\* was under way when timersStop ran.
THEOREM StopSilences == Spec => []StoppedSilent
<1>1. IInv => StoppedSilent
  BY DEF IInv, Silent, StoppedSilent
<1> QED
  BY <1>1, Invariance, PTL

\* The state half of PacketResolved: RoutineNonce never waits for a key pair with neither a
\* retransmission timed nor a signal to wake it, except where it is stranded: it began to
\* wait, or the last retransmission expired, when SendHandshakeInitiation sent nothing
\* because of RekeyTimeout or because CreateMessageInitiation returned an error.
THEOREM WaitsAreTimed == Spec => []WaitIsTimed
<1>1. IInv => WaitIsTimed
  BY DEF IInv
<1> QED
  BY <1>1, Invariance, PTL

\* After data was sent and nothing heard, the newHandshake timer is set, or will be by the
\* sender, unless Del and Mod have collided.
SilenceIsTimed ==
    life = "up" /\ unheard =>
        sender = "stop" \/ "newHandshake" \in timers.armed \/ Torn("newHandshake")

\* The state half of SilenceNoticed.
THEOREM SilencesAreTimed == Spec => []SilenceIsTimed
<1>1. IInv => SilenceIsTimed
  BY DEF IInv, Unheard, SilenceIsTimed, Torn
<1> QED
  BY <1>1, Invariance, PTL

\* After data was received and nothing sent, a packet is on its way, or sendKeepalive is
\* set, will be by the receiver, or has expired, unless Del and Mod have collided.
AnswerIsTimed ==
    life = "up" /\ owed =>
        \/ OnItsWay
        \/ "sendKeepalive" \in timers.armed \cup firing \/ receiver = "reset"
        \/ Torn("sendKeepalive") \/ "failed" \in faults

\* The state half of DataAnswered.
THEOREM AnswersAreTimed == Spec => []AnswerIsTimed
<1>1. IInv => AnswerIsTimed
  BY DEF IInv, Answering, AnswerIsTimed, Torn
<1> QED
  BY <1>1, Invariance, PTL
=============================================================================
