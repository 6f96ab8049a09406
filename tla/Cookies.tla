------------------------------- MODULE Cookies -------------------------------
(***************************************************************************)
(* What a device does with handshake messages when it is under load        *)
(* (cookie.go, RoutineHandshake and addToHandshakeQueue in receive.go,     *)
(* IsUnderLoad in device.go), and the peer that has to get through.        *)
(*                                                                         *)
(* The device has several handshake workers and one CookieChecker; the     *)
(* peer has one CookieGenerator.  Messages of other peers share the queue  *)
(* and make the device busy.  A cookie is the MAC of an address under the  *)
(* secret of the checker.  Secrets are random, so a cookie made with an    *)
(* earlier secret never fits again, and is not told apart from having no   *)
(* cookie: a cookie is the address it was made for, or None.  MAC2 is the  *)
(* MAC of the message under a cookie, and stands for the cookie.  A        *)
(* message is told apart by the MAC1 it carries.  Time passes in ticks of  *)
(* RekeyTimeout, the shortest time between two initiations; ages beyond    *)
(* RefreshTime are not told apart, and the zero time of secretSet and      *)
(* cookieSet is such an age.                                               *)
(***************************************************************************)
EXTENDS Naturals, Sequences, FiniteSets

CONSTANTS
    Worker,             \* the handshake workers of the device
    Mac1,               \* the values of the MAC1 field of the peer's messages
    Address,            \* the addresses the peer may send from
    RefreshTime,        \* CookieRefreshTime, in ticks
    QueueSize,          \* QueueHandshakeSize
    UnderLoadQueueSize,
    Elsewhere,          \* the addresses of other peers
    None

ASSUME CookiesAssumption ==
    /\ IsFiniteSet(Worker) /\ Worker # {}
    /\ RefreshTime \in Nat \ {0}
    /\ QueueSize \in Nat \ {0} /\ UnderLoadQueueSize \in 1..QueueSize
    /\ Elsewhere # None /\ {None, Elsewhere} \cap (Mac1 \cup Address) = {}

VARIABLES
    \* CookieChecker and the queue of the device
    secretAge,  \* the time since mac2.secretSet
    queue,      \* queue.handshake
    loaded,     \* rate.underLoadUntil lies ahead
    worker,     \* where each handshake worker is, and the message it handles
    \* CookieGenerator and the handshake of the peer
    generator,
    address,    \* where the peer sends from
    asking,     \* the peer wants a handshake
    sent,       \* and has sent an initiation in this tick
    replies,    \* cookie replies under way to the peer
    \* history
    given       \* the time since a cookie was last made for an address

vars == <<secretAge, queue, loaded, worker, generator, address, asking, sent,
          replies, given>>
device == <<secretAge, loaded>>
peer   == <<generator, address, asking, sent>>

Expired == RefreshTime + 1
Older(age) == IF age = Expired THEN Expired ELSE age + 1
Cookie == Address \cup {None}

\* Messages of other peers pass CheckMAC1 and carry no MAC2 the device would accept.
Foreign == [mac1 |-> None, mac2 |-> None, src |-> Elsewhere]
Message == [mac1 : Mac1, mac2 : Cookie, src : Address] \cup {Foreign}

Idle == [at |-> "next", msg |-> Foreign]

\* cookie and cookieSet; a cookie that does not fit may be of any age.
Holding(g, c) == [g EXCEPT !.cookie = c, !.age = IF c = None THEN Expired ELSE 0]

\* NewPeer: CookieGenerator.Init on a fresh peer.
NewGenerator == [lastMAC1 |-> None, cookie |-> None, age |-> Expired]

Init ==
    /\ secretAge = Expired
    /\ queue = <<>> /\ loaded = FALSE
    /\ worker = [w \in Worker |-> Idle]
    /\ generator = NewGenerator
    /\ address \in Address /\ asking = FALSE /\ sent = FALSE
    /\ replies = {}
    /\ given = [a \in Address |-> Expired]

Handled == {worker[w].msg : w \in Worker}
Pending == {queue[i] : i \in DOMAIN queue} \cup Handled
\* A MAC1 of which nothing is under way any more may stand for a new message.
Outstanding == {m.mac1 : m \in Pending} \cup {r.mac1 : r \in replies}
\* No worker handles a message of the peer and no reply to it is under way: that takes
\* milliseconds.  A message may have to wait in the queue.
Quiet == replies = {} /\ Handled \subseteq {Foreign}
Late  == ~(Pending \subseteq {Foreign}) \/ (asking /\ ~sent)

------------------------------------------------------------------------------
(* The device: receiving, and its workers                                    *)

\* addToHandshakeQueue: the oldest element makes room for the new one.
addToHandshakeQueue(q, m) == Append(IF Len(q) = QueueSize THEN Tail(q) ELSE q, m)

EvictsPeer == Len(queue) = QueueSize /\ queue[1] # Foreign

\* RoutineReceiveIncoming queues a message of another peer.
ReceiveForeign ==
    /\ queue' = addToHandshakeQueue(queue, Foreign)
    /\ UNCHANGED <<device, worker, peer, replies, given>>

Goto(w, at) == worker' = [worker EXCEPT ![w].at = at]
Done(w)     == worker' = [worker EXCEPT ![w] = Idle]

\* RoutineHandshake takes an element from the queue.  CheckMAC1 holds: every message is made
\* for the key of the device.
Take(w) ==
    /\ worker[w].at = "next" /\ queue # <<>>
    /\ queue' = Tail(queue)
    /\ worker' = [worker EXCEPT ![w] = [at |-> "check", msg |-> Head(queue)]]
    /\ UNCHANGED <<device, peer, replies, given>>

IsUnderLoad == loaded \/ Len(queue) >= UnderLoadQueueSize

AnyAge(m) == m.mac2 = m.src   \* mutant: expired secrets count

CheckMAC2(m) ==
    /\ secretAge <= RefreshTime
    /\ m.mac2 = m.src

\* ratelimiter.Allow refuses when too much came from this address; the peer alone sends
\* one initiation in a tick, so then others there have used it up.
Limited(w) ==
    /\ worker[w].at = "check" /\ IsUnderLoad /\ CheckMAC2(worker[w].msg)
    /\ loaded' = TRUE
    /\ Done(w)
    /\ UNCHANGED <<secretAge, queue, peer, replies, given>>

\* The message is handed to ConsumeMessageInitiation or ConsumeMessageResponse.
Admit(w) ==
    /\ worker[w].at = "check" /\ (IsUnderLoad => CheckMAC2(worker[w].msg))
    /\ loaded' = IsUnderLoad
    /\ Done(w)
    /\ IF worker[w].msg = Foreign
       THEN UNCHANGED asking
       ELSE asking' = FALSE
    /\ UNCHANGED <<secretAge, queue, generator, address, sent, replies, given>>

Refuse(w) ==
    /\ worker[w].at = "check" /\ IsUnderLoad /\ ~CheckMAC2(worker[w].msg)
    /\ loaded' = TRUE
    /\ Goto(w, "reply")
    /\ UNCHANGED <<secretAge, queue, peer, replies, given>>

AlwaysRefresh(w) ==                   \* mutant: every reply takes a new secret
    /\ worker[w].at = "reply"
    /\ Goto(w, "refresh")
    /\ UNCHANGED <<device, queue, peer, replies, given>>

\* CreateReply up to RUnlock.
CreateReply(w) ==
    /\ worker[w].at = "reply"
    /\ Goto(w, IF secretAge > RefreshTime THEN "refresh" ELSE "derive")
    /\ UNCHANGED <<device, queue, peer, replies, given>>

\* The secret is overwritten: no cookie made with it fits any more.
NewSecret(w) ==
    /\ queue' = [i \in DOMAIN queue |-> [queue[i] EXCEPT !.mac2 = None]]
    /\ worker' = [v \in Worker |-> [worker[v] EXCEPT !.msg.mac2 = None,
                                                     !.at = IF v = w THEN "derive" ELSE @]]
    /\ generator' = Holding(generator, None)
    /\ replies' = {[r EXCEPT !.cookie = None] : r \in replies}
    /\ given' = [a \in Address |-> Expired]

\* CreateReply between Lock and Unlock.
Refresh(w) ==
    /\ worker[w].at = "refresh"
    /\ NewSecret(w)
    /\ secretAge' = 0
    /\ UNCHANGED <<loaded, address, asking, sent>>

\* CreateReply after the second RLock, and bind.Send.  The reply can only be decrypted
\* with the MAC1 it answers and the key of the device.
Derive(w) ==
    LET m == worker[w].msg IN
    /\ worker[w].at = "derive"
    /\ Done(w)
    /\ IF m = Foreign
       THEN UNCHANGED <<replies, given>>
       ELSE /\ given' = [given EXCEPT ![m.src] = 0]
            /\ replies' = replies \cup
                 {[mac1 |-> m.mac1, cookie |-> m.src]}
    /\ UNCHANGED <<device, queue, peer>>

\* CreateReply returns an error: rand.Read failed for the secret or for the nonce.
ReplyFails(w) ==
    /\ worker[w].at \in {"refresh", "derive"}
    /\ Done(w)
    /\ UNCHANGED <<device, queue, peer, replies, given>>

\* A second has passed since the queue was last found long.
LoadPasses ==
    /\ loaded /\ loaded' = FALSE
    /\ UNCHANGED <<secretAge, queue, worker, peer, replies, given>>

\* SetPrivateKey: CookieChecker.Init, with the key the device has.
SetPrivateKey ==
    /\ secretAge' = Expired
    /\ UNCHANGED <<queue, loaded, worker, peer, replies, given>>

------------------------------------------------------------------------------
(* The peer                                                                  *)

Ask ==
    /\ ~asking /\ Pending \subseteq {Foreign} /\ asking' = TRUE
    /\ UNCHANGED <<device, queue, worker, generator, address, sent, replies, given>>

AddMacs(g, m1) == [mac1 |-> m1, src |-> address,
                   mac2 |-> IF g.age > RefreshTime THEN None ELSE g.cookie]

\* SendHandshakeInitiation: AddMacs sets MAC1, remembers it and sets MAC2 when there is a
\* recent cookie.  The datagram reaches the queue of the device or is lost.  As a bound, one
\* message of the peer at a time is at the device.
Send(arrives) ==
    /\ asking /\ ~sent /\ Pending \subseteq {Foreign} /\ Mac1 \ Outstanding # {}
    /\ LET m1 == CHOOSE x \in Mac1 \ Outstanding : TRUE IN
       /\ generator' = [generator EXCEPT !.lastMAC1 = m1]
       /\ queue' = IF arrives THEN addToHandshakeQueue(queue, AddMacs(generator, m1)) ELSE queue
    /\ sent' = TRUE
    /\ UNCHANGED <<device, worker, address, asking, replies, given>>

\* ConsumeReply, for a reply whose receiver index is still the one of the handshake: a new
\* initiation replaces the index and the MAC1 together.
ConsumeReply(r) ==
    /\ r \in replies /\ replies' = replies \ {r}
    /\ generator' = IF generator.lastMAC1 = r.mac1
                    THEN Holding(generator, r.cookie)
                    ELSE generator
    /\ UNCHANGED <<device, queue, worker, address, asking, sent, given>>

LoseReply(r) ==
    /\ r \in replies /\ replies' = replies \ {r}
    /\ UNCHANGED <<device, queue, worker, peer, given>>

\* The peer moves between two exchanges; what is sent to the old address is lost.
Roam ==
    /\ Pending \subseteq {Foreign}
    /\ address' \in Address \ {address}
    /\ replies' = {}
    /\ UNCHANGED <<device, queue, worker, generator, asking, sent, given>>

\* RekeyTimeout passes: another initiation may be sent.
Tick ==
    /\ Quiet
    /\ secretAge' = Older(secretAge)
    /\ generator' = IF generator.age < RefreshTime
                    THEN [generator EXCEPT !.age = @ + 1] ELSE Holding(generator, None)
    /\ given' = [a \in Address |-> Older(given[a])]
    /\ sent' = FALSE
    /\ UNCHANGED <<queue, loaded, worker, address, asking, replies>>

------------------------------------------------------------------------------
Routine(w) ==
    \/ Take(w) \/ Admit(w) \/ Refuse(w)
    \/ CreateReply(w) \/ Refresh(w) \/ Derive(w)

Next ==
    \/ \E w \in Worker : Routine(w) \/ Limited(w) \/ ReplyFails(w)
    \/ ReceiveForeign \/ LoadPasses \/ SetPrivateKey
    \/ Ask \/ Send(TRUE) \/ Send(FALSE) \/ Roam \/ Tick
    \/ \E r \in replies : ConsumeReply(r) \/ LoseReply(r)

Spec == Init /\ [][Next]_vars

\* The workers run, replies arrive, time passes and a peer that wants a handshake retries
\* (expiredRetransmitHandshake); the load, losses and changes of the key or the address are
\* not forced.
FairSpec ==
    /\ Spec
    /\ \A w \in Worker : WF_vars(Routine(w))
    /\ WF_vars(Send(TRUE)) /\ SF_vars(Tick)
    /\ WF_vars(\E r \in replies : ConsumeReply(r))

------------------------------------------------------------------------------
(* Properties                                                                *)

\* CheckMAC2 accepts a message only from an address the device made a cookie for within the
\* last CookieRefreshTime, whatever the workers that refresh the secret, SetPrivateKey and
\* the roaming of the peer do in between.
CookieRecent ==
    \A m \in Pending \ {Foreign} : CheckMAC2(m) => given[m.src] <= RefreshTime

\* What the code cannot answer for: datagrams lost or evicted, the limiter used up by
\* others, no entropy, a change of the key or the address, or waiting for longer than RekeyTimeout.
Disturbed ==
    \/ EvictsPeer /\ (ReceiveForeign \/ Send(TRUE))
    \/ Send(FALSE) \/ SetPrivateKey \/ Roam
    \/ Late /\ Tick
    \/ \E w \in Worker : worker[w].msg # Foreign /\ (Limited(w) \/ ReplyFails(w))
    \/ \E r \in replies : r.mac1 = generator.lastMAC1 /\ LoseReply(r)

\* A device that is under load all the time still lets in a peer that keeps trying, once it
\* is left undisturbed: the cookie it is sent is in time for the next initiation.  Workers
\* that find the secret expired at once all replace it (CreateReply unlocks before it locks
\* for writing) and spoil cookies just sent; that the peer gets through all the same needs a
\* secret that lives for at least as many ticks as there are workers.
EventuallyAdmitted ==
    \/ []<><<Disturbed>>_vars
    \/ asking ~> ~asking
==============================================================================
