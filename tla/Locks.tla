-------------------------------- MODULE Locks --------------------------------
(***************************************************************************)
(* The mutexes of a device and of one of its peers, and the order in which *)
(* the goroutines take them.                                               *)
(*                                                                         *)
(* An operation is the sequence of its lock operations, as the code        *)
(* performs them; a goroutine carries what is left of the operation it is  *)
(* in.  Where the code may return early there is a choice.  Where the code *)
(* waits for nothing while it holds a lock, it acquires and releases it in *)
(* one step.  Locks under which nothing else is ever locked are left out   *)
(* (the key pairs, the index table, the tries, the cookies).               *)
(*                                                                         *)
(* The peer has been created; once it is removed, it does not come back.   *)
(***************************************************************************)
EXTENDS Naturals, Sequences

CONSTANTS Goroutine,       \* some of the goroutines below, connections and workers
          Connection,      \* goroutines of ipcHandle
          Worker,          \* goroutines of RoutineHandshake
          Nil

\* The goroutines there is one of: the routines of the peer, the readers of the TUN
\* device and of its events, an expired timer of the peer, and the caller of Close.
Single == {"nonce", "sender", "receiver", "reader", "events", "timer", "closer"}

ASSUME LocksAssumption ==
    /\ Goroutine \subseteq Connection \cup Worker \cup Single
    /\ Connection \cap Worker = {} /\ (Connection \cup Worker) \cap Single = {}
    /\ Nil \notin Goroutine

\* The routines that Peer.Start launches.
Routine == {"nonce", "sender", "receiver"} \cap Goroutine

VARIABLES locks,           \* sync.Mutex and sync.RWMutex: holders and pending writer
          todo,            \* the rest of the operation a goroutine is in
          alive,           \* the routines and workers that have not returned
          running,         \* peer.isRunning
          present,         \* the peer is in device.peers.keyMap
          closed           \* device.isClosed

vars == <<locks, todo, alive, running, present, closed>>

\* state to peers in the order of the fields of Device; then those of the Peer.
Lock == {"state", "net", "noise", "routing", "peers", "peer", "routines", "handshake"}

-----------------------------------------------------------------------------
(* Operations.                                                             *)

Holding(l, body) == <<[do |-> "lock", on |-> l]>> \o body \o <<[do |-> "unlock", on |-> l]>>

Reading(l, body) == <<[do |-> "rlock", on |-> l]>> \o body \o <<[do |-> "unlock", on |-> l]>>

\* Nothing is waited for while the lock is held.
Touching(l) == <<[do |-> "touch", on |-> l]>>

Peeking(l) == <<[do |-> "peek", on |-> l]>>

Step(name) == <<[do |-> name, on |-> Nil]>>

\* One of several ways to go on; a part that is left out after an early return.
Either(bodies) == <<[do |-> "either", on |-> bodies]>>

Maybe(body) == Either({<<>>, body})

\* A loop over device.peers.keyMap.
Each(body) == <<[do |-> "each", on |-> body]>>

SendBufferPeerFirst ==                \* mutant: the endpoint is looked at first
    Reading("peer", Maybe(Peeking("net")))

SendBuffer == Reading("net", Maybe(Peeking("peer")))

CreateMessageInitiation == Reading("noise", Touching("handshake"))

\* Nothing if an initiation was sent lately; nothing is sent if creating one fails.
SendHandshakeInitiation == Maybe(CreateMessageInitiation \o Maybe(SendBuffer))

LookupPeer == Peeking("peers")

SetEndpoint == Touching("peer")

CreateMessageResponse == Touching("handshake")

NewKeypair == Touching("handshake")

\* ConsumeMessageInitiation up to the update of the handshake: it ends without a static
\* key, for an unknown peer, or with a bad or an old timestamp.
RejectInitiation == Reading("noise", Maybe(LookupPeer \o Maybe(Peeking("handshake"))))

ConsumeMessageInitiation ==
    Reading("noise", LookupPeer \o Peeking("handshake") \o Touching("handshake"))

\* In another state of the handshake; or the response does not authenticate.
RejectResponse == Reading("handshake", Maybe(Peeking("noise")))

ConsumeMessageResponse ==
    Reading("handshake", Peeking("noise")) \o Touching("handshake")

RoutineHandshake == {
    RejectInitiation,
    ConsumeMessageInitiation \o SetEndpoint \o CreateMessageResponse
        \o Maybe(NewKeypair \o Maybe(SendBuffer)),
    RejectResponse,
    ConsumeMessageResponse \o SetEndpoint \o NewKeypair}

RoutineSequentialSender == SendBuffer \o SendHandshakeInitiation

RoutineSequentialReceiver == SetEndpoint \o SendHandshakeInitiation

\* expiredRetransmitHandshake and expiredNewHandshake, which clear the source address,
\* and expiredZeroKeyMaterial.
Expired == {SetEndpoint \o SendHandshakeInitiation, Touching("handshake")}

Start == Holding("routines", Step("launch"))

StopHolding ==                        \* mutant: the handshake is kept while waiting
    Holding("routines", Holding("handshake", Step("halt")))

Stop == Holding("routines", Step("halt"))

UnsafeRemovePeer == Stop \o Step("delete")

BindClose == Touching("net")

BindSetMark == Holding("net", Touching("peers"))

\* If the device is up and the sockets are opened, every cached source address is cleared.
BindUpdate == Holding("net", Holding("peers", Maybe(Each(Touching("peer")))))

DeviceUpdateState ==
    Holding("state", Either({
        <<>>,
        BindUpdate \o Maybe(Holding("peers", Each(Start))),
        BindClose \o Holding("peers", Each(Stop))}))
    \o Touching("state")

\* Up and Down; deviceUpdateState may leave the change to another caller.
UpOrDown == Touching("state") \o Maybe(DeviceUpdateState)

RemovePeer == Holding("noise", Holding("routing", Holding("peers", Each(UnsafeRemovePeer))))

RemoveAllPeers == RemovePeer

\* The peer is removed if its key matches, or shares a zero secret with the new one.
SetPrivateKey ==
    Holding("noise", Holding("routing", Holding("peers",
        Each(Reading("handshake", Maybe(UnsafeRemovePeer))))))

Close == Holding("state", BindClose \o Step("wait") \o RemoveAllPeers)

\* Another peer is created, whose own locks nobody else knows yet.
NewPeer == Holding("state", Reading("noise", Touching("peers")))

IpcGet ==
    Reading("net", Reading("noise", Reading("routing", Holding("peers",
        Each(Peeking("peer"))))))

\* The lines of a set operation: public_key, preshared_key, endpoint, allowed_ip,
\* listen_port, fwmark, private_key, remove and replace_peers.
IpcSet == {
    Peeking("noise") \o LookupPeer \o Maybe(NewPeer),
    Touching("handshake"), Touching("peer"), Touching("routing"),
    Touching("net") \o BindUpdate, BindSetMark, SetPrivateKey, RemovePeer}

\* What a goroutine may do next.
Operations(g) ==
    CASE g \in Connection          -> IpcSet \cup {IpcGet}
      [] g \in Worker              -> RoutineHandshake
      [] g \in {"nonce", "reader"} -> {SendHandshakeInitiation}
      [] g = "sender"              -> {RoutineSequentialSender}
      [] g = "receiver"            -> {RoutineSequentialReceiver}
      [] g = "timer"               -> Expired
      [] g = "events"              -> {UpOrDown}
      [] g = "closer"              -> {Close}

-----------------------------------------------------------------------------
(* sync.RWMutex: a writer announces itself, which keeps further readers    *)
(* out, and waits for the readers that are left.  sync.Mutex is used as    *)
(* one that nobody reads.                                                  *)

Free(l) == locks[l].writer = Nil /\ locks[l].pending = Nil

Current(g) == IF todo[g] = <<>> THEN [do |-> "idle", on |-> Nil] ELSE Head(todo[g])

\* g goes on with s.
Continue(g, s) == todo' = [todo EXCEPT ![g] = s]

Acquire(g) ==
    LET do == Current(g).do
        l  == Current(g).on
    IN  /\ do \in {"lock", "touch"}
        /\ locks[l].readers = {} /\ locks[l].writer = Nil
        /\ locks[l].pending \in {Nil, g}
        /\ locks' = [locks EXCEPT ![l].writer = IF do = "lock" THEN g ELSE Nil,
                                  ![l].pending = Nil]
        /\ Continue(g, Tail(todo[g]))
        /\ UNCHANGED <<alive, running, present, closed>>

\* RWMutex.Lock as far as the wait for readers.
Announce(g) ==
    LET l == Current(g).on IN
    /\ Current(g).do \in {"lock", "touch"}
    /\ Free(l) /\ locks[l].readers # {}
    /\ locks' = [locks EXCEPT ![l].pending = g]
    /\ UNCHANGED <<todo, alive, running, present, closed>>

AcquireRead(g) ==
    LET do == Current(g).do
        l  == Current(g).on
    IN  /\ do \in {"rlock", "peek"}
        /\ Free(l)
        /\ locks' = IF do = "rlock" THEN [locks EXCEPT ![l].readers = @ \cup {g}] ELSE locks
        /\ Continue(g, Tail(todo[g]))
        /\ UNCHANGED <<alive, running, present, closed>>

Release(g) ==
    LET l == Current(g).on IN
    /\ Current(g).do = "unlock"
    /\ locks' = [locks EXCEPT ![l].writer = IF @ = g THEN Nil ELSE @, ![l].readers = @ \ {g}]
    /\ Continue(g, Tail(todo[g]))
    /\ UNCHANGED <<alive, running, present, closed>>

-----------------------------------------------------------------------------
(* The other steps.                                                        *)

\* A goroutine begins an operation: a routine or a worker as long as it has not
\* returned (select may prefer a packet to the signal to stop), Close only once.
Begin(g) ==
    /\ todo[g] = <<>>
    /\ g \in Routine \cup Worker => g \in alive
    /\ g = "closer" => ~closed
    /\ closed' = (closed \/ g = "closer")
    /\ \E s \in Operations(g) : Continue(g, s)
    /\ UNCHANGED <<locks, alive, running, present>>

Choose(g) ==
    /\ Current(g).do = "either"
    /\ \E body \in Current(g).on : Continue(g, body \o Tail(todo[g]))
    /\ UNCHANGED <<locks, alive, running, present, closed>>

Loop(g) ==
    /\ Current(g).do = "each"
    /\ Continue(g, (IF present THEN Current(g).on ELSE <<>>) \o Tail(todo[g]))
    /\ UNCHANGED <<locks, alive, running, present, closed>>

\* A routine finds peer.routines.stop closed, a worker device.signals.stop.
Exit(g) ==
    /\ todo[g] = <<>>
    /\ g \in alive
    /\ \/ g \in Routine /\ ~running
       \/ g \in Worker /\ \E h \in Goroutine : Current(h).do = "wait"
    /\ alive' = alive \ {g}
    /\ UNCHANGED <<locks, todo, running, present, closed>>

Launch(g) ==
    /\ Current(g).do = "launch"
    /\ running' = (running \/ ~closed)
    /\ alive' = IF running \/ closed THEN alive ELSE alive \cup Routine
    /\ Continue(g, Tail(todo[g]))
    /\ UNCHANGED <<locks, present, closed>>

\* The routines are told to stop and waited for; then the handshake is cleared.
Halt(g) ==
    /\ Current(g).do = "halt"
    /\ running' = FALSE
    /\ Continue(g, (IF running THEN Step("join") \o Touching("handshake") ELSE <<>>)
                   \o Tail(todo[g]))
    /\ UNCHANGED <<locks, alive, present, closed>>

Join(g) ==
    /\ \/ Current(g).do = "join" /\ alive \cap Routine = {}
       \/ Current(g).do = "wait" /\ alive \cap Worker = {}
    /\ Continue(g, Tail(todo[g]))
    /\ UNCHANGED <<locks, alive, running, present, closed>>

Delete(g) ==
    /\ Current(g).do = "delete"
    /\ present' = FALSE
    /\ Continue(g, Tail(todo[g]))
    /\ UNCHANGED <<locks, alive, running, closed>>

-----------------------------------------------------------------------------

\* A device that has been brought up, with its peer.
Init ==
    /\ locks = [l \in Lock |-> [writer |-> Nil, readers |-> {}, pending |-> Nil]]
    /\ todo = [g \in Goroutine |-> <<>>]
    /\ alive = Routine \cup Worker
    /\ running = TRUE /\ present = TRUE /\ closed = FALSE

Next == \E g \in Goroutine :
    \/ Begin(g) \/ Choose(g) \/ Loop(g) \/ Exit(g)
    \/ Acquire(g) \/ Announce(g) \/ AcquireRead(g) \/ Release(g)
    \/ Launch(g) \/ Halt(g) \/ Join(g) \/ Delete(g)

Spec == Init /\ [][Next]_vars

-----------------------------------------------------------------------------
(* Properties.                                                             *)

\* The goroutines g waits for.
Blockers(g) ==
    LET do == Current(g).do
        l  == locks[Current(g).on]
    IN  CASE do \in {"lock", "touch"} -> IF l.pending = g THEN l.readers ELSE {l.writer, l.pending} \ {Nil}
          [] do \in {"rlock", "peek"} -> {l.writer, l.pending} \ {Nil}
          [] do = "join" -> alive \cap Routine
          [] do = "wait" -> alive \cap Worker
          [] OTHER -> {}

\* Goroutines each of which waits for one of them, none of which will ever go on.
CircularWaits ==
    LET waiting == {g \in Goroutine : Blockers(g) # {}}
        tied    == {g \in waiting : Blockers(g) \cap waiting # {}}
    IN  {S \in SUBSET tied : S # {} /\ \A g \in S : Blockers(g) \cap S # {}}

Writes(g, l) == g \in {locks[l].writer, locks[l].pending}

\* Handling packets, timers and changes of the state of the interface never ends in a
\* circular wait by itself: one always takes a goroutine that changes the keys, the set
\* of peers or the sockets, and has noise.mutex or net.mutex exclusively or waits for it.
CircularWaitsChange ==
    \A S \in CircularWaits : \E g \in S : Writes(g, "noise") \/ Writes(g, "net")

\* And it always takes one of two things: a peer that is stopped under those locks
\* (Peer.Stop waits for its routines), or a response that is consumed, which asks for the
\* private key while it holds the handshake (all others ask in the other order).
CircularWaitsExplained ==
    \A S \in CircularWaits : \E g \in S :
        \/ locks["routines"].writer = g
        \/ g \in locks["handshake"].readers /\ Current(g).on = "noise"
=============================================================================
