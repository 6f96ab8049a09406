------------------------------- MODULE Inbound -------------------------------
(***************************************************************************)
(* The inbound pipeline for transport messages (receive.go) of one peer,   *)
(* with Peer.Start and Peer.Stop: the receiving routines put an element in *)
(* the decryption queue and then in the peer's inbound queue, workers      *)
(* decrypt in any order, and RoutineSequentialReceiver takes the elements  *)
(* in order, waiting for the mutex of each.  It then rejects replays,      *)
(* takes over the endpoint, promotes the next key pair, checks the source  *)
(* address against the routing table and writes to the TUN device.         *)
(*                                                                         *)
(* Device.Close ends the workers and drops what they leave in the          *)
(* decryption queue, before it stops the peer.                             *)
(*                                                                         *)
(* A datagram is taken apart into what these steps look at; the network    *)
(* may deliver any datagram any number of times in any order.              *)
(***************************************************************************)
EXTENDS Naturals, Sequences

CONSTANTS Datagram,             \* datagrams of the network: records
          Initiated,            \* the key pairs of handshakes that this end initiated
          Receiver,             \* RoutineReceiveIncoming: one for IPv4, one for IPv6
          Worker,               \* RoutineDecryption instances (NumCPU)
          DecryptionSize,       \* capacities of the channels: QueueInboundSize
          InboundSize,
          Stops,                \* whether the peer is stopped and started again
          Closes,               \* whether the device is closed
          Nil,
          MaxElements           \* bound: elements in a behaviour

\* key: the key pair its receiver index names; counter; genuine: whether it opens
\* under that key; endpoint: where it came from; keepalive: whether it carries no packet.
ASSUME DatagramAssumption ==
    \A d \in Datagram : /\ DOMAIN d = {"key", "counter", "genuine", "endpoint", "keepalive"}
                        /\ {d.genuine, d.keepalive} \subseteq BOOLEAN

\* The channels are buffered; Nil stands for no element, key, endpoint or address.
ASSUME SizeAssumption == {DecryptionSize, InboundSize} \subseteq Nat \ {0} /\ Nil \notin Nat

VARIABLES elem,         \* the QueueInboundElements, in order of arrival
          decryption,   \* device.queue.decryption
          inbound,      \* peer.queue.inbound
          closed,       \* whether the inbound queue is closed
          incoming,     \* the receiving routines
          worker,       \* the element each RoutineDecryption holds, Nil when it has ended
          receiver,     \* RoutineSequentialReceiver
          filter,       \* the replay filters: counters seen, with their key
          endpoint,     \* peer.endpoint, as far as transport messages set it
          keypairs,     \* peer.keyPairs, and the keys derived so far
          phase,        \* how far Peer.Stop has got
          panicked,
          device,       \* how far Device.Close has got
          held          \* whether somebody has a lock that SendHandshakeInitiation takes
                        \* (noise.mutex, net.mutex) and keeps it until Peer.Stop returns

vars == <<elem, decryption, inbound, closed, incoming, worker, receiver, filter,
          endpoint, keypairs, phase, panicked, device, held>>

Key == {d.key : d \in Datagram}

\* accepted and delivered are history: past the replay filter, written to the TUN.
NewElement(d) == [datagram |-> d, dropped |-> FALSE, locked |-> TRUE,
                     opened |-> FALSE, accepted |-> FALSE, delivered |-> FALSE]

At(pc, e) == [pc |-> pc, elem |-> e]

Drop(e) == [elem EXCEPT ![e].dropped = TRUE]

DropSilently(e) == Drop(e)        \* mutant: not released to the receiver

DropAndRelease(e) == [elem EXCEPT ![e].dropped = TRUE, ![e].locked = FALSE]

-----------------------------------------------------------------------------
(* RoutineReceiveIncoming on a transport message.                          *)

\* The key pair is looked up, the element created and locked, and isRunning seen to
\* be true.  (The index of a key pair that the peer has given up is not found; an
\* expired key pair is refused.)  Device.Close closes the sockets, and does not wait for
\* a routine that has read a datagram.
Receive(r, d) ==
    /\ device = "open"
    /\ incoming[r].pc = "read"
    /\ d.key \in {keypairs.previous, keypairs.current, keypairs.next}
    /\ phase = "running"
    /\ Len(elem) < MaxElements
    /\ elem' = Append(elem, NewElement(d))
    /\ incoming' = [incoming EXCEPT ![r] = At("decrypt", Len(elem) + 1)]
    /\ UNCHANGED <<decryption, inbound, closed, worker, receiver, filter, endpoint,
                   keypairs, phase, panicked, device, held>>

\* addToDecryptionQueue: one turn of its loop.
QueueDecryption(r) ==
    /\ incoming[r].pc = "decrypt"
    /\ \/ /\ Len(decryption) < DecryptionSize
          /\ decryption' = Append(decryption, incoming[r].elem)
          /\ incoming' = [incoming EXCEPT ![r].pc = "inbound"]
          /\ UNCHANGED elem
       \/ /\ Len(decryption) = DecryptionSize
          /\ decryption' = Tail(decryption)
          /\ elem' = DropAndRelease(Head(decryption))
          /\ UNCHANGED incoming
    /\ UNCHANGED <<inbound, closed, worker, receiver, filter, endpoint, keypairs,
                   phase, panicked, device, held>>

\* addToInboundQueue: one turn of its loop.  The queue may be closed by now.
QueueInbound(r) ==
    /\ incoming[r].pc = "inbound"
    /\ \/ /\ closed
          /\ panicked' = TRUE
          /\ UNCHANGED <<elem, inbound, incoming>>
       \/ /\ ~closed
          /\ Len(inbound) < InboundSize
          /\ inbound' = Append(inbound, incoming[r].elem)
          /\ incoming' = [incoming EXCEPT ![r] = At("read", 0)]
          /\ UNCHANGED <<elem, panicked>>
       \/ /\ ~closed
          /\ Len(inbound) = InboundSize
          /\ inbound' = Tail(inbound)
          /\ elem' = Drop(Head(inbound))
          /\ UNCHANGED <<incoming, panicked>>
    /\ UNCHANGED <<decryption, closed, worker, receiver, filter, endpoint, keypairs,
                   phase, device, held>>

-----------------------------------------------------------------------------
(* RoutineDecryption.                                                      *)

WorkerTake(w) ==
    /\ worker[w] = 0
    /\ decryption # <<>>
    /\ decryption' = Tail(decryption)
    /\ worker' = [worker EXCEPT ![w] =
                    IF elem[Head(decryption)].dropped THEN 0 ELSE Head(decryption)]
    /\ UNCHANGED <<elem, inbound, closed, incoming, receiver, filter, endpoint, keypairs,
                   phase, panicked, device, held>>

WorkerOpenKept(w) ==        \* mutant: an element that does not open is not dropped
    /\ worker[w] \in DOMAIN elem
    /\ elem' = [elem EXCEPT ![worker[w]].opened = elem[worker[w]].datagram.genuine,
                            ![worker[w]].locked = FALSE]
    /\ worker' = [worker EXCEPT ![w] = 0]
    /\ UNCHANGED <<decryption, inbound, closed, incoming, receiver, filter, endpoint,
                   keypairs, phase, panicked, device, held>>

WorkerOpen(w) ==
    LET e == worker[w] IN
    /\ e \in DOMAIN elem
    /\ elem' = [elem EXCEPT ![e].opened = elem[e].datagram.genuine,
                            ![e].dropped = @ \/ ~elem[e].datagram.genuine,
                            ![e].locked = FALSE]
    /\ worker' = [worker EXCEPT ![w] = 0]
    /\ UNCHANGED <<decryption, inbound, closed, incoming, receiver, filter, endpoint,
                   keypairs, phase, panicked, device, held>>

\* signals.stop is selected, whatever is left in the queue.
WorkerStop(w) ==
    /\ worker[w] = 0
    /\ device # "open"
    /\ worker' = [worker EXCEPT ![w] = Nil]
    /\ UNCHANGED <<elem, decryption, inbound, closed, incoming, receiver, filter, endpoint,
                   keypairs, phase, panicked, device, held>>

-----------------------------------------------------------------------------
(* RoutineSequentialReceiver.                                              *)

ReceiverTake ==
    /\ receiver.pc = "idle"
    /\ inbound # <<>>
    /\ receiver' = At("lock", Head(inbound))
    /\ inbound' = Tail(inbound)
    /\ UNCHANGED <<elem, decryption, closed, incoming, worker, filter, endpoint, keypairs,
                   phase, panicked, device, held>>

ReceiverLockLearning ==        \* mutant: the endpoint is taken over at once
    LET e == receiver.elem IN
    /\ receiver.pc = "lock"
    /\ ~elem[e].locked
    /\ elem' = [elem EXCEPT ![e].locked = TRUE]
    /\ receiver' = IF elem[e].dropped THEN At("idle", 0) ELSE At("accept", e)
    /\ endpoint' = elem[e].datagram.endpoint
    /\ UNCHANGED <<decryption, inbound, closed, incoming, worker, filter, keypairs,
                   phase, panicked, device, held>>

\* The mutex is taken and never released.
ReceiverLock ==
    LET e == receiver.elem IN
    /\ receiver.pc = "lock"
    /\ ~elem[e].locked
    /\ elem' = [elem EXCEPT ![e].locked = TRUE]
    /\ receiver' = IF elem[e].dropped THEN At("idle", 0) ELSE At("accept", e)
    /\ UNCHANGED <<decryption, inbound, closed, incoming, worker, filter, endpoint,
                   keypairs, phase, panicked, device, held>>

\* mutant: every counter is new
FreshAlways(d) == TRUE

\* ValidateCounter, by what ReplayFilter shows of it.
Fresh(d) == <<d.key, d.counter>> \notin filter

Promoted(d) ==
    IF keypairs.next # d.key THEN keypairs
    ELSE [keypairs EXCEPT !.previous = keypairs.current, !.current = keypairs.next,
                          !.next = Nil]

\* The test for a keepalive.
Remaining(e) == IF elem[e].datagram.keepalive THEN At("idle", 0) ELSE At("deliver", e)

\* From the replay check to keepKeyFreshReceiving, which calls SendHandshakeInitiation when
\* the initiator's key pair is old and it has not done so before.
ReceiverAccept ==
    LET e == receiver.elem
        d == elem[e].datagram
    IN
    /\ receiver.pc = "accept"
    /\ \/ /\ ~Fresh(d)
          /\ receiver' = At("idle", 0)
          /\ UNCHANGED <<elem, filter, endpoint, keypairs>>
       \/ /\ Fresh(d)
          /\ elem' = [elem EXCEPT ![e].accepted = TRUE]
          /\ filter' = filter \cup {<<d.key, d.counter>>}
          /\ endpoint' = d.endpoint
          /\ keypairs' = Promoted(d)
          /\ \/ receiver' = Remaining(e)
             \/ Promoted(d).current \in Initiated /\ receiver' = At("initiate", e)
    /\ UNCHANGED <<decryption, inbound, closed, incoming, worker, phase, panicked,
                   device, held>>

ReceiverInitiate ==
    /\ receiver.pc = "initiate"
    /\ ~held
    /\ receiver' = Remaining(receiver.elem)
    /\ UNCHANGED <<elem, decryption, inbound, closed, incoming, worker, filter, endpoint,
                   keypairs, phase, panicked, device, held>>

\* The source is looked up in the routing table, which the configuration may change at any
\* moment, and the packet is written or not.
ReceiverDeliver ==
    LET e == receiver.elem IN
    /\ receiver.pc = "deliver"
    /\ receiver' = At("idle", 0)
    /\ \E b \in BOOLEAN : elem' = [elem EXCEPT ![e].delivered = b]
    /\ UNCHANGED <<decryption, inbound, closed, incoming, worker, filter, endpoint,
                   keypairs, phase, panicked, device, held>>

ReceiverStopClosed ==        \* mutant: only a closed queue ends the routine
    /\ receiver.pc = "idle"
    /\ closed
    /\ receiver' = At("stopped", 0)
    /\ UNCHANGED <<elem, decryption, inbound, closed, incoming, worker, filter, endpoint,
                   keypairs, phase, panicked, device, held>>

ReceiverStop ==
    /\ receiver.pc = "idle"
    /\ phase = "stopping"
    /\ receiver' = At("stopped", 0)
    /\ UNCHANGED <<elem, decryption, inbound, closed, incoming, worker, filter, endpoint,
                   keypairs, phase, panicked, device, held>>

-----------------------------------------------------------------------------
(* What other parts do to the peer.                                        *)

\* NewKeypair, as initiator or as responder (see Handshake), in a handshake worker: they
\* end before Device.Close goes on.
NewKeypair(k) ==
    /\ device \in {"open", "stopping"}
    /\ k \notin keypairs.derived
    /\ keypairs' =
         IF k \in Initiated
         THEN [previous |-> IF keypairs.next # Nil THEN keypairs.next ELSE keypairs.current,
               current |-> k, next |-> Nil, derived |-> keypairs.derived \cup {k}]
         ELSE [previous |-> Nil, current |-> keypairs.current, next |-> k,
               derived |-> keypairs.derived \cup {k}]
    /\ UNCHANGED <<elem, decryption, inbound, closed, incoming, worker, receiver, filter,
                   endpoint, phase, panicked, device, held>>

Stop ==
    /\ phase = "running"
    /\ (device = "open" /\ Stops) \/ device = "removing"
    /\ phase' = "stopping"
    /\ UNCHANGED <<elem, decryption, inbound, closed, incoming, worker, receiver, filter,
                   endpoint, keypairs, panicked, device, held>>

\* RemovePeer, RemoveAllPeers and SetPrivateKey call Stop under noise.mutex, and whoever
\* waits for peers.mutex meanwhile may have noise.mutex (the same three) or net.mutex
\* (BindUpdate, BindSetMark).  It shows when the receiver asks for one.
LockHeld ==
    /\ phase = "stopping"
    /\ receiver.pc = "initiate"
    /\ held' = TRUE
    /\ UNCHANGED <<elem, decryption, inbound, closed, incoming, worker, receiver, filter,
                   endpoint, keypairs, phase, panicked, device>>

StopFinish ==
    /\ phase = "stopping"
    /\ receiver.pc = "stopped"
    /\ phase' = "stopped"
    /\ closed' = TRUE
    /\ keypairs' = [keypairs EXCEPT !.previous = Nil, !.current = Nil, !.next = Nil]
    /\ held' = FALSE
    /\ UNCHANGED <<elem, decryption, inbound, incoming, worker, receiver, filter,
                   endpoint, panicked, device>>

Start ==
    /\ device = "open"
    /\ phase = "stopped"
    /\ phase' = "running"
    /\ closed' = FALSE
    /\ inbound' = <<>>
    /\ receiver' = At("idle", 0)
    /\ UNCHANGED <<elem, decryption, incoming, worker, filter, endpoint, keypairs,
                   panicked, device, held>>

\* The sockets are closed and signals.stop is closed.
Close ==
    /\ Closes
    /\ device = "open"
    /\ device' = "stopping"
    /\ UNCHANGED <<elem, decryption, inbound, closed, incoming, worker, receiver, filter,
                   endpoint, keypairs, phase, panicked, held>>

\* state.stopping.Wait() returns: the workers have ended.
CloseFlush ==
    /\ device = "stopping"
    /\ \A w \in Worker : worker[w] = Nil
    /\ device' = "flushing"
    /\ UNCHANGED <<elem, decryption, inbound, closed, incoming, worker, receiver, filter,
                   endpoint, keypairs, phase, panicked, held>>

\* FlushPacketQueues: one turn of its loop.  The element is dropped and not released.
\* RemoveAllPeers is next: it stops the peer.
FlushPacketQueues ==
    /\ device = "flushing"
    /\ \/ /\ decryption # <<>>
          /\ elem' = Drop(Head(decryption))
          /\ decryption' = Tail(decryption)
          /\ UNCHANGED device
       \/ /\ decryption = <<>>
          /\ device' = "removing"
          /\ UNCHANGED <<elem, decryption>>
    /\ UNCHANGED <<inbound, closed, incoming, worker, receiver, filter, endpoint, keypairs,
                   phase, panicked, held>>

-----------------------------------------------------------------------------

Init ==
    /\ elem = <<>> /\ decryption = <<>> /\ inbound = <<>>
    /\ closed = FALSE
    /\ incoming = [r \in Receiver |-> At("read", 0)]
    /\ worker = [w \in Worker |-> 0]
    /\ receiver = At("idle", 0)
    /\ filter = {}
    /\ endpoint = Nil
    /\ keypairs = [previous |-> Nil, current |-> Nil, next |-> Nil, derived |-> {}]
    /\ phase = "running"
    /\ panicked = FALSE
    /\ device = "open"
    /\ held = FALSE

Incoming(r) == QueueDecryption(r) \/ QueueInbound(r) \/ \E d \in Datagram : Receive(r, d)

RoutineDecryption(w) == WorkerTake(w) \/ WorkerOpen(w) \/ WorkerStop(w)

RoutineSequentialReceiver ==
    \/ ReceiverTake \/ ReceiverLock \/ ReceiverAccept \/ ReceiverInitiate
    \/ ReceiverDeliver \/ ReceiverStop

Closing == CloseFlush \/ FlushPacketQueues

Next ==
    /\ ~panicked
    /\ \/ \E r \in Receiver : Incoming(r)
       \/ \E w \in Worker : RoutineDecryption(w)
       \/ RoutineSequentialReceiver
       \/ \E k \in Key : NewKeypair(k)
       \/ Stop \/ LockHeld \/ StopFinish \/ Start \/ Close \/ Closing

\* A goroutine that can run does so eventually.  Nothing is assumed of the network, of
\* the callers of Stop and Start, or of Close.
Fairness ==
    /\ \A r \in Receiver : WF_vars(~panicked /\ (QueueDecryption(r) \/ QueueInbound(r)))
    /\ \A w \in Worker : WF_vars(~panicked /\ RoutineDecryption(w))
    /\ WF_vars(~panicked /\ RoutineSequentialReceiver)
    /\ WF_vars(~panicked /\ StopFinish)

Spec == Init /\ [][Next]_vars

FairSpec == Spec /\ Fairness

-----------------------------------------------------------------------------
(* Properties.                                                             *)

\* Whatever gets past the replay filter or to the TUN device has been decrypted: an
\* element whose mutex is free and that is not dropped has been through a worker and
\* was genuine, however it was evicted from one queue while it was in the other.
AcceptedGenuine ==
    \A e \in DOMAIN elem : elem[e].accepted \/ elem[e].delivered => elem[e].opened

\* No datagram is accepted twice, however often it is delivered, by whichever routine,
\* and even if the peer is stopped and started while copies are in the queues.
AcceptedOnce ==
    \A d, e \in DOMAIN elem :
        /\ d # e /\ elem[d].accepted /\ elem[e].accepted
        /\ elem[d].datagram.key = elem[e].datagram.key
        => elem[d].datagram.counter # elem[e].datagram.counter

\* The endpoint is the origin of a genuine message: a forged copy of a message from
\* elsewhere never redirects the peer.
EndpointGenuine ==
    endpoint # Nil =>
        \E e \in DOMAIN elem : elem[e].opened /\ elem[e].datagram.endpoint = endpoint

\* A receiver that waits for the mutex of an element gets it: whoever takes the element
\* out of the decryption queue releases it.  Unless the device is closed meanwhile: the
\* workers end first, and the elements they leave are never released.
ReceiverWaitEnds ==
    receiver.pc = "lock" ~> receiver.pc # "lock" \/ panicked \/ device # "open"

\* The wait of Peer.Stop for the sequential receiver ends while the device is open: it
\* sees the closed stop channel, whatever it was doing.  Unless it is to send an initiation,
\* and a lock that it waits for is not released before Peer.Stop returns.
ReceiverEnds ==
    phase = "stopping" ~>
        phase = "stopped" \/ panicked \/ device # "open" \/ (receiver.pc = "initiate" /\ held)

=============================================================================
