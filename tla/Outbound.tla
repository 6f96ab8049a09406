------------------------------ MODULE Outbound ------------------------------
(***************************************************************************)
(* The outbound pipeline (send.go) with Peer.Start/Stop and Device.Close:  *)
(* the TUN reader fills the nonce queue of a peer, RoutineNonce assigns    *)
(* nonces and puts each element in the shared encryption queue and in the  *)
(* peer's outbound queue, workers encrypt in any order, and                *)
(* RoutineSequentialSender takes the elements in order, waiting for the    *)
(* mutex of each.  An element is locked when it gets its nonce and         *)
(* unlocked by whoever takes it out of the encryption queue.               *)
(*                                                                         *)
(* One step is one channel operation, one critical section or one access   *)
(* to shared state.  Handshakes appear by their effect on peer.keyPairs.   *)
(* Sending on a closed channel ends the program (panicked).                *)
(***************************************************************************)
EXTENDS Naturals, Sequences

CONSTANTS Peer,
          Worker,               \* RoutineEncryption instances (NumCPU)
          NonceSize,            \* capacities of the channels: QueueOutboundSize
          OutboundSize,
          EncryptionSize,
          RejectAfterMessages,
          Stoppable,            \* peers that are stopped and started again
          Unsteady,             \* peers whose key pairs expire or handshakes fail
          Closes,               \* whether Device.Close is called
          Nil,
          MaxElements,          \* bound: packets and keepalives in a behaviour
          MaxKeys               \* bound: key pairs of a peer in a behaviour

\* The channels are buffered, and Nil is neither a worker's element nor its wait.
ASSUME OutboundAssumption ==
    /\ {NonceSize, OutboundSize, EncryptionSize} \subseteq Nat \ {0}
    /\ {RejectAfterMessages, MaxElements, MaxKeys} \subseteq Nat
    /\ Nil \notin Nat

VARIABLES elem,        \* the QueueOutboundElements, in the order they were queued
          queue,       \* peer.queue, by peer
          encryption,  \* device.queue.encryption
          reader,      \* the peer RoutineReadFromTUN is about to queue for
          nonce,       \* RoutineNonce, by peer
          worker,      \* the element each RoutineEncryption holds, or its end
          sender,      \* RoutineSequentialSender, by peer
          keys,        \* peer.keyPairs.current and its users, by peer
          signals,     \* peer.signals, by peer
          phase,       \* how far Peer.Stop has got, by peer
          device,      \* how far Device.Close has got
          last,        \* the last element that each sender gave to SendBuffer
          panicked,
          held         \* locks that routines of a peer ask for, and that nobody releases
                       \* before the Peer.Stop under way returns

vars == <<elem, queue, encryption, reader, nonce, worker, sender, keys, signals,
          phase, device, last, panicked, held>>

Id == 1 .. MaxElements

NewElement(p) == [peer |-> p, key |-> 0, nonce |-> 0, dropped |-> FALSE,
                  locked |-> FALSE, sealed |-> FALSE]

At(pc, e, k) == [pc |-> pc, elem |-> e, key |-> k]

NewQueues == [nonce |-> <<>>, outbound |-> <<>>, closed |-> FALSE, awaiting |-> FALSE]

\* Channels of capacity one.
NoSignals == [arrived |-> FALSE, flush |-> FALSE]

\* The locks that a routine waits for: net.mutex in SendBuffer, and noise.mutex before it in
\* SendHandshakeInitiation.  A lock that is held stays so until Peer.Stop returns, and the
\* two are taken in one step.
Wanted(r) == IF r.pc = "initiate" THEN {"noise", "net"}
             ELSE IF r.pc = "send" THEN {"net"} ELSE {}

Usable(p) == /\ keys[p].current # 0
             /\ keys[p].sendNonce[keys[p].current] < RejectAfterMessages
             /\ keys[p].fresh

Drop(e) == [elem EXCEPT ![e].dropped = TRUE]

DropSilently(e) == Drop(e)        \* mutant: not released to the sender

DropAndRelease(e) == [elem EXCEPT ![e].dropped = TRUE, ![e].locked = FALSE]

-----------------------------------------------------------------------------
(* RoutineReadFromTUN and SendKeepalive: into the nonce queue.             *)

\* A packet for p is read and p.isRunning is seen to be true.  (If RoutineNonce is
\* awaiting a key pair, an initiation is sent; packets of other lengths, versions or
\* destinations are skipped.)
ReadFromTUN(p) ==
    /\ reader = Nil
    /\ device = "open"
    /\ phase[p] = "running"
    /\ Len(elem) < MaxElements
    /\ reader' = p
    /\ UNCHANGED <<elem, queue, encryption, nonce, worker, sender, keys, signals, phase,
                   device, last, panicked, held>>

\* addToOutboundQueue(peer.queue.nonce, elem): one turn of its loop.
QueueForNonce(p) ==
    /\ reader = p
    /\ \/ /\ queue[p].closed
          /\ panicked' = TRUE
          /\ UNCHANGED <<elem, queue, reader>>
       \/ /\ ~queue[p].closed
          /\ Len(queue[p].nonce) < NonceSize
          /\ Len(elem) < MaxElements
          /\ elem' = Append(elem, NewElement(p))
          /\ queue' = [queue EXCEPT ![p].nonce = Append(@, Len(elem) + 1)]
          /\ reader' = Nil
          /\ UNCHANGED panicked
       \/ /\ ~queue[p].closed
          /\ Len(queue[p].nonce) = NonceSize
          /\ elem' = Drop(Head(queue[p].nonce))
          /\ queue' = [queue EXCEPT ![p].nonce = Tail(@)]
          /\ UNCHANGED <<reader, panicked>>
    /\ UNCHANGED <<encryption, nonce, worker, sender, keys, signals, phase, device,
                   last, held>>

\* The bound on elements acts as a full queue.
KeepaliveQueued(p) ==
    IF Len(queue[p].nonce) # 0 \/ queue[p].awaiting
    THEN UNCHANGED <<elem, queue, panicked>>
    ELSE \/ /\ queue[p].closed
            /\ panicked' = TRUE
            /\ UNCHANGED <<elem, queue>>
         \/ /\ ~queue[p].closed
            /\ Len(elem) < MaxElements
            /\ elem' = Append(elem, NewElement(p))
            /\ queue' = [queue EXCEPT ![p].nonce = Append(@, Len(elem) + 1)]
            /\ UNCHANGED panicked
         \/ /\ ~queue[p].closed
            /\ Len(elem) = MaxElements
            /\ UNCHANGED <<elem, queue, panicked>>

\* The timers send keepalives; one that fired before Peer.Stop may still run after it.
SendKeepalive(p) ==
    /\ KeepaliveQueued(p)
    /\ UNCHANGED <<encryption, reader, nonce, worker, sender, keys, signals, phase,
                   device, last, held>>

-----------------------------------------------------------------------------
(* RoutineNonce.                                                           *)

NonceTake(p) ==
    /\ nonce[p].pc = "idle"
    /\ queue[p].nonce # <<>>
    /\ nonce' = [nonce EXCEPT ![p] = At("check", Head(queue[p].nonce), 0)]
    /\ queue' = [queue EXCEPT ![p].nonce = Tail(@)]
    /\ UNCHANGED <<elem, encryption, reader, worker, sender, keys, signals, phase,
                   device, last, panicked, held>>

NonceCheck(p) ==
    /\ nonce[p].pc = "check"
    /\ \/ /\ Usable(p)
          /\ nonce' = [nonce EXCEPT ![p] = At("assign", @.elem, keys[p].current)]
          /\ queue' = [queue EXCEPT ![p].awaiting = FALSE]
       \/ /\ ~Usable(p)
          /\ nonce' = [nonce EXCEPT ![p] = At("drain", @.elem, 0)]
          /\ queue' = [queue EXCEPT ![p].awaiting = TRUE]
    /\ UNCHANGED <<elem, encryption, reader, worker, sender, keys, signals, phase,
                   device, last, panicked, held>>

\* A signal that is already there is discarded, and SendHandshakeInitiation is called: it
\* returns at once when the last initiation is younger than RekeyTimeout.
NonceDrain(p) ==
    /\ nonce[p].pc = "drain"
    /\ signals' = [signals EXCEPT ![p].arrived = FALSE]
    /\ \E c \in {"initiate", "await"} : nonce' = [nonce EXCEPT ![p].pc = c]
    /\ UNCHANGED <<elem, queue, encryption, reader, worker, sender, keys, phase, device,
                   last, panicked, held>>

NonceInitiate(p) ==
    /\ nonce[p].pc = "initiate"
    /\ Wanted(nonce[p]) \cap held = {}
    /\ nonce' = [nonce EXCEPT ![p].pc = "await"]
    /\ UNCHANGED <<elem, queue, encryption, reader, worker, sender, keys, signals, phase,
                   device, last, panicked, held>>

NonceArrived(p) ==
    /\ nonce[p].pc = "await"
    /\ signals[p].arrived
    /\ signals' = [signals EXCEPT ![p].arrived = FALSE]
    /\ nonce' = [nonce EXCEPT ![p].pc = "check"]
    /\ UNCHANGED <<elem, queue, encryption, reader, worker, sender, keys, phase, device,
                   last, panicked, held>>

\* The flush forgets the element in hand and everything in the nonce queue.
NonceFlush(p) ==
    /\ nonce[p].pc = "await"
    /\ signals[p].flush
    /\ signals' = [signals EXCEPT ![p].flush = FALSE]
    /\ nonce' = [nonce EXCEPT ![p] = At("idle", 0, 0)]
    /\ queue' = [queue EXCEPT ![p].nonce = <<>>, ![p].awaiting = FALSE]
    /\ UNCHANGED <<elem, encryption, reader, worker, sender, keys, phase, device, last,
                   panicked, held>>

NonceAssignStale(p) ==        \* mutant: the nonce is read before it is incremented
    LET e == nonce[p].elem
        k == nonce[p].key
        n == IF keys[p].sendNonce[k] = 0 THEN 0 ELSE keys[p].sendNonce[k] - 1
    IN
    /\ nonce[p].pc = "assign"
    /\ keys' = [keys EXCEPT ![p].sendNonce[k] = @ + 1]
    /\ elem' = [elem EXCEPT ![e].key = k, ![e].nonce = n, ![e].locked = TRUE]
    /\ nonce' = [nonce EXCEPT ![p].pc = "encrypt"]
    /\ UNCHANGED <<queue, encryption, reader, worker, sender, signals, phase, device,
                   last, panicked, held>>

NonceAssign(p) ==
    LET e == nonce[p].elem
        k == nonce[p].key
        n == keys[p].sendNonce[k]
    IN
    /\ nonce[p].pc = "assign"
    /\ keys' = [keys EXCEPT ![p].sendNonce[k] = @ + 1]
    /\ IF n >= RejectAfterMessages
       THEN nonce' = [nonce EXCEPT ![p] = At("idle", 0, 0)] /\ UNCHANGED elem
       ELSE /\ elem' = [elem EXCEPT ![e].key = k, ![e].nonce = n, ![e].dropped = FALSE,
                                    ![e].locked = TRUE]
            /\ nonce' = [nonce EXCEPT ![p].pc = "encrypt"]
    /\ UNCHANGED <<queue, encryption, reader, worker, sender, signals, phase, device,
                   last, panicked, held>>

\* addToEncryptionQueue: one turn of its loop.
NonceEncrypt(p) ==
    /\ nonce[p].pc = "encrypt"
    /\ \/ /\ Len(encryption) < EncryptionSize
          /\ encryption' = Append(encryption, nonce[p].elem)
          /\ nonce' = [nonce EXCEPT ![p].pc = "outbound"]
          /\ UNCHANGED elem
       \/ /\ Len(encryption) = EncryptionSize
          /\ encryption' = Tail(encryption)
          /\ elem' = DropAndRelease(Head(encryption))
          /\ UNCHANGED nonce
    /\ UNCHANGED <<queue, reader, worker, sender, keys, signals, phase, device, last,
                   panicked, held>>

\* addToOutboundQueue(peer.queue.outbound, elem): one turn of its loop.
NonceOutbound(p) ==
    /\ nonce[p].pc = "outbound"
    /\ \/ /\ Len(queue[p].outbound) < OutboundSize
          /\ queue' = [queue EXCEPT ![p].outbound = Append(@, nonce[p].elem)]
          /\ nonce' = [nonce EXCEPT ![p] = At("idle", 0, 0)]
          /\ UNCHANGED elem
       \/ /\ Len(queue[p].outbound) = OutboundSize
          /\ queue' = [queue EXCEPT ![p].outbound = Tail(@)]
          /\ elem' = Drop(Head(queue[p].outbound))
          /\ UNCHANGED nonce
    /\ UNCHANGED <<encryption, reader, worker, sender, keys, signals, phase, device,
                   last, panicked, held>>

NonceStopIdle(p) ==        \* mutant: the wait for a key pair ignores routines.stop
    /\ nonce[p].pc = "idle"
    /\ phase[p] = "stopping"
    /\ nonce' = [nonce EXCEPT ![p] = At("stopped", 0, 0)]
    /\ UNCHANGED <<elem, queue, encryption, reader, worker, sender, keys, signals,
                   phase, device, last, panicked, held>>

\* routines.stop is selected; closed queues never are, since Peer.Stop closes them
\* after the routine has ended.
NonceStop(p) ==
    /\ nonce[p].pc \in {"idle", "await"}
    /\ phase[p] = "stopping"
    /\ nonce' = [nonce EXCEPT ![p] = At("stopped", 0, 0)]
    /\ queue' = [queue EXCEPT ![p].awaiting = FALSE]
    /\ UNCHANGED <<elem, encryption, reader, worker, sender, keys, signals, phase,
                   device, last, panicked, held>>

-----------------------------------------------------------------------------
(* RoutineEncryption.  worker[w] is 0 while it waits.                      *)

\* An element that was dropped meanwhile is skipped, and stays locked.
WorkerTake(w) ==
    /\ worker[w] = 0
    /\ encryption # <<>>
    /\ encryption' = Tail(encryption)
    /\ worker' = [worker EXCEPT ![w] =
                    IF elem[Head(encryption)].dropped THEN 0 ELSE Head(encryption)]
    /\ UNCHANGED <<elem, queue, reader, nonce, sender, keys, signals, phase, device,
                   last, panicked, held>>

WorkerSeal(w) ==
    /\ worker[w] \in Id
    /\ elem' = [elem EXCEPT ![worker[w]].sealed = TRUE, ![worker[w]].locked = FALSE]
    /\ worker' = [worker EXCEPT ![w] = 0]
    /\ UNCHANGED <<queue, encryption, reader, nonce, sender, keys, signals, phase,
                   device, last, panicked, held>>

WorkerStopIdle(w) ==        \* mutant: an empty queue ends the routine
    /\ worker[w] = 0
    /\ encryption = <<>>
    /\ worker' = [worker EXCEPT ![w] = Nil]
    /\ UNCHANGED <<elem, queue, encryption, reader, nonce, sender, keys, signals, phase,
                   device, last, panicked, held>>

WorkerStop(w) ==
    /\ worker[w] = 0
    /\ device # "open"
    /\ worker' = [worker EXCEPT ![w] = Nil]
    /\ UNCHANGED <<elem, queue, encryption, reader, nonce, sender, keys, signals, phase,
                   device, last, panicked, held>>

-----------------------------------------------------------------------------
(* RoutineSequentialSender.                                                *)

SenderTake(p) ==
    /\ sender[p].pc = "idle"
    /\ queue[p].outbound # <<>>
    /\ sender' = [sender EXCEPT ![p] = At("lock", Head(queue[p].outbound), 0)]
    /\ queue' = [queue EXCEPT ![p].outbound = Tail(@)]
    /\ UNCHANGED <<elem, encryption, reader, nonce, worker, keys, signals, phase,
                   device, last, panicked, held>>

\* mutant: a sender whose element is still locked takes the next one first
SenderSendReady(p) ==
    LET e == sender[p].elem
        q == queue[p].outbound
    IN
    /\ sender[p].pc = "lock"
    /\ \/ /\ ~elem[e].locked
          /\ elem' = [elem EXCEPT ![e].locked = TRUE]
          /\ last' = IF elem[e].dropped THEN last ELSE [last EXCEPT ![p] = e]
          /\ sender' = [sender EXCEPT ![p] = At("idle", 0, 0)]
          /\ UNCHANGED queue
       \/ /\ elem[e].locked /\ q # <<>>
          /\ queue' = [queue EXCEPT ![p].outbound = Append(Tail(q), e)]
          /\ sender' = [sender EXCEPT ![p].elem = Head(q)]
          /\ UNCHANGED <<elem, last>>
    /\ UNCHANGED <<encryption, reader, nonce, worker, keys, signals, phase, device,
                   panicked, held>>

\* The mutex is taken and never released.
SenderSend(p) ==
    LET e == sender[p].elem IN
    /\ sender[p].pc = "lock"
    /\ ~elem[e].locked
    /\ elem' = [elem EXCEPT ![e].locked = TRUE]
    /\ IF elem[e].dropped
       THEN sender' = [sender EXCEPT ![p] = At("idle", 0, 0)] /\ UNCHANGED last
       ELSE sender' = [sender EXCEPT ![p] = At("send", 0, 0)] /\ last' = [last EXCEPT ![p] = e]
    /\ UNCHANGED <<queue, encryption, reader, nonce, worker, keys, signals, phase, device,
                   panicked, held>>

\* SendBuffer, which may fail; then keepKeyFreshSending, which may call
\* SendHandshakeInitiation.
SenderPasses(p) ==
    /\ sender[p].pc \in {"send", "initiate"}
    /\ Wanted(sender[p]) \cap held = {}
    /\ \/ /\ sender[p].pc = "send"
          /\ sender' = [sender EXCEPT ![p] = At("initiate", 0, 0)]
       \/ sender' = [sender EXCEPT ![p] = At("idle", 0, 0)]
    /\ UNCHANGED <<elem, queue, encryption, reader, nonce, worker, keys, signals, phase,
                   device, last, panicked, held>>

SenderStop(p) ==
    /\ sender[p].pc = "idle"
    /\ phase[p] = "stopping"
    /\ sender' = [sender EXCEPT ![p] = At("stopped", 0, 0)]
    /\ UNCHANGED <<elem, queue, encryption, reader, nonce, worker, keys, signals, phase,
                   device, last, panicked, held>>

-----------------------------------------------------------------------------
(* Key pairs come and go (Handshake models how).                           *)

NewCurrent(p) == [keys[p] EXCEPT !.current = keys[p].made + 1, !.made = @ + 1,
                                 !.fresh = TRUE]

\* NewKeypair of an initiator, whatever the state of the peer: handshake workers
\* do not look at isRunning.  They end before Device.Close goes on.
InitiatorKeypair(p) ==
    /\ device \in {"open", "stopping"}
    /\ keys[p].made < MaxKeys
    /\ ~keys[p].arriving
    /\ keys' = [keys EXCEPT ![p] = [NewCurrent(p) EXCEPT !.arriving = TRUE]]
    /\ UNCHANGED <<elem, queue, encryption, reader, nonce, worker, sender, signals,
                   phase, device, last, panicked, held>>

\* What RoutineHandshake does next: a keepalive, then the signal.
InitiatorSignal(p) ==
    /\ keys[p].arriving
    /\ keys' = [keys EXCEPT ![p].arriving = FALSE]
    /\ KeepaliveQueued(p)
    /\ signals' = [signals EXCEPT ![p].arrived = TRUE]
    /\ UNCHANGED <<encryption, reader, nonce, worker, sender, phase, device, last,
                   held>>

\* RoutineSequentialReceiver promotes next and signals under the lock of the key pairs.
ResponderKeypair(p) ==
    /\ phase[p] # "stopped"
    /\ keys[p].made < MaxKeys
    /\ keys' = [keys EXCEPT ![p] = NewCurrent(p)]
    /\ signals' = [signals EXCEPT ![p].arrived = TRUE]
    /\ UNCHANGED <<elem, queue, encryption, reader, nonce, worker, sender, phase,
                   device, last, panicked, held>>

\* The current key pair reaches RejectAfterTime.  Bound: the last one of a behaviour stays
\* fresh, since an earlier one that expired need not be replaced.
KeypairExpires(p) ==
    /\ p \in Unsteady
    /\ keys[p].current # 0 /\ keys[p].fresh
    /\ keys[p].made < MaxKeys
    /\ keys' = [keys EXCEPT ![p].fresh = FALSE]
    /\ UNCHANGED <<elem, queue, encryption, reader, nonce, worker, sender, signals,
                   phase, device, last, panicked, held>>

FlushNonceQueue(p) == [signals EXCEPT ![p].flush = TRUE]

\* expiredRetransmitHandshake gives up after too many attempts, whether or not
\* RoutineNonce is waiting: any caller of SendHandshakeInitiation arms the timer.
RetransmitGivesUp(p) ==
    /\ p \in Unsteady
    /\ phase[p] = "running"
    /\ signals' = FlushNonceQueue(p)
    /\ UNCHANGED <<elem, queue, encryption, reader, nonce, worker, sender, keys, phase,
                   device, last, panicked, held>>

-----------------------------------------------------------------------------
(* Peer.Stop, Peer.Start and Device.Close.                                 *)

\* Every caller holds peers.mutex: one peer is stopped at a time.
Stop(p) ==
    /\ phase[p] = "running"
    /\ \A q \in Peer : phase[q] # "stopping"
    /\ (device = "open" /\ p \in Stoppable) \/ device = "removing"
    /\ phase' = [phase EXCEPT ![p] = "stopping"]
    /\ UNCHANGED <<elem, queue, encryption, reader, nonce, worker, sender, keys,
                   signals, device, last, panicked, held>>

\* RemovePeer, RemoveAllPeers and SetPrivateKey call Stop under noise.mutex, and whoever
\* waits for peers.mutex meanwhile may have noise.mutex (the same three) or net.mutex
\* (BindUpdate, BindSetMark).  It shows when a routine asks for the lock.
LockHeld(lock) ==
    /\ \E p \in Peer : /\ phase[p] = "stopping"
                      /\ lock \in Wanted(nonce[p]) \cup Wanted(sender[p])
    /\ held' = held \cup {lock}
    /\ UNCHANGED <<elem, queue, encryption, reader, nonce, worker, sender, keys, signals,
                   phase, device, last, panicked>>

\* routines.stopping.Wait() returns; the queues are closed, the key pairs cleared
\* and the nonce queue flushed.
StopFinish(p) ==
    /\ phase[p] = "stopping"
    /\ nonce[p].pc = "stopped" /\ sender[p].pc = "stopped"
    /\ phase' = [phase EXCEPT ![p] = "stopped"]
    /\ queue' = [queue EXCEPT ![p].closed = TRUE]
    /\ keys' = [keys EXCEPT ![p].current = 0]
    /\ signals' = FlushNonceQueue(p)
    /\ held' = {}
    /\ UNCHANGED <<elem, encryption, reader, nonce, worker, sender, device, last,
                   panicked>>

Start(p) ==
    /\ device = "open"
    /\ phase[p] = "stopped"
    /\ phase' = [phase EXCEPT ![p] = "running"]
    /\ queue' = [queue EXCEPT ![p] = NewQueues]
    /\ signals' = [signals EXCEPT ![p] = NoSignals]
    /\ nonce' = [nonce EXCEPT ![p] = At("idle", 0, 0)]
    /\ sender' = [sender EXCEPT ![p] = At("idle", 0, 0)]
    /\ UNCHANGED <<elem, encryption, reader, worker, keys, device, last, panicked,
                   held>>

\* The TUN device and the sockets are closed and signals.stop is closed.
Close ==
    /\ Closes
    /\ device = "open"
    /\ device' = "stopping"
    /\ UNCHANGED <<elem, queue, encryption, reader, nonce, worker, sender, keys,
                   signals, phase, last, panicked, held>>

\* state.stopping.Wait() returns: the encryption and handshake workers have ended.
CloseFlush ==
    /\ device = "stopping"
    /\ \A w \in Worker : worker[w] = Nil
    /\ \A p \in Peer : ~keys[p].arriving
    /\ device' = "flushing"
    /\ UNCHANGED <<elem, queue, encryption, reader, nonce, worker, sender, keys,
                   signals, phase, last, panicked, held>>

FlushReleasing ==        \* mutant: the elements are released and not dropped
    /\ device = "flushing"
    /\ encryption # <<>>
    /\ elem' = [elem EXCEPT ![Head(encryption)].locked = FALSE]
    /\ encryption' = Tail(encryption)
    /\ UNCHANGED <<queue, reader, nonce, worker, sender, keys, signals, phase, device,
                   last, panicked, held>>

\* FlushPacketQueues: one turn of its loop.
FlushPacketQueues ==
    /\ device = "flushing"
    /\ \/ /\ encryption # <<>>
          /\ elem' = Drop(Head(encryption))
          /\ encryption' = Tail(encryption)
          /\ UNCHANGED device
       \/ /\ encryption = <<>>
          /\ device' = "removing"
          /\ UNCHANGED <<elem, encryption>>
    /\ UNCHANGED <<queue, reader, nonce, worker, sender, keys, signals, phase, last,
                   panicked, held>>

CloseFinish ==
    /\ device = "removing"
    /\ \A p \in Peer : phase[p] = "stopped"
    /\ device' = "closed"
    /\ UNCHANGED <<elem, queue, encryption, reader, nonce, worker, sender, keys,
                   signals, phase, last, panicked, held>>

-----------------------------------------------------------------------------

Init ==
    /\ elem = <<>>
    /\ queue = [p \in Peer |-> NewQueues]
    /\ encryption = <<>>
    /\ reader = Nil
    /\ nonce = [p \in Peer |-> At("idle", 0, 0)]
    /\ worker = [w \in Worker |-> 0]
    /\ sender = [p \in Peer |-> At("idle", 0, 0)]
    /\ keys = [p \in Peer |-> [current |-> 0, made |-> 0, fresh |-> FALSE,
                               arriving |-> FALSE, sendNonce |-> [k \in 1 .. MaxKeys |-> 0]]]
    /\ signals = [p \in Peer |-> NoSignals]
    /\ phase = [p \in Peer |-> "running"]
    /\ device = "open"
    /\ last = [p \in Peer |-> 0]
    /\ panicked = FALSE
    /\ held = {}

RoutineNonce(p) ==
    \/ NonceTake(p) \/ NonceCheck(p) \/ NonceDrain(p) \/ NonceInitiate(p)
    \/ NonceArrived(p) \/ NonceFlush(p) \/ NonceAssign(p) \/ NonceEncrypt(p)
    \/ NonceOutbound(p) \/ NonceStop(p)

RoutineEncryption(w) == WorkerTake(w) \/ WorkerSeal(w) \/ WorkerStop(w)

RoutineSequentialSender(p) ==
    SenderTake(p) \/ SenderSend(p) \/ SenderPasses(p) \/ SenderStop(p)

Handshaking(p) ==
    \/ InitiatorKeypair(p) \/ InitiatorSignal(p) \/ ResponderKeypair(p)
    \/ KeypairExpires(p) \/ RetransmitGivesUp(p)

Closing == CloseFlush \/ FlushPacketQueues \/ CloseFinish

Next ==
    /\ ~panicked
    /\ \/ \E p \in Peer : \/ ReadFromTUN(p) \/ QueueForNonce(p) \/ SendKeepalive(p)
                          \/ RoutineNonce(p) \/ RoutineSequentialSender(p)
                          \/ Handshaking(p)
                          \/ Stop(p) \/ StopFinish(p) \/ Start(p)
       \/ \E w \in Worker : RoutineEncryption(w)
       \/ \E lock \in {"noise", "net"} : LockHeld(lock)
       \/ Close \/ Closing

\* A goroutine that can run does so eventually.  Nothing is assumed of the TUN
\* device, of the other end, of the callers of Stop and Start, or of Close.
Fairness ==
    /\ \A p \in Peer : /\ WF_vars(~panicked /\ RoutineNonce(p))
                       /\ WF_vars(~panicked /\ RoutineSequentialSender(p))
                       /\ WF_vars(~panicked /\ StopFinish(p))
    /\ \A w \in Worker : WF_vars(~panicked /\ RoutineEncryption(w))

Spec == Init /\ [][Next]_vars

FairSpec == Spec /\ Fairness

-----------------------------------------------------------------------------
(* Properties.                                                             *)

\* No nonce is used twice under a key: RoutineNonce may go on with a key pair that
\* is no longer current, but it is the only one that counts its nonces.
NonceUsedOnce ==
    \A d, e \in DOMAIN elem :
        /\ d # e /\ elem[d].key # 0
        /\ elem[d].peer = elem[e].peer /\ elem[d].key = elem[e].key
        => elem[d].nonce # elem[e].nonce

\* The double check of RoutineNonce against RejectAfterMessages never fires: a key
\* pair that was usable when it was looked up still has a nonce to give.
NonceBelowLimit ==
    \A p \in Peer : nonce[p].pc = "assign" =>
        keys[p].sendNonce[nonce[p].key] < RejectAfterMessages

\* What the sequential sender transmits has been encrypted: an element whose mutex is
\* free and that is not dropped has been through a worker, however it was evicted
\* from one queue while it was in the other.
SealedBeforeSent ==
    \A p \in Peer :
        LET e == sender[p].elem IN
        sender[p].pc = "lock" /\ ~elem[e].locked /\ ~elem[e].dropped => elem[e].sealed

\* An element is on its way through the sender of p.
InFlight(p, e) ==
    \/ sender[p].elem = e
    \/ \E i \in DOMAIN queue[p].outbound : queue[p].outbound[i] = e
    \/ nonce[p].elem = e /\ nonce[p].pc = "outbound"

\* While the device is open, somebody is left to unlock every element that the
\* sender of a peer waits for or will wait for: it is in the encryption queue or
\* with a worker.
LockHasHolder ==
    device = "open" =>
        \A p \in Peer : \A e \in DOMAIN elem :
            InFlight(p, e) /\ elem[e].locked =>
                \/ \E i \in DOMAIN encryption : encryption[i] = e
                \/ \E w \in Worker : worker[w] = e

\* The packets of a peer leave in the order in which they were read, although they
\* are encrypted in any order and evicted from three queues.
OrderKept == [][\A p \in Peer : last'[p] # last[p] => last'[p] > last[p]]_vars

\* A sender that waits for the mutex of an element gets it: whoever takes the element
\* out of the encryption queue releases it.  Unless the device is closed meanwhile:
\* the workers end first, and the elements they leave are never released.
SenderWaitEnds ==
    \A p \in Peer : sender[p].pc = "lock" ~>
                      sender[p].pc # "lock" \/ panicked \/ device # "open"

\* The wait of Peer.Stop for these two routines ends while the device is open: both see
\* the closed stop channel, whatever they were doing.  Unless one of them is to send, and
\* the lock that it waits for is not released before Peer.Stop returns.
RoutinesEnd ==
    \A p \in Peer : phase[p] = "stopping" ~>
                      \/ phase[p] = "stopped" \/ panicked \/ device # "open"
                      \/ (Wanted(nonce[p]) \cup Wanted(sender[p])) \cap held # {}
=============================================================================
