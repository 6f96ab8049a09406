------------------------------ MODULE Handshake ------------------------------
(***************************************************************************)
(* Handshakes, the index table and key-pair rotation (noise-protocol.go,   *)
(* index.go, keypair.go, RoutineHandshake and the sequential receiver of   *)
(* receive.go, Peer.Start/Stop, expiredZeroKeyMaterial).                   *)
(*                                                                         *)
(* Every node runs one device.  <<n, p>> is the Peer object that node n    *)
(* keeps for node p.  Handshake workers run concurrently; one step here is *)
(* one critical section of the code, so the places where a lock is dropped *)
(* between a check and the update that relies on it are separate steps.    *)
(*                                                                         *)
(* Cryptography is symbolic: an ephemeral key is a fresh number, a chain   *)
(* key is the pair of ephemerals mixed into it (0 for one not yet mixed),  *)
(* and an AEAD opens exactly when both sides computed the same chain key.  *)
(* The system's randomness never fails, and no static key is zero.         *)
(* The network keeps every message: it may deliver a message any number of *)
(* times, in any order, or never.                                          *)
(***************************************************************************)
EXTENDS Naturals

CONSTANTS Node,          \* devices; every device has every other as a peer
          Worker,        \* RoutineHandshake instances of a device (NumCPU)
          Index,         \* session indices; 0 is the unset index
          Nil,           \* Go's nil
          Initiator,     \* nodes that send initiations
          Ending,        \* nodes that stop peers or let their keys expire
          MaxEphemeral,  \* bound: ephemeral keys generated in a behaviour
          MaxCrowded     \* bound: the same, if two workers of a device are busy at once

VARIABLES eph,           \* ephemerals generated so far, also the TAI64N clock
          hs,            \* peer.handshake
          kps,           \* peer.keyPairs
          table,         \* device.indices
          phase,         \* how far Peer.Stop has got
          wk,            \* the workers
          inbound,       \* key pairs captured by queued, decrypted elements
          net,           \* every message sent
          derived,       \* history: every key pair ever derived
          crowded        \* history: two workers of a device were busy at once

vars == <<eph, hs, kps, table, phase, wk, inbound, net, derived, crowded>>

Link == {l \in Node \X Node : l[1] # l[2]}

Index0 == Index \cup {0}

Key == [i : Nat, r : Nat]

NoKey == [i |-> 0, r |-> 0]

HandshakeState == {"Zeroed", "InitiationCreated", "InitiationConsumed",
                   "ResponseCreated", "ResponseConsumed"}

Handshakes == [state : HandshakeState, chainKey : Key, localIndex : Index0,
               remoteIndex : Index0, lastTimestamp : Nat]

Keypair == [key : Key, isInitiator : BOOLEAN, localIndex : Index0,
            remoteIndex : Index0]

Slots == [previous : Keypair \cup {Nil}, current : Keypair \cup {Nil},
          next : Keypair \cup {Nil}]

Entry == [peer : Node, keyPair : Keypair \cup {Nil}]

Initiation == [type : {"initiation"}, from : Node, to : Node, sender : Index,
               ephemeral : Nat]

Response == [type : {"response"}, from : Node, to : Node, sender : Index,
             receiver : Index0, key : Key]

Transport == [type : {"transport"}, to : Node, receiver : Index0, key : Key]

Busy(pc, p, m) == [pc |-> pc, peer |-> p, msg |-> m]

Idle == Busy("idle", Nil, Nil)

WorkerState ==
    {Idle}
    \cup [pc : {"initiationChecked", "initiationConsumed"}, peer : Node, msg : Initiation]
    \cup [pc : {"responseCreated", "responseChecked", "responseConsumed"}, peer : Node,
          msg : Response]

\* Index 0 is not an index, and nil is none of the values it stands beside.
ASSUME IndexAssumption == 0 \notin Index
ASSUME NilAssumption == /\ Nil \notin Keypair
                        /\ Nil \notin Entry

-----------------------------------------------------------------------------
(* The index table: a map from session index to its owner.                 *)

HandshakeEntry(p) == [peer |-> p, keyPair |-> Nil]

KeypairEntry(p, k) == [peer |-> p, keyPair |-> k]

IndexDelete(tab, i) == IF i = 0 THEN tab ELSE [tab EXCEPT ![i] = Nil]

IndexInsert(tab, i, e) == [tab EXCEPT ![i] = e]

\* NewIndex draws until it hits an index that is not in the table; the second
\* lookup and the insertion are one critical section.
FreeIndex(tab) == {i \in Index : tab[i] = Nil}

DeleteKeypair(tab, k) == IF k = Nil THEN tab ELSE IndexDelete(tab, k.localIndex)

\* mutant: current forgotten
DeleteOldSlots(tab, s) == DeleteKeypair(DeleteKeypair(tab, s.previous), s.next)

DeleteSlots(tab, s) ==
    DeleteKeypair(DeleteKeypair(DeleteKeypair(tab, s.previous), s.current), s.next)

NoSlots == [previous |-> Nil, current |-> Nil, next |-> Nil]

-----------------------------------------------------------------------------
(* The handshake record of a peer, after each thing that happens to it.    *)

\* mutant: localIndex kept
ClearedKeepsIndex(h) == [h EXCEPT !.state = "Zeroed", !.chainKey = NoKey]

Cleared(h) == [h EXCEPT !.state = "Zeroed", !.chainKey = NoKey, !.localIndex = 0]

InitiationCreated(h, e, i) ==
    [h EXCEPT !.state = "InitiationCreated", !.chainKey = [i |-> e, r |-> 0],
              !.localIndex = i]

InitiationConsumed(h, m) ==
    [h EXCEPT !.state = "InitiationConsumed", !.chainKey = [i |-> m.ephemeral, r |-> 0],
              !.remoteIndex = m.sender, !.lastTimestamp = m.ephemeral]

ResponseCreated(h, e, i) ==
    [h EXCEPT !.state = "ResponseCreated", !.chainKey = [i |-> h.chainKey.i, r |-> e],
              !.localIndex = i]

\* mutant: remoteIndex not stored
ResponseConsumedNoIndex(h, m) ==
    [h EXCEPT !.state = "ResponseConsumed", !.chainKey = m.key]

ResponseConsumed(h, m) ==
    [h EXCEPT !.state = "ResponseConsumed", !.chainKey = m.key, !.remoteIndex = m.sender]

\* The messages: i is the sender's index, h its handshake record.
InitiationMessage(n, p, e, i) ==
    [type |-> "initiation", from |-> n, to |-> p, sender |-> i, ephemeral |-> e]

ResponseMessage(n, p, h, e, i) ==
    [type |-> "response", from |-> n, to |-> p, sender |-> i, receiver |-> h.remoteIndex,
     key |-> [i |-> h.chainKey.i, r |-> e]]

TransportMessage(p, k) ==
    [type |-> "transport", to |-> p, receiver |-> k.remoteIndex, key |-> k.key]

-----------------------------------------------------------------------------
(* Key-pair rotation.                                                      *)

\* mutant: the responder does not wait for confirmation
RotateAtOnce(s, k) == [previous |-> s.current, current |-> k, next |-> Nil]

\* A new key pair k of the initiator becomes current at once; one of the
\* responder waits in next until a transport message confirms it.
RotateNew(s, k) ==
    IF k.isInitiator
    THEN [previous |-> IF s.next # Nil THEN s.next ELSE s.current,
          current  |-> k,
          next     |-> Nil]
    ELSE [previous |-> Nil, current |-> s.current, next |-> k]

\* The table entries that this rotation removes.
RetireNew(tab, s, k) ==
    IF k.isInitiator
    THEN DeleteKeypair(IF s.next # Nil THEN DeleteKeypair(tab, s.current) ELSE tab,
                       s.previous)
    ELSE DeleteKeypair(DeleteKeypair(tab, s.next), s.previous)

\* The first authenticated message under next promotes it.
RotateConfirmed(s) == [previous |-> s.current, current |-> s.next, next |-> Nil]

RetireConfirmed(tab, s) == DeleteKeypair(tab, s.previous)

-----------------------------------------------------------------------------
(* Sending an initiation: SendHandshakeInitiation and                      *)
(* CreateMessageInitiation.  Timers, the nonce routine, the sequential     *)
(* routines and the TUN reader all call it; a call already under way is    *)
(* not stopped by Peer.Stop, so phase is not tested.  The 5 s rate limit   *)
(* only removes calls.                                                     *)
(* The bound leaves an ephemeral for the response.                         *)

Bound == IF crowded THEN MaxCrowded ELSE MaxEphemeral

SendHandshakeInitiation(n, p) ==
    LET tab == IndexDelete(table[n], hs[n, p].localIndex) IN
    /\ n \in Initiator
    /\ eph + 1 < Bound
    /\ \E i \in FreeIndex(tab) :
        /\ eph' = eph + 1
        /\ table' = [table EXCEPT ![n] = IndexInsert(tab, i, HandshakeEntry(p))]
        /\ hs' = [hs EXCEPT ![<<n, p>>] = InitiationCreated(@, eph + 1, i)]
        /\ net' = net \cup {InitiationMessage(n, p, eph + 1, i)}
        /\ UNCHANGED <<kps, phase, wk, inbound, derived, crowded>>

-----------------------------------------------------------------------------
(* RoutineHandshake on an initiation message.                              *)

Crowd(n, w) ==
    /\ crowded' = (crowded \/ \E v \in Worker : v # w /\ wk[n, v].pc # "idle")
    /\ crowded' => eph <= MaxCrowded

\* ConsumeMessageInitiation up to handshake.mutex.RUnlock.  The timestamp of
\* a message is its ephemeral number; both come from the same clock.  The flood
\* limit, which only rejects more, is left out: any two initiations may be far
\* enough apart.
ConsumeInitiationCheck(n, w, m) ==
    /\ wk[n, w].pc = "idle"
    /\ m.type = "initiation" /\ m.to = n
    /\ m.ephemeral > hs[n, m.from].lastTimestamp
    /\ wk' = [wk EXCEPT ![<<n, w>>] = Busy("initiationChecked", m.from, m)]
    /\ Crowd(n, w)
    /\ UNCHANGED <<eph, hs, kps, table, phase, inbound, net, derived>>

\* The update under handshake.mutex.Lock, which does not look at the state again.
ConsumeInitiationUpdate(n, w) ==
    LET p == wk[n, w].peer IN
    /\ wk[n, w].pc = "initiationChecked"
    /\ hs' = [hs EXCEPT ![<<n, p>>] = InitiationConsumed(@, wk[n, w].msg)]
    /\ wk' = [wk EXCEPT ![<<n, w>>] = Busy("initiationConsumed", p, @.msg)]
    /\ UNCHANGED <<eph, kps, table, phase, inbound, net, derived, crowded>>

CreateMessageResponse(n, w) ==
    LET p == wk[n, w].peer
        h == hs[n, p]
        tab == IndexDelete(table[n], h.localIndex)
    IN
    /\ wk[n, w].pc = "initiationConsumed"
    /\ h.state = "InitiationConsumed"
    /\ eph < Bound
    /\ \E i \in FreeIndex(tab) :
        /\ eph' = eph + 1
        /\ table' = [table EXCEPT ![n] = IndexInsert(tab, i, HandshakeEntry(p))]
        /\ hs' = [hs EXCEPT ![<<n, p>>] = ResponseCreated(@, eph + 1, i)]
        /\ wk' = [wk EXCEPT ![<<n, w>>] =
                    Busy("responseCreated", p, ResponseMessage(n, p, h, eph + 1, i))]
        /\ UNCHANGED <<kps, phase, inbound, net, derived, crowded>>

\* Its error return: another step has moved the handshake on by now.
ResponseFails(n, w) ==
    /\ wk[n, w].pc = "initiationConsumed"
    /\ hs[n, wk[n, w].peer].state # "InitiationConsumed"
    /\ wk' = [wk EXCEPT ![<<n, w>>] = Idle]
    /\ UNCHANGED <<eph, hs, kps, table, phase, inbound, net, derived, crowded>>

-----------------------------------------------------------------------------
(* NewKeypair: one critical section of the handshake lock.                 *)

CanDerive(h) == h.state \in {"ResponseConsumed", "ResponseCreated"}

DerivedKeypair(h) == [key |-> h.chainKey,
                      isInitiator |-> h.state = "ResponseConsumed",
                      localIndex |-> h.localIndex,
                      remoteIndex |-> h.remoteIndex]

NewKeypair(n, p) ==
    LET h == hs[n, p]
        k == DerivedKeypair(h)
        tab == IndexInsert(table[n], h.localIndex, KeypairEntry(p, k))
    IN
    /\ hs' = [hs EXCEPT ![<<n, p>>] = Cleared(@)]
    /\ table' = [table EXCEPT ![n] = RetireNew(tab, kps[n, p], k)]
    /\ kps' = [kps EXCEPT ![<<n, p>>] = RotateNew(@, k)]
    /\ derived' = derived \cup {[owner |-> n, peer |-> p, kp |-> k]}

\* The responder derives its key pair and sends the response it created; if
\* NewKeypair returns nil, the response is discarded.
RespondWithKeypair(n, w) ==
    LET p == wk[n, w].peer IN
    /\ wk[n, w].pc = "responseCreated"
    /\ \/ /\ CanDerive(hs[n, p])
          /\ NewKeypair(n, p)
          /\ net' = net \cup {wk[n, w].msg}
       \/ /\ ~CanDerive(hs[n, p])
          /\ UNCHANGED <<hs, table, kps, derived, net>>
    /\ wk' = [wk EXCEPT ![<<n, w>>] = Idle]
    /\ UNCHANGED <<eph, phase, inbound, crowded>>

-----------------------------------------------------------------------------
(* RoutineHandshake on a response message.                                 *)

\* mutant: the result of the AEAD is ignored
ConsumeResponseUnauthenticated(n, w, m) ==
    /\ wk[n, w].pc = "idle"
    /\ m.type = "response" /\ m.to = n
    /\ LET e == table[n][m.receiver] IN
        /\ e # Nil /\ e.keyPair = Nil
        /\ hs[n, e.peer].state = "InitiationCreated"
        /\ wk' = [wk EXCEPT ![<<n, w>>] = Busy("responseChecked", e.peer, m)]
    /\ Crowd(n, w)
    /\ UNCHANGED <<eph, hs, kps, table, phase, inbound, net, derived>>

\* ConsumeMessageResponse up to the end of the read-locked section.  The index
\* lookup before it is the same step: a handshake loses its index only while it
\* loses its chain key too, under the handshake lock.
ConsumeResponseCheck(n, w, m) ==
    /\ wk[n, w].pc = "idle"
    /\ m.type = "response" /\ m.to = n
    /\ LET e == table[n][m.receiver] IN
        /\ e # Nil /\ e.keyPair = Nil
        /\ hs[n, e.peer].state = "InitiationCreated"
        /\ e.peer = m.from /\ hs[n, e.peer].chainKey = [i |-> m.key.i, r |-> 0]
        /\ wk' = [wk EXCEPT ![<<n, w>>] = Busy("responseChecked", e.peer, m)]
    /\ Crowd(n, w)
    /\ UNCHANGED <<eph, hs, kps, table, phase, inbound, net, derived>>

\* The update under handshake.mutex.Lock, which does not look at the state again.
ConsumeResponseUpdate(n, w) ==
    LET p == wk[n, w].peer IN
    /\ wk[n, w].pc = "responseChecked"
    /\ hs' = [hs EXCEPT ![<<n, p>>] = ResponseConsumed(@, wk[n, w].msg)]
    /\ wk' = [wk EXCEPT ![<<n, w>>] = Busy("responseConsumed", p, @.msg)]
    /\ UNCHANGED <<eph, kps, table, phase, inbound, net, derived, crowded>>

CompleteHandshake(n, w) ==
    LET p == wk[n, w].peer IN
    /\ wk[n, w].pc = "responseConsumed"
    /\ \/ /\ CanDerive(hs[n, p])
          /\ NewKeypair(n, p)
       \/ /\ ~CanDerive(hs[n, p])
          /\ UNCHANGED <<hs, table, kps, derived>>
    /\ wk' = [wk EXCEPT ![<<n, w>>] = Idle]
    /\ UNCHANGED <<eph, phase, inbound, net, crowded>>

-----------------------------------------------------------------------------
(* Transport messages, as far as they move key pairs.                      *)

\* The nonce routine encrypts under the current key pair.
SendTransport(n, p) ==
    LET k == kps[n, p].current IN
    /\ phase[n, p] = "running"
    /\ k # Nil
    /\ net' = net \cup {TransportMessage(p, k)}
    /\ UNCHANGED <<eph, hs, kps, table, phase, wk, inbound, derived, crowded>>

\* RoutineReceiveIncoming looks the key pair up, a decryption worker opens the
\* message with it, and the element waits for the sequential receiver.
ReceiveTransport(n, m) ==
    /\ m.type = "transport" /\ m.to = n
    /\ LET e == table[n][m.receiver] IN
        /\ e # Nil /\ e.keyPair # Nil
        /\ phase[n, e.peer] = "running"
        /\ e.keyPair.key = m.key
        /\ inbound' = [inbound EXCEPT ![<<n, e.peer>>] = @ \cup {e.keyPair}]
    /\ UNCHANGED <<eph, hs, kps, table, phase, wk, net, derived, crowded>>

\* RoutineSequentialReceiver: the element's key pair may have left its slot since.
SequentialReceiver(n, p) ==
    \E k \in inbound[n, p] :
        /\ phase[n, p] = "running"
        /\ \/ /\ kps[n, p].next = k
              /\ table' = [table EXCEPT ![n] = RetireConfirmed(@, kps[n, p])]
              /\ kps' = [kps EXCEPT ![<<n, p>>] = RotateConfirmed(@)]
           \/ /\ kps[n, p].next # k
              /\ UNCHANGED <<table, kps>>
        /\ inbound' = [inbound EXCEPT ![<<n, p>>] = @ \ {k}]
        /\ UNCHANGED <<eph, hs, phase, wk, net, derived, crowded>>

-----------------------------------------------------------------------------
(* The end of a session.                                                   *)

ExpiredZeroKeyMaterial(n, p) ==
    /\ n \in Ending
    /\ kps' = [kps EXCEPT ![<<n, p>>] = NoSlots]
    /\ hs' = [hs EXCEPT ![<<n, p>>] = Cleared(@)]
    /\ table' = [table EXCEPT ![n] = IndexDelete(DeleteSlots(@, kps[n, p]),
                                                 hs[n, p].localIndex)]
    /\ UNCHANGED <<eph, phase, wk, inbound, net, derived, crowded>>

\* Peer.Stop: the routines end, then the key pairs are cleared under their lock,
\* then the handshake under its own.  The handshake workers keep running.
StopKeypairs(n, p) ==
    /\ n \in Ending
    /\ phase[n, p] = "running"
    /\ phase' = [phase EXCEPT ![<<n, p>>] = "stopping"]
    /\ inbound' = [inbound EXCEPT ![<<n, p>>] = {}]
    /\ table' = [table EXCEPT ![n] = DeleteSlots(@, kps[n, p])]
    /\ kps' = [kps EXCEPT ![<<n, p>>] = NoSlots]
    /\ UNCHANGED <<eph, hs, wk, net, derived, crowded>>

StopHandshake(n, p) ==
    /\ phase[n, p] = "stopping"
    /\ phase' = [phase EXCEPT ![<<n, p>>] = "stopped"]
    /\ table' = [table EXCEPT ![n] = IndexDelete(@, hs[n, p].localIndex)]
    /\ hs' = [hs EXCEPT ![<<n, p>>] = Cleared(@)]
    /\ UNCHANGED <<eph, kps, wk, inbound, net, derived, crowded>>

Start(n, p) ==
    /\ phase[n, p] = "stopped"
    /\ phase' = [phase EXCEPT ![<<n, p>>] = "running"]
    /\ UNCHANGED <<eph, hs, kps, table, wk, inbound, net, derived, crowded>>

-----------------------------------------------------------------------------

Init ==
    /\ eph = 0
    /\ hs = [l \in Link |-> [state |-> "Zeroed", chainKey |-> NoKey, localIndex |-> 0,
                             remoteIndex |-> 0, lastTimestamp |-> 0]]
    /\ kps = [l \in Link |-> NoSlots]
    /\ table = [n \in Node |-> [i \in Index0 |-> Nil]]
    /\ phase = [l \in Link |-> "running"]
    /\ wk = [x \in Node \X Worker |-> Idle]
    /\ inbound = [l \in Link |-> {}]
    /\ net = {}
    /\ derived = {}
    /\ crowded = FALSE

PeerStep(n, p) ==
    \/ SendHandshakeInitiation(n, p)
    \/ SendTransport(n, p)
    \/ SequentialReceiver(n, p)
    \/ ExpiredZeroKeyMaterial(n, p)
    \/ StopKeypairs(n, p)
    \/ StopHandshake(n, p)
    \/ Start(n, p)

WorkerStep(n, w) ==
    \/ \E m \in net : ConsumeInitiationCheck(n, w, m)
    \/ ConsumeInitiationUpdate(n, w)
    \/ CreateMessageResponse(n, w)
    \/ ResponseFails(n, w)
    \/ RespondWithKeypair(n, w)
    \/ \E m \in net : ConsumeResponseCheck(n, w, m)
    \/ ConsumeResponseUpdate(n, w)
    \/ CompleteHandshake(n, w)

Next ==
    \/ \E l \in Link : PeerStep(l[1], l[2])
    \/ \E n \in Node, w \in Worker : WorkerStep(n, w)
    \/ \E n \in Node, m \in net : ReceiveTransport(n, m)

Spec == Init /\ [][Next]_vars

-----------------------------------------------------------------------------
(* Properties.                                                             *)

\* The types of handshakes, key pairs, index table, workers and messages.
TypeOK ==
    /\ eph \in Nat
    /\ hs \in [Link -> Handshakes]
    /\ kps \in [Link -> Slots]
    /\ table \in [Node -> [Index0 -> Entry \cup {Nil}]]
    /\ phase \in [Link -> {"running", "stopping", "stopped"}]
    /\ wk \in [Node \X Worker -> WorkerState]
    /\ inbound \in [Link -> SUBSET Keypair]
    /\ net \subseteq (Initiation \cup Response \cup Transport)
    /\ derived \subseteq [owner : Node, peer : Node, kp : Keypair]

Stored(s) == {s.previous, s.current, s.next} \ {Nil}

\* The handshake index i and the key pairs K of peer p are in table tab.
Entered(tab, p, i, K) ==
    /\ i # 0 => tab[i] = HandshakeEntry(p)
    /\ \A k \in K : k.localIndex # 0 => tab[k.localIndex] = KeypairEntry(p, k)

\* Whoever holds an index is found under it: the index of a handshake in progress
\* leads to that handshake, the index of a stored key pair to that key pair.
\* Otherwise responses or transport messages of a live session are dropped.
OwnersEntered ==
    \A l \in Link : Entered(table[l[1]], l[2], hs[l].localIndex, Stored(kps[l]))

\* The entries of peer p in tab are its handshake index i and its key pairs K.
Owned(tab, p, i, K) ==
    \A j \in Index :
        tab[j] # Nil /\ tab[j].peer = p =>
            \/ tab[j].keyPair = Nil /\ i = j
            \/ tab[j].keyPair \in K /\ tab[j].keyPair.localIndex = j

\* Nothing else is in the table: an entry belongs to the handshake that holds its
\* index or to a stored key pair.  Otherwise rotation, Peer.Stop or the
\* zero-key-material timer leaks an entry, and keys that were to be erased still
\* decrypt messages.  (Index 0 is left out: a worker that derives a key pair after
\* another one cleared the handshake stores it there, where index.go means "unset".)
EntriesOwned ==
    /\ \A n \in Node : \A i \in Index : table[n][i] # Nil => table[n][i].peer # n
    /\ \A l \in Link : Owned(table[l[1]], l[2], hs[l].localIndex, Stored(kps[l]))

Apart(k, c) ==
    k # Nil /\ c # Nil /\ k.localIndex # 0 => k.localIndex # c.localIndex

Distinct(s) ==
    Apart(s.previous, s.current) /\ Apart(s.current, s.next) /\ Apart(s.previous, s.next)

\* The stored key pairs of a peer have different indices, so that retiring one
\* never removes the entry of another.
SlotsDistinct == \A l \in Link : Distinct(kps[l])

\* No device is its own peer: not as the sender of a message it gets, and not as
\* the peer a worker is busy with.
NoSelfPeer ==
    /\ \A m \in net : m.type # "transport" => m.from # m.to
    /\ \A x \in Node \X Worker :
          wk[x].pc # "idle" => /\ wk[x].peer # x[1]
                               /\ wk[x].msg.from # wk[x].msg.to

\* The inductive invariant behind the table properties.
TableInv == TypeOK /\ NoSelfPeer /\ OwnersEntered /\ EntriesOwned /\ SlotsDistinct

\* A device encrypts under a key pair it derived as responder only after the
\* initiator has derived the same key: current is reached through next, and next is
\* promoted by a message that opens under it.
KeyConfirmed ==
    \A l \in Link :
        LET k == kps[l].current IN
        k # Nil /\ ~k.isInitiator =>
            \E d \in derived : /\ d.owner = l[2] /\ d.peer = l[1]
                               /\ d.kp.isInitiator /\ d.kp.key = k.key

\* Two ends that derive the same key agree on who they are talking to, and the
\* initiator sends to the index under which the responder stored its key pair.
SendIndexAgreed ==
    \A d, c \in derived :
        d.kp.isInitiator /\ ~c.kp.isInitiator /\ d.kp.key = c.kp.key =>
            /\ d.owner = c.peer /\ d.peer = c.owner
            /\ d.kp.remoteIndex = c.kp.localIndex

\* A handshake yields at most one key pair at each end, until two workers of a device are
\* busy at once: the updates in ConsumeMessageInitiation and ConsumeMessageResponse come
\* after the lock was released, and do not look at the state again.
DerivedOnce ==
    crowded \/ \A d, c \in derived : d.owner = c.owner /\ d.kp.key = c.kp.key => d = c
=============================================================================
