---------------------------- MODULE Configuration ----------------------------
(***************************************************************************)
(* The set operation of the configuration socket (ipcSetOperation of       *)
(* uapi.go) with the device operations it calls: SetPrivateKey,            *)
(* LookupPeer, NewPeer, RemovePeer and RemoveAllPeers.                     *)
(*                                                                         *)
(* Every connection is a goroutine that keeps a pointer to the peer it has *)
(* selected.  A peer may be removed and created again under the same       *)
(* public key, so that a peer object is a public key with a generation;    *)
(* the generation of an object nobody refers to is used again.  One step   *)
(* is what happens under one set of locks.  Prefixes are disjoint, for     *)
(* which the routing table is a function (RoutingTable is about the        *)
(* others).  The device goes up and down in one step and is not closed     *)
(* (DeviceState is about that); RemovePeer stops a peer at once (Locks     *)
(* tells when it cannot).  Lines that only store a value in the selected   *)
(* peer are left out.                                                      *)
(***************************************************************************)
EXTENDS Naturals, FiniteSets

CONSTANTS Key,             \* public keys
          Address,         \* prefixes
          Connection,      \* goroutines of ipcHandle
          Weak,            \* public keys whose shared secrets are zero
          MaxPeers,
          Nil

ASSUME ConfigurationAssumption == IsFiniteSet(Address) /\ IsFiniteSet(Connection)

VARIABLES up,              \* device.isUp
          own,             \* device.noise.publicKey
          peers,           \* device.peers.keyMap: generations, 0 if absent
          running,         \* the peer objects whose routines run
          routes,          \* device.routing.table
          conn,            \* the variables of ipcSetOperation
          overlapped       \* history: two set operations ran at the same time

vars == <<up, own, peers, running, routes, conn, overlapped>>

-----------------------------------------------------------------------------
Configured == {k \in Key : peers[k] # 0}

Object(k) == <<k, peers[k]>>

Selected == {conn[c].peer : c \in Connection}

\* The object that new(Peer) gives for a key: one nothing refers to.
Fresh(k) ==
    LET free == {g \in 1..(2 + Cardinality(Address) + Cardinality(Connection)) :
                    <<k, g>> \notin {Object(k)} \cup running \cup Selected \cup {routes[a] : a \in Address}}
    IN  <<k, CHOOSE g \in free : TRUE>>

\* The table without the routes of some objects.
Unrouted(objects) == [a \in Address |-> IF routes[a] \in objects THEN Nil ELSE routes[a]]

UnsafeRemovePeersRouted(keys) ==      \* mutant: routes stay
    /\ peers' = [k \in Key |-> IF k \in keys THEN 0 ELSE peers[k]]
    /\ running' = running \ {Object(k) : k \in keys}
    /\ routes' = routes

UnsafeRemovePeers(keys) ==
    /\ peers' = [k \in Key |-> IF k \in keys THEN 0 ELSE peers[k]]
    /\ running' = running \ {Object(k) : k \in keys}
    /\ routes' = Unrouted({Object(k) : k \in keys})

Reading(c) == conn[c].at \in {"device", "peer"}

\* A connection that never returns from SetPrivateKey keeps noise.mutex, routing.mutex and
\* peers.mutex, without which no line below can be carried out.
Stuck == \E c \in Connection : conn[c].at = "stuck"

-----------------------------------------------------------------------------
(* deviceUpdateState, as far as the peers are concerned.                   *)

Up ==
    /\ ~up /\ ~Stuck
    /\ up' = TRUE
    /\ running' = {Object(k) : k \in Configured}
    /\ UNCHANGED <<own, peers, routes, conn, overlapped>>

Down ==
    /\ up /\ ~Stuck
    /\ up' = FALSE
    /\ running' = {}
    /\ UNCHANGED <<own, peers, routes, conn, overlapped>>

-----------------------------------------------------------------------------
(* Lines of the device section.                                            *)

Accept(c) ==
    /\ conn[c].at = "idle"
    /\ conn' = [conn EXCEPT ![c] = [at |-> "device", peer |-> Nil, dummy |-> FALSE, key |-> Nil]]
    /\ overlapped' = (overlapped \/ \E d \in Connection : conn[d].at # "idle")
    /\ UNCHANGED <<up, own, peers, running, routes>>

\* An empty or an invalid line, or the end of the input: what was done stays.
Return(c) ==
    /\ Reading(c)
    /\ conn' = [conn EXCEPT ![c] = [at |-> "idle", peer |-> Nil, dummy |-> FALSE, key |-> Nil]]
    /\ UNCHANGED <<up, own, peers, running, routes, overlapped>>

\* The peers that SetPrivateKey removes.  The zero key removes all; its public key is none
\* of Key.
Matching(k) == IF k = Nil THEN Configured ELSE Configured \cap ({k} \cup Weak)

SetPrivateKeyOnly(c, k) ==            \* mutant: the peer of that key stays
    /\ conn[c].at = "device" /\ ~Stuck
    /\ {Object(m) : m \in Matching(k)} \cap running = {}
    /\ own' = k
    /\ UnsafeRemovePeers(Matching(k) \ {k})
    /\ UNCHANGED <<up, conn, overlapped>>

SetPrivateKey(c, k) ==
    /\ conn[c].at = "device" /\ ~Stuck
    /\ {Object(m) : m \in Matching(k)} \cap running = {}
    /\ own' = k
    /\ UnsafeRemovePeers(Matching(k))
    /\ UNCHANGED <<up, conn, overlapped>>

\* SetPrivateKey holds handshake.mutex of every peer for reading, and Peer.Stop of a
\* running peer wants it for writing.  The peer with the key is stopped before the key is
\* set, the others after that.
SetPrivateKeyBlocks(c, k) ==
    /\ conn[c].at = "device" /\ ~Stuck
    /\ \E m \in IF k \in Configured THEN {k} ELSE Matching(k) :
        /\ Object(m) \in running
        /\ running' = running \ {Object(m)}
        /\ routes' = Unrouted({Object(m)})
    /\ own' = IF k \in Configured THEN own ELSE k
    /\ conn' = [conn EXCEPT ![c].at = "stuck"]
    /\ UNCHANGED <<up, peers, overlapped>>

ReplacePeers(c) ==
    /\ conn[c].at = "device" /\ ~Stuck
    /\ UnsafeRemovePeers(Configured)
    /\ UNCHANGED <<up, own, conn, overlapped>>

-----------------------------------------------------------------------------
(* Lines of the peer sections.                                             *)

\* The own key makes the peer a dummy; dummy is not reset by a later line.
PublicKey(c, k) ==
    /\ Reading(c) /\ ~Stuck
    /\ conn' = [conn EXCEPT ![c] = [at |-> "lookup", peer |-> IF own = k THEN Nil ELSE @.peer,
                                    dummy |-> @.dummy \/ own = k, key |-> k]]
    /\ UNCHANGED <<up, own, peers, running, routes, overlapped>>

LookupPeer(c) ==
    LET k == conn[c].key IN
    /\ conn[c].at = "lookup" /\ ~Stuck
    /\ conn' = [conn EXCEPT ![c] =
                   IF peers[k] # 0 THEN [@ EXCEPT !.at = "peer", !.peer = Object(k), !.key = Nil]
                                   ELSE [@ EXCEPT !.at = "create", !.peer = Nil]]
    /\ UNCHANGED <<up, own, peers, running, routes, overlapped>>

NewPeerReplacing(c) ==                \* mutant: existing peers are replaced
    LET k == conn[c].key IN
    /\ conn[c].at = "create" /\ ~Stuck
    /\ Cardinality(Configured) < MaxPeers
    /\ peers' = [peers EXCEPT ![k] = Fresh(k)[2]]
    /\ running' = running \cup (IF up THEN {Fresh(k)} ELSE {})
    /\ conn' = [conn EXCEPT ![c] = [@ EXCEPT !.at = "peer", !.peer = Fresh(k), !.key = Nil]]
    /\ UNCHANGED <<up, own, routes, overlapped>>

NewPeer(c) ==
    LET k == conn[c].key IN
    /\ conn[c].at = "create" /\ ~Stuck
    /\ Cardinality(Configured) < MaxPeers /\ peers[k] = 0
    /\ peers' = [peers EXCEPT ![k] = Fresh(k)[2]]
    /\ running' = running \cup (IF up THEN {Fresh(k)} ELSE {})
    /\ conn' = [conn EXCEPT ![c] = [@ EXCEPT !.at = "peer", !.peer = Fresh(k), !.key = Nil]]
    /\ UNCHANGED <<up, own, routes, overlapped>>

\* Too many peers, or another connection has created the peer meanwhile.
NewPeerFails(c) ==
    /\ conn[c].at = "create" /\ ~Stuck
    /\ Cardinality(Configured) >= MaxPeers \/ peers[conn[c].key] # 0
    /\ conn' = [conn EXCEPT ![c] = [at |-> "idle", peer |-> Nil, dummy |-> FALSE, key |-> Nil]]
    /\ UNCHANGED <<up, own, peers, running, routes, overlapped>>

\* RemovePeer looks the peer up again, by its key.
Remove(c) ==
    /\ conn[c].at = "peer" /\ ~Stuck
    /\ UnsafeRemovePeers(IF conn[c].dummy THEN {} ELSE {conn[c].peer[1]} \cap Configured)
    /\ conn' = [conn EXCEPT ![c].peer = Nil, ![c].dummy = TRUE]
    /\ UNCHANGED <<up, own, overlapped>>

ReplaceAllowedIPs(c) ==
    /\ conn[c].at = "peer" /\ ~Stuck
    /\ routes' = IF conn[c].dummy THEN routes ELSE Unrouted({conn[c].peer})
    /\ UNCHANGED <<up, own, peers, running, conn, overlapped>>

AllowedIP(c, a) ==
    /\ conn[c].at = "peer" /\ ~Stuck
    /\ routes' = IF conn[c].dummy THEN routes ELSE [routes EXCEPT ![a] = conn[c].peer]
    /\ UNCHANGED <<up, own, peers, running, conn, overlapped>>

-----------------------------------------------------------------------------
Init ==
    /\ up = FALSE
    /\ own = Nil
    /\ peers = [k \in Key |-> 0]
    /\ running = {}
    /\ routes = [a \in Address |-> Nil]
    /\ conn = [c \in Connection |-> [at |-> "idle", peer |-> Nil, dummy |-> FALSE, key |-> Nil]]
    /\ overlapped = FALSE

Line(c) ==
    \/ Accept(c)
    \/ Return(c)
    \/ \E k \in Key \cup {Nil} : SetPrivateKey(c, k) \/ SetPrivateKeyBlocks(c, k)
    \/ ReplacePeers(c)
    \/ \E k \in Key : PublicKey(c, k)
    \/ LookupPeer(c)
    \/ NewPeer(c)
    \/ NewPeerFails(c)
    \/ Remove(c)
    \/ ReplaceAllowedIPs(c)
    \/ \E a \in Address : AllowedIP(c, a)

Next == Up \/ Down \/ \E c \in Connection : Line(c)

Spec == Init /\ [][Next]_vars

-----------------------------------------------------------------------------
(* Properties.                                                             *)

\* However connections and changes of state interleave, the peers that process packets are
\* those in the peer map, if the device is up: no peer is forgotten while its routines run
\* (the second look at the map in NewPeer), none is configured without them, and none runs
\* on a device that is down.  The one exception is the peer whose removal by SetPrivateKey
\* never ends.
RunningAreConfigured ==
    ~Stuck => running = IF up THEN {Object(k) : k \in Configured} ELSE {}

\* As long as set operations follow each other, packets are only routed to peers in
\* the peer map (unsafeRemovePeer of device.go: a removed peer "does not exists in
\* the routing table").  It fails when they overlap: a connection may have selected
\* a peer that another removes.
RoutesOfPeers ==
    overlapped \/ \A a \in Address : routes[a] \in {Nil} \cup {Object(k) : k \in Configured}

\* And no packet is routed to a peer with the device's own public key, whichever of
\* the two keys is set first.
OwnKeyUnrouted == overlapped \/ \A a \in Address : routes[a] # Nil => routes[a][1] # own
=============================================================================
