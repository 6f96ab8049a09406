------------------------- MODULE ConfigurationProofs -------------------------
(***************************************************************************)
(* Proofs about the set operation, for any keys, prefixes and connections: *)
(* the peers that run are those in the peer map, and as long as set        *)
(* operations follow each other every route leads to one of them, and to   *)
(* none with the device's own key.                                         *)
(*                                                                         *)
(* The first needs the objects that NewPeer makes to be new, which is a    *)
(* matter of counting the pointers there are.  The others need what a      *)
(* connection knows of the peer it has selected: it is in the map, and has *)
(* another key than the device, unless it is a dummy.                      *)
(***************************************************************************)
EXTENDS Configuration, FiniteSetTheorems, TLAPS

-----------------------------------------------------------------------------
(* The inductive invariant.                                                *)

Pointer == {Nil} \cup (Key \X Nat)

Section == {"idle", "device", "lookup", "create", "peer", "stuck"}

Variables == [at : Section, peer : Pointer, dummy : BOOLEAN, key : Key \cup {Nil}]

TypeOK ==
    /\ peers \in [Key -> Nat]
    /\ routes \in [Address -> Pointer]
    /\ conn \in [Connection -> Variables]
    /\ up \in BOOLEAN /\ overlapped \in BOOLEAN
    /\ \A c \in Connection : conn[c].at \in {"lookup", "create"} => conn[c].key \in Key

Objects == {Object(k) : k \in Configured}

\* Unless they have overlapped, one set operation runs at a time.
OneAtATime ==
    overlapped \/ \A c, d \in Connection : conn[c].at # "idle" /\ conn[d].at # "idle" => c = d

\* A line that names the device's own key makes the selected peer a dummy; another selected
\* peer is in the peer map.
Selects(c) ==
    /\ conn[c].at \in {"lookup", "create"} /\ ~conn[c].dummy => conn[c].key # own
    /\ conn[c].at = "peer" /\ ~conn[c].dummy =>
          \E k \in Configured : k # own /\ conn[c].peer = Object(k)

Selection == overlapped \/ \A c \in Connection : Selects(c)

IInv ==
    /\ TypeOK /\ OneAtATime /\ Selection
    /\ RunningAreConfigured /\ RoutesOfPeers /\ OwnKeyUnrouted

-----------------------------------------------------------------------------
(* Objects.                                                                *)

\* Fewer than n objects leave a generation up to n free.
LEMMA Pigeons ==
    ASSUME NEW n \in Nat, NEW k, NEW U, IsFiniteSet(U), Cardinality(U) < n
    PROVE  \E g \in 1 .. n : <<k, g>> \notin U
<1> SUFFICES ASSUME \A g \in 1 .. n : <<k, g>> \in U PROVE FALSE
  OBVIOUS
<1> DEFINE S == 1 .. n
           f == [g \in S |-> <<k, g>>]
<1>1. Cardinality(S) = n - 1 + 1 \/ (1 > n /\ Cardinality(S) = 0)
  BY FS_Interval
<1>2. IsFiniteSet(S) /\ Cardinality(U) < Cardinality(S)
  <2>1. IsFiniteSet(S)
    BY FS_Interval
  <2>2. Cardinality(U) \in Nat
    BY FS_CardinalityType
  <2> QED
    BY <1>1, <2>1, <2>2
<1>3. f \in [S -> U] /\ \A x, y \in S : f[x] = f[y] => x = y
  OBVIOUS
<1> HIDE DEF S, f
<1>4. \E x, y \in S : x # y /\ f[x] = f[y]
  BY <1>2, <1>3, FS_PigeonHole
<1> QED
  BY <1>3, <1>4

\* new(Peer) gives an object that is not in use: there are more generations than pointers.
LEMMA FreshFacts ==
    ASSUME IInv, ~Stuck, NEW k \in Key
    PROVE  /\ Fresh(k) = <<k, Fresh(k)[2]>>
           /\ Fresh(k)[2] \in Nat \ {0}
<1> DEFINE N == 2 + Cardinality(Address) + Cardinality(Connection)
           R == {routes[a] : a \in Address}
           used == {Object(k)} \cup running \cup Selected \cup R
           U == (Selected \cup R) \cup {Object(k)}
           free == {g \in 1 .. N : <<k, g>> \notin used}
<1>1. Cardinality(Address) \in Nat /\ Cardinality(Connection) \in Nat /\ N \in Nat
  BY ConfigurationAssumption, FS_CardinalityType
<1>2. IsFiniteSet(R) /\ Cardinality(R) <= Cardinality(Address)
  <2>1. routes \in Surjection(Address, R)
    BY DEF IInv, TypeOK, Surjection
  <2> QED
    BY <2>1, ConfigurationAssumption, FS_Surjection
<1>3. IsFiniteSet(Selected) /\ Cardinality(Selected) <= Cardinality(Connection)
  <2>1. [c \in Connection |-> conn[c].peer] \in Surjection(Connection, Selected)
    BY DEF Selected, Surjection
  <2> QED
    BY <2>1, ConfigurationAssumption, FS_Surjection
<1>4. IsFiniteSet(U) /\ Cardinality(U) < N
  <2>1. /\ Cardinality(R) \in Nat /\ Cardinality(Selected) \in Nat
        /\ IsFiniteSet(Selected \cap R) /\ Cardinality(Selected \cap R) \in Nat
    BY <1>2, <1>3, FS_CardinalityType, FS_Intersection, Zenon
  <2>2. /\ IsFiniteSet(Selected \cup R)
        /\ Cardinality(Selected \cup R)
              = Cardinality(Selected) + Cardinality(R) - Cardinality(Selected \cap R)
    BY <1>2, <1>3, FS_Union
  <2>3. /\ IsFiniteSet(U)
        /\ Cardinality(U) = IF Object(k) \in Selected \cup R THEN Cardinality(Selected \cup R)
                            ELSE Cardinality(Selected \cup R) + 1
    BY <2>2, FS_AddElement, Zenon
  <2> HIDE DEF R, U
  <2> QED
    BY <1>1, <1>2, <1>3, <2>1, <2>2, <2>3
<1>5. \A g \in 1 .. N : <<k, g>> \in used => <<k, g>> \in U
  <2>1. running \subseteq Objects
    BY DEF IInv, RunningAreConfigured, Objects
  <2>2. \A g : <<k, g>> \in Objects => <<k, g>> = Object(k)
    BY DEF Objects, Object
  <2> QED
    BY <2>1, <2>2
<1>6. free # {}
  <2> HIDE DEF U, N
  <2>1. \E g \in 1 .. N : <<k, g>> \notin U
    BY <1>1, <1>4, Pigeons
  <2> QED
    BY <1>5, <2>1
<1>7. Fresh(k) = <<k, CHOOSE g \in free : TRUE>>
  BY DEF Fresh
<1>8. free \subseteq Nat \ {0}
  BY <1>1
<1> HIDE DEF free
<1>9. PICK g \in free : Fresh(k) = <<k, g>>
  BY <1>6, <1>7, Zenon
<1> QED
  BY <1>8, <1>9

\* RemovePeer and RemoveAllPeers take peers out of the map, the running ones and the table.
LEMMA RemoveFacts ==
    ASSUME IInv, NEW K \in SUBSET Configured, UnsafeRemovePeers(K), UNCHANGED overlapped
    PROVE  /\ peers' \in [Key -> Nat] /\ routes' \in [Address -> Pointer]
           /\ Configured' = Configured \ K
           /\ \A k \in Configured' : Object(k)' = Object(k)
           /\ running = (IF up THEN Objects ELSE {}) => running' = IF up THEN Objects' ELSE {}
           /\ RoutesOfPeers'
           /\ ~overlapped => \A a \in Address : routes'[a] # Nil =>
                 routes'[a] = routes[a] /\ \E k \in Configured \ K : routes[a] = Object(k)
<1>1. /\ peers' = [k \in Key |-> IF k \in K THEN 0 ELSE peers[k]]
      /\ running' = running \ {Object(k) : k \in K}
      /\ routes' = [a \in Address |-> IF routes[a] \in {Object(k) : k \in K} THEN Nil
                                      ELSE routes[a]]
  BY DEF UnsafeRemovePeers, Unrouted
<1>2. peers' \in [Key -> Nat] /\ routes' \in [Address -> Pointer]
  BY <1>1 DEF IInv, TypeOK, Pointer
<1>3. /\ Configured' = Configured \ K
      /\ \A k \in Configured' : Object(k)' = Object(k)
  BY <1>1 DEF Configured, Object
<1>4. \A k, m \in Key : Object(k) = Object(m) => k = m
  BY DEF Object
<1>5. Objects' = Objects \ {Object(k) : k \in K}
  <2>1. Objects' = {Object(k) : k \in Configured \ K}
    BY <1>3 DEF Objects
  <2>2. Configured \subseteq Key
    BY DEF Configured
  <2> QED
    BY <1>4, <2>1, <2>2 DEF Objects
<1>6. ~overlapped => \A a \in Address : routes'[a] # Nil =>
          routes'[a] = routes[a] /\ \E k \in Configured \ K : routes[a] = Object(k)
  BY <1>1 DEF IInv, RoutesOfPeers
<1>7. RoutesOfPeers'
  <2> SUFFICES ASSUME ~overlapped, NEW a \in Address, routes'[a] # Nil
               PROVE  routes'[a] \in Objects'
    BY DEF RoutesOfPeers, Objects
  <2>1. PICK k \in Configured \ K : routes'[a] = Object(k)
    BY <1>6
  <2> QED
    BY <1>3, <2>1 DEF Objects
<1> QED
  BY <1>1, <1>2, <1>3, <1>5, <1>6, <1>7

-----------------------------------------------------------------------------
(* Connections.                                                            *)

\* The variables of connection c get these values; those of the others stay.
Becomes(c, at, peer, dummy, key) ==
    /\ conn' \in [Connection -> Variables]
    /\ \A d \in Connection : d # c => conn'[d] = conn[d]
    /\ conn'[c].at = at /\ conn'[c].peer = peer /\ conn'[c].dummy = dummy
    /\ conn'[c].key = key

\* The fields of x.
Fields(x, at, peer, dummy, key) ==
    x \in Variables /\ x.at = at /\ x.peer = peer /\ x.dummy = dummy /\ x.key = key

\* Writing some of the variables.
LEMMA FieldSet ==
    ASSUME NEW v \in Variables, NEW at \in Section, NEW peer \in Pointer,
           NEW dummy \in BOOLEAN, NEW key \in Key \cup {Nil}
    PROVE  /\ Fields([v EXCEPT !.at = at], at, v.peer, v.dummy, v.key)
           /\ Fields([v EXCEPT !.at = at, !.peer = peer, !.key = key], at, peer, v.dummy, key)
           /\ Fields([v EXCEPT !.at = at, !.peer = peer], at, peer, v.dummy, v.key)
           /\ Fields([v EXCEPT !.peer = peer, !.dummy = dummy], v.at, peer, dummy, v.key)
BY Zenon DEF Variables, Fields

\* The forms in which the lines change the variables.
LEMMA ConnectionChanges ==
    ASSUME TypeOK, NEW c \in Connection, NEW at \in Section, NEW peer \in Pointer,
           NEW dummy \in BOOLEAN, NEW key \in Key \cup {Nil}
    PROVE  /\ conn' = [conn EXCEPT ![c] = [at |-> at, peer |-> peer, dummy |-> dummy,
                                           key |-> key]] =>
                 Becomes(c, at, peer, dummy, key)
           /\ conn' = [conn EXCEPT ![c].at = at] =>
                 Becomes(c, at, conn[c].peer, conn[c].dummy, conn[c].key)
           /\ conn' = [conn EXCEPT ![c] = [@ EXCEPT !.at = at, !.peer = peer, !.key = key]] =>
                 Becomes(c, at, peer, conn[c].dummy, key)
           /\ conn' = [conn EXCEPT ![c] = [@ EXCEPT !.at = at, !.peer = peer]] =>
                 Becomes(c, at, peer, conn[c].dummy, conn[c].key)
           /\ conn' = [conn EXCEPT ![c].peer = peer, ![c].dummy = dummy] =>
                 Becomes(c, conn[c].at, peer, dummy, conn[c].key)
<1> DEFINE v == conn[c]
<1>1. v \in Variables /\ conn \in [Connection -> Variables] /\ c \in DOMAIN conn
  BY DEF TypeOK
<1>2. /\ v.at \in Section /\ v.peer \in Pointer /\ v.dummy \in BOOLEAN
      /\ v.key \in Key \cup {Nil}
  BY <1>1, Zenon DEF Variables
<1>3. ASSUME NEW x, NEW a, NEW p, NEW d, NEW k, Fields(x, a, p, d, k),
             conn' = [conn EXCEPT ![c] = x]
      PROVE  Becomes(c, a, p, d, k)
  BY <1>1, <1>3 DEF Becomes, Fields
<1>4. Fields([at |-> at, peer |-> peer, dummy |-> dummy, key |-> key], at, peer, dummy, key)
  BY DEF Fields, Variables
<1>5. ASSUME conn' = [conn EXCEPT ![c].at = at]
      PROVE  Becomes(c, at, v.peer, v.dummy, v.key)
  <2>1. conn' = [conn EXCEPT ![c] = [v EXCEPT !.at = at]]
    BY <1>5, Zenon
  <2>2. Fields([v EXCEPT !.at = at], at, v.peer, v.dummy, v.key)
    BY <1>1, FieldSet, Zenon
  <2> QED
    BY <1>3, <2>1, <2>2, Zenon
<1>6. ASSUME conn' = [conn EXCEPT ![c] = [@ EXCEPT !.at = at, !.peer = peer, !.key = key]]
      PROVE  Becomes(c, at, peer, v.dummy, key)
  <2>1. conn' = [conn EXCEPT ![c] = [v EXCEPT !.at = at, !.peer = peer, !.key = key]]
    BY <1>6, Zenon
  <2>2. Fields([v EXCEPT !.at = at, !.peer = peer, !.key = key], at, peer, v.dummy, key)
    BY <1>1, FieldSet, Zenon
  <2> QED
    BY <1>3, <2>1, <2>2, Zenon
<1>7. ASSUME conn' = [conn EXCEPT ![c] = [@ EXCEPT !.at = at, !.peer = peer]]
      PROVE  Becomes(c, at, peer, v.dummy, v.key)
  <2>1. conn' = [conn EXCEPT ![c] = [v EXCEPT !.at = at, !.peer = peer]]
    BY <1>7, Zenon
  <2>2. Fields([v EXCEPT !.at = at, !.peer = peer], at, peer, v.dummy, v.key)
    BY <1>1, FieldSet, Zenon
  <2> QED
    BY <1>3, <2>1, <2>2, Zenon
<1>8. ASSUME conn' = [conn EXCEPT ![c].peer = peer, ![c].dummy = dummy]
      PROVE  Becomes(c, v.at, peer, dummy, v.key)
  <2>1. conn' = [conn EXCEPT ![c] = [v EXCEPT !.peer = peer, !.dummy = dummy]]
    BY <1>1, <1>8, Zenon
  <2>2. Fields([v EXCEPT !.peer = peer, !.dummy = dummy], v.at, peer, dummy, v.key)
    BY <1>1, FieldSet, Zenon
  <2> QED
    BY <1>3, <2>1, <2>2, Zenon
<1> QED
  BY <1>3, <1>4, <1>5, <1>6, <1>7, <1>8, Zenon

\* What the variables of a connection hold.
LEMMA ConnectionFacts ==
    ASSUME TypeOK, NEW c \in Connection
    PROVE  /\ conn[c].at \in Section /\ conn[c].peer \in Pointer
           /\ conn[c].dummy \in BOOLEAN /\ conn[c].key \in Key \cup {Nil}
BY DEF TypeOK, Variables

\* A line that only changes what connection c has selected.
LEMMA Reselects ==
    ASSUME IInv, NEW c \in Connection, conn[c].at # "stuck",
           overlapped' \in BOOLEAN, overlapped => overlapped', OneAtATime',
           NEW at \in Section, NEW peer, NEW dummy, NEW key,
           Becomes(c, at, peer, dummy, key), at \in {"lookup", "create"} => key \in Key,
           ~overlapped' => Selects(c)',
           UNCHANGED <<up, own, peers, running, routes>>
    PROVE  IInv'
<1>1. TypeOK'
  BY DEF IInv, TypeOK, Becomes
<1>2. Stuck => Stuck'
  BY DEF Stuck, Becomes
<1>3. RunningAreConfigured'
  BY <1>2 DEF IInv, RunningAreConfigured, Configured, Object
<1>4. RoutesOfPeers' /\ OwnKeyUnrouted'
  BY DEF IInv, RoutesOfPeers, OwnKeyUnrouted, Configured, Object
<1>5. Selection'
  BY DEF IInv, Selection, Selects, Becomes, Configured, Object
<1> QED
  BY <1>1, <1>3, <1>4, <1>5 DEF IInv

\* A connection begins a set operation.
LEMMA StepAccept ==
    ASSUME IInv, NEW c \in Connection, Accept(c)
    PROVE  IInv'
<1>1. Becomes(c, "device", Nil, FALSE, Nil)
  BY ConnectionChanges, Zenon DEF Accept, IInv, Section, Pointer
<1>2. overlapped' \in BOOLEAN /\ (overlapped => overlapped')
  BY DEF Accept, IInv, TypeOK
<1>3. OneAtATime'
  BY <1>1, Zenon DEF Accept, OneAtATime, Becomes
<1>4. Selects(c)'
  BY <1>1 DEF Selects, Becomes
<1> QED
  BY <1>1, <1>2, <1>3, <1>4, Reselects, Zenon DEF Accept, Section

\* A set operation ends.
LEMMA StepReturn ==
    ASSUME IInv, NEW c \in Connection, Return(c) \/ NewPeerFails(c)
    PROVE  IInv'
<1>1. Becomes(c, "idle", Nil, FALSE, Nil)
  BY ConnectionChanges, Zenon DEF Return, NewPeerFails, IInv, Section, Pointer
<1>2. conn[c].at \notin {"idle", "stuck"} /\ UNCHANGED <<up, own, peers, running, routes, overlapped>>
  BY DEF Return, NewPeerFails, Reading
<1>3. OneAtATime'
  BY <1>1, <1>2 DEF IInv, OneAtATime, Becomes
<1>4. Selects(c)'
  BY <1>1 DEF Selects, Becomes
<1>5. overlapped' \in BOOLEAN
  BY <1>2 DEF IInv, TypeOK
<1> QED
  BY <1>1, <1>2, <1>3, <1>4, <1>5, Reselects, Zenon DEF Section

\* A public key is read; if it is the device's own, the peer becomes a dummy.
LEMMA StepPublicKey ==
    ASSUME IInv, NEW c \in Connection, NEW k \in Key, PublicKey(c, k)
    PROVE  IInv'
<1> DEFINE peer == IF own = k THEN Nil ELSE conn[c].peer
           dummy == conn[c].dummy \/ own = k
<1>1. peer \in Pointer /\ dummy \in BOOLEAN
  BY ConnectionFacts DEF IInv, Pointer
<1>2. /\ conn' = [conn EXCEPT ![c] = [at |-> "lookup", peer |-> peer, dummy |-> dummy, key |-> k]]
      /\ conn[c].at \notin {"idle", "stuck"}
      /\ UNCHANGED <<up, own, peers, running, routes, overlapped>>
  BY DEF PublicKey, Reading
<1>3. dummy = FALSE => k # own
  BY SMTT(30)
<1> HIDE DEF peer, dummy
<1>4. Becomes(c, "lookup", peer, dummy, k)
  BY <1>1, <1>2, ConnectionChanges, Zenon DEF IInv, Section
<1>5. OneAtATime'
  BY <1>2, <1>4 DEF IInv, OneAtATime, Becomes
<1>6. Selects(c)'
  BY <1>1, <1>2, <1>3, <1>4 DEF Selects, Becomes
<1>7. overlapped' \in BOOLEAN
  BY <1>2 DEF IInv, TypeOK
<1> QED
  BY <1>2, <1>4, <1>5, <1>6, <1>7, Reselects DEF Section

\* The peer with that key is selected, or is still to be created.
LEMMA StepLookupPeer ==
    ASSUME IInv, NEW c \in Connection, LookupPeer(c)
    PROVE  IInv'
<1>0. PICK k \in Key : k = conn[c].key
  BY DEF LookupPeer, IInv, TypeOK
<1>1. /\ conn[c].at = "lookup" /\ UNCHANGED <<up, own, peers, running, routes, overlapped>>
      /\ conn' = [conn EXCEPT ![c] =
                    IF peers[k] # 0 THEN [@ EXCEPT !.at = "peer", !.peer = Object(k), !.key = Nil]
                                    ELSE [@ EXCEPT !.at = "create", !.peer = Nil]]
  BY <1>0 DEF LookupPeer
<1>2. ~conn[c].dummy => overlapped \/ k # own
  BY <1>0, <1>1 DEF IInv, TypeOK, Selection, Selects
<1>3. Object(k) \in Pointer /\ Nil \in Pointer
  BY DEF IInv, TypeOK, Object, Pointer
<1>4. overlapped' \in BOOLEAN
  BY <1>1 DEF IInv, TypeOK
<1>5. CASE peers[k] # 0
  <2>1. conn' = [conn EXCEPT ![c] = [@ EXCEPT !.at = "peer", !.peer = Object(k), !.key = Nil]]
    BY <1>1, <1>5, SMTT(30)
  <2>2. Becomes(c, "peer", Object(k), conn[c].dummy, Nil)
    BY <1>3, <2>1, ConnectionChanges, Zenon DEF IInv, Section
  <2>3. k \in Configured
    BY <1>5 DEF Configured
  <2>4. OneAtATime'
    BY <1>1, <2>2 DEF IInv, OneAtATime, Becomes
  <2>5. ~overlapped' => Selects(c)'
    <3>1. k \in Configured' /\ Object(k)' = Object(k)
      BY <1>1, <2>3 DEF Configured, Object
    <3> QED
      BY <1>1, <1>2, <2>2, <3>1 DEF Selects, Becomes
  <2> QED
    BY <1>1, <1>4, <2>2, <2>4, <2>5, Reselects DEF Section
<1>6. CASE ~(peers[k] # 0)
  <2>1. conn' = [conn EXCEPT ![c] = [@ EXCEPT !.at = "create", !.peer = Nil]]
    BY <1>1, <1>6, SMTT(30)
  <2>2. Becomes(c, "create", Nil, conn[c].dummy, k)
    BY <1>0, <1>3, <2>1, ConnectionChanges, Zenon DEF IInv, Section
  <2>3. OneAtATime'
    BY <1>1, <2>2 DEF IInv, OneAtATime, Becomes
  <2>4. ~overlapped' => Selects(c)'
    BY <1>1, <1>2, <2>2 DEF Selects, Becomes
  <2> QED
    BY <1>1, <1>2, <1>4, <2>2, <2>3, <2>4, Reselects DEF Section
<1> QED
  BY <1>5, <1>6

-----------------------------------------------------------------------------
(* The peer map.                                                           *)

\* A new object enters the map, and its routines start if the device is up.
LEMMA StepNewPeer ==
    ASSUME IInv, NEW c \in Connection, NewPeer(c)
    PROVE  IInv'
<1>1. PICK k \in Key : k = conn[c].key
  BY DEF NewPeer, IInv, TypeOK
<1>2. PICK o : o = Fresh(k)
  OBVIOUS
<1>3. /\ conn[c].at = "create" /\ ~Stuck /\ peers[k] = 0
      /\ peers' = [peers EXCEPT ![k] = o[2]]
      /\ running' = running \cup (IF up THEN {o} ELSE {})
      /\ conn' = [conn EXCEPT ![c] = [@ EXCEPT !.at = "peer", !.peer = o, !.key = Nil]]
      /\ UNCHANGED <<up, own, routes, overlapped>>
  BY <1>1, <1>2 DEF NewPeer
<1>4. o = <<k, o[2]>> /\ o[2] \in Nat \ {0}
  BY <1>2, <1>3, FreshFacts
<1>5. ~conn[c].dummy => overlapped \/ k # own
  BY <1>1, <1>3 DEF IInv, Selection, Selects
<1>6. o \in Pointer
  <2>1. <<k, o[2]>> \in Key \X Nat
    BY <1>4, SMTT(30)
  <2> QED
    BY <1>4, <2>1 DEF Pointer
<1>7. Becomes(c, "peer", o, conn[c].dummy, Nil)
  BY <1>3, <1>6, ConnectionChanges, Zenon DEF IInv, Section
<1>8. /\ peers' \in [Key -> Nat] /\ peers'[k] = o[2]
      /\ \A m \in Key : m # k => peers'[m] = peers[m]
  BY <1>3, <1>4 DEF IInv, TypeOK
<1>9. Configured' = Configured \cup {k} /\ k \notin Configured
  BY <1>3, <1>4, <1>8 DEF Configured
<1>10. Object(k)' = o /\ \A m \in Configured : Object(m)' = Object(m)
  BY <1>4, <1>8, <1>9 DEF Object, Configured
<1>11. Objects' = Objects \cup {o}
  BY <1>9, <1>10 DEF Objects
<1>12. TypeOK'
  BY <1>3, <1>7, <1>8 DEF IInv, TypeOK, Becomes
<1>13. OneAtATime'
  BY <1>3, <1>7 DEF IInv, OneAtATime, Becomes
<1>14. RunningAreConfigured'
  <2>1. running = IF up THEN Objects ELSE {}
    BY <1>3 DEF IInv, RunningAreConfigured, Objects
  <2>2. running' = IF up' THEN Objects' ELSE {}
    BY <1>3, <1>11, <2>1
  <2> QED
    BY <2>2 DEF RunningAreConfigured, Objects
<1>15. RoutesOfPeers' /\ OwnKeyUnrouted'
  <2>1. overlapped \/ \A a \in Address : routes[a] \in {Nil} \cup Objects
    BY DEF IInv, RoutesOfPeers, Objects
  <2>2. overlapped' \/ \A a \in Address : routes'[a] \in {Nil} \cup Objects'
    BY <1>3, <1>11, <2>1
  <2>3. OwnKeyUnrouted'
    BY <1>3 DEF IInv, OwnKeyUnrouted
  <2> QED
    BY <2>2, <2>3 DEF RoutesOfPeers, Objects
<1>16. Selection'
  <2> SUFFICES ASSUME ~overlapped, NEW d \in Connection PROVE Selects(d)'
    BY <1>3 DEF Selection
  <2>1. CASE d = c
    BY <1>3, <1>5, <1>7, <1>9, <1>10, <2>1 DEF Selects, Becomes
  <2>2. CASE d # c
    BY <1>3, <1>7, <2>2 DEF IInv, OneAtATime, Selects, Becomes
  <2> QED
    BY <2>1, <2>2
<1> QED
  BY <1>12, <1>13, <1>14, <1>15, <1>16 DEF IInv

\* Peers are removed, all by the same connection; what it has selected afterwards is a
\* dummy or nothing.
LEMMA StepRemoval ==
    ASSUME IInv, NEW c \in Connection, NEW K \in SUBSET Configured, UnsafeRemovePeers(K),
           conn[c].at \in {"device", "peer"}, ~Stuck,
           conn' \in [Connection -> Variables],
           \A d \in Connection : d # c => conn'[d] = conn[d],
           conn'[c].at = conn[c].at, conn[c].at = "peer" => conn'[c].dummy,
           own' = own \/ (own' \in {Nil} \cup Key /\ (K = Configured \/ own' \in K \/ own' \notin Configured)),
           UNCHANGED <<up, overlapped>>
    PROVE  IInv'
<1>1. /\ peers' \in [Key -> Nat] /\ routes' \in [Address -> Pointer]
      /\ Configured' = Configured \ K
      /\ running = (IF up THEN Objects ELSE {}) => running' = IF up THEN Objects' ELSE {}
      /\ RoutesOfPeers'
      /\ ~overlapped => \A a \in Address : routes'[a] # Nil =>
            routes'[a] = routes[a] /\ \E k \in Configured \ K : routes[a] = Object(k)
  BY RemoveFacts
<1>2. TypeOK'
  BY <1>1 DEF IInv, TypeOK
<1>3. OneAtATime'
  BY DEF IInv, OneAtATime
<1>4. RunningAreConfigured'
  <2>1. running = IF up THEN Objects ELSE {}
    BY DEF IInv, RunningAreConfigured, Objects
  <2>2. running' = IF up' THEN Objects' ELSE {}
    BY <1>1, <2>1
  <2> QED
    BY <2>2 DEF RunningAreConfigured, Objects
<1>5. OwnKeyUnrouted'
  <2> SUFFICES ASSUME ~overlapped, NEW a \in Address, routes'[a] # Nil
               PROVE  routes'[a][1] # own'
    BY DEF OwnKeyUnrouted
  <2>1. PICK k \in Configured \ K : routes'[a] = Object(k) /\ routes[a] = Object(k) /\ routes[a] # Nil
    BY <1>1
  <2>2. routes'[a][1] = k /\ k # own
    <3>1. Object(k)[1] = k
      BY DEF Object
    <3>2. routes[a][1] # own
      BY <2>1 DEF IInv, OwnKeyUnrouted
    <3> QED
      BY <2>1, <3>1, <3>2, Zenon
  <2> QED
    BY <2>1, <2>2
<1>6. Selection'
  BY DEF IInv, OneAtATime, Selection, Selects
<1> QED
  BY <1>1, <1>2, <1>3, <1>4, <1>5, <1>6, SMTT(30) DEF IInv

\* SetPrivateKey with no running peer to remove.
LEMMA StepSetPrivateKey ==
    ASSUME IInv, NEW c \in Connection, NEW k \in Key \cup {Nil}, SetPrivateKey(c, k)
    PROVE  IInv'
<1>1. /\ conn[c].at = "device" /\ ~Stuck /\ own' = k /\ UnsafeRemovePeers(Matching(k))
      /\ UNCHANGED <<up, conn, overlapped>>
  BY DEF SetPrivateKey
<1>2. /\ Matching(k) \in SUBSET Configured
      /\ Matching(k) = Configured \/ k \in Matching(k) \/ k \notin Configured
  BY DEF Matching
<1>3. conn \in [Connection -> Variables]
  BY DEF IInv, TypeOK
<1> QED
  BY <1>1, <1>2, <1>3, StepRemoval

\* replace_peers.
LEMMA StepReplacePeers ==
    ASSUME IInv, NEW c \in Connection, ReplacePeers(c)
    PROVE  IInv'
<1>1. conn \in [Connection -> Variables]
  BY DEF IInv, TypeOK
<1> QED
  BY <1>1, StepRemoval DEF ReplacePeers

\* remove: the peer is looked up again, and a dummy takes its place.
LEMMA StepRemove ==
    ASSUME IInv, NEW c \in Connection, Remove(c)
    PROVE  IInv'
<1> DEFINE K == IF conn[c].dummy THEN {} ELSE {conn[c].peer[1]} \cap Configured
<1>1. /\ conn[c].at = "peer" /\ ~Stuck /\ UnsafeRemovePeers(K)
      /\ conn' = [conn EXCEPT ![c].peer = Nil, ![c].dummy = TRUE]
      /\ UNCHANGED <<up, own, overlapped>>
  BY DEF Remove
<1>2. K \in SUBSET Configured
  BY SMTT(30)
<1>3. Becomes(c, "peer", Nil, TRUE, conn[c].key)
  <2>1. "peer" \in Section /\ Nil \in Pointer
    BY DEF Section, Pointer
  <2> QED
    BY <1>1, <2>1, ConnectionChanges, Zenon DEF IInv
<1> HIDE DEF K
<1> QED
  BY <1>1, <1>2, <1>3, StepRemoval DEF Becomes

\* SetPrivateKey finds a peer that runs, and never returns.
LEMMA StepSetPrivateKeyBlocks ==
    ASSUME IInv, NEW c \in Connection, NEW k \in Key \cup {Nil}, SetPrivateKeyBlocks(c, k)
    PROVE  IInv'
<1>1. PICK m : routes' = Unrouted({Object(m)})
  BY SMTT(30) DEF SetPrivateKeyBlocks
<1>2. /\ conn[c].at = "device" /\ own' = (IF k \in Configured THEN own ELSE k)
      /\ conn' = [conn EXCEPT ![c].at = "stuck"]
      /\ UNCHANGED <<up, peers, overlapped>>
  BY DEF SetPrivateKeyBlocks
<1>3. Becomes(c, "stuck", conn[c].peer, conn[c].dummy, conn[c].key)
  BY <1>2, ConnectionChanges, Zenon DEF IInv, Section, Pointer
<1>4. /\ routes' \in [Address -> Pointer]
      /\ \A a \in Address : routes'[a] = Nil \/ routes'[a] = routes[a]
  BY <1>1 DEF Unrouted, IInv, TypeOK, Pointer
<1>5. TypeOK'
  BY <1>2, <1>3, <1>4 DEF IInv, TypeOK, Becomes
<1>6. OneAtATime'
  BY <1>2, <1>3 DEF IInv, OneAtATime, Becomes
<1>7. Configured' = Configured /\ \A j : Object(j)' = Object(j)
  BY <1>2 DEF Configured, Object
<1>8. RunningAreConfigured'
  BY <1>3 DEF RunningAreConfigured, Stuck, Becomes
<1>9. RoutesOfPeers'
  BY <1>2, <1>4, <1>7 DEF IInv, RoutesOfPeers
<1>10. OwnKeyUnrouted'
  <2> SUFFICES ASSUME ~overlapped, NEW a \in Address, routes'[a] # Nil
               PROVE  routes'[a][1] # own'
    BY <1>2 DEF OwnKeyUnrouted
  <2>1. routes'[a] = routes[a] /\ routes[a][1] # own
    BY <1>4 DEF IInv, OwnKeyUnrouted
  <2>2. PICK j \in Configured : routes[a] = Object(j)
    BY <1>4 DEF IInv, RoutesOfPeers
  <2> QED
    BY <1>2, <2>1, <2>2 DEF Object
<1>11. Selection'
  BY <1>2, <1>3 DEF IInv, OneAtATime, Selection, Selects, Becomes
<1> QED
  BY <1>5, <1>6, <1>8, <1>9, <1>10, <1>11 DEF IInv

\* allowed_ip and replace_allowed_ips.
LEMMA StepRoute ==
    ASSUME IInv, NEW c \in Connection,
           ReplaceAllowedIPs(c) \/ \E a \in Address : AllowedIP(c, a)
    PROVE  IInv'
<1>1. conn[c].at = "peer" /\ UNCHANGED <<up, own, peers, running, conn, overlapped>>
  BY DEF ReplaceAllowedIPs, AllowedIP
<1>2. conn[c].peer \in Pointer
  BY ConnectionFacts DEF IInv
<1>3. /\ routes' \in [Address -> Pointer]
      /\ \A a \in Address : \/ routes'[a] = Nil \/ routes'[a] = routes[a]
                            \/ ~conn[c].dummy /\ routes'[a] = conn[c].peer
  BY <1>2 DEF ReplaceAllowedIPs, AllowedIP, Unrouted, IInv, TypeOK, Pointer
<1>4. ~overlapped /\ ~conn[c].dummy =>
          \E k \in Configured : k # own /\ conn[c].peer = Object(k)
  BY <1>1 DEF IInv, Selection, Selects
<1>5. Configured' = Configured /\ \A j : Object(j)' = Object(j)
  BY <1>1 DEF Configured, Object
<1>6. RoutesOfPeers'
  BY <1>1, <1>3, <1>4, <1>5 DEF IInv, RoutesOfPeers
<1>7. OwnKeyUnrouted'
  BY <1>1, <1>3, <1>4 DEF IInv, OwnKeyUnrouted, Object
<1>8. TypeOK' /\ OneAtATime'
  BY <1>1, <1>3, SMTT(30) DEF IInv, TypeOK, OneAtATime
<1>9. Selection' /\ RunningAreConfigured'
  BY <1>1, <1>5 DEF IInv, Selection, Selects, RunningAreConfigured, Stuck
<1> QED
  BY <1>6, <1>7, <1>8, <1>9 DEF IInv

\* The device goes up or down.
LEMMA StepUpDown ==
    ASSUME IInv, Up \/ Down
    PROVE  IInv'
<1>1. /\ up' \in BOOLEAN /\ running' = IF up' THEN Objects ELSE {}
      /\ UNCHANGED <<own, peers, routes, conn, overlapped>>
  BY Zenon DEF Up, Down, Objects
<1>2. RunningAreConfigured'
  BY <1>1 DEF RunningAreConfigured, Objects, Configured, Object
<1>3. TypeOK' /\ OneAtATime'
  BY <1>1 DEF IInv, TypeOK, OneAtATime
<1>4. Selection' /\ RoutesOfPeers' /\ OwnKeyUnrouted'
  BY <1>1 DEF IInv, Selection, Selects, RoutesOfPeers, OwnKeyUnrouted, Configured, Object
<1> QED
  BY <1>2, <1>3, <1>4 DEF IInv

-----------------------------------------------------------------------------
(* The theorems.                                                           *)

\* IInv holds in every state of every behaviour.
THEOREM Invariance == Spec => []IInv
<1>1. Init => IInv
  <2> SUFFICES ASSUME Init PROVE IInv
    OBVIOUS
  <2>1. TypeOK
    BY Zenon DEF Init, TypeOK, Variables, Section, Pointer
  <2>2. \A c \in Connection : conn[c].at = "idle"
    BY DEF Init
  <2>3. OneAtATime /\ Selection
    BY <2>2 DEF OneAtATime, Selection, Selects
  <2>4. RunningAreConfigured /\ RoutesOfPeers /\ OwnKeyUnrouted
    BY DEF Init, RunningAreConfigured, RoutesOfPeers, OwnKeyUnrouted
  <2> QED
    BY <2>1, <2>3, <2>4 DEF IInv
<1>2. IInv /\ [Next]_vars => IInv'
  <2> SUFFICES ASSUME IInv, [Next]_vars PROVE IInv'
    OBVIOUS
  <2>1. CASE Up \/ Down
    BY <2>1, StepUpDown
  <2>2. CASE \E c \in Connection : Line(c)
    BY <2>2, StepAccept, StepReturn, StepSetPrivateKey, StepSetPrivateKeyBlocks,
       StepReplacePeers, StepPublicKey, StepLookupPeer, StepNewPeer, StepRemove, StepRoute
    DEF Line
  <2>3. CASE UNCHANGED vars
    BY <2>3 DEF vars, IInv, TypeOK, OneAtATime, Selection, Selects, RunningAreConfigured,
                RoutesOfPeers, OwnKeyUnrouted, Stuck, Configured, Object
  <2> QED
    BY <2>1, <2>2, <2>3 DEF Next
<1> QED
  BY <1>1, <1>2, PTL DEF Spec

\* The peers whose routines run are those in the peer map, if the device is up, for any
\* number of connections that change peers at once.
THEOREM RunningPeersConfigured == Spec => []RunningAreConfigured
<1>1. IInv => RunningAreConfigured
  BY DEF IInv
<1> QED
  BY Invariance, <1>1, PTL

\* As long as set operations follow each other, every route leads to a peer in the map.
THEOREM RoutesLeadToPeers == Spec => []RoutesOfPeers
<1>1. IInv => RoutesOfPeers
  BY DEF IInv
<1> QED
  BY Invariance, <1>1, PTL

\* And no route leads to a peer with the device's own key.
THEOREM NoRouteToSelf == Spec => []OwnKeyUnrouted
<1>1. IInv => OwnKeyUnrouted
  BY DEF IInv
<1> QED
  BY Invariance, <1>1, PTL

=============================================================================
