--------------------------- MODULE HandshakeProofs ---------------------------
(***************************************************************************)
(* Proofs about handshakes, for any numbers of devices, workers and        *)
(* indices: the index table and its owners never disagree, the two ends of *)
(* a session agree on its key, a responder waits until the initiator has   *)
(* the key, and while no two workers of a device are busy at once no       *)
(* handshake yields two key pairs and no initiation is taken over again.   *)
(*                                                                         *)
(* The table comes first, and rests on itself alone.  The agreement on     *)
(* keys rests on the uniqueness of ephemerals, confirmation on agreement,  *)
(* and the last part on the agreement and on what the workers do.          *)
(***************************************************************************)
EXTENDS Handshake, TLAPS

\* Counting ephemeral keys stays in the naturals.
LEMMA Successor ==
    ASSUME NEW e \in Nat
    PROVE  e + 1 \in Nat
BY SMT

\* An idle worker is at its idle point.
LEMMA IdlePoint ==
    ASSUME NEW x, x = Idle
    PROVE  x.pc = "idle"
BY DEF Idle, Busy

\* The leaves are of first order and go to Zenon; those that need arithmetic or equality
\* of records cite SMT.
USE IndexAssumption, NilAssumption, Zenon

-----------------------------------------------------------------------------
(* Types of the operators on tables and slots.                             *)

Table == [Index0 -> Entry \cup {Nil}]

\* Deleting an index leaves a table a table.
LEMMA IndexDeleteType ==
    ASSUME NEW tab \in Table, NEW i \in Index0
    PROVE  IndexDelete(tab, i) \in Table
BY DEF Table, IndexDelete

\* Deleting a key pair, or no key pair, leaves a table a table.
LEMMA DeleteKeypairType ==
    ASSUME NEW tab \in Table, NEW k \in Keypair \cup {Nil}
    PROVE  DeleteKeypair(tab, k) \in Table
BY IndexDeleteType DEF DeleteKeypair, Keypair

\* Deleting all key pairs of a peer leaves a table a table.
LEMMA DeleteSlotsType ==
    ASSUME NEW tab \in Table, NEW s \in Slots
    PROVE  DeleteSlots(tab, s) \in Table
<1>1. s.previous \in Keypair \cup {Nil} /\ s.current \in Keypair \cup {Nil}
      /\ s.next \in Keypair \cup {Nil}
  BY DEF Slots
<1> QED
  BY <1>1, DeleteKeypairType DEF DeleteSlots

\* Both rotations leave slots slots and a table a table.
LEMMA RotationType ==
    ASSUME NEW s \in Slots, NEW k \in Keypair, NEW tab \in Table
    PROVE  /\ RotateNew(s, k) \in Slots
           /\ RotateConfirmed(s) \in Slots
           /\ RetireNew(tab, s, k) \in Table
           /\ RetireConfirmed(tab, s) \in Table
<1>1. s.previous \in Keypair \cup {Nil} /\ s.current \in Keypair \cup {Nil}
      /\ s.next \in Keypair \cup {Nil}
  BY DEF Slots
<1>2. RotateNew(s, k) \in Slots /\ RotateConfirmed(s) \in Slots
  BY <1>1 DEF RotateNew, RotateConfirmed, Slots
<1> QED
  BY <1>1, <1>2, DeleteKeypairType DEF RetireNew, RetireConfirmed

\* Handshake.Clear leaves a handshake record.
LEMMA ClearedType ==
    ASSUME NEW h \in Handshakes
    PROVE  Cleared(h) \in Handshakes /\ Cleared(h).localIndex = 0
BY DEF Cleared, Handshakes, HandshakeState, NoKey, Key, Index0

\* NewKeypair builds a key pair that keeps the handshake's index.
LEMMA DerivedType ==
    ASSUME NEW h \in Handshakes
    PROVE  DerivedKeypair(h) \in Keypair /\ DerivedKeypair(h).localIndex = h.localIndex
BY DEF DerivedKeypair, Handshakes, Keypair

-----------------------------------------------------------------------------
(* One peer p of one device: its handshake index i, its key pairs K and    *)
(* the device's table tab.                                                 *)

Local(tab, p, i, K) == Entered(tab, p, i, K) /\ Owned(tab, p, i, K)

\* Going from tab to new touches no entry of a peer other than p.
Frame(tab, new, p) ==
    \A j \in Index : \/ new[j] = tab[j]
                     \/ /\ tab[j] = Nil \/ tab[j].peer = p
                        /\ new[j] = Nil \/ new[j].peer = p

\* A peer's key pairs do not share their index with its handshake.
LEMMA StoredApart ==
    ASSUME NEW tab \in Table, NEW p \in Node, NEW i \in Index0,
           NEW K \in SUBSET Keypair, Local(tab, p, i, K),
           NEW k \in K, k.localIndex # 0
    PROVE  /\ k.localIndex \in Index
           /\ tab[k.localIndex] = KeypairEntry(p, k)
           /\ tab[k.localIndex] # Nil
           /\ k.localIndex # i
<1>1. k.localIndex \in Index /\ k # Nil
  BY DEF Keypair, Index0
<1>2. tab[k.localIndex] = KeypairEntry(p, k)
  BY DEF Local, Entered
<1>3. KeypairEntry(p, k) # HandshakeEntry(p) /\ KeypairEntry(p, k) # Nil
  BY <1>1, SMT DEF KeypairEntry, HandshakeEntry, Entry
<1> QED
  BY <1>1, <1>2, <1>3 DEF Local, Entered

\* CreateMessageInitiation and CreateMessageResponse replace the handshake index.
LEMMA LocalNewIndex ==
    ASSUME NEW tab \in Table, NEW p \in Node, NEW i \in Index0,
           NEW K \in SUBSET Keypair, Local(tab, p, i, K),
           NEW j \in FreeIndex(IndexDelete(tab, i))
    PROVE  LET new == IndexInsert(IndexDelete(tab, i), j, HandshakeEntry(p)) IN
           new \in Table /\ Local(new, p, j, K) /\ Frame(tab, new, p)
<1> DEFINE new == IndexInsert(IndexDelete(tab, i), j, HandshakeEntry(p))
<1>1. j \in Index
  BY DEF FreeIndex
<1>2. /\ new \in Table
      /\ \A x \in Index0 : new[x] = IF x = j THEN HandshakeEntry(p)
                                    ELSE IF x = i /\ i # 0 THEN Nil ELSE tab[x]
  BY <1>1 DEF IndexInsert, IndexDelete, Table, Index0, HandshakeEntry, Entry
<1>3. tab[j] = Nil \/ i = j
  BY <1>1 DEF FreeIndex, IndexDelete, Table, Index0
<1>4. \A k \in K : k.localIndex # 0 => new[k.localIndex] = tab[k.localIndex]
  BY <1>2, <1>3, StoredApart, SMT DEF Index0
<1>5. Entered(new, p, j, K)
  BY <1>1, <1>2, <1>4 DEF Local, Entered, Index0
<1>6. Owned(new, p, j, K)
  <2> SUFFICES ASSUME NEW x \in Index, new[x] # Nil, new[x].peer = p
               PROVE  \/ new[x].keyPair = Nil /\ j = x
                      \/ new[x].keyPair \in K /\ new[x].keyPair.localIndex = x
    BY DEF Owned
  <2>1. CASE x = j
    BY <2>1, <1>2, SMT DEF HandshakeEntry, Index0
  <2>2. CASE x # j
    BY <2>2, <1>2, SMT DEF Index0, Local, Owned
  <2> QED
    BY <2>1, <2>2
<1>7. Frame(tab, new, p)
  BY <1>1, <1>2, <1>3, SMT DEF Local, Entered, Frame, HandshakeEntry, Index0
<1> QED
  BY <1>2, <1>5, <1>6, <1>7 DEF Local

\* expiredZeroKeyMaterial and Peer.Stop give the handshake index up.
LEMMA LocalDropIndex ==
    ASSUME NEW tab \in Table, NEW p \in Node, NEW i \in Index0,
           NEW K \in SUBSET Keypair, Local(tab, p, i, K)
    PROVE  LET new == IndexDelete(tab, i) IN
           new \in Table /\ Local(new, p, 0, K) /\ Frame(tab, new, p)
<1> DEFINE new == IndexDelete(tab, i)
<1>1. /\ new \in Table
      /\ \A x \in Index0 : new[x] = IF x = i /\ i # 0 THEN Nil ELSE tab[x]
  BY DEF IndexDelete, Table, Index0
<1>2. \A k \in K : k.localIndex # 0 => new[k.localIndex] = tab[k.localIndex]
  BY <1>1, StoredApart, SMT DEF Index0
<1>3. Entered(new, p, 0, K)
  BY <1>2 DEF Local, Entered
<1>4. Owned(new, p, 0, K)
  BY <1>1 DEF Local, Owned, Index0
<1>5. Frame(tab, new, p)
  BY <1>1, SMT DEF Local, Entered, Frame, HandshakeEntry, Index0
<1> QED
  BY <1>1, <1>3, <1>4, <1>5 DEF Local

\* NewKeypair maps the handshake's index, which may be unset, to the key pair.
LEMMA LocalInsert ==
    ASSUME NEW tab \in Table, NEW p \in Node, NEW i \in Index0,
           NEW K \in SUBSET Keypair, Local(tab, p, i, K),
           NEW k \in Keypair, k.localIndex = i
    PROVE  LET new == IndexInsert(tab, i, KeypairEntry(p, k)) IN
           /\ new \in Table /\ Local(new, p, 0, K \cup {k}) /\ Frame(tab, new, p)
           /\ \A c \in K : c.localIndex # 0 => c.localIndex # i
<1> DEFINE new == IndexInsert(tab, i, KeypairEntry(p, k))
<1>1. /\ new \in Table
      /\ \A x \in Index0 : new[x] = IF x = i THEN KeypairEntry(p, k) ELSE tab[x]
  BY DEF IndexInsert, Table, KeypairEntry, Entry
<1>2. \A c \in K : c.localIndex # 0 => c.localIndex # i /\ new[c.localIndex] = tab[c.localIndex]
  BY <1>1, StoredApart, SMT DEF Index0
<1>3. Entered(new, p, 0, K \cup {k})
  BY <1>1, <1>2 DEF Local, Entered
<1>4. Owned(new, p, 0, K \cup {k})
  <2> SUFFICES ASSUME NEW x \in Index, new[x] # Nil, new[x].peer = p
               PROVE  \/ new[x].keyPair = Nil /\ 0 = x
                      \/ /\ new[x].keyPair \in K \cup {k}
                         /\ new[x].keyPair.localIndex = x
    BY DEF Owned
  <2>1. CASE x = i
    BY <2>1, <1>1, SMT DEF KeypairEntry, Index0
  <2>2. CASE x # i
    BY <2>2, <1>1 DEF Local, Owned, Index0
  <2> QED
    BY <2>1, <2>2
<1>5. Frame(tab, new, p)
  BY <1>1, SMT DEF Local, Entered, Frame, HandshakeEntry, KeypairEntry, Index0
<1> QED
  BY <1>1, <1>2, <1>3, <1>4, <1>5 DEF Local

\* Retiring the key pair k, or none, removes its entry and no other.
LEMMA LocalRetire ==
    ASSUME NEW tab \in Table, NEW p \in Node, NEW i \in Index0,
           NEW K \in SUBSET Keypair, Local(tab, p, i, K),
           NEW k \in Keypair \cup {Nil}, NEW L \in SUBSET K,
           K \ {k} \subseteq L,
           k # Nil /\ k.localIndex # 0 => k \in K /\ k \notin L
    PROVE  LET new == DeleteKeypair(tab, k) IN
           new \in Table /\ Local(new, p, i, L) /\ Frame(tab, new, p)
<1> DEFINE new == DeleteKeypair(tab, k)
<1>1. CASE k = Nil \/ k.localIndex = 0
  <2>1. new = tab
    BY <1>1 DEF DeleteKeypair, IndexDelete
  <2>2. Entered(tab, p, i, L)
    BY DEF Local, Entered
  <2>3. \A c \in K : c.localIndex \in Index => c \in L
    BY <1>1
  <2>4. Owned(tab, p, i, L)
    BY <2>3 DEF Local, Owned
  <2> QED
    BY <2>1, <2>2, <2>4 DEF Local, Frame
<1>2. CASE k # Nil /\ k.localIndex # 0
  <2>1. /\ new \in Table
        /\ \A x \in Index0 : new[x] = IF x = k.localIndex THEN Nil ELSE tab[x]
    BY <1>2 DEF DeleteKeypair, IndexDelete, Table
  <2>2. /\ tab[k.localIndex] = KeypairEntry(p, k)
        /\ k.localIndex # i
        /\ k.localIndex \in Index
    BY <1>2, StoredApart, SMT
  <2>3. \A c \in L : c.localIndex # 0 => c.localIndex # k.localIndex
    <3> SUFFICES ASSUME NEW c \in L, c.localIndex # 0, c.localIndex = k.localIndex
                 PROVE  FALSE
      OBVIOUS
    <3>1. tab[c.localIndex] = KeypairEntry(p, c)
      BY StoredApart, SMT
    <3>2. c = k
      BY <2>2, <3>1, SMT DEF KeypairEntry
    <3> QED
      BY <1>2, <3>2
  <2>4. Entered(new, p, i, L)
    BY <2>1, <2>2, <2>3, StoredApart, SMT DEF Local, Entered, Index0
  <2>5. Owned(new, p, i, L)
    BY <2>1, <2>2, SMT DEF Local, Owned, Index0
  <2>6. Frame(tab, new, p)
    BY <2>1, <2>2, SMT DEF Frame, KeypairEntry, Index0
  <2> QED
    BY <2>1, <2>4, <2>5, <2>6 DEF Local
<1> QED
  BY <1>1, <1>2

-----------------------------------------------------------------------------
(* Rotation.                                                               *)

\* What the slots hold.
LEMMA StoredType ==
    ASSUME NEW s \in Slots
    PROVE  /\ Stored(s) \in SUBSET Keypair
           /\ s.previous \in Stored(s) \cup {Nil} /\ s.previous \in Keypair \cup {Nil}
           /\ s.current \in Stored(s) \cup {Nil} /\ s.current \in Keypair \cup {Nil}
           /\ s.next \in Stored(s) \cup {Nil} /\ s.next \in Keypair \cup {Nil}
BY DEF Stored, Slots

\* Two steps that leave the entries of other peers alone do so together.
LEMMA FrameTransitive ==
    ASSUME NEW tab, NEW mid, NEW new, NEW p, Frame(tab, mid, p), Frame(mid, new, p)
    PROVE  Frame(tab, new, p)
BY DEF Frame

\* The sequential receiver promotes next and retires previous.
LEMMA LocalConfirmed ==
    ASSUME NEW tab \in Table, NEW p \in Node, NEW i \in Index0, NEW s \in Slots,
           Local(tab, p, i, Stored(s)), Distinct(s)
    PROVE  LET new == RetireConfirmed(tab, s)
               t == RotateConfirmed(s)
           IN  /\ new \in Table /\ t \in Slots
               /\ Local(new, p, i, Stored(t)) /\ Distinct(t) /\ Frame(tab, new, p)
<1> DEFINE t == RotateConfirmed(s)
<1>1. t \in Slots
  BY RotationType DEF RotateConfirmed, Slots
<1>2. Distinct(t)
  BY DEF Distinct, Apart, RotateConfirmed
<1>3. Stored(t) = {s.current, s.next} \ {Nil}
  BY DEF Stored, RotateConfirmed
<1>4. Stored(s) \ {s.previous} \subseteq Stored(t) /\ Stored(t) \subseteq Stored(s)
  BY <1>3 DEF Stored
<1>5. s.previous # Nil /\ s.previous.localIndex # 0 => s.previous \notin Stored(t)
  BY <1>3 DEF Distinct, Apart
<1> QED
  BY <1>1, <1>2, <1>4, <1>5, StoredType, LocalRetire, SMT DEF RetireConfirmed

\* Peer.Stop and expiredZeroKeyMaterial retire everything.
LEMMA LocalDeleteSlots ==
    ASSUME NEW tab \in Table, NEW p \in Node, NEW i \in Index0, NEW s \in Slots,
           Local(tab, p, i, Stored(s)), Distinct(s)
    PROVE  LET new == DeleteSlots(tab, s) IN
           /\ new \in Table /\ NoSlots \in Slots
           /\ Local(new, p, i, Stored(NoSlots)) /\ Distinct(NoSlots) /\ Frame(tab, new, p)
<1> DEFINE t1 == DeleteKeypair(tab, s.previous)
           t2 == DeleteKeypair(t1, s.current)
           t3 == DeleteKeypair(t2, s.next)
           L1 == {s.current, s.next} \ {Nil}
           L2 == {s.next} \ {Nil}
<1>1. Stored(s) = {s.previous, s.current, s.next} \ {Nil}
  BY DEF Stored
<1>2. t1 \in Table /\ Local(t1, p, i, L1) /\ Frame(tab, t1, p)
  <2>1. L1 \in SUBSET Stored(s) /\ Stored(s) \ {s.previous} \subseteq L1
    BY <1>1
  <2>2. s.previous # Nil /\ s.previous.localIndex # 0 =>
            s.previous \in Stored(s) /\ s.previous \notin L1
    BY <1>1 DEF Distinct, Apart
  <2> QED
    BY <2>1, <2>2, StoredType, LocalRetire
<1>3. t2 \in Table /\ Local(t2, p, i, L2) /\ Frame(t1, t2, p)
  <2>1. L2 \in SUBSET L1 /\ L1 \ {s.current} \subseteq L2 /\ L1 \in SUBSET Keypair
    BY <1>1, StoredType
  <2>2. s.current # Nil /\ s.current.localIndex # 0 => s.current \in L1 /\ s.current \notin L2
    BY DEF Distinct, Apart
  <2> QED
    BY <1>2, <2>1, <2>2, StoredType, LocalRetire, SMT
<1>4. t3 \in Table /\ Local(t3, p, i, {}) /\ Frame(t2, t3, p)
  <2>1. L2 \ {s.next} \subseteq {} /\ L2 \in SUBSET Keypair
    BY StoredType
  <2>2. s.next # Nil => s.next \in L2
    OBVIOUS
  <2> QED
    BY <1>3, <2>1, <2>2, StoredType, LocalRetire, SMT
<1>5. NoSlots \in Slots /\ Stored(NoSlots) = {} /\ Distinct(NoSlots)
  BY DEF NoSlots, Slots, Stored, Distinct, Apart
<1>6. Frame(tab, t3, p)
  BY <1>2, <1>3, <1>4, FrameTransitive, SMT
<1> QED
  BY <1>4, <1>5, <1>6 DEF DeleteSlots

\* NewKeypair files the new key pair k and retires those it replaces.
LEMMA LocalNewKeypair ==
    ASSUME NEW tab \in Table, NEW p \in Node, NEW i \in Index0, NEW s \in Slots,
           Local(tab, p, i, Stored(s)), Distinct(s),
           NEW k \in Keypair, k.localIndex = i
    PROVE  LET new == RetireNew(IndexInsert(tab, i, KeypairEntry(p, k)), s, k)
               t == RotateNew(s, k)
           IN  /\ new \in Table /\ t \in Slots
               /\ Local(new, p, 0, Stored(t)) /\ Distinct(t) /\ Frame(tab, new, p)
<1> DEFINE ins == IndexInsert(tab, i, KeypairEntry(p, k))
           new == RetireNew(ins, s, k)
           t == RotateNew(s, k)
           K == Stored(s) \cup {k}
<1>1. Stored(s) = {s.previous, s.current, s.next} \ {Nil}
  BY DEF Stored
<1>2. /\ ins \in Table /\ Local(ins, p, 0, K) /\ Frame(tab, ins, p)
      /\ \A c \in Stored(s) : c.localIndex # 0 => c.localIndex # i
  BY StoredType, LocalInsert
<1>3. \A c \in Stored(s) : c.localIndex # 0 => c # k
  BY <1>2
<1>4. K \in SUBSET Keypair /\ 0 \in Index0 /\ k # Nil
  BY StoredType DEF Index0
<1>5. t \in Slots
  BY RotationType
<1>6. CASE k.isInitiator /\ s.next # Nil
  <2> DEFINE L1 == {s.previous, s.next, k} \ {Nil}
             t1 == DeleteKeypair(ins, s.current)
  <2>1. t1 \in Table /\ Local(t1, p, 0, L1) /\ Frame(ins, t1, p)
    <3>1. L1 \in SUBSET K /\ K \ {s.current} \subseteq L1
      BY <1>1, <1>4
    <3>2. s.current # Nil /\ s.current.localIndex # 0 => s.current \in K /\ s.current \notin L1
      BY <1>1, <1>3 DEF Distinct, Apart
    <3> QED
      BY <1>2, <1>4, <3>1, <3>2, StoredType, LocalRetire, SMT
  <2>2. t = [previous |-> s.next, current |-> k, next |-> Nil]
    BY <1>6 DEF RotateNew
  <2>3. Stored(t) = {s.next, k}
    BY <1>4, <1>6, <2>2, SMT DEF Stored
  <2>4. new = DeleteKeypair(t1, s.previous)
    BY <1>6 DEF RetireNew
  <2>5. new \in Table /\ Local(new, p, 0, Stored(t)) /\ Frame(t1, new, p)
    <3>1. Stored(t) \in SUBSET L1 /\ L1 \ {s.previous} \subseteq Stored(t) /\ L1 \in SUBSET Keypair
      BY <1>4, <1>6, <2>3, StoredType
    <3>2. s.previous # Nil /\ s.previous.localIndex # 0 =>
              s.previous \in L1 /\ s.previous \notin Stored(t)
      BY <1>1, <1>3, <1>6, <2>3 DEF Distinct, Apart
    <3> QED
      BY <1>4, <2>1, <2>4, <3>1, <3>2, StoredType, LocalRetire, SMT
  <2>6. Distinct(t)
    BY <1>1, <1>2, <1>6, <2>2, SMT DEF Distinct, Apart
  <2> QED
    BY <1>2, <1>5, <2>1, <2>5, <2>6, FrameTransitive, SMT
<1>7. CASE k.isInitiator /\ s.next = Nil
  <2>1. t = [previous |-> s.current, current |-> k, next |-> Nil]
    BY <1>7 DEF RotateNew
  <2>2. Stored(t) = {s.current, k} \ {Nil}
    BY <1>4, <2>1, SMT DEF Stored
  <2>3. new = DeleteKeypair(ins, s.previous)
    BY <1>7 DEF RetireNew
  <2>4. new \in Table /\ Local(new, p, 0, Stored(t)) /\ Frame(ins, new, p)
    <3>1. Stored(t) \in SUBSET K /\ K \ {s.previous} \subseteq Stored(t)
      BY <1>1, <1>4, <1>7, <2>2
    <3>2. s.previous # Nil /\ s.previous.localIndex # 0 =>
              s.previous \in K /\ s.previous \notin Stored(t)
      BY <1>1, <1>3, <2>2 DEF Distinct, Apart
    <3> QED
      BY <1>2, <1>4, <2>3, <3>1, <3>2, StoredType, LocalRetire, SMT
  <2>5. Distinct(t)
    BY <1>1, <1>2, <2>1, SMT DEF Distinct, Apart
  <2> QED
    BY <1>2, <1>5, <2>4, <2>5, FrameTransitive
<1>8. CASE ~k.isInitiator
  <2> DEFINE L1 == {s.previous, s.current, k} \ {Nil}
             t1 == DeleteKeypair(ins, s.next)
  <2>1. t1 \in Table /\ Local(t1, p, 0, L1) /\ Frame(ins, t1, p)
    <3>1. L1 \in SUBSET K /\ K \ {s.next} \subseteq L1
      BY <1>1, <1>4
    <3>2. s.next # Nil /\ s.next.localIndex # 0 => s.next \in K /\ s.next \notin L1
      BY <1>1, <1>3 DEF Distinct, Apart
    <3> QED
      BY <1>2, <1>4, <3>1, <3>2, StoredType, LocalRetire, SMT
  <2>2. t = [previous |-> Nil, current |-> s.current, next |-> k]
    BY <1>8 DEF RotateNew
  <2>3. Stored(t) = {s.current, k} \ {Nil}
    BY <1>4, <2>2, SMT DEF Stored
  <2>4. new = DeleteKeypair(t1, s.previous)
    BY <1>8 DEF RetireNew
  <2>5. new \in Table /\ Local(new, p, 0, Stored(t)) /\ Frame(t1, new, p)
    <3>1. Stored(t) \in SUBSET L1 /\ L1 \ {s.previous} \subseteq Stored(t) /\ L1 \in SUBSET Keypair
      BY <1>4, <2>3, StoredType
    <3>2. s.previous # Nil /\ s.previous.localIndex # 0 =>
              s.previous \in L1 /\ s.previous \notin Stored(t)
      BY <1>1, <1>3, <2>3 DEF Distinct, Apart
    <3> QED
      BY <1>4, <2>1, <2>4, <3>1, <3>2, StoredType, LocalRetire, SMT
  <2>6. Distinct(t)
    BY <1>1, <1>2, <2>2, SMT DEF Distinct, Apart
  <2> QED
    BY <1>2, <1>5, <2>1, <2>5, <2>6, FrameTransitive, SMT
<1> QED
  BY <1>6, <1>7, <1>8

-----------------------------------------------------------------------------
(* From one peer to all: a step of peer <<n, p>> that keeps its own part   *)
(* of the table right and leaves the rest alone keeps the table right.     *)

TableOK == OwnersEntered /\ EntriesOwned /\ SlotsDistinct

\* What the invariant says of peer p of device n.
LEMMA LocalTypes ==
    ASSUME TypeOK, TableOK, NEW n \in Node, NEW p \in Node, n # p
    PROVE  /\ <<n, p>> \in Link
           /\ hs[n, p] \in Handshakes
           /\ hs[n, p].localIndex \in Index0
           /\ kps[n, p] \in Slots
           /\ Stored(kps[n, p]) \in SUBSET Keypair
           /\ table[n] \in Table
           /\ Local(table[n], p, hs[n, p].localIndex, Stored(kps[n, p]))
           /\ Distinct(kps[n, p])
<1>1. <<n, p>> \in Link /\ <<n, p>>[1] = n /\ <<n, p>>[2] = p
  BY DEF Link
<1>2. hs[n, p] \in Handshakes /\ hs[n, p].localIndex \in Index0 /\ kps[n, p] \in Slots
  BY <1>1 DEF TypeOK, Handshakes
<1>3. table[n] \in Table
  BY DEF TypeOK, Table
<1>4. Local(table[n], p, hs[n, p].localIndex, Stored(kps[n, p])) /\ Distinct(kps[n, p])
  BY <1>1 DEF TableOK, OwnersEntered, EntriesOwned, SlotsDistinct, Local
<1> QED
  BY <1>1, <1>2, <1>3, <1>4, StoredType

\* A change of peer p of device n that is right for p is right for the device.
LEMMA LocalToGlobal ==
    ASSUME TypeOK, TableOK, NEW n \in Node, NEW p \in Node, n # p,
           NEW new \in Table, NEW t \in Slots, NEW h \in Handshakes,
           Local(new, p, h.localIndex, Stored(t)), Distinct(t),
           Frame(table[n], new, p),
           table' = [table EXCEPT ![n] = new],
           hs' = [hs EXCEPT ![<<n, p>>] = h],
           kps' = [kps EXCEPT ![<<n, p>>] = t]
    PROVE  /\ TableOK'
           /\ table' \in [Node -> [Index0 -> Entry \cup {Nil}]]
           /\ hs' \in [Link -> Handshakes]
           /\ kps' \in [Link -> Slots]
<1>1. <<n, p>> \in Link /\ <<n, p>>[1] = n /\ <<n, p>>[2] = p
  BY DEF Link
<1>2. table' \in [Node -> Table] /\ table'[n] = new
      /\ \A m \in Node : m # n => table'[m] = table[m]
  BY DEF TypeOK, Table
<1>3. hs'[n, p] = h /\ kps'[n, p] = t
  BY <1>1 DEF TypeOK
<1>4. \A l \in Link : l # <<n, p>> => hs'[l] = hs[l] /\ kps'[l] = kps[l]
  BY DEF TypeOK
<1>5. ASSUME NEW l \in Link
      PROVE  /\ Entered(table'[l[1]], l[2], hs'[l].localIndex, Stored(kps'[l]))
             /\ Owned(table'[l[1]], l[2], hs'[l].localIndex, Stored(kps'[l]))
             /\ Distinct(kps'[l])
  <2>1. CASE l = <<n, p>>
    BY <1>1, <1>2, <1>3, <2>1 DEF Local
  <2>2. CASE l # <<n, p>>
    <3>1. l[1] \in Node /\ l[2] \in Node /\ l = <<l[1], l[2]>> /\ l[1] # l[2]
      BY SMT DEF Link
    <3>2. hs'[l] = hs[l] /\ kps'[l] = kps[l]
      BY <1>4, <2>2
    <3>3. /\ Local(table[l[1]], l[2], hs[l].localIndex, Stored(kps[l]))
          /\ Distinct(kps[l])
          /\ hs[l].localIndex \in Index0
          /\ Stored(kps[l]) \in SUBSET Keypair
          /\ table[l[1]] \in Table
      BY <3>1, LocalTypes
    <3>4. CASE l[1] # n
      BY <1>2, <3>1, <3>2, <3>3, <3>4 DEF Local
    <3>5. CASE l[1] = n
      <4>1. l[2] # p
        BY <2>2, <3>1, <3>5
      <4>2. \A j \in Index : table[n][j] # Nil /\ table[n][j].peer = l[2] => new[j] = table[n][j]
        BY <4>1 DEF Frame
      <4>3. \A j \in Index : new[j] # Nil /\ new[j].peer = l[2] => new[j] = table[n][j]
        BY <4>1 DEF Frame
      <4>4. Entered(new, l[2], hs[l].localIndex, Stored(kps[l]))
        <5>1. hs[l].localIndex # 0 => new[hs[l].localIndex] = HandshakeEntry(l[2])
          <6> SUFFICES ASSUME hs[l].localIndex # 0
                       PROVE  new[hs[l].localIndex] = HandshakeEntry(l[2])
            OBVIOUS
          <6>1. hs[l].localIndex \in Index /\ table[n][hs[l].localIndex] = HandshakeEntry(l[2])
            BY <3>3, <3>5 DEF Local, Entered, Index0
          <6>2. HandshakeEntry(l[2]) # Nil /\ HandshakeEntry(l[2]).peer = l[2]
            BY <3>1, SMT DEF HandshakeEntry, Entry
          <6> QED
            BY <4>2, <6>1, <6>2
        <5>2. ASSUME NEW k \in Stored(kps[l]), k.localIndex # 0
              PROVE  new[k.localIndex] = KeypairEntry(l[2], k)
          <6>1. /\ k.localIndex \in Index
                /\ table[n][k.localIndex] = KeypairEntry(l[2], k)
                /\ table[n][k.localIndex] # Nil
            BY <3>1, <3>3, <3>5, <5>2, StoredApart, SMT
          <6>2. KeypairEntry(l[2], k).peer = l[2]
            BY DEF KeypairEntry
          <6> QED
            BY <4>2, <6>1, <6>2
        <5> QED
          BY <5>1, <5>2 DEF Entered
      <4>5. Owned(new, l[2], hs[l].localIndex, Stored(kps[l]))
        BY <3>3, <3>5, <4>3 DEF Local, Owned
      <4> QED
        BY <1>2, <3>2, <3>3, <3>5, <4>4, <4>5
    <3> QED
      BY <3>4, <3>5
  <2> QED
    BY <2>1, <2>2
<1>6. ASSUME NEW m \in Node, NEW i \in Index, table'[m][i] # Nil
      PROVE  table'[m][i].peer # m
  <2>1. table[m][i] # Nil => table[m][i].peer # m
    BY DEF TableOK, EntriesOwned
  <2>2. CASE m # n
    BY <1>2, <1>6, <2>1, <2>2
  <2>3. CASE m = n
    BY <1>2, <1>6, <2>1, <2>3 DEF Frame
  <2> QED
    BY <2>2, <2>3
<1>7. hs' \in [Link -> Handshakes] /\ kps' \in [Link -> Slots]
  BY DEF TypeOK
<1>8. table' \in [Node -> [Index0 -> Entry \cup {Nil}]]
  BY <1>2 DEF Table
<1>9. TableOK'
  BY <1>5, <1>6 DEF TableOK, OwnersEntered, EntriesOwned, SlotsDistinct
<1> QED
  BY <1>7, <1>8, <1>9

\* A step that moves no index keeps the table right.
LEMMA IndicesUnmoved ==
    ASSUME TableOK, UNCHANGED <<table, kps>>,
           \A l \in Link : hs'[l].localIndex = hs[l].localIndex
    PROVE  TableOK'
BY DEF TableOK, OwnersEntered, EntriesOwned, SlotsDistinct

\* The handshake records after each event are handshake records.
LEMMA RecordTypes ==
    ASSUME NEW h \in Handshakes, NEW e \in Nat, NEW i \in Index
    PROVE  /\ InitiationCreated(h, e, i) \in Handshakes
           /\ InitiationCreated(h, e, i).localIndex = i
           /\ ResponseCreated(h, e, i) \in Handshakes
           /\ ResponseCreated(h, e, i).localIndex = i
<1>1. h.chainKey.i \in Nat
  BY DEF Handshakes, Key
<1>2. InitiationCreated(h, e, i) \in Handshakes /\ InitiationCreated(h, e, i).localIndex = i
  BY DEF InitiationCreated, Handshakes, HandshakeState, Key, Index0
<1>3. ResponseCreated(h, e, i) \in Handshakes /\ ResponseCreated(h, e, i).localIndex = i
  BY <1>1 DEF ResponseCreated, Handshakes, HandshakeState, Key, Index0
<1> QED
  BY <1>2, <1>3

\* Consuming a message leaves a handshake record, and its index in place.
LEMMA ConsumedTypes ==
    ASSUME NEW h \in Handshakes
    PROVE  /\ \A m \in Initiation : /\ InitiationConsumed(h, m) \in Handshakes
                                    /\ InitiationConsumed(h, m).localIndex = h.localIndex
           /\ \A m \in Response : /\ ResponseConsumed(h, m) \in Handshakes
                                  /\ ResponseConsumed(h, m).localIndex = h.localIndex
<1>1. ASSUME NEW m \in Initiation
      PROVE  /\ InitiationConsumed(h, m) \in Handshakes
             /\ InitiationConsumed(h, m).localIndex = h.localIndex
  BY DEF InitiationConsumed, Initiation, Handshakes, HandshakeState, Key, Index0
<1>2. ASSUME NEW m \in Response
      PROVE  /\ ResponseConsumed(h, m) \in Handshakes
             /\ ResponseConsumed(h, m).localIndex = h.localIndex
  BY DEF ResponseConsumed, Response, Handshakes, HandshakeState, Key, Index0
<1> QED
  BY <1>1, <1>2

\* What a worker that is not idle holds.
LEMMA WorkerTypes ==
    ASSUME TypeOK, NoSelfPeer, NEW n \in Node, NEW w \in Worker
    PROVE  /\ wk[n, w] \in WorkerState
           /\ wk[n, w].pc # "idle" => /\ wk[n, w].peer \in Node
                                      /\ wk[n, w].peer # n
                                      /\ wk[n, w].msg.from # wk[n, w].msg.to
           /\ wk[n, w].pc \in {"initiationChecked", "initiationConsumed"} =>
                  wk[n, w].msg \in Initiation
           /\ wk[n, w].pc \in {"responseCreated", "responseChecked", "responseConsumed"} =>
                  wk[n, w].msg \in Response
<1>1. <<n, w>> \in Node \X Worker /\ <<n, w>>[1] = n
  OBVIOUS
<1>2. wk[n, w] \in WorkerState
  BY <1>1 DEF TypeOK
<1>3. wk[n, w].pc # "idle" => wk[n, w].peer # n /\ wk[n, w].msg.from # wk[n, w].msg.to
  BY <1>1 DEF NoSelfPeer
<1>4. CASE wk[n, w] = Idle
  <2>1. wk[n, w].pc = "idle"
    BY <1>4, IdlePoint
  <2> QED
    BY <1>2, <2>1
<1>5. CASE wk[n, w] \in [pc : {"initiationChecked", "initiationConsumed"}, peer : Node,
                         msg : Initiation]
  BY <1>2, <1>3, <1>5
<1>6. CASE wk[n, w] \in [pc : {"responseCreated", "responseChecked", "responseConsumed"},
                         peer : Node, msg : Response]
  BY <1>2, <1>3, <1>6
<1> QED
  BY <1>2, <1>4, <1>5, <1>6 DEF WorkerState

\* A worker that takes up the state x, for a peer and a message of other devices.
LEMMA WorkerMoves ==
    ASSUME TypeOK, NoSelfPeer, NEW n \in Node, NEW w \in Worker, NEW x \in WorkerState,
           x.pc # "idle" => x.peer # n /\ x.msg.from # x.msg.to,
           wk' = [wk EXCEPT ![<<n, w>>] = x],
           \A m \in net' : m.type # "transport" => m.from # m.to
    PROVE  wk' \in [Node \X Worker -> WorkerState] /\ NoSelfPeer'
<1>1. wk' \in [Node \X Worker -> WorkerState]
  BY DEF TypeOK
<1>2. ASSUME NEW y \in Node \X Worker, wk'[y].pc # "idle"
      PROVE  wk'[y].peer # y[1] /\ wk'[y].msg.from # wk'[y].msg.to
  <2>1. CASE y = <<n, w>>
    <3>1. wk'[y] = x /\ y[1] = n
      BY <2>1 DEF TypeOK
    <3> QED
      BY <1>2, <3>1
  <2>2. CASE y # <<n, w>>
    <3>1. wk'[y] = wk[y]
      BY <2>2 DEF TypeOK
    <3> QED
      BY <1>2, <3>1 DEF NoSelfPeer
  <2> QED
    BY <2>1, <2>2
<1> QED
  BY <1>1, <1>2 DEF NoSelfPeer

\* The parts of a busy worker.
LEMMA BusyParts ==
    ASSUME NEW c, NEW p, NEW m
    PROVE  Busy(c, p, m).pc = c /\ Busy(c, p, m).peer = p /\ Busy(c, p, m).msg = m
BY DEF Busy

\* RoutineHandshake becomes or stays busy with peer p and message m.
LEMMA WorkerBusy ==
    ASSUME TypeOK, NoSelfPeer, NEW n \in Node, NEW w \in Worker, NEW p \in Node, p # n,
           NEW m, m.from # m.to, NEW c,
           \/ m \in Initiation /\ c \in {"initiationChecked", "initiationConsumed"}
           \/ m \in Response /\ c \in {"responseCreated", "responseChecked",
                                       "responseConsumed"},
           wk' = [wk EXCEPT ![<<n, w>>] = Busy(c, p, m)],
           \A d \in net' : d.type # "transport" => d.from # d.to
    PROVE  wk' \in [Node \X Worker -> WorkerState] /\ NoSelfPeer'
<1>1. Busy(c, p, m) \in WorkerState
  BY DEF WorkerState, Busy
<1>2. Busy(c, p, m).peer # n /\ Busy(c, p, m).msg.from # Busy(c, p, m).msg.to
  BY BusyParts, SMT
<1> QED
  BY <1>1, <1>2, WorkerMoves

\* RoutineHandshake is done with a message.
LEMMA WorkerIdle ==
    ASSUME TypeOK, NoSelfPeer, NEW n \in Node, NEW w \in Worker,
           wk' = [wk EXCEPT ![<<n, w>>] = Idle],
           \A d \in net' : d.type # "transport" => d.from # d.to
    PROVE  wk' \in [Node \X Worker -> WorkerState] /\ NoSelfPeer'
<1>1. Idle \in WorkerState /\ Idle.pc = "idle"
  BY IdlePoint DEF WorkerState
<1> QED
  BY <1>1, WorkerMoves

-----------------------------------------------------------------------------
(* The invariant is preserved by every action.                             *)

\* SendHandshakeInitiation moves the handshake to a new index.
LEMMA StepSendHandshakeInitiation ==
    ASSUME TableInv, NEW n \in Node, NEW p \in Node, n # p,
           SendHandshakeInitiation(n, p)
    PROVE  TableInv'
<1> DEFINE tab == IndexDelete(table[n], hs[n, p].localIndex)
<1>1. TypeOK /\ NoSelfPeer /\ TableOK
  BY DEF TableInv, TableOK
<1>2. PICK i \in FreeIndex(tab) :
        /\ eph' = eph + 1
        /\ table' = [table EXCEPT ![n] = IndexInsert(tab, i, HandshakeEntry(p))]
        /\ hs' = [hs EXCEPT ![<<n, p>>] = InitiationCreated(hs[n, p], eph + 1, i)]
        /\ net' = net \cup {InitiationMessage(n, p, eph + 1, i)}
        /\ UNCHANGED <<kps, phase, wk, inbound, derived>>
  BY DEF SendHandshakeInitiation
<1> DEFINE new == IndexInsert(tab, i, HandshakeEntry(p))
           h == InitiationCreated(hs[n, p], eph + 1, i)
<1>3. i \in Index /\ eph \in Nat /\ eph + 1 \in Nat
  <2>1. i \in Index
    BY DEF FreeIndex
  <2>2. eph \in Nat
    BY <1>1 DEF TypeOK
  <2>3. eph + 1 \in Nat
    BY <2>2, Successor
  <2> QED
    BY <2>1, <2>2, <2>3
<1>4. new \in Table /\ Local(new, p, i, Stored(kps[n, p])) /\ Frame(table[n], new, p)
  BY <1>1, LocalTypes, LocalNewIndex
<1>5. h \in Handshakes /\ h.localIndex = i
  BY <1>1, <1>3, LocalTypes, RecordTypes
<1>6. /\ TableOK'
      /\ table' \in [Node -> [Index0 -> Entry \cup {Nil}]]
      /\ hs' \in [Link -> Handshakes]
  <2>1. kps' = [kps EXCEPT ![<<n, p>>] = kps[n, p]]
    BY <1>1, <1>2 DEF TypeOK
  <2>2. table' = [table EXCEPT ![n] = new] /\ hs' = [hs EXCEPT ![<<n, p>>] = h]
    BY <1>2
  <2>3. kps[n, p] \in Slots /\ Distinct(kps[n, p])
    BY <1>1, LocalTypes
  <2> HIDE DEF new, h
  <2> QED
    BY <1>1, <1>4, <1>5, <2>1, <2>2, <2>3, LocalToGlobal
<1>7. TypeOK'
  <2>1. InitiationMessage(n, p, eph + 1, i) \in Initiation
    BY <1>3 DEF Initiation, InitiationMessage
  <2>2. net' \subseteq (Initiation \cup Response \cup Transport)
    BY <1>1, <1>2, <2>1 DEF TypeOK
  <2> QED
    BY <1>1, <1>2, <1>3, <1>6, <2>2 DEF TypeOK
<1>8. NoSelfPeer'
  <2>1. InitiationMessage(n, p, eph + 1, i).from = n /\ InitiationMessage(n, p, eph + 1, i).to = p
    BY DEF InitiationMessage
  <2> QED
    BY <1>1, <1>2, <2>1 DEF NoSelfPeer
<1> QED
  BY <1>6, <1>7, <1>8 DEF TableInv, TableOK

\* ConsumeMessageInitiation's check only occupies the worker.
LEMMA StepConsumeInitiationCheck ==
    ASSUME TableInv, NEW n \in Node, NEW w \in Worker, NEW m \in net,
           ConsumeInitiationCheck(n, w, m)
    PROVE  TableInv'
<1>1. TypeOK /\ NoSelfPeer /\ TableOK
  BY DEF TableInv, TableOK
<1>2. /\ m.type = "initiation" /\ m.to = n
      /\ wk' = [wk EXCEPT ![<<n, w>>] = Busy("initiationChecked", m.from, m)]
      /\ UNCHANGED <<eph, hs, kps, table, phase, inbound, net, derived>>
  BY DEF ConsumeInitiationCheck
<1>3. m \in Initiation
  BY <1>1, <1>2 DEF TypeOK, Initiation, Response, Transport
<1>4. m.from \in Node /\ m.from # m.to /\ m.from # n
  BY <1>1, <1>2, <1>3 DEF NoSelfPeer, Initiation
<1>5. \A c \in net' : c.type # "transport" => c.from # c.to
  BY <1>1, <1>2 DEF NoSelfPeer
<1>6. wk' \in [Node \X Worker -> WorkerState] /\ NoSelfPeer'
  BY <1>1, <1>2, <1>3, <1>4, <1>5, WorkerBusy
<1>7. TypeOK'
  BY <1>1, <1>2, <1>6 DEF TypeOK
<1>8. TableOK'
  BY <1>1, <1>2, IndicesUnmoved
<1> QED
  BY <1>6, <1>7, <1>8 DEF TableInv, TableOK

\* ConsumeMessageInitiation's update leaves the handshake index in place.
LEMMA StepConsumeInitiationUpdate ==
    ASSUME TableInv, NEW n \in Node, NEW w \in Worker,
           ConsumeInitiationUpdate(n, w)
    PROVE  TableInv'
<1> DEFINE p == wk[n, w].peer
           m == wk[n, w].msg
           h == InitiationConsumed(hs[n, p], m)
<1>1. TypeOK /\ NoSelfPeer /\ TableOK
  BY DEF TableInv, TableOK
<1>2. /\ wk[n, w].pc = "initiationChecked"
      /\ hs' = [hs EXCEPT ![<<n, p>>] = h]
      /\ wk' = [wk EXCEPT ![<<n, w>>] = Busy("initiationConsumed", p, m)]
      /\ UNCHANGED <<eph, kps, table, phase, inbound, net, derived>>
  BY DEF ConsumeInitiationUpdate
<1>3. p \in Node /\ p # n /\ m \in Initiation /\ m.from # m.to
  BY <1>1, <1>2, WorkerTypes
<1>4. h \in Handshakes /\ h.localIndex = hs[n, p].localIndex
  BY <1>1, <1>3, LocalTypes, ConsumedTypes
<1>5. \A c \in net' : c.type # "transport" => c.from # c.to
  BY <1>1, <1>2 DEF NoSelfPeer
<1> HIDE DEF h, p, m
<1>6. wk' \in [Node \X Worker -> WorkerState] /\ NoSelfPeer'
  BY <1>1, <1>2, <1>3, <1>5, WorkerBusy
<1>7. hs' \in [Link -> Handshakes] /\ \A l \in Link : hs'[l].localIndex = hs[l].localIndex
  BY <1>1, <1>2, <1>4 DEF TypeOK
<1>8. TypeOK'
  BY <1>1, <1>2, <1>6, <1>7 DEF TypeOK
<1>9. TableOK'
  BY <1>1, <1>2, <1>7, IndicesUnmoved
<1> QED
  BY <1>6, <1>8, <1>9 DEF TableInv, TableOK

\* CreateMessageResponse moves the handshake to a new index.
LEMMA StepCreateMessageResponse ==
    ASSUME TableInv, NEW n \in Node, NEW w \in Worker,
           CreateMessageResponse(n, w)
    PROVE  TableInv'
<1> DEFINE p == wk[n, w].peer
           tab == IndexDelete(table[n], hs[n, p].localIndex)
<1>1. TypeOK /\ NoSelfPeer /\ TableOK
  BY DEF TableInv, TableOK
<1>2. PICK i \in FreeIndex(tab) :
        /\ wk[n, w].pc = "initiationConsumed"
        /\ eph' = eph + 1
        /\ table' = [table EXCEPT ![n] = IndexInsert(tab, i, HandshakeEntry(p))]
        /\ hs' = [hs EXCEPT ![<<n, p>>] = ResponseCreated(hs[n, p], eph + 1, i)]
        /\ wk' = [wk EXCEPT ![<<n, w>>] =
                    Busy("responseCreated", p, ResponseMessage(n, p, hs[n, p], eph + 1, i))]
        /\ UNCHANGED <<kps, phase, inbound, net, derived>>
  BY DEF CreateMessageResponse
<1> DEFINE new == IndexInsert(tab, i, HandshakeEntry(p))
           h == ResponseCreated(hs[n, p], eph + 1, i)
           m == ResponseMessage(n, p, hs[n, p], eph + 1, i)
<1>3. p \in Node /\ p # n
  BY <1>1, <1>2, WorkerTypes
<1> HIDE DEF p
<1>4. i \in Index /\ eph \in Nat /\ eph + 1 \in Nat
  BY <1>1, Successor DEF FreeIndex, TypeOK
<1>5. hs[n, p] \in Handshakes /\ kps[n, p] \in Slots /\ Distinct(kps[n, p])
  BY <1>1, <1>3, LocalTypes
<1>6. new \in Table /\ Local(new, p, i, Stored(kps[n, p])) /\ Frame(table[n], new, p)
  BY <1>1, <1>3, LocalTypes, LocalNewIndex
<1>7. h \in Handshakes /\ h.localIndex = i
  BY <1>4, <1>5, RecordTypes
<1>8. /\ TableOK'
      /\ table' \in [Node -> [Index0 -> Entry \cup {Nil}]]
      /\ hs' \in [Link -> Handshakes]
  <2>1. kps' = [kps EXCEPT ![<<n, p>>] = kps[n, p]]
    BY <1>1, <1>2 DEF TypeOK
  <2>2. table' = [table EXCEPT ![n] = new] /\ hs' = [hs EXCEPT ![<<n, p>>] = h]
    BY <1>2
  <2> HIDE DEF new, h
  <2> QED
    BY <1>1, <1>3, <1>5, <1>6, <1>7, <2>1, <2>2, LocalToGlobal
<1>9. m \in Response /\ m.from = n /\ m.to = p
  <2>1. hs[n, p].remoteIndex \in Index0 /\ hs[n, p].chainKey.i \in Nat
    BY <1>5 DEF Handshakes, Key
  <2>2. [i |-> hs[n, p].chainKey.i, r |-> eph + 1] \in Key
    BY <1>4, <2>1 DEF Key
  <2> QED
    BY <1>3, <1>4, <2>1, <2>2 DEF ResponseMessage, Response
<1>10. \A c \in net' : c.type # "transport" => c.from # c.to
  BY <1>1, <1>2 DEF NoSelfPeer
<1>11. wk' \in [Node \X Worker -> WorkerState] /\ NoSelfPeer'
  <2>1. wk' = [wk EXCEPT ![<<n, w>>] = Busy("responseCreated", p, m)] /\ m.from # m.to
    BY <1>2, <1>3, <1>9
  <2> HIDE DEF m
  <2> QED
    BY <1>1, <1>3, <1>9, <1>10, <2>1, WorkerBusy
<1>12. TypeOK'
  BY <1>1, <1>2, <1>4, <1>8, <1>11 DEF TypeOK
<1> QED
  BY <1>8, <1>11, <1>12 DEF TableInv, TableOK

\* When CreateMessageResponse fails, only the worker moves.
LEMMA StepResponseFails ==
    ASSUME TableInv, NEW n \in Node, NEW w \in Worker, ResponseFails(n, w)
    PROVE  TableInv'
<1>1. TypeOK /\ NoSelfPeer /\ TableOK
  BY DEF TableInv, TableOK
<1>2. /\ wk' = [wk EXCEPT ![<<n, w>>] = Idle]
      /\ UNCHANGED <<eph, hs, kps, table, phase, inbound, net, derived>>
  BY DEF ResponseFails
<1>3. \A c \in net' : c.type # "transport" => c.from # c.to
  BY <1>1, <1>2 DEF NoSelfPeer
<1>4. wk' \in [Node \X Worker -> WorkerState] /\ NoSelfPeer'
  BY <1>1, <1>2, <1>3, WorkerIdle
<1>5. TypeOK'
  BY <1>1, <1>2, <1>4 DEF TypeOK
<1>6. TableOK'
  BY <1>1, <1>2, IndicesUnmoved
<1> QED
  BY <1>4, <1>5, <1>6 DEF TableInv, TableOK

\* NewKeypair hands the handshake's index to the new key pair, or returns nil
\* and changes nothing.
LEMMA Derivation ==
    ASSUME TypeOK, TableOK, NEW n \in Node, NEW p \in Node, n # p,
           NewKeypair(n, p) \/ UNCHANGED <<hs, table, kps, derived>>
    PROVE  /\ TableOK'
           /\ table' \in [Node -> [Index0 -> Entry \cup {Nil}]]
           /\ hs' \in [Link -> Handshakes]
           /\ kps' \in [Link -> Slots]
           /\ derived' \subseteq [owner : Node, peer : Node, kp : Keypair]
<1>1. CASE UNCHANGED <<hs, table, kps, derived>>
  BY <1>1, IndicesUnmoved DEF TypeOK
<1>2. CASE NewKeypair(n, p)
  <2> DEFINE k == DerivedKeypair(hs[n, p])
             i == hs[n, p].localIndex
             new == RetireNew(IndexInsert(table[n], i, KeypairEntry(p, k)), kps[n, p], k)
             t == RotateNew(kps[n, p], k)
             h == Cleared(hs[n, p])
  <2>1. /\ hs' = [hs EXCEPT ![<<n, p>>] = h]
        /\ table' = [table EXCEPT ![n] = new]
        /\ kps' = [kps EXCEPT ![<<n, p>>] = t]
        /\ derived' = derived \cup {[owner |-> n, peer |-> p, kp |-> k]}
    BY <1>2 DEF NewKeypair
  <2>2. k \in Keypair /\ k.localIndex = i
    BY LocalTypes, DerivedType
  <2>3. h \in Handshakes /\ h.localIndex = 0
    <3>1. hs[n, p] \in Handshakes
      BY LocalTypes
    <3> QED
      BY <3>1, ClearedType
  <2>4. derived' \subseteq [owner : Node, peer : Node, kp : Keypair]
    <3> DEFINE d == [owner |-> n, peer |-> p, kp |-> k]
    <3>1. d \in [owner : Node, peer : Node, kp : Keypair]
      <4> HIDE DEF k
      <4> QED
        BY <2>2
    <3>2. derived' = derived \cup {d}
      BY <2>1
    <3> HIDE DEF d
    <3> QED
      BY <3>1, <3>2 DEF TypeOK
  <2>5. /\ new \in Table /\ t \in Slots
        /\ Local(new, p, 0, Stored(t)) /\ Distinct(t) /\ Frame(table[n], new, p)
    <3> HIDE DEF k
    <3> QED
      BY <2>2, LocalTypes, LocalNewKeypair
  <2> HIDE DEF new, t, h
  <2> QED
    BY <2>1, <2>3, <2>4, <2>5, LocalToGlobal
<1> QED
  BY <1>1, <1>2

\* The responder's NewKeypair; the response it sends comes from this device.
LEMMA StepRespondWithKeypair ==
    ASSUME TableInv, NEW n \in Node, NEW w \in Worker, RespondWithKeypair(n, w)
    PROVE  TableInv'
<1> DEFINE p == wk[n, w].peer
           m == wk[n, w].msg
<1>1. TypeOK /\ NoSelfPeer /\ TableOK
  BY DEF TableInv, TableOK
<1>2. /\ wk[n, w].pc = "responseCreated"
      /\ NewKeypair(n, p) \/ UNCHANGED <<hs, table, kps, derived>>
      /\ net' = net \cup {m} \/ net' = net
      /\ wk' = [wk EXCEPT ![<<n, w>>] = Idle]
      /\ UNCHANGED <<eph, phase, inbound>>
  BY DEF RespondWithKeypair
<1>3. p \in Node /\ p # n /\ m \in Response /\ m.from # m.to
  BY <1>1, <1>2, WorkerTypes
<1> HIDE DEF p, m
<1>4. /\ TableOK'
      /\ table' \in [Node -> [Index0 -> Entry \cup {Nil}]]
      /\ hs' \in [Link -> Handshakes]
      /\ kps' \in [Link -> Slots]
      /\ derived' \subseteq [owner : Node, peer : Node, kp : Keypair]
  BY <1>1, <1>2, <1>3, Derivation
<1>5. \A c \in net' : c.type # "transport" => c.from # c.to
  BY <1>1, <1>2, <1>3 DEF NoSelfPeer
<1>6. wk' \in [Node \X Worker -> WorkerState] /\ NoSelfPeer'
  BY <1>1, <1>2, <1>5, WorkerIdle
<1>7. net' \subseteq (Initiation \cup Response \cup Transport)
  BY <1>1, <1>2, <1>3 DEF TypeOK
<1>8. TypeOK'
  BY <1>1, <1>2, <1>4, <1>6, <1>7 DEF TypeOK
<1> QED
  BY <1>4, <1>6, <1>8 DEF TableInv, TableOK

\* ConsumeMessageResponse's check only occupies the worker; the peer it finds is
\* the sender, which is another device.
LEMMA StepConsumeResponseCheck ==
    ASSUME TableInv, NEW n \in Node, NEW w \in Worker, NEW m \in net,
           ConsumeResponseCheck(n, w, m)
    PROVE  TableInv'
<1> DEFINE e == table[n][m.receiver]
<1>1. TypeOK /\ NoSelfPeer /\ TableOK
  BY DEF TableInv, TableOK
<1>2. /\ m.type = "response" /\ m.to = n
      /\ e.peer = m.from
      /\ wk' = [wk EXCEPT ![<<n, w>>] = Busy("responseChecked", e.peer, m)]
      /\ UNCHANGED <<eph, hs, kps, table, phase, inbound, net, derived>>
  BY DEF ConsumeResponseCheck
<1>3. m \in Response
  BY <1>1, <1>2 DEF TypeOK, Initiation, Response, Transport
<1>4. m.from \in Node /\ m.from # m.to /\ m.from # n
  BY <1>1, <1>2, <1>3 DEF NoSelfPeer, Response
<1>5. \A c \in net' : c.type # "transport" => c.from # c.to
  BY <1>1, <1>2 DEF NoSelfPeer
<1> HIDE DEF e
<1>6. wk' \in [Node \X Worker -> WorkerState] /\ NoSelfPeer'
  BY <1>1, <1>2, <1>3, <1>4, <1>5, WorkerBusy, ZenonT(30)
<1>7. TypeOK'
  BY <1>1, <1>2, <1>6, SMTT(30) DEF TypeOK
<1>8. TableOK'
  BY <1>1, <1>2, IndicesUnmoved
<1> QED
  BY <1>6, <1>7, <1>8 DEF TableInv, TableOK

\* ConsumeMessageResponse's update leaves the handshake index in place.
LEMMA StepConsumeResponseUpdate ==
    ASSUME TableInv, NEW n \in Node, NEW w \in Worker,
           ConsumeResponseUpdate(n, w)
    PROVE  TableInv'
<1> DEFINE p == wk[n, w].peer
           m == wk[n, w].msg
           h == ResponseConsumed(hs[n, p], m)
<1>1. TypeOK /\ NoSelfPeer /\ TableOK
  BY DEF TableInv, TableOK
<1>2. /\ wk[n, w].pc = "responseChecked"
      /\ hs' = [hs EXCEPT ![<<n, p>>] = h]
      /\ wk' = [wk EXCEPT ![<<n, w>>] = Busy("responseConsumed", p, m)]
      /\ UNCHANGED <<eph, kps, table, phase, inbound, net, derived>>
  BY DEF ConsumeResponseUpdate
<1>3. p \in Node /\ p # n /\ m \in Response /\ m.from # m.to
  BY <1>1, <1>2, WorkerTypes
<1>4. h \in Handshakes /\ h.localIndex = hs[n, p].localIndex
  BY <1>1, <1>3, LocalTypes, ConsumedTypes
<1>5. \A c \in net' : c.type # "transport" => c.from # c.to
  BY <1>1, <1>2 DEF NoSelfPeer
<1> HIDE DEF h, p, m
<1>6. wk' \in [Node \X Worker -> WorkerState] /\ NoSelfPeer'
  BY <1>1, <1>2, <1>3, <1>5, WorkerBusy
<1>7. hs' \in [Link -> Handshakes] /\ \A l \in Link : hs'[l].localIndex = hs[l].localIndex
  BY <1>1, <1>2, <1>4 DEF TypeOK
<1>8. TypeOK'
  BY <1>1, <1>2, <1>6, <1>7 DEF TypeOK
<1>9. TableOK'
  BY <1>1, <1>2, <1>7, IndicesUnmoved
<1> QED
  BY <1>6, <1>8, <1>9 DEF TableInv, TableOK

\* The initiator's NewKeypair.
LEMMA StepCompleteHandshake ==
    ASSUME TableInv, NEW n \in Node, NEW w \in Worker, CompleteHandshake(n, w)
    PROVE  TableInv'
<1> DEFINE p == wk[n, w].peer
<1>1. TypeOK /\ NoSelfPeer /\ TableOK
  BY DEF TableInv, TableOK
<1>2. /\ wk[n, w].pc = "responseConsumed"
      /\ NewKeypair(n, p) \/ UNCHANGED <<hs, table, kps, derived>>
      /\ wk' = [wk EXCEPT ![<<n, w>>] = Idle]
      /\ UNCHANGED <<eph, phase, inbound, net>>
  BY DEF CompleteHandshake
<1>3. p \in Node /\ p # n
  BY <1>1, <1>2, WorkerTypes
<1> HIDE DEF p
<1>4. /\ TableOK'
      /\ table' \in [Node -> [Index0 -> Entry \cup {Nil}]]
      /\ hs' \in [Link -> Handshakes]
      /\ kps' \in [Link -> Slots]
      /\ derived' \subseteq [owner : Node, peer : Node, kp : Keypair]
  BY <1>1, <1>2, <1>3, Derivation
<1>5. \A c \in net' : c.type # "transport" => c.from # c.to
  BY <1>1, <1>2 DEF NoSelfPeer
<1>6. wk' \in [Node \X Worker -> WorkerState] /\ NoSelfPeer'
  BY <1>1, <1>2, <1>5, WorkerIdle
<1>7. TypeOK'
  BY <1>1, <1>2, <1>4, <1>6 DEF TypeOK
<1> QED
  BY <1>4, <1>6, <1>7 DEF TableInv, TableOK

\* The nonce routine and the senders after it only put a message on the network.
LEMMA StepSendTransport ==
    ASSUME TableInv, NEW n \in Node, NEW p \in Node, n # p, SendTransport(n, p)
    PROVE  TableInv'
<1> DEFINE k == kps[n, p].current
           m == TransportMessage(p, k)
<1>1. TypeOK /\ NoSelfPeer /\ TableOK
  BY DEF TableInv, TableOK
<1>2. /\ k # Nil
      /\ net' = net \cup {m}
      /\ UNCHANGED <<eph, hs, kps, table, phase, wk, inbound, derived>>
  BY DEF SendTransport
<1>3. k \in Keypair
  <2>1. kps[n, p] \in Slots
    BY <1>1, LocalTypes
  <2> QED
    BY <1>2, <2>1, StoredType
<1> HIDE DEF k
<1>4. m \in Transport /\ m.type = "transport"
  BY <1>3 DEF TransportMessage, Transport, Keypair
<1> HIDE DEF m
<1>5. TypeOK'
  BY <1>1, <1>2, <1>4, SMTT(30) DEF TypeOK
<1>6. NoSelfPeer'
  BY <1>1, <1>2, <1>4 DEF NoSelfPeer
<1>7. TableOK'
  BY <1>1, <1>2, IndicesUnmoved
<1> QED
  BY <1>5, <1>6, <1>7 DEF TableInv, TableOK

\* A transport message that is received only joins the inbound queue of its peer.
LEMMA StepReceiveTransport ==
    ASSUME TableInv, NEW n \in Node, NEW m \in net, ReceiveTransport(n, m)
    PROVE  TableInv'
<1> DEFINE e == table[n][m.receiver]
<1>1. TypeOK /\ NoSelfPeer /\ TableOK
  BY SMTT(30) DEF TableInv, TableOK
<1>2. /\ m.type = "transport"
      /\ e # Nil /\ e.keyPair # Nil
      /\ inbound' = [inbound EXCEPT ![<<n, e.peer>>] = inbound[n, e.peer] \cup {e.keyPair}]
      /\ UNCHANGED <<eph, hs, kps, table, phase, wk, net, derived>>
  BY DEF ReceiveTransport
<1>3. m \in Transport
  BY <1>1, <1>2 DEF TypeOK, Initiation, Response, Transport
<1>4. e \in Entry
  <2>1. m.receiver \in Index0
    BY <1>3 DEF Transport
  <2>2. table[n] \in [Index0 -> Entry \cup {Nil}]
    BY <1>1 DEF TypeOK
  <2> QED
    BY <1>2, <2>1, <2>2
<1> HIDE DEF e
<1>5. e.keyPair \in Keypair
  BY <1>2, <1>4 DEF Entry
<1>6. inbound' \in [Link -> SUBSET Keypair]
  BY <1>1, <1>2, <1>5 DEF TypeOK
<1>7. TypeOK' /\ NoSelfPeer'
  BY <1>1, <1>2, <1>6 DEF TypeOK, NoSelfPeer
<1>8. TableOK'
  BY <1>1, <1>2, IndicesUnmoved
<1> QED
  BY <1>7, <1>8 DEF TableInv, TableOK

\* The sequential receiver confirms next, or leaves the slots alone.
LEMMA StepSequentialReceiver ==
    ASSUME TableInv, NEW n \in Node, NEW p \in Node, n # p, SequentialReceiver(n, p)
    PROVE  TableInv'
<1> DEFINE new == RetireConfirmed(table[n], kps[n, p])
           t == RotateConfirmed(kps[n, p])
<1>1. TypeOK /\ NoSelfPeer /\ TableOK
  BY DEF TableInv, TableOK
<1>2. PICK k \in inbound[n, p] :
        /\ \/ /\ table' = [table EXCEPT ![n] = new]
              /\ kps' = [kps EXCEPT ![<<n, p>>] = t]
           \/ UNCHANGED <<table, kps>>
        /\ inbound' = [inbound EXCEPT ![<<n, p>>] = inbound[n, p] \ {k}]
        /\ UNCHANGED <<eph, hs, phase, wk, net, derived>>
  BY DEF SequentialReceiver
<1>3. hs[n, p] \in Handshakes
  BY <1>1, LocalTypes
<1>4. /\ new \in Table /\ t \in Slots
      /\ Local(new, p, hs[n, p].localIndex, Stored(t)) /\ Distinct(t)
      /\ Frame(table[n], new, p)
  BY <1>1, LocalTypes, LocalConfirmed
<1> HIDE DEF new, t
<1>5. /\ TableOK'
      /\ table' \in [Node -> [Index0 -> Entry \cup {Nil}]]
      /\ kps' \in [Link -> Slots]
  <2>1. CASE UNCHANGED <<table, kps>>
    BY <1>1, <1>2, <2>1, IndicesUnmoved DEF TypeOK
  <2>2. CASE table' = [table EXCEPT ![n] = new] /\ kps' = [kps EXCEPT ![<<n, p>>] = t]
    <3>1. hs' = [hs EXCEPT ![<<n, p>>] = hs[n, p]]
      BY <1>1, <1>2 DEF TypeOK
    <3> QED
      BY <1>1, <1>3, <1>4, <2>2, <3>1, LocalToGlobal
  <2> QED
    BY <1>2, <2>1, <2>2
<1>6. inbound' \in [Link -> SUBSET Keypair]
  <2>1. inbound[n, p] \ {k} \in SUBSET Keypair
    BY <1>1, LocalTypes DEF TypeOK
  <2> QED
    BY <1>1, <1>2, <2>1 DEF TypeOK
<1>7. TypeOK' /\ NoSelfPeer'
  BY <1>1, <1>2, <1>5, <1>6 DEF TypeOK, NoSelfPeer
<1> QED
  BY <1>5, <1>7 DEF TableInv, TableOK

\* The zero-key-material timer drops the handshake index and every key pair.
LEMMA StepExpiredZeroKeyMaterial ==
    ASSUME TableInv, NEW n \in Node, NEW p \in Node, n # p, ExpiredZeroKeyMaterial(n, p)
    PROVE  TableInv'
<1> DEFINE mid == DeleteSlots(table[n], kps[n, p])
           new == IndexDelete(mid, hs[n, p].localIndex)
           h == Cleared(hs[n, p])
<1>1. TypeOK /\ NoSelfPeer /\ TableOK
  BY DEF TableInv, TableOK
<1>2. /\ kps' = [kps EXCEPT ![<<n, p>>] = NoSlots]
      /\ hs' = [hs EXCEPT ![<<n, p>>] = h]
      /\ table' = [table EXCEPT ![n] = new]
      /\ UNCHANGED <<eph, phase, wk, inbound, net, derived>>
  BY DEF ExpiredZeroKeyMaterial
<1>3. h \in Handshakes /\ h.localIndex = 0
  BY <1>1, LocalTypes, ClearedType
<1>4. /\ mid \in Table /\ NoSlots \in Slots /\ Stored(NoSlots) \in SUBSET Keypair
      /\ Local(mid, p, hs[n, p].localIndex, Stored(NoSlots)) /\ Distinct(NoSlots)
      /\ Frame(table[n], mid, p)
  BY <1>1, LocalTypes, LocalDeleteSlots, StoredType
<1> HIDE DEF mid
<1>5. new \in Table /\ Local(new, p, 0, Stored(NoSlots)) /\ Frame(mid, new, p)
  BY <1>1, <1>4, LocalTypes, LocalDropIndex
<1>6. Frame(table[n], new, p)
  BY <1>4, <1>5, FrameTransitive
<1> HIDE DEF new, h
<1>7. /\ TableOK'
      /\ table' \in [Node -> [Index0 -> Entry \cup {Nil}]]
      /\ hs' \in [Link -> Handshakes]
      /\ kps' \in [Link -> Slots]
  BY <1>1, <1>2, <1>3, <1>4, <1>5, <1>6, LocalToGlobal
<1>8. TypeOK' /\ NoSelfPeer'
  BY <1>1, <1>2, <1>7 DEF TypeOK, NoSelfPeer
<1> QED
  BY <1>7, <1>8 DEF TableInv, TableOK

\* Peer.Stop clears the key pairs first.
LEMMA StepStopKeypairs ==
    ASSUME TableInv, NEW n \in Node, NEW p \in Node, n # p, StopKeypairs(n, p)
    PROVE  TableInv'
<1> DEFINE new == DeleteSlots(table[n], kps[n, p])
<1>1. TypeOK /\ NoSelfPeer /\ TableOK
  BY DEF TableInv, TableOK
<1>2. /\ phase' = [phase EXCEPT ![<<n, p>>] = "stopping"]
      /\ inbound' = [inbound EXCEPT ![<<n, p>>] = {}]
      /\ table' = [table EXCEPT ![n] = new]
      /\ kps' = [kps EXCEPT ![<<n, p>>] = NoSlots]
      /\ UNCHANGED <<eph, hs, wk, net, derived>>
  BY DEF StopKeypairs
<1>3. hs[n, p] \in Handshakes /\ hs' = [hs EXCEPT ![<<n, p>>] = hs[n, p]]
  <2>1. hs' = [hs EXCEPT ![<<n, p>>] = hs[n, p]]
    BY <1>1, <1>2 DEF TypeOK
  <2> QED
    BY <1>1, <2>1, LocalTypes
<1>4. /\ new \in Table /\ NoSlots \in Slots
      /\ Local(new, p, hs[n, p].localIndex, Stored(NoSlots)) /\ Distinct(NoSlots)
      /\ Frame(table[n], new, p)
  BY <1>1, LocalTypes, LocalDeleteSlots
<1> HIDE DEF new
<1>5. /\ TableOK'
      /\ table' \in [Node -> [Index0 -> Entry \cup {Nil}]]
      /\ kps' \in [Link -> Slots]
  BY <1>1, <1>2, <1>3, <1>4, LocalToGlobal
<1>6. /\ phase' \in [Link -> {"running", "stopping", "stopped"}]
      /\ inbound' \in [Link -> SUBSET Keypair]
  BY <1>1, <1>2, ZenonT(30) DEF TypeOK
<1>7. TypeOK' /\ NoSelfPeer'
  BY <1>1, <1>2, <1>5, <1>6 DEF TypeOK, NoSelfPeer
<1> QED
  BY <1>5, <1>7 DEF TableInv, TableOK

\* Then it clears the handshake.
LEMMA StepStopHandshake ==
    ASSUME TableInv, NEW n \in Node, NEW p \in Node, n # p, StopHandshake(n, p)
    PROVE  TableInv'
<1> DEFINE new == IndexDelete(table[n], hs[n, p].localIndex)
           h == Cleared(hs[n, p])
<1>1. TypeOK /\ NoSelfPeer /\ TableOK
  BY DEF TableInv, TableOK
<1>2. /\ phase' = [phase EXCEPT ![<<n, p>>] = "stopped"]
      /\ table' = [table EXCEPT ![n] = new]
      /\ hs' = [hs EXCEPT ![<<n, p>>] = h]
      /\ UNCHANGED <<eph, kps, wk, inbound, net, derived>>
  BY DEF StopHandshake
<1>3. h \in Handshakes /\ h.localIndex = 0
  BY <1>1, LocalTypes, ClearedType
<1>4. new \in Table /\ Local(new, p, 0, Stored(kps[n, p])) /\ Frame(table[n], new, p)
  BY <1>1, LocalTypes, LocalDropIndex
<1>5. kps[n, p] \in Slots /\ Distinct(kps[n, p])
  BY <1>1, LocalTypes
<1>6. kps' = [kps EXCEPT ![<<n, p>>] = kps[n, p]]
  BY <1>1, <1>2 DEF TypeOK
<1> HIDE DEF new, h
<1>7. /\ TableOK'
      /\ table' \in [Node -> [Index0 -> Entry \cup {Nil}]]
      /\ hs' \in [Link -> Handshakes]
  BY <1>1, <1>2, <1>3, <1>4, <1>5, <1>6, LocalToGlobal
<1>8. phase' \in [Link -> {"running", "stopping", "stopped"}]
  BY <1>1, <1>2, ZenonT(30) DEF TypeOK
<1>9. TypeOK' /\ NoSelfPeer'
  BY <1>1, <1>2, <1>7, <1>8 DEF TypeOK, NoSelfPeer
<1> QED
  BY <1>7, <1>9 DEF TableInv, TableOK

\* Peer.Start only sets the phase.
LEMMA StepStart ==
    ASSUME TableInv, NEW n \in Node, NEW p \in Node, n # p, Start(n, p)
    PROVE  TableInv'
<1>1. TypeOK /\ NoSelfPeer /\ TableOK
  BY DEF TableInv, TableOK
<1>2. /\ phase' = [phase EXCEPT ![<<n, p>>] = "running"]
      /\ UNCHANGED <<eph, hs, kps, table, wk, inbound, net, derived>>
  BY DEF Start
<1>3. phase' \in [Link -> {"running", "stopping", "stopped"}]
  BY <1>1, <1>2, ZenonT(30) DEF TypeOK
<1>4. TypeOK' /\ NoSelfPeer'
  BY <1>1, <1>2, <1>3 DEF TypeOK, NoSelfPeer
<1>5. TableOK'
  BY <1>1, <1>2, IndicesUnmoved
<1> QED
  BY <1>4, <1>5 DEF TableInv, TableOK

-----------------------------------------------------------------------------
(* The theorems.                                                           *)

\* A device starts with an empty table and empty peers (NewDevice, NewPeer).
LEMMA InitTable == Init => TableInv
<1> SUFFICES ASSUME Init
             PROVE  TableInv
  OBVIOUS
<1>1. TypeOK
  <2>1. hs \in [Link -> Handshakes]
    BY DEF Init, Handshakes, HandshakeState, NoKey, Key, Index0
  <2>2. kps \in [Link -> Slots]
    BY DEF Init, NoSlots, Slots
  <2>3. wk \in [Node \X Worker -> WorkerState]
    BY DEF Init, WorkerState
  <2>4. eph \in Nat /\ table \in [Node -> [Index0 -> Entry \cup {Nil}]]
    BY DEF Init
  <2>5. /\ phase \in [Link -> {"running", "stopping", "stopped"}]
        /\ inbound \in [Link -> SUBSET Keypair]
        /\ net \subseteq (Initiation \cup Response \cup Transport)
        /\ derived \subseteq [owner : Node, peer : Node, kp : Keypair]
    BY DEF Init
  <2> QED
    BY <2>1, <2>2, <2>3, <2>4, <2>5 DEF TypeOK
<1>2. NoSelfPeer
  BY IdlePoint DEF Init, NoSelfPeer
<1>3. ASSUME NEW l \in Link
      PROVE  /\ l[1] \in Node
             /\ hs[l].localIndex = 0
             /\ kps[l] = NoSlots
             /\ \A i \in Index0 : table[l[1]][i] = Nil
  BY DEF Init, Link
<1>4. Stored(NoSlots) = {} /\ Distinct(NoSlots)
  BY SMTT(30) DEF Stored, NoSlots, Distinct, Apart
<1>5. OwnersEntered /\ SlotsDistinct
  BY <1>3, <1>4 DEF OwnersEntered, Entered, SlotsDistinct
<1>6. EntriesOwned
  <2>1. \A n \in Node, i \in Index : table[n][i] = Nil
    BY DEF Init, Index0
  <2> QED
    BY <1>3, <2>1 DEF EntriesOwned, Owned, Index0
<1> QED
  BY <1>1, <1>2, <1>5, <1>6 DEF TableInv

\* Every step of the system keeps the invariant.
LEMMA StepTable == TableInv /\ [Next]_vars => TableInv'
<1> SUFFICES ASSUME TableInv, [Next]_vars
             PROVE  TableInv'
  OBVIOUS
<1>1. CASE UNCHANGED vars
  BY <1>1, ZenonT(30) DEF vars, TableInv, TypeOK, NoSelfPeer, OwnersEntered, EntriesOwned, SlotsDistinct
<1>2. ASSUME NEW l \in Link, PeerStep(l[1], l[2])
      PROVE  TableInv'
  <2>1. l[1] \in Node /\ l[2] \in Node /\ l[1] # l[2]
    BY DEF Link
  <2> QED
    BY <1>2, <2>1, StepSendHandshakeInitiation, StepSendTransport, StepSequentialReceiver,
       StepExpiredZeroKeyMaterial, StepStopKeypairs, StepStopHandshake, StepStart
       DEF PeerStep
<1>3. ASSUME NEW n \in Node, NEW w \in Worker, WorkerStep(n, w)
      PROVE  TableInv'
  BY <1>3, StepConsumeInitiationCheck, StepConsumeInitiationUpdate,
     StepCreateMessageResponse, StepResponseFails, StepRespondWithKeypair,
     StepConsumeResponseCheck, StepConsumeResponseUpdate, StepCompleteHandshake
     DEF WorkerStep
<1>4. ASSUME NEW n \in Node, NEW m \in net, ReceiveTransport(n, m)
      PROVE  TableInv'
  BY <1>4, StepReceiveTransport
<1> QED
  BY <1>1, <1>2, <1>3, <1>4 DEF Next

\* The index table and its owners agree in every reachable state, whatever the
\* number of devices, handshake workers and indices.
THEOREM TableCorrect == Spec => []TableInv
<1>1. Init => TableInv
  BY InitTable
<1>2. TableInv /\ [Next]_vars => TableInv'
  BY StepTable
<1> QED
  BY <1>1, <1>2, PTL DEF Spec

\* The state keeps its types through every handler.
THEOREM TypeCorrect == Spec => []TypeOK
<1>1. TableInv => TypeOK
  BY DEF TableInv
<1> QED
  BY <1>1, TableCorrect, PTL

\* No message of a live session is dropped because its index leads elsewhere: the
\* index of a handshake or of a stored key pair is always found in the table.
THEOREM OwnersAlwaysEntered == Spec => []OwnersEntered
<1>1. TableInv => OwnersEntered
  BY DEF TableInv
<1> QED
  BY <1>1, TableCorrect, PTL

\* Rotation, Peer.Stop and the zero-key-material timer never leave an entry of a
\* handshake or a key pair that is gone.
THEOREM EntriesAlwaysOwned == Spec => []EntriesOwned
<1>1. TableInv => EntriesOwned
  BY DEF TableInv
<1> QED
  BY <1>1, TableCorrect, PTL

-----------------------------------------------------------------------------
(* What the types say of one peer and of one worker.                       *)

\* The types of peer <<n, p>> and of the table of device n.
LEMMA LinkTypes ==
    ASSUME TypeOK, NEW n \in Node, NEW p \in Node, n # p
    PROVE  /\ <<n, p>> \in Link /\ <<n, p>>[1] = n /\ <<n, p>>[2] = p
           /\ hs[<<n, p>>] \in Handshakes
           /\ hs[<<n, p>>].localIndex \in Index0
           /\ kps[<<n, p>>] \in Slots
           /\ table[n] \in Table
<1>1. <<n, p>> \in Link /\ <<n, p>>[1] = n /\ <<n, p>>[2] = p
  BY DEF Link
<1>2. hs[<<n, p>>] \in Handshakes /\ kps[<<n, p>>] \in Slots /\ table[n] \in Table
  BY <1>1 DEF TypeOK, Table
<1> QED
  BY <1>1, <1>2 DEF Handshakes

\* A busy worker has a peer other than its device and a message of the kind it handles.
LEMMA WorkerTyped ==
    ASSUME TypeOK, NoSelfPeer, NEW n \in Node, NEW w \in Worker
    PROVE  /\ wk[<<n, w>>] \in WorkerState
           /\ wk[<<n, w>>].pc # "idle" =>
                 /\ wk[<<n, w>>].peer \in Node
                 /\ wk[<<n, w>>].peer # n
           /\ wk[<<n, w>>].pc \in {"initiationChecked", "initiationConsumed"} =>
                 wk[<<n, w>>].msg \in Initiation
           /\ wk[<<n, w>>].pc \in {"responseCreated", "responseChecked", "responseConsumed"} =>
                 wk[<<n, w>>].msg \in Response
BY WorkerTypes

\* What CreateMessageResponse does, in terms of the peer p, its handshake g and index i.
CreatesResponse(n, w, p, g, i) ==
    /\ p # n /\ g = hs[<<n, p>>]
    /\ eph' = eph + 1
    /\ hs' = [hs EXCEPT ![<<n, p>>] = ResponseCreated(g, eph + 1, i)]
    /\ wk' = [wk EXCEPT ![<<n, w>>] =
          Busy("responseCreated", p, ResponseMessage(n, p, g, eph + 1, i))]
    /\ table' = [table EXCEPT ![n] =
          IndexInsert(IndexDelete(table[n], g.localIndex), i, HandshakeEntry(p))]
    /\ UNCHANGED <<kps, inbound, net, derived, crowded>>

\* CreateMessageResponse does that for some peer, handshake and index.
LEMMA CreateResponse ==
    ASSUME TypeOK, NoSelfPeer, NEW n \in Node, NEW w \in Worker, CreateMessageResponse(n, w)
    PROVE  /\ wk[<<n, w>>].pc = "initiationConsumed"
           /\ \E p \in Node, g \in Handshakes, i \in Index : CreatesResponse(n, w, p, g, i)
<1>1. wk[<<n, w>>].pc = "initiationConsumed"
  BY DEF CreateMessageResponse
<1>2. PICK p \in Node : p = wk[<<n, w>>].peer /\ p # n
  BY <1>1, WorkerTyped
<1>3. PICK g \in Handshakes : g = hs[<<n, p>>]
  BY <1>2, LinkTypes
<1>4. wk[n, w].peer = p /\ hs[n, p] = g
  BY <1>2, <1>3
<1>5. PICK i \in Index :
        /\ eph' = eph + 1
        /\ hs' = [hs EXCEPT ![<<n, p>>] = ResponseCreated(hs[n, p], eph + 1, i)]
        /\ wk' = [wk EXCEPT ![<<n, w>>] =
              Busy("responseCreated", p, ResponseMessage(n, p, hs[n, p], eph + 1, i))]
        /\ table' = [table EXCEPT ![n] =
              IndexInsert(IndexDelete(table[n], hs[n, p].localIndex), i, HandshakeEntry(p))]
        /\ UNCHANGED <<kps, inbound, net, derived, crowded>>
  BY <1>4 DEF CreateMessageResponse, FreeIndex
<1>6. CreatesResponse(n, w, p, g, i)
  BY <1>2, <1>3, <1>4, <1>5 DEF CreatesResponse
<1> QED
  BY <1>1, <1>6

-----------------------------------------------------------------------------
(* Who agrees with whom on a key.                                          *)
(*                                                                         *)
(* A responder commits itself to an ephemeral key when it creates a        *)
(* response: the response, the handshake and the key pair derived from it  *)
(* all make the same claim.  An initiator rests on such a response, and on *)
(* the initiation it answers.                                              *)

HandshakeClaim(l, h) ==
    [type |-> "response", from |-> l[1], to |-> l[2], sender |-> h.localIndex,
     receiver |-> h.remoteIndex, key |-> h.chainKey]

KeypairClaim(d) ==
    [type |-> "response", from |-> d.owner, to |-> d.peer, sender |-> d.kp.localIndex,
     receiver |-> d.kp.remoteIndex, key |-> d.kp.key]

Responding(x) == x.pc = "responseCreated"

Claims ==
    {m \in net : m.type = "response"}
    \cup {wk[x].msg : x \in {y \in Node \X Worker : Responding(wk[y])}}
    \cup {HandshakeClaim(l, hs[l]) : l \in {k \in Link : hs[k].state = "ResponseCreated"}}
    \cup {KeypairClaim(d) : d \in {c \in derived : ~c.kp.isInitiator}}

\* The ephemeral of a responder is used for one handshake.
ClaimsUnique ==
    /\ \A m \in Claims : m.key.r \in 0 .. eph
    /\ \A m, c \in Claims : m.key.r = c.key.r => m = c

\* So is that of an initiator.
OriginsUnique ==
    /\ \A m \in net : m.type = "initiation" => m.ephemeral \in 0 .. eph
    /\ \A m, c \in net : /\ m.type = "initiation" /\ c.type = "initiation"
                         /\ m.ephemeral = c.ephemeral
                         => m = c

\* p has answered n with a response of index i, from which both get the key k.
Answer(n, p, k, i) ==
    \E m \in net : /\ m.type = "response" /\ m.from = p /\ m.to = n
                   /\ m.key = k /\ m.sender = i

\* n has sent p an initiation with the ephemeral e.
Origin(n, p, e) ==
    \E m \in net : /\ m.type = "initiation" /\ m.from = n /\ m.to = p
                   /\ m.ephemeral = e

Initiating == {"InitiationCreated", "ResponseConsumed"}

HandshakeSound(l, h) ==
    /\ h.state = "ResponseConsumed" => Answer(l[1], l[2], h.chainKey, h.remoteIndex)
    /\ h.state \in Initiating => Origin(l[1], l[2], h.chainKey.i)

WorkerSound(n, x) ==
    x.pc = "responseChecked" => /\ Answer(n, x.peer, x.msg.key, x.msg.sender)
                                /\ Origin(n, x.peer, x.msg.key.i)

KeypairSound(d) ==
    d.kp.isInitiator => /\ Answer(d.owner, d.peer, d.kp.key, d.kp.remoteIndex)
                        /\ Origin(d.owner, d.peer, d.kp.key.i)

Sound ==
    /\ \A l \in Link : HandshakeSound(l, hs[l])
    /\ \A x \in Node \X Worker : WorkerSound(x[1], wk[x])
    /\ \A d \in derived : KeypairSound(d)

Agreement == ClaimsUnique /\ OriginsUnique /\ Sound

\* What Handshake.Clear writes into a handshake record; the same for the other events.
LEMMA ClearedFields ==
    ASSUME NEW h \in Handshakes
    PROVE  Cleared(h).state = "Zeroed"
BY DEF Handshakes, Cleared

\* CreateMessageInitiation starts from a new ephemeral key.
LEMMA InitiationCreatedFields ==
    ASSUME NEW h \in Handshakes, NEW e, NEW i
    PROVE  /\ InitiationCreated(h, e, i).state = "InitiationCreated"
           /\ InitiationCreated(h, e, i).chainKey.i = e
<1>1. InitiationCreated(h, e, i).chainKey = [i |-> e, r |-> 0]
  BY DEF Handshakes, InitiationCreated
<1>2. InitiationCreated(h, e, i).state = "InitiationCreated"
  BY DEF Handshakes, InitiationCreated
<1> QED
  BY <1>1, <1>2, SMT

\* ConsumeMessageInitiation makes it a responder's.
LEMMA InitiationConsumedFields ==
    ASSUME NEW h \in Handshakes, NEW m
    PROVE  InitiationConsumed(h, m).state = "InitiationConsumed"
BY DEF Handshakes, InitiationConsumed

\* CreateMessageResponse keeps the index of the other end.
LEMMA ResponseCreatedFields ==
    ASSUME NEW h \in Handshakes, NEW e, NEW i
    PROVE  /\ ResponseCreated(h, e, i).state = "ResponseCreated"
           /\ ResponseCreated(h, e, i).localIndex = i
           /\ ResponseCreated(h, e, i).remoteIndex = h.remoteIndex
BY DEF Handshakes, ResponseCreated

\* And completes the chain key.
LEMMA ResponseCreatedKey ==
    ASSUME NEW h \in Handshakes, NEW e, NEW i
    PROVE  ResponseCreated(h, e, i).chainKey = [i |-> h.chainKey.i, r |-> e]
BY DEF Handshakes, ResponseCreated

\* ConsumeMessageResponse takes key and index from the response.
LEMMA ResponseConsumedFields ==
    ASSUME NEW h \in Handshakes, NEW m
    PROVE  /\ ResponseConsumed(h, m).state = "ResponseConsumed"
           /\ ResponseConsumed(h, m).chainKey = m.key
           /\ ResponseConsumed(h, m).remoteIndex = m.sender
BY DEF Handshakes, ResponseConsumed

\* The handshakes after the one of peer <<n, p>> has become h.
LEMMA HandshakeBecomes ==
    ASSUME TypeOK, NEW n \in Node, NEW p \in Node, n # p, NEW h,
           hs' = [hs EXCEPT ![<<n, p>>] = h]
    PROVE  /\ <<n, p>> \in Link /\ <<n, p>>[1] = n /\ <<n, p>>[2] = p
           /\ hs'[<<n, p>>] = h
           /\ \A l \in Link : hs'[l] = hs[l] \/ l = <<n, p>>
BY DEF TypeOK, Link

\* The workers after <<n, w>> has become x.
LEMMA WorkerBecomes ==
    ASSUME TypeOK, NEW n \in Node, NEW w \in Worker, NEW x,
           wk' = [wk EXCEPT ![<<n, w>>] = x]
    PROVE  /\ <<n, w>> \in Node \X Worker /\ <<n, w>>[1] = n
           /\ wk'[<<n, w>>] = x
           /\ \A y \in Node \X Worker : wk'[y] = wk[y] \/ y = <<n, w>>
BY DEF TypeOK

\* The network forgets nothing.
LEMMA NetGrows ==
    ASSUME net \subseteq net'
    PROVE  /\ \A n, p, k, i : Answer(n, p, k, i) => Answer(n, p, k, i)'
           /\ \A n, p, e : Origin(n, p, e) => Origin(n, p, e)'
BY DEF Answer, Origin

\* Where the claims of a state come from, and what they become: c is a new one.
LEMMA ClaimsBecome ==
    ASSUME NEW C, Claims \subseteq C,
           \A m \in net' : m \in net \/ m.type # "response" \/ m \in C,
           \A x \in Node \X Worker :
              wk'[x] = wk[x] \/ ~Responding(wk'[x]) \/ wk'[x].msg \in C,
           \A l \in Link :
              \/ hs'[l] = hs[l] \/ hs'[l].state # "ResponseCreated"
              \/ HandshakeClaim(l, hs'[l]) \in C,
           \A d \in derived' : d \in derived \/ d.kp.isInitiator \/ KeypairClaim(d) \in C
    PROVE  Claims' \subseteq C
<1> SUFFICES ASSUME NEW m \in Claims'
             PROVE  m \in C
  OBVIOUS
<1>1. CASE m \in net' /\ m.type = "response"
  BY <1>1 DEF Claims
<1>2. ASSUME NEW x \in Node \X Worker, Responding(wk'[x]), m = wk'[x].msg
      PROVE  m \in C
  BY <1>2 DEF Claims
<1>3. ASSUME NEW l \in Link, hs'[l].state = "ResponseCreated", m = HandshakeClaim(l, hs'[l])
      PROVE  m \in C
  BY <1>3 DEF Claims
<1>4. ASSUME NEW d \in derived', ~d.kp.isInitiator, m = KeypairClaim(d)
      PROVE  m \in C
  BY <1>4 DEF Claims
<1> QED
  BY <1>1, <1>2, <1>3, <1>4 DEF Claims, Responding

\* What rests on the network still does when it has grown.
LEMMA SoundKept ==
    ASSUME Sound, net \subseteq net',
           \A l \in Link : hs'[l] = hs[l] \/ HandshakeSound(l, hs[l])',
           \A x \in Node \X Worker : wk'[x] = wk[x] \/ WorkerSound(x[1], wk[x])',
           \A d \in derived' : d \in derived \/ KeypairSound(d)'
    PROVE  Sound'
<1>1. ASSUME NEW l \in Link
      PROVE  HandshakeSound(l, hs[l])'
  BY NetGrows DEF Sound, HandshakeSound
<1>2. ASSUME NEW x \in Node \X Worker
      PROVE  WorkerSound(x[1], wk[x])'
  BY NetGrows DEF Sound, WorkerSound
<1>3. ASSUME NEW d \in derived'
      PROVE  KeypairSound(d)'
  BY NetGrows DEF Sound, KeypairSound
<1> QED
  BY <1>1, <1>2, <1>3 DEF Sound

\* A step that generates no ephemeral key.
LEMMA AgreementKept ==
    ASSUME TypeOK, Agreement, UNCHANGED eph, net \subseteq net',
           \A m \in net' : m \in net \/ m.type = "transport" \/ m \in Claims,
           \A l \in Link :
              \/ hs'[l] = hs[l]
              \/ hs'[l].state # "ResponseCreated" /\ HandshakeSound(l, hs[l])',
           \A x \in Node \X Worker :
              \/ wk'[x] = wk[x]
              \/ ~Responding(wk'[x]) /\ WorkerSound(x[1], wk[x])',
           \A d \in derived' :
              \/ d \in derived
              \/ d.kp.isInitiator /\ KeypairSound(d)'
              \/ ~d.kp.isInitiator /\ KeypairClaim(d) \in Claims,
           \A m \in Claims : m.type = "response"
    PROVE  Agreement'
<1>1. Sound'
  <2>1. \A d \in derived' : d \in derived \/ KeypairSound(d)'
    BY DEF KeypairSound
  <2> QED
    BY <2>1, SoundKept DEF Agreement
<1>2. Claims' \subseteq Claims
  BY ClaimsBecome
<1>3. ClaimsUnique'
  BY <1>2 DEF Agreement, ClaimsUnique
<1>4. OriginsUnique'
  BY DEF Agreement, OriginsUnique
<1> QED
  BY <1>1, <1>3, <1>4 DEF Agreement

\* Claims are responses.
LEMMA ClaimTypes ==
    ASSUME TypeOK, NoSelfPeer
    PROVE  \A m \in Claims : m.type = "response"
<1>1. \A l \in Link : HandshakeClaim(l, hs[l]).type = "response"
  BY DEF HandshakeClaim
<1>2. \A d \in derived : KeypairClaim(d).type = "response"
  BY DEF KeypairClaim
<1>3. ASSUME NEW x \in Node \X Worker, Responding(wk[x])
      PROVE  wk[x].msg.type = "response"
  <2>1. PICK n \in Node, w \in Worker : x = <<n, w>>
    BY SMT
  <2>2. wk[<<n, w>>].msg \in Response
    BY <1>3, <2>1, WorkerTyped DEF Responding
  <2> QED
    BY <2>1, <2>2 DEF Response
<1> QED
  BY <1>1, <1>2, <1>3 DEF Claims

\* A step that leaves handshakes, workers and key pairs alone and may send a transport
\* message.
LEMMA AgreementUnmoved ==
    ASSUME TableInv, Agreement, UNCHANGED <<eph, hs, wk, derived>>, net \subseteq net',
           \A m \in net' : m \in net \/ m.type = "transport"
    PROVE  Agreement'
<1>1. TypeOK /\ \A m \in Claims : m.type = "response"
  BY ClaimTypes DEF TableInv
<1> QED
  BY <1>1, AgreementKept

\* Handshake.Clear.
LEMMA AgreementCleared ==
    ASSUME TableInv, Agreement, NEW n \in Node, NEW p \in Node, n # p,
           hs' = [hs EXCEPT ![<<n, p>>] = Cleared(hs[<<n, p>>])],
           UNCHANGED <<eph, wk, derived, net>>
    PROVE  Agreement'
<1>1. TypeOK /\ TableOK /\ \A m \in Claims : m.type = "response"
  BY ClaimTypes DEF TableInv, TableOK
<1>2. PICK h : h = Cleared(hs[<<n, p>>])
  OBVIOUS
<1>3. h.state = "Zeroed"
  BY <1>1, <1>2, LinkTypes, ClearedFields
<1>4. \A l \in Link : \/ hs'[l] = hs[l]
                      \/ hs'[l].state # "ResponseCreated" /\ HandshakeSound(l, hs[l])'
  BY <1>1, <1>2, <1>3, HandshakeBecomes, SMT DEF HandshakeSound, Initiating
<1> QED
  BY <1>1, <1>4, AgreementKept

\* A worker moves on without creating a response or accepting one.
LEMMA AgreementWorker ==
    ASSUME TableInv, Agreement, NEW n \in Node, NEW w \in Worker, NEW x,
           wk' = [wk EXCEPT ![<<n, w>>] = x], x.pc \notin {"responseCreated", "responseChecked"},
           UNCHANGED <<eph, hs, derived, net>>
    PROVE  Agreement'
<1>1. TypeOK /\ \A m \in Claims : m.type = "response"
  BY ClaimTypes DEF TableInv
<1>2. \A y \in Node \X Worker : \/ wk'[y] = wk[y]
                                \/ ~Responding(wk'[y]) /\ WorkerSound(y[1], wk[y])'
  BY <1>1, WorkerBecomes, SMT DEF Responding, WorkerSound
<1> QED
  BY <1>1, <1>2, AgreementKept

\* CreateMessageInitiation generates the ephemeral of an initiator.
LEMMA AgreeSendHandshakeInitiation ==
    ASSUME TableInv, Agreement, NEW n \in Node, NEW p \in Node, n # p,
           SendHandshakeInitiation(n, p)
    PROVE  Agreement'
<1>1. TypeOK /\ TableOK /\ eph \in Nat /\ \A m \in Claims : m.type = "response"
  BY ClaimTypes DEF TableInv, TableOK, TypeOK
<1>2. PICK g \in Handshakes : g = hs[<<n, p>>]
  BY <1>1, LinkTypes
<1>3. PICK i \in Index :
        /\ eph' = eph + 1
        /\ hs' = [hs EXCEPT ![<<n, p>>] = InitiationCreated(g, eph + 1, i)]
        /\ net' = net \cup {InitiationMessage(n, p, eph + 1, i)}
        /\ UNCHANGED <<wk, derived>>
  BY <1>2 DEF SendHandshakeInitiation, FreeIndex
<1>4. PICK h : h = InitiationCreated(g, eph + 1, i)
  OBVIOUS
<1>5. h.state = "InitiationCreated" /\ h.chainKey.i = eph + 1
  BY <1>4, InitiationCreatedFields, SMT
<1>6. PICK m : m = InitiationMessage(n, p, eph + 1, i)
  OBVIOUS
<1>7. m.type = "initiation" /\ m.from = n /\ m.to = p /\ m.ephemeral = eph + 1
  BY <1>6 DEF InitiationMessage
<1>8. net' = net \cup {m} /\ eph' = eph + 1 /\ UNCHANGED <<wk, derived>>
  BY <1>3, <1>6
<1>9. hs' = [hs EXCEPT ![<<n, p>>] = h]
  BY <1>3, <1>4
<1>10. /\ <<n, p>> \in Link /\ <<n, p>>[1] = n /\ <<n, p>>[2] = p /\ hs'[<<n, p>>] = h
       /\ \A l \in Link : hs'[l] = hs[l] \/ l = <<n, p>>
  BY <1>1, <1>9 DEF TypeOK, Link
<1>11. Claims' \subseteq Claims
  BY <1>5, <1>7, <1>8, <1>10, ClaimsBecome
<1>12. ClaimsUnique'
  BY <1>1, <1>8, <1>11, SMT DEF Agreement, ClaimsUnique
<1>13. OriginsUnique'
  BY <1>1, <1>7, <1>8, SMT DEF Agreement, OriginsUnique
<1>14. Sound'
  <2>1. HandshakeSound(<<n, p>>, hs[<<n, p>>])'
    BY <1>5, <1>7, <1>8, <1>10 DEF HandshakeSound, Origin
  <2>2. \A l \in Link : hs'[l] = hs[l] \/ HandshakeSound(l, hs[l])'
    BY <1>10, <2>1
  <2> QED
    BY <1>8, <2>2, SoundKept DEF Agreement
<1> QED
  BY <1>12, <1>13, <1>14 DEF Agreement

\* CreateMessageResponse generates the ephemeral of a responder.
LEMMA AgreeCreateMessageResponse ==
    ASSUME TableInv, Agreement, NEW n \in Node, NEW w \in Worker,
           CreateMessageResponse(n, w)
    PROVE  Agreement'
<1>1. TypeOK /\ NoSelfPeer /\ eph \in Nat
  BY DEF TableInv, TypeOK
<1>2. PICK p \in Node, g \in Handshakes, i \in Index : CreatesResponse(n, w, p, g, i)
  BY <1>1, CreateResponse
<1>3. /\ p # n
      /\ eph' = eph + 1
      /\ hs' = [hs EXCEPT ![<<n, p>>] = ResponseCreated(g, eph + 1, i)]
      /\ wk' = [wk EXCEPT ![<<n, w>>] =
            Busy("responseCreated", p, ResponseMessage(n, p, g, eph + 1, i))]
      /\ UNCHANGED <<net, derived>>
  BY <1>2 DEF CreatesResponse
<1>4. PICK h : h = ResponseCreated(g, eph + 1, i)
  OBVIOUS
<1>5. PICK m : m = ResponseMessage(n, p, g, eph + 1, i)
  OBVIOUS
<1>6. PICK x : x = Busy("responseCreated", p, m)
  OBVIOUS
<1>7. eph' = eph + 1 /\ UNCHANGED <<net, derived>>
  BY <1>3
<1>8. /\ h.state = "ResponseCreated" /\ h.localIndex = i /\ h.remoteIndex = g.remoteIndex
      /\ h.chainKey = [i |-> g.chainKey.i, r |-> eph + 1]
  <2>1. ResponseCreated(g, eph + 1, i).chainKey = [i |-> g.chainKey.i, r |-> eph + 1]
    BY ResponseCreatedKey
  <2>2. h.state = "ResponseCreated" /\ h.localIndex = i /\ h.remoteIndex = g.remoteIndex
    BY <1>4, ResponseCreatedFields, SMT
  <2> QED
    BY <1>4, <2>1, <2>2
<1>9. m.key.r = eph + 1
  BY <1>5 DEF ResponseMessage
<1>10. m = HandshakeClaim(<<n, p>>, h)
  BY <1>5, <1>8 DEF ResponseMessage, HandshakeClaim
<1>11. x.pc = "responseCreated" /\ x.msg = m
  BY <1>6, BusyParts, SMT
<1>12. <<n, p>> \in Link /\ hs'[<<n, p>>] = h /\ \A l \in Link : hs'[l] = hs[l] \/ l = <<n, p>>
  <2>1. hs' = [hs EXCEPT ![<<n, p>>] = h] /\ p # n
    BY <1>3, <1>4
  <2> QED
    BY <1>1, <2>1 DEF TypeOK, Link
<1>13. wk'[<<n, w>>] = x /\ \A y \in Node \X Worker : wk'[y] = wk[y] \/ y = <<n, w>>
  <2>1. wk' = [wk EXCEPT ![<<n, w>>] = x]
    BY <1>3, <1>5, <1>6
  <2> QED
    BY <1>1, <2>1 DEF TypeOK
<1>14. Claims' \subseteq Claims \cup {m}
  <2>1. \A y \in Node \X Worker :
            wk'[y] = wk[y] \/ ~Responding(wk'[y]) \/ wk'[y].msg \in Claims \cup {m}
    BY <1>11, <1>13
  <2>2. \A l \in Link : \/ hs'[l] = hs[l] \/ hs'[l].state # "ResponseCreated"
                        \/ HandshakeClaim(l, hs'[l]) \in Claims \cup {m}
    BY <1>10, <1>12
  <2> QED
    BY <1>7, <2>1, <2>2, ClaimsBecome
<1>15. ClaimsUnique'
  BY <1>1, <1>7, <1>9, <1>14, SMT DEF Agreement, ClaimsUnique
<1>16. OriginsUnique'
  BY <1>1, <1>7, SMT DEF Agreement, OriginsUnique
<1>17. Sound'
  <2>1. \A l \in Link : hs'[l] = hs[l] \/ HandshakeSound(l, hs[l])'
    BY <1>8, <1>12 DEF HandshakeSound, Initiating
  <2>2. \A y \in Node \X Worker : wk'[y] = wk[y] \/ WorkerSound(y[1], wk[y])'
    BY <1>11, <1>13 DEF WorkerSound
  <2> QED
    BY <1>7, <2>1, <2>2, SoundKept DEF Agreement
<1> QED
  BY <1>15, <1>16, <1>17 DEF Agreement

\* NewKeypair makes a key pair that rests on what the handshake rested on.
LEMMA DerivedSound ==
    ASSUME TableInv, Agreement, NEW n \in Node, NEW p \in Node, n # p,
           CanDerive(hs[<<n, p>>]), NewKeypair(n, p)
    PROVE  /\ hs' = [hs EXCEPT ![<<n, p>>] = Cleared(hs[<<n, p>>])]
           /\ \E d : /\ derived' = derived \cup {d}
                     /\ d.owner = n /\ d.peer = p /\ d.kp = DerivedKeypair(hs[<<n, p>>])
                     /\ \/ d.kp.isInitiator /\ KeypairSound(d)
                        \/ ~d.kp.isInitiator /\ KeypairClaim(d) \in Claims
<1>1. <<n, p>> \in Link
  BY DEF Link
<1>2. PICK h \in Handshakes : h = hs[<<n, p>>]
  BY LinkTypes DEF TableInv, TableOK
<1>3. PICK d : d = [owner |-> n, peer |-> p, kp |-> DerivedKeypair(h)]
  OBVIOUS
<1>4. derived' = derived \cup {d} /\ hs' = [hs EXCEPT ![<<n, p>>] = Cleared(hs[<<n, p>>])]
  BY <1>2, <1>3 DEF NewKeypair
<1>5. d.owner = n /\ d.peer = p /\ d.kp = DerivedKeypair(h)
  BY <1>3
<1>6. /\ d.kp.key = h.chainKey /\ d.kp.isInitiator = (h.state = "ResponseConsumed")
      /\ d.kp.localIndex = h.localIndex /\ d.kp.remoteIndex = h.remoteIndex
  BY <1>5, SMT DEF DerivedKeypair
<1>7. CASE h.state = "ResponseConsumed"
  <2>1. Answer(n, p, h.chainKey, h.remoteIndex) /\ Origin(n, p, h.chainKey.i)
    <3>1. HandshakeSound(<<n, p>>, h) /\ <<n, p>>[1] = n /\ <<n, p>>[2] = p
      BY <1>1, <1>2 DEF Agreement, Sound
    <3> QED
      BY <1>7, <3>1 DEF HandshakeSound, Initiating
  <2>2. KeypairSound(d)
    BY <1>5, <1>6, <2>1 DEF KeypairSound
  <2> QED
    BY <1>2, <1>4, <1>5, <1>6, <1>7, <2>2
<1>8. CASE h.state # "ResponseConsumed"
  <2>1. h.state = "ResponseCreated"
    BY <1>2, <1>8 DEF CanDerive
  <2>2. KeypairClaim(d) = HandshakeClaim(<<n, p>>, h)
    BY <1>5, <1>6 DEF KeypairClaim, HandshakeClaim
  <2>3. KeypairClaim(d) \in Claims
    BY <1>1, <1>2, <2>1, <2>2 DEF Claims
  <2> QED
    BY <1>2, <1>4, <1>5, <1>6, <1>8, <2>3
<1> QED
  BY <1>7, <1>8

\* NewKeypair in a handshake worker, which may then send the response it has created.
LEMMA AgreementDerived ==
    ASSUME TableInv, Agreement, NEW n \in Node, NEW w \in Worker, NEW p \in Node, n # p,
           (CanDerive(hs[<<n, p>>]) /\ NewKeypair(n, p)) \/ UNCHANGED <<hs, derived>>,
           wk' = [wk EXCEPT ![<<n, w>>] = Idle], UNCHANGED eph, net \subseteq net',
           \A m \in net' : m \in net \/ m \in Claims
    PROVE  Agreement'
<1>1. TypeOK /\ TableOK /\ \A m \in Claims : m.type = "response"
  BY ClaimTypes DEF TableInv, TableOK
<1>2. \A y \in Node \X Worker : \/ wk'[y] = wk[y]
                                \/ ~Responding(wk'[y]) /\ WorkerSound(y[1], wk[y])'
  BY <1>1, WorkerBecomes, IdlePoint, SMT DEF Responding, WorkerSound
<1>3. \A l \in Link : \/ hs'[l] = hs[l]
                      \/ hs'[l].state # "ResponseCreated" /\ HandshakeSound(l, hs[l])'
  <2>1. CASE UNCHANGED hs
    BY <2>1
  <2>2. CASE CanDerive(hs[<<n, p>>]) /\ NewKeypair(n, p)
    <3>1. PICK h : h = Cleared(hs[<<n, p>>])
      OBVIOUS
    <3>2. h.state = "Zeroed"
      BY <1>1, <3>1, LinkTypes, ClearedFields
    <3>3. hs' = [hs EXCEPT ![<<n, p>>] = h]
      BY <2>2, <3>1, DerivedSound, SMT
    <3> QED
      BY <1>1, <3>2, <3>3, HandshakeBecomes, SMT DEF HandshakeSound, Initiating
  <2> QED
    BY <2>1, <2>2
<1>4. \A d \in derived' : \/ d \in derived
                          \/ d.kp.isInitiator /\ KeypairSound(d)'
                          \/ ~d.kp.isInitiator /\ KeypairClaim(d) \in Claims
  <2>1. \A d : KeypairSound(d) => KeypairSound(d)'
    BY NetGrows DEF KeypairSound
  <2> QED
    BY <2>1, DerivedSound, SMT
<1> QED
  BY <1>1, <1>2, <1>3, <1>4, AgreementKept

\* RoutineHandshake sends the response of which its own claim is made.
LEMMA AgreeRespondWithKeypair ==
    ASSUME TableInv, Agreement, NEW n \in Node, NEW w \in Worker, RespondWithKeypair(n, w)
    PROVE  Agreement'
<1>1. PICK p \in Node : p = wk[<<n, w>>].peer /\ p # n
  BY WorkerTyped DEF TableInv, RespondWithKeypair
<1>2. wk[<<n, w>>].msg \in Claims
  BY DEF RespondWithKeypair, Claims, Responding
<1>3. /\ (CanDerive(hs[<<n, p>>]) /\ NewKeypair(n, p)) \/ UNCHANGED <<hs, derived>>
      /\ wk' = [wk EXCEPT ![<<n, w>>] = Idle] /\ UNCHANGED eph
      /\ net' = net \cup {wk[<<n, w>>].msg} \/ net' = net
  BY <1>1 DEF RespondWithKeypair
<1> QED
  BY <1>1, <1>2, <1>3, AgreementDerived

\* The initiator's NewKeypair.
LEMMA AgreeCompleteHandshake ==
    ASSUME TableInv, Agreement, NEW n \in Node, NEW w \in Worker, CompleteHandshake(n, w)
    PROVE  Agreement'
<1>1. PICK p \in Node : p = wk[<<n, w>>].peer /\ p # n
  BY WorkerTyped DEF TableInv, CompleteHandshake
<1>2. /\ (CanDerive(hs[<<n, p>>]) /\ NewKeypair(n, p)) \/ UNCHANGED <<hs, derived>>
      /\ wk' = [wk EXCEPT ![<<n, w>>] = Idle] /\ UNCHANGED eph
      /\ net' = net
  BY <1>1 DEF CompleteHandshake
<1> QED
  BY <1>1, <1>2, AgreementDerived

\* ConsumeMessageResponse accepts a response to the initiation the handshake has sent.
LEMMA AgreeConsumeResponseCheck ==
    ASSUME TableInv, Agreement, NEW n \in Node, NEW w \in Worker, NEW m \in net,
           ConsumeResponseCheck(n, w, m)
    PROVE  Agreement'
<1>1. TypeOK /\ NoSelfPeer /\ \A c \in Claims : c.type = "response"
  BY ClaimTypes DEF TableInv
<1>2. /\ m.type = "response" /\ m.to = n
      /\ hs[<<n, m.from>>].state = "InitiationCreated"
      /\ hs[<<n, m.from>>].chainKey = [i |-> m.key.i, r |-> 0]
      /\ wk' = [wk EXCEPT ![<<n, w>>] = Busy("responseChecked", m.from, m)]
      /\ UNCHANGED <<eph, hs, derived, net>>
  BY DEF ConsumeResponseCheck
<1>3. m.from \in Node /\ m.from # n
  <2>1. m \in Response
    BY <1>1, <1>2 DEF TypeOK, Initiation, Response, Transport
  <2> QED
    BY <1>1, <1>2, <2>1 DEF NoSelfPeer, Response
<1>4. Origin(n, m.from, m.key.i)
  <2>1. <<n, m.from>> \in Link
    BY <1>3 DEF Link
  <2>2. HandshakeSound(<<n, m.from>>, hs[<<n, m.from>>])
    BY <2>1 DEF Agreement, Sound
  <2>3. hs[<<n, m.from>>].chainKey.i = m.key.i
    BY <1>2, SMT
  <2> QED
    BY <1>2, <2>2, <2>3 DEF HandshakeSound, Initiating
<1>5. Answer(n, m.from, m.key, m.sender)
  BY <1>2 DEF Answer
<1>6. PICK x : x = Busy("responseChecked", m.from, m)
  OBVIOUS
<1>7. x.pc = "responseChecked" /\ x.peer = m.from /\ x.msg = m
  BY <1>6, BusyParts, SMT
<1>8. \A y \in Node \X Worker : \/ wk'[y] = wk[y]
                                \/ ~Responding(wk'[y]) /\ WorkerSound(y[1], wk[y])'
  <2>1. Answer(n, m.from, m.key, m.sender)' /\ Origin(n, m.from, m.key.i)'
    BY <1>2, <1>4, <1>5, NetGrows
  <2>2. wk'[<<n, w>>] = x /\ <<n, w>>[1] = n /\ \A y \in Node \X Worker : wk'[y] = wk[y] \/ y = <<n, w>>
    BY <1>1, <1>2, <1>6 DEF TypeOK
  <2>3. ~Responding(wk'[<<n, w>>]) /\ WorkerSound(<<n, w>>[1], wk[<<n, w>>])'
    BY <1>7, <2>1, <2>2 DEF Responding, WorkerSound
  <2> QED
    BY <2>2, <2>3
<1> QED
  BY <1>1, <1>2, <1>8, AgreementKept

\* ConsumeMessageResponse's update: the handshake rests on the response it has accepted.
LEMMA AgreeConsumeResponseUpdate ==
    ASSUME TableInv, Agreement, NEW n \in Node, NEW w \in Worker,
           ConsumeResponseUpdate(n, w)
    PROVE  Agreement'
<1>1. TypeOK /\ NoSelfPeer /\ TableOK /\ \A c \in Claims : c.type = "response"
  BY ClaimTypes DEF TableInv, TableOK
<1>2. PICK p \in Node, m \in Response : p = wk[<<n, w>>].peer /\ p # n /\ m = wk[<<n, w>>].msg
  BY <1>1, WorkerTyped DEF ConsumeResponseUpdate
<1>3. /\ wk[<<n, w>>].pc = "responseChecked"
      /\ hs' = [hs EXCEPT ![<<n, p>>] = ResponseConsumed(hs[<<n, p>>], m)]
      /\ wk' = [wk EXCEPT ![<<n, w>>] = Busy("responseConsumed", p, m)]
      /\ UNCHANGED <<eph, derived, net>>
  BY <1>2 DEF ConsumeResponseUpdate
<1>4. Answer(n, p, m.key, m.sender)' /\ Origin(n, p, m.key.i)'
  <2>1. <<n, w>> \in Node \X Worker /\ <<n, w>>[1] = n
    OBVIOUS
  <2>2. WorkerSound(n, wk[<<n, w>>])
    BY <2>1 DEF Agreement, Sound
  <2> QED
    BY <1>2, <1>3, <2>2, NetGrows DEF WorkerSound
<1>5. PICK h : h = ResponseConsumed(hs[<<n, p>>], m)
  OBVIOUS
<1>6. h.state = "ResponseConsumed" /\ h.chainKey = m.key /\ h.remoteIndex = m.sender
  BY <1>1, <1>2, <1>5, LinkTypes, ResponseConsumedFields, SMT
<1>7. \A l \in Link : \/ hs'[l] = hs[l]
                      \/ hs'[l].state # "ResponseCreated" /\ HandshakeSound(l, hs[l])'
  <2>1. /\ hs'[<<n, p>>] = h /\ <<n, p>>[1] = n /\ <<n, p>>[2] = p
        /\ \A l \in Link : hs'[l] = hs[l] \/ l = <<n, p>>
    BY <1>1, <1>2, <1>3, <1>5 DEF TypeOK, Link
  <2>2. hs'[<<n, p>>].state # "ResponseCreated" /\ HandshakeSound(<<n, p>>, hs[<<n, p>>])'
    BY <1>4, <1>6, <2>1 DEF HandshakeSound
  <2> QED
    BY <2>1, <2>2
<1>8. PICK x : x = Busy("responseConsumed", p, m)
  OBVIOUS
<1>9. x.pc = "responseConsumed"
  BY <1>8, BusyParts, SMT
<1>10. \A y \in Node \X Worker : \/ wk'[y] = wk[y]
                                 \/ ~Responding(wk'[y]) /\ WorkerSound(y[1], wk[y])'
  BY <1>1, <1>3, <1>8, <1>9, WorkerBecomes, SMT DEF Responding, WorkerSound
<1> QED
  BY <1>1, <1>3, <1>7, <1>10, AgreementKept

\* ConsumeMessageInitiation's update: whatever the handshake was, it is a responder's now.
LEMMA AgreeConsumeInitiationUpdate ==
    ASSUME TableInv, Agreement, NEW n \in Node, NEW w \in Worker,
           ConsumeInitiationUpdate(n, w)
    PROVE  Agreement'
<1>1. TypeOK /\ NoSelfPeer /\ TableOK /\ \A c \in Claims : c.type = "response"
  BY ClaimTypes DEF TableInv, TableOK
<1>2. PICK p \in Node, m \in Initiation : p = wk[<<n, w>>].peer /\ p # n /\ m = wk[<<n, w>>].msg
  BY <1>1, WorkerTyped DEF ConsumeInitiationUpdate
<1>3. /\ hs' = [hs EXCEPT ![<<n, p>>] = InitiationConsumed(hs[<<n, p>>], m)]
      /\ wk' = [wk EXCEPT ![<<n, w>>] = Busy("initiationConsumed", p, m)]
      /\ UNCHANGED <<eph, derived, net>>
  BY <1>2 DEF ConsumeInitiationUpdate
<1>4. PICK h : h = InitiationConsumed(hs[<<n, p>>], m)
  OBVIOUS
<1>5. h.state = "InitiationConsumed"
  BY <1>1, <1>2, <1>4, LinkTypes, InitiationConsumedFields, SMT
<1>6. \A l \in Link : \/ hs'[l] = hs[l]
                      \/ hs'[l].state # "ResponseCreated" /\ HandshakeSound(l, hs[l])'
  BY <1>1, <1>2, <1>3, <1>4, <1>5, HandshakeBecomes, SMT DEF HandshakeSound, Initiating
<1>7. PICK x : x = Busy("initiationConsumed", p, m)
  OBVIOUS
<1>8. x.pc = "initiationConsumed"
  BY <1>7, BusyParts, SMT
<1>9. \A y \in Node \X Worker : \/ wk'[y] = wk[y]
                                \/ ~Responding(wk'[y]) /\ WorkerSound(y[1], wk[y])'
  BY <1>1, <1>3, <1>7, <1>8, WorkerBecomes, SMT DEF Responding, WorkerSound
<1> QED
  BY <1>1, <1>3, <1>6, <1>9, AgreementKept

\* The steps of a peer.
LEMMA AgreePeerStep ==
    ASSUME TableInv, Agreement, NEW n \in Node, NEW p \in Node, n # p, PeerStep(n, p)
    PROVE  Agreement'
<1>1. CASE SendHandshakeInitiation(n, p)
  BY <1>1, AgreeSendHandshakeInitiation
<1>2. CASE SendTransport(n, p)
  <2>1. TransportMessage(p, kps[<<n, p>>].current).type = "transport"
    BY DEF TransportMessage
  <2>2. /\ net' = net \cup {TransportMessage(p, kps[<<n, p>>].current)}
        /\ UNCHANGED <<eph, hs, wk, derived>>
    BY <1>2 DEF SendTransport
  <2> QED
    BY <2>1, <2>2, AgreementUnmoved
<1>3. CASE SequentialReceiver(n, p) \/ StopKeypairs(n, p) \/ Start(n, p)
  <2>1. UNCHANGED <<eph, hs, wk, derived, net>>
    BY <1>3 DEF SequentialReceiver, StopKeypairs, Start
  <2> QED
    BY <2>1, AgreementUnmoved
<1>4. CASE ExpiredZeroKeyMaterial(n, p) \/ StopHandshake(n, p)
  <2>1. /\ hs' = [hs EXCEPT ![<<n, p>>] = Cleared(hs[<<n, p>>])]
        /\ UNCHANGED <<eph, wk, derived, net>>
    BY <1>4 DEF ExpiredZeroKeyMaterial, StopHandshake
  <2> QED
    BY <2>1, AgreementCleared
<1> QED
  BY <1>1, <1>2, <1>3, <1>4 DEF PeerStep

\* The steps of a handshake worker.
LEMMA AgreeWorkerStep ==
    ASSUME TableInv, Agreement, NEW n \in Node, NEW w \in Worker, WorkerStep(n, w)
    PROVE  Agreement'
<1>1. ASSUME NEW m \in net, ConsumeInitiationCheck(n, w, m)
      PROVE  Agreement'
  <2>1. PICK x : x = Busy("initiationChecked", m.from, m)
    OBVIOUS
  <2>2. x.pc = "initiationChecked"
    BY <2>1, BusyParts, SMT
  <2>3. wk' = [wk EXCEPT ![<<n, w>>] = x] /\ UNCHANGED <<eph, hs, derived, net>>
    BY <1>1, <2>1 DEF ConsumeInitiationCheck
  <2> QED
    BY <2>2, <2>3, AgreementWorker
<1>2. CASE ResponseFails(n, w)
  <2>1. wk' = [wk EXCEPT ![<<n, w>>] = Idle] /\ UNCHANGED <<eph, hs, derived, net>>
    BY <1>2 DEF ResponseFails
  <2>2. Idle.pc = "idle"
    BY IdlePoint
  <2> QED
    BY <2>1, <2>2, AgreementWorker
<1> QED
  BY <1>1, <1>2, AgreeConsumeInitiationUpdate, AgreeCreateMessageResponse,
     AgreeRespondWithKeypair, AgreeConsumeResponseCheck, AgreeConsumeResponseUpdate,
     AgreeCompleteHandshake DEF WorkerStep

\* Nothing has been claimed at first.
LEMMA InitAgreement == Init => Agreement
<1> SUFFICES ASSUME Init PROVE Agreement
  OBVIOUS
<1>1. net = {} /\ derived = {} /\ \A l \in Link : hs[l].state = "Zeroed"
  BY DEF Init
<1>2. \A x \in Node \X Worker : wk[x].pc = "idle"
  BY IdlePoint DEF Init
<1>3. Claims = {}
  BY <1>1, <1>2 DEF Claims, Responding
<1>4. Sound
  BY <1>1, <1>2 DEF Sound, HandshakeSound, WorkerSound, Initiating
<1> QED
  BY <1>1, <1>3, <1>4 DEF Agreement, ClaimsUnique, OriginsUnique

\* Every step of the system keeps the agreement.
LEMMA StepAgreement == TableInv /\ Agreement /\ [Next]_vars => Agreement'
<1> SUFFICES ASSUME TableInv, Agreement, [Next]_vars
             PROVE  Agreement'
  OBVIOUS
<1>1. CASE UNCHANGED vars
  <2>1. UNCHANGED <<eph, hs, wk, derived, net>>
    BY <1>1 DEF vars
  <2> QED
    BY <2>1, AgreementUnmoved
<1>2. ASSUME NEW l \in Link, PeerStep(l[1], l[2])
      PROVE  Agreement'
  BY <1>2, AgreePeerStep DEF Link
<1>3. ASSUME NEW n \in Node, NEW m \in net, ReceiveTransport(n, m)
      PROVE  Agreement'
  <2>1. UNCHANGED <<eph, hs, wk, derived, net>>
    BY <1>3 DEF ReceiveTransport
  <2> QED
    BY <2>1, AgreementUnmoved
<1> QED
  BY <1>1, <1>2, <1>3, AgreeWorkerStep DEF Next

\* What a responder claims is unique, and every initiator rests on such a claim.
THEOREM Agreed == Spec => []Agreement
<1>1. Init => Agreement
  BY InitAgreement
<1>2. TableInv /\ Agreement /\ [Next]_vars => Agreement'
  BY StepAgreement
<1> QED
  BY <1>1, <1>2, TableCorrect, PTL DEF Spec

\* An initiator and a responder with the same key.
LEMMA SameKey ==
    ASSUME TypeOK, Agreement, NEW d \in derived, NEW c \in derived,
           d.kp.isInitiator, ~c.kp.isInitiator, d.kp.key = c.kp.key
    PROVE  d.owner = c.peer /\ d.peer = c.owner /\ d.kp.remoteIndex = c.kp.localIndex
<1>1. PICK m \in net : /\ m.type = "response" /\ m.from = d.peer /\ m.to = d.owner
                       /\ m.key = d.kp.key /\ m.sender = d.kp.remoteIndex
  BY DEF Agreement, Sound, KeypairSound, Answer
<1>2. PICK k : k = KeypairClaim(c)
  OBVIOUS
<1>3. /\ k.from = c.owner /\ k.to = c.peer /\ k.sender = c.kp.localIndex
      /\ k.key = c.kp.key
  BY <1>2 DEF KeypairClaim
<1>4. m \in Claims /\ k \in Claims
  BY <1>1, <1>2 DEF Claims
<1>5. m = k
  BY <1>1, <1>3, <1>4 DEF Agreement, ClaimsUnique
<1> QED
  BY <1>1, <1>3, <1>5

\* The ends of a session agree on each other, and the initiator knows the responder's index.
THEOREM IndicesAgree == Spec => []SendIndexAgreed
<1>1. TableInv /\ Agreement => SendIndexAgreed
  BY SameKey DEF TableInv, SendIndexAgreed
<1> QED
  BY <1>1, TableCorrect, Agreed, PTL

-----------------------------------------------------------------------------
(* Confirmation.                                                           *)

Known(n, p, k) == [owner |-> n, peer |-> p, kp |-> k] \in derived

\* The other end has derived the key too.
Confirmed(n, p, k) ==
    k.isInitiator \/ \E d \in derived : /\ d.owner = p /\ d.peer = n
                                        /\ d.kp.isInitiator /\ d.kp.key = k.key

\* An initiator has derived the key of the transport message m.
Founded(m) == \E d \in derived : d.kp.isInitiator /\ d.kp.key = m.key

EntryKnown(n, e) == e # Nil /\ e.keyPair # Nil => Known(n, e.peer, e.keyPair)

\* Key pairs are looked up, captured and used only after they were derived; a transport
\* message is made with a key that the initiator has; a key pair is captured with a message
\* of the inbound queue only if the other end has it as well.
Confirmation ==
    /\ \A l \in Link : \A k \in Stored(kps[l]) : Known(l[1], l[2], k)
    /\ \A l \in Link : kps[l].current # Nil => Confirmed(l[1], l[2], kps[l].current)
    /\ \A l \in Link : \A k \in inbound[l] : Confirmed(l[1], l[2], k)
    /\ \A n \in Node : \A i \in Index0 : EntryKnown(n, table[n][i])
    /\ \A m \in net : m.type = "transport" => Founded(m)

\* Key pairs are not forgotten by the history.
LEMMA DerivedGrows ==
    ASSUME derived \subseteq derived'
    PROVE  /\ \A n, p, k : Known(n, p, k) => Known(n, p, k)'
           /\ \A n, p, k : Confirmed(n, p, k) => Confirmed(n, p, k)'
           /\ \A m : Founded(m) => Founded(m)'
           /\ \A n, e : EntryKnown(n, e) => EntryKnown(n, e)'
<1>1. \A n, p, k : Known(n, p, k) => Known(n, p, k)'
  BY DEF Known
<1>2. \A n, p, k : Confirmed(n, p, k) => Confirmed(n, p, k)'
  BY DEF Confirmed
<1>3. \A m : Founded(m) => Founded(m)'
  BY DEF Founded
<1>4. \A n, e : EntryKnown(n, e) => EntryKnown(n, e)'
  BY <1>1 DEF EntryKnown
<1> QED
  BY <1>1, <1>2, <1>3, <1>4

\* What a step has to answer for.
LEMMA ConfirmationKept ==
    ASSUME Confirmation, derived \subseteq derived',
           \A l \in Link : \A k \in Stored(kps'[l]) :
              k \in Stored(kps[l]) \/ Known(l[1], l[2], k)',
           \A l \in Link : \/ kps'[l].current \in {Nil, kps[l].current}
                           \/ Confirmed(l[1], l[2], kps[l].current)',
           \A l \in Link : \A k \in inbound'[l] :
              k \in inbound[l] \/ Confirmed(l[1], l[2], k)',
           \A n \in Node : \A i \in Index0 :
              table'[n][i] \in {Nil, table[n][i]} \/ EntryKnown(n, table[n][i])',
           \A m \in net' : m \in net \/ m.type # "transport" \/ Founded(m)'
    PROVE  Confirmation'
<1>1. ASSUME NEW l \in Link, NEW k \in Stored(kps'[l])
      PROVE  Known(l[1], l[2], k)'
  BY DerivedGrows DEF Confirmation
<1>2. ASSUME NEW l \in Link, kps'[l].current # Nil
      PROVE  Confirmed(l[1], l[2], kps[l].current)'
  <2>1. CASE kps'[l].current = kps[l].current
    <3>1. PICK k : k = kps[l].current
      OBVIOUS
    <3>2. Confirmed(l[1], l[2], k)
      BY <1>2, <2>1, <3>1 DEF Confirmation
    <3>3. Confirmed(l[1], l[2], k)'
      BY <3>2, DerivedGrows
    <3> QED
      BY <2>1, <3>1, <3>3 DEF Confirmed
  <2> QED
    BY <1>2, <2>1
<1>3. ASSUME NEW l \in Link, NEW k \in inbound'[l]
      PROVE  Confirmed(l[1], l[2], k)'
  BY DerivedGrows DEF Confirmation
<1>4. ASSUME NEW n \in Node, NEW i \in Index0
      PROVE  EntryKnown(n, table[n][i])'
  <2>1. CASE table'[n][i] = Nil
    BY <2>1 DEF EntryKnown
  <2>2. CASE table'[n][i] = table[n][i]
    <3>1. PICK e : e = table[n][i]
      OBVIOUS
    <3>2. EntryKnown(n, e)'
      BY <3>1, DerivedGrows DEF Confirmation
    <3> QED
      BY <2>2, <3>1, <3>2 DEF EntryKnown, Known
  <2> QED
    BY <2>1, <2>2
<1>5. ASSUME NEW m \in net', m.type = "transport"
      PROVE  Founded(m)'
  BY <1>5, DerivedGrows DEF Confirmation
<1> QED
  BY <1>1, <1>2, <1>3, <1>4, <1>5 DEF Confirmation

\* Entries are only removed on the way from tab to new.
Shrinks(tab, new) == \A i \in Index0 : new[i] \in {Nil, tab[i]}

\* Removing one index, or a key pair.
LEMMA ShrinkDelete ==
    ASSUME NEW tab \in Table
    PROVE  /\ \A i \in Index0 : /\ IndexDelete(tab, i) \in Table
                                /\ Shrinks(tab, IndexDelete(tab, i))
           /\ \A k \in Keypair \cup {Nil} : /\ DeleteKeypair(tab, k) \in Table
                                            /\ Shrinks(tab, DeleteKeypair(tab, k))
<1>1. ASSUME NEW i \in Index0
      PROVE  IndexDelete(tab, i) \in Table /\ Shrinks(tab, IndexDelete(tab, i))
  <2>1. IndexDelete(tab, i) \in Table
    BY IndexDeleteType
  <2> QED
    BY <2>1 DEF IndexDelete, Shrinks, Table
<1>2. ASSUME NEW k \in Keypair \cup {Nil}
      PROVE  DeleteKeypair(tab, k) \in Table /\ Shrinks(tab, DeleteKeypair(tab, k))
  <2>1. CASE k = Nil
    BY <2>1 DEF DeleteKeypair, Shrinks
  <2>2. CASE k # Nil
    <3>1. k.localIndex \in Index0
      BY <2>2 DEF Keypair
    <3> QED
      BY <1>1, <2>2, <3>1 DEF DeleteKeypair
  <2> QED
    BY <2>1, <2>2
<1> QED
  BY <1>1, <1>2

\* Removing in two steps.
LEMMA ShrinkTwice ==
    ASSUME NEW tab, NEW mid, NEW new, Shrinks(tab, mid), Shrinks(mid, new)
    PROVE  Shrinks(tab, new)
BY DEF Shrinks

\* Clearing and promoting only remove entries.
LEMMA ShrinkSlots ==
    ASSUME NEW tab \in Table, NEW s \in Slots
    PROVE  /\ DeleteSlots(tab, s) \in Table /\ Shrinks(tab, DeleteSlots(tab, s))
           /\ Shrinks(tab, RetireConfirmed(tab, s))
<1>1. /\ s.previous \in Keypair \cup {Nil} /\ s.current \in Keypair \cup {Nil}
      /\ s.next \in Keypair \cup {Nil}
  BY DEF Slots
<1>2. DeleteSlots(tab, s) \in Table /\ Shrinks(tab, DeleteSlots(tab, s))
  BY <1>1, ShrinkDelete, ShrinkTwice DEF DeleteSlots
<1> QED
  BY <1>1, <1>2, ShrinkDelete DEF RetireConfirmed

\* So does the rotation of a new key pair, once its own entry is there.
LEMMA ShrinkNew ==
    ASSUME NEW tab \in Table, NEW s \in Slots, NEW k \in Keypair
    PROVE  Shrinks(tab, RetireNew(tab, s, k))
<1>1. /\ s.previous \in Keypair \cup {Nil} /\ s.current \in Keypair \cup {Nil}
      /\ s.next \in Keypair \cup {Nil}
  BY DEF Slots
<1> QED
  BY <1>1, ShrinkDelete, ShrinkTwice DEF RetireNew

\* The tables after the one of device n has become new.
LEMMA TableBecomes ==
    ASSUME TypeOK, NEW n \in Node, NEW new, table' = [table EXCEPT ![n] = new]
    PROVE  table'[n] = new /\ \A m \in Node : m # n => table'[m] = table[m]
BY DEF TypeOK

\* The slots after those of peer <<n, p>> have become s.
LEMMA SlotsBecome ==
    ASSUME TypeOK, NEW n \in Node, NEW p \in Node, n # p, NEW s,
           kps' = [kps EXCEPT ![<<n, p>>] = s]
    PROVE  kps'[<<n, p>>] = s /\ \A l \in Link : kps'[l] = kps[l] \/ l = <<n, p>>
BY DEF TypeOK, Link

\* What rotation stores.
LEMMA RotationStores ==
    ASSUME NEW s, NEW k
    PROVE  /\ Stored(RotateNew(s, k)) \subseteq Stored(s) \cup {k}
           /\ RotateNew(s, k).current = IF k.isInitiator THEN k ELSE s.current
           /\ Stored(RotateConfirmed(s)) \subseteq Stored(s)
           /\ RotateConfirmed(s).current = s.next
           /\ Stored(NoSlots) = {} /\ NoSlots.current = Nil
<1>1. CASE k.isInitiator
  BY <1>1 DEF RotateNew, RotateConfirmed, NoSlots, Stored
<1>2. CASE ~k.isInitiator
  BY <1>2 DEF RotateNew, RotateConfirmed, NoSlots, Stored
<1> QED
  BY <1>1, <1>2

\* A step that moves no key pair and sends no transport message.
LEMMA ConfirmationUnmoved ==
    ASSUME Confirmation, UNCHANGED <<kps, table, inbound, derived>>,
           \A m \in net' : m \in net \/ m.type # "transport"
    PROVE  Confirmation'
<1>1. \A l \in Link : kps'[l].current \in {Nil, kps[l].current}
  OBVIOUS
<1>2. \A n \in Node : \A i \in Index0 : table'[n][i] \in {Nil, table[n][i]}
  OBVIOUS
<1> QED
  BY <1>1, <1>2, ConfirmationKept

\* CreateMessageInitiation and CreateMessageResponse enter the handshake under a new index.
LEMMA ConfirmationNewIndex ==
    ASSUME TableInv, Confirmation, NEW n \in Node, NEW p \in Node, n # p,
           NEW i \in Index,
           table' = [table EXCEPT ![n] = IndexInsert(IndexDelete(table[n], hs[<<n, p>>].localIndex),
                                                     i, HandshakeEntry(p))],
           UNCHANGED <<kps, inbound, derived>>,
           \A m \in net' : m \in net \/ m.type # "transport"
    PROVE  Confirmation'
<1>1. TypeOK /\ table[n] \in Table /\ hs[<<n, p>>].localIndex \in Index0
  BY LinkTypes DEF TableInv, TableOK
<1>2. PICK tab \in Table : tab = IndexDelete(table[n], hs[<<n, p>>].localIndex)
                           /\ Shrinks(table[n], tab)
  BY <1>1, ShrinkDelete
<1>3. PICK new : new = IndexInsert(tab, i, HandshakeEntry(p))
  OBVIOUS
<1>4. \A j \in Index0 : new[j] = IF j = i THEN HandshakeEntry(p) ELSE tab[j]
  BY <1>2, <1>3 DEF IndexInsert, Table, Index0
<1>5. HandshakeEntry(p).keyPair = Nil
  BY DEF HandshakeEntry
<1>6. table'[n] = new /\ \A m \in Node : m # n => table'[m] = table[m]
  BY <1>1, <1>2, <1>3, TableBecomes
<1>7. ASSUME NEW m \in Node, NEW j \in Index0
      PROVE  table'[m][j] \in {Nil, table[m][j]} \/ EntryKnown(m, table[m][j])'
  <2>1. CASE m # n
    BY <1>6, <2>1
  <2>2. CASE m = n /\ j # i
    BY <1>2, <1>4, <1>6, <2>2 DEF Shrinks
  <2>3. CASE m = n /\ j = i
    BY <1>4, <1>5, <1>6, <2>3 DEF EntryKnown
  <2> QED
    BY <2>1, <2>2, <2>3
<1>8. \A l \in Link : kps'[l].current \in {Nil, kps[l].current}
  OBVIOUS
<1> QED
  BY <1>7, <1>8, ConfirmationKept

\* Peer <<n, p>> gives up entries, and perhaps all of its key pairs.
LEMMA ConfirmationRemoved ==
    ASSUME TableInv, Confirmation, NEW n \in Node, NEW p \in Node, n # p,
           NEW new, Shrinks(table[n], new), table' = [table EXCEPT ![n] = new],
           UNCHANGED kps \/ kps' = [kps EXCEPT ![<<n, p>>] = NoSlots],
           \A l \in Link : inbound'[l] \subseteq inbound[l],
           UNCHANGED <<derived, net>>
    PROVE  Confirmation'
<1>1. TypeOK
  BY DEF TableInv
<1>2. ASSUME NEW m \in Node, NEW j \in Index0
      PROVE  table'[m][j] \in {Nil, table[m][j]}
  BY <1>1, TableBecomes, SMT DEF Shrinks
<1>3. ASSUME NEW l \in Link
      PROVE  /\ Stored(kps'[l]) \subseteq Stored(kps[l])
             /\ kps'[l].current \in {Nil, kps[l].current}
  <2>1. CASE UNCHANGED kps
    BY <2>1
  <2>2. CASE kps' = [kps EXCEPT ![<<n, p>>] = NoSlots]
    <3>1. kps'[l] = kps[l] \/ kps'[l] = NoSlots
      BY <1>1, <2>2, SlotsBecome
    <3> QED
      BY <3>1, RotationStores
  <2> QED
    BY <2>1, <2>2
<1> QED
  BY <1>2, <1>3, ConfirmationKept

\* NewKeypair: the responder's key pair does not become current.
LEMMA ConfirmationDerived ==
    ASSUME TableInv, Confirmation, NEW n \in Node, NEW p \in Node, n # p, NewKeypair(n, p),
           UNCHANGED inbound, \A m \in net' : m \in net \/ m.type # "transport"
    PROVE  Confirmation'
<1>1. /\ TypeOK /\ table[n] \in Table /\ kps[<<n, p>>] \in Slots
      /\ hs[<<n, p>>] \in Handshakes /\ hs[<<n, p>>].localIndex \in Index0
  BY LinkTypes DEF TableInv, TableOK
<1>2. PICK k \in Keypair : k = DerivedKeypair(hs[<<n, p>>])
  BY <1>1, DerivedType
<1>3. PICK s \in Slots : s = kps[<<n, p>>]
  BY <1>1
<1>4. PICK ins : ins = IndexInsert(table[n], hs[<<n, p>>].localIndex, KeypairEntry(p, k))
  OBVIOUS
<1>5. /\ table' = [table EXCEPT ![n] = RetireNew(ins, s, k)]
      /\ kps' = [kps EXCEPT ![<<n, p>>] = RotateNew(s, k)]
      /\ derived' = derived \cup {[owner |-> n, peer |-> p, kp |-> k]}
  BY <1>2, <1>3, <1>4 DEF NewKeypair
<1>6. Known(n, p, k)'
  BY <1>5 DEF Known
<1>7. ins \in Table /\ \A j \in Index0 : ins[j] \in {table[n][j], KeypairEntry(p, k)}
  BY <1>1, <1>4 DEF IndexInsert, Table, KeypairEntry, Entry
<1>8. Shrinks(ins, RetireNew(ins, s, k))
  BY <1>7, ShrinkNew
<1>9. ASSUME NEW m \in Node, NEW j \in Index0
      PROVE  table'[m][j] \in {Nil, table[m][j]} \/ EntryKnown(m, table[m][j])'
  <2>1. table'[n] = RetireNew(ins, s, k) /\ (m # n => table'[m] = table[m])
    BY <1>1, <1>5, TableBecomes
  <2>2. CASE m # n
    BY <2>1, <2>2
  <2>3. CASE m = n
    <3>1. table'[n][j] \in {Nil, table[n][j], KeypairEntry(p, k)}
      BY <1>7, <1>8, <2>1 DEF Shrinks
    <3>2. KeypairEntry(p, k).peer = p /\ KeypairEntry(p, k).keyPair = k
      BY DEF KeypairEntry
    <3>3. CASE table'[n][j] = KeypairEntry(p, k)
      BY <1>6, <2>3, <3>2, <3>3 DEF EntryKnown, Known
    <3> QED
      BY <2>3, <3>1, <3>3
  <2> QED
    BY <2>2, <2>3
<1>10. kps'[<<n, p>>] = RotateNew(s, k) /\ \A l \in Link : kps'[l] = kps[l] \/ l = <<n, p>>
  BY <1>1, <1>5, SlotsBecome
<1>11. /\ Stored(RotateNew(s, k)) \subseteq Stored(s) \cup {k}
       /\ RotateNew(s, k).current = IF k.isInitiator THEN k ELSE s.current
  BY RotationStores
<1>12. ASSUME NEW l \in Link, NEW c \in Stored(kps'[l])
       PROVE  c \in Stored(kps[l]) \/ Known(l[1], l[2], c)'
  <2>1. CASE l = <<n, p>>
    BY <1>3, <1>6, <1>10, <1>11, <1>12, <2>1
  <2> QED
    BY <1>10, <2>1
<1>13. ASSUME NEW l \in Link
       PROVE  \/ kps'[l].current \in {Nil, kps[l].current}
              \/ Confirmed(l[1], l[2], kps[l].current)'
  <2>1. CASE l = <<n, p>>
    BY <1>3, <1>10, <1>11, <2>1 DEF Confirmed
  <2> QED
    BY <1>10, <2>1
<1> QED
  BY <1>5, <1>9, <1>12, <1>13, ConfirmationKept

\* The nonce routine encrypts under a key the initiator has.
LEMMA ConfirmSendTransport ==
    ASSUME TableInv, Confirmation, NEW n \in Node, NEW p \in Node, n # p, SendTransport(n, p)
    PROVE  Confirmation'
<1>1. <<n, p>> \in Link /\ <<n, p>>[1] = n /\ <<n, p>>[2] = p
  BY DEF Link
<1>2. PICK k : k = kps[<<n, p>>].current /\ k # Nil
  BY DEF SendTransport
<1>3. PICK m : m = TransportMessage(p, k)
  OBVIOUS
<1>4. m.key = k.key
  BY <1>3 DEF TransportMessage
<1>5. net' = net \cup {m} /\ UNCHANGED <<kps, table, inbound, derived>>
  BY <1>2, <1>3 DEF SendTransport
<1>6. Known(n, p, k) /\ Confirmed(n, p, k)
  <2>1. k \in Stored(kps[<<n, p>>])
    BY <1>2 DEF Stored
  <2> QED
    BY <1>1, <1>2, <2>1 DEF Confirmation
<1>7. Founded(m)
  <2>1. CASE k.isInitiator
    <3>1. PICK d \in derived : d = [owner |-> n, peer |-> p, kp |-> k]
      BY <1>6 DEF Known
    <3> QED
      BY <1>4, <2>1, <3>1 DEF Founded
  <2>2. CASE ~k.isInitiator
    BY <1>4, <1>6, <2>2 DEF Founded, Confirmed
  <2> QED
    BY <2>1, <2>2
<1>8. Founded(m)'
  BY <1>5, <1>7, DerivedGrows
<1>9. /\ \A l \in Link : kps'[l].current \in {Nil, kps[l].current}
      /\ \A q \in Node : \A i \in Index0 : table'[q][i] \in {Nil, table[q][i]}
  BY <1>5
<1> QED
  BY <1>5, <1>8, <1>9, ConfirmationKept

\* A message that opens confirms the key pair it is looked up for.
LEMMA ConfirmReceiveTransport ==
    ASSUME TableInv, Agreement, Confirmation, NEW n \in Node, NEW m \in net,
           ReceiveTransport(n, m)
    PROVE  Confirmation'
<1>1. TypeOK /\ m.type = "transport" /\ m.receiver \in Index0
  <2>1. TypeOK /\ m.type = "transport"
    BY DEF TableInv, ReceiveTransport
  <2> QED
    BY <2>1 DEF TypeOK, Initiation, Response, Transport
<1>2. PICK e : e = table[n][m.receiver]
  OBVIOUS
<1>3. /\ e # Nil /\ e.keyPair # Nil /\ e.keyPair.key = m.key
      /\ inbound' = [inbound EXCEPT ![<<n, e.peer>>] = inbound[<<n, e.peer>>] \cup {e.keyPair}]
      /\ UNCHANGED <<kps, table, derived, net>>
  BY <1>2 DEF ReceiveTransport
<1>4. PICK c \in derived : c = [owner |-> n, peer |-> e.peer, kp |-> e.keyPair]
  <2>1. EntryKnown(n, e)
    BY <1>1, <1>2 DEF Confirmation
  <2> QED
    BY <1>3, <2>1 DEF EntryKnown, Known
<1>5. PICK d \in derived : d.kp.isInitiator /\ d.kp.key = m.key
  BY <1>1 DEF Confirmation, Founded
<1>6. c.owner = n /\ c.peer = e.peer /\ c.kp = e.keyPair
  BY <1>4
<1>7. Confirmed(n, e.peer, e.keyPair)
  <2>1. CASE ~e.keyPair.isInitiator
    <3>1. d.owner = e.peer /\ d.peer = n
      BY <1>1, <1>3, <1>5, <1>6, <2>1, SameKey, SMT
    <3> QED
      BY <1>3, <1>5, <3>1 DEF Confirmed
  <2> QED
    BY <2>1 DEF Confirmed
<1>8. Confirmed(n, e.peer, e.keyPair)'
  BY <1>3, <1>7, DerivedGrows
<1>9. ASSUME NEW l \in Link, NEW k \in inbound'[l]
      PROVE  k \in inbound[l] \/ Confirmed(l[1], l[2], k)'
  <2>1. CASE l = <<n, e.peer>>
    <3>1. k \in inbound[l] \/ k = e.keyPair
      BY <1>1, <1>3, <2>1 DEF TypeOK
    <3> QED
      BY <1>8, <2>1, <3>1
  <2>2. CASE l # <<n, e.peer>>
    BY <1>1, <1>3, <2>2 DEF TypeOK
  <2> QED
    BY <2>1, <2>2
<1>10. /\ \A l \in Link : kps'[l].current \in {Nil, kps[l].current}
       /\ \A q \in Node : \A i \in Index0 : table'[q][i] \in {Nil, table[q][i]}
  BY <1>3
<1> QED
  BY <1>3, <1>9, <1>10, ConfirmationKept

\* The sequential receiver promotes a key pair that a message has confirmed.
LEMMA ConfirmSequentialReceiver ==
    ASSUME TableInv, Confirmation, NEW n \in Node, NEW p \in Node, n # p,
           SequentialReceiver(n, p)
    PROVE  Confirmation'
<1>1. /\ TypeOK /\ table[n] \in Table /\ kps[<<n, p>>] \in Slots
      /\ <<n, p>> \in Link /\ <<n, p>>[1] = n /\ <<n, p>>[2] = p
  BY LinkTypes DEF TableInv, TableOK
<1>2. PICK k \in inbound[<<n, p>>] :
        /\ \/ /\ kps[<<n, p>>].next = k
              /\ table' = [table EXCEPT ![n] = RetireConfirmed(table[n], kps[<<n, p>>])]
              /\ kps' = [kps EXCEPT ![<<n, p>>] = RotateConfirmed(kps[<<n, p>>])]
           \/ UNCHANGED <<table, kps>>
        /\ inbound' = [inbound EXCEPT ![<<n, p>>] = inbound[<<n, p>>] \ {k}]
        /\ UNCHANGED <<derived, net>>
  BY DEF SequentialReceiver
<1>3. \A l \in Link : inbound'[l] \subseteq inbound[l]
  BY <1>1, <1>2 DEF TypeOK
<1>4. Confirmed(n, p, k)'
  <2>1. Confirmed(n, p, k)
    BY <1>1 DEF Confirmation
  <2> QED
    BY <1>2, <2>1, DerivedGrows
<1>5. CASE UNCHANGED <<table, kps>>
  <2>1. /\ \A l \in Link : kps'[l].current \in {Nil, kps[l].current}
        /\ \A q \in Node : \A i \in Index0 : table'[q][i] \in {Nil, table[q][i]}
    BY <1>5
  <2> QED
    BY <1>2, <1>3, <1>5, <2>1, ConfirmationKept
<1>6. CASE /\ kps[<<n, p>>].next = k
           /\ table' = [table EXCEPT ![n] = RetireConfirmed(table[n], kps[<<n, p>>])]
           /\ kps' = [kps EXCEPT ![<<n, p>>] = RotateConfirmed(kps[<<n, p>>])]
  <2>1. PICK s \in Slots : s = kps[<<n, p>>]
    BY <1>1
  <2>2. PICK t : t = RotateConfirmed(s)
    OBVIOUS
  <2>3. Stored(t) \subseteq Stored(s) /\ t.current = k
    BY <1>6, <2>1, <2>2, RotationStores
  <2>4. kps'[<<n, p>>] = t /\ \A l \in Link : kps'[l] = kps[l] \/ l = <<n, p>>
    <3>1. kps' = [kps EXCEPT ![<<n, p>>] = t]
      BY <1>6, <2>1, <2>2
    <3> QED
      BY <1>1, <3>1 DEF TypeOK
  <2>5. PICK new : new = RetireConfirmed(table[n], s) /\ Shrinks(table[n], new)
    BY <1>1, <2>1, ShrinkSlots
  <2>6. \A q \in Node : \A i \in Index0 : table'[q][i] \in {Nil, table[q][i]}
    <3>1. table' = [table EXCEPT ![n] = new]
      BY <1>6, <2>1, <2>5
    <3>2. table'[n] = new /\ \A q \in Node : q # n => table'[q] = table[q]
      BY <1>1, <3>1 DEF TypeOK
    <3> QED
      BY <2>5, <3>2 DEF Shrinks
  <2>7. \A l \in Link : Stored(kps'[l]) \subseteq Stored(kps[l])
    BY <2>1, <2>3, <2>4
  <2>8. ASSUME NEW l \in Link
        PROVE  \/ kps'[l].current \in {Nil, kps[l].current}
               \/ Confirmed(l[1], l[2], kps[l].current)'
    <3>1. CASE l = <<n, p>>
      BY <1>1, <1>4, <2>3, <2>4, <3>1
    <3> QED
      BY <2>4, <3>1
  <2> QED
    BY <1>2, <1>3, <2>6, <2>7, <2>8, ConfirmationKept
<1> QED
  BY <1>2, <1>5, <1>6

\* The steps of a peer.
LEMMA ConfirmPeerStep ==
    ASSUME TableInv, Confirmation, NEW n \in Node, NEW p \in Node, n # p, PeerStep(n, p)
    PROVE  Confirmation'
<1>1. /\ TypeOK /\ table[n] \in Table /\ kps[<<n, p>>] \in Slots
      /\ hs[<<n, p>>].localIndex \in Index0
  BY LinkTypes DEF TableInv, TableOK
<1>2. CASE SendHandshakeInitiation(n, p)
  <2>1. PICK i \in Index :
          /\ table' = [table EXCEPT ![n] = IndexInsert(IndexDelete(table[n], hs[<<n, p>>].localIndex),
                                                       i, HandshakeEntry(p))]
          /\ net' = net \cup {InitiationMessage(n, p, eph + 1, i)}
          /\ UNCHANGED <<kps, inbound, derived>>
    BY <1>2 DEF SendHandshakeInitiation, FreeIndex
  <2>2. InitiationMessage(n, p, eph + 1, i).type = "initiation"
    BY DEF InitiationMessage
  <2> QED
    BY <2>1, <2>2, ConfirmationNewIndex
<1>3. CASE SendTransport(n, p)
  BY <1>3, ConfirmSendTransport
<1>4. CASE SequentialReceiver(n, p)
  BY <1>4, ConfirmSequentialReceiver
<1>5. PICK mid \in Table : mid = DeleteSlots(table[n], kps[<<n, p>>]) /\ Shrinks(table[n], mid)
  BY <1>1, ShrinkSlots
<1>6. CASE ExpiredZeroKeyMaterial(n, p)
  <2>1. PICK new : new = IndexDelete(mid, hs[<<n, p>>].localIndex) /\ Shrinks(table[n], new)
    BY <1>1, <1>5, ShrinkDelete, ShrinkTwice
  <2>2. /\ table' = [table EXCEPT ![n] = new] /\ kps' = [kps EXCEPT ![<<n, p>>] = NoSlots]
        /\ UNCHANGED <<inbound, derived, net>>
    BY <1>5, <1>6, <2>1 DEF ExpiredZeroKeyMaterial
  <2> QED
    BY <2>1, <2>2, ConfirmationRemoved
<1>7. CASE StopKeypairs(n, p)
  <2>1. /\ table' = [table EXCEPT ![n] = mid] /\ kps' = [kps EXCEPT ![<<n, p>>] = NoSlots]
        /\ inbound' = [inbound EXCEPT ![<<n, p>>] = {}]
        /\ UNCHANGED <<derived, net>>
    BY <1>5, <1>7 DEF StopKeypairs
  <2>2. \A l \in Link : inbound'[l] \subseteq inbound[l]
    BY <1>1, <2>1 DEF TypeOK
  <2> QED
    BY <1>5, <2>1, <2>2, ConfirmationRemoved
<1>8. CASE StopHandshake(n, p)
  <2>1. PICK new : new = IndexDelete(table[n], hs[<<n, p>>].localIndex) /\ Shrinks(table[n], new)
    BY <1>1, ShrinkDelete
  <2>2. table' = [table EXCEPT ![n] = new] /\ UNCHANGED <<kps, inbound, derived, net>>
    BY <1>8, <2>1 DEF StopHandshake
  <2> QED
    BY <2>1, <2>2, ConfirmationRemoved
<1>9. CASE Start(n, p)
  <2>1. UNCHANGED <<kps, table, inbound, derived, net>>
    BY <1>9 DEF Start
  <2> QED
    BY <2>1, ConfirmationUnmoved
<1> QED
  BY <1>2, <1>3, <1>4, <1>6, <1>7, <1>8, <1>9 DEF PeerStep

\* The steps of a handshake worker.
LEMMA ConfirmWorkerStep ==
    ASSUME TableInv, Confirmation, NEW n \in Node, NEW w \in Worker, WorkerStep(n, w)
    PROVE  Confirmation'
<1>1. TypeOK /\ NoSelfPeer
  BY DEF TableInv
<1>2. CASE \/ \E m \in net : ConsumeInitiationCheck(n, w, m)
           \/ ConsumeInitiationUpdate(n, w) \/ ResponseFails(n, w)
           \/ \E m \in net : ConsumeResponseCheck(n, w, m)
           \/ ConsumeResponseUpdate(n, w)
  <2>1. UNCHANGED <<kps, table, inbound, derived, net>>
    BY <1>2 DEF ConsumeInitiationCheck, ConsumeInitiationUpdate, ResponseFails,
                ConsumeResponseCheck, ConsumeResponseUpdate
  <2> QED
    BY <2>1, ConfirmationUnmoved
<1>3. CASE CreateMessageResponse(n, w)
  <2>1. PICK p \in Node, g \in Handshakes, i \in Index : CreatesResponse(n, w, p, g, i)
    BY <1>1, <1>3, CreateResponse
  <2>2. /\ p # n
        /\ table' = [table EXCEPT ![n] =
              IndexInsert(IndexDelete(table[n], hs[<<n, p>>].localIndex),
                          i, HandshakeEntry(p))]
        /\ UNCHANGED <<kps, inbound, derived, net>>
    BY <2>1 DEF CreatesResponse
  <2> QED
    BY <2>2, ConfirmationNewIndex
<1>4. CASE RespondWithKeypair(n, w)
  <2>1. PICK p \in Node, m \in Response : p = wk[<<n, w>>].peer /\ p # n /\ m = wk[<<n, w>>].msg
    BY <1>1, <1>4, WorkerTyped DEF RespondWithKeypair
  <2>2. m.type = "response"
    BY DEF Response
  <2>3. /\ NewKeypair(n, p) \/ UNCHANGED <<table, kps, derived>>
        /\ net' = net \cup {m} \/ net' = net
        /\ UNCHANGED inbound
    BY <1>4, <2>1 DEF RespondWithKeypair
  <2> QED
    BY <2>1, <2>2, <2>3, ConfirmationDerived, ConfirmationUnmoved
<1>5. CASE CompleteHandshake(n, w)
  <2>1. PICK p \in Node : p = wk[<<n, w>>].peer /\ p # n
    BY <1>1, <1>5, WorkerTyped DEF CompleteHandshake
  <2>2. /\ NewKeypair(n, p) \/ UNCHANGED <<table, kps, derived>>
        /\ UNCHANGED <<inbound, net>>
    BY <1>5, <2>1 DEF CompleteHandshake
  <2> QED
    BY <2>1, <2>2, ConfirmationDerived, ConfirmationUnmoved
<1> QED
  BY <1>2, <1>3, <1>4, <1>5 DEF WorkerStep

\* There are no key pairs at first.
LEMMA InitConfirmation == Init => Confirmation
<1> SUFFICES ASSUME Init PROVE Confirmation
  OBVIOUS
<1>1. /\ net = {} /\ \A l \in Link : kps[l] = NoSlots /\ inbound[l] = {}
      /\ \A n \in Node : \A i \in Index0 : table[n][i] = Nil
  BY DEF Init
<1>2. Stored(NoSlots) = {} /\ NoSlots.current = Nil
  BY DEF Stored, NoSlots
<1> QED
  BY <1>1, <1>2 DEF Confirmation, EntryKnown

\* Every step of the system keeps the confirmation.
LEMMA StepConfirmation ==
    TableInv /\ Agreement /\ Confirmation /\ [Next]_vars => Confirmation'
<1> SUFFICES ASSUME TableInv, Agreement, Confirmation, [Next]_vars
             PROVE  Confirmation'
  OBVIOUS
<1>1. CASE UNCHANGED vars
  <2>1. UNCHANGED <<kps, table, inbound, derived, net>>
    BY <1>1 DEF vars
  <2> QED
    BY <2>1, ConfirmationUnmoved
<1>2. ASSUME NEW l \in Link, PeerStep(l[1], l[2])
      PROVE  Confirmation'
  BY <1>2, ConfirmPeerStep DEF Link
<1> QED
  BY <1>1, <1>2, ConfirmWorkerStep, ConfirmReceiveTransport DEF Next

\* Key pairs are used only as far as the other end has confirmed them.
THEOREM AlwaysConfirmed == Spec => []Confirmation
<1>1. Init => Confirmation
  BY InitConfirmation
<1>2. TableInv /\ Agreement /\ Confirmation /\ [Next]_vars => Confirmation'
  BY StepConfirmation
<1> QED
  BY <1>1, <1>2, TableCorrect, Agreed, PTL DEF Spec

\* A responder encrypts under a key only after the initiator has derived it.
THEOREM KeysConfirmed == Spec => []KeyConfirmed
<1>1. Confirmation => KeyConfirmed
  BY DEF Confirmation, KeyConfirmed, Confirmed
<1> QED
  BY <1>1, AlwaysConfirmed, PTL

-----------------------------------------------------------------------------
(* One worker at a time.                                                   *)

\* At most one worker of a device is busy.
OneBusy ==
    \A n \in Node : \A v, w \in Worker :
        wk[<<n, v>>].pc # "idle" /\ wk[<<n, w>>].pc # "idle" => v = w

\* An initiation from which a key pair was derived is not used again.
SpentBy(d) ==
    d.kp.isInitiator =>
        /\ \A l \in Link : l[1] = d.owner /\ hs[l].state \in Initiating =>
               hs[l].chainKey.i # d.kp.key.i
        /\ \A w \in Worker : wk[<<d.owner, w>>].pc = "responseChecked" =>
               wk[<<d.owner, w>>].msg.key.i # d.kp.key.i

Spent == \A d \in derived : SpentBy(d)

\* Nor does the initiator derive two key pairs from it.
InitiatesOnce ==
    \A d, c \in derived :
        /\ d.kp.isInitiator /\ c.kp.isInitiator
        /\ d.owner = c.owner /\ d.kp.key.i = c.kp.key.i
        => d = c

\* What holds until two workers of a device are busy at once.
Serial ==
    /\ crowded \/ OneBusy
    /\ crowded \/ Spent
    /\ crowded \/ InitiatesOnce

\* No worker becomes busy.
LEMMA BusyKept ==
    ASSUME crowded \/ OneBusy, crowded => crowded',
           \A y \in Node \X Worker : wk'[y].pc # "idle" => wk[y].pc # "idle"
    PROVE  crowded' \/ OneBusy'
<1> SUFFICES ASSUME ~crowded', NEW n \in Node, NEW v \in Worker, NEW w \in Worker,
                    wk'[<<n, v>>].pc # "idle", wk'[<<n, w>>].pc # "idle"
             PROVE  v = w
  BY DEF OneBusy
<1>1. <<n, v>> \in Node \X Worker /\ <<n, w>> \in Node \X Worker
  OBVIOUS
<1>2. wk[<<n, v>>].pc # "idle" /\ wk[<<n, w>>].pc # "idle"
  BY <1>1
<1> QED
  BY <1>2 DEF OneBusy

\* A worker takes up a message.
LEMMA BusyCrowd ==
    ASSUME crowded \/ OneBusy, NEW n \in Node, NEW w \in Worker, Crowd(n, w),
           \A y \in Node \X Worker : wk'[y] = wk[y] \/ y = <<n, w>>
    PROVE  (crowded => crowded') /\ (crowded' \/ OneBusy')
<1>1. crowded' = (crowded \/ \E v \in Worker : v # w /\ wk[<<n, v>>].pc # "idle")
  BY DEF Crowd
<1>2. ASSUME ~crowded', NEW q \in Node, NEW u \in Worker, NEW v \in Worker,
             wk'[<<q, u>>].pc # "idle", wk'[<<q, v>>].pc # "idle"
      PROVE  u = v
  <2>1. <<q, u>> \in Node \X Worker /\ <<q, v>> \in Node \X Worker
    OBVIOUS
  <2>2. CASE q = n
    <3>1. ASSUME NEW x \in Worker, x # w, wk'[<<n, x>>].pc # "idle"
          PROVE  FALSE
      <4>1. <<n, x>> \in Node \X Worker /\ <<n, x>> # <<n, w>>
        BY <3>1
      <4>2. wk'[<<n, x>>] = wk[<<n, x>>]
        BY <4>1
      <4> QED
        BY <1>1, <1>2, <3>1, <4>2
    <3> QED
      BY <1>2, <2>2, <3>1
  <2>3. CASE q # n
    <3>1. wk'[<<q, u>>] = wk[<<q, u>>] /\ wk'[<<q, v>>] = wk[<<q, v>>]
      BY <2>1, <2>3
    <3>2. OneBusy
      BY <1>1, <1>2
    <3> QED
      BY <1>2, <3>1, <3>2, SMT DEF OneBusy
  <2> QED
    BY <2>2, <2>3
<1> QED
  BY <1>1, <1>2 DEF OneBusy

\* The key i of an initiator is none from which device n has derived a key pair.
Unspent(n, i) == \A d \in derived : d.kp.isInitiator /\ d.owner = n => i # d.kp.key.i

\* What a step has to answer for.
LEMMA SpentKept ==
    ASSUME TypeOK', crowded \/ Spent, crowded => crowded',
           \A d \in derived' : d \in derived \/ crowded' \/ SpentBy(d)',
           \A l \in Link :
              \/ hs'[l] = hs[l] \/ hs'[l].state \notin Initiating
              \/ Unspent(l[1], hs'[l].chainKey.i) \/ crowded',
           \A y \in Node \X Worker :
              \/ wk'[y] = wk[y] \/ wk'[y].pc # "responseChecked"
              \/ Unspent(y[1], wk'[y].msg.key.i) \/ crowded'
    PROVE  crowded' \/ Spent'
<1> SUFFICES ASSUME ~crowded', NEW d \in derived', d \in derived, d.kp.isInitiator
             PROVE  /\ \A l \in Link : l[1] = d.owner /\ hs'[l].state \in Initiating =>
                          hs'[l].chainKey.i # d.kp.key.i
                    /\ \A w \in Worker : wk'[<<d.owner, w>>].pc = "responseChecked" =>
                          wk'[<<d.owner, w>>].msg.key.i # d.kp.key.i
  BY DEF Spent, SpentBy
<1>1. SpentBy(d)
  BY DEF Spent
<1>2. ASSUME NEW l \in Link, l[1] = d.owner, hs'[l].state \in Initiating
      PROVE  hs'[l].chainKey.i # d.kp.key.i
  BY <1>1, <1>2 DEF SpentBy, Unspent
<1>3. ASSUME NEW w \in Worker, wk'[<<d.owner, w>>].pc = "responseChecked"
      PROVE  wk'[<<d.owner, w>>].msg.key.i # d.kp.key.i
  <2>1. <<d.owner, w>> \in Node \X Worker /\ <<d.owner, w>>[1] = d.owner
    BY DEF TypeOK
  <2> QED
    BY <1>1, <1>3, <2>1 DEF SpentBy, Unspent
<1> QED
  BY <1>2, <1>3

\* A step in which no worker takes up a message and no key pair is derived.
LEMMA SerialKept ==
    ASSUME TableInv, TableInv', Serial, UNCHANGED <<crowded, derived>>,
           \A l \in Link :
              \/ hs'[l] = hs[l] \/ hs'[l].state \notin Initiating
              \/ Unspent(l[1], hs'[l].chainKey.i) \/ crowded',
           \A y \in Node \X Worker :
              \/ wk'[y] = wk[y]
              \/ /\ wk[y].pc # "idle"
                 /\ wk'[y].pc # "responseChecked"
    PROVE  Serial'
<1>1. crowded' \/ OneBusy'
  BY BusyKept DEF Serial
<1>2. crowded' \/ Spent'
  BY SpentKept DEF Serial, TableInv
<1>3. crowded' \/ InitiatesOnce'
  BY DEF Serial, InitiatesOnce
<1> QED
  BY <1>1, <1>2, <1>3 DEF Serial

\* A step that leaves handshakes, workers and derived key pairs alone.
LEMMA SerialUnmoved ==
    ASSUME TableInv, TableInv', Serial, UNCHANGED <<crowded, derived, hs, wk>>
    PROVE  Serial'
BY SerialKept

\* A step of peer <<n, p>> that changes its handshake to h.
LEMMA SerialHandshake ==
    ASSUME TableInv, TableInv', Serial, NEW n \in Node, NEW p \in Node, n # p, NEW h,
           hs' = [hs EXCEPT ![<<n, p>>] = h],
           h.state \notin Initiating \/ Unspent(n, h.chainKey.i),
           UNCHANGED <<crowded, derived, wk>>
    PROVE  Serial'
<1>1. /\ <<n, p>>[1] = n /\ hs'[<<n, p>>] = h
      /\ \A l \in Link : hs'[l] = hs[l] \/ l = <<n, p>>
  BY DEF TypeOK, Link, TableInv
<1>2. \A l \in Link : \/ hs'[l] = hs[l] \/ hs'[l].state \notin Initiating
                      \/ Unspent(l[1], hs'[l].chainKey.i)
  BY <1>1
<1> QED
  BY <1>2, SerialKept

\* The steps of a peer: a new ephemeral key is not spent.
LEMMA SerialPeerStep ==
    ASSUME TableInv, TableInv', Agreement, Serial,
           NEW n \in Node, NEW p \in Node, n # p, PeerStep(n, p)
    PROVE  Serial'
<1>1. PICK g \in Handshakes : g = hs[<<n, p>>]
  BY LinkTypes DEF TableInv, TableOK
<1>2. CASE SendHandshakeInitiation(n, p)
  <2>1. PICK i \in Index :
          /\ hs' = [hs EXCEPT ![<<n, p>>] = InitiationCreated(g, eph + 1, i)]
          /\ UNCHANGED <<crowded, derived, wk>>
    BY <1>1, <1>2 DEF SendHandshakeInitiation, FreeIndex
  <2>2. PICK h : h = InitiationCreated(g, eph + 1, i)
    OBVIOUS
  <2>3. h.chainKey.i = eph + 1
    BY <2>2, InitiationCreatedFields, SMT
  <2>4. Unspent(n, eph + 1)
    <3> SUFFICES ASSUME NEW d \in derived, d.kp.isInitiator
                 PROVE  eph + 1 # d.kp.key.i
      BY DEF Unspent
    <3>1. PICK m \in net : m.type = "initiation" /\ m.ephemeral = d.kp.key.i
      BY DEF Agreement, Sound, KeypairSound, Origin
    <3>2. m.ephemeral \in 0 .. eph /\ eph \in Nat
      BY <3>1 DEF Agreement, OriginsUnique, TableInv, TypeOK
    <3> QED
      BY <3>1, <3>2, SMT
  <2> QED
    BY <1>1, <2>1, <2>2, <2>3, <2>4, SerialHandshake
<1>3. CASE ExpiredZeroKeyMaterial(n, p) \/ StopHandshake(n, p)
  <2>1. PICK h : h = Cleared(g)
    OBVIOUS
  <2>2. h.state = "Zeroed"
    BY <2>1, ClearedFields
  <2>3. hs' = [hs EXCEPT ![<<n, p>>] = h] /\ UNCHANGED <<crowded, derived, wk>>
    BY <1>1, <1>3, <2>1 DEF ExpiredZeroKeyMaterial, StopHandshake
  <2> QED
    BY <1>1, <2>2, <2>3, SerialHandshake DEF Initiating
<1>4. CASE SendTransport(n, p) \/ SequentialReceiver(n, p) \/ StopKeypairs(n, p) \/ Start(n, p)
  <2>1. UNCHANGED <<crowded, derived, hs, wk>>
    BY <1>4 DEF SendTransport, SequentialReceiver, StopKeypairs, Start
  <2> QED
    BY <2>1, SerialUnmoved
<1> QED
  BY <1>2, <1>3, <1>4 DEF PeerStep

\* ConsumeMessageInitiation takes up an initiation, which is no response.
LEMMA SerialConsumeInitiationCheck ==
    ASSUME TableInv, TableInv', Serial, NEW n \in Node, NEW w \in Worker, NEW m \in net,
           ConsumeInitiationCheck(n, w, m)
    PROVE  Serial'
<1>1. /\ wk' = [wk EXCEPT ![<<n, w>>] = Busy("initiationChecked", m.from, m)]
      /\ Crowd(n, w) /\ UNCHANGED <<hs, derived>>
  BY DEF ConsumeInitiationCheck
<1>2. PICK x : x = Busy("initiationChecked", m.from, m)
  OBVIOUS
<1>3. x.pc = "initiationChecked"
  BY <1>2, BusyParts, SMT
<1>4. /\ <<n, w>>[1] = n /\ wk'[<<n, w>>] = x
      /\ \A y \in Node \X Worker : wk'[y] = wk[y] \/ y = <<n, w>>
  BY <1>1, <1>2 DEF TypeOK, TableInv
<1>5. (crowded => crowded') /\ (crowded' \/ OneBusy')
  BY <1>1, <1>4, BusyCrowd DEF Serial
<1>6. crowded' \/ Spent'
  <2>1. \A y \in Node \X Worker : wk'[y] = wk[y] \/ wk'[y].pc # "responseChecked"
    BY <1>3, <1>4
  <2> QED
    BY <1>1, <1>5, <2>1, SpentKept DEF Serial, TableInv
<1>7. crowded' \/ InitiatesOnce'
  BY <1>1, <1>5 DEF Serial, InitiatesOnce
<1> QED
  BY <1>5, <1>6, <1>7 DEF Serial

\* ConsumeMessageInitiation's update leaves a responder's handshake.
LEMMA SerialConsumeInitiationUpdate ==
    ASSUME TableInv, TableInv', Serial, NEW n \in Node, NEW w \in Worker,
           ConsumeInitiationUpdate(n, w)
    PROVE  Serial'
<1>1. TypeOK /\ NoSelfPeer /\ TableOK
  BY DEF TableInv, TableOK
<1>2. PICK p \in Node, m \in Initiation : p = wk[<<n, w>>].peer /\ p # n /\ m = wk[<<n, w>>].msg
  BY <1>1, WorkerTyped DEF ConsumeInitiationUpdate
<1>3. /\ wk[<<n, w>>].pc = "initiationChecked"
      /\ hs' = [hs EXCEPT ![<<n, p>>] = InitiationConsumed(hs[<<n, p>>], m)]
      /\ wk' = [wk EXCEPT ![<<n, w>>] = Busy("initiationConsumed", p, m)]
      /\ UNCHANGED <<derived, crowded>>
  BY <1>2 DEF ConsumeInitiationUpdate
<1>4. PICK h : h = InitiationConsumed(hs[<<n, p>>], m) /\ h.state = "InitiationConsumed"
  BY <1>1, <1>2, LinkTypes, InitiationConsumedFields, SMT
<1>5. /\ hs'[<<n, p>>] = h
      /\ \A l \in Link : hs'[l] = hs[l] \/ l = <<n, p>>
  BY <1>1, <1>2, <1>3, <1>4 DEF TypeOK, Link
<1>6. PICK x : x = Busy("initiationConsumed", p, m) /\ x.pc = "initiationConsumed"
  BY BusyParts, SMT
<1>7. /\ wk'[<<n, w>>] = x
      /\ \A y \in Node \X Worker : wk'[y] = wk[y] \/ y = <<n, w>>
  BY <1>1, <1>3, <1>6 DEF TypeOK
<1>8. crowded' \/ OneBusy'
  BY <1>3, <1>7, BusyKept DEF Serial
<1>9. crowded' \/ Spent'
  <2>1. \A y \in Node \X Worker : wk'[y] = wk[y] \/ wk'[y].pc # "responseChecked"
    BY <1>6, <1>7
  <2>2. \A l \in Link : hs'[l] = hs[l] \/ hs'[l].state \notin Initiating
    BY <1>4, <1>5 DEF Initiating
  <2> QED
    BY <1>3, <2>1, <2>2, SpentKept DEF Serial, TableInv
<1>10. crowded' \/ InitiatesOnce'
  BY <1>3 DEF Serial, InitiatesOnce
<1> QED
  BY <1>8, <1>9, <1>10 DEF Serial

\* A busy worker becomes x, which has not just checked a response.
LEMMA SerialWorker ==
    ASSUME TableInv, TableInv', Serial, NEW n \in Node, NEW w \in Worker, NEW x,
           wk[<<n, w>>].pc # "idle", wk' = [wk EXCEPT ![<<n, w>>] = x],
           x.pc # "responseChecked",
           UNCHANGED <<crowded, derived>>,
           \A l \in Link :
              \/ hs'[l] = hs[l] \/ hs'[l].state \notin Initiating
              \/ Unspent(l[1], hs'[l].chainKey.i) \/ crowded'
    PROVE  Serial'
<1>1. wk'[<<n, w>>] = x /\ \A y \in Node \X Worker : wk'[y] = wk[y] \/ y = <<n, w>>
  BY DEF TypeOK, TableInv
<1>2. \A y \in Node \X Worker :
          \/ wk'[y] = wk[y]
          \/ /\ wk[y].pc # "idle"
             /\ wk'[y].pc # "responseChecked"
  BY <1>1
<1> QED
  BY <1>2, SerialKept

\* CreateMessageResponse, whose handshake is a responder's.
LEMMA SerialCreateMessageResponse ==
    ASSUME TableInv, TableInv', Serial, NEW n \in Node, NEW w \in Worker,
           CreateMessageResponse(n, w)
    PROVE  Serial'
<1>1. TypeOK /\ NoSelfPeer /\ TableOK
  BY DEF TableInv, TableOK
<1>2. wk[<<n, w>>].pc = "initiationConsumed"
  BY <1>1, CreateResponse
<1>3. PICK p \in Node, g \in Handshakes, i \in Index : CreatesResponse(n, w, p, g, i)
  BY <1>1, CreateResponse
<1>4. /\ p # n /\ g = hs[<<n, p>>]
      /\ hs' = [hs EXCEPT ![<<n, p>>] = ResponseCreated(g, eph + 1, i)]
      /\ wk' = [wk EXCEPT ![<<n, w>>] =
                  Busy("responseCreated", p, ResponseMessage(n, p, g, eph + 1, i))]
      /\ UNCHANGED <<crowded, derived>>
  BY <1>3 DEF CreatesResponse
<1>5. PICK h : h = ResponseCreated(g, eph + 1, i)
  OBVIOUS
<1>6. h.state = "ResponseCreated"
  BY <1>5, ResponseCreatedFields, SMT
<1>7. hs'[<<n, p>>] = h /\ \A l \in Link : hs'[l] = hs[l] \/ l = <<n, p>>
  <2>1. hs' = [hs EXCEPT ![<<n, p>>] = h] /\ p # n
    BY <1>4, <1>5
  <2> QED
    BY <1>1, <2>1 DEF TypeOK, Link
<1>8. \A l \in Link : hs'[l] = hs[l] \/ hs'[l].state \notin Initiating
  BY <1>6, <1>7 DEF Initiating
<1>9. PICK x : /\ x = Busy("responseCreated", p, ResponseMessage(n, p, g, eph + 1, i))
               /\ x.pc = "responseCreated"
  BY BusyParts, SMT
<1>10. wk' = [wk EXCEPT ![<<n, w>>] = x] /\ UNCHANGED <<crowded, derived>>
  BY <1>4, <1>9
<1> QED
  BY <1>2, <1>8, <1>9, <1>10, SerialWorker

\* ConsumeMessageResponse accepts a response to an initiation that is not spent.
LEMMA SerialConsumeResponseCheck ==
    ASSUME TableInv, TableInv', Serial, NEW n \in Node, NEW w \in Worker, NEW m \in net,
           ConsumeResponseCheck(n, w, m)
    PROVE  Serial'
<1>1. /\ m.type = "response" /\ m.to = n
      /\ hs[<<n, m.from>>].state = "InitiationCreated"
      /\ hs[<<n, m.from>>].chainKey = [i |-> m.key.i, r |-> 0]
      /\ wk' = [wk EXCEPT ![<<n, w>>] = Busy("responseChecked", m.from, m)]
      /\ Crowd(n, w) /\ UNCHANGED <<hs, derived>>
  BY DEF ConsumeResponseCheck
<1>2. PICK x : x = Busy("responseChecked", m.from, m)
  OBVIOUS
<1>3. x.pc = "responseChecked" /\ x.msg = m
  BY <1>2, BusyParts, SMT
<1>4. /\ <<n, w>>[1] = n /\ wk'[<<n, w>>] = x
      /\ \A y \in Node \X Worker : wk'[y] = wk[y] \/ y = <<n, w>>
  BY <1>1, <1>2 DEF TypeOK, TableInv
<1>5. (crowded => crowded') /\ (crowded' \/ OneBusy')
  BY <1>1, <1>4, BusyCrowd DEF Serial
<1>6. crowded' \/ Unspent(n, m.key.i)
  <2>1. <<n, m.from>> \in Link /\ <<n, m.from>>[1] = n
    <3>1. m \in Response
      BY <1>1 DEF TableInv, TypeOK, Initiation, Response, Transport
    <3> QED
      BY <1>1, <3>1 DEF TableInv, NoSelfPeer, Response, Link
  <2>2. hs[<<n, m.from>>].state \in Initiating
    BY <1>1 DEF Initiating
  <2>3. hs[<<n, m.from>>].chainKey.i = m.key.i
    <3>1. hs[<<n, m.from>>].chainKey = [i |-> m.key.i, r |-> 0]
      BY <1>1
    <3> QED
      BY <3>1, SMT
  <2> QED
    BY <1>5, <2>1, <2>2, <2>3 DEF Serial, Spent, SpentBy, Unspent
<1>7. crowded' \/ Spent'
  <2>1. \A y \in Node \X Worker : \/ wk'[y] = wk[y] \/ crowded'
                                  \/ Unspent(y[1], wk'[y].msg.key.i)
    BY <1>3, <1>4, <1>6
  <2> QED
    BY <1>1, <1>5, <2>1, SpentKept DEF Serial, TableInv
<1>8. crowded' \/ InitiatesOnce'
  BY <1>1, <1>5 DEF Serial, InitiatesOnce
<1> QED
  BY <1>5, <1>7, <1>8 DEF Serial

\* ConsumeMessageResponse's update: the initiation is still not spent.
LEMMA SerialConsumeResponseUpdate ==
    ASSUME TableInv, TableInv', Serial, NEW n \in Node, NEW w \in Worker,
           ConsumeResponseUpdate(n, w)
    PROVE  Serial'
<1>1. TypeOK /\ NoSelfPeer /\ TableOK
  BY DEF TableInv, TableOK
<1>2. PICK p \in Node, m \in Response : p = wk[<<n, w>>].peer /\ p # n /\ m = wk[<<n, w>>].msg
  BY <1>1, WorkerTyped DEF ConsumeResponseUpdate
<1>3. /\ wk[<<n, w>>].pc = "responseChecked"
      /\ hs' = [hs EXCEPT ![<<n, p>>] = ResponseConsumed(hs[<<n, p>>], m)]
      /\ wk' = [wk EXCEPT ![<<n, w>>] = Busy("responseConsumed", p, m)]
      /\ UNCHANGED <<crowded, derived>>
  BY <1>2 DEF ConsumeResponseUpdate
<1>4. PICK g \in Handshakes : g = hs[<<n, p>>]
  BY <1>1, <1>2, LinkTypes
<1>5. PICK h : h = ResponseConsumed(g, m)
  OBVIOUS
<1>6. h.chainKey = m.key
  BY <1>5, ResponseConsumedFields
<1>7. /\ hs'[<<n, p>>] = h /\ <<n, p>>[1] = n
      /\ \A l \in Link : hs'[l] = hs[l] \/ l = <<n, p>>
  BY <1>1, <1>2, <1>3, <1>4, <1>5 DEF TypeOK, Link
<1>8. crowded' \/ Unspent(n, m.key.i)
  BY <1>2, <1>3 DEF Serial, Spent, SpentBy, Unspent
<1>9. \A l \in Link : \/ hs'[l] = hs[l]
                      \/ Unspent(l[1], hs'[l].chainKey.i) \/ crowded'
  BY <1>6, <1>7, <1>8
<1>10. PICK x : x = Busy("responseConsumed", p, m) /\ x.pc = "responseConsumed"
  BY BusyParts, SMT
<1> QED
  BY <1>3, <1>9, <1>10, SerialWorker

\* A key pair d that an initiator derives: unless two workers were busy, nothing else
\* of the device can use the same initiation.
LEMMA SpentWhenDerived ==
    ASSUME TableInv, Agreement, Serial, NEW n \in Node, NEW w \in Worker,
           NEW p \in Node, n # p, NEW d, d.owner = n, d.peer = p, KeypairSound(d),
           d.kp.isInitiator, hs' = [hs EXCEPT ![<<n, p>>] = Cleared(hs[<<n, p>>])],
           wk[<<n, w>>].pc # "idle", wk' = [wk EXCEPT ![<<n, w>>] = Idle], UNCHANGED crowded
    PROVE  crowded' \/ SpentBy(d)'
<1> SUFFICES ASSUME ~crowded'
             PROVE  /\ \A l \in Link : l[1] = n /\ hs'[l].state \in Initiating =>
                          hs'[l].chainKey.i # d.kp.key.i
                    /\ \A v \in Worker : wk'[<<n, v>>].pc # "responseChecked"
  BY DEF SpentBy
<1>1. PICK h : h = Cleared(hs[<<n, p>>]) /\ h.state = "Zeroed"
  BY LinkTypes, ClearedFields DEF TableInv
<1>2. hs'[<<n, p>>] = h /\ \A l \in Link : hs'[l] = hs[l] \/ l = <<n, p>>
  BY <1>1 DEF TypeOK, Link, TableInv
<1>3. ASSUME NEW l \in Link, l[1] = n, hs'[l].state \in Initiating,
             hs'[l].chainKey.i = d.kp.key.i
      PROVE  FALSE
  <2>1. l # <<n, p>> /\ hs'[l] = hs[l]
    BY <1>1, <1>2, <1>3 DEF Initiating
  <2>2. Origin(n, l[2], d.kp.key.i)
    BY <1>3, <2>1 DEF Agreement, Sound, HandshakeSound
  <2>3. Origin(n, p, d.kp.key.i)
    BY DEF KeypairSound
  <2>4. l[2] = p
    BY <2>2, <2>3 DEF Agreement, OriginsUnique, Origin
  <2> QED
    BY <1>3, <2>1, <2>4, SMT DEF Link
<1>4. ASSUME NEW v \in Worker, wk'[<<n, v>>].pc = "responseChecked"
      PROVE  FALSE
  <2>1. /\ wk'[<<n, w>>] = Idle
        /\ \A y \in Node \X Worker : wk'[y] = wk[y] \/ y = <<n, w>>
    BY DEF TypeOK, TableInv
  <2>2. <<n, v>> \in Node \X Worker /\ v # w
    BY <1>4, <2>1, IdlePoint
  <2>3. wk[<<n, v>>].pc # "idle"
    BY <1>4, <2>1, <2>2
  <2> QED
    BY <2>2, <2>3 DEF Serial, OneBusy
<1> QED
  BY <1>3, <1>4

\* NewKeypair in a handshake worker.
LEMMA SerialDerived ==
    ASSUME TableInv, TableInv', Agreement, Serial, NEW n \in Node, NEW w \in Worker,
           NEW p \in Node, n # p, CanDerive(hs[<<n, p>>]), NewKeypair(n, p),
           wk[<<n, w>>].pc # "idle", wk' = [wk EXCEPT ![<<n, w>>] = Idle], UNCHANGED crowded
    PROVE  Serial'
<1>1. PICK g \in Handshakes : g = hs[<<n, p>>]
  BY LinkTypes DEF TableInv, TableOK
<1>2. PICK h : h = Cleared(g) /\ h.state = "Zeroed"
  BY ClearedFields
<1>3. PICK d : /\ derived' = derived \cup {d}
               /\ d.owner = n /\ d.peer = p /\ d.kp = DerivedKeypair(hs[<<n, p>>])
               /\ d.kp.isInitiator => KeypairSound(d)
  BY DerivedSound, SMT
<1>4. d.kp.key = g.chainKey /\ d.kp.isInitiator = (g.state = "ResponseConsumed")
  <2>1. d.kp = DerivedKeypair(g)
    BY <1>1, <1>3
  <2> QED
    BY <2>1, SMT DEF DerivedKeypair
<1>5. hs' = [hs EXCEPT ![<<n, p>>] = Cleared(hs[<<n, p>>])]
  BY DerivedSound, SMT
<1>6. /\ hs'[<<n, p>>] = h
      /\ \A l \in Link : hs'[l] = hs[l] \/ l = <<n, p>>
  BY <1>1, <1>2, <1>5 DEF TypeOK, Link, TableInv
<1>7. \A l \in Link : hs'[l] = hs[l] \/ hs'[l].state \notin Initiating
  BY <1>2, <1>6 DEF Initiating
<1>8. \A y \in Node \X Worker : \/ wk'[y] = wk[y]
                                \/ wk[y].pc # "idle" /\ wk'[y].pc = "idle"
  <2>1. wk'[<<n, w>>] = Idle /\ \A y \in Node \X Worker : wk'[y] = wk[y] \/ y = <<n, w>>
    BY DEF TypeOK, TableInv
  <2> QED
    BY <2>1, IdlePoint
<1>9. crowded' \/ OneBusy'
  BY <1>8, BusyKept DEF Serial
<1>10. crowded' \/ SpentBy(d)'
  <2>1. CASE d.kp.isInitiator
    BY <1>3, <1>5, <2>1, SpentWhenDerived
  <2>2. CASE ~d.kp.isInitiator
    BY <2>2 DEF SpentBy
  <2> QED
    BY <2>1, <2>2
<1>11. crowded' \/ Spent'
  <2>1. \A c \in derived' : c \in derived \/ crowded' \/ SpentBy(c)'
    BY <1>3, <1>10
  <2> QED
    BY <1>7, <1>8, <2>1, SpentKept DEF Serial, TableInv
<1>12. crowded' \/ InitiatesOnce'
  <2> SUFFICES ASSUME ~crowded'
               PROVE  InitiatesOnce'
    OBVIOUS
  <2>1. ASSUME NEW c \in derived, c.kp.isInitiator, d.kp.isInitiator, c.owner = n,
               c.kp.key.i = d.kp.key.i
        PROVE  FALSE
    <3>1. <<n, p>> \in Link /\ <<n, p>>[1] = n
      BY DEF Link
    <3>2. SpentBy(c)
      BY DEF Serial, Spent
    <3> QED
      BY <1>1, <1>4, <2>1, <3>1, <3>2 DEF SpentBy, Initiating
  <2>2. InitiatesOnce
    BY DEF Serial
  <2>3. derived' = derived \cup {d} /\ d.owner = n
    BY <1>3
  <2>4. ASSUME NEW a \in derived', NEW b \in derived', a.kp.isInitiator, b.kp.isInitiator,
               a.owner = b.owner, a.kp.key.i = b.kp.key.i
        PROVE  a = b
    <3>1. CASE a \in derived /\ b \in derived
      BY <2>2, <2>4, <3>1 DEF InitiatesOnce
    <3>2. CASE a = d \/ b = d
      BY <2>1, <2>3, <2>4, <3>2
    <3> QED
      BY <2>3, <3>1, <3>2
  <2> QED
    BY <2>4 DEF InitiatesOnce
<1> QED
  BY <1>9, <1>11, <1>12 DEF Serial

\* The two ends of RoutineHandshake.
LEMMA SerialEnd ==
    ASSUME TableInv, TableInv', Agreement, Serial, NEW n \in Node, NEW w \in Worker,
           RespondWithKeypair(n, w) \/ CompleteHandshake(n, w) \/ ResponseFails(n, w)
    PROVE  Serial'
<1>1. wk[<<n, w>>].pc # "idle" /\ wk' = [wk EXCEPT ![<<n, w>>] = Idle] /\ UNCHANGED crowded
  BY DEF RespondWithKeypair, CompleteHandshake, ResponseFails
<1>2. PICK p \in Node : p = wk[<<n, w>>].peer /\ p # n
  BY <1>1, WorkerTyped DEF TableInv
<1>3. CASE UNCHANGED <<hs, derived>>
  <2>1. Idle.pc = "idle"
    BY IdlePoint
  <2> QED
    BY <1>1, <1>3, <2>1, SerialWorker
<1>4. CASE CanDerive(hs[<<n, p>>]) /\ NewKeypair(n, p)
  BY <1>1, <1>2, <1>4, SerialDerived
<1> QED
  BY <1>2, <1>3, <1>4 DEF RespondWithKeypair, CompleteHandshake, ResponseFails

\* Nothing is busy or derived at first.
LEMMA InitSerial == Init => Serial
<1> SUFFICES ASSUME Init PROVE Serial
  OBVIOUS
<1>1. derived = {}
  BY DEF Init
<1>2. \A n \in Node, w \in Worker : wk[<<n, w>>].pc = "idle"
  BY IdlePoint DEF Init
<1> QED
  BY <1>1, <1>2 DEF Serial, OneBusy, Spent, InitiatesOnce

\* Every step of the system keeps it.
LEMMA StepSerial ==
    TableInv /\ TableInv' /\ Agreement /\ Serial /\ [Next]_vars => Serial'
<1> SUFFICES ASSUME TableInv, TableInv', Agreement, Serial, [Next]_vars
             PROVE  Serial'
  OBVIOUS
<1>1. CASE UNCHANGED vars
  <2>1. UNCHANGED <<crowded, derived, hs, wk>>
    BY <1>1 DEF vars
  <2> QED
    BY <2>1, SerialUnmoved
<1>2. ASSUME NEW l \in Link, PeerStep(l[1], l[2])
      PROVE  Serial'
  BY <1>2, SerialPeerStep DEF Link
<1>3. ASSUME NEW n \in Node, NEW m \in net, ReceiveTransport(n, m)
      PROVE  Serial'
  <2>1. UNCHANGED <<crowded, derived, hs, wk>>
    BY <1>3 DEF ReceiveTransport
  <2> QED
    BY <2>1, SerialUnmoved
<1>4. ASSUME NEW n \in Node, NEW w \in Worker, WorkerStep(n, w)
      PROVE  Serial'
  BY <1>4, SerialConsumeInitiationCheck, SerialConsumeInitiationUpdate,
     SerialCreateMessageResponse, SerialConsumeResponseCheck,
     SerialConsumeResponseUpdate, SerialEnd DEF WorkerStep
<1> QED
  BY <1>1, <1>2, <1>3, <1>4 DEF Next

\* Until two workers of a device are busy at once, an initiation serves one key pair.
THEOREM AlwaysSerial == Spec => []Serial
<1>1. Init => Serial
  BY InitSerial
<1>2. TableInv /\ TableInv' /\ Agreement /\ Serial /\ [Next]_vars => Serial'
  BY StepSerial
<1> QED
  BY <1>1, <1>2, TableCorrect, Agreed, PTL DEF Spec

\* A handshake yields at most one key pair at each end, whatever is delivered again.
THEOREM KeysDerivedOnce == Spec => []DerivedOnce
<1>1. ASSUME TableInv, Agreement, Serial
      PROVE  DerivedOnce
  <2> SUFFICES ASSUME ~crowded, NEW d \in derived, NEW c \in derived,
                      d.owner = c.owner, d.kp.key = c.kp.key
               PROVE  d = c
    BY DEF DerivedOnce
  <2>1. TypeOK /\ NoSelfPeer
    BY <1>1 DEF TableInv
  <2>2. CASE d.kp.isInitiator /\ c.kp.isInitiator
    BY <1>1, <2>2 DEF Serial, InitiatesOnce
  <2>3. ASSUME NEW a \in derived, NEW b \in derived, a.owner = b.owner,
               a.kp.key = b.kp.key, a.kp.isInitiator, ~b.kp.isInitiator
        PROVE  FALSE
    <3>1. a.owner = b.peer /\ a.peer = b.owner
      BY <1>1, <2>1, <2>3, SameKey
    <3>2. PICK m \in net : m.type = "response" /\ m.from = a.peer /\ m.to = a.owner
      BY <1>1, <2>3 DEF Agreement, Sound, KeypairSound, Answer
    <3> QED
      BY <2>1, <2>3, <3>1, <3>2 DEF NoSelfPeer
  <2>4. CASE ~d.kp.isInitiator /\ ~c.kp.isInitiator
    <3>1. KeypairClaim(d) \in Claims /\ KeypairClaim(c) \in Claims
      BY <2>4 DEF Claims
    <3>2. KeypairClaim(d).key = d.kp.key /\ KeypairClaim(c).key = c.kp.key
      BY DEF KeypairClaim
    <3>3. KeypairClaim(d) = KeypairClaim(c)
      BY <1>1, <3>1, <3>2 DEF Agreement, ClaimsUnique
    <3>4. /\ d.peer = c.peer /\ d.kp.localIndex = c.kp.localIndex
          /\ d.kp.remoteIndex = c.kp.remoteIndex
      BY <3>3 DEF KeypairClaim
    <3>5. d.kp \in Keypair /\ c.kp \in Keypair
      BY <2>1 DEF TypeOK
    <3>6. d.kp = c.kp
      BY <2>4, <3>4, <3>5, SMT DEF Keypair
    <3> QED
      <4>1. /\ d \in [owner: Node, peer: Node, kp: Keypair]
            /\ c \in [owner: Node, peer: Node, kp: Keypair]
        BY <2>1 DEF TypeOK
      <4> QED
        BY <3>4, <3>6, <4>1, SMT
  <2> QED
    BY <2>2, <2>3, <2>4
<1> QED
  BY <1>1, TableCorrect, Agreed, AlwaysSerial, PTL

=============================================================================
