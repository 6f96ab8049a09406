--------------------------- MODULE OutboundProofs ---------------------------
(***************************************************************************)
(* The outbound pipeline keeps its promises for any number of peers and    *)
(* workers and any capacity of its queues: no nonce is used twice under a  *)
(* key, the double check of RoutineNonce never fires, nothing leaves       *)
(* before it is encrypted, every lock that a sender meets has a holder,    *)
(* and the packets of a peer leave in the order in which they were read.   *)
(*                                                                         *)
(* The argument is about the line that the elements of a peer form: the    *)
(* one its sender holds, its outbound queue, the one RoutineNonce holds    *)
(* and its nonce queue.  Along the line the elements grow, so an element   *)
(* is in one place, and evicting or releasing it disturbs no other.        *)
(***************************************************************************)
EXTENDS Outbound, TLAPS

\* The leaves are of first order and go to Zenon; those that need arithmetic, sequences or
\* equality of records cite SMT.
USE Zenon

Range(s) == {s[i] : i \in 1 .. Len(s)}

Sorted(s) == \A i, j \in 1 .. Len(s) : i < j => s[i] < s[j]

Before(S, T) == \A x \in S, y \in T : x < y

\* RoutineNonce holds an element.
Busy == {"check", "drain", "initiate", "await", "assign", "encrypt", "outbound"}

\* The line of a peer, from its end to its head.
Queued(p) == Range(queue[p].nonce)

Held(p) == IF nonce[p].pc \in Busy THEN {nonce[p].elem} ELSE {}

Ready(p) == Range(queue[p].outbound)

Sending(p) == IF sender[p].pc = "lock" THEN {sender[p].elem} ELSE {}

Line(p) == Sending(p) \cup Ready(p) \cup Held(p) \cup Queued(p)

\* The elements of the line that have been given a nonce.
Given(p) ==
    Sending(p) \cup Ready(p)
    \cup (IF nonce[p].pc \in {"encrypt", "outbound"} THEN {nonce[p].elem} ELSE {})

\* The elements whose mutex the sender of p will take next, as InFlight has them.
Flight(p) ==
    Sending(p) \cup Ready(p) \cup (IF nonce[p].pc = "outbound" THEN {nonce[p].elem} ELSE {})

Element == [peer : Peer, key : 0 .. MaxKeys, nonce : Nat,
            dropped : BOOLEAN, locked : BOOLEAN, sealed : BOOLEAN]

Queues == [nonce : Seq(Nat), outbound : Seq(Nat), closed : BOOLEAN, awaiting : BOOLEAN]

Place == Busy \cup {"idle", "stopped", "lock", "send"}

Routine == [pc : Place, elem : Nat, key : 0 .. MaxKeys]

KeyPairs == [current : 0 .. MaxKeys, made : 0 .. MaxKeys, fresh : BOOLEAN,
             arriving : BOOLEAN, sendNonce : [1 .. MaxKeys -> Nat]]

TypeInv ==
    /\ elem \in Seq(Element)
    /\ queue \in [Peer -> Queues]
    /\ encryption \in Seq(Nat)
    /\ nonce \in [Peer -> Routine]
    /\ sender \in [Peer -> Routine]
    /\ worker \in [Worker -> Nat \cup {Nil}]
    /\ keys \in [Peer -> KeyPairs]
    /\ last \in [Peer -> Nat]

\* The line of p grows from the last element p transmitted.
LineSorted(p) ==
    /\ Sorted(queue[p].nonce) /\ Sorted(queue[p].outbound)
    /\ Before({last[p]}, Line(p))
    /\ Before(Sending(p), Ready(p) \cup Held(p) \cup Queued(p))
    /\ Before(Ready(p), Held(p) \cup Queued(p))
    /\ Before(Held(p), Queued(p))

\* What is in the line of p, or in the encryption queue or with a worker, is an
\* element, in the line one of p.
LineOwned(p) ==
    /\ last[p] <= Len(elem)
    /\ \A e \in Line(p) : e \in 1 .. Len(elem) /\ elem[e].peer = p
    /\ sender[p].pc # "lock" => sender[p].elem = 0

CarriersOwned ==
    /\ \A e \in Range(encryption) : e \in 1 .. Len(elem)
    /\ \A w \in Worker : worker[w] # Nil => worker[w] <= Len(elem)

Owned == CarriersOwned /\ \A p \in Peer : LineOwned(p)

\* A key pair has counted every nonce given under it.
Counted ==
    /\ \A e \in 1 .. Len(elem) :
          elem[e].key # 0 => elem[e].nonce < keys[elem[e].peer].sendNonce[elem[e].key]
    /\ \A p \in Peer : nonce[p].pc = "assign" => nonce[p].key # 0

\* An element that has its nonce is locked, dropped or encrypted, and those that have
\* come past RoutineNonce have theirs.
Guarded ==
    /\ \A e \in 1 .. Len(elem) :
          elem[e].key # 0 => elem[e].locked \/ elem[e].dropped \/ elem[e].sealed
    /\ \A p \in Peer : \A e \in Given(p) : elem[e].key # 0

Carried(e) == e \in Range(encryption) \/ \E w \in Worker : worker[w] = e

\* While the device is open a locked element that the sender of p will meet is to be
\* encrypted: it is carried, and a worker will not skip it.
Holding ==
    device = "open" =>
        \A p \in Peer :
            /\ \A e \in Flight(p) : elem[e].locked => Carried(e) /\ ~elem[e].dropped
            /\ nonce[p].pc = "encrypt" /\ elem[nonce[p].elem].locked =>
                  ~elem[nonce[p].elem].dropped

IInv ==
    /\ TypeInv
    /\ \A p \in Peer : LineSorted(p)
    /\ Owned
    /\ Counted /\ NonceUsedOnce /\ NonceBelowLimit
    /\ Guarded
    /\ Holding

-----------------------------------------------------------------------------
(* Sequences of elements.                                                  *)

\* Taking the head off a queue.
LEMMA TailFacts ==
    ASSUME NEW s \in Seq(Nat), s # <<>>
    PROVE  /\ Tail(s) \in Seq(Nat)
           /\ Head(s) \in Range(s) /\ Head(s) \in Nat
           /\ Range(s) = {Head(s)} \cup Range(Tail(s))
           /\ Sorted(s) => Sorted(Tail(s)) /\ Before({Head(s)}, Range(Tail(s)))
<1>1. Len(s) \in Nat \ {0} /\ Tail(s) \in Seq(Nat) /\ Len(Tail(s)) = Len(s) - 1
  BY SMT
<1>2. \A i \in 1 .. Len(s) : s[i] \in Nat
  BY SMT
<1>3. \A i \in 1 .. Len(Tail(s)) : Tail(s)[i] = s[i + 1]
  BY SMT
<1>4. Head(s) = s[1]
  BY SMT
<1>5. Head(s) \in Range(s) /\ Head(s) \in Nat
  BY <1>1, <1>2, <1>4, SMT DEF Range
<1>6. Range(Tail(s)) \subseteq Range(s)
  BY <1>1, <1>3, SMT DEF Range
<1>7. Range(s) \subseteq {Head(s)} \cup Range(Tail(s))
  <2> SUFFICES ASSUME NEW i \in 1 .. Len(s), i # 1
               PROVE  s[i] \in Range(Tail(s))
    BY <1>4 DEF Range
  <2>1. i - 1 \in 1 .. Len(Tail(s)) /\ Tail(s)[i - 1] = s[i]
    BY <1>1, <1>3, SMT
  <2>2. QED
    BY <2>1 DEF Range
<1>8. ASSUME Sorted(s)
      PROVE  Sorted(Tail(s)) /\ Before({Head(s)}, Range(Tail(s)))
  <2>1. \A i \in 1 .. Len(Tail(s)) : i + 1 \in 1 .. Len(s)
    BY <1>1, SMT
  <2>2. Sorted(Tail(s))
    BY <1>1, <1>3, <1>8, <2>1, SMT DEF Sorted
  <2>3. \A i \in 1 .. Len(Tail(s)) : s[1] < Tail(s)[i]
    BY <1>1, <1>3, <1>8, <2>1, SMT DEF Sorted
  <2>4. QED
    BY <1>4, <2>2, <2>3 DEF Before, Range
<1>9. QED
  BY <1>1, <1>5, <1>6, <1>7, <1>8

\* Putting an element at the end of a queue.
LEMMA AppendFacts ==
    ASSUME NEW s \in Seq(Nat), NEW x \in Nat
    PROVE  /\ Append(s, x) \in Seq(Nat)
           /\ Range(Append(s, x)) = Range(s) \cup {x}
           /\ Sorted(s) /\ Before(Range(s), {x}) => Sorted(Append(s, x))
<1>1. Len(s) \in Nat /\ Append(s, x) \in Seq(Nat) /\ Len(Append(s, x)) = Len(s) + 1
  BY SMT
<1>2. /\ \A i \in 1 .. Len(s) : Append(s, x)[i] = s[i] /\ s[i] \in Range(s)
      /\ Append(s, x)[Len(s) + 1] = x
  BY SMT DEF Range
<1>3. \A i \in 1 .. Len(Append(s, x)) : i \in 1 .. Len(s) \/ i = Len(s) + 1
  BY <1>1, SMT
<1>4. Range(Append(s, x)) \subseteq Range(s) \cup {x}
  BY <1>2, <1>3 DEF Range
<1>5. Range(s) \cup {x} \subseteq Range(Append(s, x))
  <2>1. Len(s) + 1 \in 1 .. Len(Append(s, x))
    BY <1>1, SMT
  <2>2. \A i \in 1 .. Len(s) : i \in 1 .. Len(Append(s, x))
    BY <1>1, SMT
  <2>3. QED
    BY <1>2, <2>1, <2>2 DEF Range
<1>6. ASSUME Sorted(s), Before(Range(s), {x})
      PROVE  Sorted(Append(s, x))
  <2> SUFFICES ASSUME NEW i \in 1 .. Len(s) + 1, NEW j \in 1 .. Len(s) + 1, i < j
               PROVE  Append(s, x)[i] < Append(s, x)[j]
    BY <1>1 DEF Sorted
  <2>1. i \in 1 .. Len(s)
    BY <1>1, SMT
  <2>2. CASE j \in 1 .. Len(s)
    BY <1>2, <1>6, <2>1, <2>2 DEF Sorted
  <2>3. CASE j = Len(s) + 1
    BY <1>2, <1>6, <2>1, <2>3 DEF Before
  <2>4. QED
    BY <1>1, <2>2, <2>3, SMT
<1>7. QED
  BY <1>1, <1>4, <1>5, <1>6

\* An empty queue.
LEMMA EmptyFacts == Range(<<>>) = {} /\ Sorted(<<>>)
BY SMT DEF Range, Sorted

\* Rewriting one element.
LEMMA Rewritten ==
    ASSUME NEW s \in Seq(Element), NEW e \in 1 .. Len(s), NEW x \in Element
    PROVE  LET t == [s EXCEPT ![e] = x] IN
           /\ t \in Seq(Element) /\ Len(t) = Len(s)
           /\ \A i \in 1 .. Len(s) : t[i] = IF i = e THEN x ELSE s[i]
<1> DEFINE t == [s EXCEPT ![e] = x]
<1>1. Len(s) \in Nat /\ DOMAIN s = 1 .. Len(s) /\ \A i \in 1 .. Len(s) : s[i] \in Element
  BY SMT
<1>2. t \in [1 .. Len(s) -> Element]
  BY <1>1
<1>3. t \in Seq(Element) /\ Len(t) = Len(s)
  BY <1>1, <1>2, SMT
<1>4. QED
  BY <1>1, <1>3

\* The fields of an element.
LEMMA ElementFacts ==
    ASSUME TypeInv, NEW e \in 1 .. Len(elem)
    PROVE  /\ elem[e] \in Element
           /\ elem[e].peer \in Peer /\ elem[e].key \in 0 .. MaxKeys /\ elem[e].nonce \in Nat
<1>1. elem \in Seq(Element)
  BY DEF TypeInv
<1>2. elem[e] \in Element
  BY <1>1, SMT
<1>3. QED
  BY <1>2 DEF Element

-----------------------------------------------------------------------------
(* Records.                                                                *)

\* What the steps write into peer.queue.
LEMMA QueuesFacts ==
    ASSUME NEW q \in Queues
    PROVE  /\ q.nonce \in Seq(Nat) /\ q.outbound \in Seq(Nat)
           /\ \A s \in Seq(Nat) :
                 LET r == [q EXCEPT !.nonce = s] IN
                 r \in Queues /\ r.nonce = s /\ r.outbound = q.outbound
           /\ \A s \in Seq(Nat) :
                 LET r == [q EXCEPT !.outbound = s] IN
                 r \in Queues /\ r.nonce = q.nonce /\ r.outbound = s
           /\ \A b \in BOOLEAN :
                 LET r == [q EXCEPT !.awaiting = b] IN
                 r \in Queues /\ r.nonce = q.nonce /\ r.outbound = q.outbound
           /\ LET r == [q EXCEPT !.closed = TRUE] IN
              r \in Queues /\ r.nonce = q.nonce /\ r.outbound = q.outbound
BY DEF Queues

\* What the steps write into the state of a routine.
LEMMA RoutineFacts ==
    ASSUME NEW r \in Routine
    PROVE  /\ r.pc \in Place /\ r.elem \in Nat /\ r.key \in 0 .. MaxKeys
           /\ \A c \in Place :
                 LET t == [r EXCEPT !.pc = c] IN
                 t \in Routine /\ t.pc = c /\ t.elem = r.elem /\ t.key = r.key
BY DEF Routine

\* A new state of a routine.
LEMMA AtFacts ==
    ASSUME NEW c \in Place, NEW e \in Nat, NEW k \in 0 .. MaxKeys
    PROVE  LET t == At(c, e, k) IN
           t \in Routine /\ t.pc = c /\ t.elem = e /\ t.key = k
BY DEF Routine, At

\* What the steps write into peer.keyPairs.
LEMMA KeyPairsFacts ==
    ASSUME NEW k \in KeyPairs
    PROVE  /\ k.current \in 0 .. MaxKeys /\ k.made \in 0 .. MaxKeys
           /\ k.sendNonce \in [1 .. MaxKeys -> Nat]
           /\ \A b \in BOOLEAN :
                 LET r == [k EXCEPT !.arriving = b] IN
                 r \in KeyPairs /\ r.sendNonce = k.sendNonce
           /\ \A b \in BOOLEAN :
                 LET r == [k EXCEPT !.fresh = b] IN
                 r \in KeyPairs /\ r.sendNonce = k.sendNonce
           /\ \A c \in 0 .. MaxKeys :
                 LET r == [k EXCEPT !.current = c] IN
                 r \in KeyPairs /\ r.sendNonce = k.sendNonce
           /\ \A c \in 0 .. MaxKeys :
                 LET r == [k EXCEPT !.current = c, !.made = c, !.fresh = TRUE] IN
                 r \in KeyPairs /\ r.sendNonce = k.sendNonce
           /\ \A f \in [1 .. MaxKeys -> Nat] :
                 LET r == [k EXCEPT !.sendNonce = f] IN
                 r \in KeyPairs /\ r.sendNonce = f
BY DEF KeyPairs

-----------------------------------------------------------------------------
(* A step that changes the state of one peer.                              *)

Only(f, g, p) == \A r \in Peer : r # p => g[r] = f[r]

\* RoutineNonce of p goes to c with the element e and the key pair k.
NonceBecomes(p, c, e, k) ==
    /\ nonce' \in [Peer -> Routine] /\ Only(nonce, nonce', p)
    /\ nonce'[p].pc = c /\ nonce'[p].elem = e /\ nonce'[p].key = k

SenderBecomes(p, c, e) ==
    /\ sender' \in [Peer -> Routine] /\ Only(sender, sender', p)
    /\ sender'[p].pc = c /\ sender'[p].elem = e

QueueBecomes(p, s, t) ==
    /\ queue' \in [Peer -> Queues] /\ Only(queue, queue', p)
    /\ queue'[p].nonce = s /\ queue'[p].outbound = t

\* The key pairs of p change, and not what was counted under them.
KeysTurn(p) ==
    /\ keys' \in [Peer -> KeyPairs] /\ Only(keys, keys', p)
    /\ keys'[p].sendNonce = keys[p].sendNonce

\* The forms in which the steps change RoutineNonce.
LEMMA NonceMoves ==
    ASSUME TypeInv, NEW p \in Peer, NEW c \in Place,
           nonce' = [nonce EXCEPT ![p].pc = c]
    PROVE  NonceBecomes(p, c, nonce[p].elem, nonce[p].key)
<1>1. nonce \in [Peer -> Routine] /\ nonce[p] \in Routine
  BY DEF TypeInv
<1>2. PICK x \in Routine : /\ x.pc = c /\ x.elem = nonce[p].elem /\ x.key = nonce[p].key
                           /\ nonce' = [nonce EXCEPT ![p] = x]
  BY <1>1, RoutineFacts
<1>3. QED
  BY <1>1, <1>2 DEF NonceBecomes, Only

\* The forms in which the steps change RoutineNonce.
LEMMA NonceSet ==
    ASSUME TypeInv, NEW p \in Peer, NEW c \in Place, NEW e \in Nat, NEW k \in 0 .. MaxKeys,
           nonce' = [nonce EXCEPT ![p] = At(c, e, k)]
    PROVE  NonceBecomes(p, c, e, k)
<1>1. nonce \in [Peer -> Routine]
  BY DEF TypeInv
<1>2. QED
  BY <1>1, AtFacts, SMT DEF NonceBecomes, Only

\* The form in which the steps change RoutineSequentialSender.
LEMMA SenderSet ==
    ASSUME TypeInv, NEW p \in Peer, NEW c \in Place, NEW e \in Nat,
           sender' = [sender EXCEPT ![p] = At(c, e, 0)]
    PROVE  SenderBecomes(p, c, e)
<1>1. sender \in [Peer -> Routine] /\ 0 \in 0 .. MaxKeys
  BY OutboundAssumption, SMT DEF TypeInv
<1>2. QED
  BY <1>1, AtFacts, SMT DEF SenderBecomes, Only

\* The forms in which the steps change the queues of a peer.
LEMMA QueueSet ==
    ASSUME TypeInv, NEW p \in Peer
    PROVE  /\ queue[p].nonce \in Seq(Nat) /\ queue[p].outbound \in Seq(Nat)
           /\ \A s \in Seq(Nat) : queue' = [queue EXCEPT ![p].nonce = s] =>
                 QueueBecomes(p, s, queue[p].outbound)
           /\ \A s \in Seq(Nat) : queue' = [queue EXCEPT ![p].outbound = s] =>
                 QueueBecomes(p, queue[p].nonce, s)
           /\ \A b \in BOOLEAN : queue' = [queue EXCEPT ![p].awaiting = b] =>
                 QueueBecomes(p, queue[p].nonce, queue[p].outbound)
           /\ queue' = [queue EXCEPT ![p].closed = TRUE] =>
                 QueueBecomes(p, queue[p].nonce, queue[p].outbound)
           /\ queue' = [queue EXCEPT ![p] = NewQueues] => QueueBecomes(p, <<>>, <<>>)
           /\ queue' = [queue EXCEPT ![p].nonce = <<>>, ![p].awaiting = FALSE] =>
                 QueueBecomes(p, <<>>, queue[p].outbound)
<1>0. <<>> \in Seq(Nat)
  BY SMT
<1>1. queue \in [Peer -> Queues] /\ queue[p] \in Queues
  BY DEF TypeInv
<1>2. queue[p].nonce \in Seq(Nat) /\ queue[p].outbound \in Seq(Nat)
  BY <1>1, QueuesFacts
<1>3. ASSUME NEW s \in Seq(Nat), queue' = [queue EXCEPT ![p].nonce = s]
      PROVE  QueueBecomes(p, s, queue[p].outbound)
  <2>1. PICK x \in Queues : /\ x.nonce = s /\ x.outbound = queue[p].outbound
                            /\ queue' = [queue EXCEPT ![p] = x]
    BY <1>1, <1>3, QueuesFacts
  <2>2. QED
    BY <1>1, <2>1 DEF QueueBecomes, Only
<1>4. ASSUME NEW s \in Seq(Nat), queue' = [queue EXCEPT ![p].outbound = s]
      PROVE  QueueBecomes(p, queue[p].nonce, s)
  <2>1. PICK x \in Queues : /\ x.nonce = queue[p].nonce /\ x.outbound = s
                            /\ queue' = [queue EXCEPT ![p] = x]
    BY <1>1, <1>4, QueuesFacts
  <2>2. QED
    BY <1>1, <2>1 DEF QueueBecomes, Only
<1>5. ASSUME NEW b \in BOOLEAN, \/ queue' = [queue EXCEPT ![p].awaiting = b]
                                \/ queue' = [queue EXCEPT ![p].closed = TRUE]
      PROVE  QueueBecomes(p, queue[p].nonce, queue[p].outbound)
  <2>1. PICK x \in Queues : /\ x.nonce = queue[p].nonce /\ x.outbound = queue[p].outbound
                            /\ queue' = [queue EXCEPT ![p] = x]
    BY <1>1, <1>5, QueuesFacts
  <2>2. QED
    BY <1>1, <2>1 DEF QueueBecomes, Only
<1>6. ASSUME queue' = [queue EXCEPT ![p] = NewQueues]
      PROVE  QueueBecomes(p, <<>>, <<>>)
  <2>1. NewQueues \in Queues /\ NewQueues.nonce = <<>> /\ NewQueues.outbound = <<>>
    BY SMT DEF NewQueues, Queues
  <2>2. QED
    BY <1>1, <1>6, <2>1 DEF QueueBecomes, Only
<1>7. ASSUME queue' = [queue EXCEPT ![p].nonce = <<>>, ![p].awaiting = FALSE]
      PROVE  QueueBecomes(p, <<>>, queue[p].outbound)
  <2>1. PICK y \in Queues : /\ y.nonce = <<>> /\ y.outbound = queue[p].outbound
                            /\ y = [queue[p] EXCEPT !.nonce = <<>>]
    BY <1>1, <1>0, QueuesFacts
  <2>2. PICK x \in Queues : /\ x.nonce = <<>> /\ x.outbound = queue[p].outbound
                            /\ x = [y EXCEPT !.awaiting = FALSE]
    BY <2>1, QueuesFacts
  <2>3. queue' = [queue EXCEPT ![p] = x]
    BY <1>1, <1>7, <2>1, <2>2
  <2>4. QED
    BY <1>1, <2>2, <2>3 DEF QueueBecomes, Only
<1>8. QED
  BY <1>2, <1>3, <1>4, <1>5, <1>6, <1>7

\* The forms in which the steps change peer.keyPairs, other than to count a nonce.
LEMMA KeysSet ==
    ASSUME TypeInv, NEW p \in Peer,
           \/ \E b \in BOOLEAN : keys' = [keys EXCEPT ![p].arriving = b]
           \/ \E b \in BOOLEAN : keys' = [keys EXCEPT ![p].fresh = b]
           \/ keys' = [keys EXCEPT ![p].current = 0]
           \/ /\ keys[p].made < MaxKeys
              /\ \/ keys' = [keys EXCEPT ![p] = NewCurrent(p)]
                 \/ keys' = [keys EXCEPT ![p] = [NewCurrent(p) EXCEPT !.arriving = TRUE]]
    PROVE  KeysTurn(p)
<1>1. keys \in [Peer -> KeyPairs] /\ keys[p] \in KeyPairs
  BY DEF TypeInv
<1> keys[p].made \in 0 .. MaxKeys
  BY <1>1, KeyPairsFacts
<1>2. /\ 0 \in 0 .. MaxKeys
      /\ keys[p].made < MaxKeys => keys[p].made + 1 \in 0 .. MaxKeys
  BY OutboundAssumption, SMT
<1>3. keys[p].made < MaxKeys =>
        NewCurrent(p) \in KeyPairs /\ NewCurrent(p).sendNonce = keys[p].sendNonce
  BY <1>1, <1>2, KeyPairsFacts DEF NewCurrent
<1>4. PICK x \in KeyPairs : x.sendNonce = keys[p].sendNonce /\ keys' = [keys EXCEPT ![p] = x]
  BY <1>1, <1>2, <1>3, KeyPairsFacts
<1>5. QED
  BY <1>1, <1>4 DEF KeysTurn, Only
-----------------------------------------------------------------------------
(* Steps in which the elements move along their lines.                     *)

NonceStays(p) ==
    /\ nonce'[p].pc = nonce[p].pc /\ nonce'[p].elem = nonce[p].elem
    /\ nonce'[p].key = nonce[p].key

\* The elements keep their peer, key pair and nonce.
TagsKept ==
    /\ Len(elem') = Len(elem)
    /\ \A e \in 1 .. Len(elem) :
          /\ elem'[e].peer = elem[e].peer /\ elem'[e].key = elem[e].key
          /\ elem'[e].nonce = elem[e].nonce

\* The elements of p move along, and no nonce is given.
LineMoves(p) ==
    /\ LineSorted(p)' /\ Line(p)' \subseteq Line(p) /\ Given(p)' \subseteq Given(p)
    /\ last'[p] <= Len(elem)
    /\ sender'[p].pc # "lock" => sender'[p].elem = 0
    /\ keys'[p].sendNonce = keys[p].sendNonce
    /\ nonce'[p].pc = "assign" =>
          \/ NonceStays(p)
          \/ /\ nonce'[p].key # 0
             /\ keys[p].sendNonce[nonce'[p].key] < RejectAfterMessages

MarksGuard ==
    \A e \in 1 .. Len(elem) :
        elem[e].key # 0 => elem'[e].locked \/ elem'[e].dropped \/ elem'[e].sealed

\* As long as no nonce is given, the counts stay right.
LEMMA CountKept ==
    ASSUME IInv, TypeInv', TagsKept,
           \A p \in Peer : LineMoves(p)
    PROVE  Counted' /\ NonceBelowLimit' /\ NonceUsedOnce'
<1>1. \A e \in 1 .. Len(elem) : elem[e].peer \in Peer
  BY ElementFacts DEF IInv
<1>2. \A p \in Peer : nonce'[p].pc = "assign" =>
          /\ nonce'[p].key # 0
          /\ keys[p].sendNonce[nonce'[p].key] < RejectAfterMessages
  BY DEF IInv, Counted, NonceBelowLimit, NonceStays, LineMoves
<1>3. Counted' /\ NonceBelowLimit'
  BY <1>1, <1>2, SMT DEF IInv, Counted, NonceBelowLimit, TagsKept, LineMoves
<1>4. DOMAIN elem = 1 .. Len(elem) /\ DOMAIN elem' = 1 .. Len(elem)
  BY SMT DEF IInv, TypeInv, TagsKept
<1>5. NonceUsedOnce'
  BY <1>4, SMT DEF IInv, NonceUsedOnce, TagsKept
<1>6. QED
  BY <1>3, <1>5

\* Such a step preserves the invariant, if the marks it sets do.
LEMMA MovedInv ==
    ASSUME IInv, TypeInv', \A p \in Peer : LineMoves(p), TagsKept,
           CarriersOwned', MarksGuard, Holding'
    PROVE  IInv'
<1>1. Owned'
  <2>1. ASSUME NEW p \in Peer
        PROVE  LineOwned(p)'
    BY DEF IInv, Owned, LineOwned, LineMoves, TagsKept
  <2>2. QED
    BY <2>1 DEF Owned, CarriersOwned
<1>2. Counted' /\ NonceBelowLimit' /\ NonceUsedOnce'
  BY CountKept
<1>3. Guarded'
  <2>1. \A p \in Peer : Given(p) \subseteq Line(p)
    BY DEF Given, Line, Held, Busy
  <2>2. \A p \in Peer : \A e \in Line(p) : elem'[e].key = elem[e].key
    BY DEF IInv, Owned, LineOwned, TagsKept
  <2>3. ASSUME NEW p \in Peer, NEW e \in Given(p)'
        PROVE  elem'[e].key # 0
    BY <2>1, <2>2, SMT DEF IInv, Guarded, LineMoves
  <2>4. QED
    BY <2>3 DEF Guarded, MarksGuard, TagsKept
<1>4. QED
  BY <1>1, <1>2, <1>3 DEF IInv, LineMoves

-----------------------------------------------------------------------------
(* Steps that at most shorten the lines.                                   *)

Shortens(s, t) == Range(t) \subseteq Range(s) /\ (Sorted(s) => Sorted(t))

\* RoutineNonce stays where it is, lets go of its element or, before it gives it a
\* nonce, turns to another key pair.
NonceThins(p) ==
    \/ NonceStays(p)
    \/ nonce'[p].pc \in {"idle", "stopped"}
    \/ /\ nonce[p].pc \in Busy /\ nonce'[p].elem = nonce[p].elem
       /\ \/ nonce'[p].pc \in {"check", "drain", "initiate", "await"}
          \/ /\ nonce'[p].pc = "assign" /\ nonce'[p].key # 0
             /\ keys[p].sendNonce[nonce'[p].key] < RejectAfterMessages

LineThins(p) ==
    /\ Shortens(queue[p].nonce, queue'[p].nonce)
    /\ Shortens(queue[p].outbound, queue'[p].outbound)
    /\ \/ sender'[p].pc = sender[p].pc /\ sender'[p].elem = sender[p].elem
       \/ sender'[p].pc # "lock" /\ sender'[p].elem = 0
    /\ NonceThins(p)
    /\ keys'[p].sendNonce = keys[p].sendNonce

WorkersKept ==
    /\ device' = "open" => device = "open" /\ worker' = worker
    /\ \A w \in Worker : worker'[w] = worker[w] \/ worker'[w] = Nil

\* A line that only lost elements is still sorted.
LEMMA ShorterLine ==
    ASSUME NEW p \in Peer, LineSorted(p),
           Sorted(queue'[p].nonce), Sorted(queue'[p].outbound), last'[p] = last[p],
           Queued(p)' \subseteq Queued(p), Held(p)' \subseteq Held(p),
           Ready(p)' \subseteq Ready(p), Sending(p)' \subseteq Sending(p)
    PROVE  LineSorted(p)'
BY DEF LineSorted, Line, Before

\* What a step of this kind leaves in the line of a peer was there before.
LEMMA ThinnerLine ==
    ASSUME NEW p \in Peer, LineThins(p)
    PROVE  /\ Queued(p)' \subseteq Queued(p) /\ Held(p)' \subseteq Held(p)
           /\ Ready(p)' \subseteq Ready(p) /\ Sending(p)' \subseteq Sending(p)
           /\ Flight(p)' \subseteq Flight(p) /\ Given(p)' \subseteq Given(p)
<1>1. Queued(p)' \subseteq Queued(p) /\ Ready(p)' \subseteq Ready(p)
  BY DEF LineThins, Shortens, Queued, Ready
<1>2. Sending(p)' \subseteq Sending(p)
  BY DEF LineThins, Sending
<1>3. Held(p)' \subseteq Held(p)
  BY DEF LineThins, NonceThins, NonceStays, Held, Busy
<1>4. nonce'[p].pc \in {"encrypt", "outbound"} => NonceStays(p)
  BY DEF LineThins, NonceThins, NonceStays
<1>5. QED
  BY <1>1, <1>2, <1>3, <1>4 DEF Flight, Given, NonceStays

\* The steps of this kind preserve the invariant, if the marks they set do.
LEMMA ShortenedInv ==
    ASSUME IInv, TypeInv', \A p \in Peer : LineThins(p), last' = last,
           TagsKept, CarriersOwned', MarksGuard, Holding'
    PROVE  IInv'
<1>1. ASSUME NEW p \in Peer
      PROVE  LineSorted(p)'
  <2>1. LineSorted(p) /\ LineThins(p)
    BY DEF IInv
  <2>2. Sorted(queue'[p].nonce) /\ Sorted(queue'[p].outbound)
    BY <2>1 DEF LineThins, LineSorted, Shortens
  <2>3. QED
    BY <2>1, <2>2, ThinnerLine, ShorterLine
<1>2. ASSUME NEW p \in Peer
      PROVE  LineMoves(p)
  <2>1. Line(p)' \subseteq Line(p) /\ Given(p)' \subseteq Given(p)
    BY ThinnerLine DEF Line
  <2>2. QED
    BY <1>1, <2>1 DEF IInv, Owned, LineOwned, LineMoves, LineThins, NonceThins
<1>3. QED
  BY <1>2, MovedInv

\* In particular the steps that leave the elements alone.
LEMMA ThinnedInv ==
    ASSUME IInv, TypeInv', \A p \in Peer : LineThins(p), WorkersKept,
           elem' = elem, encryption' = encryption, last' = last
    PROVE  IInv'
<1>1. Holding'
  <2> SUFFICES ASSUME device' = "open", NEW p \in Peer
               PROVE  /\ \A e \in Flight(p)' : elem[e].locked => Carried(e)' /\ ~elem[e].dropped
                      /\ nonce'[p].pc = "encrypt" /\ elem[nonce'[p].elem].locked =>
                            ~elem[nonce'[p].elem].dropped
    BY DEF Holding
  <2>1. nonce'[p].pc = "encrypt" => NonceStays(p)
    BY DEF LineThins, NonceThins, NonceStays
  <2>2. device = "open" /\ worker' = worker
    BY DEF WorkersKept
  <2>3. \A e \in Flight(p) : elem[e].locked => Carried(e) /\ ~elem[e].dropped
    BY <2>2 DEF IInv, Holding
  <2>4. \A e : Carried(e)' <=> Carried(e)
    BY <2>2 DEF Carried
  <2>5. Flight(p)' \subseteq Flight(p)
    BY ThinnerLine
  <2>6. QED
    BY <2>1, <2>2, <2>3, <2>4, <2>5 DEF IInv, Holding, NonceStays
<1>2. TagsKept /\ CarriersOwned'
  BY DEF IInv, Owned, TagsKept, CarriersOwned, WorkersKept
<1>3. MarksGuard
  BY DEF IInv, Guarded, MarksGuard
<1>4. QED
  BY <1>1, <1>2, <1>3, ShortenedInv

\* Steps that leave the other peers alone.
LEMMA OneThinned ==
    ASSUME IInv, NEW p \in Peer, LineThins(p), WorkersKept,
           elem' = elem, encryption' = encryption, last' = last,
           worker' \in [Worker -> Nat \cup {Nil}],
           queue' \in [Peer -> Queues], nonce' \in [Peer -> Routine],
           sender' \in [Peer -> Routine], keys' \in [Peer -> KeyPairs],
           Only(queue, queue', p), Only(nonce, nonce', p),
           Only(sender, sender', p), Only(keys, keys', p)
    PROVE  IInv'
<1>1. TypeInv'
  BY DEF IInv, TypeInv
<1>2. ASSUME NEW q \in Peer, q # p
      PROVE  LineThins(q)
  BY <1>2 DEF LineThins, NonceThins, NonceStays, Shortens, Only
<1>3. QED
  BY <1>1, <1>2, ThinnedInv

\* The waits of RoutineNonce and of RoutineSequentialSender for a lock, the routines that
\* return, new and old key pairs, and Peer.Stop and Peer.Start.
LEMMA QuietInv ==
    ASSUME IInv, NEW p \in Peer,
           \/ NonceDrain(p) \/ NonceInitiate(p) \/ NonceArrived(p) \/ NonceFlush(p)
           \/ NonceStop(p) \/ SenderPasses(p) \/ SenderStop(p)
           \/ InitiatorKeypair(p) \/ ResponderKeypair(p) \/ KeypairExpires(p)
           \/ StopFinish(p) \/ Start(p)
    PROVE  IInv'
<1>a. /\ TypeInv /\ {"idle", "stopped", "check", "initiate", "await"} \subseteq Place
      /\ 0 \in 0 .. MaxKeys /\ 0 \in Nat /\ TRUE \in BOOLEAN /\ FALSE \in BOOLEAN
  BY OutboundAssumption, SMT DEF IInv, Place, Busy
<1>b. /\ queue \in [Peer -> Queues] /\ nonce \in [Peer -> Routine]
      /\ sender \in [Peer -> Routine] /\ keys \in [Peer -> KeyPairs]
      /\ worker \in [Worker -> Nat \cup {Nil}]
  BY <1>a DEF TypeInv
<1>1. CASE NonceDrain(p)
  <2>1. PICK c \in {"initiate", "await"} : nonce' = [nonce EXCEPT ![p].pc = c]
    BY <1>1 DEF NonceDrain
  <2>2. c \in Place
    BY <1>a
  <2>3. NonceBecomes(p, c, nonce[p].elem, nonce[p].key)
    BY <1>a, <2>1, <2>2, NonceMoves
  <2>4. LineThins(p)
    BY <1>1, <2>3, EmptyFacts
       DEF NonceDrain, NonceBecomes, LineThins, NonceThins, NonceStays, Shortens, Busy
  <2>5. QED
    BY <1>b, <1>1, <2>3, <2>4, OneThinned DEF NonceDrain, NonceBecomes, Only, WorkersKept
<1>2. CASE NonceArrived(p)
  <2>1. NonceBecomes(p, "check", nonce[p].elem, nonce[p].key)
    BY <1>a, <1>2, NonceMoves DEF NonceArrived
  <2>2. LineThins(p)
    BY <1>2, <2>1, EmptyFacts
       DEF NonceArrived, NonceBecomes, LineThins, NonceThins, NonceStays, Shortens, Busy
  <2>3. QED
    BY <1>b, <1>2, <2>1, <2>2, OneThinned DEF NonceArrived, NonceBecomes, Only, WorkersKept
<1>3. CASE NonceFlush(p)
  <2>1. NonceBecomes(p, "idle", 0, 0)
    BY <1>a, <1>3, NonceSet DEF NonceFlush
  <2>2. QueueBecomes(p, <<>>, queue[p].outbound)
    BY <1>a, <1>3, QueueSet DEF NonceFlush
  <2>3. LineThins(p)
    BY <1>3, <2>1, <2>2, EmptyFacts
       DEF NonceFlush, NonceBecomes, QueueBecomes, LineThins, NonceThins, NonceStays, Shortens,
           Busy
  <2>4. QED
    BY <1>b, <1>3, <2>1, <2>2, <2>3, OneThinned
       DEF NonceFlush, NonceBecomes, QueueBecomes, Only, WorkersKept
<1>4. CASE NonceStop(p)
  <2>1. NonceBecomes(p, "stopped", 0, 0)
    BY <1>a, <1>4, NonceSet DEF NonceStop
  <2>2. QueueBecomes(p, queue[p].nonce, queue[p].outbound)
    BY <1>a, <1>4, QueueSet DEF NonceStop
  <2>3. LineThins(p)
    BY <1>4, <2>1, <2>2, EmptyFacts
       DEF NonceStop, NonceBecomes, QueueBecomes, LineThins, NonceThins, NonceStays, Shortens,
           Busy
  <2>4. QED
    BY <1>b, <1>4, <2>1, <2>2, <2>3, OneThinned
       DEF NonceStop, NonceBecomes, QueueBecomes, Only, WorkersKept
<1>5. CASE SenderStop(p)
  <2>1. SenderBecomes(p, "stopped", 0)
    BY <1>a, <1>5, SenderSet DEF SenderStop
  <2>2. LineThins(p)
    BY <1>5, <2>1, EmptyFacts
       DEF SenderStop, SenderBecomes, LineThins, NonceThins, NonceStays, Shortens, Busy
  <2>3. QED
    BY <1>b, <1>5, <2>1, <2>2, OneThinned DEF SenderStop, SenderBecomes, Only, WorkersKept
<1>6. CASE InitiatorKeypair(p)
  <2>1. KeysTurn(p)
    BY <1>a, <1>6, KeysSet DEF InitiatorKeypair
  <2>2. LineThins(p)
    BY <1>6, <2>1, EmptyFacts
       DEF InitiatorKeypair, KeysTurn, LineThins, NonceThins, NonceStays, Shortens, Busy
  <2>3. QED
    BY <1>b, <1>6, <2>1, <2>2, OneThinned
       DEF InitiatorKeypair, KeysTurn, Only, WorkersKept
<1>7. CASE ResponderKeypair(p)
  <2>1. KeysTurn(p)
    BY <1>a, <1>7, KeysSet DEF ResponderKeypair
  <2>2. LineThins(p)
    BY <1>7, <2>1, EmptyFacts
       DEF ResponderKeypair, KeysTurn, LineThins, NonceThins, NonceStays, Shortens, Busy
  <2>3. QED
    BY <1>b, <1>7, <2>1, <2>2, OneThinned DEF ResponderKeypair, KeysTurn, Only, WorkersKept
<1>8. CASE KeypairExpires(p)
  <2>1. KeysTurn(p)
    BY <1>a, <1>8, KeysSet DEF KeypairExpires
  <2>2. LineThins(p)
    BY <1>8, <2>1, EmptyFacts
       DEF KeypairExpires, KeysTurn, LineThins, NonceThins, NonceStays, Shortens, Busy
  <2>3. QED
    BY <1>b, <1>8, <2>1, <2>2, OneThinned DEF KeypairExpires, KeysTurn, Only, WorkersKept
<1>9. CASE StopFinish(p)
  <2>1. QueueBecomes(p, queue[p].nonce, queue[p].outbound)
    BY <1>a, <1>9, QueueSet DEF StopFinish
  <2>2. KeysTurn(p)
    BY <1>a, <1>9, KeysSet DEF StopFinish
  <2>3. LineThins(p)
    BY <1>9, <2>1, <2>2, EmptyFacts
       DEF StopFinish, QueueBecomes, KeysTurn, LineThins, NonceThins, NonceStays, Shortens,
           Busy
  <2>4. QED
    BY <1>b, <1>9, <2>1, <2>2, <2>3, OneThinned
       DEF StopFinish, QueueBecomes, KeysTurn, Only, WorkersKept
<1>10. CASE Start(p)
  <2>1. NonceBecomes(p, "idle", 0, 0)
    BY <1>a, <1>10, NonceSet DEF Start
  <2>2. SenderBecomes(p, "idle", 0)
    BY <1>a, <1>10, SenderSet DEF Start
  <2>3. QueueBecomes(p, <<>>, <<>>)
    BY <1>a, <1>10, QueueSet DEF Start
  <2>4. LineThins(p)
    BY <1>10, <2>1, <2>2, <2>3, EmptyFacts
       DEF Start, NonceBecomes, SenderBecomes, QueueBecomes, LineThins, NonceThins, NonceStays,
           Shortens, Busy
  <2>5. QED
    BY <1>b, <1>10, <2>1, <2>2, <2>3, <2>4, OneThinned
       DEF Start, NonceBecomes, SenderBecomes, QueueBecomes, Only, WorkersKept
<1>11. CASE NonceInitiate(p)
  <2>1. NonceBecomes(p, "await", nonce[p].elem, nonce[p].key)
    BY <1>a, <1>11, NonceMoves DEF NonceInitiate
  <2>2. LineThins(p)
    BY <1>11, <2>1, EmptyFacts
       DEF NonceInitiate, NonceBecomes, LineThins, NonceThins, NonceStays, Shortens, Busy
  <2>3. QED
    BY <1>b, <1>11, <2>1, <2>2, OneThinned DEF NonceInitiate, NonceBecomes, Only, WorkersKept
<1>12. CASE SenderPasses(p)
  <2>1. PICK c \in {"initiate", "idle"} : sender' = [sender EXCEPT ![p] = At(c, 0, 0)]
    BY <1>12 DEF SenderPasses
  <2>2. c \in Place /\ c # "lock"
    BY <1>a
  <2>3. SenderBecomes(p, c, 0)
    BY <1>a, <2>1, <2>2, SenderSet
  <2>4. LineThins(p)
    BY <1>12, <2>2, <2>3, EmptyFacts
       DEF SenderPasses, SenderBecomes, LineThins, NonceThins, NonceStays, Shortens, Busy
  <2>5. QED
    BY <1>b, <1>12, <2>3, <2>4, OneThinned DEF SenderPasses, SenderBecomes, Only, WorkersKept
<1>13. QED
  BY <1>1, <1>2, <1>3, <1>4, <1>5, <1>6, <1>7, <1>8, <1>9, <1>10, <1>11, <1>12

\* RoutineNonce looks for a usable key pair.
LEMMA NonceCheckInv ==
    ASSUME IInv, NEW p \in Peer, NonceCheck(p)
    PROVE  IInv'
<1>1. /\ TypeInv /\ {"drain", "assign"} \subseteq Place /\ 0 \in 0 .. MaxKeys
      /\ TRUE \in BOOLEAN /\ FALSE \in BOOLEAN
  BY OutboundAssumption, SMT DEF IInv, Place, Busy
<1>2. /\ queue \in [Peer -> Queues] /\ nonce \in [Peer -> Routine]
      /\ sender \in [Peer -> Routine] /\ keys \in [Peer -> KeyPairs]
      /\ worker \in [Worker -> Nat \cup {Nil}]
  BY <1>1 DEF TypeInv
<1>3. nonce[p].elem \in Nat /\ keys[p].current \in 0 .. MaxKeys
  BY <1>2, RoutineFacts, KeyPairsFacts
<1>4. \/ /\ Usable(p)
         /\ NonceBecomes(p, "assign", nonce[p].elem, keys[p].current)
      \/ NonceBecomes(p, "drain", nonce[p].elem, 0)
  BY <1>1, <1>3, NonceSet DEF NonceCheck
<1>5. QueueBecomes(p, queue[p].nonce, queue[p].outbound)
  BY <1>1, QueueSet DEF NonceCheck
<1>6. LineThins(p)
  BY <1>4, <1>5
     DEF NonceCheck, Usable, NonceBecomes, QueueBecomes, LineThins, NonceThins, Shortens, Busy
<1>7. nonce' \in [Peer -> Routine] /\ Only(nonce, nonce', p)
  BY <1>4 DEF NonceBecomes
<1>8. QED
  BY <1>2, <1>5, <1>6, <1>7, OneThinned DEF NonceCheck, QueueBecomes, Only, WorkersKept

\* Steps that leave the lines, the elements and the key pairs alone.
LEMMA IdleInv ==
    ASSUME IInv, worker' \in [Worker -> Nat \cup {Nil}], WorkersKept,
           UNCHANGED <<elem, queue, encryption, nonce, sender, keys, last>>
    PROVE  IInv'
<1>1. TypeInv'
  BY DEF IInv, TypeInv
<1>2. \A p \in Peer : LineThins(p)
  BY DEF LineThins, NonceThins, NonceStays, Shortens
<1>3. QED
  BY <1>1, <1>2, ThinnedInv

\* The steps of that kind: the reader and the timers take note of a peer, a call of
\* Peer.Stop or Device.Close begins or goes on, its caller holds a lock, a worker returns.
LEMMA BystanderInv ==
    ASSUME IInv,
           \/ \E p \in Peer : ReadFromTUN(p) \/ RetransmitGivesUp(p) \/ Stop(p)
           \/ \E w \in Worker : WorkerStop(w)
           \/ \E lock \in {"noise", "net"} : LockHeld(lock)
           \/ Close \/ CloseFlush \/ CloseFinish
    PROVE  IInv'
<1>1. worker \in [Worker -> Nat \cup {Nil}]
  BY DEF IInv, TypeInv
<1>2. CASE \E p \in Peer : ReadFromTUN(p) \/ RetransmitGivesUp(p) \/ Stop(p)
  BY <1>1, <1>2, IdleInv DEF ReadFromTUN, RetransmitGivesUp, Stop, WorkersKept
<1>3. CASE \E w \in Worker : WorkerStop(w)
  BY <1>1, <1>3, IdleInv DEF WorkerStop, WorkersKept
<1>4. CASE Close \/ CloseFlush \/ CloseFinish
  BY <1>1, <1>4, IdleInv DEF Close, CloseFlush, CloseFinish, WorkersKept
<1>5. CASE \E lock \in {"noise", "net"} : LockHeld(lock)
  BY <1>1, <1>5, IdleInv DEF LockHeld, WorkersKept
<1>6. QED
  BY <1>2, <1>3, <1>4, <1>5

-----------------------------------------------------------------------------
(* Steps that mark an element.                                             *)

\* Only the marks of e change.
Marks(e, dropped, locked, sealed) ==
    /\ elem' \in Seq(Element) /\ TagsKept
    /\ \A i \in 1 .. Len(elem) : i # e => elem'[i] = elem[i]
    /\ elem'[e].dropped = dropped /\ elem'[e].locked = locked /\ elem'[e].sealed = sealed

\* What the steps write into an element, besides its nonce.
LEMMA MarkFacts ==
    ASSUME NEW x \in Element
    PROVE  /\ \A y \in {[x EXCEPT !.dropped = TRUE], [x EXCEPT !.dropped = TRUE, !.locked = FALSE],
                        [x EXCEPT !.sealed = TRUE, !.locked = FALSE], [x EXCEPT !.locked = TRUE]} :
                 y \in Element /\ y.peer = x.peer /\ y.key = x.key /\ y.nonce = x.nonce
           /\ LET y == [x EXCEPT !.dropped = TRUE] IN
              y.dropped = TRUE /\ y.locked = x.locked /\ y.sealed = x.sealed
           /\ LET y == [x EXCEPT !.dropped = TRUE, !.locked = FALSE] IN
              y.dropped = TRUE /\ y.locked = FALSE /\ y.sealed = x.sealed
           /\ LET y == [x EXCEPT !.sealed = TRUE, !.locked = FALSE] IN
              y.dropped = x.dropped /\ y.locked = FALSE /\ y.sealed = TRUE
           /\ LET y == [x EXCEPT !.locked = TRUE] IN
              y.dropped = x.dropped /\ y.locked = TRUE /\ y.sealed = x.sealed
BY DEF Element

\* A rewritten element keeps its peer, key pair and nonce.
LEMMA MarksFacts ==
    ASSUME TypeInv, NEW e \in 1 .. Len(elem), NEW x \in Element,
           elem' = [elem EXCEPT ![e] = x],
           x.peer = elem[e].peer, x.key = elem[e].key, x.nonce = elem[e].nonce
    PROVE  Marks(e, x.dropped, x.locked, x.sealed)
<1>1. elem \in Seq(Element)
  BY DEF TypeInv
<1>2. /\ elem' \in Seq(Element) /\ Len(elem') = Len(elem)
      /\ \A i \in 1 .. Len(elem) : elem'[i] = IF i = e THEN x ELSE elem[i]
  BY <1>1, Rewritten, SMTT(30)
<1>3. QED
  BY <1>2 DEF Marks, TagsKept

\* The forms in which the steps mark an element.
LEMMA MarkSet ==
    ASSUME TypeInv, NEW e \in 1 .. Len(elem)
    PROVE  /\ elem' = Drop(e) => Marks(e, TRUE, elem[e].locked, elem[e].sealed)
           /\ elem' = DropAndRelease(e) => Marks(e, TRUE, FALSE, elem[e].sealed)
           /\ elem' = [elem EXCEPT ![e].sealed = TRUE, ![e].locked = FALSE] =>
                 Marks(e, elem[e].dropped, FALSE, TRUE)
           /\ elem' = [elem EXCEPT ![e].locked = TRUE] =>
                 Marks(e, elem[e].dropped, TRUE, elem[e].sealed)
<1>1. elem[e] \in Element /\ e \in DOMAIN elem
  BY ElementFacts, SMT DEF TypeInv
<1>2. elem' = Drop(e) => elem' = [elem EXCEPT ![e] = [elem[e] EXCEPT !.dropped = TRUE]]
  BY DEF Drop
<1>3. elem' = DropAndRelease(e) =>
        elem' = [elem EXCEPT ![e] = [elem[e] EXCEPT !.dropped = TRUE, !.locked = FALSE]]
  BY <1>1 DEF DropAndRelease
<1>4. elem' = [elem EXCEPT ![e].sealed = TRUE, ![e].locked = FALSE] =>
        elem' = [elem EXCEPT ![e] = [elem[e] EXCEPT !.sealed = TRUE, !.locked = FALSE]]
  BY <1>1
<1>5. elem' = [elem EXCEPT ![e].locked = TRUE] =>
        elem' = [elem EXCEPT ![e] = [elem[e] EXCEPT !.locked = TRUE]]
  OBVIOUS
<1>6. ASSUME elem' = Drop(e)
      PROVE  Marks(e, TRUE, elem[e].locked, elem[e].sealed)
  <2> DEFINE x == [elem[e] EXCEPT !.dropped = TRUE]
  <2>1. /\ x \in Element /\ x.peer = elem[e].peer /\ x.key = elem[e].key
        /\ x.nonce = elem[e].nonce
        /\ x.dropped = TRUE /\ x.locked = elem[e].locked /\ x.sealed = elem[e].sealed
    BY <1>1, MarkFacts
  <2>2. elem' = [elem EXCEPT ![e] = x]
    BY <1>2, <1>6
  <2> HIDE DEF x
  <2>3. QED
    BY <2>1, <2>2, MarksFacts
<1>7. ASSUME elem' = DropAndRelease(e)
      PROVE  Marks(e, TRUE, FALSE, elem[e].sealed)
  <2> DEFINE x == [elem[e] EXCEPT !.dropped = TRUE, !.locked = FALSE]
  <2>1. /\ x \in Element /\ x.peer = elem[e].peer /\ x.key = elem[e].key
        /\ x.nonce = elem[e].nonce
        /\ x.dropped = TRUE /\ x.locked = FALSE /\ x.sealed = elem[e].sealed
    BY <1>1, MarkFacts
  <2>2. elem' = [elem EXCEPT ![e] = x]
    BY <1>3, <1>7
  <2> HIDE DEF x
  <2>3. QED
    BY <2>1, <2>2, MarksFacts
<1>8. ASSUME elem' = [elem EXCEPT ![e].sealed = TRUE, ![e].locked = FALSE]
      PROVE  Marks(e, elem[e].dropped, FALSE, TRUE)
  <2> DEFINE x == [elem[e] EXCEPT !.sealed = TRUE, !.locked = FALSE]
  <2>1. /\ x \in Element /\ x.peer = elem[e].peer /\ x.key = elem[e].key
        /\ x.nonce = elem[e].nonce
        /\ x.dropped = elem[e].dropped /\ x.locked = FALSE /\ x.sealed = TRUE
    BY <1>1, MarkFacts
  <2>2. elem' = [elem EXCEPT ![e] = x]
    BY <1>4, <1>8
  <2> HIDE DEF x
  <2>3. QED
    BY <2>1, <2>2, MarksFacts
<1>9. ASSUME elem' = [elem EXCEPT ![e].locked = TRUE]
      PROVE  Marks(e, elem[e].dropped, TRUE, elem[e].sealed)
  <2> DEFINE x == [elem[e] EXCEPT !.locked = TRUE]
  <2>1. /\ x \in Element /\ x.peer = elem[e].peer /\ x.key = elem[e].key
        /\ x.nonce = elem[e].nonce
        /\ x.dropped = elem[e].dropped /\ x.locked = TRUE /\ x.sealed = elem[e].sealed
    BY <1>1, MarkFacts
  <2>2. elem' = [elem EXCEPT ![e] = x]
    BY <1>5, <1>9
  <2> HIDE DEF x
  <2>3. QED
    BY <2>1, <2>2, MarksFacts
<1>10. QED
  BY <1>6, <1>7, <1>8, <1>9

\* An element of one line is in no other.
LEMMA LinesApart ==
    ASSUME IInv, NEW p \in Peer, NEW q \in Peer, p # q, NEW e \in Line(p)
    PROVE  e \notin Line(q)
BY DEF IInv, Owned, LineOwned

\* What RoutineNonce and the sender hold, and what the sender will meet, is in the line.
LEMMA FlightInLine ==
    ASSUME NEW p \in Peer
    PROVE  /\ Flight(p) \subseteq Sending(p) \cup Ready(p) \cup Held(p)
           /\ nonce[p].pc \in Busy => nonce[p].elem \in Held(p)
BY DEF Flight, Held, Busy

\* The locks keep their holders if the element a step marks, or no longer carries, is not
\* locked afterwards or has left the way of the senders.
LEMMA HoldingKept ==
    ASSUME IInv, \A q \in Peer : LineThins(q), device' = device, NEW e,
           \A x \in 1 .. Len(elem) : x # e => elem'[x] = elem[x] /\ (Carried(x) => Carried(x)'),
           \A q \in Peer : e \in Flight(q)' => ~elem'[e].locked,
           \A q \in Peer : nonce'[q].pc = "encrypt" /\ nonce'[q].elem = e => ~elem'[e].locked
    PROVE  Holding'
<1> SUFFICES ASSUME device' = "open", NEW q \in Peer
             PROVE  /\ \A x \in Flight(q)' : elem'[x].locked => Carried(x)' /\ ~elem'[x].dropped
                    /\ nonce'[q].pc = "encrypt" /\ elem'[nonce'[q].elem].locked =>
                          ~elem'[nonce'[q].elem].dropped
  BY DEF Holding
<1>1. /\ \A x \in Flight(q) : elem[x].locked => Carried(x) /\ ~elem[x].dropped
      /\ nonce[q].pc = "encrypt" /\ elem[nonce[q].elem].locked => ~elem[nonce[q].elem].dropped
  BY DEF IInv, Holding
<1>2. Flight(q)' \subseteq Flight(q) /\ LineThins(q)
  BY ThinnerLine
<1>3. \A x \in Line(q) : x \in 1 .. Len(elem)
  BY DEF IInv, Owned, LineOwned
<1>4. \A x \in Flight(q)' : elem'[x].locked => Carried(x)' /\ ~elem'[x].dropped
  BY <1>1, <1>2, <1>3, FlightInLine DEF Line
<1>5. nonce'[q].pc = "encrypt" => nonce[q].pc = "encrypt" /\ nonce'[q].elem = nonce[q].elem
  BY <1>2 DEF LineThins, NonceThins, NonceStays
<1>6. nonce[q].pc = "encrypt" => nonce[q].elem \in 1 .. Len(elem)
  BY <1>3, FlightInLine DEF Line, Busy
<1>7. QED
  BY <1>1, <1>4, <1>5, <1>6

\* The oldest element of a full nonce queue is dropped.
LEMMA NonceQueueEvicts ==
    ASSUME IInv, NEW p \in Peer, queue[p].nonce # <<>>, elem' = Drop(Head(queue[p].nonce)),
           queue' = [queue EXCEPT ![p].nonce = Tail(queue[p].nonce)],
           UNCHANGED <<encryption, nonce, worker, sender, keys, device, last>>
    PROVE  IInv'
<1> DEFINE e == Head(queue[p].nonce)
<1>1. TypeInv /\ queue[p].nonce \in Seq(Nat)
  BY QueueSet DEF IInv
<1>2. /\ Tail(queue[p].nonce) \in Seq(Nat) /\ e \in Queued(p)
      /\ Shortens(queue[p].nonce, Tail(queue[p].nonce))
  BY <1>1, TailFacts DEF Queued, Shortens
<1>3. QueueBecomes(p, Tail(queue[p].nonce), queue[p].outbound)
  BY <1>1, <1>2, QueueSet
<1>4. e \in Line(p) /\ e \in 1 .. Len(elem)
  BY <1>2 DEF Line, IInv, Owned, LineOwned
<1>5. Marks(e, TRUE, elem[e].locked, elem[e].sealed)
  BY <1>1, <1>4, MarkSet
<1> HIDE DEF e
<1>6. TypeInv'
  BY <1>1, <1>3, <1>5 DEF TypeInv, QueueBecomes, Marks
<1>7. ASSUME NEW q \in Peer
      PROVE  LineThins(q)
  BY <1>2, <1>3 DEF LineThins, NonceThins, NonceStays, Shortens, QueueBecomes, Only
<1>8. ASSUME NEW q \in Peer
      PROVE  e \notin Sending(q) \cup Ready(q) \cup Held(q)
  <2>1. CASE q = p
    <3>1. \A x \in Sending(p) \cup Ready(p) \cup Held(p) : x < e
      BY <1>2 DEF IInv, LineSorted, Before
    <3>2. QED
      BY <1>4, <2>1, <3>1, SMT
  <2>2. CASE q # p
    BY <1>4, <2>2, LinesApart DEF Line
  <2>3. QED
    BY <2>1, <2>2
<1>9. Holding'
  <2>1. \A q \in Peer : Flight(q)' \subseteq Flight(q)
    BY <1>7, ThinnerLine
  <2>2. \A q \in Peer : e \notin Flight(q)'
    BY <1>8, <2>1, FlightInLine
  <2>3. \A q \in Peer : nonce'[q].pc = "encrypt" => nonce'[q].elem # e
    BY <1>8, FlightInLine DEF Busy
  <2>4. \A x : Carried(x) => Carried(x)'
    BY DEF Carried
  <2>5. QED
    BY <1>5, <1>7, <2>2, <2>3, <2>4, HoldingKept DEF Marks
<1>10. TagsKept /\ CarriersOwned' /\ MarksGuard
  BY <1>5 DEF IInv, Owned, CarriersOwned, Guarded, MarksGuard, Marks, TagsKept
<1>11. QED
  BY <1>6, <1>7, <1>9, <1>10, ShortenedInv

\* The oldest element of a full outbound queue is dropped.
LEMMA OutboundQueueEvicts ==
    ASSUME IInv, NEW p \in Peer, queue[p].outbound # <<>>,
           nonce[p].pc = "outbound", elem' = Drop(Head(queue[p].outbound)),
           queue' = [queue EXCEPT ![p].outbound = Tail(queue[p].outbound)],
           UNCHANGED <<encryption, nonce, worker, sender, keys, device, last>>
    PROVE  IInv'
<1> DEFINE e == Head(queue[p].outbound)
<1>1. TypeInv /\ queue[p].outbound \in Seq(Nat) /\ Sorted(queue[p].outbound)
  BY QueueSet DEF IInv, LineSorted
<1>2. /\ Tail(queue[p].outbound) \in Seq(Nat) /\ e \in Ready(p)
      /\ Shortens(queue[p].outbound, Tail(queue[p].outbound))
      /\ Before({e}, Range(Tail(queue[p].outbound)))
  BY <1>1, TailFacts DEF Ready, Shortens
<1>3. QueueBecomes(p, queue[p].nonce, Tail(queue[p].outbound))
  BY <1>1, <1>2, QueueSet
<1>4. e \in Line(p) /\ e \in 1 .. Len(elem)
  BY <1>2 DEF Line, IInv, Owned, LineOwned
<1>5. Marks(e, TRUE, elem[e].locked, elem[e].sealed)
  BY <1>1, <1>4, MarkSet
<1> HIDE DEF e
<1>6. TypeInv'
  BY <1>1, <1>3, <1>5 DEF TypeInv, QueueBecomes, Marks
<1>7. ASSUME NEW q \in Peer
      PROVE  LineThins(q)
  BY <1>2, <1>3 DEF LineThins, NonceThins, NonceStays, Shortens, QueueBecomes, Only
<1>8. ASSUME NEW q \in Peer
      PROVE  e \notin Sending(q) \cup Ready(q)' \cup Held(q)
  <2>1. CASE q = p
    <3>1. \A x \in Sending(p) : x < e
      BY <1>2 DEF IInv, LineSorted, Before
    <3>2. \A x \in Ready(p)' \cup Held(p) : e < x
      BY <1>2, <1>3 DEF IInv, LineSorted, Before, Ready, QueueBecomes
    <3>3. QED
      BY <1>4, <2>1, <3>1, <3>2, SMT
  <2>2. CASE q # p
    <3>1. Ready(q)' = Ready(q)
      BY <1>3, <2>2 DEF Ready, QueueBecomes, Only
    <3>2. QED
      BY <1>4, <2>2, <3>1, LinesApart DEF Line
  <2>3. QED
    BY <2>1, <2>2
<1>9. Holding'
  <2>1. \A q \in Peer : Flight(q)' \subseteq Sending(q) \cup Ready(q)' \cup Held(q)
    BY DEF Flight, Sending, Held, Busy
  <2>2. \A q \in Peer : e \notin Flight(q)'
    BY <1>8, <2>1
  <2>3. \A q \in Peer : nonce'[q].pc = "encrypt" => nonce'[q].elem # e
    BY <1>8, FlightInLine DEF Busy
  <2>4. \A x : Carried(x) => Carried(x)'
    BY DEF Carried
  <2>5. \A x \in 1 .. Len(elem) : x # e => elem'[x] = elem[x]
    BY <1>5 DEF Marks
  <2>6. QED
    BY <1>7, <2>2, <2>3, <2>4, <2>5, HoldingKept, ZenonT(30)
<1>10. TagsKept /\ CarriersOwned' /\ MarksGuard
  BY <1>5 DEF IInv, Owned, CarriersOwned, Guarded, MarksGuard, Marks, TagsKept
<1>11. QED
  BY <1>6, <1>7, <1>9, <1>10, ShortenedInv

\* A step that leaves the line of every peer alone.
LEMMA LinesStand ==
    ASSUME UNCHANGED <<queue, nonce, sender, keys>>, NEW q \in Peer
    PROVE  LineThins(q) /\ Flight(q)' = Flight(q)
BY DEF LineThins, NonceThins, NonceStays, Shortens, Flight, Sending, Ready

\* What is left in the encryption queue after its head is taken.
LEMMA EncryptionTail ==
    ASSUME IInv, encryption # <<>>, encryption' = Tail(encryption)
    PROVE  /\ encryption' \in Seq(Nat) /\ Head(encryption) \in 1 .. Len(elem)
           /\ Range(encryption') \subseteq Range(encryption)
           /\ \A x \in Range(encryption) : x # Head(encryption) => x \in Range(encryption')
<1>1. encryption \in Seq(Nat)
  BY DEF IInv, TypeInv
<1>2. /\ encryption' \in Seq(Nat) /\ Head(encryption) \in Range(encryption)
      /\ Range(encryption) = {Head(encryption)} \cup Range(encryption')
  BY <1>1, TailFacts
<1>3. QED
  BY <1>2 DEF IInv, Owned, CarriersOwned

\* The oldest element of a full encryption queue is dropped and released.
LEMMA EncryptionQueueEvicts ==
    ASSUME IInv, encryption # <<>>, encryption' = Tail(encryption),
           elem' = DropAndRelease(Head(encryption)),
           UNCHANGED <<queue, nonce, worker, sender, keys, device, last>>
    PROVE  IInv'
<1> DEFINE e == Head(encryption)
<1>1. /\ encryption' \in Seq(Nat) /\ e \in 1 .. Len(elem)
      /\ Range(encryption') \subseteq Range(encryption)
      /\ \A x \in Range(encryption) : x # e => x \in Range(encryption')
  BY EncryptionTail
<1>2. Marks(e, TRUE, FALSE, elem[e].sealed)
  BY <1>1, MarkSet DEF IInv
<1> HIDE DEF e
<1>3. TypeInv'
  BY <1>1, <1>2 DEF IInv, TypeInv, Marks
<1>4. \A q \in Peer : LineThins(q)
  BY LinesStand
<1>5. Holding'
  <2>1. \A x : x # e => (Carried(x) => Carried(x)')
    BY <1>1 DEF Carried
  <2>2. (\A x \in 1 .. Len(elem) : x # e => elem'[x] = elem[x]) /\ ~elem'[e].locked
    BY <1>2 DEF Marks
  <2>3. QED
    BY <1>4, <2>1, <2>2, HoldingKept
<1>6. TagsKept /\ CarriersOwned' /\ MarksGuard
  BY <1>1, <1>2 DEF IInv, Owned, CarriersOwned, Guarded, MarksGuard, Marks, TagsKept
<1>7. QED
  BY <1>3, <1>4, <1>5, <1>6, ShortenedInv

\* RoutineEncryption takes an element, which it skips if it is dropped.
LEMMA WorkerTakeInv ==
    ASSUME IInv, NEW w \in Worker, WorkerTake(w)
    PROVE  IInv'
<1> DEFINE e == Head(encryption)
<1>1. /\ encryption' \in Seq(Nat) /\ e \in 1 .. Len(elem)
      /\ Range(encryption') \subseteq Range(encryption)
      /\ \A x \in Range(encryption) : x # e => x \in Range(encryption')
  BY EncryptionTail DEF WorkerTake
<1>2. /\ worker \in [Worker -> Nat \cup {Nil}] /\ worker[w] = 0
      /\ worker' = [worker EXCEPT ![w] = IF elem[e].dropped THEN 0 ELSE e]
      /\ UNCHANGED <<elem, queue, nonce, sender, keys, device, last>>
  BY DEF IInv, TypeInv, WorkerTake
<1> HIDE DEF e
<1>3. /\ worker' \in [Worker -> Nat \cup {Nil}]
      /\ worker'[w] = IF elem[e].dropped THEN 0 ELSE e
      /\ \A v \in Worker : v # w => worker'[v] = worker[v]
  BY <1>1, <1>2, SMT
<1>4. TypeInv'
  BY <1>1, <1>2, <1>3 DEF IInv, TypeInv
<1>5. \A q \in Peer : LineThins(q) /\ Flight(q)' = Flight(q)
  BY <1>2, LinesStand
<1>6. \A x \in 1 .. Len(elem) : x # e => (Carried(x) => Carried(x)')
  BY <1>1, <1>2, <1>3, SMT DEF Carried
<1>7. Holding'
  <2>1. CASE elem[e].dropped
    <3>1. device = "open" =>
            \A q \in Peer : /\ e \in Flight(q) => ~elem[e].locked
                            /\ nonce[q].pc = "encrypt" /\ nonce[q].elem = e => ~elem[e].locked
      BY <2>1 DEF IInv, Holding
    <3>2. CASE device = "open"
      BY <1>2, <1>5, <1>6, <3>1, <3>2, HoldingKept
    <3>3. CASE device # "open"
      BY <1>2, <3>3 DEF Holding
    <3>4. QED
      BY <3>2, <3>3
  <2>2. CASE ~elem[e].dropped
    <3>1. \A x \in 1 .. Len(elem) : Carried(x) => Carried(x)'
      BY <1>3, <1>6, <2>2 DEF Carried
    <3>2. \A q \in Peer : 0 \notin Flight(q) /\ (nonce[q].pc = "encrypt" => nonce[q].elem # 0)
      BY FlightInLine, SMTT(30) DEF IInv, Owned, LineOwned, Line, Busy
    <3>3. QED
      BY <1>2, <1>5, <3>1, <3>2, HoldingKept
  <2>3. QED
    BY <2>1, <2>2
<1>8. CarriersOwned'
  <2>1. Len(elem) \in Nat
    BY SMTT(30) DEF IInv, TypeInv
  <2>2. QED
    BY <1>1, <1>2, <1>3, <2>1, SMTT(30) DEF IInv, Owned, CarriersOwned
<1>9. TagsKept /\ MarksGuard
  BY <1>2 DEF IInv, Guarded, MarksGuard, TagsKept
<1>10. QED
  BY <1>2, <1>4, <1>5, <1>7, <1>8, <1>9, ShortenedInv

\* RoutineEncryption encrypts its element and releases it.
LEMMA WorkerSealInv ==
    ASSUME IInv, NEW w \in Worker, WorkerSeal(w)
    PROVE  IInv'
<1> DEFINE e == worker[w]
<1>1. /\ worker \in [Worker -> Nat \cup {Nil}]
      /\ worker' = [worker EXCEPT ![w] = 0]
      /\ elem' = [elem EXCEPT ![e].sealed = TRUE, ![e].locked = FALSE]
      /\ UNCHANGED <<queue, encryption, nonce, sender, keys, device, last>>
  BY DEF IInv, TypeInv, WorkerSeal
<1>2. Len(elem) \in Nat
  BY SMT DEF IInv, TypeInv
<1>3. e \in 1 .. Len(elem)
  <2>1. e \in Nat /\ e >= 1 /\ e # Nil
    BY OutboundAssumption, SMT DEF WorkerSeal, Id
  <2>2. QED
    BY <1>2, <2>1, SMT DEF IInv, Owned, CarriersOwned
<1>4. Marks(e, elem[e].dropped, FALSE, TRUE)
  BY <1>1, <1>3, MarkSet DEF IInv
<1> HIDE DEF e
<1>5. /\ worker' \in [Worker -> Nat \cup {Nil}] /\ worker'[w] = 0
      /\ \A v \in Worker : v # w => worker'[v] = worker[v]
  BY <1>1
<1>6. TypeInv'
  BY <1>1, <1>4, <1>5 DEF IInv, TypeInv, Marks
<1>7. \A q \in Peer : LineThins(q)
  BY <1>1, LinesStand
<1>8. Holding'
  <2>1. \A x : x # e => (Carried(x) => Carried(x)')
    BY <1>1, <1>5 DEF Carried, e
  <2>2. (\A x \in 1 .. Len(elem) : x # e => elem'[x] = elem[x]) /\ ~elem'[e].locked
    BY <1>4 DEF Marks
  <2>3. QED
    BY <1>1, <1>7, <2>1, <2>2, HoldingKept
<1>9. CarriersOwned'
  BY <1>1, <1>2, <1>4, <1>5, SMTT(30) DEF IInv, Owned, CarriersOwned, Marks, TagsKept
<1>10. TagsKept /\ MarksGuard
  BY <1>4 DEF IInv, Guarded, MarksGuard, Marks
<1>11. QED
  BY <1>1, <1>6, <1>7, <1>8, <1>9, <1>10, ShortenedInv

\* Device.Close empties the encryption queue.
LEMMA FlushInv ==
    ASSUME IInv, FlushPacketQueues
    PROVE  IInv'
<1>1. CASE encryption = <<>>
  BY <1>1, IdleInv DEF FlushPacketQueues, IInv, TypeInv, WorkersKept
<1>2. CASE encryption # <<>>
  <2> DEFINE e == Head(encryption)
  <2>1. /\ device # "open" /\ encryption' = Tail(encryption) /\ elem' = Drop(e)
        /\ UNCHANGED <<queue, nonce, worker, sender, keys, device, last>>
    BY <1>2 DEF FlushPacketQueues
  <2>2. /\ encryption' \in Seq(Nat) /\ e \in 1 .. Len(elem)
        /\ Range(encryption') \subseteq Range(encryption)
    BY <1>2, <2>1, EncryptionTail
  <2>3. Marks(e, TRUE, elem[e].locked, elem[e].sealed)
    BY <2>1, <2>2, MarkSet DEF IInv
  <2> HIDE DEF e
  <2>4. TypeInv'
    BY <2>1, <2>2, <2>3 DEF IInv, TypeInv, Marks
  <2>5. \A q \in Peer : LineThins(q)
    BY <2>1, LinesStand
  <2>6. Holding'
    BY <2>1 DEF Holding
  <2>7. TagsKept /\ CarriersOwned' /\ MarksGuard
    BY <2>1, <2>2, <2>3
       DEF IInv, Owned, CarriersOwned, Guarded, MarksGuard, Marks, TagsKept
  <2>8. QED
    BY <2>1, <2>4, <2>5, <2>6, <2>7, ShortenedInv
<1>3. QED
  BY <1>1, <1>2

-----------------------------------------------------------------------------
(* Steps that move an element along the line of its peer.                  *)

\* The line of a peer that a step leaves alone.
LEMMA LineStands ==
    ASSUME IInv, NEW q \in Peer, queue'[q] = queue[q], nonce'[q] = nonce[q],
           sender'[q] = sender[q], last'[q] = last[q], keys'[q] = keys[q]
    PROVE  LineMoves(q) /\ Flight(q)' = Flight(q)
<1>1. /\ Sending(q)' = Sending(q) /\ Ready(q)' = Ready(q) /\ Held(q)' = Held(q)
      /\ Queued(q)' = Queued(q)
  BY DEF Sending, Ready, Held, Queued
<1>2. Line(q)' = Line(q) /\ Given(q)' = Given(q) /\ Flight(q)' = Flight(q)
  BY <1>1 DEF Line, Given, Flight
<1>3. LineSorted(q)'
  BY <1>1, <1>2 DEF IInv, LineSorted
<1>4. QED
  BY <1>2, <1>3 DEF IInv, Owned, LineOwned, LineMoves, NonceStays

\* A move that changes no element and nothing that is carried.
LEMMA CarriedMove ==
    ASSUME IInv, TypeInv', NEW p \in Peer, LineMoves(p), Flight(p)' \subseteq Flight(p),
           nonce'[p].pc = "encrypt" => nonce'[p] = nonce[p],
           Only(queue, queue', p), Only(nonce, nonce', p), Only(sender, sender', p),
           UNCHANGED <<elem, encryption, worker, keys, device, last>>
    PROVE  IInv'
<1>1. \A q \in Peer : LineMoves(q) /\ Flight(q)' \subseteq Flight(q)
  BY LineStands DEF Only
<1>2. \A x : Carried(x) => Carried(x)'
  BY DEF Carried
<1>3. Holding'
  <2> SUFFICES ASSUME device = "open", NEW q \in Peer
               PROVE  /\ \A x \in Flight(q)' : elem[x].locked => Carried(x)' /\ ~elem[x].dropped
                      /\ nonce'[q].pc = "encrypt" /\ elem[nonce'[q].elem].locked =>
                            ~elem[nonce'[q].elem].dropped
    BY DEF Holding
  <2>1. /\ \A x \in Flight(q) : elem[x].locked => Carried(x) /\ ~elem[x].dropped
        /\ nonce[q].pc = "encrypt" /\ elem[nonce[q].elem].locked => ~elem[nonce[q].elem].dropped
    BY DEF IInv, Holding
  <2>2. nonce'[q].pc = "encrypt" => nonce'[q] = nonce[q]
    BY DEF Only
  <2>3. QED
    BY <1>1, <1>2, <2>1, <2>2
<1>4. TagsKept /\ CarriersOwned' /\ MarksGuard
  BY DEF IInv, Owned, CarriersOwned, Guarded, MarksGuard, TagsKept
<1>5. QED
  BY <1>1, <1>3, <1>4, MovedInv

\* RoutineNonce takes an element out of the nonce queue.
LEMMA NonceTakeInv ==
    ASSUME IInv, NEW p \in Peer, NonceTake(p)
    PROVE  IInv'
<1> DEFINE e == Head(queue[p].nonce)
<1>1. /\ TypeInv /\ queue[p].nonce \in Seq(Nat) /\ queue[p].nonce # <<>>
      /\ Sorted(queue[p].nonce)
  BY QueueSet DEF IInv, LineSorted, NonceTake
<1>2. /\ Tail(queue[p].nonce) \in Seq(Nat) /\ e \in Nat
      /\ Queued(p) = {e} \cup Range(Tail(queue[p].nonce))
      /\ Sorted(Tail(queue[p].nonce)) /\ Before({e}, Range(Tail(queue[p].nonce)))
  BY <1>1, TailFacts DEF Queued
<1>3. /\ nonce[p].pc = "idle" /\ nonce' = [nonce EXCEPT ![p] = At("check", e, 0)]
      /\ queue' = [queue EXCEPT ![p].nonce = Tail(queue[p].nonce)]
      /\ UNCHANGED <<elem, encryption, worker, sender, keys, device, last>>
  BY DEF NonceTake
<1> HIDE DEF e
<1>4. QueueBecomes(p, Tail(queue[p].nonce), queue[p].outbound)
  BY <1>1, <1>2, <1>3, QueueSet
<1>5. "check" \in Place /\ 0 \in 0 .. MaxKeys
  BY OutboundAssumption, SMT DEF Place, Busy
<1>6. NonceBecomes(p, "check", e, 0)
  BY <1>1, <1>2, <1>3, <1>5, NonceSet
<1>7. TypeInv'
  BY <1>1, <1>3, <1>4, <1>6 DEF TypeInv, QueueBecomes, NonceBecomes
<1>8. /\ Sending(p)' = Sending(p) /\ Ready(p)' = Ready(p) /\ Held(p)' = {e}
      /\ Queued(p) = {e} \cup Queued(p)' /\ Held(p) = {}
  BY <1>2, <1>3, <1>4, <1>6
     DEF QueueBecomes, NonceBecomes, Sending, Ready, Held, Queued, Busy
<1>9. Given(p)' = Given(p) /\ Flight(p)' = Flight(p)
  BY <1>3, <1>6, <1>8 DEF Given, Flight, NonceBecomes
<1>10. Line(p)' \subseteq Line(p)
  BY <1>8 DEF Line
<1>11. LineSorted(p)'
  <2>1. Before({e}, Queued(p)')
    BY <1>2, <1>4 DEF Queued, QueueBecomes
  <2>2. Sorted(queue'[p].nonce) /\ Sorted(queue'[p].outbound)
    BY <1>2, <1>4 DEF IInv, LineSorted, QueueBecomes
  <2>3. QED
    BY <1>3, <1>8, <1>10, <2>1, <2>2, SMTT(30) DEF IInv, LineSorted, Line, Before
<1>12. LineMoves(p)
  BY <1>3, <1>6, <1>9, <1>10, <1>11
     DEF IInv, Owned, LineOwned, LineMoves, NonceBecomes
<1>13. /\ Only(queue, queue', p) /\ Only(nonce, nonce', p) /\ Only(sender, sender', p)
       /\ nonce'[p].pc # "encrypt"
  BY <1>3, <1>4, <1>6 DEF QueueBecomes, NonceBecomes, Only
<1>14. QED
  BY <1>3, <1>7, <1>9, <1>12, <1>13, CarriedMove

\* RoutineNonce puts an element into the outbound queue.
LEMMA NonceOutboundAdds ==
    ASSUME IInv, NEW p \in Peer, nonce[p].pc = "outbound",
           queue' = [queue EXCEPT ![p].outbound = Append(queue[p].outbound, nonce[p].elem)],
           nonce' = [nonce EXCEPT ![p] = At("idle", 0, 0)],
           UNCHANGED <<elem, encryption, worker, sender, keys, device, last>>
    PROVE  IInv'
<1> DEFINE e == nonce[p].elem
           s == Append(queue[p].outbound, e)
<1>1. TypeInv /\ queue[p].outbound \in Seq(Nat) /\ Sorted(queue[p].outbound)
  BY QueueSet DEF IInv, LineSorted
<1>2. Held(p) = {e} /\ Before(Ready(p), {e})
  BY DEF IInv, LineSorted, Held, Before, Busy
<1>3. e \in Nat
  BY <1>1, RoutineFacts DEF TypeInv
<1>4. s \in Seq(Nat) /\ Range(s) = Ready(p) \cup {e} /\ Sorted(s)
  BY <1>1, <1>2, <1>3, AppendFacts DEF Ready
<1>5. QueueBecomes(p, queue[p].nonce, s)
  BY <1>1, <1>4, QueueSet
<1>6. "idle" \in Place /\ 0 \in 0 .. MaxKeys /\ 0 \in Nat
  BY OutboundAssumption, SMT DEF Place, Busy
<1>7. NonceBecomes(p, "idle", 0, 0)
  BY <1>1, <1>6, NonceSet
<1> HIDE DEF e, s
<1>8. TypeInv'
  BY <1>1, <1>5, <1>7 DEF TypeInv, QueueBecomes, NonceBecomes
<1>9. /\ Sending(p)' = Sending(p) /\ Ready(p)' = Ready(p) \cup {e} /\ Held(p)' = {}
      /\ Queued(p)' = Queued(p)
  BY <1>4, <1>5, <1>7
     DEF QueueBecomes, NonceBecomes, Sending, Ready, Held, Queued, Busy
<1>10. Given(p)' = Given(p) /\ Flight(p)' = Flight(p)
  BY <1>7, <1>9 DEF Given, Flight, NonceBecomes, e
<1>11. Line(p)' \subseteq Line(p)
  BY <1>2, <1>9 DEF Line
<1>12. LineSorted(p)'
  <2>1. Sorted(queue'[p].nonce) /\ Sorted(queue'[p].outbound)
    BY <1>4, <1>5 DEF IInv, LineSorted, QueueBecomes
  <2>2. QED
    BY <1>2, <1>9, <1>11, <2>1, SMT DEF IInv, LineSorted, Line, Before
<1>13. LineMoves(p)
  BY <1>7, <1>10, <1>11, <1>12 DEF IInv, Owned, LineOwned, LineMoves, NonceBecomes
<1>14. /\ Only(queue, queue', p) /\ Only(nonce, nonce', p) /\ Only(sender, sender', p)
       /\ nonce'[p].pc # "encrypt"
  BY <1>5, <1>7 DEF QueueBecomes, NonceBecomes, Only
<1>15. QED
  BY <1>8, <1>10, <1>13, <1>14, CarriedMove

\* RoutineSequentialSender takes an element out of the outbound queue.
LEMMA SenderTakeInv ==
    ASSUME IInv, NEW p \in Peer, SenderTake(p)
    PROVE  IInv'
<1> DEFINE e == Head(queue[p].outbound)
<1>1. /\ TypeInv /\ queue[p].outbound \in Seq(Nat) /\ queue[p].outbound # <<>>
      /\ Sorted(queue[p].outbound)
  BY QueueSet DEF IInv, LineSorted, SenderTake
<1>2. /\ Tail(queue[p].outbound) \in Seq(Nat) /\ e \in Nat
      /\ Ready(p) = {e} \cup Range(Tail(queue[p].outbound))
      /\ Sorted(Tail(queue[p].outbound)) /\ Before({e}, Range(Tail(queue[p].outbound)))
  BY <1>1, TailFacts DEF Ready
<1>3. /\ sender[p].pc = "idle" /\ sender' = [sender EXCEPT ![p] = At("lock", e, 0)]
      /\ queue' = [queue EXCEPT ![p].outbound = Tail(queue[p].outbound)]
      /\ UNCHANGED <<elem, encryption, worker, nonce, keys, device, last>>
  BY DEF SenderTake
<1> HIDE DEF e
<1>4. QueueBecomes(p, queue[p].nonce, Tail(queue[p].outbound))
  BY <1>1, <1>2, <1>3, QueueSet
<1>5. "lock" \in Place
  BY DEF Place
<1>6. SenderBecomes(p, "lock", e)
  BY <1>1, <1>2, <1>3, <1>5, SenderSet
<1>7. TypeInv'
  BY <1>1, <1>3, <1>4, <1>6 DEF TypeInv, QueueBecomes, SenderBecomes
<1>8. /\ Sending(p) = {} /\ Sending(p)' = {e} /\ Ready(p) = {e} \cup Ready(p)'
      /\ Held(p)' = Held(p) /\ Queued(p)' = Queued(p)
  BY <1>2, <1>3, <1>4, <1>6 DEF QueueBecomes, SenderBecomes, Sending, Ready, Held, Queued
<1>9. Given(p)' = Given(p) /\ Flight(p)' = Flight(p)
  BY <1>3, <1>8 DEF Given, Flight
<1>10. Line(p)' = Line(p)
  BY <1>8 DEF Line
<1>11. LineSorted(p)'
  <2>1. Before({e}, Ready(p)')
    BY <1>2, <1>4 DEF Ready, QueueBecomes
  <2>2. Sorted(queue'[p].nonce) /\ Sorted(queue'[p].outbound)
    BY <1>2, <1>4 DEF IInv, LineSorted, QueueBecomes
  <2>3. QED
    BY <1>3, <1>8, <1>10, <2>1, <2>2, SMTT(30) DEF IInv, LineSorted, Line, Before
<1>12. LineMoves(p)
  BY <1>3, <1>6, <1>9, <1>10, <1>11
     DEF IInv, Owned, LineOwned, LineMoves, NonceStays, SenderBecomes
<1>13. /\ Only(queue, queue', p) /\ Only(nonce, nonce', p) /\ Only(sender, sender', p)
       /\ nonce'[p] = nonce[p]
  BY <1>3, <1>4, <1>6 DEF QueueBecomes, SenderBecomes, Only
<1>14. QED
  BY <1>3, <1>7, <1>9, <1>12, <1>13, CarriedMove

\* RoutineSequentialSender has the mutex of its element, and transmits it or not.
LEMMA SenderSendInv ==
    ASSUME IInv, NEW p \in Peer, SenderSend(p)
    PROVE  IInv' /\ (last'[p] = last[p] \/ last'[p] > last[p])
                 /\ \A q \in Peer : q # p => last'[q] = last[q]
<1> DEFINE e == sender[p].elem
<1>1. /\ TypeInv /\ sender[p].pc = "lock" /\ ~elem[e].locked
      /\ elem' = [elem EXCEPT ![e].locked = TRUE]
      /\ last' = last \/ last' = [last EXCEPT ![p] = e]
      /\ \E c \in {"idle", "send"} : sender' = [sender EXCEPT ![p] = At(c, 0, 0)]
      /\ UNCHANGED <<queue, encryption, nonce, worker, keys, device>>
  BY DEF IInv, SenderSend
<1>2. Sending(p) = {e} /\ e \in Line(p)
  BY <1>1 DEF Sending, Line
<1>3. e \in 1 .. Len(elem) /\ last[p] < e /\ Len(elem) \in Nat
  BY <1>1, <1>2, SMT DEF IInv, TypeInv, Owned, LineOwned, LineSorted, Before
<1> HIDE DEF e
<1>4. /\ last' \in [Peer -> Nat] /\ (last'[p] = last[p] \/ last'[p] = e)
      /\ \A q \in Peer : q # p => last'[q] = last[q]
  <2>1. last \in [Peer -> Nat] /\ e \in Nat
    BY <1>1, <1>3, SMT DEF TypeInv
  <2>2. CASE last' = last
    BY <2>1, <2>2
  <2>3. CASE last' = [last EXCEPT ![p] = e]
    BY <2>1, <2>3
  <2>4. QED
    BY <1>1, <2>2, <2>3
<1>5. Marks(e, elem[e].dropped, TRUE, elem[e].sealed)
  BY <1>1, <1>3, MarkSet DEF IInv
<1>6. PICK c \in {"idle", "send"} : sender' = [sender EXCEPT ![p] = At(c, 0, 0)]
  BY <1>1
<1>7. SenderBecomes(p, c, 0) /\ c # "lock"
  <2>1. c \in Place /\ 0 \in Nat /\ c # "lock"
    BY DEF Place
  <2>2. QED
    BY <1>1, <1>6, <2>1, SenderSet
<1>8. TypeInv'
  BY <1>1, <1>4, <1>5, <1>7 DEF TypeInv, SenderBecomes, Marks
<1>9. /\ Sending(p)' = {} /\ Ready(p)' = Ready(p) /\ Held(p)' = Held(p)
      /\ Queued(p)' = Queued(p)
  BY <1>1, <1>7 DEF SenderBecomes, Sending, Ready, Held, Queued
<1>10. Line(p)' \subseteq Line(p) /\ Given(p)' \subseteq Given(p)
  BY <1>1, <1>9 DEF Line, Given
<1>11. LineSorted(p)'
  <2>1. Before(Sending(p), Line(p)') /\ Before({last[p]}, Line(p)')
    BY <1>9, <1>10 DEF IInv, LineSorted, Line, Before
  <2>2. Before({last'[p]}, Line(p)')
    BY <1>2, <1>4, <2>1 DEF Before
  <2>3. QED
    BY <1>1, <1>9, <2>2 DEF IInv, LineSorted, Before
<1>12. LineMoves(p)
  BY <1>1, <1>3, <1>4, <1>7, <1>10, <1>11, SMT
     DEF IInv, Owned, LineOwned, LineMoves, NonceStays, SenderBecomes
<1>13. \A q \in Peer : LineMoves(q)
  <2>1. ASSUME NEW q \in Peer, q # p
        PROVE  LineMoves(q)
    BY <1>1, <1>4, <1>7, <2>1, LineStands DEF SenderBecomes, Only
  <2>2. QED
    BY <1>12, <2>1
<1>14. ASSUME NEW q \in Peer
       PROVE  LineThins(q)
  BY <1>1, <1>7 DEF LineThins, NonceThins, NonceStays, Shortens, SenderBecomes, Only
<1>15. ASSUME NEW q \in Peer
       PROVE  e \notin Flight(q)' /\ (nonce'[q].pc = "encrypt" => nonce'[q].elem # e)
  <2>1. CASE q = p
    <3>1. \A x \in Ready(p) \cup Held(p) : e < x
      BY <1>2 DEF IInv, LineSorted, Before
    <3>2. Flight(p)' \subseteq Ready(p) \cup Held(p)
      BY <1>1, <1>9 DEF Flight, Held, Busy
    <3>3. nonce'[p].pc = "encrypt" => nonce'[p].elem \in Held(p)
      BY <1>1 DEF Held, Busy
    <3>4. QED
      BY <1>3, <2>1, <3>1, <3>2, <3>3, SMTT(30)
  <2>2. CASE q # p
    <3>1. e \notin Line(q)
      BY <1>2, <2>2, LinesApart
    <3>2. Flight(q)' \subseteq Line(q)
      BY <1>14, ThinnerLine, FlightInLine DEF Line
    <3>3. nonce'[q].pc = "encrypt" => nonce'[q].elem \in Line(q)
      BY <1>1 DEF Line, Held, Busy
    <3>4. QED
      BY <3>1, <3>2, <3>3
  <2>3. QED
    BY <2>1, <2>2
<1>16. Holding'
  <2>1. \A x : Carried(x) => Carried(x)'
    BY <1>1 DEF Carried
  <2>2. \A x \in 1 .. Len(elem) : x # e => elem'[x] = elem[x]
    BY <1>5 DEF Marks
  <2>3. QED
    BY <1>1, <1>14, <1>15, <2>1, <2>2, HoldingKept
<1>17. TagsKept /\ CarriersOwned' /\ MarksGuard
  BY <1>1, <1>5 DEF IInv, Owned, CarriersOwned, Guarded, MarksGuard, Marks, TagsKept
<1>18. IInv'
  BY <1>8, <1>13, <1>16, <1>17, MovedInv
<1>19. QED
  BY <1>3, <1>4, <1>18

\* RoutineNonce puts an element into the encryption queue.
LEMMA NonceEncryptAdds ==
    ASSUME IInv, NEW p \in Peer, nonce[p].pc = "encrypt",
           encryption' = Append(encryption, nonce[p].elem),
           nonce' = [nonce EXCEPT ![p].pc = "outbound"],
           UNCHANGED <<elem, queue, worker, sender, keys, device, last>>
    PROVE  IInv'
<1> DEFINE e == nonce[p].elem
<1>1. TypeInv /\ encryption \in Seq(Nat) /\ Held(p) = {e} /\ "outbound" \in Place
  BY DEF IInv, TypeInv, Held, Busy, Place
<1>2. e \in 1 .. Len(elem) /\ e \in Nat
  <2>1. e \in Line(p) /\ LineOwned(p)
    BY <1>1 DEF IInv, Owned, Line
  <2>2. Len(elem) \in Nat
    BY <1>1, SMT DEF TypeInv
  <2>3. QED
    BY <2>1, <2>2, SMT DEF LineOwned
<1>3. NonceBecomes(p, "outbound", e, nonce[p].key)
  BY <1>1, NonceMoves
<1>4. encryption' \in Seq(Nat) /\ Range(encryption') = Range(encryption) \cup {e}
  BY <1>1, <1>2, AppendFacts
<1> HIDE DEF e
<1>5. TypeInv'
  BY <1>1, <1>3, <1>4 DEF TypeInv, NonceBecomes
<1>6. /\ Sending(p)' = Sending(p) /\ Ready(p)' = Ready(p) /\ Held(p)' = {e}
      /\ Queued(p)' = Queued(p)
  BY <1>3 DEF NonceBecomes, Sending, Ready, Held, Queued, Busy
<1>7. Line(p)' = Line(p) /\ Given(p)' = Given(p) /\ Flight(p)' = Flight(p) \cup {e}
  BY <1>1, <1>3, <1>6 DEF NonceBecomes, Line, Given, Flight, e
<1>8. LineSorted(p)'
  BY <1>1, <1>6, <1>7 DEF IInv, LineSorted
<1>9. LineMoves(p)
  BY <1>3, <1>7, <1>8 DEF IInv, Owned, LineOwned, LineMoves, NonceBecomes
<1>10. ASSUME NEW q \in Peer, q # p
       PROVE  LineMoves(q) /\ Flight(q)' = Flight(q) /\ nonce'[q] = nonce[q]
  <2>1. nonce'[q] = nonce[q]
    BY <1>3, <1>10 DEF NonceBecomes, Only
  <2>2. QED
    BY <2>1, LineStands
<1>11. Holding'
  <2> SUFFICES ASSUME device = "open", NEW q \in Peer
               PROVE  /\ \A x \in Flight(q)' : elem[x].locked => Carried(x)' /\ ~elem[x].dropped
                      /\ nonce'[q].pc = "encrypt" /\ elem[nonce'[q].elem].locked =>
                            ~elem[nonce'[q].elem].dropped
    BY DEF Holding
  <2>1. /\ \A x \in Flight(q) : elem[x].locked => Carried(x) /\ ~elem[x].dropped
        /\ nonce[q].pc = "encrypt" /\ elem[nonce[q].elem].locked => ~elem[nonce[q].elem].dropped
    BY DEF IInv, Holding
  <2>2. \A x : Carried(x) \/ x = e => Carried(x)'
    BY <1>4 DEF Carried
  <2>3. CASE q = p
    BY <1>3, <1>7, <2>1, <2>2, <2>3 DEF NonceBecomes, e
  <2>4. CASE q # p
    BY <1>10, <2>1, <2>2, <2>4
  <2>5. QED
    BY <2>3, <2>4
<1>12. TagsKept /\ MarksGuard
  BY DEF IInv, Guarded, MarksGuard, TagsKept
<1>13. CarriersOwned'
  BY <1>2, <1>4 DEF IInv, Owned, CarriersOwned
<1>14. QED
  BY <1>5, <1>9, <1>10, <1>11, <1>12, <1>13, MovedInv

-----------------------------------------------------------------------------
(* New elements and new nonces.                                            *)

\* A packet or a keepalive joins the end of the line of p.
LEMMA NewElementInv ==
    ASSUME IInv, NEW p \in Peer, elem' = Append(elem, NewElement(p)),
           queue' = [queue EXCEPT ![p].nonce = Append(queue[p].nonce, Len(elem) + 1)],
           UNCHANGED <<encryption, nonce, worker, sender, device, last>>,
           keys' \in [Peer -> KeyPairs],
           \A q \in Peer : keys'[q].sendNonce = keys[q].sendNonce
    PROVE  IInv'
<1> DEFINE n == Len(elem)
           s == Append(queue[p].nonce, n + 1)
<1>1. /\ TypeInv /\ elem \in Seq(Element) /\ n \in Nat /\ queue[p].nonce \in Seq(Nat)
      /\ Sorted(queue[p].nonce)
  <2>1. TypeInv /\ Sorted(queue[p].nonce)
    BY DEF IInv, LineSorted
  <2>2. elem \in Seq(Element) /\ n \in Nat
    BY <2>1, SMT DEF TypeInv
  <2>3. QED
    BY <2>1, <2>2, QueueSet
<1>2. NewElement(p) \in Element /\ NewElement(p).key = 0
  BY OutboundAssumption, SMT DEF NewElement, Element
<1>3. /\ elem' \in Seq(Element) /\ Len(elem') = n + 1 /\ elem'[n + 1] = NewElement(p)
      /\ \A e \in 1 .. n : elem'[e] = elem[e]
  BY <1>1, <1>2, SMT
<1>4. \A q \in Peer : \A e \in Line(q) : e \in 1 .. n /\ elem[e].peer = q
  BY DEF IInv, Owned, LineOwned
<1>5. Before(Queued(p), {n + 1})
  BY <1>1, <1>4, SMT DEF Before, Line
<1>6. s \in Seq(Nat) /\ Range(s) = Queued(p) \cup {n + 1} /\ Sorted(s)
  <2>1. n + 1 \in Nat
    BY <1>1, SMT
  <2>2. QED
    BY <1>1, <1>5, <2>1, AppendFacts DEF Queued
<1>7. QueueBecomes(p, s, queue[p].outbound)
  BY <1>1, <1>6, QueueSet
<1> HIDE DEF n, s
<1>8. TypeInv'
  BY <1>1, <1>3, <1>7 DEF TypeInv, QueueBecomes
<1>9. ASSUME NEW q \in Peer
      PROVE  /\ Sending(q)' = Sending(q) /\ Ready(q)' = Ready(q) /\ Held(q)' = Held(q)
             /\ Queued(q)' = IF q = p THEN Queued(q) \cup {n + 1} ELSE Queued(q)
             /\ Sorted(queue'[q].nonce) /\ Sorted(queue'[q].outbound)
             /\ Given(q)' = Given(q) /\ Flight(q)' = Flight(q)
  <2>1. Sending(q)' = Sending(q) /\ Held(q)' = Held(q)
    BY DEF Sending, Held
  <2>2. queue'[q].outbound = queue[q].outbound
    BY <1>7 DEF QueueBecomes, Only
  <2>3. (q = p => queue'[q].nonce = s) /\ (q # p => queue'[q].nonce = queue[q].nonce)
    BY <1>7 DEF QueueBecomes, Only
  <2>4. Ready(q)' = Ready(q) /\ Sorted(queue'[q].outbound)
    BY <2>2 DEF Ready, IInv, LineSorted
  <2>5. /\ Queued(q)' = IF q = p THEN Queued(q) \cup {n + 1} ELSE Queued(q)
        /\ Sorted(queue'[q].nonce)
    <3>1. CASE q = p
      BY <1>6, <2>3, <3>1 DEF Queued
    <3>2. CASE q # p
      <4>1. Queued(q)' = Queued(q)
        BY <2>3, <3>2 DEF Queued
      <4>2. Sorted(queue[q].nonce)
        BY DEF IInv, LineSorted
      <4>3. QED
        BY <2>3, <3>2, <4>1, <4>2
    <3>3. QED
      BY <3>1, <3>2
  <2>6. Given(q)' = Given(q) /\ Flight(q)' = Flight(q)
    BY <2>1, <2>4 DEF Given, Flight
  <2>7. QED
    BY <2>1, <2>4, <2>5, <2>6
<1>10. ASSUME NEW q \in Peer
       PROVE  LineSorted(q)'
  <2>1. CASE q = p
    <3>1. \A x \in Line(p) \cup {last[p]} : x < n + 1
      <4>1. \A x \in Line(p) : x < n + 1
        BY <1>1, <1>4, SMT
      <4>2. last[p] < n + 1
        BY <1>1, SMT DEF IInv, Owned, LineOwned, TypeInv, n
      <4>3. QED
        BY <4>1, <4>2
    <3>2. QED
      BY <1>9, <2>1, <3>1, SMT DEF IInv, LineSorted, Line, Before
  <2>2. CASE q # p
    BY <1>9, <2>2 DEF IInv, LineSorted, Line
  <2>3. QED
    BY <2>1, <2>2
<1>11. Owned'
  <2>1. ASSUME NEW q \in Peer
        PROVE  LineOwned(q)'
    <3>1. Line(q)' \subseteq IF q = p THEN Line(q) \cup {n + 1} ELSE Line(q)
      BY <1>9 DEF Line
    <3>2. elem'[n + 1].peer = p
      BY <1>3, SMT DEF NewElement
    <3>3. \A e \in Line(q)' : e \in 1 .. n + 1 /\ elem'[e].peer = q
      BY <1>1, <1>3, <1>4, <3>1, <3>2, SMT
    <3>4. last[q] <= n + 1 /\ (sender[q].pc # "lock" => sender[q].elem = 0)
      BY <1>1, SMT DEF IInv, Owned, LineOwned, TypeInv, n
    <3>5. QED
      BY <1>3, <3>3, <3>4 DEF LineOwned
  <2>2. CarriersOwned'
    <3>1. \A e \in Range(encryption) : e \in 1 .. n
      BY DEF IInv, Owned, CarriersOwned, n
    <3>2. \A w \in Worker : worker[w] # Nil => worker[w] \in Nat /\ worker[w] <= n
      BY <1>1 DEF IInv, Owned, CarriersOwned, TypeInv, n
    <3>3. QED
      BY <1>1, <1>3, <3>1, <3>2, SMT DEF CarriersOwned
  <2>3. QED
    BY <2>1, <2>2 DEF Owned
<1>12. \A e \in 1 .. n + 1 : elem'[e].key # 0 => e \in 1 .. n /\ elem'[e] = elem[e]
  BY <1>1, <1>2, <1>3, SMT
<1>13. Counted' /\ NonceBelowLimit'
  <2>1. \A e \in 1 .. n : elem[e].peer \in Peer
    BY <1>1, ElementFacts DEF n
  <2>2. \A e \in 1 .. n :
            elem[e].key # 0 => elem[e].nonce < keys[elem[e].peer].sendNonce[elem[e].key]
    BY DEF IInv, Counted, n
  <2>3. Counted'
    BY <1>3, <1>12, <2>1, <2>2, SMTT(30) DEF IInv, Counted
  <2>4. NonceBelowLimit'
    BY DEF IInv, NonceBelowLimit
  <2>5. QED
    BY <2>3, <2>4
<1>14. NonceUsedOnce'
  <2>1. DOMAIN elem' = 1 .. n + 1 /\ DOMAIN elem = 1 .. n
    BY <1>1, <1>3, SMT DEF n
  <2>2. \A d, e \in 1 .. n :
            d # e /\ elem[d].key # 0 /\ elem[d].peer = elem[e].peer /\ elem[d].key = elem[e].key
            => elem[d].nonce # elem[e].nonce
    BY <2>1 DEF IInv, NonceUsedOnce
  <2>3. QED
    <3> SUFFICES ASSUME NEW d \in DOMAIN elem', NEW e \in DOMAIN elem',
                        d # e /\ elem'[d].key # 0,
                        elem'[d].peer = elem'[e].peer /\ elem'[d].key = elem'[e].key
                 PROVE  elem'[d].nonce # elem'[e].nonce
      BY DEF NonceUsedOnce
    <3>0. d \in 1 .. n + 1 /\ e \in 1 .. n + 1
      BY <2>1
    <3>1. d \in 1 .. n /\ e \in 1 .. n /\ elem'[d] = elem[d] /\ elem'[e] = elem[e]
      BY <1>12, <3>0
    <3>2. QED
      BY <2>2, <3>1
<1>15. Guarded'
  <2>1. \A q \in Peer : Given(q) \subseteq Line(q)
    BY DEF Given, Line, Held, Busy
  <2>2. \A q \in Peer : \A e \in Given(q)' : elem'[e].key # 0
    <3>1. \A q \in Peer : Given(q)' = Given(q)
      BY <1>9
    <3>2. \A q \in Peer : \A e \in Line(q) : elem'[e] = elem[e]
      BY <1>3, <1>4
    <3>3. \A q \in Peer : \A e \in Given(q) : elem[e].key # 0
      BY DEF IInv, Guarded
    <3>4. QED
      BY <2>1, <3>1, <3>2, <3>3
  <2>3. \A e \in 1 .. n + 1 :
            elem'[e].key # 0 => elem'[e].locked \/ elem'[e].dropped \/ elem'[e].sealed
    BY <1>12 DEF IInv, Guarded, n
  <2>4. QED
    BY <1>3, <2>2, <2>3 DEF Guarded
<1>16. Holding'
  <2> SUFFICES ASSUME device = "open", NEW q \in Peer
               PROVE  /\ \A x \in Flight(q)' : elem'[x].locked => Carried(x)' /\ ~elem'[x].dropped
                      /\ nonce[q].pc = "encrypt" /\ elem'[nonce[q].elem].locked =>
                            ~elem'[nonce[q].elem].dropped
    BY DEF Holding
  <2>1. /\ \A x \in Flight(q) : elem[x].locked => Carried(x) /\ ~elem[x].dropped
        /\ nonce[q].pc = "encrypt" /\ elem[nonce[q].elem].locked => ~elem[nonce[q].elem].dropped
    BY DEF IInv, Holding
  <2>2. \A x : Carried(x) => Carried(x)'
    BY DEF Carried
  <2>3. \A x \in Line(q) : elem'[x] = elem[x]
    BY <1>3, <1>4
  <2>4. Flight(q) \subseteq Line(q) /\ (nonce[q].pc = "encrypt" => nonce[q].elem \in Line(q))
    BY FlightInLine DEF Line, Busy
  <2>5. QED
    BY <1>9, <2>1, <2>2, <2>3, <2>4
<1>17. QED
  BY <1>8, <1>10, <1>11, <1>13, <1>14, <1>15, <1>16 DEF IInv

\* What RoutineNonce writes into the element it gives a nonce.
LEMMA AssignFacts ==
    ASSUME TypeInv, NEW e \in 1 .. Len(elem), NEW k \in 0 .. MaxKeys, NEW n \in Nat,
           elem' = [elem EXCEPT ![e].key = k, ![e].nonce = n, ![e].dropped = FALSE,
                                ![e].locked = TRUE]
    PROVE  /\ elem' \in Seq(Element) /\ Len(elem') = Len(elem)
           /\ \A i \in 1 .. Len(elem) : i # e => elem'[i] = elem[i]
           /\ elem'[e].peer = elem[e].peer /\ elem'[e].key = k /\ elem'[e].nonce = n
           /\ elem'[e].dropped = FALSE /\ elem'[e].locked = TRUE
<1> DEFINE x == [elem[e] EXCEPT !.key = k, !.nonce = n, !.dropped = FALSE, !.locked = TRUE]
<1>1. elem \in Seq(Element) /\ elem[e] \in Element /\ e \in DOMAIN elem
  BY ElementFacts, SMT DEF TypeInv
<1>2. elem' = [elem EXCEPT ![e] = x]
  BY <1>1
<1>3. /\ x \in Element /\ x.peer = elem[e].peer /\ x.key = k /\ x.nonce = n
      /\ x.dropped = FALSE /\ x.locked = TRUE
  BY <1>1 DEF Element
<1> HIDE DEF x
<1>4. /\ elem' \in Seq(Element) /\ Len(elem') = Len(elem)
      /\ \A i \in 1 .. Len(elem) : elem'[i] = IF i = e THEN x ELSE elem[i]
  BY <1>1, <1>2, <1>3, Rewritten, SMTT(30)
<1>5. QED
  BY <1>3, <1>4

\* A nonce is counted.
LEMMA CountFacts ==
    ASSUME TypeInv, NEW p \in Peer, NEW k \in 1 .. MaxKeys,
           keys' = [keys EXCEPT ![p].sendNonce[k] = @ + 1]
    PROVE  /\ keys' \in [Peer -> KeyPairs] /\ Only(keys, keys', p)
           /\ keys'[p].sendNonce[k] = keys[p].sendNonce[k] + 1
           /\ \A j \in 1 .. MaxKeys : j # k => keys'[p].sendNonce[j] = keys[p].sendNonce[j]
<1> DEFINE f == [keys[p].sendNonce EXCEPT ![k] = keys[p].sendNonce[k] + 1]
           x == [keys[p] EXCEPT !.sendNonce = f]
<1>1. keys \in [Peer -> KeyPairs] /\ keys[p] \in KeyPairs
  BY DEF TypeInv
<1>2. keys[p].sendNonce \in [1 .. MaxKeys -> Nat]
  BY <1>1, KeyPairsFacts
<1>3. /\ f \in [1 .. MaxKeys -> Nat] /\ f[k] = keys[p].sendNonce[k] + 1
      /\ \A j \in 1 .. MaxKeys : j # k => f[j] = keys[p].sendNonce[j]
  <2>1. ASSUME NEW g \in [1 .. MaxKeys -> Nat]
        PROVE  LET h == [g EXCEPT ![k] = g[k] + 1] IN
               /\ h \in [1 .. MaxKeys -> Nat] /\ h[k] = g[k] + 1
               /\ \A j \in 1 .. MaxKeys : j # k => h[j] = g[j]
    BY SMT
  <2>2. QED
    BY <1>2, <2>1
<1>4. keys' = [keys EXCEPT ![p] = x]
  BY <1>1
<1> HIDE DEF f
<1>5. x \in KeyPairs /\ x.sendNonce = f
  BY <1>1, <1>3, KeyPairsFacts
<1> HIDE DEF x
<1>6. keys' \in [Peer -> KeyPairs] /\ Only(keys, keys', p) /\ keys'[p] = x
  BY <1>1, <1>4, <1>5 DEF Only
<1>7. QED
  BY <1>3, <1>5, <1>6

\* RoutineNonce gives its element the next nonce of the key pair it looked up.
LEMMA NonceAssignInv ==
    ASSUME IInv, NEW p \in Peer, NonceAssign(p)
    PROVE  IInv'
<1> DEFINE e == nonce[p].elem
           k == nonce[p].key
           n == keys[p].sendNonce[k]
<1>1. /\ TypeInv /\ nonce[p].pc = "assign" /\ e \in Nat /\ k \in 1 .. MaxKeys /\ n \in Nat
      /\ n < RejectAfterMessages /\ ~(n >= RejectAfterMessages)
  <2>1. TypeInv /\ nonce[p].pc = "assign" /\ k # 0 /\ n < RejectAfterMessages
    BY DEF NonceAssign, IInv, Counted, NonceBelowLimit
  <2>2. nonce[p] \in Routine /\ keys[p] \in KeyPairs
    BY <2>1 DEF TypeInv
  <2>3. e \in Nat /\ k \in 0 .. MaxKeys /\ keys[p].sendNonce \in [1 .. MaxKeys -> Nat]
    BY <2>2, RoutineFacts, KeyPairsFacts
  <2>4. k \in 1 .. MaxKeys
    BY <2>1, <2>3, OutboundAssumption, SMTT(30)
  <2>5. n \in Nat
    BY <2>3, <2>4
  <2> HIDE DEF n
  <2>6. ~(n >= RejectAfterMessages)
    BY <2>1, <2>5, OutboundAssumption, SMT
  <2>7. QED
    BY <2>1, <2>3, <2>4, <2>5, <2>6
<1>2. e \in Held(p) /\ e \in Line(p) /\ e \in 1 .. Len(elem) /\ elem[e].peer = p
  <2>1. e \in Held(p) /\ e \in Line(p)
    BY <1>1, FlightInLine DEF Line, Busy
  <2>2. QED
    BY <2>1 DEF IInv, Owned, LineOwned
<1>3. /\ elem' = [elem EXCEPT ![e].key = k, ![e].nonce = n, ![e].dropped = FALSE,
                              ![e].locked = TRUE]
      /\ keys' = [keys EXCEPT ![p].sendNonce[k] = @ + 1]
      /\ nonce' = [nonce EXCEPT ![p].pc = "encrypt"]
      /\ UNCHANGED <<queue, encryption, worker, sender, device, last>>
  BY <1>1 DEF NonceAssign
<1>4. /\ elem' \in Seq(Element) /\ Len(elem') = Len(elem)
      /\ \A i \in 1 .. Len(elem) : i # e => elem'[i] = elem[i]
      /\ elem'[e].peer = p /\ elem'[e].key = k /\ elem'[e].nonce = n
      /\ elem'[e].dropped = FALSE /\ elem'[e].locked = TRUE
  <2>1. k \in 0 .. MaxKeys
    BY <1>1, SMT
  <2> HIDE DEF e, k, n
  <2>2. /\ elem' \in Seq(Element) /\ Len(elem') = Len(elem)
        /\ \A i \in 1 .. Len(elem) : i # e => elem'[i] = elem[i]
        /\ elem'[e].peer = elem[e].peer /\ elem'[e].key = k /\ elem'[e].nonce = n
        /\ elem'[e].dropped = FALSE /\ elem'[e].locked = TRUE
    BY <1>1, <1>2, <1>3, <2>1, AssignFacts
  <2>3. QED
    BY <1>2, <2>2
<1>5. /\ keys' \in [Peer -> KeyPairs] /\ Only(keys, keys', p)
      /\ keys'[p].sendNonce[k] = n + 1
      /\ \A j \in 1 .. MaxKeys : j # k => keys'[p].sendNonce[j] = keys[p].sendNonce[j]
  BY <1>1, <1>3, CountFacts
<1>6. NonceBecomes(p, "encrypt", e, k)
  <2>1. "encrypt" \in Place
    BY DEF Place, Busy
  <2>2. QED
    BY <1>1, <1>3, <2>1, NonceMoves
<1>7. keys[p].sendNonce[k] = n
  OBVIOUS
<1> HIDE DEF e, k, n
<1>8. TypeInv'
  BY <1>1, <1>3, <1>4, <1>5, <1>6 DEF TypeInv, NonceBecomes
<1>9. ASSUME NEW q \in Peer
      PROVE  /\ Sending(q)' = Sending(q) /\ Ready(q)' = Ready(q) /\ Held(q)' = Held(q)
             /\ Queued(q)' = Queued(q) /\ Line(q)' = Line(q) /\ Flight(q)' = Flight(q)
             /\ Given(q)' \subseteq Given(q) \cup {e} /\ (q # p => Given(q)' = Given(q))
             /\ LineSorted(q)'
  <2>1. Sending(q)' = Sending(q) /\ Ready(q)' = Ready(q) /\ Queued(q)' = Queued(q)
    BY <1>3 DEF Sending, Ready, Queued
  <2>2. /\ Held(q)' = Held(q) /\ Flight(q)' = Flight(q)
        /\ Given(q)' \subseteq Given(q) \cup {e} /\ (q # p => Given(q)' = Given(q))
    <3>1. CASE q = p
      BY <1>1, <1>6, <2>1, <3>1 DEF Held, Flight, Given, NonceBecomes, Busy, e
    <3>2. CASE q # p
      BY <1>6, <2>1, <3>2 DEF Held, Flight, Given, NonceBecomes, Only
    <3>3. QED
      BY <3>1, <3>2
  <2>3. LineSorted(q) /\ Line(q)' = Line(q)
    BY <2>1, <2>2 DEF IInv, Line
  <2>4. LineSorted(q)'
    BY <1>3, <2>1, <2>2, <2>3 DEF LineSorted
  <2>5. QED
    BY <2>1, <2>2, <2>3, <2>4
<1>10. ASSUME NEW q \in Peer
       PROVE  e \notin Flight(q) /\ (q # p /\ nonce[q].pc = "encrypt" => nonce[q].elem # e)
  <2>1. CASE q = p
    <3>1. \A x \in Sending(p) \cup Ready(p) : x < e
      BY <1>2 DEF IInv, LineSorted, Before
    <3>2. Flight(p) = Sending(p) \cup Ready(p)
      BY <1>1 DEF Flight
    <3>3. QED
      BY <1>2, <2>1, <3>1, <3>2, SMTT(30)
  <2>2. CASE q # p
    BY <1>2, <2>2, LinesApart, FlightInLine, SMTT(30) DEF Line, Busy
  <2>3. QED
    BY <2>1, <2>2
<1>11. Owned'
  <2>1. ASSUME NEW q \in Peer
        PROVE  LineOwned(q)'
    <3>1. LineOwned(q)
      BY DEF IInv, Owned
    <3>2. \A x \in Line(q) : elem'[x].peer = q
      BY <1>2, <1>4, <3>1 DEF LineOwned
    <3>3. QED
      BY <1>3, <1>4, <1>9, <3>1, <3>2 DEF LineOwned
  <2>2. CarriersOwned'
    BY <1>3, <1>4 DEF IInv, Owned, CarriersOwned
  <2>3. QED
    BY <2>1, <2>2 DEF Owned
<1>12. \A x \in 1 .. Len(elem) :
          elem[x].key # 0 =>
              /\ elem[x].peer \in Peer /\ elem[x].key \in 1 .. MaxKeys /\ elem[x].nonce \in Nat
              /\ elem[x].nonce < keys[elem[x].peer].sendNonce[elem[x].key]
  <2> SUFFICES ASSUME NEW x \in 1 .. Len(elem), elem[x].key # 0
               PROVE  /\ elem[x].peer \in Peer /\ elem[x].key \in 1 .. MaxKeys
                      /\ elem[x].nonce \in Nat
                      /\ elem[x].nonce < keys[elem[x].peer].sendNonce[elem[x].key]
    OBVIOUS
  <2>1. elem[x].peer \in Peer /\ elem[x].key \in 0 .. MaxKeys /\ elem[x].nonce \in Nat
    BY <1>1, ElementFacts
  <2>2. elem[x].nonce < keys[elem[x].peer].sendNonce[elem[x].key]
    BY DEF IInv, Counted
  <2>3. QED
    BY <2>1, <2>2, OutboundAssumption, SMTT(30)
<1>13. ASSUME NEW q \in Peer, NEW j \in 1 .. MaxKeys, NEW m \in Nat,
              m < keys[q].sendNonce[j]
       PROVE  m < keys'[q].sendNonce[j]
  <2>1. CASE q = p /\ j = k
    BY <1>1, <1>5, <1>7, <1>13, <2>1, SMTT(30)
  <2>2. CASE q = p /\ j # k
    BY <1>5, <1>13, <2>2
  <2>3. CASE q # p
    BY <1>5, <1>13, <2>3 DEF Only
  <2>4. QED
    BY <2>1, <2>2, <2>3
<1>14. \A q \in Peer : q # p => nonce'[q] = nonce[q] /\ keys'[q] = keys[q]
  BY <1>5, <1>6 DEF NonceBecomes, Only
<1>15. nonce'[p].pc = "encrypt" /\ nonce'[p].elem = e
  BY <1>6 DEF NonceBecomes
<1>16. Counted' /\ NonceBelowLimit'
  <2>1. ASSUME NEW x \in 1 .. Len(elem), elem'[x].key # 0
        PROVE  elem'[x].nonce < keys'[elem'[x].peer].sendNonce[elem'[x].key]
    <3>1. CASE x = e
      BY <1>1, <1>4, <1>5, <3>1, SMT
    <3>2. CASE x # e
      <4>1. elem'[x] = elem[x] /\ elem[x].key # 0
        BY <1>4, <2>1, <3>2
      <4>2. QED
        BY <1>12, <1>13, <4>1
    <3>3. QED
      BY <3>1, <3>2
  <2>2. \A q \in Peer : nonce'[q].pc = "assign" => q # p
    BY <1>15
  <2>3. \A q \in Peer : nonce'[q].pc = "assign" =>
            nonce'[q].key # 0 /\ keys'[q].sendNonce[nonce'[q].key] < RejectAfterMessages
    BY <1>14, <2>2 DEF IInv, Counted, NonceBelowLimit
  <2>4. QED
    BY <1>4, <2>1, <2>3 DEF Counted, NonceBelowLimit
<1>17. NonceUsedOnce'
  <2> SUFFICES ASSUME NEW c \in DOMAIN elem', NEW d \in DOMAIN elem',
                      c # d /\ elem'[c].key # 0,
                      elem'[c].peer = elem'[d].peer /\ elem'[c].key = elem'[d].key
               PROVE  elem'[c].nonce # elem'[d].nonce
    BY DEF NonceUsedOnce
  <2>1. DOMAIN elem = 1 .. Len(elem) /\ DOMAIN elem' = 1 .. Len(elem)
    BY <1>1, <1>4, SMTT(30) DEF TypeInv
  <2>2. \A x \in 1 .. Len(elem) :
            x # e /\ elem[x].peer = p /\ elem[x].key = k =>
                elem[x].nonce < n /\ elem[x].nonce \in Nat
    BY <1>1, <1>7, <1>12, SMTT(30)
  <2>3. CASE c = e
    <3>1. elem'[d] = elem[d] /\ elem[d].peer = p /\ elem[d].key = k
      BY <1>4, <2>1, <2>3
    <3>2. elem[d].nonce < n /\ elem[d].nonce \in Nat
      BY <2>1, <2>2, <2>3, <3>1
    <3>3. QED
      BY <1>1, <1>4, <2>3, <3>1, <3>2, SMTT(30)
  <2>4. CASE d = e
    <3>1. elem'[c] = elem[c] /\ elem[c].peer = p /\ elem[c].key = k
      BY <1>4, <2>1, <2>4
    <3>2. elem[c].nonce < n /\ elem[c].nonce \in Nat
      BY <2>1, <2>2, <2>4, <3>1
    <3>3. QED
      BY <1>1, <1>4, <2>4, <3>1, <3>2, SMTT(30)
  <2>5. CASE c # e /\ d # e
    <3>1. elem'[c] = elem[c] /\ elem'[d] = elem[d] /\ c \in DOMAIN elem /\ d \in DOMAIN elem
      BY <1>4, <2>1, <2>5
    <3>2. QED
      BY <3>1 DEF IInv, NonceUsedOnce
  <2>6. QED
    BY <2>3, <2>4, <2>5
<1>18. Guarded'
  <2>1. \A x \in 1 .. Len(elem) :
            elem'[x].key # 0 => elem'[x].locked \/ elem'[x].dropped \/ elem'[x].sealed
    BY <1>4 DEF IInv, Guarded
  <2>2. ASSUME NEW q \in Peer, NEW x \in Given(q)'
        PROVE  elem'[x].key # 0
    <3>1. CASE x = e
      BY <1>1, <1>4, <3>1, SMTT(30)
    <3>2. CASE x # e
      <4>1. x \in Given(q) /\ x \in Line(q)
        BY <1>9, <3>2 DEF Given, Line, Held, Busy
      <4>2. x \in 1 .. Len(elem) /\ elem[x].key # 0
        BY <4>1 DEF IInv, Guarded, Owned, LineOwned
      <4>3. QED
        BY <1>4, <3>2, <4>2
    <3>3. QED
      BY <3>1, <3>2
  <2>3. QED
    BY <1>4, <2>1, <2>2 DEF Guarded
<1>19. Holding'
  <2> SUFFICES ASSUME device' = "open", NEW q \in Peer
               PROVE  /\ \A x \in Flight(q)' : elem'[x].locked => Carried(x)' /\ ~elem'[x].dropped
                      /\ nonce'[q].pc = "encrypt" /\ elem'[nonce'[q].elem].locked =>
                            ~elem'[nonce'[q].elem].dropped
    BY DEF Holding
  <2>1. /\ \A x \in Flight(q) : elem[x].locked => Carried(x) /\ ~elem[x].dropped
        /\ nonce[q].pc = "encrypt" /\ elem[nonce[q].elem].locked => ~elem[nonce[q].elem].dropped
    BY <1>3 DEF IInv, Holding
  <2>2. \A x : Carried(x) => Carried(x)'
    BY <1>3 DEF Carried
  <2>3. \A x \in Line(q) : x # e => elem'[x] = elem[x]
    BY <1>4 DEF IInv, Owned, LineOwned
  <2>4. Flight(q) \subseteq Line(q) /\ (nonce[q].pc = "encrypt" => nonce[q].elem \in Line(q))
    BY FlightInLine DEF Line, Busy
  <2>5. \A x \in Flight(q)' : elem'[x].locked => Carried(x)' /\ ~elem'[x].dropped
    BY <1>9, <1>10, <2>1, <2>2, <2>3, <2>4
  <2>6. nonce'[q].pc = "encrypt" /\ elem'[nonce'[q].elem].locked => ~elem'[nonce'[q].elem].dropped
    <3>1. CASE q = p
      BY <1>4, <1>15, <3>1
    <3>2. CASE q # p
      BY <1>10, <1>14, <2>1, <2>3, <2>4, <3>2, SMTT(30)
    <3>3. QED
      BY <3>1, <3>2
  <2>7. QED
    BY <2>5, <2>6
<1>20. QED
  BY <1>8, <1>9, <1>11, <1>16, <1>17, <1>18, <1>19 DEF IInv

-----------------------------------------------------------------------------
(* Every step preserves the invariant.                                     *)

\* The TUN reader queues a packet.
LEMMA QueueForNonceInv ==
    ASSUME IInv, NEW p \in Peer, QueueForNonce(p)
    PROVE  IInv'
<1>1. UNCHANGED <<encryption, nonce, worker, sender, keys, device, last>>
  BY DEF QueueForNonce
<1>2. TypeInv /\ worker \in [Worker -> Nat \cup {Nil}] /\ keys \in [Peer -> KeyPairs]
  BY DEF IInv, TypeInv
<1>3. CASE UNCHANGED <<elem, queue>>
  BY <1>1, <1>2, <1>3, IdleInv DEF WorkersKept
<1>4. CASE /\ elem' = Append(elem, NewElement(p))
           /\ queue' = [queue EXCEPT ![p].nonce = Append(queue[p].nonce, Len(elem) + 1)]
  BY <1>1, <1>2, <1>4, NewElementInv
<1>5. CASE /\ Len(queue[p].nonce) = NonceSize /\ elem' = Drop(Head(queue[p].nonce))
           /\ queue' = [queue EXCEPT ![p].nonce = Tail(queue[p].nonce)]
  <2>1. queue[p].nonce # <<>>
    BY <1>5, OutboundAssumption
  <2>2. QED
    BY <1>1, <1>5, <2>1, NonceQueueEvicts
<1>6. QED
  BY <1>3, <1>4, <1>5 DEF QueueForNonce

\* A keepalive is queued, or there is no need for it.
LEMMA KeepaliveInv ==
    ASSUME IInv, NEW p \in Peer, KeepaliveQueued(p), keys' = keys \/ KeysTurn(p),
           UNCHANGED <<encryption, nonce, worker, sender, device, last>>
    PROVE  IInv'
<1>1. TypeInv
  BY DEF IInv
<1>2. /\ keys' \in [Peer -> KeyPairs] /\ Only(keys, keys', p)
      /\ \A q \in Peer : keys'[q].sendNonce = keys[q].sendNonce
  BY <1>1 DEF KeysTurn, Only, TypeInv
<1>3. CASE UNCHANGED <<elem, queue>>
  <2>1. LineThins(p)
    BY <1>2, <1>3 DEF LineThins, NonceThins, NonceStays, Shortens
  <2>2. /\ worker \in [Worker -> Nat \cup {Nil}] /\ queue \in [Peer -> Queues]
        /\ nonce \in [Peer -> Routine] /\ sender \in [Peer -> Routine]
    BY <1>1 DEF TypeInv
  <2>3. WorkersKept /\ Only(queue, queue', p) /\ Only(nonce, nonce', p) /\ Only(sender, sender', p)
    BY <1>3 DEF WorkersKept, Only
  <2>4. QED
    BY <1>2, <1>3, <2>1, <2>2, <2>3, OneThinned
<1>4. CASE /\ elem' = Append(elem, NewElement(p))
           /\ queue' = [queue EXCEPT ![p].nonce = Append(queue[p].nonce, Len(elem) + 1)]
  BY <1>2, <1>4, NewElementInv
<1>5. QED
  BY <1>3, <1>4 DEF KeepaliveQueued

\* The two callers of SendKeepalive.
LEMMA SendKeepaliveInv ==
    ASSUME IInv, NEW p \in Peer, SendKeepalive(p) \/ InitiatorSignal(p)
    PROVE  IInv'
<1>1. TypeInv
  BY DEF IInv
<1>2. CASE SendKeepalive(p)
  BY <1>2, KeepaliveInv DEF SendKeepalive
<1>3. CASE InitiatorSignal(p)
  <2>1. KeysTurn(p)
    BY <1>1, <1>3, KeysSet DEF InitiatorSignal
  <2>2. QED
    BY <1>3, <2>1, KeepaliveInv DEF InitiatorSignal
<1>4. QED
  BY <1>2, <1>3

\* RoutineNonce passes an element on, or makes room for it.
LEMMA NoncePassesInv ==
    ASSUME IInv, NEW p \in Peer, NonceEncrypt(p) \/ NonceOutbound(p)
    PROVE  IInv'
<1>1. CASE NonceEncrypt(p) /\ Len(encryption) < EncryptionSize
  BY <1>1, NonceEncryptAdds, SMT DEF NonceEncrypt
<1>2. CASE NonceEncrypt(p) /\ Len(encryption) = EncryptionSize
  <2>1. encryption # <<>>
    BY <1>2, OutboundAssumption
  <2>2. QED
    BY <1>2, <2>1, EncryptionQueueEvicts, SMTT(30) DEF NonceEncrypt
<1>3. CASE NonceOutbound(p) /\ Len(queue[p].outbound) < OutboundSize
  BY <1>3, NonceOutboundAdds, SMTT(30) DEF NonceOutbound
<1>4. CASE NonceOutbound(p) /\ Len(queue[p].outbound) = OutboundSize
  <2>1. queue[p].outbound # <<>>
    BY <1>4, OutboundAssumption
  <2>2. QED
    BY <1>4, <2>1, OutboundQueueEvicts, SMTT(30) DEF NonceOutbound
<1>5. QED
  BY <1>1, <1>2, <1>3, <1>4 DEF NonceEncrypt, NonceOutbound

\* The steps other than those of RoutineSequentialSender transmit nothing.
LEMMA OthersInv ==
    ASSUME IInv,
           \/ \E p \in Peer : \/ ReadFromTUN(p) \/ QueueForNonce(p) \/ SendKeepalive(p)
                              \/ RoutineNonce(p) \/ Handshaking(p)
                              \/ Stop(p) \/ StopFinish(p) \/ Start(p)
           \/ \E w \in Worker : RoutineEncryption(w)
           \/ \E lock \in {"noise", "net"} : LockHeld(lock)
           \/ Close \/ Closing
    PROVE  IInv' /\ last' = last
<1>1. ASSUME NEW p \in Peer, ReadFromTUN(p) \/ RetransmitGivesUp(p) \/ Stop(p)
      PROVE  IInv' /\ last' = last
  BY <1>1, BystanderInv DEF ReadFromTUN, RetransmitGivesUp, Stop
<1>2. ASSUME NEW p \in Peer, QueueForNonce(p)
      PROVE  IInv' /\ last' = last
  BY <1>2, QueueForNonceInv DEF QueueForNonce
<1>3. ASSUME NEW p \in Peer, SendKeepalive(p) \/ InitiatorSignal(p)
      PROVE  IInv' /\ last' = last
  <2>1. IInv'
    BY <1>3, SendKeepaliveInv
  <2>2. last' = last
    BY <1>3 DEF SendKeepalive, InitiatorSignal
  <2>3. QED
    BY <2>1, <2>2
<1>4. ASSUME NEW p \in Peer, NonceTake(p)
      PROVE  IInv' /\ last' = last
  BY <1>4, NonceTakeInv DEF NonceTake
<1>5. ASSUME NEW p \in Peer, NonceCheck(p)
      PROVE  IInv' /\ last' = last
  BY <1>5, NonceCheckInv DEF NonceCheck
<1>6. ASSUME NEW p \in Peer, \/ NonceDrain(p) \/ NonceInitiate(p) \/ NonceArrived(p)
                             \/ NonceFlush(p) \/ NonceStop(p)
      PROVE  IInv' /\ last' = last
  BY <1>6, QuietInv DEF NonceDrain, NonceInitiate, NonceArrived, NonceFlush, NonceStop
<1>7. ASSUME NEW p \in Peer, NonceAssign(p)
      PROVE  IInv' /\ last' = last
  BY <1>7, NonceAssignInv DEF NonceAssign
<1>8. ASSUME NEW p \in Peer, NonceEncrypt(p) \/ NonceOutbound(p)
      PROVE  IInv' /\ last' = last
  BY <1>8, NoncePassesInv DEF NonceEncrypt, NonceOutbound
<1>9. ASSUME NEW p \in Peer,
             \/ InitiatorKeypair(p) \/ ResponderKeypair(p) \/ KeypairExpires(p)
             \/ StopFinish(p) \/ Start(p)
      PROVE  IInv' /\ last' = last
  BY <1>9, QuietInv
     DEF InitiatorKeypair, ResponderKeypair, KeypairExpires, StopFinish, Start
<1>10. ASSUME NEW w \in Worker, WorkerTake(w)
       PROVE  IInv' /\ last' = last
  BY <1>10, WorkerTakeInv DEF WorkerTake
<1>11. ASSUME NEW w \in Worker, WorkerSeal(w)
       PROVE  IInv' /\ last' = last
  BY <1>11, WorkerSealInv DEF WorkerSeal
<1>12. ASSUME NEW w \in Worker, WorkerStop(w)
       PROVE  IInv' /\ last' = last
  BY <1>12, BystanderInv DEF WorkerStop
<1>13. CASE Close \/ CloseFlush \/ CloseFinish
  BY <1>13, BystanderInv DEF Close, CloseFlush, CloseFinish
<1>14. CASE FlushPacketQueues
  BY <1>14, FlushInv DEF FlushPacketQueues
<1>15. CASE \E lock \in {"noise", "net"} : LockHeld(lock)
  BY <1>15, BystanderInv DEF LockHeld
<1>16. QED
  BY <1>1, <1>2, <1>3, <1>4, <1>5, <1>6, <1>7, <1>8, <1>9, <1>10, <1>11, <1>12, <1>13, <1>14,
     <1>15, ZenonT(30) DEF RoutineNonce, Handshaking, RoutineEncryption, Closing

\* What every step does: the invariant is kept, and the last element a peer
\* transmitted only grows.
LEMMA StepInv ==
    ASSUME IInv, [Next]_vars
    PROVE  IInv' /\ \A p \in Peer : last'[p] # last[p] => last'[p] > last[p]
<1>1. CASE UNCHANGED vars
  <2>1. worker \in [Worker -> Nat \cup {Nil}]
    BY DEF IInv, TypeInv
  <2>2. QED
    BY <1>1, <2>1, IdleInv DEF vars, WorkersKept
<1>2. ASSUME NEW p \in Peer, SenderTake(p)
      PROVE  IInv' /\ last' = last
  BY <1>2, SenderTakeInv DEF SenderTake
<1>3. ASSUME NEW p \in Peer, SenderPasses(p) \/ SenderStop(p)
      PROVE  IInv' /\ last' = last
  BY <1>3, QuietInv DEF SenderPasses, SenderStop
<1>4. ASSUME NEW p \in Peer, SenderSend(p)
      PROVE  IInv' /\ \A q \in Peer : last'[q] # last[q] => last'[q] > last[q]
  BY <1>4, SenderSendInv
<1>5. CASE Next /\ ~\E p \in Peer : RoutineSequentialSender(p)
  BY <1>5, OthersInv DEF Next
<1>6. QED
  BY <1>1, <1>2, <1>3, <1>4, <1>5 DEF RoutineSequentialSender

\* The invariant holds when the device is new.
LEMMA InitInv == Init => IInv
<1> SUFFICES ASSUME Init
             PROVE  IInv
  OBVIOUS
<1>1. 0 \in 0 .. MaxKeys /\ 0 \in Nat /\ "idle" \in Place /\ "idle" \notin Busy
  BY OutboundAssumption, SMTT(30) DEF Place, Busy
<1>2. /\ NewQueues \in Queues /\ NewQueues.nonce = <<>> /\ NewQueues.outbound = <<>>
      /\ At("idle", 0, 0) \in Routine /\ At("idle", 0, 0).pc = "idle"
      /\ At("idle", 0, 0).elem = 0
  BY <1>1, AtFacts, SMT DEF NewQueues, Queues
<1>3. \A p \in Peer : /\ queue[p].nonce = <<>> /\ queue[p].outbound = <<>>
                      /\ nonce[p].pc = "idle" /\ sender[p].pc = "idle"
                      /\ sender[p].elem = 0 /\ last[p] = 0
  BY <1>2 DEF Init
<1>4. elem = <<>> /\ encryption = <<>> /\ Len(elem) = 0 /\ \A w \in Worker : worker[w] = 0
  BY DEF Init
<1>5. keys \in [Peer -> KeyPairs]
  <2> DEFINE f == [k \in 1 .. MaxKeys |-> 0]
             x == [current |-> 0, made |-> 0, fresh |-> FALSE, arriving |-> FALSE,
                   sendNonce |-> f]
  <2>1. FALSE \in BOOLEAN /\ f \in [1 .. MaxKeys -> Nat]
    OBVIOUS
  <2>2. keys = [p \in Peer |-> x]
    BY DEF Init
  <2> HIDE DEF f
  <2>3. x \in KeyPairs
    BY <1>1, <2>1 DEF KeyPairs
  <2> HIDE DEF x
  <2>4. QED
    BY <2>2, <2>3
<1>6. TypeInv
  <2>1. <<>> \in Seq(Element) /\ <<>> \in Seq(Nat)
    BY SMT
  <2>2. elem \in Seq(Element) /\ encryption \in Seq(Nat)
    BY <1>4, <2>1
  <2>3. queue \in [Peer -> Queues]
    BY <1>2 DEF Init
  <2>4. nonce \in [Peer -> Routine] /\ sender \in [Peer -> Routine]
    BY <1>2 DEF Init
  <2>5. worker \in [Worker -> Nat \cup {Nil}] /\ last \in [Peer -> Nat]
    BY <1>1 DEF Init
  <2>6. QED
    BY <1>5, <2>2, <2>3, <2>4, <2>5 DEF TypeInv
<1>7. \A p \in Peer : Line(p) = {} /\ Given(p) = {} /\ Flight(p) = {}
  <2>1. \A p \in Peer : Sending(p) = {} /\ Held(p) = {} /\ Ready(p) = {} /\ Queued(p) = {}
    BY <1>1, <1>3, EmptyFacts DEF Sending, Held, Ready, Queued
  <2>2. QED
    BY <1>3, <2>1 DEF Line, Given, Flight
<1>8. \A p \in Peer : LineSorted(p)
  BY <1>3, <1>7, EmptyFacts DEF LineSorted, Before, Line
<1>9. Owned
  <2>1. Range(encryption) = {}
    BY <1>4, EmptyFacts
  <2>2. \A w \in Worker : worker[w] <= Len(elem)
    BY <1>4, SMT
  <2>3. \A p \in Peer : last[p] <= Len(elem)
    <3>1. \A p \in Peer : last[p] = 0
      BY <1>3
    <3>2. 0 <= Len(elem)
      BY <1>4, SMTT(30)
    <3>3. QED
      BY <3>1, <3>2
  <2>4. QED
    BY <1>3, <1>7, <2>1, <2>2, <2>3 DEF Owned, LineOwned, CarriersOwned
<1>10. \A e : e \notin 1 .. Len(elem) /\ e \notin DOMAIN elem
  BY <1>4, SMT
<1>11. \A p \in Peer : nonce[p].pc # "assign" /\ nonce[p].pc # "encrypt"
  BY <1>3
<1>12. Counted /\ NonceBelowLimit /\ NonceUsedOnce
  BY <1>10, <1>11 DEF Counted, NonceBelowLimit, NonceUsedOnce
<1>13. Guarded /\ Holding
  BY <1>7, <1>10, <1>11 DEF Guarded, Holding
<1>14. QED
  BY <1>6, <1>8, <1>9, <1>12, <1>13 DEF IInv

-----------------------------------------------------------------------------
(* Theorems.                                                               *)

\* The inductive invariant holds in every behaviour of the pipeline.
THEOREM Invariance == Spec => []IInv
<1>1. IInv /\ [Next]_vars => IInv'
  BY StepInv
<1>2. QED
  BY InitInv, <1>1, PTL DEF Spec

\* No nonce is used twice under a key, however many peers share the workers and
\* however often RoutineNonce goes on with a key pair that was replaced.
THEOREM NoncesAreFresh == Spec => []NonceUsedOnce
<1>1. IInv => NonceUsedOnce
  BY DEF IInv
<1>2. QED
  BY Invariance, <1>1, PTL

\* The double check of RoutineNonce against RejectAfterMessages never fires: only
\* RoutineNonce counts the nonces of its peer between the lookup and the use.
THEOREM DoubleCheckNeverFires == Spec => []NonceBelowLimit
<1>1. IInv => NonceBelowLimit
  BY DEF IInv
<1>2. QED
  BY Invariance, <1>1, PTL

\* The sequential sender transmits nothing that was not encrypted.
THEOREM SentIsSealed == Spec => []SealedBeforeSent
<1>1. ASSUME IInv
      PROVE  SealedBeforeSent
  <2> SUFFICES ASSUME NEW p \in Peer, sender[p].pc = "lock",
                      ~elem[sender[p].elem].locked, ~elem[sender[p].elem].dropped
               PROVE  elem[sender[p].elem].sealed
    BY DEF SealedBeforeSent
  <2>1. sender[p].elem \in Given(p) /\ sender[p].elem \in Line(p)
    BY DEF Given, Line, Sending
  <2>2. sender[p].elem \in 1 .. Len(elem) /\ elem[sender[p].elem].key # 0
    BY <1>1, <2>1 DEF IInv, Guarded, Owned, LineOwned
  <2>3. QED
    BY <1>1, <2>2 DEF IInv, Guarded
<1>2. QED
  BY Invariance, <1>1, PTL

\* While the device is open, every locked element that a sender waits for or will
\* wait for is in the encryption queue or with a worker.
THEOREM LocksAreHeld == Spec => []LockHasHolder
<1>1. ASSUME IInv
      PROVE  LockHasHolder
  <2> SUFFICES ASSUME device = "open", NEW p \in Peer, NEW e \in DOMAIN elem,
                      InFlight(p, e), elem[e].locked
               PROVE  \/ \E i \in DOMAIN encryption : encryption[i] = e
                      \/ \E w \in Worker : worker[w] = e
    BY DEF LockHasHolder
  <2>1. /\ e \in 1 .. Len(elem) /\ encryption \in Seq(Nat)
        /\ DOMAIN encryption = 1 .. Len(encryption)
    BY <1>1, SMTT(30) DEF IInv, TypeInv
  <2>2. queue[p].outbound \in Seq(Nat) /\ DOMAIN queue[p].outbound = 1 .. Len(queue[p].outbound)
    <3>1. queue[p].outbound \in Seq(Nat)
      BY <1>1, QueueSet DEF IInv
    <3>2. QED
      BY <3>1, SMT
  <2>3. sender[p].elem = e => sender[p].pc = "lock"
    BY <1>1, <2>1, SMTT(30) DEF IInv, Owned, LineOwned
  <2>4. e \in Flight(p)
    BY <2>2, <2>3 DEF InFlight, Flight, Sending, Ready, Range
  <2>5. Carried(e)
    BY <1>1, <2>4 DEF IInv, Holding
  <2>6. QED
    BY <2>1, <2>5 DEF Carried, Range
<1>2. QED
  BY Invariance, <1>1, PTL

\* The packets of a peer leave in the order in which they were read.
THEOREM PacketsLeaveInOrder == Spec => OrderKept
<1>1. IInv /\ [Next]_vars => [\A p \in Peer : last'[p] # last[p] => last'[p] > last[p]]_vars
  BY StepInv
<1>2. QED
  BY Invariance, <1>1, PTL DEF Spec, OrderKept

=============================================================================
