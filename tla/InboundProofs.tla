---------------------------- MODULE InboundProofs ----------------------------
(***************************************************************************)
(* Proofs about the inbound pipeline, for any datagrams, receiving         *)
(* routines, workers and queue sizes: what is accepted was decrypted, is   *)
(* accepted once and alone moves the endpoint, and a receiver that waits   *)
(* for the mutex of an element while the device is open waits for one that *)
(* is still to be decrypted.                                               *)
(*                                                                         *)
(* The first three rest on the flags of the elements alone: an element     *)
(* that is neither locked nor dropped has been opened.  The last rests on  *)
(* where the elements are: each is with one receiving routine, in the      *)
(* inbound queue or with the sequential receiver, once, so that dropping   *)
(* one on the way disturbs no other.                                       *)
(*                                                                         *)
(* The pipeline uses the replay filter by its promise.  At the end of the  *)
(* module: the filter implements the replay window, for every word size,   *)
(* ring size and window that fit together.                                 *)
(***************************************************************************)
EXTENDS Inbound, ReplayFilter, Integers, TLAPS

-----------------------------------------------------------------------------
(* The inductive invariant.                                                *)

Range(s) == {s[i] : i \in 1 .. Len(s)}

Injective(s) == \A i, j \in 1 .. Len(s) : s[i] = s[j] => i = j

Element == [datagram : Datagram, dropped : BOOLEAN, locked : BOOLEAN, opened : BOOLEAN,
            accepted : BOOLEAN, delivered : BOOLEAN]

IncomingState == [pc : {"read", "decrypt", "inbound"}, elem : Nat]

ReceiverState == [pc : {"idle", "lock", "accept", "initiate", "deliver", "stopped"}, elem : Nat]

TypeInv ==
    /\ elem \in Seq(Element)
    /\ decryption \in Seq(Nat)
    /\ inbound \in Seq(Nat)
    /\ incoming \in [Receiver -> IncomingState]
    /\ worker \in [Worker -> Nat \cup {Nil}]
    /\ receiver \in ReceiverState

\* Queues and routines hold elements.
Placed ==
    /\ \A e \in Range(decryption) \cup Range(inbound) : e \in 1 .. Len(elem)
    /\ \A r \in Receiver : incoming[r].pc # "read" => incoming[r].elem \in 1 .. Len(elem)
    /\ receiver.pc \in {"lock", "accept", "initiate", "deliver"} => receiver.elem \in 1 .. Len(elem)

\* What the flags of an element say of each other.
FlagsAgree(x) ==
    /\ x.opened => x.datagram.genuine
    /\ x.locked \/ x.dropped \/ x.opened
    /\ x.accepted \/ x.delivered => x.opened

\* The flags of the elements agree, the receiver works on elements that were opened, and
\* the filter knows what was accepted.
Opening ==
    /\ \A e \in 1 .. Len(elem) : FlagsAgree(elem[e])
    /\ receiver.pc \in {"accept", "initiate", "deliver"} => elem[receiver.elem].opened
    /\ \A e \in 1 .. Len(elem) :
          elem[e].accepted => <<elem[e].datagram.key, elem[e].datagram.counter>> \in filter

\* An element is in one place on its way to the receiver.
Apart ==
    /\ Injective(inbound)
    /\ receiver.pc = "lock" => receiver.elem \notin Range(inbound)
    /\ \A r \in Receiver : incoming[r].pc # "read" =>
          /\ incoming[r].elem \notin Range(inbound)
          /\ receiver.pc = "lock" => receiver.elem # incoming[r].elem
    /\ \A r, s \in Receiver :
          r # s /\ incoming[r].pc # "read" /\ incoming[s].pc # "read" =>
              incoming[r].elem # incoming[s].elem

\* The receiver waits for e, or will.
Flight(e) ==
    \/ e \in Range(inbound)
    \/ receiver.pc = "lock" /\ receiver.elem = e
    \/ \E r \in Receiver : incoming[r].pc = "inbound" /\ incoming[r].elem = e

Carried(e) == e \in Range(decryption) \/ \E w \in Worker : worker[w] = e

\* While the device is open, a locked element that the receiver will wait for is to be
\* decrypted, and no worker will skip it.
Guarded ==
  device = "open" =>
    /\ \A e \in 1 .. Len(elem) :
          Flight(e) /\ elem[e].locked => Carried(e) /\ ~elem[e].dropped
    /\ \A r \in Receiver : incoming[r].pc = "decrypt" /\ elem[incoming[r].elem].locked =>
          ~elem[incoming[r].elem].dropped

IInv ==
    /\ TypeInv /\ Placed
    /\ Opening /\ AcceptedOnce /\ EndpointGenuine
    /\ Apart /\ Guarded

-----------------------------------------------------------------------------
(* Sequences.                                                              *)

\* Taking the head off a queue.
LEMMA TailFacts ==
    ASSUME NEW s \in Seq(Nat), s # <<>>
    PROVE  /\ Tail(s) \in Seq(Nat)
           /\ Head(s) \in Range(s) /\ Head(s) \in Nat
           /\ Range(s) = {Head(s)} \cup Range(Tail(s))
           /\ Injective(s) => Injective(Tail(s)) /\ Head(s) \notin Range(Tail(s))
<1>1. Len(s) \in Nat \ {0} /\ Tail(s) \in Seq(Nat) /\ Len(Tail(s)) = Len(s) - 1
  OBVIOUS
<1>2. \A i \in 1 .. Len(s) : s[i] \in Nat
  OBVIOUS
<1>3. \A i \in 1 .. Len(Tail(s)) : i + 1 \in 1 .. Len(s) /\ Tail(s)[i] = s[i + 1]
  BY <1>1
<1>4. Head(s) = s[1] /\ 1 \in 1 .. Len(s)
  BY <1>1
<1>5. Head(s) \in Range(s) /\ Head(s) \in Nat
  BY <1>2, <1>4 DEF Range
<1>6. Range(Tail(s)) \subseteq Range(s)
  BY <1>3 DEF Range
<1>7. Range(s) \subseteq {Head(s)} \cup Range(Tail(s))
  <2> SUFFICES ASSUME NEW i \in 1 .. Len(s), i # 1
               PROVE  s[i] \in Range(Tail(s))
    BY <1>4, SMTT(30) DEF Range
  <2>1. i - 1 \in 1 .. Len(Tail(s)) /\ Tail(s)[i - 1] = s[i]
    BY <1>1, <1>3
  <2> QED
    BY <2>1 DEF Range
<1>8. ASSUME Injective(s)
      PROVE  Injective(Tail(s)) /\ Head(s) \notin Range(Tail(s))
  <2>1. Injective(Tail(s))
    <3> SUFFICES ASSUME NEW i \in 1 .. Len(Tail(s)), NEW j \in 1 .. Len(Tail(s)),
                        Tail(s)[i] = Tail(s)[j]
                 PROVE  i = j
      BY DEF Injective
    <3>1. i + 1 = j + 1
      BY <1>3, <1>8 DEF Injective
    <3> QED
      BY <1>1, <3>1
  <2>2. ASSUME NEW i \in 1 .. Len(Tail(s)), Head(s) = Tail(s)[i]
        PROVE  FALSE
    <3>1. 1 = i + 1
      BY <1>3, <1>4, <1>8, <2>2 DEF Injective
    <3> QED
      BY <1>1, <3>1
  <2> QED
    BY <2>1, <2>2 DEF Range
<1> QED
  BY <1>1, <1>5, <1>6, <1>7, <1>8

\* Putting an element at the end of a queue.
LEMMA AppendFacts ==
    ASSUME NEW s \in Seq(Nat), NEW x \in Nat
    PROVE  /\ Append(s, x) \in Seq(Nat)
           /\ Range(Append(s, x)) = Range(s) \cup {x}
           /\ Injective(s) /\ x \notin Range(s) => Injective(Append(s, x))
<1>1. Len(s) \in Nat /\ Append(s, x) \in Seq(Nat) /\ Len(Append(s, x)) = Len(s) + 1
  OBVIOUS
<1>2. /\ \A i \in 1 .. Len(s) : Append(s, x)[i] = s[i] /\ s[i] \in Range(s)
      /\ Append(s, x)[Len(s) + 1] = x
  BY DEF Range
<1>3. \A i : i \in 1 .. Len(Append(s, x)) <=> i \in 1 .. Len(s) \/ i = Len(s) + 1
  BY <1>1
<1>4. Range(Append(s, x)) = Range(s) \cup {x}
  BY <1>2, <1>3, Zenon DEF Range
<1>5. ASSUME Injective(s), x \notin Range(s),
             NEW i \in 1 .. Len(Append(s, x)), NEW j \in 1 .. Len(Append(s, x)),
             Append(s, x)[i] = Append(s, x)[j]
      PROVE  i = j
  BY <1>2, <1>3, <1>5, Zenon DEF Injective
<1> QED
  BY <1>1, <1>4, <1>5, Zenon DEF Injective

\* An empty queue.
LEMMA EmptyFacts == Range(<<>>) = {} /\ Injective(<<>>)
BY DEF Range, Injective

\* Rewriting one element.
LEMMA Rewritten ==
    ASSUME NEW s \in Seq(Element), NEW e \in 1 .. Len(s), NEW x \in Element
    PROVE  LET t == [s EXCEPT ![e] = x] IN
           /\ t \in Seq(Element) /\ Len(t) = Len(s)
           /\ \A i \in 1 .. Len(s) : t[i] = IF i = e THEN x ELSE s[i]
<1> DEFINE t == [s EXCEPT ![e] = x]
<1>1. Len(s) \in Nat /\ DOMAIN s = 1 .. Len(s) /\ \A i \in 1 .. Len(s) : s[i] \in Element
  OBVIOUS
<1>2. t \in [1 .. Len(s) -> Element]
  BY <1>1
<1>3. t \in Seq(Element) /\ Len(t) = Len(s)
  BY <1>1, <1>2
<1> QED
  BY <1>1, <1>3

-----------------------------------------------------------------------------
(* What the steps write.                                                   *)

\* The element e gets these flags, and keeps its datagram; the others stay.
Becomes(e, dropped, locked, opened, valid, delivered) ==
    /\ elem' \in Seq(Element) /\ Len(elem') = Len(elem)
    /\ \A i \in 1 .. Len(elem) : i # e => elem'[i] = elem[i]
    /\ elem'[e].datagram = elem[e].datagram
    /\ elem'[e].dropped = dropped /\ elem'[e].locked = locked /\ elem'[e].opened = opened
    /\ elem'[e].accepted = valid /\ elem'[e].delivered = delivered

\* The fields of an element.
LEMMA ElementFacts ==
    ASSUME TypeInv, NEW e \in 1 .. Len(elem)
    PROVE  /\ elem[e] \in Element /\ elem[e].datagram \in Datagram
           /\ elem[e].datagram.genuine \in BOOLEAN
           /\ elem[e].dropped \in BOOLEAN /\ elem[e].locked \in BOOLEAN
           /\ elem[e].opened \in BOOLEAN /\ elem[e].accepted \in BOOLEAN
           /\ elem[e].delivered \in BOOLEAN
<1>1. elem \in Seq(Element)
  BY DEF TypeInv
<1>2. elem[e] \in Element
  BY <1>1
<1> QED
  BY <1>2, DatagramAssumption DEF Element

\* The fields of y.
Fields(y, datagram, dropped, locked, opened, valid, delivered) ==
    /\ y \in Element /\ y.datagram = datagram
    /\ y.dropped = dropped /\ y.locked = locked /\ y.opened = opened
    /\ y.accepted = valid /\ y.delivered = delivered

\* Setting one flag.
LEMMA FlagSet ==
    ASSUME NEW x \in Element, NEW b \in BOOLEAN
    PROVE  /\ Fields([x EXCEPT !.dropped = b], x.datagram, b, x.locked, x.opened, x.accepted, x.delivered)
           /\ Fields([x EXCEPT !.locked = b], x.datagram, x.dropped, b, x.opened, x.accepted, x.delivered)
           /\ Fields([x EXCEPT !.opened = b], x.datagram, x.dropped, x.locked, b, x.accepted, x.delivered)
           /\ Fields([x EXCEPT !.accepted = b], x.datagram, x.dropped, x.locked, x.opened, b, x.delivered)
           /\ Fields([x EXCEPT !.delivered = b], x.datagram, x.dropped, x.locked, x.opened, x.accepted, b)
BY Zenon DEF Element, Fields

\* An element with these fields takes the place of elem[e].
LEMMA ElementSet ==
    ASSUME TypeInv, NEW e \in 1 .. Len(elem), NEW x, NEW dr, NEW lo, NEW op, NEW ac, NEW de,
           Fields(x, elem[e].datagram, dr, lo, op, ac, de), elem' = [elem EXCEPT ![e] = x]
    PROVE  Becomes(e, dr, lo, op, ac, de)
<1>1. elem \in Seq(Element) /\ x \in Element
  BY DEF TypeInv, Fields
<1>2. /\ elem' \in Seq(Element) /\ Len(elem') = Len(elem)
      /\ \A i \in 1 .. Len(elem) : elem'[i] = IF i = e THEN x ELSE elem[i]
  BY <1>1, Rewritten
<1> QED
  BY <1>2, Zenon DEF Becomes, Fields

\* The forms in which the steps change an element.
LEMMA ElementChanges ==
    ASSUME TypeInv, NEW e \in 1 .. Len(elem)
    PROVE  LET x == elem[e] IN
           /\ elem' = Drop(e) =>
                 Becomes(e, TRUE, x.locked, x.opened, x.accepted, x.delivered)
           /\ elem' = DropAndRelease(e) =>
                 Becomes(e, TRUE, FALSE, x.opened, x.accepted, x.delivered)
           /\ elem' = [elem EXCEPT ![e].opened = elem[e].datagram.genuine,
                                   ![e].dropped = @ \/ ~elem[e].datagram.genuine,
                                   ![e].locked = FALSE] =>
                 Becomes(e, x.dropped \/ ~x.datagram.genuine, FALSE, x.datagram.genuine,
                         x.accepted, x.delivered)
           /\ elem' = [elem EXCEPT ![e].locked = TRUE] =>
                 Becomes(e, x.dropped, TRUE, x.opened, x.accepted, x.delivered)
           /\ elem' = [elem EXCEPT ![e].accepted = TRUE] =>
                 Becomes(e, x.dropped, x.locked, x.opened, TRUE, x.delivered)
           /\ \A b \in BOOLEAN : elem' = [elem EXCEPT ![e].delivered = b] =>
                 Becomes(e, x.dropped, x.locked, x.opened, x.accepted, b)
<1> DEFINE x == elem[e]
           g == x.datagram.genuine
<1>1. x \in Element /\ e \in DOMAIN elem /\ g \in BOOLEAN /\ x.dropped \in BOOLEAN
  BY ElementFacts DEF TypeInv
<1>2. ASSUME elem' = Drop(e)
      PROVE  Becomes(e, TRUE, x.locked, x.opened, x.accepted, x.delivered)
  <2>1. elem' = [elem EXCEPT ![e] = [x EXCEPT !.dropped = TRUE]]
    BY <1>2, Zenon DEF Drop
  <2> QED
    BY <1>1, <2>1, FlagSet, ElementSet, Zenon
<1>3. ASSUME elem' = DropAndRelease(e)
      PROVE  Becomes(e, TRUE, FALSE, x.opened, x.accepted, x.delivered)
  <2> DEFINE y == [x EXCEPT !.dropped = TRUE]
             z == [y EXCEPT !.locked = FALSE]
  <2>1. Fields(y, x.datagram, TRUE, x.locked, x.opened, x.accepted, x.delivered)
    BY <1>1, FlagSet, Zenon
  <2>2. elem' = [elem EXCEPT ![e] = z]
    BY <1>1, <1>3, Zenon DEF DropAndRelease
  <2> HIDE DEF y
  <2>3. Fields(z, y.datagram, y.dropped, FALSE, y.opened, y.accepted, y.delivered)
    <3>1. y \in Element
      BY <2>1, Zenon DEF Fields
    <3> QED
      BY <3>1, FlagSet, Zenon
  <2> HIDE DEF z
  <2>4. Fields(z, x.datagram, TRUE, FALSE, x.opened, x.accepted, x.delivered)
    BY <2>1, <2>3, Zenon DEF Fields
  <2> QED
    BY <2>2, <2>4, ElementSet, Zenon
<1>4. ASSUME elem' = [elem EXCEPT ![e].opened = elem[e].datagram.genuine,
                                  ![e].dropped = @ \/ ~elem[e].datagram.genuine,
                                  ![e].locked = FALSE]
      PROVE  Becomes(e, x.dropped \/ ~g, FALSE, g, x.accepted, x.delivered)
  <2> DEFINE y == [x EXCEPT !.opened = g]
             b == y.dropped \/ ~g
             z == [y EXCEPT !.dropped = b]
             u == [z EXCEPT !.locked = FALSE]
  <2>1. Fields(y, x.datagram, x.dropped, x.locked, g, x.accepted, x.delivered)
    BY <1>1, FlagSet, Zenon
  <2>2. elem' = [elem EXCEPT ![e] = u]
    BY <1>1, <1>4, Zenon
  <2>3. b \in BOOLEAN
    OBVIOUS
  <2> HIDE DEF y, b
  <2>4. Fields(z, y.datagram, b, y.locked, y.opened, y.accepted, y.delivered)
    <3>1. y \in Element
      BY <2>1, Zenon DEF Fields
    <3> QED
      BY <2>3, <3>1, FlagSet, Zenon
  <2> HIDE DEF z
  <2>5. Fields(u, z.datagram, z.dropped, FALSE, z.opened, z.accepted, z.delivered)
    <3>1. z \in Element
      BY <2>4, Zenon DEF Fields
    <3> QED
      BY <3>1, FlagSet, Zenon
  <2> HIDE DEF u
  <2>6. b = (x.dropped \/ ~g)
    BY <2>1, Zenon DEF Fields, b
  <2>7. Fields(u, x.datagram, x.dropped \/ ~g, FALSE, g, x.accepted, x.delivered)
    BY <2>1, <2>4, <2>5, <2>6, Zenon DEF Fields
  <2> QED
    BY <2>2, <2>7, ElementSet, Zenon
<1>5. ASSUME elem' = [elem EXCEPT ![e].locked = TRUE]
      PROVE  Becomes(e, x.dropped, TRUE, x.opened, x.accepted, x.delivered)
  <2>1. elem' = [elem EXCEPT ![e] = [x EXCEPT !.locked = TRUE]]
    BY <1>5, Zenon
  <2> QED
    BY <1>1, <2>1, FlagSet, ElementSet, Zenon
<1>6. ASSUME elem' = [elem EXCEPT ![e].accepted = TRUE]
      PROVE  Becomes(e, x.dropped, x.locked, x.opened, TRUE, x.delivered)
  <2>1. elem' = [elem EXCEPT ![e] = [x EXCEPT !.accepted = TRUE]]
    BY <1>6, Zenon
  <2> QED
    BY <1>1, <2>1, FlagSet, ElementSet, Zenon
<1>7. ASSUME NEW b \in BOOLEAN, elem' = [elem EXCEPT ![e].delivered = b]
      PROVE  Becomes(e, x.dropped, x.locked, x.opened, x.accepted, b)
  <2>1. elem' = [elem EXCEPT ![e] = [x EXCEPT !.delivered = b]]
    BY <1>7, Zenon
  <2> QED
    BY <1>1, <2>1, FlagSet, ElementSet, Zenon
<1> QED
  BY <1>2, <1>3, <1>4, <1>5, <1>6, <1>7, Zenon

\* A receiving routine goes to c with the element e.
IncomingBecomes(r, c, e) ==
    /\ incoming' \in [Receiver -> IncomingState]
    /\ \A s \in Receiver : s # r => incoming'[s] = incoming[s]
    /\ incoming'[r].pc = c /\ incoming'[r].elem = e

\* The forms in which the steps change a receiving routine.
LEMMA IncomingChanges ==
    ASSUME TypeInv, NEW r \in Receiver, NEW c \in {"read", "decrypt", "inbound"}
    PROVE  /\ incoming' = [incoming EXCEPT ![r].pc = c] =>
                 IncomingBecomes(r, c, incoming[r].elem)
           /\ \A e \in Nat : incoming' = [incoming EXCEPT ![r] = At(c, e)] =>
                 IncomingBecomes(r, c, e)
<1>1. incoming \in [Receiver -> IncomingState] /\ incoming[r] \in IncomingState
  BY DEF TypeInv
<1>2. ASSUME NEW x \in IncomingState, incoming' = [incoming EXCEPT ![r] = x]
      PROVE  IncomingBecomes(r, x.pc, x.elem)
  BY <1>1, <1>2 DEF IncomingBecomes
<1>3. /\ [incoming[r] EXCEPT !.pc = c] \in IncomingState
      /\ [incoming[r] EXCEPT !.pc = c].pc = c
      /\ [incoming[r] EXCEPT !.pc = c].elem = incoming[r].elem
  BY <1>1 DEF IncomingState
<1>4. \A e \in Nat : At(c, e) \in IncomingState /\ At(c, e).pc = c /\ At(c, e).elem = e
  BY DEF IncomingState, At
<1>5. [incoming EXCEPT ![r].pc = c] = [incoming EXCEPT ![r] = [incoming[r] EXCEPT !.pc = c]]
  BY Zenon
<1> QED
  BY <1>2, <1>3, <1>4, <1>5, Zenon

\* The sequential receiver goes to c with the element e.
LEMMA ReceiverSet ==
    ASSUME NEW c \in {"idle", "lock", "accept", "initiate", "deliver", "stopped"}, NEW e \in Nat
    PROVE  At(c, e) \in ReceiverState /\ At(c, e).pc = c /\ At(c, e).elem = e
BY DEF ReceiverState, At

-----------------------------------------------------------------------------
(* Flags.                                                                  *)

\* A step that neither creates nor accepts an element, and closes none that was opened.
LEMMA OpeningKept ==
    ASSUME IInv, NEW e \in 1 .. Len(elem),
           NEW dr \in BOOLEAN, NEW lo \in BOOLEAN, NEW op \in BOOLEAN,
           Becomes(e, dr, lo, op, elem[e].accepted, elem[e].delivered),
           elem[e].opened => op, op => elem[e].datagram.genuine, lo \/ dr \/ op,
           receiver'.pc \in {"accept", "initiate", "deliver"} =>
               receiver'.elem \in 1 .. Len(elem) /\ elem'[receiver'.elem].opened,
           UNCHANGED <<filter, endpoint>>
    PROVE  Opening' /\ AcceptedOnce' /\ EndpointGenuine'
<1>1. elem \in Seq(Element) /\ elem' \in Seq(Element)
  BY DEF IInv, TypeInv, Becomes
<1>2. Len(elem') = Len(elem) /\ DOMAIN elem = 1 .. Len(elem) /\ DOMAIN elem' = 1 .. Len(elem)
  BY <1>1 DEF Becomes
<1>3. \A i \in 1 .. Len(elem) :
          /\ elem'[i].datagram = elem[i].datagram /\ elem'[i].accepted = elem[i].accepted
          /\ FlagsAgree(elem'[i]) /\ (elem[i].opened => elem'[i].opened)
  BY Zenon DEF IInv, Opening, FlagsAgree, Becomes
<1>4. Opening'
  BY <1>2, <1>3 DEF IInv, Opening
<1>5. AcceptedOnce'
  <2> SUFFICES ASSUME NEW i \in 1 .. Len(elem), NEW j \in 1 .. Len(elem), i # j,
                      elem'[i].accepted, elem'[j].accepted,
                      elem'[i].datagram.key = elem'[j].datagram.key
               PROVE  elem'[i].datagram.counter # elem'[j].datagram.counter
    BY <1>2, Zenon DEF AcceptedOnce
  <2>1. /\ elem[i].accepted /\ elem[j].accepted
        /\ elem[i].datagram.key = elem[j].datagram.key
    BY <1>3, Zenon
  <2>2. elem[i].datagram.counter # elem[j].datagram.counter
    BY <1>2, <2>1, Zenon DEF IInv, AcceptedOnce
  <2> QED
    BY <1>3, <2>2, Zenon
<1>6. EndpointGenuine'
  BY <1>2, <1>3, Zenon DEF IInv, EndpointGenuine
<1> QED
  BY <1>4, <1>5, <1>6

\* A step that leaves the elements alone.
LEMMA OpeningStands ==
    ASSUME IInv,
           receiver'.pc \in {"accept", "initiate", "deliver"} => elem[receiver'.elem].opened,
           UNCHANGED <<elem, filter, endpoint>>
    PROVE  Opening' /\ AcceptedOnce' /\ EndpointGenuine'
BY DEF IInv, Opening, AcceptedOnce, EndpointGenuine, FlagsAgree

-----------------------------------------------------------------------------
(* RoutineReceiveIncoming.                                                 *)

\* A new element is locked and known to one routine only.
LEMMA StepReceive ==
    ASSUME IInv, NEW r \in Receiver, NEW d \in Datagram, Receive(r, d)
    PROVE  IInv'
<1> DEFINE n == Len(elem) + 1
           x == NewElement(d)
<1>1. /\ incoming[r].pc = "read"
      /\ elem' = Append(elem, x) /\ incoming' = [incoming EXCEPT ![r] = At("decrypt", n)]
      /\ UNCHANGED <<decryption, inbound, worker, receiver, filter, endpoint, device>>
  BY DEF Receive
<1>2. /\ x \in Element /\ x.datagram = d /\ ~x.dropped /\ x.locked /\ ~x.opened
      /\ ~x.accepted /\ ~x.delivered
  BY DEF NewElement, Element
<1>3. elem \in Seq(Element) /\ Len(elem) \in Nat /\ n \in Nat
  BY DEF IInv, TypeInv
<1> HIDE DEF x
<1>4. /\ elem' \in Seq(Element) /\ Len(elem') = n
      /\ \A i \in 1 .. Len(elem) : elem'[i] = elem[i]
      /\ elem'[n] = x
  BY <1>1, <1>2, <1>3
<1>5. /\ DOMAIN elem = 1 .. Len(elem) /\ DOMAIN elem' = 1 .. n
      /\ 1 .. Len(elem) \subseteq 1 .. n /\ n \in 1 .. n /\ n \notin 1 .. Len(elem)
      /\ \A i \in 1 .. n : i \in 1 .. Len(elem) \/ i = n
  BY <1>3, <1>4
<1> HIDE DEF n
<1>6. IncomingBecomes(r, "decrypt", n)
  BY <1>1, <1>3, IncomingChanges, Zenon DEF IInv
<1>7. TypeInv'
  BY <1>1, <1>4, <1>6 DEF IInv, TypeInv, IncomingBecomes
<1>9. Placed'
  <2>1. \A e : e \in 1 .. Len(elem) => e \in 1 .. Len(elem')
    BY <1>4, <1>5
  <2>2. \A q \in Receiver : incoming'[q].pc # "read" => incoming'[q].elem \in 1 .. Len(elem')
    BY <1>4, <1>5, <1>6, <2>1, Zenon DEF IInv, Placed, IncomingBecomes
  <2> QED
    BY <1>1, <2>1, <2>2 DEF IInv, Placed
<1>10. Opening'
  <2>1. FlagsAgree(x)
    BY <1>2 DEF FlagsAgree
  <2>2. \A e \in 1 .. Len(elem') : FlagsAgree(elem'[e])
    BY <1>4, <1>5, <2>1 DEF IInv, Opening
  <2>3. receiver'.pc \in {"accept", "initiate", "deliver"} => elem'[receiver'.elem].opened
    BY <1>1, <1>4 DEF IInv, Opening, Placed
  <2> QED
    BY <1>1, <1>2, <1>4, <1>5, <2>2, <2>3, Zenon DEF IInv, Opening
<1>11. AcceptedOnce'
  BY <1>2, <1>4, <1>5 DEF IInv, AcceptedOnce
<1>12. EndpointGenuine'
  BY <1>1, <1>4, <1>5, Zenon DEF IInv, EndpointGenuine
<1>13. Apart'
  BY <1>1, <1>5, <1>6 DEF IInv, Placed, Apart, IncomingBecomes
<1>14. Guarded'
  <2>1. \A e : Flight(e)' => Flight(e) /\ e \in 1 .. Len(elem)
    BY <1>1, <1>6 DEF IInv, Placed, Flight, IncomingBecomes
  <2>2. \A e : Carried(e)' <=> Carried(e)
    BY <1>1 DEF Carried
  <2>3. ASSUME device = "open", NEW q \in Receiver, incoming'[q].pc = "decrypt"
        PROVE  elem'[incoming'[q].elem].locked => ~elem'[incoming'[q].elem].dropped
    <3>1. CASE q = r
      BY <1>2, <1>4, <1>6, <3>1 DEF IncomingBecomes
    <3>2. CASE q # r
      BY <1>4, <1>6, <2>3, <3>2, SMTT(30) DEF IncomingBecomes, IInv, Placed, Guarded
    <3> QED
      BY <3>1, <3>2
  <2> QED
    BY <1>1, <1>4, <2>1, <2>2, <2>3 DEF IInv, Guarded
<1> QED
  BY <1>7, <1>9, <1>10, <1>11, <1>12, <1>13, <1>14 DEF IInv

\* The element is put in the decryption queue, or the oldest one there is dropped and
\* released.
LEMMA StepQueueDecryption ==
    ASSUME IInv, NEW r \in Receiver, QueueDecryption(r)
    PROVE  IInv'
<1>1. /\ incoming[r].pc = "decrypt"
      /\ UNCHANGED <<inbound, worker, receiver, filter, endpoint, device>>
  BY DEF QueueDecryption
<1>2. incoming[r].elem \in 1 .. Len(elem) /\ incoming[r].elem \in Nat /\ decryption \in Seq(Nat)
  BY <1>1 DEF IInv, Placed, TypeInv
<1>3. CASE /\ decryption' = Append(decryption, incoming[r].elem)
           /\ incoming' = [incoming EXCEPT ![r].pc = "inbound"]
           /\ UNCHANGED elem
  <2>1. IncomingBecomes(r, "inbound", incoming[r].elem)
    BY <1>3, IncomingChanges, Zenon DEF IInv
  <2>2. decryption' \in Seq(Nat) /\ Range(decryption') = Range(decryption) \cup {incoming[r].elem}
    BY <1>2, <1>3, AppendFacts
  <2>3. TypeInv'
    BY <1>1, <1>3, <2>1, <2>2 DEF IInv, TypeInv, IncomingBecomes
  <2>4. Placed'
    BY <1>1, <1>2, <1>3, <2>1, <2>2 DEF IInv, Placed, IncomingBecomes
  <2>5. Opening' /\ AcceptedOnce' /\ EndpointGenuine'
    BY <1>1, <1>3, OpeningStands DEF IInv, Opening
  <2>6. Apart'
    BY <1>1, <2>1 DEF IInv, Apart, IncomingBecomes
  <2>7. Guarded'
    <3>1. \A e : Flight(e)' => Flight(e) \/ e = incoming[r].elem
      BY <1>1, <2>1 DEF Flight, IncomingBecomes
    <3>2. \A e : Carried(e)' <=> Carried(e) \/ e = incoming[r].elem
      BY <1>1, <2>2 DEF Carried
    <3> QED
      BY <1>1, <1>3, <2>1, <3>1, <3>2 DEF IInv, Guarded, IncomingBecomes
  <2> QED
    BY <2>3, <2>4, <2>5, <2>6, <2>7 DEF IInv
<1>4. CASE /\ Len(decryption) = DecryptionSize
           /\ decryption' = Tail(decryption) /\ elem' = DropAndRelease(Head(decryption))
           /\ UNCHANGED incoming
  <2> DEFINE h == Head(decryption)
             x == elem[h]
  <2>1. decryption # <<>>
    BY <1>2, <1>4, SizeAssumption
  <2>2. /\ decryption' \in Seq(Nat) /\ h \in Range(decryption)
        /\ Range(decryption) = {h} \cup Range(decryption')
    BY <1>2, <1>4, <2>1, TailFacts
  <2>3. h \in 1 .. Len(elem)
    BY <2>2 DEF IInv, Placed
  <2>4. Becomes(h, TRUE, FALSE, x.opened, x.accepted, x.delivered)
    BY <1>4, <2>3, ElementChanges, Zenon DEF IInv
  <2> HIDE DEF h
  <2>5. TypeInv'
    BY <1>1, <1>4, <2>2, <2>4 DEF IInv, TypeInv, Becomes
  <2>6. Placed'
    BY <1>1, <1>4, <2>2, <2>4 DEF IInv, Placed, Becomes
  <2>7. Opening' /\ AcceptedOnce' /\ EndpointGenuine'
    <3>1. x.opened \in BOOLEAN /\ (x.opened => x.datagram.genuine)
      BY <2>3, ElementFacts DEF IInv, Opening, FlagsAgree
    <3>2. receiver.pc \in {"accept", "initiate", "deliver"} =>
              receiver.elem \in 1 .. Len(elem) /\ elem'[receiver.elem].opened
      BY <2>4, Zenon DEF IInv, Opening, Placed, Becomes
    <3> QED
      BY <1>1, <2>3, <2>4, <3>1, <3>2, OpeningKept, Zenon
  <2>8. Apart'
    BY <1>1, <1>4, SMTT(30) DEF IInv, Apart
  <2>9. Guarded'
    <3>1. \A e : Flight(e)' <=> Flight(e)
      BY <1>1, <1>4 DEF Flight
    <3>2. \A e : Carried(e) => Carried(e)' \/ e = h
      BY <1>1, <2>2 DEF Carried
    <3>3. \A e \in 1 .. Len(elem) : elem'[e].locked =>
              e # h /\ elem[e].locked /\ elem'[e].dropped = elem[e].dropped
      BY <2>4 DEF Becomes
    <3> QED
      BY <1>1, <1>4, <2>4, <3>1, <3>2, <3>3, SMTT(30) DEF IInv, Guarded, Placed, Becomes
  <2> QED
    BY <2>5, <2>6, <2>7, <2>8, <2>9 DEF IInv
<1> QED
  BY <1>3, <1>4 DEF QueueDecryption

\* What the other steps change is not in the invariant, or matters only while the device
\* is open: the workers end once it closes.
LEMMA Unmoved ==
    ASSUME IInv, worker' \in [Worker -> Nat \cup {Nil}],
           device' = "open" => device = "open" /\ worker' = worker,
           UNCHANGED <<elem, decryption, inbound, incoming, receiver, filter, endpoint>>
    PROVE  IInv'
<1>1. Opening' /\ AcceptedOnce' /\ EndpointGenuine'
  BY OpeningStands DEF IInv, Opening
<1>2. TypeInv' /\ Placed' /\ Apart'
  BY DEF IInv, TypeInv, Placed, Apart
<1>3. Guarded'
  BY SMTT(30) DEF IInv, Guarded, Flight, Carried
<1> QED
  BY <1>1, <1>2, <1>3 DEF IInv

\* The element is put in the inbound queue, or the oldest one there is dropped: it is not
\* released, but neither will anybody wait for it.
LEMMA StepQueueInbound ==
    ASSUME IInv, NEW r \in Receiver, QueueInbound(r)
    PROVE  IInv'
<1>1. /\ incoming[r].pc = "inbound"
      /\ UNCHANGED <<decryption, worker, receiver, filter, endpoint, device>>
  BY DEF QueueInbound
<1>2. incoming[r].elem \in 1 .. Len(elem) /\ incoming[r].elem \in Nat /\ inbound \in Seq(Nat)
  BY <1>1, SMTT(30) DEF IInv, Placed, TypeInv
<1>3. CASE UNCHANGED <<elem, inbound, incoming>>
  <2>1. worker' \in [Worker -> Nat \cup {Nil}]
    BY <1>1 DEF IInv, TypeInv
  <2> QED
    BY <1>1, <1>3, <2>1, Unmoved
<1>4. CASE /\ inbound' = Append(inbound, incoming[r].elem)
           /\ incoming' = [incoming EXCEPT ![r] = At("read", 0)]
           /\ UNCHANGED elem
  <2>1. IncomingBecomes(r, "read", 0)
    BY <1>4, IncomingChanges, Zenon DEF IInv
  <2>2. /\ inbound' \in Seq(Nat) /\ Range(inbound') = Range(inbound) \cup {incoming[r].elem}
        /\ Injective(inbound')
    BY <1>1, <1>2, <1>4, AppendFacts DEF IInv, Apart
  <2>3. TypeInv'
    BY <1>1, <1>4, <2>1, <2>2 DEF IInv, TypeInv, IncomingBecomes
  <2>4. Placed'
    BY <1>1, <1>2, <1>4, <2>1, <2>2 DEF IInv, Placed, IncomingBecomes
  <2>5. Opening' /\ AcceptedOnce' /\ EndpointGenuine'
    BY <1>1, <1>4, OpeningStands DEF IInv, Opening
  <2>6. Apart'
    BY <1>1, <2>1, <2>2, SMTT(30) DEF IInv, Apart, IncomingBecomes
  <2>7. Guarded'
    <3>1. \A e : Flight(e)' => Flight(e)
      BY <1>1, <2>1, <2>2, SMTT(30) DEF Flight, IncomingBecomes
    <3>2. \A e : Carried(e)' <=> Carried(e)
      BY <1>1 DEF Carried
    <3> QED
      BY <1>1, <1>4, <2>1, <3>1, <3>2 DEF IInv, Guarded, IncomingBecomes
  <2> QED
    BY <2>3, <2>4, <2>5, <2>6, <2>7 DEF IInv
<1>5. CASE /\ Len(inbound) = InboundSize
           /\ inbound' = Tail(inbound) /\ elem' = Drop(Head(inbound))
           /\ UNCHANGED incoming
  <2> DEFINE h == Head(inbound)
             x == elem[h]
  <2>1. inbound # <<>>
    BY <1>2, <1>5, SizeAssumption
  <2>2. /\ inbound' \in Seq(Nat) /\ h \in Range(inbound)
        /\ Range(inbound) = {h} \cup Range(inbound')
        /\ Injective(inbound') /\ h \notin Range(inbound')
    BY <1>2, <1>5, <2>1, TailFacts DEF IInv, Apart
  <2>3. h \in 1 .. Len(elem)
    BY <2>2 DEF IInv, Placed
  <2>4. Becomes(h, TRUE, x.locked, x.opened, x.accepted, x.delivered)
    BY <1>5, <2>3, ElementChanges, Zenon DEF IInv
  <2> HIDE DEF h
  <2>5. TypeInv'
    BY <1>1, <1>5, <2>2, <2>4, SMTT(30) DEF IInv, TypeInv, Becomes
  <2>6. Placed'
    BY <1>1, <1>5, <2>2, <2>4, SMTT(30) DEF IInv, Placed, Becomes
  <2>7. Opening' /\ AcceptedOnce' /\ EndpointGenuine'
    <3>1. /\ x.opened \in BOOLEAN /\ x.locked \in BOOLEAN
          /\ x.opened => x.datagram.genuine
      BY <2>3, ElementFacts DEF IInv, Opening, FlagsAgree
    <3>2. receiver.pc \in {"accept", "initiate", "deliver"} =>
              receiver.elem \in 1 .. Len(elem) /\ elem'[receiver.elem].opened
      BY <2>4, Zenon DEF IInv, Opening, Placed, Becomes
    <3> QED
      BY <1>1, <2>3, <2>4, <3>1, <3>2, OpeningKept, Zenon
  <2>8. Apart'
    BY <1>1, <1>5, <2>2, SMTT(30) DEF IInv, Apart
  <2>9. Guarded'
    <3>1. \A e : Flight(e)' => Flight(e) /\ e # h
      BY <1>1, <1>5, <2>2, SMTT(30) DEF Flight, IInv, Apart
    <3>2. \A e : Carried(e)' <=> Carried(e)
      BY <1>1 DEF Carried
    <3>3. \A q \in Receiver : incoming[q].pc = "decrypt" => incoming[q].elem # h
      BY <2>2 DEF IInv, Apart
    <3> QED
      BY <1>1, <1>5, <2>4, <3>1, <3>2, <3>3, SMTT(30) DEF IInv, Guarded, Placed, Becomes
  <2> QED
    BY <2>5, <2>6, <2>7, <2>8, <2>9 DEF IInv
<1> QED
  BY <1>3, <1>4, <1>5 DEF QueueInbound

-----------------------------------------------------------------------------
(* RoutineDecryption.                                                      *)

\* A worker takes an element, or skips one that was dropped: nobody waits for that.
LEMMA StepWorkerTake ==
    ASSUME IInv, NEW w \in Worker, WorkerTake(w)
    PROVE  IInv'
<1> DEFINE h == Head(decryption)
<1>1. /\ worker[w] = 0 /\ decryption # <<>> /\ decryption' = Tail(decryption)
      /\ worker' = [worker EXCEPT ![w] = IF elem[h].dropped THEN 0 ELSE h]
      /\ UNCHANGED <<elem, inbound, incoming, receiver, filter, endpoint, device>>
  BY DEF WorkerTake
<1>2. /\ decryption' \in Seq(Nat) /\ h \in Range(decryption) /\ h \in Nat
      /\ Range(decryption) = {h} \cup Range(decryption')
  BY <1>1, TailFacts DEF IInv, TypeInv
<1>3. h \in 1 .. Len(elem) /\ Len(elem) \in Nat
  BY <1>2 DEF IInv, Placed, TypeInv
<1> HIDE DEF h
<1>4. /\ worker' \in [Worker -> Nat \cup {Nil}]
      /\ \A v \in Worker : v # w => worker'[v] = worker[v]
      /\ worker'[w] = IF elem[h].dropped THEN 0 ELSE h
  BY <1>1, <1>2 DEF IInv, TypeInv
<1>5. TypeInv'
  BY <1>1, <1>2, <1>4 DEF IInv, TypeInv
<1>6. Placed'
  BY <1>1, <1>2, <1>3, <1>4 DEF IInv, Placed
<1>7. Opening' /\ AcceptedOnce' /\ EndpointGenuine'
  BY <1>1, OpeningStands, SMTT(30) DEF IInv, Opening
<1>8. Apart'
  BY <1>1 DEF IInv, Apart
<1>9. Guarded'
  <2>1. \A e : Flight(e)' <=> Flight(e)
    BY <1>1 DEF Flight
  <2>2. \A e \in 1 .. Len(elem) : Carried(e) /\ ~elem[e].dropped => Carried(e)'
    BY <1>1, <1>2, <1>4 DEF Carried
  <2> QED
    BY <1>1, <2>1, <2>2 DEF IInv, Guarded
<1> QED
  BY <1>5, <1>6, <1>7, <1>8, <1>9 DEF IInv

\* A worker opens its element, drops it if it is not genuine, and releases it.
LEMMA StepWorkerOpen ==
    ASSUME IInv, NEW w \in Worker, WorkerOpen(w)
    PROVE  IInv'
<1> DEFINE e == worker[w]
           x == elem[e]
<1>1. /\ e \in DOMAIN elem
      /\ elem' = [elem EXCEPT ![e].opened = elem[e].datagram.genuine,
                              ![e].dropped = @ \/ ~elem[e].datagram.genuine,
                              ![e].locked = FALSE]
      /\ worker' = [worker EXCEPT ![w] = 0]
      /\ UNCHANGED <<decryption, inbound, incoming, receiver, filter, endpoint, device>>
  BY DEF WorkerOpen
<1>2. e \in 1 .. Len(elem)
  BY <1>1 DEF IInv, TypeInv
<1>3. Becomes(e, x.dropped \/ ~x.datagram.genuine, FALSE, x.datagram.genuine, x.accepted,
              x.delivered)
  BY <1>1, <1>2, ElementChanges, Zenon DEF IInv
<1>4. /\ worker' \in [Worker -> Nat \cup {Nil}] /\ worker'[w] = 0
      /\ \A v \in Worker : v # w => worker'[v] = worker[v]
  BY <1>1 DEF IInv, TypeInv
<1> HIDE DEF e
<1>5. TypeInv'
  BY <1>1, <1>3, <1>4 DEF IInv, TypeInv, Becomes
<1>6. Placed'
  <2>1. Len(elem') = Len(elem)
    BY <1>3 DEF Becomes
  <2> QED
    BY <1>1, <2>1 DEF IInv, Placed
<1>7. Opening' /\ AcceptedOnce' /\ EndpointGenuine'
  <2>1. /\ x.datagram.genuine \in BOOLEAN /\ (x.dropped \/ ~x.datagram.genuine) \in BOOLEAN
        /\ x.opened => x.datagram.genuine
    BY <1>2, ElementFacts DEF IInv, Opening, FlagsAgree
  <2>2. receiver.pc \in {"accept", "initiate", "deliver"} =>
            receiver.elem \in 1 .. Len(elem) /\ elem'[receiver.elem].opened
    BY <1>3, <2>1, Zenon DEF IInv, Opening, Placed, Becomes
  <2> QED
    BY <1>1, <1>2, <1>3, <2>1, <2>2, OpeningKept, Zenon
<1>8. Apart'
  BY <1>1 DEF IInv, Apart
<1>9. Guarded'
  <2> SUFFICES ASSUME device = "open"
               PROVE  Guarded'
    BY <1>1 DEF Guarded
  <2>1. \A f : Flight(f)' <=> Flight(f)
    BY <1>1 DEF Flight
  <2>2. \A f : Carried(f) => Carried(f)' \/ f = e
    BY <1>1, <1>4 DEF Carried, e
  <2>3. \A f \in 1 .. Len(elem) : elem'[f].locked => f # e /\ elem'[f] = elem[f]
    BY <1>3 DEF Becomes
  <2>4. Len(elem') = Len(elem)
    BY <1>3 DEF Becomes
  <2>5. \A f \in 1 .. Len(elem) : Flight(f)' /\ elem'[f].locked => Carried(f)' /\ ~elem'[f].dropped
    BY <2>1, <2>2, <2>3, Zenon DEF IInv, Guarded
  <2>6. \A r \in Receiver : incoming'[r].pc = "decrypt" /\ elem'[incoming'[r].elem].locked =>
            ~elem'[incoming'[r].elem].dropped
    BY <1>1, <2>3 DEF IInv, Placed, Guarded
  <2> QED
    BY <2>4, <2>5, <2>6 DEF Guarded
<1> QED
  BY <1>5, <1>6, <1>7, <1>8, <1>9 DEF IInv

-----------------------------------------------------------------------------
(* RoutineSequentialReceiver.                                              *)

\* The receiver takes the next element from the inbound queue.
LEMMA StepReceiverTake ==
    ASSUME IInv, ReceiverTake
    PROVE  IInv'
<1> DEFINE h == Head(inbound)
<1>1. /\ receiver.pc = "idle" /\ inbound # <<>>
      /\ receiver' = At("lock", h) /\ inbound' = Tail(inbound)
      /\ UNCHANGED <<elem, decryption, incoming, worker, filter, endpoint, device>>
  BY DEF ReceiverTake
<1>2. /\ inbound' \in Seq(Nat) /\ h \in Range(inbound) /\ h \in Nat
      /\ Range(inbound) = {h} \cup Range(inbound')
      /\ Injective(inbound') /\ h \notin Range(inbound')
  BY <1>1, TailFacts DEF IInv, TypeInv, Apart
<1>3. receiver' \in ReceiverState /\ receiver'.pc = "lock" /\ receiver'.elem = h
  BY <1>1, <1>2, ReceiverSet
<1> HIDE DEF h
<1>4. TypeInv'
  BY <1>1, <1>2, <1>3 DEF IInv, TypeInv
<1>5. Placed'
  BY <1>1, <1>2, <1>3 DEF IInv, Placed
<1>6. Opening' /\ AcceptedOnce' /\ EndpointGenuine'
  BY <1>1, <1>3, OpeningStands, SMTT(30)
<1>7. Apart'
  BY <1>1, <1>2, <1>3 DEF IInv, Apart
<1>8. Guarded'
  <2>1. \A e : Flight(e)' => Flight(e)
    BY <1>1, <1>2, <1>3 DEF Flight
  <2>2. \A e : Carried(e)' <=> Carried(e)
    BY <1>1 DEF Carried
  <2> QED
    BY <1>1, <2>1, <2>2 DEF IInv, Guarded
<1> QED
  BY <1>4, <1>5, <1>6, <1>7, <1>8 DEF IInv

\* The receiver gets the mutex and goes on if the element was not dropped: then it was
\* opened.
LEMMA StepReceiverLock ==
    ASSUME IInv, ReceiverLock
    PROVE  IInv'
<1> DEFINE e == receiver.elem
           x == elem[e]
<1>1. /\ receiver.pc = "lock" /\ ~x.locked
      /\ elem' = [elem EXCEPT ![e].locked = TRUE]
      /\ receiver' = IF x.dropped THEN At("idle", 0) ELSE At("accept", e)
      /\ UNCHANGED <<decryption, inbound, incoming, worker, filter, endpoint, device>>
  BY DEF ReceiverLock
<1>2. e \in 1 .. Len(elem) /\ e \in Nat
  BY <1>1, SMTT(30) DEF IInv, Placed
<1>3. Becomes(e, x.dropped, TRUE, x.opened, x.accepted, x.delivered)
  BY <1>1, <1>2, ElementChanges, Zenon DEF IInv
<1>4. receiver' \in ReceiverState /\ receiver'.pc \in {"idle", "accept"}
  BY <1>1, <1>2, ReceiverSet
<1>5. receiver'.pc = "accept" => receiver'.elem = e /\ x.opened
  BY <1>1, <1>2, ReceiverSet DEF IInv, Opening, FlagsAgree
<1>6. Flight(e) /\ \A f : Flight(f)' => Flight(f) /\ f # e
  BY <1>1, <1>4 DEF IInv, Apart, Flight
<1>7. \A q \in Receiver : incoming[q].pc = "decrypt" => incoming[q].elem # e
  BY <1>1 DEF IInv, Apart
<1> HIDE DEF e
<1>8. TypeInv'
  BY <1>1, <1>3, <1>4 DEF IInv, TypeInv, Becomes
<1>9. Placed'
  BY <1>1, <1>2, <1>3, <1>4, <1>5 DEF IInv, Placed, Becomes
<1>10. Opening' /\ AcceptedOnce' /\ EndpointGenuine'
  <2>1. /\ x.opened \in BOOLEAN /\ x.dropped \in BOOLEAN
        /\ x.opened => x.datagram.genuine
    BY <1>2, ElementFacts DEF IInv, Opening, FlagsAgree
  <2>2. receiver'.pc \in {"accept", "initiate", "deliver"} =>
            receiver'.elem \in 1 .. Len(elem) /\ elem'[receiver'.elem].opened
    BY <1>2, <1>3, <1>4, <1>5 DEF Becomes
  <2> QED
    BY <1>1, <1>2, <1>3, <2>1, <2>2, OpeningKept, Zenon
<1>11. Apart'
  BY <1>1, <1>4 DEF IInv, Apart
<1>12. Guarded'
  <2>1. \A f : Carried(f)' <=> Carried(f)
    BY <1>1, SMTT(30) DEF Carried
  <2> QED
    BY <1>1, <1>3, <1>6, <1>7, <2>1 DEF IInv, Guarded, Placed, Becomes
<1> QED
  BY <1>8, <1>9, <1>10, <1>11, <1>12 DEF IInv

\* An element whose counter the filter does not know is accepted.
LEMMA StepReceiverAccept ==
    ASSUME IInv, ReceiverAccept
    PROVE  IInv'
<1> DEFINE e == receiver.elem
           x == elem[e]
           d == x.datagram
<1>1. /\ receiver.pc = "accept"
      /\ UNCHANGED <<decryption, inbound, incoming, worker, device>>
  BY DEF ReceiverAccept
<1>2. e \in 1 .. Len(elem) /\ e \in Nat /\ x.opened
  BY <1>1 DEF IInv, Placed, Opening
<1>3. CASE /\ receiver' = At("idle", 0)
           /\ UNCHANGED <<elem, filter, endpoint>>
  <2>1. receiver' \in ReceiverState /\ receiver'.pc = "idle"
    BY <1>3, ReceiverSet
  <2>2. Opening' /\ AcceptedOnce' /\ EndpointGenuine'
    BY <1>3, <2>1, OpeningStands, SMTT(30)
  <2>3. TypeInv' /\ Placed' /\ Apart'
    BY <1>1, <1>3, <2>1, SMTT(30) DEF IInv, TypeInv, Placed, Apart
  <2>4. Guarded'
    BY <1>1, <1>3, <2>1 DEF IInv, Guarded, Flight, Carried
  <2> QED
    BY <2>2, <2>3, <2>4 DEF IInv
<1>4. CASE /\ Fresh(d)
           /\ elem' = [elem EXCEPT ![e].accepted = TRUE]
           /\ filter' = filter \cup {<<d.key, d.counter>>}
           /\ endpoint' = d.endpoint
           /\ receiver' \in {At("idle", 0), At("initiate", e), At("deliver", e)}
  <2>1. Becomes(e, x.dropped, x.locked, x.opened, TRUE, x.delivered)
    BY <1>2, <1>4, ElementChanges, Zenon DEF IInv
  <2>2. receiver' \in ReceiverState /\ receiver'.pc \in {"idle", "initiate", "deliver"}
    BY <1>2, <1>4, ReceiverSet
  <2>3. receiver'.pc \in {"initiate", "deliver"} => receiver'.elem = e
    BY <1>2, <1>4, ReceiverSet
  <2> HIDE DEF e
  <2>4. /\ Len(elem') = Len(elem)
        /\ DOMAIN elem = 1 .. Len(elem) /\ DOMAIN elem' = 1 .. Len(elem)
    BY <2>1 DEF IInv, TypeInv, Becomes
  <2>5. \A i \in 1 .. Len(elem) :
            /\ elem'[i].datagram = elem[i].datagram /\ elem'[i].opened = elem[i].opened
            /\ elem'[i].locked = elem[i].locked /\ elem'[i].dropped = elem[i].dropped
            /\ elem'[i].delivered = elem[i].delivered
            /\ i # e => elem'[i].accepted = elem[i].accepted
    BY <2>1 DEF Becomes
  <2>6. TypeInv'
    BY <1>1, <2>1, <2>2 DEF IInv, TypeInv, Becomes
  <2>7. Placed'
    BY <1>1, <1>2, <2>2, <2>3, <2>4 DEF IInv, Placed
  <2>8. Opening'
    <3>1. \A i \in 1 .. Len(elem) : FlagsAgree(elem'[i])
      BY <1>2, <2>5, Zenon DEF IInv, Opening, FlagsAgree
    <3>2. receiver'.pc \in {"accept", "initiate", "deliver"} => elem'[receiver'.elem].opened
      BY <1>2, <2>2, <2>3, <2>5
    <3>3. ASSUME NEW i \in 1 .. Len(elem), elem'[i].accepted
          PROVE  <<elem'[i].datagram.key, elem'[i].datagram.counter>> \in filter'
      <4>1. elem'[i].datagram = elem[i].datagram
        BY <2>5
      <4>2. CASE i = e
        <5>1. <<d.key, d.counter>> \in filter'
          BY <1>4
        <5> QED
          BY <4>1, <4>2, <5>1
      <4>3. CASE i # e
        <5>1. elem[i].accepted
          BY <2>5, <3>3, <4>3
        <5>2. <<elem[i].datagram.key, elem[i].datagram.counter>> \in filter
          BY <5>1 DEF IInv, Opening
        <5> QED
          BY <1>4, <4>1, <5>2
      <4> QED
        BY <4>2, <4>3
    <3> QED
      BY <2>4, <3>1, <3>2, <3>3 DEF Opening
  <2>9. AcceptedOnce'
    <3>1. ASSUME NEW i \in 1 .. Len(elem), elem[i].accepted,
                 elem[i].datagram.key = d.key, elem[i].datagram.counter = d.counter
          PROVE  FALSE
      BY <1>4, <3>1, Zenon DEF IInv, Opening, Fresh
    <3>2. ASSUME NEW i \in 1 .. Len(elem), NEW j \in 1 .. Len(elem), i # j,
                 elem'[i].accepted, elem'[j].accepted,
                 elem'[i].datagram.key = elem'[j].datagram.key
          PROVE  elem'[i].datagram.counter # elem'[j].datagram.counter
      <4>1. CASE i = e
        BY <2>5, <3>1, <3>2, <4>1, Zenon
      <4>2. CASE j = e
        BY <2>5, <3>1, <3>2, <4>2, Zenon
      <4>3. CASE i # e /\ j # e
        <5>1. /\ elem[i].accepted /\ elem[j].accepted
              /\ elem[i].datagram.key = elem[j].datagram.key
          BY <2>5, <3>2, <4>3
        <5>2. elem[i].datagram.counter # elem[j].datagram.counter
          BY <2>4, <3>2, <5>1, Zenon DEF IInv, AcceptedOnce
        <5> QED
          BY <2>5, <5>2
      <4> QED
        BY <4>1, <4>2, <4>3
    <3> QED
      BY <2>4, <3>2, Zenon DEF AcceptedOnce
  <2>10. EndpointGenuine'
    BY <1>2, <1>4, <2>4, <2>5, Zenon DEF EndpointGenuine
  <2>11. Apart'
    BY <1>1, <2>2 DEF IInv, Apart
  <2>12. Guarded'
    <3>1. \A f : Flight(f)' => Flight(f)
      BY <1>1, <2>2 DEF Flight
    <3>2. \A f : Carried(f)' <=> Carried(f)
      BY <1>1 DEF Carried
    <3> QED
      BY <1>1, <2>4, <2>5, <3>1, <3>2 DEF IInv, Guarded, Placed
  <2> QED
    BY <2>6, <2>7, <2>8, <2>9, <2>10, <2>11, <2>12, SMTT(30) DEF IInv
<1> QED
  BY <1>3, <1>4 DEF ReceiverAccept, Remaining

\* The receiver has sent an initiation, and goes on with its element.
LEMMA StepReceiverInitiate ==
    ASSUME IInv, ReceiverInitiate
    PROVE  IInv'
<1> DEFINE e == receiver.elem
<1>1. /\ receiver.pc = "initiate" /\ receiver' \in {At("idle", 0), At("deliver", e)}
      /\ UNCHANGED <<elem, decryption, inbound, incoming, worker, filter, endpoint, device>>
  BY DEF ReceiverInitiate, Remaining
<1>2. e \in 1 .. Len(elem) /\ e \in Nat /\ elem[e].opened
  BY <1>1 DEF IInv, Placed, Opening
<1>3. /\ receiver' \in ReceiverState /\ receiver'.pc \in {"idle", "deliver"}
      /\ receiver'.pc = "deliver" => receiver'.elem = e
  BY <1>1, <1>2, ReceiverSet
<1> HIDE DEF e
<1>4. Opening' /\ AcceptedOnce' /\ EndpointGenuine'
  BY <1>1, <1>2, <1>3, OpeningStands, SMTT(30)
<1>5. TypeInv' /\ Placed' /\ Apart'
  BY <1>1, <1>2, <1>3, SMTT(30) DEF IInv, TypeInv, Placed, Apart
<1>6. Guarded'
  BY <1>1, <1>3, SMTT(30) DEF IInv, Guarded, Flight, Carried
<1> QED
  BY <1>4, <1>5, <1>6 DEF IInv

\* The packet is written to the TUN device, or not.
LEMMA StepReceiverDeliver ==
    ASSUME IInv, ReceiverDeliver
    PROVE  IInv'
<1> DEFINE e == receiver.elem
           x == elem[e]
<1>1. /\ receiver.pc = "deliver" /\ receiver' = At("idle", 0)
      /\ UNCHANGED <<decryption, inbound, incoming, worker, filter, endpoint, device>>
  BY DEF ReceiverDeliver
<1>b. PICK b \in BOOLEAN : elem' = [elem EXCEPT ![e].delivered = b]
  BY DEF ReceiverDeliver
<1>2. e \in 1 .. Len(elem) /\ x.opened
  BY <1>1 DEF IInv, Placed, Opening
<1>3. Becomes(e, x.dropped, x.locked, x.opened, x.accepted, b)
  <2> HIDE DEF e
  <2> QED
    BY <1>b, <1>2, ElementChanges, Zenon DEF IInv
<1>4. receiver' \in ReceiverState /\ receiver'.pc = "idle"
  BY <1>1, ReceiverSet
<1> HIDE DEF e
<1>5. /\ Len(elem') = Len(elem)
      /\ DOMAIN elem = 1 .. Len(elem) /\ DOMAIN elem' = 1 .. Len(elem)
  BY <1>3 DEF IInv, TypeInv, Becomes
<1>6. \A i \in 1 .. Len(elem) :
          /\ elem'[i].datagram = elem[i].datagram /\ elem'[i].opened = elem[i].opened
          /\ elem'[i].locked = elem[i].locked /\ elem'[i].dropped = elem[i].dropped
          /\ elem'[i].accepted = elem[i].accepted
          /\ i # e => elem'[i].delivered = elem[i].delivered
  BY <1>3 DEF Becomes
<1>7. TypeInv'
  BY <1>1, <1>3, <1>4 DEF IInv, TypeInv, Becomes
<1>8. Placed'
  BY <1>1, <1>4, <1>5 DEF IInv, Placed
<1>9. Opening'
  <2>1. \A i \in 1 .. Len(elem) : FlagsAgree(elem'[i])
    BY <1>2, <1>6, Zenon DEF IInv, Opening, FlagsAgree
  <2> QED
    BY <1>1, <1>4, <1>5, <1>6, <2>1 DEF IInv, Opening
<1>10. AcceptedOnce'
  <2> SUFFICES ASSUME NEW i \in 1 .. Len(elem), NEW j \in 1 .. Len(elem), i # j,
                      elem'[i].accepted, elem'[j].accepted,
                      elem'[i].datagram.key = elem'[j].datagram.key
               PROVE  elem'[i].datagram.counter # elem'[j].datagram.counter
    BY <1>5, Zenon DEF AcceptedOnce
  <2>1. /\ elem[i].accepted /\ elem[j].accepted
        /\ elem[i].datagram.key = elem[j].datagram.key
    BY <1>6
  <2>2. elem[i].datagram.counter # elem[j].datagram.counter
    BY <1>5, <2>1, Zenon DEF IInv, AcceptedOnce
  <2> QED
    BY <1>6, <2>2
<1>11. EndpointGenuine'
  BY <1>1, <1>5, <1>6, Zenon DEF IInv, EndpointGenuine
<1>12. Apart'
  BY <1>1, <1>4 DEF IInv, Apart
<1>13. Guarded'
  <2>1. \A f : Flight(f)' => Flight(f)
    BY <1>1, <1>4 DEF Flight
  <2>2. \A f : Carried(f)' <=> Carried(f)
    BY <1>1 DEF Carried
  <2> QED
    BY <1>1, <1>5, <1>6, <2>1, <2>2 DEF IInv, Guarded, Placed
<1> QED
  BY <1>7, <1>8, <1>9, <1>10, <1>11, <1>12, <1>13 DEF IInv

\* The receiver ends, or a new one starts with an empty queue.
LEMMA StepReceiverTurns ==
    ASSUME IInv, ReceiverStop \/ Start
    PROVE  IInv'
<1>1. /\ \/ receiver' = At("stopped", 0) /\ inbound' = inbound
         \/ receiver' = At("idle", 0) /\ inbound' = <<>>
      /\ UNCHANGED <<elem, decryption, incoming, worker, filter, endpoint, device>>
  BY DEF ReceiverStop, Start
<1>2. receiver' \in ReceiverState /\ receiver'.pc \in {"idle", "stopped"}
  BY <1>1, ReceiverSet
<1>3. /\ inbound' \in Seq(Nat) /\ Range(inbound') \subseteq Range(inbound)
      /\ Injective(inbound')
  <2>1. CASE inbound' = inbound
    BY <2>1 DEF IInv, TypeInv, Apart
  <2>2. CASE inbound' = <<>>
    <3>1. <<>> \in Seq(Nat)
      OBVIOUS
    <3> QED
      BY <2>2, <3>1, EmptyFacts, Zenon
  <2> QED
    BY <1>1, <2>1, <2>2
<1>4. TypeInv' /\ Placed' /\ Apart'
  BY <1>1, <1>2, <1>3, SMTT(30) DEF IInv, TypeInv, Placed, Apart
<1>5. Opening' /\ AcceptedOnce' /\ EndpointGenuine'
  BY <1>1, <1>2, OpeningStands, SMTT(30)
<1>6. Guarded'
  <2>1. \A e : Flight(e)' => Flight(e)
    BY <1>1, <1>2, <1>3 DEF Flight
  <2>2. \A e : Carried(e)' <=> Carried(e)
    BY <1>1, SMTT(30) DEF Carried
  <2> QED
    BY <1>1, <2>1, <2>2 DEF IInv, Guarded
<1> QED
  BY <1>4, <1>5, <1>6 DEF IInv

\* Device.Close drops what is left in the decryption queue: the workers have ended.
LEMMA StepFlush ==
    ASSUME IInv, FlushPacketQueues, decryption # <<>>
    PROVE  IInv'
<1> DEFINE h == Head(decryption)
           x == elem[h]
<1>1. /\ device = "flushing" /\ device' = device
      /\ decryption' = Tail(decryption) /\ elem' = Drop(h)
      /\ UNCHANGED <<inbound, incoming, worker, receiver, filter, endpoint>>
  BY DEF FlushPacketQueues
<1>2. /\ decryption' \in Seq(Nat) /\ h \in Range(decryption)
      /\ Range(decryption) = {h} \cup Range(decryption')
  BY <1>1, TailFacts DEF IInv, TypeInv
<1>3. h \in 1 .. Len(elem)
  BY <1>2 DEF IInv, Placed
<1>4. Becomes(h, TRUE, x.locked, x.opened, x.accepted, x.delivered)
  BY <1>1, <1>3, ElementChanges, Zenon DEF IInv
<1> HIDE DEF h
<1>5. TypeInv'
  BY <1>1, <1>2, <1>4, SMTT(30) DEF IInv, TypeInv, Becomes
<1>6. Placed' /\ Apart'
  BY <1>1, <1>2, <1>4, SMTT(30) DEF IInv, Placed, Apart, Becomes
<1>7. Opening' /\ AcceptedOnce' /\ EndpointGenuine'
  <2>1. /\ x.opened \in BOOLEAN /\ x.locked \in BOOLEAN
        /\ x.opened => x.datagram.genuine
    BY <1>3, ElementFacts DEF IInv, Opening, FlagsAgree
  <2>2. receiver.pc \in {"accept", "initiate", "deliver"} =>
            receiver.elem \in 1 .. Len(elem) /\ elem'[receiver.elem].opened
    BY <1>4, Zenon DEF IInv, Opening, Placed, Becomes
  <2> QED
    BY <1>1, <1>3, <1>4, <2>1, <2>2, OpeningKept, Zenon
<1>8. Guarded'
  BY <1>1 DEF Guarded
<1> QED
  BY <1>5, <1>6, <1>7, <1>8 DEF IInv

-----------------------------------------------------------------------------
(* The theorems.                                                           *)

\* IInv holds in every state of every behaviour.
THEOREM Invariance == Spec => []IInv
<1>1. Init => IInv
  <2> SUFFICES ASSUME Init PROVE IInv
    OBVIOUS
  <2>1. TypeInv
    BY ReceiverSet DEF Init, TypeInv, IncomingState, At
  <2>2. /\ Len(elem) = 0 /\ Range(inbound) = {} /\ Range(decryption) = {}
        /\ Injective(inbound) /\ receiver.pc = "idle"
        /\ \A r \in Receiver : incoming[r].pc = "read"
        /\ \A w \in Worker : worker[w] = 0
    BY EmptyFacts, SMTT(30) DEF Init, At
  <2>3. \A e \in 1 .. Len(elem) : FALSE
    BY <2>2
  <2>4. Placed
    BY <2>2 DEF Placed
  <2>5. Apart
    BY <2>2 DEF Apart
  <2>6. Guarded
    BY <2>2, <2>3 DEF Guarded
  <2>7. Opening
    BY <2>2, <2>3 DEF Opening
  <2>8. AcceptedOnce /\ EndpointGenuine
    BY DEF Init, AcceptedOnce, EndpointGenuine
  <2> QED
    BY <2>1, <2>4, <2>5, <2>6, <2>7, <2>8 DEF IInv
<1>2. IInv /\ [Next]_vars => IInv'
  <2> SUFFICES ASSUME IInv, [Next]_vars PROVE IInv'
    OBVIOUS
  <2>a. worker \in [Worker -> Nat \cup {Nil}]
    BY DEF IInv, TypeInv
  <2>1. CASE \E r \in Receiver : Incoming(r)
    BY <2>1, StepReceive, StepQueueDecryption, StepQueueInbound DEF Incoming
  <2>2. CASE \E w \in Worker : RoutineDecryption(w)
    <3>1. ASSUME NEW w \in Worker, WorkerStop(w)
          PROVE  IInv'
      BY <2>a, <3>1, Unmoved DEF WorkerStop
    <3> QED
      BY <2>2, <3>1, StepWorkerTake, StepWorkerOpen DEF RoutineDecryption
  <2>3. CASE RoutineSequentialReceiver
    BY <2>3, StepReceiverTake, StepReceiverLock, StepReceiverAccept, StepReceiverInitiate,
       StepReceiverDeliver, StepReceiverTurns DEF RoutineSequentialReceiver
  <2>4. CASE Start
    BY <2>4, StepReceiverTurns
  <2>5. CASE \/ \E k \in Key : NewKeypair(k)
             \/ Stop \/ LockHeld \/ StopFinish
    BY <2>a, <2>5, Unmoved DEF NewKeypair, Stop, LockHeld, StopFinish
  <2>6. CASE Close \/ CloseFlush
    BY <2>a, <2>6, Unmoved DEF Close, CloseFlush
  <2>7. CASE FlushPacketQueues
    <3>1. CASE decryption = <<>>
      BY <2>a, <2>7, <3>1, Unmoved DEF FlushPacketQueues
    <3> QED
      BY <2>7, <3>1, StepFlush
  <2>8. CASE UNCHANGED vars
    BY <2>a, <2>8, Unmoved DEF vars
  <2> QED
    BY <2>1, <2>2, <2>3, <2>4, <2>5, <2>6, <2>7, <2>8 DEF Next, Closing
<1> QED
  BY <1>1, <1>2, PTL DEF Spec

\* Whatever gets past the replay filter or to the TUN device has been decrypted.
THEOREM OnlyOpenedAccepted == Spec => []AcceptedGenuine
<1>1. IInv => AcceptedGenuine
  BY DEF IInv, TypeInv, Opening, FlagsAgree, AcceptedGenuine
<1> QED
  BY Invariance, <1>1, PTL

\* No counter is accepted twice under a key.
THEOREM NothingAcceptedTwice == Spec => []AcceptedOnce
<1>1. IInv => AcceptedOnce
  BY DEF IInv
<1> QED
  BY Invariance, <1>1, PTL

\* Only a message that was decrypted moves the endpoint.
THEOREM EndpointFollowsGenuine == Spec => []EndpointGenuine
<1>1. IInv => EndpointGenuine
  BY DEF IInv
<1> QED
  BY Invariance, <1>1, PTL

\* While the device is open, the element that RoutineSequentialReceiver waits for is in the
\* decryption queue or with a worker, and no worker will skip it.
WaitHasWorker ==
    device = "open" /\ receiver.pc = "lock" /\ elem[receiver.elem].locked =>
        Carried(receiver.elem) /\ ~elem[receiver.elem].dropped

\* Whenever the receiver has to wait for a mutex while the device is open, the element is
\* with somebody whose next step with it is to release it, however many routines evict from
\* however large queues: the safety behind ReceiverWaitEnds.  (Once the device closes, the
\* workers end and nobody releases what they leave.)
THEOREM ReceiverNotAbandoned == Spec => []WaitHasWorker
<1>1. IInv => WaitHasWorker
  BY DEF IInv, Placed, Guarded, Flight, WaitHasWorker
<1> QED
  BY Invariance, <1>1, PTL

-----------------------------------------------------------------------------
(* The replay filter.  Arithmetic of words and slots.                      *)

\* Multiplication by a natural number preserves order.
LEMMA TimesMonotonic ==
    ASSUME NEW m \in Nat, NEW a \in Int, NEW b \in Int, a <= b
    PROVE  m * a <= m * b
OBVIOUS

\* Quotient and remainder.
LEMMA Euclid ==
    ASSUME NEW m \in Nat \ {0}, NEW c \in Nat
    PROVE  /\ c \div m \in Nat /\ c % m \in 0..(m - 1)
           /\ c = m * (c \div m) + (c % m)
OBVIOUS

\* A larger quotient is a larger number, by at least the remainders.
LEMMA QuotientStep ==
    ASSUME NEW m \in Nat \ {0}, NEW p \in Int, NEW q \in Int, NEW r \in 0..(m - 1),
           NEW s \in 0..(m - 1), p + 1 <= q
    PROVE  m * p + r < m * q + s
<1>1. m * (p + 1) <= m * q
  BY TimesMonotonic
<1>2. m * (p + 1) = m * p + m
  OBVIOUS
<1>3. m * p \in Int /\ m * q \in Int
  OBVIOUS
<1> QED
  BY <1>1, <1>2, <1>3

\* Words are in the order of their counters, and a counter is known by its word
\* and its bit.
LEMMA WordOrder ==
    ASSUME FilterAssumption, NEW c \in Nat, NEW d \in Nat
    PROVE  /\ Word(c) \in Nat /\ Bit(c) \in 0..(WordSize - 1)
           /\ c <= d => Word(c) <= Word(d)
           /\ Word(c) = Word(d) /\ Bit(c) = Bit(d) => c = d
<1>1. WordSize \in Nat \ {0}
  BY DEF FilterAssumption
<1>2. /\ Word(c) \in Nat /\ Bit(c) \in 0..(WordSize - 1)
      /\ c = WordSize * Word(c) + Bit(c)
  BY <1>1, Euclid, Zenon DEF Word, Bit
<1>3. /\ Word(d) \in Nat /\ Bit(d) \in 0..(WordSize - 1)
      /\ d = WordSize * Word(d) + Bit(d)
  BY <1>1, Euclid, Zenon DEF Word, Bit
<1>4. ASSUME c <= d, ~(Word(c) <= Word(d))
      PROVE  FALSE
  <2>1. Word(d) + 1 <= Word(c)
    BY <1>2, <1>3, <1>4
  <2>2. d < c
    BY <1>1, <1>2, <1>3, <2>1, QuotientStep
  <2> QED
    BY <1>4, <2>2
<1> QED
  BY <1>2, <1>3, <1>4

\* A counter in the window is in a word that the ring holds.
LEMMA WindowHeld ==
    ASSUME FilterAssumption, NEW c \in Nat, NEW d \in Nat, c <= d, d - c <= WindowSize
    PROVE  Word(d) < Word(c) + BacktrackWords
<1>1. WordSize \in Nat \ {0} /\ BacktrackWords \in Nat /\ WindowSize \in Nat
      /\ WindowSize + WordSize <= WordSize * BacktrackWords
  BY DEF FilterAssumption
<1>2. /\ Word(c) \in Nat /\ Bit(c) \in 0..(WordSize - 1)
      /\ c = WordSize * Word(c) + Bit(c)
  BY <1>1, Euclid, Zenon DEF Word, Bit
<1>3. /\ Word(d) \in Nat /\ Bit(d) \in 0..(WordSize - 1)
      /\ d = WordSize * Word(d) + Bit(d)
  BY <1>1, Euclid, Zenon DEF Word, Bit
<1> SUFFICES ASSUME Word(c) + BacktrackWords <= Word(d)
             PROVE  FALSE
  BY <1>1, <1>2, <1>3
<1>4. WordSize * (Word(c) + BacktrackWords) <= WordSize * Word(d)
  BY <1>1, <1>2, <1>3, TimesMonotonic
<1>5. WordSize * (Word(c) + BacktrackWords) = WordSize * Word(c) + WordSize * BacktrackWords
  BY <1>1, <1>2
<1>6. WordSize * Word(c) \in Int /\ WordSize * Word(d) \in Int /\ WordSize * BacktrackWords \in Int
  BY <1>1, <1>2, <1>3
<1> HIDE DEF Word, Bit
<1> QED
  BY <1>1, <1>2, <1>3, <1>4, <1>5, <1>6

\* Two words less than a ring apart have different slots.
LEMMA SlotsDiffer ==
    ASSUME FilterAssumption, NEW v \in Nat, NEW w \in Nat, v < w, w < v + BacktrackWords
    PROVE  Slot(v) # Slot(w)
<1>1. BacktrackWords \in Nat \ {0}
  BY DEF FilterAssumption
<1> DEFINE p == v \div BacktrackWords
           q == w \div BacktrackWords
           r == v % BacktrackWords
<1> SUFFICES ASSUME Slot(v) = Slot(w)
             PROVE  FALSE
  OBVIOUS
<1>2. p \in Nat /\ r \in 0..(BacktrackWords - 1) /\ v = BacktrackWords * p + r
  BY <1>1, Euclid, Zenon
<1>3. q \in Nat /\ w = BacktrackWords * q + r
  BY <1>1, Euclid, Zenon DEF Slot
<1> HIDE DEF p, q, r
<1>4. CASE q <= p
  <2>1. BacktrackWords * q <= BacktrackWords * p
    BY <1>1, <1>2, <1>3, <1>4, TimesMonotonic
  <2>2. BacktrackWords * q \in Int /\ BacktrackWords * p \in Int
    BY <1>1, <1>2, <1>3
  <2> QED
    BY <1>1, <1>2, <1>3, <2>1, <2>2
<1>5. CASE p + 1 <= q
  <2>1. BacktrackWords * (p + 1) <= BacktrackWords * q
    BY <1>1, <1>2, <1>3, <1>5, TimesMonotonic
  <2>2. BacktrackWords * (p + 1) = BacktrackWords * p + BacktrackWords
    BY <1>1, <1>2
  <2>3. BacktrackWords * q \in Int /\ BacktrackWords * p \in Int
    BY <1>1, <1>2, <1>3
  <2> QED
    BY <1>1, <1>2, <1>3, <2>1, <2>2, <2>3
<1> QED
  BY <1>2, <1>3, <1>4, <1>5

\* A slot is a place in the ring.
LEMMA SlotInRing ==
    ASSUME FilterAssumption, NEW w \in Nat
    PROVE  Slot(w) \in Ring
BY Euclid DEF FilterAssumption, Slot, Ring

\* BacktrackWords successive words occupy every slot.
LEMMA SlotsCover ==
    ASSUME FilterAssumption, NEW from \in Nat, NEW x \in Ring
    PROVE  \E i \in 1..BacktrackWords : x = Slot(from + i)
<1>1. BacktrackWords \in Nat \ {0} /\ x \in 0..(BacktrackWords - 1)
  BY DEF FilterAssumption, Ring
<1> DEFINE q == from \div BacktrackWords
           f == from % BacktrackWords
           i == IF x > f THEN x - f ELSE x - f + BacktrackWords
           k == IF x > f THEN q ELSE q + 1
           y == from + i
<1>2. q \in Nat /\ f \in 0..(BacktrackWords - 1) /\ from = BacktrackWords * q + f
  BY <1>1, Euclid, Zenon
<1> HIDE DEF q, f
<1>3. i \in 1..BacktrackWords /\ k \in Nat /\ y \in Nat
  BY <1>1, <1>2
<1>4. y = BacktrackWords * k + x
  <2>1. BacktrackWords * (q + 1) = BacktrackWords * q + BacktrackWords
    BY <1>1, <1>2
  <2>2. BacktrackWords * q \in Int
    BY <1>1, <1>2
  <2> QED
    BY <1>1, <1>2, <2>1, <2>2
<1> HIDE DEF i, k, y
<1> DEFINE Q == y \div BacktrackWords
           R == y % BacktrackWords
<1>5. Q \in Nat /\ R \in 0..(BacktrackWords - 1) /\ y = BacktrackWords * Q + R
  BY <1>1, <1>3, Euclid, Zenon
<1> HIDE DEF Q, R
<1>6. Q = k
  <2>1. ~(Q + 1 <= k)
    <3> SUFFICES ASSUME Q + 1 <= k PROVE FALSE
      OBVIOUS
    <3>1. BacktrackWords * Q + R < BacktrackWords * k + x
      BY <1>1, <1>3, <1>5, QuotientStep
    <3> QED
      BY <1>3, <1>4, <1>5, <3>1
  <2>2. ~(k + 1 <= Q)
    <3> SUFFICES ASSUME k + 1 <= Q PROVE FALSE
      OBVIOUS
    <3>1. BacktrackWords * k + x < BacktrackWords * Q + R
      BY <1>1, <1>3, <1>5, QuotientStep
    <3> QED
      BY <1>3, <1>4, <1>5, <3>1
  <2> QED
    BY <1>3, <1>5, <2>1, <2>2
<1>7. R = x
  <2>1. BacktrackWords * k \in Int
    BY <1>1, <1>3
  <2> QED
    BY <1>1, <1>4, <1>5, <1>6, <2>1
<1> QED
  BY <1>3, <1>7, Zenon DEF R, y, Slot

-----------------------------------------------------------------------------
(* Moving the window.                                                      *)

\* A word that enters the ring is empty afterwards.
LEMMA EnteringCleared ==
    ASSUME FilterAssumption, NEW from \in Nat, NEW to \in Nat, NEW w \in Nat,
           from < w, w <= to
    PROVE  Advanced(from, to)[Slot(w)] = {}
<1> DEFINE diff == IF to - from < BacktrackWords THEN to - from ELSE BacktrackWords
<1>1. BacktrackWords \in Nat \ {0} /\ Slot(w) \in Ring
  BY SlotInRing DEF FilterAssumption
<1>2. \E i \in 1..diff : Slot(w) = Slot(from + i)
  <2>1. CASE w - from <= BacktrackWords
    <3>1. w - from \in 1..diff /\ from + (w - from) = w
      BY <1>1, <2>1
    <3> QED
      BY <3>1
  <2>2. CASE w - from > BacktrackWords
    <3>1. diff = BacktrackWords
      BY <1>1, <2>2
    <3> QED
      BY <1>1, <3>1, SlotsCover, Zenon
  <2> QED
    BY <1>1, <2>1, <2>2
<1> QED
  BY <1>1, <1>2 DEF Advanced

\* A word that stays in the ring keeps its bits.
LEMMA StayingKept ==
    ASSUME FilterAssumption, NEW from \in Nat, NEW to \in Nat, NEW w \in Nat,
           from <= to, w <= from, to < w + BacktrackWords
    PROVE  Advanced(from, to)[Slot(w)] = backtrack[Slot(w)]
<1>1. BacktrackWords \in Nat \ {0} /\ Slot(w) \in Ring
  BY SlotInRing DEF FilterAssumption
<1>2. to - from < BacktrackWords
  BY <1>1
<1>3. ASSUME NEW i \in 1..(to - from)
      PROVE  Slot(w) # Slot(from + i)
  <2>1. from + i \in Nat /\ w < from + i /\ from + i < w + BacktrackWords
    BY <1>1, <1>3
  <2> QED
    BY <2>1, SlotsDiffer
<1> QED
  BY <1>1, <1>2, <1>3 DEF Advanced

-----------------------------------------------------------------------------
(* Setting a bit.                                                          *)

Counters == 0..(RejectAfter - 1)

\* The words held when the highest counter is hi.
HeldAt(c, hi) == Word(c) <= Word(hi) /\ Word(hi) < Word(c) + BacktrackWords

Exact(ring, hi, acc) ==
    \A c \in Counters : HeldAt(c, hi) => (Bit(c) \in ring[Slot(Word(c))] <=> c \in acc)

Bits == SUBSET (0..(WordSize - 1))

\* The end of ValidateCounter, in an exact ring that holds d's word: d is valid if
\* and only if it was not accepted before, and the ring stays exact.
LEMMA SetExact ==
    ASSUME FilterAssumption, NEW d \in Counters, NEW hi \in Nat, NEW ring \in [Ring -> Bits],
           Exact(ring, hi, accepted), HeldAt(d, hi), CheckAndSet(d, ring)
    PROVE  /\ verdict' = [counter |-> d, valid |-> d \notin accepted]
           /\ accepted' = accepted \cup {d}
           /\ backtrack' \in [Ring -> Bits]
           /\ Exact(backtrack', hi, accepted')
<1> DEFINE w == Slot(Word(d))
<1>1. RejectAfter \in Nat /\ Counters \subseteq Nat
  BY DEF FilterAssumption, Counters
<1>2. Word(d) \in Nat /\ Bit(d) \in 0..(WordSize - 1)
  BY <1>1, WordOrder
<1>3. w \in Ring
  BY <1>2, SlotInRing
<1>4. Bit(d) \notin ring[w] <=> d \notin accepted
  BY DEF Exact
<1>5. /\ verdict' = [counter |-> d, valid |-> Bit(d) \notin ring[w]]
      /\ backtrack' = [ring EXCEPT ![w] = ring[w] \cup {Bit(d)}]
      /\ accepted' = IF Bit(d) \notin ring[w] THEN accepted \cup {d} ELSE accepted
  BY DEF CheckAndSet
<1>6. verdict' = [counter |-> d, valid |-> d \notin accepted]
  <2>1. (Bit(d) \notin ring[w]) = (d \notin accepted)
    BY <1>4
  <2> QED
    BY <1>5, <2>1
<1>7. accepted' = accepted \cup {d}
  BY <1>4, <1>5
<1>8. ring[w] \cup {Bit(d)} \in Bits
  BY <1>2, <1>3 DEF Bits
<1>9. backtrack' \in [Ring -> Bits]
  BY <1>5, <1>8, Zenon
<1>10. ASSUME NEW c \in Counters, HeldAt(c, hi)
       PROVE  Bit(c) \in backtrack'[Slot(Word(c))] <=> c \in accepted'
  <2>1. Word(c) \in Nat /\ Bit(c) \in 0..(WordSize - 1)
    BY <1>1, WordOrder
  <2>2. Slot(Word(c)) \in Ring
    BY <2>1, SlotInRing
  <2>3. Bit(c) \in ring[Slot(Word(c))] <=> c \in accepted
    BY <1>10 DEF Exact
  <2>4. CASE Word(c) = Word(d)
    <3>1. backtrack'[Slot(Word(c))] = ring[Slot(Word(c))] \cup {Bit(d)}
      BY <1>3, <1>5, <2>4
    <3>2. Bit(c) = Bit(d) <=> c = d
      BY <1>1, <2>4, WordOrder
    <3> QED
      BY <1>7, <2>3, <3>1, <3>2
  <2>5. CASE Word(c) # Word(d)
    <3>1. Slot(Word(c)) # w
      <4>1. hi \in Nat /\ Word(hi) \in Nat
        BY WordOrder
      <4>2. CASE Word(c) < Word(d)
        <5>1. Word(d) < Word(c) + BacktrackWords
          BY <1>2, <1>10, <2>1, <4>1 DEF HeldAt, FilterAssumption
        <5> QED
          BY <1>2, <2>1, <4>2, <5>1, SlotsDiffer
      <4>3. CASE Word(d) < Word(c)
        <5>1. Word(c) < Word(d) + BacktrackWords
          BY <1>2, <1>10, <2>1, <4>1 DEF HeldAt, FilterAssumption
        <5> QED
          BY <1>2, <2>1, <4>3, <5>1, SlotsDiffer
      <4> QED
        BY <1>2, <2>1, <2>5, <4>2, <4>3
    <3>2. backtrack'[Slot(Word(c))] = ring[Slot(Word(c))]
      BY <1>5, <2>2, <3>1
    <3>3. c # d
      BY <2>5
    <3> QED
      BY <1>7, <2>3, <3>2, <3>3
  <2> QED
    BY <2>4, <2>5
<1> QED
  BY <1>6, <1>7, <1>9, <1>10 DEF Exact

-----------------------------------------------------------------------------
(* The invariant and the refinement.                                       *)

RingInv == FilterTypeOK /\ RingExact

\* RingExact in the terms of SetExact.
LEMMA RingExactIsExact ==
    RingExact <=> (\A c \in accepted : c <= counter) /\ Exact(backtrack, counter, accepted)
BY DEF RingExact, Held, Exact, HeldAt, Counters

\* A filter starts exact.
LEMMA InitRing == FilterAssumption /\ FilterInit => RingInv
<1> SUFFICES ASSUME FilterAssumption, FilterInit
             PROVE  RingInv
  OBVIOUS
<1>1. FilterTypeOK
  BY DEF FilterInit, FilterTypeOK
<1>2. \A c \in Counters : Slot(Word(c)) \in Ring
  BY WordOrder, SlotInRing DEF FilterAssumption, Counters
<1>3. Exact(backtrack, counter, accepted)
  BY <1>2 DEF FilterInit, Exact
<1>4. \A c \in accepted : c <= counter
  BY DEF FilterInit
<1> QED
  BY <1>1, <1>3, <1>4, RingExactIsExact DEF RingInv

\* Init on a used filter makes it exact again: counter 0 is in word 0, the only
\* word held that can have a counter.
LEMMA StepReset ==
    ASSUME FilterAssumption, RingInv, Reset
    PROVE  RingInv' /\ Window!Reset
<1>1. 0 \in Ring /\ BacktrackWords \in Nat \ {0} /\ RejectAfter \in Nat
  BY DEF FilterAssumption, Ring
<1>2. FilterTypeOK'
  BY <1>1 DEF RingInv, FilterTypeOK, Reset
<1>3. ASSUME NEW c \in Counters, HeldAt(c, 0)
      PROVE  Bit(c) \notin backtrack'[Slot(Word(c))]
  <2>1. Word(c) \in Nat /\ Word(0) \in Nat
    BY <1>1, WordOrder DEF Counters
  <2>2. Word(0) = 0
    <3>1. WordSize \in Nat \ {0}
      BY DEF FilterAssumption
    <3> QED
      BY <3>1 DEF Word
  <2>3. Word(c) = 0
    BY <1>3, <2>1, <2>2 DEF HeldAt
  <2>4. Slot(0) = 0
    BY <1>1 DEF Slot
  <2>5. backtrack'[0] = {}
    BY <1>1 DEF Reset, RingInv, FilterTypeOK
  <2> QED
    BY <2>3, <2>4, <2>5
<1>4. RingExact'
  <2>1. counter' = 0 /\ accepted' = {}
    BY DEF Reset
  <2>2. Exact(backtrack', counter', accepted')
    BY <1>3, <2>1 DEF Exact
  <2> QED
    BY <2>1, <2>2 DEF RingExact, Held, Exact, HeldAt, Counters
<1> QED
  BY <1>2, <1>4 DEF RingInv, Reset, Window!Reset

\* Each case of ValidateCounter keeps the ring exact and gives the window's verdict.
LEMMA StepValidate ==
    ASSUME FilterAssumption, RingInv, NEW d \in Counter, ValidateCounter(d)
    PROVE  RingInv' /\ Window!ValidateCounter(d)
<1>1. /\ d \in Nat /\ RejectAfter \in Nat /\ WindowSize \in Nat
      /\ BacktrackWords \in Nat \ {0} /\ counter \in Nat
      /\ backtrack \in [Ring -> Bits]
  BY DEF FilterAssumption, RingInv, FilterTypeOK, Bits
<1>2. (\A c \in accepted : c <= counter) /\ Exact(backtrack, counter, accepted)
  BY RingExactIsExact DEF RingInv
<1>3. accepted \subseteq Nat
  BY DEF RingInv, FilterTypeOK
<1>4. CASE /\ d >= RejectAfter \/ Behind(d)
           /\ verdict' = [counter |-> d, valid |-> FALSE]
           /\ UNCHANGED <<counter, backtrack, accepted>>
  <2>1. ~Window!Valid(d)
    BY <1>1, <1>4 DEF Behind, Window!Valid, Window!Recent
  <2>2. Window!ValidateCounter(d)
    <3>1. verdict' = [counter |-> d, valid |-> Window!Valid(d)]
      <4>1. Window!Valid(d) = FALSE
        BY <2>1 DEF Window!Valid
      <4> QED
        BY <1>4, <4>1, Zenon
    <3> QED
      BY <1>4, <2>1, <3>1, Zenon DEF Window!ValidateCounter
  <2>3. RingExact'
    BY <1>4 DEF RingInv, RingExact, Held
  <2>4. FilterTypeOK'
    BY <1>1, <1>4 DEF RingInv, FilterTypeOK
  <2> QED
    BY <2>2, <2>3, <2>4 DEF RingInv
<1>5. CASE /\ d < RejectAfter /\ d > counter
           /\ counter' = d
           /\ CheckAndSet(d, Advanced(Word(counter), Word(d)))
  <2> DEFINE ring == Advanced(Word(counter), Word(d))
  <2>1. d \in Counters /\ Counters \subseteq Nat /\ Word(counter) \in Nat /\ Word(d) \in Nat
        /\ Word(counter) <= Word(d)
    BY <1>1, <1>5, WordOrder DEF Counters
  <2>2. ring \in [Ring -> Bits]
    BY <1>1 DEF Advanced, Bits
  <2>3. ASSUME NEW c \in Counters, HeldAt(c, d)
        PROVE  Bit(c) \in ring[Slot(Word(c))] <=> c \in accepted
    <3>1. c \in Nat /\ Word(c) \in Nat
      BY <2>1, WordOrder
    <3>2. CASE Word(counter) < Word(c)
      <4>1. ring[Slot(Word(c))] = {}
        BY <2>1, <2>3, <3>1, <3>2, EnteringCleared DEF HeldAt
      <4>2. c \notin accepted
        <5>1. ~(c <= counter)
          BY <1>1, <2>1, <3>1, <3>2, WordOrder
        <5> QED
          BY <1>2, <5>1
      <4> QED
        BY <4>1, <4>2
    <3>3. CASE Word(c) <= Word(counter)
      <4>1. ring[Slot(Word(c))] = backtrack[Slot(Word(c))]
        BY <2>1, <2>3, <3>1, <3>3, StayingKept DEF HeldAt
      <4>2. HeldAt(c, counter)
        BY <1>1, <2>1, <2>3, <3>1, <3>3 DEF HeldAt
      <4> QED
        BY <1>2, <4>1, <4>2 DEF Exact
    <3> QED
      BY <2>1, <3>1, <3>2, <3>3
  <2>4. Exact(ring, d, accepted) /\ HeldAt(d, d)
    BY <1>1, <2>1, <2>3 DEF Exact, HeldAt
  <2>5. /\ verdict' = [counter |-> d, valid |-> d \notin accepted]
        /\ accepted' = accepted \cup {d}
        /\ backtrack' \in [Ring -> Bits]
        /\ Exact(backtrack', d, accepted')
    <3> HIDE DEF ring
    <3>1. CheckAndSet(d, ring)
      BY <1>5 DEF ring
    <3> QED
      BY <1>1, <2>1, <2>2, <2>4, <3>1, SetExact
  <2>6. d \notin accepted
    BY <1>1, <1>2, <1>3, <1>5
  <2>7. Window!Valid(d)
    BY <1>5, <2>6 DEF Window!Valid, Window!Recent
  <2>8. Window!ValidateCounter(d)
    <3>1. verdict' = [counter |-> d, valid |-> Window!Valid(d)]
      <4>1. Window!Valid(d) = (d \notin accepted)
        BY <2>6, <2>7 DEF Window!Valid
      <4> QED
        BY <2>5, <4>1
    <3> QED
      BY <1>5, <2>5, <2>7, <3>1, Zenon DEF Window!ValidateCounter
  <2>9. RingExact'
    <3>1. \A c \in accepted' : c <= counter'
      BY <1>1, <1>2, <1>3, <1>5, <2>5
    <3> QED
      BY <1>5, <2>5, <3>1 DEF RingExact, Held, Exact, HeldAt, Counters
  <2>10. FilterTypeOK'
    BY <1>1, <1>3, <1>5, <2>5 DEF FilterTypeOK, Bits
  <2> QED
    BY <2>8, <2>9, <2>10 DEF RingInv
<1>6. CASE /\ d < RejectAfter /\ d <= counter /\ ~Behind(d)
           /\ counter' = counter
           /\ CheckAndSet(d, backtrack)
  <2>1. d \in Counters /\ counter - d <= WindowSize
    BY <1>1, <1>6 DEF Counters, Behind
  <2>2. HeldAt(d, counter)
    BY <1>1, <1>6, <2>1, WordOrder, WindowHeld DEF HeldAt
  <2>3. /\ verdict' = [counter |-> d, valid |-> d \notin accepted]
        /\ accepted' = accepted \cup {d}
        /\ backtrack' \in [Ring -> Bits]
        /\ Exact(backtrack', counter, accepted')
    BY <1>1, <1>2, <1>6, <2>1, <2>2, SetExact
  <2>4. Window!Valid(d) <=> d \notin accepted
    BY <1>6, <2>1 DEF Window!Valid, Window!Recent
  <2>5. Window!ValidateCounter(d)
    <3>1. verdict' = [counter |-> d, valid |-> Window!Valid(d)]
      <4>1. Window!Valid(d) = (d \notin accepted)
        BY <2>4 DEF Window!Valid
      <4> QED
        BY <2>3, <4>1
    <3>2. counter' = IF Window!Valid(d) /\ d > counter THEN d ELSE counter
      BY <1>1, <1>6
    <3>3. accepted' = IF Window!Valid(d) THEN accepted \cup {d} ELSE accepted
      BY <2>3, <2>4
    <3> QED
      BY <3>1, <3>2, <3>3 DEF Window!ValidateCounter
  <2>6. RingExact'
    <3>1. \A c \in accepted' : c <= counter'
      BY <1>1, <1>2, <1>3, <1>6, <2>3
    <3> QED
      BY <1>6, <2>3, <3>1 DEF RingExact, Held, Exact, HeldAt, Counters
  <2>7. FilterTypeOK'
    BY <1>1, <1>3, <1>6, <2>3 DEF FilterTypeOK, Bits
  <2> QED
    BY <2>5, <2>6, <2>7 DEF RingInv
<1> QED
  BY <1>4, <1>5, <1>6 DEF ValidateCounter

\* Every step keeps the ring exact and is a step of the window, or changes nothing
\* the window can see.
LEMMA StepRing ==
    FilterAssumption /\ RingInv /\ [FilterNext]_filterVars =>
        RingInv' /\ [Window!Next]_<<counter, accepted, verdict>>
<1> SUFFICES ASSUME FilterAssumption, RingInv, [FilterNext]_filterVars
             PROVE  RingInv' /\ [Window!Next]_<<counter, accepted, verdict>>
  OBVIOUS
<1>1. CASE Reset
  BY <1>1, StepReset DEF Window!Next
<1>2. CASE \E c \in Counter : ValidateCounter(c)
  BY <1>2, StepValidate DEF Window!Next
<1>3. CASE UNCHANGED filterVars
  BY <1>3 DEF filterVars, RingInv, FilterTypeOK, RingExact, Held
<1> QED
  BY <1>1, <1>2, <1>3 DEF FilterNext

\* The ring tells the truth about every counter it holds, in every reachable state.
THEOREM RingAlwaysExact == FilterSpec => []RingExact
<1>1. FilterInit => RingInv
  BY InitRing, FilterAssumption
<1>2. RingInv /\ [FilterNext]_filterVars => RingInv'
  BY StepRing, FilterAssumption
<1>3. RingInv => RingExact
  BY DEF RingInv
<1> QED
  BY <1>1, <1>2, <1>3, PTL DEF FilterSpec

\* ValidateCounter implements the replay window for every word size, ring size and
\* window that fit together: a counter is valid at most once, and always if it is
\* new and recent.
THEOREM FilterImplementsWindow == FilterSpec => ImplementsWindow
<1>1. FilterInit => RingInv /\ Window!Empty
  BY InitRing, FilterAssumption DEF FilterInit, Window!Empty
<1>2. RingInv /\ [FilterNext]_filterVars =>
          RingInv' /\ [Window!Next]_<<counter, accepted, verdict>>
  BY StepRing, FilterAssumption
<1> QED
  BY <1>1, <1>2, PTL DEF FilterSpec, ImplementsWindow, Window!Spec
=============================================================================
