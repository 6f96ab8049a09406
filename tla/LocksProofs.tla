----------------------------- MODULE LocksProofs -----------------------------
(***************************************************************************)
(* Proofs about the order of the locks of a device, for any numbers of     *)
(* connections and handshake workers.                                      *)
(*                                                                         *)
(* Every operation takes its locks in the order of Rank, with a few        *)
(* exceptions.  That is a fact about programs, which are put together from *)
(* smaller ones; it is proved the same way.  The invariant then says that  *)
(* what is left of every operation is such a program, for the locks that   *)
(* its goroutine has.  A circular wait without an exception would be one   *)
(* along which ranks grow for ever.                                        *)
(***************************************************************************)
EXTENDS Locks, SequenceTheorems, WellFoundedInduction, NaturalsInduction, TLAPS

USE Zenon

-----------------------------------------------------------------------------
(* The order of locks.                                                     *)

Rank(l) ==
    CASE l = "state"    -> 0
      [] l = "net"      -> 1
      [] l = "noise"    -> 2
      [] l = "routing"  -> 3
      [] l = "peers"    -> 4
      [] l = "routines" -> 5
      [] OTHER          -> 6

\* All locks of W, which are held exclusively, and of R, which are read, come before l.
InOrder(W, R, l) == \A m \in W \cup R : Rank(m) < Rank(l)

\* ConsumeMessageResponse, which asks for the private key; and SetPrivateKey, which stops
\* the peer whose handshake it reads.
Excepted(W, R, l) ==
    \/ "handshake" \in R /\ l = "noise"
    \/ "noise" \in W /\ ("routines" \in W \/ l = "routines")

MayTake(A, W, R, l) == l \in A /\ (InOrder(W, R, l) \/ Excepted(W, R, l))

\* A goroutine that takes locks of A only, and has W and R, may go on with i.  The parts of
\* i are sequences over I.
Allowed(A, I, W, R, i) ==
    /\ i.do \in {"lock", "rlock", "touch", "peek"} => MayTake(A, W, R, i.on)
    /\ i.do \in {"rlock", "peek"} => i.on # "routines"
    /\ i.do = "join" =>
          /\ "routines" \in A /\ "routines" \in W
          /\ \/ "noise" \in W
             \/ /\ \A m \in W : Rank(m) <= Rank("routines")
                /\ \A m \in R : Rank(m) < Rank("routines")
    /\ i.do = "wait" => "state" \in A /\ W = {"state"} /\ R = {}
    /\ i.do = "either" => \A b \in i.on : b \in Seq(I)
    /\ i.do = "each" => i.on \in Seq(I)

-----------------------------------------------------------------------------
(* Programs that keep the order.                                           *)

\* A goroutine with the locks W and R that has s to do.
Conf(W, R, s) == [w |-> W, r |-> R, s |-> s]

\* What Peer.Stop does if the peer is running.
Stopping == Step("join") \o Touching("handshake")

\* What may come of it in one step.
After(W, R, s) ==
    LET i    == Head(s)
        rest == Tail(s)
    IN  CASE i.do = "lock"   -> {Conf(W \cup {i.on}, R, rest)}
          [] i.do = "rlock"  -> {Conf(W, R \cup {i.on}, rest)}
          [] i.do = "unlock" -> {Conf(W \ {i.on}, R \ {i.on}, rest)}
          [] i.do = "either" -> {Conf(W, R, b \o rest) : b \in i.on}
          [] i.do = "each"   -> {Conf(W, R, rest), Conf(W, R, i.on \o rest)}
          [] i.do = "halt"   -> {Conf(W, R, rest), Conf(W, R, Stopping \o rest)}
          [] OTHER           -> {Conf(W, R, rest)}

\* X is closed under steps, each of which is allowed; what ends has the locks W and R.
Closed(A, I, X, W, R) ==
    \A c \in X :
        /\ c.s \in Seq(I)
        /\ c.s = <<>> => c.w = W /\ c.r = R
        /\ c.s # <<>> => Allowed(A, I, c.w, c.r, Head(c.s)) /\ After(c.w, c.r, c.s) \subseteq X

\* Whoever has the locks V and Q and does s keeps the order, and has W and R in the end.
Leads(A, V, Q, s, W, R) == \E I : \E X : Closed(A, I, X, W, R) /\ Conf(V, Q, s) \in X

\* s gives back what it takes.
Keeps(A, W, R, s) == Leads(A, W, R, s, W, R)

Appended(X, t) == {Conf(c.w, c.r, c.s \o t) : c \in X}

\* Sequences with something appended to them.
LEMMA ConcatFacts ==
    ASSUME NEW I, NEW u \in Seq(I), NEW t \in Seq(I), u # <<>>
    PROVE  /\ u \o t \in Seq(I) /\ u \o t # <<>>
           /\ Head(u \o t) = Head(u) /\ Tail(u \o t) = Tail(u) \o t
           /\ Tail(u) \in Seq(I)
<1>1. Len(u) \in Nat \ {0} /\ Len(t) \in Nat
  BY EmptySeq, LenProperties
<1>2. /\ u \o t \in Seq(I) /\ Len(u \o t) = Len(u) + Len(t)
      /\ \A i \in 1 .. Len(u) + Len(t) :
            (u \o t)[i] = IF i <= Len(u) THEN u[i] ELSE t[i - Len(u)]
  BY ConcatProperties
<1>3. u \o t # <<>>
  BY SMT, ConcatEqualIffEmpty
<1>4. Head(u \o t) = Head(u)
  BY SMT, <1>1, <1>2
<1>5. /\ Tail(u) \in Seq(I) /\ Len(Tail(u)) = Len(u) - 1
      /\ \A i \in 1 .. Len(Tail(u)) : Tail(u)[i] = u[i + 1]
  BY HeadTailProperties
<1>6. /\ Tail(u \o t) \in Seq(I) /\ Len(Tail(u \o t)) = Len(u) + Len(t) - 1
      /\ \A i \in 1 .. Len(Tail(u \o t)) : Tail(u \o t)[i] = (u \o t)[i + 1]
  BY SMT, <1>2, <1>3, HeadTailProperties
<1>7. /\ Tail(u) \o t \in Seq(I) /\ Len(Tail(u) \o t) = Len(u) - 1 + Len(t)
      /\ \A i \in 1 .. Len(u) - 1 + Len(t) :
            (Tail(u) \o t)[i] = IF i <= Len(u) - 1 THEN Tail(u)[i] ELSE t[i - (Len(u) - 1)]
  BY SMT, <1>5, ConcatProperties
<1>8. Tail(u \o t) = Tail(u) \o t
  <2>1. \A i \in 1 .. Len(Tail(u \o t)) : Tail(u \o t)[i] = (Tail(u) \o t)[i]
    BY SMT, <1>1, <1>2, <1>5, <1>6, <1>7
  <2> QED
    BY SMT, <1>1, <1>6, <1>7, <2>1, SeqEqual
<1> QED
  BY <1>2, <1>3, <1>4, <1>5, <1>8

\* Stopping is a sequence.
LEMMA StoppingFacts ==
    \E I : Stopping \in Seq(I)
<1> DEFINE I == {[do |-> "join", on |-> Nil], [do |-> "touch", on |-> "handshake"]}
<1>1. Step("join") \in Seq(I) /\ Touching("handshake") \in Seq(I)
  BY SMT DEF Step, Touching
<1>2. Stopping \in Seq(I)
  BY <1>1, ConcatProperties DEF Stopping
<1> QED
  BY <1>2

\* What follows an operation waits until it is done.
LEMMA AfterAppended ==
    ASSUME NEW A, NEW I, NEW W, NEW R, NEW u \in Seq(I), NEW t \in Seq(I), u # <<>>,
           Allowed(A, I, W, R, Head(u))
    PROVE  After(W, R, u \o t) \subseteq Appended(After(W, R, u), t)
<1> DEFINE i == Head(u)
           rest == Tail(u)
<1>1. Head(u \o t) = Head(u) /\ Tail(u \o t) = Tail(u) \o t /\ Tail(u) \in Seq(I)
  BY SMT, ConcatFacts
<1>3. \A b \in Seq(I) : b \o (rest \o t) = (b \o rest) \o t
  <2>1. rest \in Seq(I)
    BY <1>1
  <2> HIDE DEF rest
  <2> TAKE b \in Seq(I)
  <2>2. (b \o rest) \o t = b \o (rest \o t)
    BY SMT, <2>1
  <2> QED
    BY <2>2
<1>4. Stopping \o (rest \o t) = (Stopping \o rest) \o t
  <2>1. PICK J : Stopping \in Seq(J)
    BY StoppingFacts
  <2> DEFINE K == I \cup J
  <2>2. Stopping \in Seq(K) /\ rest \in Seq(K) /\ t \in Seq(K)
    BY <1>1, <2>1, SeqMonotonic
  <2> HIDE DEF rest, K
  <2>3. (Stopping \o rest) \o t = Stopping \o (rest \o t)
    BY SMT, <2>2
  <2> QED
    BY <2>3
<1>5. (i.do = "either" => \A b \in i.on : b \in Seq(I)) /\ (i.do = "each" => i.on \in Seq(I))
  BY DEF Allowed
<1>6. \A V, Q, x : Conf(V, Q, x) \in After(W, R, u)
                        => Conf(V, Q, x \o t) \in Appended(After(W, R, u), t)
  <2> TAKE V, Q, x
  <2> HAVE Conf(V, Q, x) \in After(W, R, u)
  <2>1. Conf(V, Q, x).w = V /\ Conf(V, Q, x).r = Q /\ Conf(V, Q, x).s = x
    BY DEF Conf
  <2> QED
    BY <2>1 DEF Appended
<1>7. After(W, R, u \o t) =
        CASE i.do = "lock"   -> {Conf(W \cup {i.on}, R, rest \o t)}
          [] i.do = "rlock"  -> {Conf(W, R \cup {i.on}, rest \o t)}
          [] i.do = "unlock" -> {Conf(W \ {i.on}, R \ {i.on}, rest \o t)}
          [] i.do = "either" -> {Conf(W, R, b \o (rest \o t)) : b \in i.on}
          [] i.do = "each"   -> {Conf(W, R, rest \o t), Conf(W, R, i.on \o (rest \o t))}
          [] i.do = "halt"   -> {Conf(W, R, rest \o t), Conf(W, R, Stopping \o (rest \o t))}
          [] OTHER           -> {Conf(W, R, rest \o t)}
  BY <1>1 DEF After
<1>8. After(W, R, u) =
        CASE i.do = "lock"   -> {Conf(W \cup {i.on}, R, rest)}
          [] i.do = "rlock"  -> {Conf(W, R \cup {i.on}, rest)}
          [] i.do = "unlock" -> {Conf(W \ {i.on}, R \ {i.on}, rest)}
          [] i.do = "either" -> {Conf(W, R, b \o rest) : b \in i.on}
          [] i.do = "each"   -> {Conf(W, R, rest), Conf(W, R, i.on \o rest)}
          [] i.do = "halt"   -> {Conf(W, R, rest), Conf(W, R, Stopping \o rest)}
          [] OTHER           -> {Conf(W, R, rest)}
  BY DEF After
<1> HIDE DEF i, rest
<1>9. CASE i.do = "either"
  <2>1. After(W, R, u \o t) = {Conf(W, R, b \o (rest \o t)) : b \in i.on}
    BY <1>7, <1>9
  <2>2. After(W, R, u) = {Conf(W, R, b \o rest) : b \in i.on}
    BY <1>8, <1>9
  <2>3. \A b \in i.on : Conf(W, R, b \o (rest \o t)) \in Appended(After(W, R, u), t)
    BY <1>3, <1>5, <1>6, <1>9, <2>2
  <2> QED
    BY <2>1, <2>3
<1>10. CASE i.do = "each"
  <2>1. After(W, R, u \o t) = {Conf(W, R, rest \o t), Conf(W, R, i.on \o (rest \o t))}
    BY <1>7, <1>10
  <2>2. After(W, R, u) = {Conf(W, R, rest), Conf(W, R, i.on \o rest)}
    BY <1>8, <1>10
  <2>3. i.on \o (rest \o t) = (i.on \o rest) \o t
    BY <1>3, <1>5, <1>10
  <2>4. Conf(W, R, rest \o t) \in Appended(After(W, R, u), t)
    BY <1>6, <2>2
  <2>5. Conf(W, R, (i.on \o rest) \o t) \in Appended(After(W, R, u), t)
    BY <1>6, <2>2
  <2> QED
    BY <2>1, <2>3, <2>4, <2>5
<1>11. CASE i.do = "halt"
  <2>1. After(W, R, u \o t) = {Conf(W, R, rest \o t), Conf(W, R, Stopping \o (rest \o t))}
    BY <1>7, <1>11
  <2>2. After(W, R, u) = {Conf(W, R, rest), Conf(W, R, Stopping \o rest)}
    BY <1>8, <1>11
  <2>3. Conf(W, R, rest \o t) \in Appended(After(W, R, u), t)
    BY <1>6, <2>2
  <2>4. Conf(W, R, (Stopping \o rest) \o t) \in Appended(After(W, R, u), t)
    BY <1>6, <2>2
  <2> QED
    BY <1>4, <2>1, <2>3, <2>4
<1>12. CASE i.do \notin {"either", "each", "halt"}
  <2>1. PICK V, Q : /\ After(W, R, u \o t) = {Conf(V, Q, rest \o t)}
                    /\ After(W, R, u) = {Conf(V, Q, rest)}
    BY <1>7, <1>8, <1>12
  <2>2. Conf(V, Q, rest \o t) \in Appended(After(W, R, u), t)
    BY <1>6, <2>1
  <2> QED
    BY <2>1, <2>2
<1> QED
  BY <1>9, <1>10, <1>11, <1>12

\* Wider sets of steps do no harm.
LEMMA Widen ==
    ASSUME NEW A, NEW I, NEW J, NEW X, NEW W, NEW R, Closed(A, I, X, W, R), I \subseteq J
    PROVE  Closed(A, J, X, W, R)
<1>1. \A u : u \in Seq(I) => u \in Seq(J)
  BY SeqMonotonic
<1> QED
  BY <1>1 DEF Closed, Allowed

\* One operation after the other.
LEMMA Sequenced ==
    ASSUME NEW A, NEW I, NEW X, NEW Y, NEW W, NEW R, NEW V, NEW Q, NEW t,
           Closed(A, I, X, W, R), Closed(A, I, Y, V, Q), Conf(W, R, t) \in Y
    PROVE  Closed(A, I, Appended(X, t) \cup Y, V, Q)
<1> DEFINE Z == Appended(X, t) \cup Y
<1>0. t \in Seq(I)
  BY DEF Closed, Conf
<1> DEFINE Fine(c, E, V1, Q1) ==
              /\ c.s \in Seq(I)
              /\ c.s = <<>> => c.w = V1 /\ c.r = Q1
              /\ c.s # <<>> => /\ Allowed(A, I, c.w, c.r, Head(c.s))
                               /\ After(c.w, c.r, c.s) \subseteq E
<1>1. \A c \in Y : Fine(c, Z, V, Q)
  BY DEF Closed
<1>2. ASSUME NEW c \in X
      PROVE  Fine(Conf(c.w, c.r, c.s \o t), Z, V, Q)
  <2> DEFINE C == c.w
             D == c.r
             u == c.s
  <2>1. u \in Seq(I) /\ (u = <<>> => C = W /\ D = R)
    BY DEF Closed
  <2>2. u # <<>> => Allowed(A, I, C, D, Head(u)) /\ After(C, D, u) \subseteq X
    BY DEF Closed
  <2> HIDE DEF C, D, u
  <2>3. CASE u = <<>>
    <3>1. Conf(C, D, u \o t) = Conf(W, R, t)
      BY <1>0, <2>1, <2>3, ConcatEmptySeq
    <3> QED
      BY <1>1, <3>1 DEF C, D, u
  <2>4. CASE u # <<>>
    <3>1. u \o t \in Seq(I) /\ u \o t # <<>> /\ Head(u \o t) = Head(u)
      BY SMT, <1>0, <2>1, <2>4, ConcatFacts
    <3>2. After(C, D, u \o t) \subseteq Appended(After(C, D, u), t)
      BY <1>0, <2>1, <2>2, <2>4, AfterAppended
    <3>3. Appended(After(C, D, u), t) \subseteq Appended(X, t)
      BY <2>2, <2>4 DEF Appended
    <3>4. Fine(Conf(C, D, u \o t), Z, V, Q)
      BY <2>2, <2>4, <3>1, <3>2, <3>3 DEF Conf
    <3> QED
      BY <3>4 DEF C, D, u
  <2> QED
    BY <2>3, <2>4
<1>3. \A d \in Z : Fine(d, Z, V, Q)
  BY <1>1, <1>2 DEF Appended
<1> QED
  BY <1>3 DEF Closed

\* Two operations at the same time; neither knows of the other.
LEMMA Joined ==
    ASSUME NEW A, NEW I, NEW X, NEW J, NEW Y, NEW W, NEW R,
           Closed(A, I, X, W, R), Closed(A, J, Y, W, R)
    PROVE  Closed(A, I \cup J, X \cup Y, W, R)
<1>1. Closed(A, I \cup J, X, W, R) /\ Closed(A, I \cup J, Y, W, R)
  BY Widen
<1> QED
  BY <1>1 DEF Closed

\* One more step at the beginning.
LEMMA Prefixed ==
    ASSUME NEW A, NEW I, NEW Z, NEW V, NEW Q, NEW W, NEW R, NEW s \in Seq(I), s # <<>>,
           Closed(A, I, Z, V, Q), Allowed(A, I, W, R, Head(s)), After(W, R, s) \subseteq Z
    PROVE  Leads(A, W, R, s, V, Q)
<1> DEFINE X == Z \cup {Conf(W, R, s)}
<1>1. Conf(W, R, s).w = W /\ Conf(W, R, s).r = R /\ Conf(W, R, s).s = s
  BY DEF Conf
<1>2. Closed(A, I, X, V, Q)
  BY <1>1 DEF Closed
<1>3. Conf(W, R, s) \in X
  OBVIOUS
<1> QED
  BY <1>2, <1>3 DEF Leads

\* One operation after the other.
LEMMA Then ==
    ASSUME NEW A, NEW s, NEW t, NEW W, NEW R, NEW V, NEW Q, NEW C, NEW D,
           Leads(A, C, D, s, W, R), Leads(A, W, R, t, V, Q)
    PROVE  Leads(A, C, D, s \o t, V, Q)
<1>1. PICK I : \E X : Closed(A, I, X, W, R) /\ Conf(C, D, s) \in X
  BY DEF Leads
<1>2. PICK X : Closed(A, I, X, W, R) /\ Conf(C, D, s) \in X
  BY <1>1
<1>3. PICK J : \E Y : Closed(A, J, Y, V, Q) /\ Conf(W, R, t) \in Y
  BY DEF Leads
<1>4. PICK Y : Closed(A, J, Y, V, Q) /\ Conf(W, R, t) \in Y
  BY <1>3
<1>5. Closed(A, I \cup J, X, W, R) /\ Closed(A, I \cup J, Y, V, Q)
  BY <1>2, <1>4, Widen
<1>6. Closed(A, I \cup J, Appended(X, t) \cup Y, V, Q)
  BY <1>4, <1>5, Sequenced
<1>7. Conf(C, D, s).w = C /\ Conf(C, D, s).r = D /\ Conf(C, D, s).s = s
  BY DEF Conf
<1>8. Conf(C, D, s \o t) \in Appended(X, t)
  BY <1>2, <1>7 DEF Appended
<1>9. Conf(C, D, s \o t) \in Appended(X, t) \cup Y
  BY <1>8
<1> QED
  BY <1>6, <1>9 DEF Leads

\* Nothing to do.
LEMMA NothingKeeps ==
    ASSUME NEW A, NEW W, NEW R
    PROVE  /\ Closed(A, {}, {Conf(W, R, <<>>)}, W, R)
           /\ Keeps(A, W, R, <<>>)
<1>1. <<>> \in Seq({})
  BY SMT
<1>2. Closed(A, {}, {Conf(W, R, <<>>)}, W, R)
  <2> DEFINE c == Conf(W, R, <<>>)
  <2>1. c.w = W /\ c.r = R /\ c.s = <<>>
    BY DEF Conf
  <2> HIDE DEF c
  <2>2. Closed(A, {}, {c}, W, R)
    BY <1>1, <2>1 DEF Closed
  <2> QED
    BY <2>2 DEF c
<1>3. Conf(W, R, <<>>) \in {Conf(W, R, <<>>)}
  OBVIOUS
<1>4. Keeps(A, W, R, <<>>)
  <2> DEFINE X == {Conf(W, R, <<>>)}
             I == {}
             c == Conf(W, R, <<>>)
  <2>1. Closed(A, I, X, W, R) /\ c \in X
    BY <1>2
  <2> HIDE DEF X, I, c
  <2>2. \E J : \E Y : Closed(A, J, Y, W, R) /\ c \in Y
    BY <2>1
  <2> QED
    BY <2>2 DEF Keeps, Leads, c
<1> QED
  BY <1>2, <1>4

\* A single step.
LEMMA Alone ==
    ASSUME NEW i
    PROVE  <<i>> \in Seq({i}) /\ <<i>> # <<>> /\ Head(<<i>>) = i /\ Tail(<<i>>) = <<>>
BY SMT

\* A step that is allowed, and what it leads to.
LEMMA OneStep ==
    ASSUME NEW A, NEW I, NEW i \in I, NEW W, NEW R, NEW V, NEW Q, Allowed(A, I, W, R, i),
           \/ i.do = "lock" /\ V = W \cup {i.on} /\ Q = R
           \/ i.do = "rlock" /\ V = W /\ Q = R \cup {i.on}
           \/ i.do = "unlock" /\ V = W \ {i.on} /\ Q = R \ {i.on}
           \/ /\ i.do \in {"touch", "peek", "launch", "delete", "join", "wait"}
              /\ V = W /\ Q = R
    PROVE  Leads(A, W, R, <<i>>, V, Q)
<1> DEFINE N == {}
           Z == {Conf(V, Q, <<>>)}
<1>1. Closed(A, N, Z, V, Q) /\ N \subseteq I
  BY NothingKeeps
<1>2. ASSUME NEW c \in After(W, R, <<i>>)
      PROVE  c = Conf(V, Q, <<>>)
  <2>1. Head(<<i>>) = i /\ Tail(<<i>>) = <<>>
    BY Alone
  <2>2. /\ i.do = "lock" => c = Conf(W \cup {i.on}, R, <<>>)
        /\ i.do = "rlock" => c = Conf(W, R \cup {i.on}, <<>>)
        /\ i.do = "unlock" => c = Conf(W \ {i.on}, R \ {i.on}, <<>>)
        /\ i.do \in {"touch", "peek", "launch", "delete", "join", "wait"} =>
              c = Conf(W, R, <<>>)
    BY <2>1, SMT DEF After
  <2> QED
    BY <2>2
<1>3. After(W, R, <<i>>) \subseteq Z
  BY <1>2
<1> HIDE DEF N, Z
<1>4. Closed(A, I, Z, V, Q)
  BY <1>1, Widen
<1>5. <<i>> \in Seq(I) /\ <<i>> # <<>> /\ Head(<<i>>) = i
  BY SMT
<1> QED
  BY <1>3, <1>4, <1>5, Prefixed

\* A lock is acquired, which keeps the order; or it is released.
LEMMA LockAllowed ==
    ASSUME NEW A, NEW I, NEW W, NEW R, NEW i,
           \/ /\ i.do \in {"lock", "rlock", "touch", "peek"} /\ MayTake(A, W, R, i.on)
              /\ i.do \in {"rlock", "peek"} => i.on # "routines"
           \/ i.do \in {"unlock", "launch", "delete"}
    PROVE  Allowed(A, I, W, R, i)
BY DEF Allowed

\* Taking a lock for one step, exclusively or shared, where the lock may be taken.
LEMMA TouchingKeeps ==
    ASSUME NEW A, NEW W, NEW R, NEW l, MayTake(A, W, R, l)
    PROVE  Keeps(A, W, R, Touching(l))
<1> DEFINE i == [do |-> "touch", on |-> l]
           I == {i}
<1>1. i.do = "touch" /\ i.on = l /\ i \in I
  OBVIOUS
<1>2. Touching(l) = <<i>>
  BY DEF Touching
<1> HIDE DEF i, I
<1>3. Allowed(A, I, W, R, i)
  BY <1>1, LockAllowed
<1>4. Leads(A, W, R, <<i>>, W, R)
  BY <1>1, <1>3, OneStep
<1> QED
  BY <1>2, <1>4 DEF Keeps

\* The same for a lock that is shared for one step.
LEMMA PeekingKeeps ==
    ASSUME NEW A, NEW W, NEW R, NEW l, MayTake(A, W, R, l), l # "routines"
    PROVE  Keeps(A, W, R, Peeking(l))
<1> DEFINE i == [do |-> "peek", on |-> l]
           I == {i}
<1>1. i.do = "peek" /\ i.on = l /\ i \in I
  OBVIOUS
<1>2. Peeking(l) = <<i>>
  BY DEF Peeking
<1> HIDE DEF i, I
<1>3. Allowed(A, I, W, R, i)
  BY <1>1, LockAllowed
<1>4. Leads(A, W, R, <<i>>, W, R)
  BY <1>1, <1>3, OneStep
<1> QED
  BY <1>2, <1>4 DEF Keeps

\* What is done under a lock.
LEMMA HoldingKeeps ==
    ASSUME NEW A, NEW W, NEW R, NEW V, NEW l, NEW body,
           MayTake(A, W, R, l), l \notin W, l \notin R, V = W \cup {l}, Keeps(A, V, R, body)
    PROVE  Keeps(A, W, R, Holding(l, body))
<1> DEFINE i == [do |-> "lock", on |-> l]
           j == [do |-> "unlock", on |-> l]
           I == {i, j}
<1>1. /\ i.do = "lock" /\ i.on = l /\ i \in I
      /\ j.do = "unlock" /\ j.on = l /\ j \in I
  OBVIOUS
<1>2. Holding(l, body) = (<<i>> \o body) \o <<j>>
  BY DEF Holding
<1> HIDE DEF i, j, I
<1>3. Allowed(A, I, W, R, i) /\ Allowed(A, I, V, R, j)
  BY <1>1, LockAllowed
<1>4. Leads(A, W, R, <<i>>, V, R)
  BY <1>1, <1>3, OneStep
<1>5. Leads(A, V, R, <<j>>, W, R)
  <2>1. W = V \ {l} /\ R = R \ {l}
    OBVIOUS
  <2> QED
    BY <1>1, <1>3, <2>1, OneStep
<1>6. Leads(A, W, R, <<i>> \o body, V, R)
  BY <1>4, Then DEF Keeps
<1>7. Leads(A, W, R, (<<i>> \o body) \o <<j>>, W, R)
  BY <1>5, <1>6, Then
<1> QED
  BY <1>2, <1>7 DEF Keeps

\* A body that keeps to the rules with one more lock shared, under that lock.
LEMMA ReadingKeeps ==
    ASSUME NEW A, NEW W, NEW R, NEW Q, NEW l, NEW body, l # "routines",
           MayTake(A, W, R, l), l \notin W, l \notin R, Q = R \cup {l}, Keeps(A, W, Q, body)
    PROVE  Keeps(A, W, R, Reading(l, body))
<1> DEFINE i == [do |-> "rlock", on |-> l]
           j == [do |-> "unlock", on |-> l]
           I == {i, j}
<1>1. /\ i.do = "rlock" /\ i.on = l /\ i \in I
      /\ j.do = "unlock" /\ j.on = l /\ j \in I
  OBVIOUS
<1>2. Reading(l, body) = (<<i>> \o body) \o <<j>>
  BY DEF Reading
<1> HIDE DEF i, j, I
<1>3. Allowed(A, I, W, R, i) /\ Allowed(A, I, W, Q, j)
  BY <1>1, LockAllowed
<1>4. Leads(A, W, R, <<i>>, W, Q)
  BY <1>1, <1>3, OneStep
<1>5. Leads(A, W, Q, <<j>>, W, R)
  <2>1. W = W \ {l} /\ R = Q \ {l}
    OBVIOUS
  <2> QED
    BY <1>1, <1>3, <2>1, OneStep
<1>6. Leads(A, W, R, <<i>> \o body, W, Q)
  BY <1>4, Then DEF Keeps
<1>7. Leads(A, W, R, (<<i>> \o body) \o <<j>>, W, R)
  BY <1>5, <1>6, Then
<1> QED
  BY <1>2, <1>7 DEF Keeps

\* A step after which there are several ways to go on, each of which keeps what is held.
LEMMA Branches ==
    ASSUME NEW A, NEW W, NEW R, NEW a, NEW b, NEW d, NEW i,
           Keeps(A, W, R, a), Keeps(A, W, R, b), Keeps(A, W, R, d),
           \/ i.do = "either" /\ \A x \in i.on : x = a \/ x = b \/ x = d
           \/ i.do = "each" /\ a = <<>> /\ i.on = b
           \/ i.do = "halt" /\ a = <<>> /\ b = Stopping
    PROVE  Keeps(A, W, R, <<i>>)
<1>1. PICK I : \E X : Closed(A, I, X, W, R) /\ Conf(W, R, a) \in X
  BY DEF Keeps, Leads
<1>2. PICK X : Closed(A, I, X, W, R) /\ Conf(W, R, a) \in X
  BY <1>1
<1>3. PICK J : \E Y : Closed(A, J, Y, W, R) /\ Conf(W, R, b) \in Y
  BY DEF Keeps, Leads
<1>4. PICK Y : Closed(A, J, Y, W, R) /\ Conf(W, R, b) \in Y
  BY <1>3
<1>5. PICK H : \E U : Closed(A, H, U, W, R) /\ Conf(W, R, d) \in U
  BY DEF Keeps, Leads
<1>6. PICK U : Closed(A, H, U, W, R) /\ Conf(W, R, d) \in U
  BY <1>5
<1> DEFINE K == ((I \cup J) \cup H) \cup {i}
           Z == (X \cup Y) \cup U
<1>7. Closed(A, K, Z, W, R)
  <2>1. Closed(A, I \cup J, X \cup Y, W, R)
    BY <1>2, <1>4, Joined
  <2>2. Closed(A, (I \cup J) \cup H, Z, W, R)
    BY <1>6, <2>1, Joined
  <2>3. (I \cup J) \cup H \subseteq K
    OBVIOUS
  <2> HIDE DEF K, Z
  <2> QED
    BY <2>2, <2>3, Widen
<1>8. Conf(W, R, a) \in Z /\ Conf(W, R, b) \in Z /\ Conf(W, R, d) \in Z /\ i \in K
  BY <1>2, <1>4, <1>6
<1> HIDE DEF K, Z
<1>9. a \in Seq(K) /\ b \in Seq(K) /\ d \in Seq(K)
  BY <1>7, <1>8 DEF Closed, Conf
<1>10. <<i>> \in Seq(K) /\ <<i>> # <<>> /\ Head(<<i>>) = i /\ Tail(<<i>>) = <<>>
  BY SMT, <1>8
<1>11. Allowed(A, K, W, R, i)
  BY <1>9 DEF Allowed
<1>12. a \o <<>> = a /\ b \o <<>> = b /\ d \o <<>> = d
  BY <1>9, ConcatEmptySeq
<1>13. After(W, R, <<i>>) \subseteq Z
  <2>1. CASE i.do = "either" /\ \A x \in i.on : x = a \/ x = b \/ x = d
    <3>1. After(W, R, <<i>>) = {Conf(W, R, x \o <<>>) : x \in i.on}
      BY <1>10, <2>1 DEF After
    <3>2. \A x \in i.on : Conf(W, R, x \o <<>>) \in Z
      BY <1>8, <1>12, <2>1
    <3> QED
      BY <3>1, <3>2
  <2>2. CASE i.do = "each" /\ a = <<>> /\ i.on = b
    <3>1. After(W, R, <<i>>) = {Conf(W, R, <<>>), Conf(W, R, b \o <<>>)}
      BY <1>10, <2>2 DEF After
    <3> QED
      BY <1>8, <1>12, <2>2, <3>1
  <2>3. CASE i.do = "halt" /\ a = <<>> /\ b = Stopping
    <3>1. After(W, R, <<i>>) = {Conf(W, R, <<>>), Conf(W, R, b \o <<>>)}
      BY <1>10, <2>3 DEF After
    <3> QED
      BY <1>8, <1>12, <2>3, <3>1
  <2> QED
    BY <2>1, <2>2, <2>3
<1> QED
  BY <1>7, <1>10, <1>11, <1>13, Prefixed DEF Keeps

\* A choice keeps to the rules if every alternative does.
LEMMA EitherKeeps ==
    ASSUME NEW A, NEW W, NEW R, NEW a, NEW b, NEW d,
           Keeps(A, W, R, a), Keeps(A, W, R, b), Keeps(A, W, R, d)
    PROVE  Keeps(A, W, R, Either({a, b, d}))
<1> DEFINE i == [do |-> "either", on |-> {a, b, d}]
<1>1. /\ i.do = "either" /\ \A x \in i.on : x = a \/ x = b \/ x = d
      /\ Either({a, b, d}) = <<i>>
  BY DEF Either
<1> HIDE DEF i
<1>2. Keeps(A, W, R, <<i>>)
  BY <1>1, Branches
<1> QED
  BY <1>1, <1>2

\* A part that may be left out.
LEMMA MaybeKeeps ==
    ASSUME NEW A, NEW W, NEW R, NEW body, Keeps(A, W, R, body)
    PROVE  Keeps(A, W, R, Maybe(body))
<1> DEFINE i == [do |-> "either", on |-> {<<>>, body}]
<1>1. /\ i.do = "either" /\ \A x \in i.on : x = <<>> \/ x = body
      /\ Maybe(body) = <<i>>
  BY DEF Maybe, Either
<1> HIDE DEF i
<1>2. Keeps(A, W, R, <<>>)
  BY NothingKeeps
<1>3. Keeps(A, W, R, <<i>>)
  BY <1>1, <1>2, Branches
<1> QED
  BY <1>1, <1>3

\* A loop over the peers.
LEMMA EachKeeps ==
    ASSUME NEW A, NEW W, NEW R, NEW body, Keeps(A, W, R, body)
    PROVE  Keeps(A, W, R, Each(body))
<1> DEFINE i == [do |-> "each", on |-> body]
<1>1. i.do = "each" /\ i.on = body /\ Each(body) = <<i>>
  BY DEF Each
<1> HIDE DEF i
<1>2. Keeps(A, W, R, <<>>)
  BY NothingKeeps
<1>3. Keeps(A, W, R, <<i>>)
  BY <1>1, <1>2, Branches
<1> QED
  BY <1>1, <1>3

\* Two parts, one after the other.
LEMMA ThenKeeps ==
    ASSUME NEW A, NEW W, NEW R, NEW s, NEW t, Keeps(A, W, R, s), Keeps(A, W, R, t)
    PROVE  Keeps(A, W, R, s \o t)
BY Then DEF Keeps

\* Steps that take no lock.
LEMMA StepKeeps ==
    ASSUME NEW A, NEW W, NEW R, NEW name,
           \/ name \in {"launch", "delete"}
           \/ /\ name = "wait"
              /\ "state" \in A /\ W = {"state"} /\ R = {}
           \/ /\ name = "join"
              /\ "routines" \in A /\ "routines" \in W
              /\ \/ "noise" \in W
                 \/ /\ \A m \in W : Rank(m) <= Rank("routines")
                    /\ \A m \in R : Rank(m) < Rank("routines")
    PROVE  Keeps(A, W, R, Step(name))
<1> DEFINE i == [do |-> name, on |-> Nil]
           I == {i}
<1>1. i.do = name /\ i \in I /\ Step(name) = <<i>>
  BY DEF Step
<1> HIDE DEF i, I
<1>2. Allowed(A, I, W, R, i)
  BY <1>1 DEF Allowed
<1>3. Leads(A, W, R, <<i>>, W, R)
  BY <1>1, <1>2, OneStep
<1> QED
  BY <1>1, <1>3 DEF Keeps

-----------------------------------------------------------------------------
(* The same for locks that are taken in order.                             *)

\* The locks S and l.
Plus(S, l) == S \cup {l}

\* What Plus adds.
LEMMA PlusFacts ==
    ASSUME NEW S, NEW l
    PROVE  l \in Plus(S, l) /\ \A m : m \in Plus(S, l) <=> m \in S \/ m = l
BY DEF Plus

\* The order of locks.
LEMMA RankOrder ==
    /\ Rank("state") < Rank("net") /\ Rank("state") < Rank("noise")
    /\ Rank("state") < Rank("peers")
    /\ Rank("net") < Rank("noise") /\ Rank("net") < Rank("peers") /\ Rank("net") < Rank("peer")
    /\ Rank("net") < Rank("handshake")
    /\ Rank("noise") < Rank("routing") /\ Rank("noise") < Rank("peers")
    /\ Rank("noise") < Rank("handshake")
    /\ Rank("routing") < Rank("peers")
    /\ Rank("peers") < Rank("routines") /\ Rank("peers") < Rank("peer")
    /\ Rank("routines") < Rank("handshake")
BY SMT DEF Rank

\* Ranks are small numbers.
LEMMA RankType == \A l : Rank(l) \in 0 .. 6
BY SMT DEF Rank

\* Under a lock, those that come later may be taken.
LEMMA Nest ==
    ASSUME NEW W, NEW R, NEW l, NEW k, InOrder(W, R, l), Rank(l) < Rank(k)
    PROVE  InOrder(W, R, k) /\ InOrder(Plus(W, l), R, k) /\ InOrder(W, Plus(R, l), k)
<1>1. \A m : Rank(m) < Rank(l) => Rank(m) < Rank(k)
  BY SMT, RankType
<1> QED
  BY <1>1 DEF InOrder, Plus

\* What comes later is not held.
LEMMA NotHeld ==
    ASSUME NEW W, NEW R, NEW l, InOrder(W, R, l)
    PROVE  l \notin W /\ l \notin R
<1>1. ~(Rank(l) < Rank(l))
  BY SMT, RankType
<1> QED
  BY <1>1 DEF InOrder

\* The four ways to take a lock that is next in the order.
LEMMA TouchInOrder ==
    ASSUME NEW A, NEW W, NEW R, NEW l \in A, InOrder(W, R, l)
    PROVE  Keeps(A, W, R, Touching(l))
BY TouchingKeeps DEF MayTake

\* Sharing it for one step.
LEMMA PeekInOrder ==
    ASSUME NEW A, NEW W, NEW R, NEW l \in A, InOrder(W, R, l), l # "routines"
    PROVE  Keeps(A, W, R, Peeking(l))
BY PeekingKeeps DEF MayTake

\* Holding it exclusively around a body.
LEMMA HoldInOrder ==
    ASSUME NEW A, NEW W, NEW R, NEW l \in A, NEW body, InOrder(W, R, l),
           Keeps(A, Plus(W, l), R, body)
    PROVE  Keeps(A, W, R, Holding(l, body))
<1>1. MayTake(A, W, R, l)
  BY DEF MayTake
<1>2. l \notin W /\ l \notin R
  BY NotHeld
<1>3. Plus(W, l) = W \cup {l}
  BY DEF Plus
<1> QED
  BY <1>1, <1>2, <1>3, HoldingKeeps

\* Sharing it around a body.
LEMMA ReadInOrder ==
    ASSUME NEW A, NEW W, NEW R, NEW l \in A, NEW body, InOrder(W, R, l), l # "routines",
           Keeps(A, W, Plus(R, l), body)
    PROVE  Keeps(A, W, R, Reading(l, body))
<1>1. MayTake(A, W, R, l)
  BY DEF MayTake
<1>2. l \notin W /\ l \notin R
  BY NotHeld
<1>3. Plus(R, l) = R \cup {l}
  BY DEF Plus
<1> QED
  BY <1>1, <1>2, <1>3, ReadingKeeps

-----------------------------------------------------------------------------
(* Operations of routines and workers.                                     *)

\* The locks that the routines of a peer take.
Basic == {"net", "noise", "peer", "handshake"}

\* The locks that every goroutine may take.
LEMMA BasicFacts ==
    ASSUME NEW A, Basic \subseteq A
    PROVE  "net" \in A /\ "noise" \in A /\ "peer" \in A /\ "handshake" \in A
BY DEF Basic

\* Peer.SendBuffer: net, then the peer.
LEMMA SendBufferKeeps ==
    ASSUME NEW A, Basic \subseteq A, NEW W, NEW R, InOrder(W, R, "net")
    PROVE  Keeps(A, W, R, SendBuffer)
<1>1. InOrder(W, Plus(R, "net"), "peer")
  BY Nest, RankOrder
<1>2. Keeps(A, W, Plus(R, "net"), Peeking("peer"))
  BY <1>1, BasicFacts, PeekInOrder
<1>3. Keeps(A, W, Plus(R, "net"), Maybe(Peeking("peer")))
  BY <1>2, MaybeKeeps
<1> QED
  BY <1>3, BasicFacts, ReadInOrder DEF SendBuffer

\* Peer.SendHandshakeInitiation: noise and the handshake, released before SendBuffer.
LEMMA SendHandshakeInitiationKeeps ==
    ASSUME NEW A, Basic \subseteq A, NEW W, NEW R, InOrder(W, R, "net")
    PROVE  Keeps(A, W, R, SendHandshakeInitiation)
<1>1. InOrder(W, R, "noise")
  BY Nest, RankOrder
<1>2. InOrder(W, Plus(R, "noise"), "handshake")
  BY <1>1, Nest, RankOrder
<1>3. Keeps(A, W, Plus(R, "noise"), Touching("handshake"))
  BY <1>2, BasicFacts, TouchInOrder
<1>4. Keeps(A, W, R, CreateMessageInitiation)
  BY <1>1, <1>3, BasicFacts, ReadInOrder DEF CreateMessageInitiation
<1>5. Keeps(A, W, R, Maybe(SendBuffer))
  BY SendBufferKeeps, MaybeKeeps
<1>6. Keeps(A, W, R, CreateMessageInitiation \o Maybe(SendBuffer))
  BY <1>4, <1>5, ThenKeeps
<1> QED
  BY <1>6, MaybeKeeps DEF SendHandshakeInitiation

\* SetEndpoint, CreateMessageResponse and NewKeypair.
LEMMA TouchingsKeep ==
    ASSUME NEW A, Basic \subseteq A, NEW W, NEW R, InOrder(W, R, "net")
    PROVE  /\ Keeps(A, W, R, SetEndpoint) /\ Keeps(A, W, R, CreateMessageResponse)
           /\ Keeps(A, W, R, NewKeypair) /\ Keeps(A, W, R, Touching("handshake"))
<1>1. InOrder(W, R, "peer") /\ InOrder(W, R, "handshake")
  BY Nest, RankOrder
<1>2. Keeps(A, W, R, Touching("peer")) /\ Keeps(A, W, R, Touching("handshake"))
  BY <1>1, BasicFacts, TouchInOrder
<1> QED
  BY <1>2 DEF SetEndpoint, CreateMessageResponse, NewKeypair

\* The operations of the routines of a peer and of its timers.
LEMMA RoutinesKeep ==
    ASSUME NEW A, Basic \subseteq A, NEW W, NEW R, InOrder(W, R, "net")
    PROVE  /\ Keeps(A, W, R, RoutineSequentialSender)
           /\ Keeps(A, W, R, RoutineSequentialReceiver)
           /\ \A s \in Expired : Keeps(A, W, R, s)
<1>1. Keeps(A, W, R, SendBuffer) /\ Keeps(A, W, R, SendHandshakeInitiation)
  BY SendBufferKeeps, SendHandshakeInitiationKeeps
<1>2. Keeps(A, W, R, SetEndpoint) /\ Keeps(A, W, R, Touching("handshake"))
  BY TouchingsKeep
<1>3. /\ Keeps(A, W, R, SendBuffer \o SendHandshakeInitiation)
      /\ Keeps(A, W, R, SetEndpoint \o SendHandshakeInitiation)
  BY <1>1, <1>2, ThenKeeps
<1> QED
  BY <1>2, <1>3 DEF RoutineSequentialSender, RoutineSequentialReceiver, Expired

\* An initiation is consumed in order.
LEMMA InitiationKeeps ==
    ASSUME NEW A, Basic \subseteq A, "peers" \in A, NEW W, NEW R, InOrder(W, R, "net")
    PROVE  Keeps(A, W, R, RejectInitiation) /\ Keeps(A, W, R, ConsumeMessageInitiation)
<1> DEFINE Q == Plus(R, "noise")
           lookup == LookupPeer
           peek == Peeking("handshake")
           touch == Touching("handshake")
<1>1. InOrder(W, R, "noise")
  BY Nest, RankOrder
<1>2. InOrder(W, Q, "peers") /\ InOrder(W, Q, "handshake")
  BY <1>1, Nest, RankOrder
<1>3. Keeps(A, W, Q, lookup) /\ Keeps(A, W, Q, peek) /\ Keeps(A, W, Q, touch)
  BY <1>2, BasicFacts, PeekInOrder, TouchInOrder DEF LookupPeer
<1> HIDE DEF lookup, peek, touch
<1>4. Keeps(A, W, Q, Maybe(lookup \o Maybe(peek)))
  BY <1>3, MaybeKeeps, ThenKeeps
<1>5. Keeps(A, W, Q, (lookup \o peek) \o touch)
  BY <1>3, ThenKeeps
<1>6. /\ Keeps(A, W, R, Reading("noise", Maybe(lookup \o Maybe(peek))))
      /\ Keeps(A, W, R, Reading("noise", (lookup \o peek) \o touch))
  BY <1>1, <1>4, <1>5, BasicFacts, ReadInOrder
<1> QED
  BY <1>6 DEF RejectInitiation, ConsumeMessageInitiation, lookup, peek, touch

\* A response is consumed with the exception for noise.mutex.
LEMMA ResponseKeeps ==
    ASSUME NEW A, Basic \subseteq A, NEW W, NEW R, InOrder(W, R, "net")
    PROVE  Keeps(A, W, R, RejectResponse) /\ Keeps(A, W, R, ConsumeMessageResponse)
<1> DEFINE Q == Plus(R, "handshake")
           peek == Peeking("noise")
           touch == Touching("handshake")
<1>1. InOrder(W, R, "handshake")
  BY Nest, RankOrder
<1>2. MayTake(A, W, Q, "noise")
  BY BasicFacts, PlusFacts DEF MayTake, Excepted
<1>3. Keeps(A, W, Q, peek)
  BY <1>2, PeekingKeeps
<1>4. Keeps(A, W, R, touch)
  BY TouchingsKeep
<1> HIDE DEF peek, touch
<1>5. Keeps(A, W, Q, Maybe(peek))
  BY <1>3, MaybeKeeps
<1>6. /\ Keeps(A, W, R, Reading("handshake", Maybe(peek)))
      /\ Keeps(A, W, R, Reading("handshake", peek))
  BY <1>1, <1>3, <1>5, BasicFacts, ReadInOrder
<1>7. Keeps(A, W, R, Reading("handshake", peek) \o touch)
  BY <1>4, <1>6, ThenKeeps
<1> QED
  BY <1>6, <1>7 DEF RejectResponse, ConsumeMessageResponse, peek, touch

\* The operations of the workers.
LEMMA HandshakeKeeps ==
    ASSUME NEW A, Basic \subseteq A, "peers" \in A, NEW W, NEW R, InOrder(W, R, "net"),
           NEW s \in RoutineHandshake
    PROVE  Keeps(A, W, R, s)
<1> DEFINE finish == Maybe(NewKeypair \o Maybe(SendBuffer))
           initiation == ((ConsumeMessageInitiation \o SetEndpoint) \o CreateMessageResponse) \o finish
           response == (ConsumeMessageResponse \o SetEndpoint) \o NewKeypair
<1>1. /\ Keeps(A, W, R, SetEndpoint) /\ Keeps(A, W, R, CreateMessageResponse)
      /\ Keeps(A, W, R, NewKeypair)
  BY TouchingsKeep
<1>2. Keeps(A, W, R, RejectInitiation) /\ Keeps(A, W, R, ConsumeMessageInitiation)
  BY InitiationKeeps
<1>3. Keeps(A, W, R, RejectResponse) /\ Keeps(A, W, R, ConsumeMessageResponse)
  BY ResponseKeeps
<1>4. Keeps(A, W, R, SendBuffer)
  BY SendBufferKeeps
<1>5. Keeps(A, W, R, finish)
  BY <1>1, <1>4, MaybeKeeps, ThenKeeps
<1>6. Keeps(A, W, R, response)
  BY <1>1, <1>3, ThenKeeps
<1>7. Keeps(A, W, R, initiation)
  <2> HIDE DEF finish
  <2> QED
    BY <1>1, <1>2, <1>5, ThenKeeps
<1>8. RoutineHandshake = {RejectInitiation, initiation, RejectResponse, response}
  BY DEF RoutineHandshake
<1> HIDE DEF initiation, response
<1> QED
  BY <1>2, <1>3, <1>6, <1>7, <1>8

-----------------------------------------------------------------------------
(* Operations that may take any lock.                                      *)

\* The members of Lock.
LEMMA LockFacts ==
    /\ "state" \in Lock /\ "net" \in Lock /\ "noise" \in Lock /\ "routing" \in Lock
    /\ "peers" \in Lock /\ "peer" \in Lock /\ "routines" \in Lock /\ "handshake" \in Lock
    /\ Basic \subseteq Lock
BY DEF Lock, Basic

\* Peer.Start, wherever the mutex of the routines may still be taken.
LEMMA StartKeeps ==
    ASSUME NEW W, NEW R, InOrder(W, R, "routines")
    PROVE  Keeps(Lock, W, R, Start)
<1>1. Keeps(Lock, Plus(W, "routines"), R, Step("launch"))
  BY StepKeeps
<1> QED
  BY <1>1, LockFacts, HoldInOrder DEF Start

\* A peer is stopped in order; or while noise.mutex is held, as an exception.
LEMMA StopKeeps ==
    ASSUME NEW W, NEW R, "routines" \notin W, "routines" \notin R,
           InOrder(W, R, "routines") \/ "noise" \in W
    PROVE  Keeps(Lock, W, R, Stop)
<1> DEFINE V == Plus(W, "routines")
           join == Step("join")
           touch == Touching("handshake")
<1>1. "routines" \in V /\ ("noise" \in W => "noise" \in V)
  BY PlusFacts
<1>2. InOrder(W, R, "routines") => InOrder(V, R, "handshake")
  BY Nest, RankOrder
<1>3. InOrder(W, R, "routines") =>
          /\ \A m \in V : Rank(m) <= Rank("routines")
          /\ \A m \in R : Rank(m) < Rank("routines")
  <2>1. \A m : Rank(m) < Rank("routines") \/ m = "routines" => Rank(m) <= Rank("routines")
    BY SMT, RankType
  <2> QED
    BY <2>1 DEF InOrder, Plus
<1>4. V = W \cup {"routines"}
  BY DEF Plus
<1> HIDE DEF V
<1>5. Keeps(Lock, V, R, join)
  BY <1>1, <1>3, LockFacts, StepKeeps
<1>6. MayTake(Lock, V, R, "handshake")
  BY <1>1, <1>2, LockFacts DEF MayTake, Excepted
<1>7. Keeps(Lock, V, R, touch)
  BY <1>6, TouchingKeeps
<1>8. Keeps(Lock, V, R, Stopping)
  <2> HIDE DEF join, touch
  <2>1. Keeps(Lock, V, R, join \o touch)
    BY <1>5, <1>7, ThenKeeps
  <2> QED
    BY <2>1 DEF Stopping, join, touch
<1>9. Keeps(Lock, V, R, Step("halt"))
  <2> DEFINE i == [do |-> "halt", on |-> Nil]
             n == <<>>
  <2>1. i.do = "halt" /\ Step("halt") = <<i>>
    BY DEF Step
  <2>2. Keeps(Lock, V, R, n)
    BY NothingKeeps
  <2>3. n = <<>>
    OBVIOUS
  <2> HIDE DEF i, n
  <2>4. Keeps(Lock, V, R, <<i>>)
    BY <1>8, <2>1, <2>2, <2>3, Branches
  <2> QED
    BY <2>1, <2>4
<1>10. MayTake(Lock, W, R, "routines")
  BY LockFacts DEF MayTake, Excepted
<1> QED
  BY <1>4, <1>9, <1>10, HoldingKeeps DEF Stop

\* unsafeRemovePeer under noise.mutex: its Stop is the exception that MayTake allows.
LEMMA UnsafeRemovePeerKeeps ==
    ASSUME NEW W, NEW R, "routines" \notin W, "routines" \notin R, "noise" \in W
    PROVE  Keeps(Lock, W, R, UnsafeRemovePeer)
<1>1. Keeps(Lock, W, R, Stop) /\ Keeps(Lock, W, R, Step("delete"))
  BY StopKeeps, StepKeeps
<1> QED
  BY <1>1, ThenKeeps DEF UnsafeRemovePeer

\* BindClose, BindSetMark and BindUpdate: net, peers, the peer.
LEMMA BindKeeps ==
    ASSUME NEW W, NEW R, InOrder(W, R, "net")
    PROVE  /\ Keeps(Lock, W, R, BindClose) /\ Keeps(Lock, W, R, BindSetMark)
           /\ Keeps(Lock, W, R, BindUpdate)
<1> DEFINE V == Plus(W, "net")
           U == Plus(V, "peers")
<1>1. Keeps(Lock, W, R, BindClose)
  BY LockFacts, TouchInOrder DEF BindClose
<1>2. InOrder(V, R, "peers")
  BY Nest, RankOrder
<1>3. Keeps(Lock, V, R, Touching("peers"))
  BY <1>2, LockFacts, TouchInOrder
<1>4. Keeps(Lock, W, R, BindSetMark)
  BY <1>3, LockFacts, HoldInOrder DEF BindSetMark
<1>5. InOrder(U, R, "peer")
  BY <1>2, Nest, RankOrder
<1>6. Keeps(Lock, U, R, Touching("peer"))
  BY <1>5, LockFacts, TouchInOrder
<1>7. Keeps(Lock, U, R, Maybe(Each(Touching("peer"))))
  BY <1>6, EachKeeps, MaybeKeeps
<1>8. Keeps(Lock, V, R, Holding("peers", Maybe(Each(Touching("peer")))))
  BY <1>2, <1>7, LockFacts, HoldInOrder
<1>9. Keeps(Lock, W, R, BindUpdate)
  BY <1>8, LockFacts, HoldInOrder DEF BindUpdate
<1> QED
  BY <1>1, <1>4, <1>9

\* A change of the state of the interface.
LEMMA UpOrDownKeeps ==
    ASSUME NEW W, NEW R, InOrder(W, R, "state")
    PROVE  Keeps(Lock, W, R, UpOrDown)
<1> DEFINE V == Plus(W, "state")
           U == Plus(V, "peers")
           up == BindUpdate \o Maybe(Holding("peers", Each(Start)))
           down == BindClose \o Holding("peers", Each(Stop))
           n == <<>>
           change == Holding("state", Either({n, up, down}))
<1>1. InOrder(V, R, "net") /\ InOrder(V, R, "peers")
  BY Nest, RankOrder
<1>2. InOrder(U, R, "routines")
  BY <1>1, Nest, RankOrder
<1>3. "routines" \notin U /\ "routines" \notin R
  BY <1>2, NotHeld
<1>4. Keeps(Lock, V, R, BindUpdate) /\ Keeps(Lock, V, R, BindClose)
  BY <1>1, BindKeeps
<1>5. Keeps(Lock, U, R, Each(Start)) /\ Keeps(Lock, U, R, Each(Stop))
  BY <1>2, <1>3, StartKeeps, StopKeeps, EachKeeps
<1>6. /\ Keeps(Lock, V, R, Maybe(Holding("peers", Each(Start))))
      /\ Keeps(Lock, V, R, Holding("peers", Each(Stop)))
  BY <1>1, <1>5, LockFacts, HoldInOrder, MaybeKeeps
<1>7. Keeps(Lock, V, R, up) /\ Keeps(Lock, V, R, down) /\ Keeps(Lock, V, R, n)
  BY <1>4, <1>6, ThenKeeps, NothingKeeps
<1>8. Keeps(Lock, V, R, Either({n, up, down}))
  <2> HIDE DEF n, up, down
  <2> QED
    BY <1>7, EitherKeeps
<1>9. Keeps(Lock, W, R, change)
  BY <1>8, LockFacts, HoldInOrder
<1>10. Keeps(Lock, W, R, Touching("state"))
  BY LockFacts, TouchInOrder
<1>11. DeviceUpdateState = change \o Touching("state")
  BY DEF DeviceUpdateState
<1> HIDE DEF change
<1>12. Keeps(Lock, W, R, Maybe(DeviceUpdateState))
  BY <1>9, <1>10, <1>11, ThenKeeps, MaybeKeeps
<1> QED
  BY <1>10, <1>12, ThenKeeps DEF UpOrDown

\* The three locks under which a peer is removed.
LEMMA RemovalOrder ==
    ASSUME NEW W, NEW R, InOrder(W, R, "noise"), NEW body,
           Keeps(Lock, Plus(Plus(Plus(W, "noise"), "routing"), "peers"), R, body)
    PROVE  Keeps(Lock, W, R, Holding("noise", Holding("routing", Holding("peers", body))))
<1> DEFINE V == Plus(W, "noise")
           U == Plus(V, "routing")
<1>1. InOrder(V, R, "routing")
  BY Nest, RankOrder
<1>2. InOrder(U, R, "peers")
  BY <1>1, Nest, RankOrder
<1>3. Keeps(Lock, U, R, Holding("peers", body))
  BY <1>2, LockFacts, HoldInOrder
<1>4. Keeps(Lock, V, R, Holding("routing", Holding("peers", body)))
  BY <1>1, <1>3, LockFacts, HoldInOrder
<1> QED
  BY <1>4, LockFacts, HoldInOrder

\* RemovePeer and SetPrivateKey: noise, routing, peers, and for each peer its Stop.
LEMMA RemovePeerKeeps ==
    ASSUME NEW W, NEW R, InOrder(W, R, "noise")
    PROVE  Keeps(Lock, W, R, RemovePeer) /\ Keeps(Lock, W, R, SetPrivateKey)
<1> DEFINE V == Plus(Plus(Plus(W, "noise"), "routing"), "peers")
           Q == Plus(R, "handshake")
<1>1. InOrder(W, R, "peers")
  BY Nest, RankOrder
<1>2. "routines" \notin W /\ "routines" \notin R
  BY <1>1, Nest, RankOrder, NotHeld
<1>3. "noise" \in V /\ "routines" \notin V /\ "routines" \notin Q
  BY <1>2 DEF Plus
<1>4. InOrder(V, R, "handshake")
  <2>1. InOrder(Plus(W, "noise"), R, "routing")
    BY Nest, RankOrder
  <2>2. InOrder(Plus(Plus(W, "noise"), "routing"), R, "peers")
    BY <2>1, Nest, RankOrder
  <2>3. InOrder(V, R, "routines")
    BY <2>2, Nest, RankOrder
  <2> QED
    BY <2>3, Nest, RankOrder
<1>5. Keeps(Lock, V, R, UnsafeRemovePeer) /\ Keeps(Lock, V, Q, UnsafeRemovePeer)
  <2> HIDE DEF V, Q
  <2> QED
    BY <1>2, <1>3, UnsafeRemovePeerKeeps
<1>6. Keeps(Lock, V, Q, Maybe(UnsafeRemovePeer))
  BY <1>5, MaybeKeeps
<1>7. Keeps(Lock, V, R, Reading("handshake", Maybe(UnsafeRemovePeer)))
  BY <1>4, <1>6, LockFacts, ReadInOrder
<1>8. /\ Keeps(Lock, V, R, Each(UnsafeRemovePeer))
      /\ Keeps(Lock, V, R, Each(Reading("handshake", Maybe(UnsafeRemovePeer))))
  BY <1>5, <1>7, EachKeeps
<1> QED
  BY <1>8, RemovalOrder DEF RemovePeer, SetPrivateKey

\* Device.Close, which begins without locks.
LEMMA CloseKeeps ==
    Keeps(Lock, {}, {}, Close)
<1> DEFINE N == {}
           V == Plus(N, "state")
           wait == Step("wait")
<1>1. InOrder(N, N, "state") /\ N = {}
  BY DEF InOrder
<1>2. V = {"state"}
  BY DEF Plus
<1> HIDE DEF N
<1>3. InOrder(V, N, "net") /\ InOrder(V, N, "noise")
  BY <1>1, Nest, RankOrder
<1>4. Keeps(Lock, V, N, BindClose) /\ Keeps(Lock, V, N, RemovePeer)
  BY <1>3, BindKeeps, RemovePeerKeeps
<1>5. Keeps(Lock, V, N, wait)
  <2> HIDE DEF V
  <2> QED
    BY <1>1, <1>2, LockFacts, StepKeeps
<1> HIDE DEF wait
<1>6. Keeps(Lock, V, N, (BindClose \o wait) \o RemovePeer)
  BY <1>4, <1>5, ThenKeeps
<1>7. Keeps(Lock, N, N, Holding("state", (BindClose \o wait) \o RemovePeer))
  BY <1>1, <1>6, LockFacts, HoldInOrder
<1> QED
  BY <1>1, <1>7 DEF Close, RemoveAllPeers, wait

\* IpcGetOperation: net, noise, routing, peers, the peer.
LEMMA IpcGetKeeps ==
    ASSUME NEW W, NEW R, InOrder(W, R, "net")
    PROVE  Keeps(Lock, W, R, IpcGet)
<1> DEFINE P == Plus(R, "net")
           Q == Plus(P, "noise")
           O == Plus(Q, "routing")
           V == Plus(W, "peers")
           loop == Each(Peeking("peer"))
<1>1. InOrder(W, P, "noise")
  BY Nest, RankOrder
<1>2. InOrder(W, Q, "routing")
  BY <1>1, Nest, RankOrder
<1>3. InOrder(W, O, "peers")
  BY <1>2, Nest, RankOrder
<1>4. InOrder(V, O, "peer")
  BY <1>3, Nest, RankOrder
<1>5. Keeps(Lock, V, O, loop)
  BY <1>4, LockFacts, PeekInOrder, EachKeeps
<1>6. Keeps(Lock, W, O, Holding("peers", loop))
  BY <1>3, <1>5, LockFacts, HoldInOrder
<1>7. Keeps(Lock, W, Q, Reading("routing", Holding("peers", loop)))
  BY <1>2, <1>6, LockFacts, ReadInOrder
<1>8. Keeps(Lock, W, P, Reading("noise", Reading("routing", Holding("peers", loop))))
  BY <1>1, <1>7, LockFacts, ReadInOrder
<1> QED
  BY <1>8, LockFacts, ReadInOrder DEF IpcGet

\* Every line of a set operation.
LEMMA IpcSetKeeps ==
    ASSUME NEW W, NEW R, \A l : InOrder(W, R, l), NEW s \in IpcSet
    PROVE  Keeps(Lock, W, R, s)
<1> DEFINE V == Plus(W, "state")
           Q == Plus(R, "noise")
           key == (Peeking("noise") \o LookupPeer) \o Maybe(NewPeer)
           port == Touching("net") \o BindUpdate
<1>1. /\ Keeps(Lock, W, R, Peeking("noise")) /\ Keeps(Lock, W, R, LookupPeer)
      /\ Keeps(Lock, W, R, Touching("net")) /\ Keeps(Lock, W, R, Touching("handshake"))
      /\ Keeps(Lock, W, R, Touching("peer")) /\ Keeps(Lock, W, R, Touching("routing"))
  BY LockFacts, PeekInOrder, TouchInOrder DEF LookupPeer
<1>2. /\ Keeps(Lock, W, R, BindUpdate) /\ Keeps(Lock, W, R, BindSetMark)
      /\ Keeps(Lock, W, R, SetPrivateKey) /\ Keeps(Lock, W, R, RemovePeer)
  BY BindKeeps, RemovePeerKeeps
<1>3. Keeps(Lock, W, R, NewPeer)
  <2>1. InOrder(V, R, "noise")
    BY Nest, RankOrder
  <2>2. InOrder(V, Q, "peers")
    BY <2>1, Nest, RankOrder
  <2>3. Keeps(Lock, V, Q, Touching("peers"))
    BY <2>2, LockFacts, TouchInOrder
  <2>4. Keeps(Lock, V, R, Reading("noise", Touching("peers")))
    BY <2>1, <2>3, LockFacts, ReadInOrder
  <2> QED
    BY <2>4, LockFacts, HoldInOrder DEF NewPeer
<1>4. Keeps(Lock, W, R, key) /\ Keeps(Lock, W, R, port)
  BY <1>1, <1>2, <1>3, MaybeKeeps, ThenKeeps
<1>5. IpcSet = {key, Touching("handshake"), Touching("peer"), Touching("routing"), port,
                BindSetMark, SetPrivateKey, RemovePeer}
  BY DEF IpcSet
<1> HIDE DEF key, port
<1> QED
  BY <1>1, <1>2, <1>4, <1>5

\* The locks a goroutine may take.
Takes(g) ==
    IF g \in Routine THEN Basic ELSE IF g \in Worker THEN Basic \cup {"peers"} ELSE Lock

\* Every operation keeps the order, and gives back all locks.
LEMMA OperationsKeep ==
    ASSUME NEW g \in Goroutine, NEW s \in Operations(g)
    PROVE  Keeps(Takes(g), {}, {}, s)
<1> DEFINE N == {}
           A == Takes(g)
<1>1. N = {} /\ \A l : InOrder(N, N, l)
  BY DEF InOrder
<1>2. Basic \subseteq A /\ A \subseteq Lock
  BY LockFacts DEF Takes
<1> HIDE DEF N
<1>3. CASE g \in Connection
  <2>1. g \notin Worker /\ g \notin Routine
    BY <1>3, LocksAssumption DEF Routine, Single
  <2>2. A = Lock
    BY <2>1 DEF Takes
  <2>3. s \in IpcSet \/ s = IpcGet
    BY <1>3, <2>1, LocksAssumption DEF Operations, Single
  <2> QED
    BY <1>1, <2>2, <2>3, IpcSetKeeps, IpcGetKeeps
<1>4. CASE g \in Worker
  <2>1. g \notin Connection /\ g \notin Single /\ g \notin Routine
    BY <1>4, LocksAssumption DEF Routine, Single
  <2>2. "peers" \in A
    BY <1>4, <2>1 DEF Takes
  <2>3. s \in RoutineHandshake
    BY <1>4, <2>1 DEF Operations, Single
  <2> HIDE DEF A
  <2>4. Keeps(A, N, N, s)
    BY <1>1, <1>2, <2>2, <2>3, HandshakeKeeps
  <2> QED
    BY <1>1, <2>4 DEF A
<1>5. CASE g \in Single
  <2>1. g \notin Connection /\ g \notin Worker
    BY <1>5, LocksAssumption
  <2>2. CASE g \in {"nonce", "sender", "receiver", "reader", "timer"}
    <3>1. \/ s = SendHandshakeInitiation \/ s = RoutineSequentialSender
          \/ s = RoutineSequentialReceiver \/ s \in Expired
      BY <2>1, <2>2 DEF Operations
    <3> HIDE DEF A
    <3>2. Keeps(A, N, N, s)
      BY <1>1, <1>2, <3>1, RoutinesKeep, SendHandshakeInitiationKeeps
    <3> QED
      BY <1>1, <3>2 DEF A
  <2>3. CASE g = "events"
    <3>1. s = UpOrDown
      BY <2>1, <2>3 DEF Operations
    <3>2. A = Lock
      BY <2>1, <2>3 DEF Takes, Routine
    <3> QED
      BY <1>1, <3>1, <3>2, UpOrDownKeeps
  <2>4. CASE g = "closer"
    <3>1. s = Close
      BY <2>1, <2>4 DEF Operations
    <3>2. A = Lock
      BY <2>1, <2>4 DEF Takes, Routine
    <3> QED
      BY <1>1, <3>1, <3>2, CloseKeeps
  <2> QED
    BY <1>5, <2>2, <2>3, <2>4 DEF Single
<1> QED
  BY <1>3, <1>4, <1>5, LocksAssumption

-----------------------------------------------------------------------------
(* The invariant.                                                          *)

Writing(g) == {l \in Lock : locks[l].writer = g}

ReadBy(g) == {l \in Lock : g \in locks[l].readers}

\* What locks may be.
Mutexes == [Lock -> [writer : Goroutine \cup {Nil}, readers : SUBSET Goroutine,
                     pending : Goroutine \cup {Nil}]]

TypeOK ==
    /\ locks \in Mutexes
    /\ todo = [g \in Goroutine |-> todo[g]]
    /\ alive \subseteq Routine \cup Worker

\* What is left of an operation keeps the order, and gives back the locks it has.
Disciplined ==
    \A g \in Goroutine : Leads(Takes(g), Writing(g), ReadBy(g), todo[g], {}, {})

\* Who has announced itself is about to take the lock.
PendingOK ==
    \A g \in Goroutine, l \in Lock :
        locks[l].pending = g => Current(g).do \in {"lock", "touch"} /\ Current(g).on = l

\* peer.routines is a sync.Mutex.
RoutinesOK == locks["routines"].readers = {} /\ locks["routines"].pending = Nil

IInv == TypeOK /\ Disciplined /\ PendingOK /\ RoutinesOK

\* Whoever has V and Q may take the next step of s, and then leads to W and R.
Proceeds(A, V, Q, s, W, R) ==
    /\ \E I : Allowed(A, I, V, Q, Head(s))
    /\ \A V1, Q1, s1 : Conf(V1, Q1, s1) \in After(V, Q, s) => Leads(A, V1, Q1, s1, W, R)

\* A program that leads somewhere proceeds there.
LEMMA LeadsStep ==
    ASSUME NEW A, NEW V, NEW Q, NEW s, NEW W, NEW R, Leads(A, V, Q, s, W, R)
    PROVE  s # <<>> => Proceeds(A, V, Q, s, W, R)
<1>1. PICK I : \E X : Closed(A, I, X, W, R) /\ Conf(V, Q, s) \in X
  BY DEF Leads
<1>2. PICK X : Closed(A, I, X, W, R) /\ Conf(V, Q, s) \in X
  BY <1>1
<1> DEFINE c == Conf(V, Q, s)
<1>3. c.w = V /\ c.r = Q /\ c.s = s
  BY DEF Conf
<1> HIDE DEF c
<1>4. c.s # <<>> => Allowed(A, I, c.w, c.r, Head(c.s)) /\ After(c.w, c.r, c.s) \subseteq X
  BY <1>2 DEF Closed, c
<1>5. ASSUME s # <<>>, NEW V1, NEW Q1, NEW s1, Conf(V1, Q1, s1) \in After(V, Q, s)
      PROVE  Leads(A, V1, Q1, s1, W, R)
  <2>1. Conf(V1, Q1, s1) \in X
    BY <1>3, <1>4, <1>5
  <2> QED
    BY <1>2, <2>1 DEF Leads
<1> QED
  BY <1>3, <1>4, <1>5 DEF Proceeds

\* A goroutine that is in no operation has no lock.
LEMMA IdleFacts ==
    ASSUME Disciplined, NEW g \in Goroutine, todo[g] = <<>>
    PROVE  Writing(g) = {} /\ ReadBy(g) = {}
<1> DEFINE c == Conf(Writing(g), ReadBy(g), <<>>)
<1>1. PICK I : \E X : Closed(Takes(g), I, X, {}, {}) /\ c \in X
  BY DEF Disciplined, Leads
<1>2. PICK X : Closed(Takes(g), I, X, {}, {}) /\ c \in X
  BY <1>1
<1>3. c.w = Writing(g) /\ c.r = ReadBy(g) /\ c.s = <<>>
  BY DEF Conf
<1> HIDE DEF c
<1>4. c.s = <<>> => c.w = {} /\ c.r = {}
  BY <1>2 DEF Closed
<1> QED
  BY <1>3, <1>4

\* The next steps one by one.
LEMMA AfterFacts ==
    ASSUME NEW W, NEW R, NEW s, NEW i, i = Head(s)
    PROVE  /\ i.do = "lock" => Conf(W \cup {i.on}, R, Tail(s)) \in After(W, R, s)
           /\ i.do = "rlock" => Conf(W, R \cup {i.on}, Tail(s)) \in After(W, R, s)
           /\ i.do = "unlock" => Conf(W \ {i.on}, R \ {i.on}, Tail(s)) \in After(W, R, s)
           /\ i.do = "either" => \A b \in i.on : Conf(W, R, b \o Tail(s)) \in After(W, R, s)
           /\ i.do = "each" => /\ Conf(W, R, Tail(s)) \in After(W, R, s)
                               /\ Conf(W, R, i.on \o Tail(s)) \in After(W, R, s)
           /\ i.do = "halt" => /\ Conf(W, R, Tail(s)) \in After(W, R, s)
                               /\ Conf(W, R, Stopping \o Tail(s)) \in After(W, R, s)
           /\ i.do \in {"touch", "peek", "launch", "join", "wait", "delete"} =>
                  Conf(W, R, Tail(s)) \in After(W, R, s)
<1>1. i.do = "lock" => Conf(W \cup {i.on}, R, Tail(s)) \in After(W, R, s)
  BY DEF After
<1>2. i.do = "rlock" => Conf(W, R \cup {i.on}, Tail(s)) \in After(W, R, s)
  BY DEF After
<1>3. i.do = "unlock" => Conf(W \ {i.on}, R \ {i.on}, Tail(s)) \in After(W, R, s)
  BY DEF After
<1>4. i.do = "either" => \A b \in i.on : Conf(W, R, b \o Tail(s)) \in After(W, R, s)
  BY DEF After
<1>5. i.do = "each" => /\ Conf(W, R, Tail(s)) \in After(W, R, s)
                       /\ Conf(W, R, i.on \o Tail(s)) \in After(W, R, s)
  BY DEF After
<1>6. i.do = "halt" => /\ Conf(W, R, Tail(s)) \in After(W, R, s)
                       /\ Conf(W, R, Stopping \o Tail(s)) \in After(W, R, s)
  BY DEF After
<1>7. i.do \in {"touch", "peek", "launch", "join", "wait", "delete"} =>
          Conf(W, R, Tail(s)) \in After(W, R, s)
  BY DEF After
<1> QED
  BY <1>1, <1>2, <1>3, <1>4, <1>5, <1>6, <1>7

\* A goroutine in an operation may take its next step, and leads to the end of it.
LEMMA Onward ==
    ASSUME Disciplined, NEW g \in Goroutine, NEW i, i = Current(g), i.do # "idle"
    PROVE  /\ \E I : Allowed(Takes(g), I, Writing(g), ReadBy(g), i)
           /\ i = Head(todo[g])
           /\ \A V, Q, s : Conf(V, Q, s) \in After(Writing(g), ReadBy(g), todo[g]) =>
                              Leads(Takes(g), V, Q, s, {}, {})
<1>1. todo[g] # <<>> /\ i = Head(todo[g])
  BY DEF Current
<1>2. Leads(Takes(g), Writing(g), ReadBy(g), todo[g], {}, {})
  BY DEF Disciplined
<1>3. Proceeds(Takes(g), Writing(g), ReadBy(g), todo[g], {}, {})
  BY <1>1, <1>2, LeadsStep
<1> QED
  BY <1>1, <1>3 DEF Proceeds

\* What a goroutine may take are locks.
LEMMA TakesLocks ==
    \A g : Takes(g) \subseteq Lock
BY LockFacts DEF Takes

\* Nobody has a lock or anything left to do at the start.
LEMMA InitOK ==
    Init => IInv
<1> SUFFICES ASSUME Init PROVE IInv
  OBVIOUS
<1> USE DEF Init
<1>1. TypeOK
  BY SMT DEF TypeOK, Mutexes
<1>2. ASSUME NEW g \in Goroutine
      PROVE  Leads(Takes(g), Writing(g), ReadBy(g), todo[g], {}, {})
  <2>1. Writing(g) = {} /\ ReadBy(g) = {} /\ todo[g] = <<>>
    BY LocksAssumption DEF Writing, ReadBy
  <2>2. Keeps(Takes(g), {}, {}, <<>>)
    BY NothingKeeps
  <2> QED
    BY <2>1, <2>2 DEF Keeps
<1>3. PendingOK
  BY LocksAssumption DEF PendingOK
<1>4. RoutinesOK
  BY LockFacts DEF RoutinesOK
<1> QED
  BY <1>1, <1>2, <1>3, <1>4 DEF IInv, Disciplined

\* The discipline of the others, if their locks stay.
LEMMA OthersKeep ==
    ASSUME IInv, NEW g \in Goroutine, NEW s, Continue(g, s),
           \A h \in Goroutine : h # g => Writing(h)' = Writing(h) /\ ReadBy(h)' = ReadBy(h),
           Leads(Takes(g), Writing(g)', ReadBy(g)', s, {}, {})
    PROVE  Disciplined' /\ todo' = [h \in Goroutine |-> todo'[h]]
<1>1. /\ todo' = [h \in Goroutine |-> todo'[h]] /\ todo'[g] = s
      /\ \A h \in Goroutine : h # g => todo'[h] = todo[h]
  BY SMT DEF IInv, TypeOK, Continue
<1>2. ASSUME NEW h \in Goroutine
      PROVE  Leads(Takes(h), Writing(h)', ReadBy(h)', todo'[h], {}, {})
  <2>1. CASE h = g
    BY <1>1, <2>1
  <2>2. CASE h # g
    BY <1>1, <2>2 DEF IInv, Disciplined
  <2> QED
    BY <2>1, <2>2
<1> QED
  BY <1>1, <1>2 DEF Disciplined

\* A step that takes or gives back no lock.
LEMMA QuietOK ==
    ASSUME IInv, NEW g \in Goroutine, NEW s, Continue(g, s), locks' = locks,
           alive' \subseteq Routine \cup Worker, ~(Current(g).do \in {"lock", "touch"}),
           Leads(Takes(g), Writing(g), ReadBy(g), s, {}, {})
    PROVE  IInv'
<1>1. \A h : Writing(h)' = Writing(h) /\ ReadBy(h)' = ReadBy(h)
  BY DEF Writing, ReadBy
<1>2. Leads(Takes(g), Writing(g)', ReadBy(g)', s, {}, {})
  BY <1>1
<1>3. Disciplined' /\ todo' = [h \in Goroutine |-> todo'[h]]
  BY <1>1, <1>2, OthersKeep
<1>4. TypeOK'
  BY <1>3 DEF IInv, TypeOK
<1>5. \A h \in Goroutine : h # g => todo'[h] = todo[h]
  BY SMT DEF IInv, TypeOK, Continue
<1>6. PendingOK'
  <2>1. \A h \in Goroutine : h # g => Current(h)' = Current(h)
    BY <1>5 DEF Current
  <2>2. \A h \in Goroutine, l \in Lock : locks[l].pending = h =>
            Current(h).do \in {"lock", "touch"} /\ Current(h).on = l
    BY DEF IInv, PendingOK
  <2>3. \A h \in Goroutine, l \in Lock : locks[l].pending = h =>
            Current(h)'.do \in {"lock", "touch"} /\ Current(h)'.on = l
    BY <2>1, <2>2
  <2> QED
    BY <2>3 DEF PendingOK
<1>7. RoutinesOK'
  BY DEF IInv, RoutinesOK
<1> QED
  BY <1>3, <1>4, <1>6, <1>7 DEF IInv

\* A goroutine that had nothing left to do begins an operation that keeps to the rules.
LEMMA BeginOK ==
    ASSUME IInv, NEW g \in Goroutine, Begin(g)
    PROVE  IInv'
<1>1. PICK s \in Operations(g) : Continue(g, s)
  BY DEF Begin
<1>2. locks' = locks /\ alive' \subseteq Routine \cup Worker /\ todo[g] = <<>>
  BY DEF Begin, IInv, TypeOK
<1>3. ~(Current(g).do \in {"lock", "touch"})
  BY <1>2 DEF Current
<1>4. Writing(g) = {} /\ ReadBy(g) = {}
  BY <1>2, IdleFacts DEF IInv
<1>5. Leads(Takes(g), {}, {}, s, {}, {})
  BY OperationsKeep DEF Keeps
<1>6. Leads(Takes(g), Writing(g), ReadBy(g), s, {}, {})
  BY <1>4, <1>5
<1> QED
  BY <1>1, <1>2, <1>3, <1>6, QuietOK

\* Every alternative of a choice keeps to the rules.
LEMMA ChooseOK ==
    ASSUME IInv, NEW g \in Goroutine, Choose(g)
    PROVE  IInv'
<1>1. PICK b \in Current(g).on : Continue(g, b \o Tail(todo[g]))
  BY DEF Choose
<1>2. /\ locks' = locks /\ alive' \subseteq Routine \cup Worker
      /\ Current(g).do = "either" /\ Disciplined
  BY DEF Choose, IInv, TypeOK
<1>3. /\ Current(g) = Head(todo[g])
      /\ \A V, Q, s : Conf(V, Q, s) \in After(Writing(g), ReadBy(g), todo[g]) =>
                         Leads(Takes(g), V, Q, s, {}, {})
  BY <1>2, Onward
<1>4. Conf(Writing(g), ReadBy(g), b \o Tail(todo[g])) \in After(Writing(g), ReadBy(g), todo[g])
  BY <1>2, <1>3, AfterFacts
<1>5. Leads(Takes(g), Writing(g), ReadBy(g), b \o Tail(todo[g]), {}, {})
  BY <1>3, <1>4
<1>6. ~(Current(g).do \in {"lock", "touch"})
  BY <1>2
<1> QED
  BY <1>1, <1>2, <1>5, <1>6, QuietOK

\* Steps over which only the program moves.
LEMMA PassOK ==
    ASSUME IInv, NEW g \in Goroutine,
           Current(g).do \in {"launch", "join", "wait", "delete"},
           locks' = locks, alive' \subseteq Routine \cup Worker, Continue(g, Tail(todo[g]))
    PROVE  IInv'
<1>1. Current(g).do # "idle" /\ ~(Current(g).do \in {"lock", "touch"}) /\ Disciplined
  BY DEF IInv
<1>2. /\ Current(g) = Head(todo[g])
      /\ \A V, Q, s : Conf(V, Q, s) \in After(Writing(g), ReadBy(g), todo[g]) =>
                         Leads(Takes(g), V, Q, s, {}, {})
  BY <1>1, Onward
<1>3. Conf(Writing(g), ReadBy(g), Tail(todo[g])) \in After(Writing(g), ReadBy(g), todo[g])
  BY <1>2, AfterFacts
<1>4. Leads(Takes(g), Writing(g), ReadBy(g), Tail(todo[g]), {}, {})
  BY <1>2, <1>3
<1> QED
  BY <1>1, <1>4, QuietOK

\* Steps that leave the locks alone: the rest of the program keeps to the rules.
LEMMA LaunchOK ==
    ASSUME IInv, NEW g \in Goroutine, Launch(g)
    PROVE  IInv'
<1>1. alive' \subseteq Routine \cup Worker
  BY DEF Launch, IInv, TypeOK
<1>2. /\ Current(g).do \in {"launch", "join", "wait", "delete"}
      /\ locks' = locks /\ Continue(g, Tail(todo[g]))
  BY DEF Launch
<1> QED
  BY <1>1, <1>2, PassOK

\* Join ends a wait for routines or workers.
LEMMA JoinOK ==
    ASSUME IInv, NEW g \in Goroutine, Join(g)
    PROVE  IInv'
<1>1. /\ Current(g).do \in {"launch", "join", "wait", "delete"}
      /\ locks' = locks /\ alive' \subseteq Routine \cup Worker /\ Continue(g, Tail(todo[g]))
  BY DEF Join, IInv, TypeOK
<1> QED
  BY <1>1, PassOK

\* Delete removes the peer, which no program asks for later but in a loop.
LEMMA DeleteOK ==
    ASSUME IInv, NEW g \in Goroutine, Delete(g)
    PROVE  IInv'
<1>1. /\ Current(g).do \in {"launch", "join", "wait", "delete"}
      /\ locks' = locks /\ alive' \subseteq Routine \cup Worker /\ Continue(g, Tail(todo[g]))
  BY DEF Delete, IInv, TypeOK
<1> QED
  BY <1>1, PassOK

\* <<>> before a sequence.
LEMMA NothingBefore ==
    ASSUME IInv, NEW g \in Goroutine, todo[g] # <<>>
    PROVE  <<>> \o Tail(todo[g]) = Tail(todo[g])
<1>1. Leads(Takes(g), Writing(g), ReadBy(g), todo[g], {}, {})
  BY DEF IInv, Disciplined
<1>2. PICK I : \E X : Closed(Takes(g), I, X, {}, {}) /\ Conf(Writing(g), ReadBy(g), todo[g]) \in X
  BY <1>1 DEF Leads
<1>3. todo[g] \in Seq(I)
  BY <1>2 DEF Closed, Conf
<1> QED
  BY SMT, <1>3

\* The body of a loop comes before the rest, or is left out.
LEMMA LoopOK ==
    ASSUME IInv, NEW g \in Goroutine, Loop(g)
    PROVE  IInv'
<1> DEFINE s == (IF present THEN Current(g).on ELSE <<>>) \o Tail(todo[g])
<1>1. /\ locks' = locks /\ alive' \subseteq Routine \cup Worker /\ Continue(g, s)
      /\ Current(g).do = "each" /\ Disciplined
  BY DEF Loop, IInv, TypeOK
<1>2. /\ Current(g) = Head(todo[g])
      /\ \A V, Q, u : Conf(V, Q, u) \in After(Writing(g), ReadBy(g), todo[g]) =>
                         Leads(Takes(g), V, Q, u, {}, {})
  BY <1>1, Onward
<1>3. /\ Conf(Writing(g), ReadBy(g), Tail(todo[g])) \in After(Writing(g), ReadBy(g), todo[g])
      /\ Conf(Writing(g), ReadBy(g), Current(g).on \o Tail(todo[g]))
            \in After(Writing(g), ReadBy(g), todo[g])
  BY <1>1, <1>2, AfterFacts
<1>4. s = Tail(todo[g]) \/ s = Current(g).on \o Tail(todo[g])
  <2>1. todo[g] # <<>>
    BY <1>1 DEF Current
  <2> QED
    BY <2>1, NothingBefore
<1>5. Leads(Takes(g), Writing(g), ReadBy(g), s, {}, {})
  BY <1>2, <1>3, <1>4
<1>6. ~(Current(g).do \in {"lock", "touch"})
  BY <1>1
<1> HIDE DEF s
<1> QED
  BY <1>1, <1>5, <1>6, QuietOK

\* Stop may still have its wait and the lock of the handshake before it.
LEMMA HaltOK ==
    ASSUME IInv, NEW g \in Goroutine, Halt(g)
    PROVE  IInv'
<1> DEFINE s == (IF running THEN Stopping ELSE <<>>) \o Tail(todo[g])
<1>1. /\ locks' = locks /\ alive' \subseteq Routine \cup Worker /\ Continue(g, s)
      /\ Current(g).do = "halt" /\ Disciplined
  BY DEF Halt, IInv, TypeOK, Stopping
<1>2. /\ Current(g) = Head(todo[g])
      /\ \A V, Q, u : Conf(V, Q, u) \in After(Writing(g), ReadBy(g), todo[g]) =>
                         Leads(Takes(g), V, Q, u, {}, {})
  BY <1>1, Onward
<1>3. /\ Conf(Writing(g), ReadBy(g), Tail(todo[g])) \in After(Writing(g), ReadBy(g), todo[g])
      /\ Conf(Writing(g), ReadBy(g), Stopping \o Tail(todo[g]))
            \in After(Writing(g), ReadBy(g), todo[g])
  BY <1>1, <1>2, AfterFacts
<1>4. s = Tail(todo[g]) \/ s = Stopping \o Tail(todo[g])
  <2>1. todo[g] # <<>>
    BY <1>1 DEF Current
  <2> QED
    BY <2>1, NothingBefore
<1>5. Leads(Takes(g), Writing(g), ReadBy(g), s, {}, {})
  BY <1>2, <1>3, <1>4
<1>6. ~(Current(g).do \in {"lock", "touch"})
  BY <1>1
<1> HIDE DEF s
<1> QED
  BY <1>1, <1>5, <1>6, QuietOK

\* A routine or worker that returns has nothing left to do, and so no lock.
LEMMA ExitOK ==
    ASSUME IInv, NEW g \in Goroutine, Exit(g)
    PROVE  IInv'
<1>1. locks' = locks /\ todo' = todo /\ alive' \subseteq alive
  BY DEF Exit
<1>2. \A h : Writing(h)' = Writing(h) /\ ReadBy(h)' = ReadBy(h) /\ Current(h)' = Current(h)
  BY <1>1 DEF Writing, ReadBy, Current
<1>3. TypeOK' /\ RoutinesOK'
  BY <1>1 DEF IInv, TypeOK, RoutinesOK
<1>4. Disciplined'
  BY <1>1, <1>2 DEF IInv, Disciplined
<1>5. PendingOK'
  BY <1>1, <1>2 DEF IInv, PendingOK
<1> QED
  BY <1>3, <1>4, <1>5 DEF IInv

\* j is k but for the fields of l.
Edited(j, k, l, w, r, p) ==
    /\ j \in Mutexes
    /\ j[l].writer = w /\ j[l].readers = r /\ j[l].pending = p
    /\ \A m \in Lock : m # l => j[m] = k[m]

\* A change of one field.
LEMMA EditWriter ==
    ASSUME NEW k \in Mutexes, NEW l \in Lock, NEW w \in Goroutine \cup {Nil}
    PROVE  Edited([k EXCEPT ![l].writer = w], k, l, w, k[l].readers, k[l].pending)
BY SMT DEF Mutexes, Edited

\* One field of one lock is changed.
LEMMA EditReaders ==
    ASSUME NEW k \in Mutexes, NEW l \in Lock, NEW r \in SUBSET Goroutine
    PROVE  Edited([k EXCEPT ![l].readers = r], k, l, k[l].writer, r, k[l].pending)
BY SMT DEF Mutexes, Edited

\* The same for the announced writer.
LEMMA EditPending ==
    ASSUME NEW k \in Mutexes, NEW l \in Lock, NEW p \in Goroutine \cup {Nil}
    PROVE  Edited([k EXCEPT ![l].pending = p], k, l, k[l].writer, k[l].readers, p)
BY SMT DEF Mutexes, Edited

\* The changes of the actions.
LEMMA EditAcquired ==
    ASSUME NEW k \in Mutexes, NEW l \in Lock, NEW w \in Goroutine \cup {Nil}
    PROVE  Edited([k EXCEPT ![l].writer = w, ![l].pending = Nil], k, l, w, k[l].readers, Nil)
<1> DEFINE h == [k EXCEPT ![l].writer = w]
<1>1. Edited(h, k, l, w, k[l].readers, k[l].pending)
  BY EditWriter
<1>2. [k EXCEPT ![l].writer = w, ![l].pending = Nil] = [h EXCEPT ![l].pending = Nil]
  BY SMT
<1> HIDE DEF h
<1>3. Edited([h EXCEPT ![l].pending = Nil], h, l, h[l].writer, h[l].readers, Nil)
  <2>1. h \in Mutexes /\ Nil \in Goroutine \cup {Nil}
    BY <1>1 DEF Edited
  <2> QED
    BY <2>1, EditPending
<1> QED
  BY <1>1, <1>2, <1>3 DEF Edited

\* Release changes two fields of one lock.
LEMMA EditReleased ==
    ASSUME NEW k \in Mutexes, NEW l \in Lock, NEW g \in Goroutine
    PROVE  Edited([k EXCEPT ![l].writer = IF @ = g THEN Nil ELSE @, ![l].readers = @ \ {g}],
                  k, l, IF k[l].writer = g THEN Nil ELSE k[l].writer, k[l].readers \ {g},
                  k[l].pending)
<1> DEFINE w == IF k[l].writer = g THEN Nil ELSE k[l].writer
           r == k[l].readers \ {g}
           h == [k EXCEPT ![l].writer = w]
<1>0. w \in Goroutine \cup {Nil} /\ r \in SUBSET Goroutine
  BY SMT DEF Mutexes
<1>1. Edited(h, k, l, w, k[l].readers, k[l].pending)
  BY <1>0, EditWriter
<1>2. [k EXCEPT ![l].writer = IF @ = g THEN Nil ELSE @, ![l].readers = @ \ {g}]
         = [h EXCEPT ![l].readers = r]
  BY SMT DEF Mutexes
<1> HIDE DEF h, w, r
<1>3. Edited([h EXCEPT ![l].readers = r], h, l, h[l].writer, r, h[l].pending)
  <2>1. h \in Mutexes
    BY <1>1 DEF Edited
  <2> QED
    BY <1>0, <2>1, EditReaders
<1>4. Edited([h EXCEPT ![l].readers = r], k, l, w, r, k[l].pending)
  BY <1>1, <1>3 DEF Edited
<1> QED
  BY <1>2, <1>4 DEF w, r
\* The lock that a goroutine is about to take.
LEMMA WantedFacts ==
    ASSUME Disciplined, NEW g \in Goroutine,
           Current(g).do \in {"lock", "rlock", "touch", "peek"}
    PROVE  /\ MayTake(Takes(g), Writing(g), ReadBy(g), Current(g).on)
           /\ Current(g).on \in Takes(g) /\ Current(g).on \in Lock
           /\ Current(g).do \in {"rlock", "peek"} => Current(g).on # "routines"
<1>1. Current(g).do # "idle"
  OBVIOUS
<1>2. PICK I : Allowed(Takes(g), I, Writing(g), ReadBy(g), Current(g))
  BY <1>1, Onward
<1>3. /\ MayTake(Takes(g), Writing(g), ReadBy(g), Current(g).on)
      /\ Current(g).do \in {"rlock", "peek"} => Current(g).on # "routines"
  BY <1>2 DEF Allowed
<1>4. Current(g).on \in Takes(g)
  BY <1>3 DEF MayTake
<1> QED
  BY <1>3, <1>4, TakesLocks

\* Others are where they were.
LEMMA OthersStay ==
    ASSUME IInv, NEW g \in Goroutine, NEW s, Continue(g, s)
    PROVE  \A h \in Goroutine : h # g => Current(h)' = Current(h)
<1>1. \A h \in Goroutine : h # g => todo'[h] = todo[h]
  BY SMT DEF IInv, TypeOK, Continue
<1> QED
  BY <1>1 DEF Current

\* The locks a goroutine has after a change of l.
LEMMA WritingSame ==
    ASSUME NEW l \in Lock, NEW w, NEW r, NEW p, Edited(locks', locks, l, w, r, p), NEW h,
           w = h <=> locks[l].writer = h
    PROVE  Writing(h)' = Writing(h)
<1>1. /\ locks'[l].writer = w /\ locks'[l].readers = r
      /\ \A m \in Lock : m # l => locks'[m] = locks[m]
  BY DEF Edited
<1> QED
  BY <1>1 DEF Writing

\* What a goroutine has exclusively, or shares, after one lock has changed.
LEMMA WritingMore ==
    ASSUME NEW l \in Lock, NEW w, NEW r, NEW p, Edited(locks', locks, l, w, r, p), NEW h,
           w = h
    PROVE  Writing(h)' = Writing(h) \cup {l}
<1>1. /\ locks'[l].writer = w /\ locks'[l].readers = r
      /\ \A m \in Lock : m # l => locks'[m] = locks[m]
  BY DEF Edited
<1> QED
  BY <1>1 DEF Writing

\* A lock that it does not have exclusively afterwards.
LEMMA WritingLess ==
    ASSUME NEW l \in Lock, NEW w, NEW r, NEW p, Edited(locks', locks, l, w, r, p), NEW h,
           w # h
    PROVE  Writing(h)' = Writing(h) \ {l}
<1>1. /\ locks'[l].writer = w /\ locks'[l].readers = r
      /\ \A m \in Lock : m # l => locks'[m] = locks[m]
  BY DEF Edited
<1> QED
  BY <1>1 DEF Writing

\* The locks it shares, if the change is not about it.
LEMMA ReadBySame ==
    ASSUME NEW l \in Lock, NEW w, NEW r, NEW p, Edited(locks', locks, l, w, r, p), NEW h,
           h \in r <=> h \in locks[l].readers
    PROVE  ReadBy(h)' = ReadBy(h)
<1>1. /\ locks'[l].writer = w /\ locks'[l].readers = r
      /\ \A m \in Lock : m # l => locks'[m] = locks[m]
  BY DEF Edited
<1> QED
  BY <1>1 DEF ReadBy

\* A lock that it shares afterwards.
LEMMA ReadByMore ==
    ASSUME NEW l \in Lock, NEW w, NEW r, NEW p, Edited(locks', locks, l, w, r, p), NEW h,
           h \in r
    PROVE  ReadBy(h)' = ReadBy(h) \cup {l}
<1>1. /\ locks'[l].writer = w /\ locks'[l].readers = r
      /\ \A m \in Lock : m # l => locks'[m] = locks[m]
  BY DEF Edited
<1> QED
  BY <1>1 DEF ReadBy

\* A lock that it does not share afterwards.
LEMMA ReadByLess ==
    ASSUME NEW l \in Lock, NEW w, NEW r, NEW p, Edited(locks', locks, l, w, r, p), NEW h,
           h \notin r
    PROVE  ReadBy(h)' = ReadBy(h) \ {l}
<1>1. /\ locks'[l].writer = w /\ locks'[l].readers = r
      /\ \A m \in Lock : m # l => locks'[m] = locks[m]
  BY DEF Edited
<1> QED
  BY <1>1 DEF ReadBy

\* A step that takes or gives back l.
LEMMA MutexOK ==
    ASSUME IInv, NEW g \in Goroutine, NEW l \in Lock, NEW w, NEW r, NEW p,
           Edited(locks', locks, l, w, r, p),
           \A h \in Goroutine : h # g => /\ w = h <=> locks[l].writer = h
                                         /\ h \in r <=> h \in locks[l].readers,
           p = Nil \/ p = locks[l].pending,
           Current(g).do \in {"lock", "touch"} => p = Nil /\ Current(g).on = l,
           l = "routines" => r = {},
           Continue(g, Tail(todo[g])), alive' = alive,
           Leads(Takes(g), Writing(g)', ReadBy(g)', Tail(todo[g]), {}, {})
    PROVE  IInv'
<1>1. \A h \in Goroutine : h # g => Writing(h)' = Writing(h) /\ ReadBy(h)' = ReadBy(h)
  <2> TAKE h \in Goroutine
  <2> HAVE h # g
  <2>1. (w = h <=> locks[l].writer = h) /\ (h \in r <=> h \in locks[l].readers)
    OBVIOUS
  <2> QED
    BY <2>1, WritingSame, ReadBySame
<1>2. Disciplined' /\ todo' = [h \in Goroutine |-> todo'[h]]
  BY <1>1, OthersKeep
<1>3. TypeOK'
  BY <1>2 DEF IInv, TypeOK, Edited
<1>4. PendingOK'
  <2>1. \A h \in Goroutine : h # g => Current(h)' = Current(h)
    BY OthersStay
  <2>2. \A h \in Goroutine, m \in Lock : locks[m].pending = h =>
            Current(h).do \in {"lock", "touch"} /\ Current(h).on = m
    BY DEF IInv, PendingOK
  <2>3. ASSUME NEW h \in Goroutine, NEW m \in Lock, locks'[m].pending = h
        PROVE  Current(h)'.do \in {"lock", "touch"} /\ Current(h)'.on = m
    <3>1. locks[m].pending = h /\ (m = l => p # Nil)
      <4>1. CASE m = l
        BY <2>3, <4>1, LocksAssumption DEF Edited
      <4>2. CASE m # l
        BY <2>3, <4>2 DEF Edited
      <4> QED
        BY <4>1, <4>2
    <3>2. Current(h).do \in {"lock", "touch"} /\ Current(h).on = m
      BY <2>2, <3>1
    <3>3. h # g
      BY <3>1, <3>2
    <3>4. Current(h)' = Current(h)
      BY <2>1, <3>3
    <3> QED
      BY <3>2, <3>4
  <2> QED
    BY <2>3 DEF PendingOK
<1>5. RoutinesOK'
  <2>1. CASE l = "routines"
    BY <2>1 DEF IInv, RoutinesOK, Edited
  <2>2. CASE l # "routines"
    BY <2>2, LockFacts DEF IInv, RoutinesOK, Edited
  <2> QED
    BY <2>1, <2>2
<1> QED
  BY <1>2, <1>3, <1>4, <1>5 DEF IInv

\* A writer announces itself; it has the lock no sooner than before.
LEMMA AnnounceOK ==
    ASSUME IInv, NEW g \in Goroutine, Announce(g)
    PROVE  IInv'
<1> DEFINE l == Current(g).on
<1>1. Current(g).do \in {"lock", "touch"} /\ Disciplined
  BY DEF Announce, IInv
<1>2. l \in Lock
  BY <1>1, WantedFacts
<1>3. Edited(locks', locks, l, locks[l].writer, locks[l].readers, g)
  <2> HIDE DEF l
  <2>1. locks' = [locks EXCEPT ![l].pending = g]
    BY DEF Announce, l
  <2>2. locks \in Mutexes
    BY DEF IInv, TypeOK
  <2> QED
    BY <1>2, <2>1, <2>2, EditPending
<1>4. todo' = todo /\ alive' = alive /\ locks[l].readers # {}
  BY DEF Announce
<1>5. \A h : Writing(h)' = Writing(h) /\ ReadBy(h)' = ReadBy(h) /\ Current(h)' = Current(h)
  <2> HIDE DEF l
  <2>1. \A m \in Lock : locks'[m].writer = locks[m].writer /\ locks'[m].readers = locks[m].readers
    BY <1>2, <1>3 DEF Edited
  <2> QED
    BY <1>4, <2>1 DEF Writing, ReadBy, Current
<1>6. TypeOK'
  BY <1>3, <1>4 DEF IInv, TypeOK, Edited
<1>7. Disciplined'
  BY <1>4, <1>5 DEF IInv, Disciplined
<1>8. PendingOK'
  <2>1. \A h \in Goroutine, m \in Lock : locks[m].pending = h =>
            Current(h).do \in {"lock", "touch"} /\ Current(h).on = m
    BY DEF IInv, PendingOK
  <2>2. \A h \in Goroutine, m \in Lock : locks'[m].pending = h =>
            Current(h).do \in {"lock", "touch"} /\ Current(h).on = m
    <3> TAKE h \in Goroutine, m \in Lock
    <3> HAVE locks'[m].pending = h
    <3>1. CASE m = l
      BY <1>1, <1>3, <3>1 DEF Edited
    <3>2. CASE m # l
      <4>1. locks[m].pending = h
        BY <1>3, <3>2 DEF Edited
      <4> QED
        BY <2>1, <4>1
    <3> QED
      BY <3>1, <3>2
  <2> QED
    BY <1>5, <2>2 DEF PendingOK
<1>9. RoutinesOK'
  <2>1. l # "routines"
    BY <1>4 DEF IInv, RoutinesOK
  <2> HIDE DEF l
  <2> QED
    BY <1>3, <2>1, LockFacts DEF IInv, RoutinesOK, Edited
<1> QED
  BY <1>6, <1>7, <1>8, <1>9 DEF IInv

\* A goroutine gets a lock exclusively, or gets it and lets it go.
LEMMA AcquireOK ==
    ASSUME IInv, NEW g \in Goroutine, Acquire(g)
    PROVE  IInv'
<1> DEFINE do == Current(g).do
           l == Current(g).on
           w == IF do = "lock" THEN g ELSE Nil
<1>1. do \in {"lock", "touch"} /\ Disciplined
  BY DEF Acquire, IInv
<1>2. l \in Lock
  BY <1>1, WantedFacts
<1>3. /\ locks[l].readers = {} /\ locks[l].writer = Nil
      /\ locks' = [locks EXCEPT ![l].writer = w, ![l].pending = Nil]
      /\ Continue(g, Tail(todo[g])) /\ alive' = alive
  BY DEF Acquire
<1>4. locks \in Mutexes /\ w \in Goroutine \cup {Nil}
  BY DEF IInv, TypeOK
<1>5. /\ do = "lock" => w = g
      /\ do # "lock" => w = Nil
  OBVIOUS
<1>6. /\ Current(g) = Head(todo[g])
      /\ \A V, Q, u : Conf(V, Q, u) \in After(Writing(g), ReadBy(g), todo[g]) =>
                         Leads(Takes(g), V, Q, u, {}, {})
  BY <1>1, Onward
<1> DEFINE r == locks[l].readers
<1>7. /\ do = "lock" => Conf(Writing(g) \cup {l}, ReadBy(g), Tail(todo[g]))
                            \in After(Writing(g), ReadBy(g), todo[g])
      /\ do = "touch" => Conf(Writing(g), ReadBy(g), Tail(todo[g]))
                            \in After(Writing(g), ReadBy(g), todo[g])
  BY <1>6, AfterFacts
<1> HIDE DEF w
<1>8. Edited(locks', locks, l, w, r, Nil)
  BY <1>2, <1>3, <1>4, EditAcquired
<1>9. Leads(Takes(g), Writing(g)', ReadBy(g)', Tail(todo[g]), {}, {})
  <2> HIDE DEF l, do, r
  <2>1. g \in r <=> g \in locks[l].readers
    BY DEF r
  <2>2. ReadBy(g)' = ReadBy(g)
    BY <1>2, <1>8, <2>1, ReadBySame
  <2>3. CASE do = "lock"
    <3>1. Writing(g)' = Writing(g) \cup {l}
      BY <1>2, <1>5, <1>8, <2>3, WritingMore
    <3> QED
      BY <1>6, <1>7, <2>2, <2>3, <3>1
  <2>4. CASE do = "touch"
    <3>1. w = g <=> locks[l].writer = g
      BY <1>3, <1>5, <2>4
    <3>2. Writing(g)' = Writing(g)
      BY <1>2, <1>8, <3>1, WritingSame
    <3> QED
      BY <1>6, <1>7, <2>2, <2>4, <3>2
  <2> QED
    BY <1>1, <2>3, <2>4
<1>10. \A h \in Goroutine : h # g => /\ w = h <=> locks[l].writer = h
                                     /\ h \in r <=> h \in locks[l].readers
  BY <1>3, <1>5, LocksAssumption
<1> DEFINE p == Nil
<1>11. /\ Edited(locks', locks, l, w, r, p) /\ p = Nil
       /\ Current(g).do \in {"lock", "touch"} => p = Nil /\ Current(g).on = l
  BY <1>8
<1>12. l = "routines" => r = {}
  BY <1>3
<1>13. Continue(g, Tail(todo[g])) /\ alive' = alive
  BY <1>3
<1> HIDE DEF l, r, p
<1> QED
  BY <1>2, <1>9, <1>10, <1>11, <1>12, <1>13, MutexOK

\* A goroutine gets a lock shared, or gets it and lets it go.
LEMMA AcquireReadOK ==
    ASSUME IInv, NEW g \in Goroutine, AcquireRead(g)
    PROVE  IInv'
<1> DEFINE do == Current(g).do
           l == Current(g).on
           r == locks[l].readers \cup {g}
<1>1. do \in {"rlock", "peek"} /\ Disciplined
  BY DEF AcquireRead, IInv
<1>2. l \in Lock /\ l # "routines"
  BY <1>1, WantedFacts
<1>3. /\ locks' = IF do = "rlock" THEN [locks EXCEPT ![l].readers = @ \cup {g}] ELSE locks
      /\ Continue(g, Tail(todo[g])) /\ alive' = alive
  BY DEF AcquireRead
<1>4. /\ Current(g) = Head(todo[g])
      /\ \A V, Q, u : Conf(V, Q, u) \in After(Writing(g), ReadBy(g), todo[g]) =>
                         Leads(Takes(g), V, Q, u, {}, {})
  BY <1>1, Onward
<1>5. /\ do = "rlock" => Conf(Writing(g), ReadBy(g) \cup {l}, Tail(todo[g]))
                            \in After(Writing(g), ReadBy(g), todo[g])
      /\ do = "peek" => Conf(Writing(g), ReadBy(g), Tail(todo[g]))
                            \in After(Writing(g), ReadBy(g), todo[g])
  BY <1>4, AfterFacts
<1>6. ~(Current(g).do \in {"lock", "touch"})
  BY <1>1
<1>7. CASE do = "rlock"
  <2>1. locks \in Mutexes /\ locks' = [locks EXCEPT ![l].readers = r]
    BY SMT, <1>2, <1>3, <1>7 DEF IInv, TypeOK, Mutexes
  <2>2. r \in SUBSET Goroutine
    BY SMT, <1>2, <2>1 DEF Mutexes
  <2>3. g \in r /\ \A h \in Goroutine : h # g => (h \in r <=> h \in locks[l].readers)
    OBVIOUS
  <2> HIDE DEF l, r, do
  <2>4. Edited(locks', locks, l, locks[l].writer, r, locks[l].pending)
    BY <1>2, <2>1, <2>2, EditReaders
  <2>5. ReadBy(g)' = ReadBy(g) \cup {l}
    BY <1>2, <2>3, <2>4, ReadByMore
  <2>6. Writing(g)' = Writing(g)
    BY <1>2, <2>4, WritingSame
  <2>7. Leads(Takes(g), Writing(g)', ReadBy(g)', Tail(todo[g]), {}, {})
    BY <1>4, <1>5, <1>7, <2>5, <2>6
  <2> QED
    BY <1>2, <1>3, <1>6, <2>3, <2>4, <2>7, MutexOK
<1>8. CASE do = "peek"
  <2>1. locks' = locks /\ alive' \subseteq Routine \cup Worker
    BY <1>3, <1>8 DEF IInv, TypeOK
  <2>2. Leads(Takes(g), Writing(g), ReadBy(g), Tail(todo[g]), {}, {})
    BY <1>4, <1>5, <1>8
  <2> QED
    BY <1>3, <1>6, <2>1, <2>2, QuietOK
<1> QED
  BY <1>1, <1>7, <1>8

\* A goroutine lets go of the one lock that its program unlocks.
LEMMA ReleaseOK ==
    ASSUME IInv, NEW g \in Goroutine, Release(g)
    PROVE  IInv'
<1> DEFINE l == Current(g).on
           w == IF locks[l].writer = g THEN Nil ELSE locks[l].writer
           r == locks[l].readers \ {g}
<1>1. Current(g).do = "unlock" /\ Disciplined
  BY DEF Release, IInv
<1>2. /\ locks' = [locks EXCEPT ![l].writer = IF @ = g THEN Nil ELSE @, ![l].readers = @ \ {g}]
      /\ Continue(g, Tail(todo[g])) /\ alive' = alive
  BY DEF Release
<1>3. /\ Current(g) = Head(todo[g])
      /\ \A V, Q, u : Conf(V, Q, u) \in After(Writing(g), ReadBy(g), todo[g]) =>
                         Leads(Takes(g), V, Q, u, {}, {})
  BY <1>1, Onward
<1>4. Conf(Writing(g) \ {l}, ReadBy(g) \ {l}, Tail(todo[g]))
         \in After(Writing(g), ReadBy(g), todo[g])
  BY <1>1, <1>3, AfterFacts
<1>5. Leads(Takes(g), Writing(g) \ {l}, ReadBy(g) \ {l}, Tail(todo[g]), {}, {})
  BY <1>3, <1>4
<1>6. ~(Current(g).do \in {"lock", "touch"})
  BY <1>1
<1>7. locks \in Mutexes
  BY DEF IInv, TypeOK
<1>8. CASE l \in Lock
  <2>1. /\ w # g /\ g \notin r
        /\ \A h \in Goroutine : h # g => /\ w = h <=> locks[l].writer = h
                                         /\ h \in r <=> h \in locks[l].readers
    <3>1. /\ locks[l].writer = g => w = Nil
          /\ locks[l].writer # g => w = locks[l].writer
      OBVIOUS
    <3> HIDE DEF w
    <3>2. g # Nil /\ \A h \in Goroutine : h # Nil
      BY LocksAssumption
    <3>3. w # g
      BY <3>1, <3>2
    <3>4. \A h \in Goroutine : h # g => (w = h <=> locks[l].writer = h)
      <4>1. CASE locks[l].writer = g
        BY <3>1, <3>2, <4>1
      <4>2. CASE locks[l].writer # g
        BY <3>1, <4>2
      <4> QED
        BY <4>1, <4>2
    <3>5. g \notin r /\ \A h \in Goroutine : h # g => (h \in r <=> h \in locks[l].readers)
      OBVIOUS
    <3> QED
      BY <3>3, <3>4, <3>5
  <2>2. l = "routines" => r = {}
    BY DEF IInv, RoutinesOK
  <2>3. Edited(locks', locks, l, w, r, locks[l].pending)
    <3> HIDE DEF l
    <3> QED
      BY <1>2, <1>7, <1>8, EditReleased
  <2> HIDE DEF l, w, r
  <2>4. Writing(g)' = Writing(g) \ {l} /\ ReadBy(g)' = ReadBy(g) \ {l}
    BY <1>8, <2>1, <2>3, WritingLess, ReadByLess
  <2>5. Leads(Takes(g), Writing(g)', ReadBy(g)', Tail(todo[g]), {}, {})
    BY <1>5, <2>4
  <2> QED
    BY <1>2, <1>6, <1>8, <2>1, <2>2, <2>3, <2>5, MutexOK
<1>9. CASE l \notin Lock
  <2> HIDE DEF l
  <2>1. locks' = locks
    BY SMT, <1>2, <1>7, <1>9 DEF Mutexes
  <2>2. Writing(g) \ {l} = Writing(g) /\ ReadBy(g) \ {l} = ReadBy(g)
    BY <1>9 DEF Writing, ReadBy
  <2>3. Leads(Takes(g), Writing(g), ReadBy(g), Tail(todo[g]), {}, {})
    BY <1>5, <2>2
  <2>4. alive' \subseteq Routine \cup Worker
    BY <1>2 DEF IInv, TypeOK
  <2> QED
    BY <1>2, <1>6, <2>1, <2>3, <2>4, QuietOK
<1> QED
  BY <1>8, <1>9

\* Every step keeps the invariant.
LEMMA NextOK ==
    IInv /\ [Next]_vars => IInv'
<1> SUFFICES ASSUME IInv, [Next]_vars PROVE IInv'
  OBVIOUS
<1>1. CASE Next
  <2>1. PICK g \in Goroutine :
            \/ Begin(g) \/ Choose(g) \/ Loop(g) \/ Exit(g)
            \/ Acquire(g) \/ Announce(g) \/ AcquireRead(g) \/ Release(g)
            \/ Launch(g) \/ Halt(g) \/ Join(g) \/ Delete(g)
    BY <1>1 DEF Next
  <2> QED
    BY <2>1, BeginOK, ChooseOK, LoopOK, ExitOK, AcquireOK, AnnounceOK, AcquireReadOK,
       ReleaseOK, LaunchOK, HaltOK, JoinOK, DeleteOK
<1>2. CASE UNCHANGED vars
  <2>1. \A h : Writing(h)' = Writing(h) /\ ReadBy(h)' = ReadBy(h) /\ Current(h)' = Current(h)
    BY <1>2 DEF vars, Writing, ReadBy, Current
  <2>2. TypeOK' /\ RoutinesOK'
    BY <1>2 DEF vars, IInv, TypeOK, RoutinesOK
  <2>3. Disciplined' /\ PendingOK'
    BY <1>2, <2>1 DEF vars, IInv, Disciplined, PendingOK
  <2> QED
    BY <2>2, <2>3 DEF IInv
<1> QED
  BY <1>1, <1>2

\* Every operation keeps the order of locks, whatever the others do: Spec has the invariant.
THEOREM Invariance == Spec => []IInv
BY InitOK, NextOK, PTL DEF Spec

-----------------------------------------------------------------------------
(* Circular waits.                                                         *)

Wants(g, l) == Current(g).do \in {"lock", "touch", "rlock", "peek"} /\ Current(g).on = l

\* It grows from a goroutine to those it waits for.  Who has announced itself comes after
\* those who wait for the lock only because of that; Peer.Stop comes after those who wait
\* for peer.routines; and Close, which waits for the workers, after those who wait for
\* state.mutex.
Level(g) ==
    CASE Current(g).do = "wait" -> 1
      [] Current(g).do = "join" -> 2 * Rank("routines") + 1
      [] OTHER -> 2 * Rank(Current(g).on) + (IF locks[Current(g).on].pending = g THEN 1 ELSE 0)

\* The levels: waiting for workers is lowest; a pending writer is half a rank above.
LEMMA LevelFacts ==
    ASSUME NEW g
    PROVE  /\ Level(g) \in 0 .. 13
           /\ Current(g).do = "wait" => Level(g) = 1
           /\ Current(g).do = "join" => Level(g) = 11
           /\ \A l : Wants(g, l) =>
                 /\ locks[l].pending = g => Level(g) = 2 * Rank(l) + 1
                 /\ locks[l].pending # g => Level(g) = 2 * Rank(l)
<1> DEFINE do == Current(g).do
           on == Current(g).on
           n == Rank(on)
           p == IF locks[on].pending = g THEN 1 ELSE 0
<1>1. n \in 0 .. 6
  BY RankType
<1>2. p \in 0 .. 1
  BY SMT
<1>3. Rank("routines") = 5
  BY SMT DEF Rank
<1>4. /\ do = "wait" => Level(g) = 1
      /\ do = "join" => Level(g) = 2 * Rank("routines") + 1
      /\ do # "wait" /\ do # "join" => Level(g) = 2 * n + p
  BY DEF Level
<1>5. ASSUME NEW l, Wants(g, l)
      PROVE  /\ locks[l].pending = g => Level(g) = 2 * Rank(l) + 1
             /\ locks[l].pending # g => Level(g) = 2 * Rank(l)
  <2>1. do # "wait" /\ do # "join" /\ on = l
    BY <1>5 DEF Wants
  <2>2. Level(g) = 2 * n + p /\ n = Rank(l)
    BY <1>4, <2>1
  <2>3. (locks[l].pending = g => p = 1) /\ (locks[l].pending # g => p = 0)
    BY <2>1
  <2> HIDE DEF n, p
  <2> QED
    BY SMT, <1>1, <2>2, <2>3
<1> HIDE DEF n, p, do
<1>6. Level(g) \in 0 .. 13 /\ (do = "join" => Level(g) = 11)
  BY SMT, <1>1, <1>2, <1>3, <1>4
<1> QED
  BY <1>4, <1>5, <1>6 DEF do

\* What a goroutine waits for, and whom.
LEMMA BlockersFacts ==
    ASSUME IInv, NEW g \in Goroutine, NEW h \in Goroutine, h \in Blockers(g)
    PROVE  \/ \E l \in Lock :
                 /\ Wants(g, l)
                 /\ \/ l \in Writing(h) /\ locks[l].pending # g
                    \/ locks[l].pending = h /\ locks[l].pending # g
                    \/ l \in ReadBy(h) /\ locks[l].pending = g
           \/ Current(g).do = "join" /\ h \in Routine
           \/ Current(g).do = "wait" /\ h \in Worker
<1> DEFINE do == Current(g).do
           l == Current(g).on
<1>1. h # Nil
  BY LocksAssumption
<1>2. CASE do \in {"lock", "touch"}
  <2>1. l \in Lock /\ Wants(g, l)
    BY <1>2, WantedFacts DEF IInv, Wants
  <2>2. Blockers(g) = IF locks[l].pending = g THEN locks[l].readers
                      ELSE {locks[l].writer, locks[l].pending} \ {Nil}
    BY <1>2 DEF Blockers
  <2> HIDE DEF l
  <2>3. \/ locks[l].pending = g /\ h \in locks[l].readers
        \/ locks[l].pending # g /\ (locks[l].writer = h \/ locks[l].pending = h)
    BY <2>2
  <2> QED
    BY <2>1, <2>3 DEF Writing, ReadBy
<1>3. CASE do \in {"rlock", "peek"}
  <2>1. l \in Lock /\ Wants(g, l)
    BY <1>3, WantedFacts DEF IInv, Wants
  <2>2. Blockers(g) = {locks[l].writer, locks[l].pending} \ {Nil}
    BY <1>3 DEF Blockers
  <2>3. locks[l].pending # g
    BY <1>3, <2>1 DEF IInv, PendingOK
  <2> HIDE DEF l
  <2>4. locks[l].writer = h \/ locks[l].pending = h
    BY <2>2
  <2> QED
    BY <2>1, <2>3, <2>4 DEF Writing
<1>4. CASE do = "join"
  BY <1>4 DEF Blockers
<1>5. CASE do = "wait"
  BY <1>5 DEF Blockers
<1>6. CASE ~(do \in {"lock", "touch", "rlock", "peek", "join", "wait"})
  BY <1>6 DEF Blockers
<1> QED
  BY <1>2, <1>3, <1>4, <1>5, <1>6

\* Waiting for routines, and for workers.
LEMMA WaitFacts ==
    ASSUME IInv, NEW g \in Goroutine
    PROVE  /\ Current(g).do = "join" =>
                /\ "routines" \in Takes(g) /\ "routines" \in Writing(g)
                /\ \/ "noise" \in Writing(g)
                   \/ /\ \A m \in Writing(g) : Rank(m) <= Rank("routines")
                      /\ \A m \in ReadBy(g) : Rank(m) < Rank("routines")
           /\ Current(g).do = "wait" =>
                "state" \in Takes(g) /\ Writing(g) = {"state"} /\ ReadBy(g) = {}
<1>1. Disciplined
  BY DEF IInv
<1>2. Current(g).do # "idle" => \E I : Allowed(Takes(g), I, Writing(g), ReadBy(g), Current(g))
  BY <1>1, Onward
<1> QED
  BY <1>2 DEF Allowed

\* The locks of somebody who waits in order.
LEMMA HeldBelow ==
    ASSUME IInv, NEW h \in Goroutine, NEW k \in Goroutine, k \in Blockers(h),
           \A l : Wants(h, l) => InOrder(Writing(h), ReadBy(h), l),
           Current(h).do = "join" => "noise" \notin Writing(h),
           NEW l \in Lock, l \in Writing(h) \/ l \in ReadBy(h)
    PROVE  \/ 2 * Rank(l) + 1 < Level(h)
           \/ l = "routines" /\ Level(h) = 11
           \/ l = "state" /\ Level(h) = 1 /\ l \notin ReadBy(h)
<1>1. \/ \E m \in Lock : Wants(h, m)
      \/ Current(h).do = "join"
      \/ Current(h).do = "wait"
  BY BlockersFacts
<1>2. CASE \E m \in Lock : Wants(h, m)
  <2>1. PICK m \in Lock : Wants(h, m)
    BY <1>2
  <2>2. Rank(l) < Rank(m)
    BY <2>1 DEF InOrder
  <2>3. Level(h) = 2 * Rank(m) + 1 \/ Level(h) = 2 * Rank(m)
    BY <2>1, LevelFacts
  <2>4. Rank(l) \in 0 .. 6 /\ Rank(m) \in 0 .. 6
    BY RankType
  <2> QED
    BY SMT, <2>2, <2>3, <2>4
<1>3. CASE Current(h).do = "join"
  <2>1. Level(h) = 11
    BY <1>3, LevelFacts
  <2>2. Rank(l) <= Rank("routines")
    <3>1. \A m : Rank(m) < Rank("routines") => Rank(m) <= Rank("routines")
      BY SMT, RankType
    <3> QED
      BY <1>3, <3>1, WaitFacts
  <2>3. l = "routines" \/ 2 * Rank(l) + 1 < 11
    BY SMT, <2>2 DEF Rank, Lock
  <2> QED
    BY <2>1, <2>3
<1>4. CASE Current(h).do = "wait"
  BY <1>4, WaitFacts, LevelFacts
<1> QED
  BY <1>1, <1>2, <1>3, <1>4

\* From a goroutine to one it waits for, and which waits in order, the level grows.
LEMMA LevelGrows ==
    ASSUME IInv, NEW g \in Goroutine, NEW h \in Goroutine, NEW k \in Goroutine,
           h \in Blockers(g), k \in Blockers(h),
           \A l : Wants(h, l) => InOrder(Writing(h), ReadBy(h), l),
           Current(h).do = "join" => "noise" \notin Writing(h),
           Current(g).do = "join" => ~Wants(h, "noise") /\ ~Wants(h, "net")
    PROVE  Level(g) < Level(h)
<1>1. \/ \E m \in Lock : Wants(h, m)
      \/ Current(h).do = "join"
      \/ Current(h).do = "wait"
  BY BlockersFacts
<1>2. ASSUME NEW l \in Lock, Wants(g, l), l \in Writing(h), locks[l].pending # g
      PROVE  Level(g) < Level(h)
  <2>1. Level(g) = 2 * Rank(l) /\ Rank(l) \in 0 .. 6
    BY <1>2, LevelFacts, RankType
  <2>2. \/ 2 * Rank(l) + 1 < Level(h)
        \/ l = "routines" /\ Level(h) = 11
        \/ l = "state" /\ Level(h) = 1
    BY <1>2, HeldBelow
  <2>3. Level(h) \in 0 .. 13
    BY LevelFacts
  <2> QED
    BY SMT, <2>1, <2>2, <2>3 DEF Rank
<1>3. ASSUME NEW l \in Lock, Wants(g, l), locks[l].pending = h, locks[l].pending # g
      PROVE  Level(g) < Level(h)
  <2>1. Wants(h, l)
    BY <1>3 DEF IInv, PendingOK, Wants
  <2>2. Level(g) = 2 * Rank(l) /\ Level(h) = 2 * Rank(l) + 1 /\ Rank(l) \in 0 .. 6
    BY <1>3, <2>1, LevelFacts, RankType
  <2> QED
    BY SMT, <2>2
<1>4. ASSUME NEW l \in Lock, Wants(g, l), l \in ReadBy(h), locks[l].pending = g
      PROVE  Level(g) < Level(h)
  <2>1. Level(g) = 2 * Rank(l) + 1
    BY <1>4, LevelFacts
  <2>2. l # "routines"
    BY <1>4, LocksAssumption DEF IInv, RoutinesOK
  <2>3. 2 * Rank(l) + 1 < Level(h)
    BY <1>4, <2>2, HeldBelow
  <2> QED
    BY <2>1, <2>3
<1>5. ASSUME Current(g).do = "join", h \in Routine
      PROVE  Level(g) < Level(h)
  <2>1. Takes(h) = Basic
    BY <1>5 DEF Takes
  <2>2. "routines" \notin Takes(h) /\ "state" \notin Takes(h)
    BY <2>1 DEF Basic
  <2>3. PICK m \in Lock : Wants(h, m)
    BY <1>1, <2>2, WaitFacts
  <2>4. m \in Basic
    BY <2>1, <2>3, WantedFacts DEF IInv, Wants
  <2>5. m # "noise" /\ m # "net"
    BY <1>5, <2>3
  <2>6. m = "peer" \/ m = "handshake"
    BY <2>4, <2>5 DEF Basic
  <2>7. Rank(m) = 6
    BY SMT, <2>6 DEF Rank
  <2>8. Level(h) = 2 * Rank(m) + 1 \/ Level(h) = 2 * Rank(m)
    BY <2>3, LevelFacts
  <2>9. Level(g) = 11
    BY <1>5, LevelFacts
  <2> QED
    BY SMT, <2>7, <2>8, <2>9
<1>6. ASSUME Current(g).do = "wait", h \in Worker
      PROVE  Level(g) < Level(h)
  <2>1. h \notin Routine
    BY <1>6, LocksAssumption DEF Routine, Single
  <2>2. Takes(h) = Basic \cup {"peers"}
    BY <1>6, <2>1 DEF Takes
  <2>3. "routines" \notin Takes(h) /\ "state" \notin Takes(h)
    BY <2>2 DEF Basic
  <2>4. PICK m \in Lock : Wants(h, m)
    BY <1>1, <2>3, WaitFacts
  <2>5. m \in Takes(h)
    BY <2>4, WantedFacts DEF IInv, Wants
  <2>6. m # "state"
    BY <2>3, <2>5
  <2>7. Rank(m) \in 1 .. 6
    BY SMT, <2>6 DEF Rank, Lock
  <2>8. Level(h) = 2 * Rank(m) + 1 \/ Level(h) = 2 * Rank(m)
    BY <2>4, LevelFacts
  <2>9. Level(g) = 1
    BY <1>6, LevelFacts
  <2> QED
    BY SMT, <2>7, <2>8, <2>9
<1> QED
  BY <1>2, <1>3, <1>4, <1>5, <1>6, BlockersFacts

\* Levels do not grow for ever.
LEMMA LevelsEnd ==
    ASSUME NEW T, T \subseteq 0 .. 13, T # {}, \A x \in T : \E y \in T : x < y
    PROVE  FALSE
<1> DEFINE D == {n \in Nat : \E x \in T : n = 13 - x}
<1>1. D \subseteq Nat /\ D # {}
  <2>1. PICK x : x \in T
    OBVIOUS
  <2>2. 13 - x \in Nat
    BY SMT, <2>1
  <2>3. 13 - x \in D
    BY <2>1, <2>2
  <2> QED
    BY <2>3
<1>2. PICK n \in D : \A m \in D : ~ (<<m, n>> \in OpToRel(<, Nat))
  <2> DEFINE R == OpToRel(<, Nat)
  <2>1. IsWellFoundedOn(R, Nat)
    BY NatLessThanWellFounded
  <2> HIDE DEF R, D
  <2>2. \E x \in D : \A y \in D : ~ (<<y, x>> \in R)
    BY <1>1, <2>1, WFMin
  <2> QED
    BY <2>2 DEF R
<1>3. \A m \in D : ~(m < n)
  BY SMT, <1>2 DEF OpToRel
<1>4. PICK x \in T : n = 13 - x
  OBVIOUS
<1>5. PICK y \in T : x < y
  OBVIOUS
<1>6. 13 - y \in D /\ 13 - y < 13 - x
  BY SMT, <1>5
<1> QED
  BY <1>3, <1>4, <1>6

\* The members of a circular wait.
LEMMA CircleFacts ==
    ASSUME NEW S \in CircularWaits
    PROVE  /\ S # {} /\ \A g \in S : g \in Goroutine
           /\ \A g \in S : \E h \in S : h \in Blockers(g)
BY DEF CircularWaits

\* A circular wait has an exception.
LEMMA NoOrderlyCircle ==
    ASSUME IInv, NEW S \in CircularWaits,
           \A h \in S, l \in Lock : Wants(h, l) => InOrder(Writing(h), ReadBy(h), l),
           \A h \in S : Current(h).do = "join" => "noise" \notin Writing(h),
           \A g, h \in S : Current(g).do = "join" => ~Wants(h, "noise") /\ ~Wants(h, "net")
    PROVE  FALSE
<1> DEFINE T == {Level(g) : g \in S}
<1>1. /\ S # {} /\ \A g \in S : g \in Goroutine
      /\ \A g \in S : \E h \in S : h \in Blockers(g)
  BY CircleFacts
<1>2. T \subseteq 0 .. 13 /\ T # {}
  <2>1. \A g : Level(g) \in 0 .. 13
    BY LevelFacts
  <2> QED
    BY <1>1, <2>1
<1>3. ASSUME NEW g \in S
      PROVE  \E h \in S : Level(g) < Level(h)
  <2>1. PICK h \in S : h \in Blockers(g)
    BY <1>1
  <2>2. PICK k \in S : k \in Blockers(h)
    BY <1>1
  <2>3. g \in Goroutine /\ h \in Goroutine /\ k \in Goroutine
    BY <1>1
  <2>4. \A l : Wants(h, l) => InOrder(Writing(h), ReadBy(h), l)
    <3> TAKE l
    <3> HAVE Wants(h, l)
    <3>1. l \in Lock
      BY <2>3, WantedFacts DEF Wants, IInv
    <3> QED
      BY <3>1
  <2>5. Level(g) < Level(h)
    BY <2>1, <2>2, <2>3, <2>4, LevelGrows
  <2> QED
    BY <2>5
<1>4. \A x \in T : \E y \in T : x < y
  BY <1>3
<1> HIDE DEF T
<1> QED
  BY <1>2, <1>4, LevelsEnd

\* A goroutine only asks for a lock that comes after all it has, unless it consumes a
\* response or stops a peer under noise.mutex.
LockOrder ==
    \A g \in Goroutine, l \in Lock :
        Wants(g, l) => InOrder(Writing(g), ReadBy(g), l) \/ Excepted(Writing(g), ReadBy(g), l)

\* The order of locks holds in every state, for all operations of goroutines of any number.
THEOREM LocksInOrder == Spec => []LockOrder
<1>1. IInv => LockOrder
  <2> SUFFICES ASSUME IInv, NEW g \in Goroutine, NEW l \in Lock, Wants(g, l)
               PROVE  InOrder(Writing(g), ReadBy(g), l) \/ Excepted(Writing(g), ReadBy(g), l)
    BY DEF LockOrder
  <2>1. MayTake(Takes(g), Writing(g), ReadBy(g), Current(g).on) /\ Current(g).on = l
    BY WantedFacts DEF IInv, Wants
  <2> QED
    BY <2>1 DEF MayTake
<1> QED
  BY <1>1, Invariance, PTL

\* Every circular wait has a goroutine that changes keys, peers or sockets.  Without one,
\* nobody in it waits for noise.mutex or net.mutex, and all wait in order.
THEOREM ChangesTakePart == Spec => []CircularWaitsChange
<1>1. IInv => CircularWaitsChange
  <2> SUFFICES ASSUME IInv, NEW S \in CircularWaits,
                      \A g \in S : ~Writes(g, "noise") /\ ~Writes(g, "net")
               PROVE  FALSE
    BY DEF CircularWaitsChange
  <2>1. /\ \A g \in S : g \in Goroutine
        /\ \A g \in S : \E h \in S : h \in Blockers(g)
    BY CircleFacts
  <2>2. \A g \in S : "noise" \notin Writing(g)
    BY DEF Writes, Writing
  <2>3. ASSUME NEW g \in S, NEW m \in {"noise", "net"}
        PROVE  ~Wants(g, m)
    <3> SUFFICES ASSUME Wants(g, m) PROVE FALSE
      OBVIOUS
    <3>1. PICK h \in S : h \in Blockers(g)
      BY <2>1
    <3>2. \E l \in Lock : /\ Wants(g, l)
                          /\ \/ l \in Writing(h)
                             \/ locks[l].pending = h
                             \/ locks[l].pending = g
      <4>1. Current(g).do # "join" /\ Current(g).do # "wait"
        BY DEF Wants
      <4> QED
        BY <2>1, <3>1, <4>1, BlockersFacts
    <3>3. locks[m].writer = h \/ locks[m].pending = h \/ locks[m].pending = g
      BY <3>2 DEF Wants, Writing
    <3>4. Writes(h, m) \/ Writes(g, m)
      BY <3>3 DEF Writes
    <3> QED
      BY <3>4
  <2>4. ASSUME NEW h \in S, NEW l \in Lock, Wants(h, l)
        PROVE  InOrder(Writing(h), ReadBy(h), l)
    <3>1. MayTake(Takes(h), Writing(h), ReadBy(h), l)
      BY <2>1, <2>4, WantedFacts DEF IInv, Wants
    <3>2. l # "noise"
      BY <2>3, <2>4
    <3> QED
      BY <2>2, <3>1, <3>2 DEF MayTake, Excepted
  <2>5. \A h \in S : ~Wants(h, "noise") /\ ~Wants(h, "net")
    BY <2>3
  <2> QED
    BY <2>2, <2>4, <2>5, NoOrderlyCircle
<1> QED
  BY <1>1, Invariance, PTL

\* Every circular wait has a goroutine that stops the peer, or one that consumes a response
\* and asks for the private key.  The only other exception is to ask for peer.routines; who
\* waits for that waits for somebody that stops or starts the peer.
THEOREM WaitsAreExplained == Spec => []CircularWaitsExplained
<1>1. IInv => CircularWaitsExplained
  <2> SUFFICES ASSUME IInv, NEW S \in CircularWaits,
                      \A g \in S : /\ locks["routines"].writer # g
                                   /\ ~(g \in locks["handshake"].readers /\ Current(g).on = "noise")
               PROVE  FALSE
    BY DEF CircularWaitsExplained
  <2>1. /\ \A g \in S : g \in Goroutine
        /\ \A g \in S : \E h \in S : h \in Blockers(g)
    BY CircleFacts
  <2>2. \A g \in S : "routines" \notin Writing(g)
    BY DEF Writing
  <2>3. \A g \in S : Current(g).do # "join"
    BY <2>1, <2>2, WaitFacts
  <2>4. ASSUME NEW g \in S, Wants(g, "routines")
        PROVE  FALSE
    <3>1. PICK h \in S : h \in Blockers(g)
      BY <2>1
    <3>2. Current(g).do # "wait" /\ g # Nil /\ h # Nil
      BY <2>1, <2>4, LocksAssumption DEF Wants
    <3>3. PICK l \in Lock : /\ Wants(g, l)
                            /\ \/ l \in Writing(h)
                               \/ locks[l].pending = h
                               \/ locks[l].pending = g
      BY <2>1, <2>3, <3>1, <3>2, BlockersFacts
    <3>4. l = "routines"
      BY <2>4, <3>3 DEF Wants
    <3> QED
      BY <2>2, <3>2, <3>3, <3>4 DEF IInv, RoutinesOK
  <2>5. ASSUME NEW h \in S, NEW l \in Lock, Wants(h, l)
        PROVE  InOrder(Writing(h), ReadBy(h), l)
    <3>1. MayTake(Takes(h), Writing(h), ReadBy(h), l)
      BY <2>1, <2>5, WantedFacts DEF IInv, Wants
    <3>2. l # "routines"
      BY <2>4, <2>5
    <3>3. ~("handshake" \in ReadBy(h) /\ l = "noise")
      BY <2>5 DEF ReadBy, Wants
    <3> QED
      BY <2>2, <3>1, <3>2, <3>3 DEF MayTake, Excepted
  <2> QED
    BY <2>3, <2>5, NoOrderlyCircle
<1> QED
  BY <1>1, Invariance, PTL

=============================================================================
