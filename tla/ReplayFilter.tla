----------------------------- MODULE ReplayFilter -----------------------------
(* The sliding window of RFC 6479 as replay.go implements it: a ring of    *)
(* words, one bit per counter, cleared word by word as the window moves.   *)
EXTENDS Naturals

CONSTANTS WordSize,      \* CounterRedundantBits: bits of a word
          BacktrackWords,
          WindowSize,    \* CounterWindowSize
          RejectAfter,   \* RejectAfterMessages
          Counter        \* counters that arrive in transport messages

VARIABLES counter,       \* filter.counter
          backtrack,     \* filter.backtrack, each word as the set of its 1-bits
          accepted,      \* history: the counters found valid since Init
          verdict        \* the last result

filterVars == <<counter, backtrack, accepted, verdict>>

\* The window and one word more fit in the ring.  The code has words of 64 bits,
\* a window of 2048 - 64, and 2048 / 8 words (of 32 bits: 2048 - 32 and 2048 / 4).
ASSUME FilterAssumption ==
    /\ WordSize \in Nat \ {0} /\ BacktrackWords \in Nat \ {0}
    /\ WindowSize \in Nat /\ RejectAfter \in Nat
    /\ Counter \subseteq Nat
    /\ WindowSize + WordSize <= WordSize * BacktrackWords

Word(c) == c \div WordSize

Bit(c) == c % WordSize

Slot(w) == w % BacktrackWords

Ring == 0..(BacktrackWords - 1)

\* mutant: the loop stops one word early
AdvancedShort(from, to) ==
    LET diff == IF to - from < BacktrackWords THEN to - from ELSE BacktrackWords IN
    [x \in Ring |-> IF \E i \in 1..(diff - 1) : x = Slot(from + i) THEN {} ELSE backtrack[x]]

\* The ring after the window has moved from word from to word to.
Advanced(from, to) ==
    LET diff == IF to - from < BacktrackWords THEN to - from ELSE BacktrackWords IN
    [x \in Ring |-> IF \E i \in 1..diff : x = Slot(from + i) THEN {} ELSE backtrack[x]]

BehindEarly(c) == c <= counter /\ counter - c >= WindowSize        \* mutant: off by one

Behind(c) == c <= counter /\ counter - c > WindowSize

\* The counter is set, and valid if it was not set before.
CheckAndSet(c, ring) ==
    LET w == Slot(Word(c))
        valid == Bit(c) \notin ring[w]
    IN
    /\ backtrack' = [ring EXCEPT ![w] = @ \cup {Bit(c)}]
    /\ verdict' = [counter |-> c, valid |-> valid]
    /\ accepted' = IF valid THEN accepted \cup {c} ELSE accepted

ValidateCounter(c) ==
    \/ /\ c >= RejectAfter \/ Behind(c)
       /\ verdict' = [counter |-> c, valid |-> FALSE]
       /\ UNCHANGED <<counter, backtrack, accepted>>
    \/ /\ c < RejectAfter /\ c > counter
       /\ counter' = c
       /\ CheckAndSet(c, Advanced(Word(counter), Word(c)))
    \/ /\ c < RejectAfter /\ c <= counter /\ ~Behind(c)
       /\ counter' = counter
       /\ CheckAndSet(c, backtrack)

\* A new filter is all zero.
FilterInit ==
    /\ counter = 0
    /\ backtrack = [x \in Ring |-> {}]
    /\ accepted = {}
    /\ verdict = [counter |-> 0, valid |-> FALSE]

\* ReplayFilter.Init on a filter that may have been used: one word is enough.
Reset ==
    /\ counter' = 0
    /\ backtrack' = [backtrack EXCEPT ![0] = {}]
    /\ accepted' = {}
    /\ verdict' = [counter |-> 0, valid |-> FALSE]

FilterNext == Reset \/ \E c \in Counter : ValidateCounter(c)

FilterSpec == FilterInit /\ [][FilterNext]_filterVars

-----------------------------------------------------------------------------
(* Properties.                                                             *)

\* The filter is a counter and a ring of words (type ReplayFilter).
FilterTypeOK ==
    /\ counter \in Nat
    /\ backtrack \in [Ring -> SUBSET (0..(WordSize - 1))]
    /\ accepted \subseteq Nat
    /\ verdict \in [counter : Nat, valid : BOOLEAN]

\* The words that the ring holds at the moment.
Held(c) == Word(c) <= Word(counter) /\ Word(counter) < Word(c) + BacktrackWords

\* Every bit of the ring is the truth about its counter, for all counters of the
\* words it holds and not only for those in the window: moving the window clears
\* exactly the words that enter the ring.
RingExact ==
    /\ \A c \in accepted : c <= counter
    /\ \A c \in 0..(RejectAfter - 1) :
          Held(c) => (Bit(c) \in backtrack[Slot(Word(c))] <=> c \in accepted)

\* The filter is a replay window: no counter is valid twice, and none that is new
\* and recent is refused, however far the counters jump and wherever words wrap.
Window == INSTANCE ReplayWindow
            WITH highest <- counter, accepted <- accepted, verdict <- verdict

ImplementsWindow == Window!Spec

=============================================================================
