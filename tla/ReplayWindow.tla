----------------------------- MODULE ReplayWindow -----------------------------
(* What a replay filter promises: a counter is valid once, and for as long *)
(* as it is not more than WindowSize behind the highest valid counter.     *)
EXTENDS Naturals

CONSTANTS WindowSize,    \* CounterWindowSize
          RejectAfter,   \* RejectAfterMessages
          Counter        \* counters that arrive in transport messages

VARIABLES highest,       \* the highest valid counter, 0 at first
          accepted,      \* every counter that was valid
          verdict        \* the last result

Recent(c) == c > highest \/ highest - c <= WindowSize

Valid(c) == c < RejectAfter /\ c \notin accepted /\ Recent(c)

ValidateCounter(c) ==
    /\ verdict' = [counter |-> c, valid |-> Valid(c)]
    /\ highest' = IF Valid(c) /\ c > highest THEN c ELSE highest
    /\ accepted' = IF Valid(c) THEN accepted \cup {c} ELSE accepted

Empty == highest = 0 /\ accepted = {} /\ verdict = [counter |-> 0, valid |-> FALSE]

Reset == highest' = 0 /\ accepted' = {} /\ verdict' = [counter |-> 0, valid |-> FALSE]

Next == Reset \/ \E c \in Counter : ValidateCounter(c)

Spec == Empty /\ [][Next]_<<highest, accepted, verdict>>

=============================================================================
