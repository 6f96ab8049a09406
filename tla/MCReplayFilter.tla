---------------------------- MODULE MCReplayFilter ----------------------------
(* ReplayFilter with words of two bits.  The ring has exactly one word     *)
(* more than the window needs, and counters can jump past the whole ring.  *)
EXTENDS ReplayFilter

Counters == 0..(RejectAfter + 1)

=============================================================================
