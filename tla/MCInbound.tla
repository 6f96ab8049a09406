----------------------------- MODULE MCInbound -----------------------------
(* Inbound on a small network: a genuine message, a forged copy of it from *)
(* elsewhere, and a keepalive under another key.                           *)
EXTENDS Inbound

CONSTANTS k1, k2, home, elsewhere

Gram(k, c, g, e, a) ==
    [key |-> k, counter |-> c, genuine |-> g, endpoint |-> e, keepalive |-> a]

Datagrams == {Gram(k1, 0, TRUE, home, FALSE), Gram(k1, 0, FALSE, elsewhere, FALSE),
              Gram(k2, 0, TRUE, home, TRUE)}

=============================================================================
