---------------------------- MODULE MCRoutingTable ----------------------------
(* RoutingTable with short addresses.                                      *)
EXTENDS RoutingTable, TLC

CONSTANTS v4, v6

Widths == v4 :> 1 @@ v6 :> 2

=============================================================================
