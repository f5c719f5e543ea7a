--------------------------- MODULE MCRoutingTable ---------------------------
(* Small instances of RoutingTable for TLC. *)
EXTENDS RoutingTable

MCWeight == [p \in 0 .. IdBits |-> 2 ^ (IdBits - p)]
=============================================================================
