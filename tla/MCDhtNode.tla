----------------------------- MODULE MCDhtNode -----------------------------
(* DhtNode for TLC: hashes and peers are interchangeable. *)
EXTENDS DhtNode, TLC

Interchangeable == Permutations(Hash) \cup Permutations(Peer)
=============================================================================
