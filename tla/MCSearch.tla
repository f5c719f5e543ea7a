------------------------------ MODULE MCSearch ------------------------------
(* Small instances of Search for TLC. *)
EXTENDS Search, Bitwise, TLC

(* Ids are numbers and distance is xor. *)
MCDist == [t \in Targets |-> [p \in Peers |-> t ^^ p]]

(* With a single peer all distances may be the same, and the targets are interchangeable. *)
OnePeerDist == [t \in Targets |-> [p \in Peers |-> 1]]
TargetSymmetry == Permutations(Targets)
=============================================================================
