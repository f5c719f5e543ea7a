---------------------------- MODULE MCEventLoop ----------------------------
(* Small instances of EventLoop for TLC. *)
EXTENDS EventLoop, Bitwise

MCDist == [t \in Targets |-> [p \in Peers |-> t ^^ p]]
=============================================================================
