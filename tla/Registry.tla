------------------------------ MODULE Registry ------------------------------
(***************************************************************************)
(* What the registry of operations promises to its callers: at most one    *)
(* operation per id, kept as the sequence of the registered operations in  *)
(* the order of their ids.  RbTree implements it with the red-black tree,  *)
(* and Engine uses it as it is stated here.                              *)
(***************************************************************************)
EXTENDS Integers, Sequences

CONSTANTS
    Op,         \* operations (struct f4op), or nodes of a tree
    IdOf(_)     \* the id by which an operation is ordered, an integer

VARIABLES
    registered, \* set of operations in the registry
    answer      \* operations the last call returned or freed, <<>> for NULL

Ids(ops) == {IdOf(op) : op \in ops}

\* The operation of a set with a given id, if there is one.
Lookup(ops, id) ==
    IF id \in Ids(ops) THEN <<CHOOSE op \in ops : IdOf(op) = id>> ELSE <<>>

\* The operations of a set in the order of their ids.
Ordered(ops, s) ==
    /\ \A i, j \in DOMAIN s : i < j => IdOf(s[i]) < IdOf(s[j])
    /\ {s[i] : i \in DOMAIN s} = ops

Init ==
    /\ registered = {}
    /\ answer = <<>>

\* An id that is taken keeps its operation, which is returned.
Added(ops, op) == IF Lookup(ops, IdOf(op)) = <<>> THEN ops \cup {op} ELSE ops

Add(op) ==
    /\ answer' = Lookup(registered, IdOf(op))
    /\ registered' = Added(registered, op)

Find(id) ==
    /\ answer' = Lookup(registered, id)
    /\ UNCHANGED registered

Remove(op) ==
    /\ op \in registered
    /\ registered' = registered \ {op}
    /\ answer' = <<>>

\* One operation takes the place of another with the same id.
Replace(old, new) ==
    /\ old \in registered
    /\ new \notin registered
    /\ IdOf(old) = IdOf(new)
    /\ registered' = (registered \ {old}) \cup {new}
    /\ answer' = <<>>

\* Everything goes, each operation once and in the order of the ids.
FreeAll ==
    /\ registered' = {}
    /\ Ordered(registered, answer')

Next ==
    \/ \E op \in Op : Add(op) \/ Remove(op) \/ Find(IdOf(op))
    \/ \E old, new \in Op : Replace(old, new)
    \/ FreeAll

Spec == Init /\ [][Next]_<<registered, answer>>
=============================================================================
