---------------------------- MODULE TableQueries ----------------------------
(***************************************************************************)
(* What dht/dht.c reads from the routing table: the closest nodes of a     *)
(* reply (send_closest_nodes), the nodes a program saves before it ends    *)
(* (dht_get_nodes) and the statistics (dht_nodes).                         *)
(*                                                                         *)
(* A table is the list of buckets of one family.  An id is the sequence of *)
(* its bytes, compared byte by byte as the code does.  Of a node, its id,  *)
(* whether node_good holds and whether it was heard from after its last    *)
(* reply matter; of a candidate, whether there is one.                     *)
(***************************************************************************)
EXTENDS Integers, SequencesExt

CONSTANTS
    IdBytes,          \* bytes in an id (20)
    Byte,             \* values of a byte
    ByteXor(_, _),    \* exclusive or of two bytes, C's ^
    MaxClosest        \* nodes in a reply (8)

(* What the comparisons of ids rest on: bytes are numbers, and ^ by one byte *)
(* takes no two bytes to the same.                                           *)
ASSUME QueriesAssumption ==
    /\ IdBytes \in Nat /\ MaxClosest \in Nat /\ Byte \subseteq Nat
    /\ \A a, r \in Byte : ByteXor(a, r) \in Nat
    /\ \A a, b, r \in Byte : ByteXor(a, r) = ByteXor(b, r) => a = b

(* The first byte where two ids differ, 0 when they are the same. *)
FirstDifference(id1, id2) ==
    LET differ == {i \in 1 .. IdBytes : id1[i] # id2[i]}
    IN  IF differ = {} THEN 0 ELSE Min(differ)

id_cmp(id1, id2) ==
    LET i == FirstDifference(id1, id2) IN IF i = 0 THEN 0 ELSE id1[i] - id2[i]

(* Whether id1 or id2 is closer to ref. *)
xorcmp(id1, id2, ref) ==
    LET i == FirstDifference(id1, id2)
    IN  IF i = 0 THEN 0
        ELSE IF ByteXor(id1[i], ref[i]) < ByteXor(id2[i], ref[i]) THEN -1 ELSE 1

InBucket(table, b, id) ==
    /\ id_cmp(table[b].first, id) <= 0
    /\ b = Len(table) \/ id_cmp(id, table[b + 1].first) < 0

find_bucket(table, id) ==
    LET before == SelectInSeq(table, LAMBDA b : id_cmp(id, b.first) < 0)
    IN  IF before = 0 THEN Len(table) ELSE IF before = 1 THEN 1 ELSE before - 1

-----------------------------------------------------------------------------
(* The closest nodes *)

(* Mutant of insert_closest_node: a full buffer takes nothing more. *)
InsertUntilFull(nodes, id, n) ==
    LET i == SelectInSeq(nodes, LAMBDA m : n.id = m \/ xorcmp(n.id, m, id) < 0)
        place == IF i = 0 THEN Len(nodes) + 1 ELSE i
    IN  IF (i # 0 /\ nodes[place] = n.id) \/ Len(nodes) = MaxClosest THEN nodes
        ELSE InsertAt(nodes, place, n.id)

(* Keeps the buffer sorted; the last node gives way when it is full. *)
insert_closest_node(nodes, id, n) ==
    LET i == SelectInSeq(nodes, LAMBDA m : n.id = m \/ xorcmp(n.id, m, id) < 0)
        place == IF i = 0 THEN Len(nodes) + 1 ELSE i
        longer == InsertAt(nodes, place, n.id)
    IN  IF (i # 0 /\ nodes[place] = n.id) \/ place = MaxClosest + 1 THEN nodes
        ELSE IF Len(nodes) < MaxClosest THEN longer
        ELSE Front(longer)

(* The good nodes of a bucket, in the order of its list. *)
buffer_closest_nodes(nodes, id, b) ==
    LET loop[i \in 0 .. Len(b.nodes)] ==
            IF i = 0 THEN nodes
            ELSE IF b.nodes[i].good THEN insert_closest_node(loop[i - 1], id, b.nodes[i])
            ELSE loop[i - 1]
    IN  loop[Len(b.nodes)]

(* The bucket of the id, the next one and the one before, in this order. *)
send_closest_nodes(table, id) ==
    LET b == find_bucket(table, id)
        own == buffer_closest_nodes(<<>>, id, table[b])
        next == IF b < Len(table) THEN buffer_closest_nodes(own, id, table[b + 1]) ELSE own
    IN  IF b > 1 THEN buffer_closest_nodes(next, id, table[b - 1]) ELSE next

(* The good nodes a reply is chosen from: those of the three buckets around the id. *)
GoodSet(b) == {n.id : n \in {m \in ToSet(b.nodes) : m.good}}
Reached(table, id) ==
    LET own == find_bucket(table, id)
    IN  UNION {GoodSet(table[b]) : b \in {own - 1, own, own + 1} \cap DOMAIN table}

(* The list holds the ids of G closest to id, in order of closeness: none of G is left  *)
(* out while there is room, and none left out is closer than one in the list.           *)
ClosestOf(list, G, id) ==
    /\ Len(list) <= MaxClosest
    /\ ToSet(list) \subseteq G
    /\ \A i, j \in 1 .. Len(list) : i < j => xorcmp(list[i], list[j], id) < 0
    /\ \A x \in G \ ToSet(list) :
            Len(list) = MaxClosest /\ \A i \in 1 .. Len(list) : xorcmp(list[i], x, id) < 0

-----------------------------------------------------------------------------
(* The nodes to save: those of our bucket, then the others, num at most. *)

GoodIds(b) == [i \in DOMAIN SelectSeq(b.nodes, LAMBDA n : n.good) |->
                    SelectSeq(b.nodes, LAMBDA n : n.good)[i].id]

dht_get_nodes(table, myid, num) ==
    LET own == GoodIds(table[find_bucket(table, myid)])
        others == FlattenSeq([b \in DOMAIN table |->
                        IF InBucket(table, b, myid) THEN <<>> ELSE GoodIds(table[b])])
        list == own \o others
    IN  SubSeq(list, 1, IF Len(list) < num THEN Len(list) ELSE num)

-----------------------------------------------------------------------------
(* Statistics *)

CountNodes(table, Test(_)) ==
    FoldLeft(LAMBDA sum, b : sum + Len(SelectSeq(b.nodes, Test)), 0, table)

dht_nodes(table) ==
    [good     |-> CountNodes(table, LAMBDA n : n.good),
     dubious  |-> CountNodes(table, LAMBDA n : ~ n.good),
     incoming |-> CountNodes(table, LAMBDA n : n.good /\ n.heard_later),
     cached   |-> Len(SelectSeq(table, LAMBDA b : b.has_candidate))]
=============================================================================
