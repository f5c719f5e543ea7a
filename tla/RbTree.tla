------------------------------- MODULE RbTree -------------------------------
(***************************************************************************)
(* The red-black tree (rbtree.c, rbtree.h) and the registry of operations  *)
(* built on it (ops.c).  A tree is a record of pointers: the root, and for *)
(* every node its parent, its two children and its colour.  The code that  *)
(* the source writes twice, once per side, is written once here with the   *)
(* side as a parameter.                                                    *)
(*                                                                         *)
(* The tree has two kinds of user.  The library's contract is to link a    *)
(* node and then to call rb_insert_color; the registry of operations only  *)
(* links it.  balanced, chosen for good in the initial state, says which   *)
(* of the two the behaviour shows.                                         *)
(*                                                                         *)
(* A while loop of the source is a bounded iteration of one turn, which    *)
(* leaves the state alone once the loop's condition is false.  That the    *)
(* bound, MaxTurns, is never what ends a loop is part of what the          *)
(* properties say: a loop cut short leaves the tree unbalanced or nodes    *)
(* unvisited.                                                              *)
(***************************************************************************)
EXTENDS Integers, Sequences, FiniteSets

CONSTANTS
    Keys,       \* ids of operations, compared as integers (memcmp of 20 bytes)
    Twice       \* ids for which there are two operations

ASSUME KeysAssumption ==
    Keys \subseteq Int /\ IsFiniteSet(Keys) /\ Twice \subseteq Keys

Node == (Keys \X {0}) \cup (Twice \X {1})
NULL == <<>>
Ptr == Node \cup {NULL}
Key(n) == n[1]

Side == {"left", "right"}
Other(s) == IF s = "left" THEN "right" ELSE "left"

\* More turns than any loop of this module takes.
MaxTurns == Cardinality(Node)

VARIABLES
    tree,       \* [root, parent, child, red]
    members,    \* the nodes linked and not erased since
    answer,     \* nodes the last call returned or freed, <<>> for NULL
    balanced    \* does the user call rb_insert_color?

vars == <<tree, members, answer, balanced>>

EmptyTree ==
    [root |-> NULL,
     parent |-> [n \in Node |-> NULL],
     child |-> [s \in Side |-> [n \in Node |-> NULL]],
     red |-> [n \in Node |-> FALSE]]

(***************************************************************************)
(* Pointers                                                                *)
(***************************************************************************)
IsRed(t, n) == n # NULL /\ t.red[n]

\* The side of p on which n hangs: the code asks for the left one first.
SideOf(t, p, n) == IF t.child["left"][p] = n THEN "left" ELSE "right"

SetParent(t, n, p) == IF n = NULL THEN t ELSE [t EXCEPT !.parent[n] = p]
SetChild(t, s, n, c) == [t EXCEPT !.child[s][n] = c]
Colour(t, n, red) == IF n = NULL THEN t ELSE [t EXCEPT !.red[n] = red]

\* All the fields of node n.
SetNode(t, n, parent, left, right, red) ==
    [t EXCEPT !.parent[n] = parent, !.red[n] = red,
              !.child["left"][n] = left, !.child["right"][n] = right]

\* Let the place that p's child old has, or the root, hold new.
SetDown(t, p, old, new) ==
    IF p = NULL THEN [t EXCEPT !.root = new]
    ELSE SetChild(t, SideOf(t, p, old), p, new)

\* Let up, the child of node that is not on side s, take node's place below
\* above; node goes below up and gets up's child inner in exchange.
Relink(t, node, s, up, inner, above) ==
    LET t1 == SetParent(SetChild(t, Other(s), node, inner), inner, node)
        t2 == SetParent(SetChild(t1, s, up, node), up, above)
    IN  SetParent(SetDown(t2, above, node, up), node, up)

\* __rb_rotate_left for s = "left", __rb_rotate_right for s = "right".
Rotate(t, node, s) ==
    LET up == t.child[Other(s)][node]
    IN  Relink(t, node, s, up, t.child[s][up], t.parent[node])

(***************************************************************************)
(* Insertion                                                               *)
(***************************************************************************)
\* rb_link_node: a red leaf below parent, on side s of it.
Link(t, node, parent, s) ==
    LET leaf == SetNode(t, node, parent, NULL, NULL, TRUE)
    IN  IF parent = NULL THEN [leaf EXCEPT !.root = node]
        ELSE SetChild(leaf, s, parent, node)

(* Mutant of InsertColor: no recolouring of a red uncle on the way up. *)
InsertColorOnce(t, node) ==
    LET parent == t.parent[node]
        gparent == t.parent[parent]
    IN  IF ~ IsRed(t, parent) THEN [t EXCEPT !.red[t.root] = FALSE]
        ELSE Rotate(Colour(Colour(t, parent, FALSE), gparent, TRUE),
                    gparent, Other(SideOf(t, gparent, parent)))

\* One turn of the loop of rb_insert_color: node is red, and so may its
\* parent be.
InsertTurn(at) ==
    LET t == at.tree
        node == at.node
        parent == t.parent[node]
        gparent == t.parent[parent]
        s == SideOf(t, gparent, parent)
        uncle == t.child[Other(s)][gparent]
        inside == t.child[Other(s)][parent] = node
        turned == IF inside THEN Rotate(t, parent, s) ELSE t
        low == IF inside THEN parent ELSE node
        top == IF inside THEN node ELSE parent
    IN  IF ~ IsRed(t, parent) THEN at
        ELSE IF IsRed(t, uncle)
        THEN [tree |-> Colour(Colour(Colour(t, uncle, FALSE), parent, FALSE),
                              gparent, TRUE),
              node |-> gparent]
        ELSE [tree |-> Rotate(Colour(Colour(turned, top, FALSE), gparent, TRUE),
                              gparent, Other(s)),
              node |-> low]

\* rb_insert_color: the loop, then the root is made black.
InsertColor(t, node) ==
    LET loop[i \in 0 .. MaxTurns] ==
            IF i = 0 THEN [tree |-> t, node |-> node] ELSE InsertTurn(loop[i - 1])
        end == loop[MaxTurns].tree
    IN  Colour(end, end.root, FALSE)

(***************************************************************************)
(* Removal                                                                 *)
(***************************************************************************)
\* One turn of the loop of __rb_erase_color: node, which may be NULL, lacks
\* one black node below parent.  The last alternative leaves the loop.
EraseTurn(at) ==
    LET t == at.tree
        parent == at.parent
        s == SideOf(t, parent, at.node)
        o == Other(s)
        sibling == t.child[o][parent]
        t1 == IF IsRed(t, sibling)
              THEN Rotate(Colour(Colour(t, sibling, FALSE), parent, TRUE), parent, s)
              ELSE t
        other == t1.child[o][parent]
        near == t1.child[s][other]
        far == t1.child[o][other]
        t2 == IF IsRed(t1, far) THEN t1
              ELSE Rotate(Colour(Colour(t1, near, FALSE), other, TRUE), other, o)
        other2 == t2.child[o][parent]
        t3 == Colour(Colour(Colour(t2, other2, t2.red[parent]), parent, FALSE),
                     t2.child[o][other2], FALSE)
        t4 == Rotate(t3, parent, s)
    IN  IF IsRed(t, at.node) \/ at.node = t.root THEN at
        ELSE IF ~ IsRed(t1, near) /\ ~ IsRed(t1, far)
        THEN [tree |-> Colour(t1, other, TRUE),
              node |-> parent, parent |-> t1.parent[parent]]
        ELSE [tree |-> t4, node |-> t4.root, parent |-> NULL]

\* __rb_erase_color
EraseColor(t, node, parent) ==
    LET loop[i \in 0 .. MaxTurns] ==
            IF i = 0 THEN [tree |-> t, node |-> node, parent |-> parent]
            ELSE EraseTurn(loop[i - 1])
        end == loop[MaxTurns]
    IN  Colour(end.tree, end.node, FALSE)

\* The nodes a loop comes by that starts at n and goes from every m on to
\* step[m], and the node where it ends because there is nowhere to go.
Way(step, n) ==
    LET way[m \in Node] == {m} \cup (IF step[m] = NULL THEN {} ELSE way[step[m]])
    IN  way[n]
Follow(step, n) == CHOOSE m \in Way(step, n) : step[m] = NULL

\* From n down the side s as far as it goes.
Furthest(t, n, s) == Follow(t.child[s], n)

\* The memory of an erased node is not read again.
Forget(t, n) == SetNode(t, n, NULL, NULL, NULL, FALSE)

\* The only child of a node, or NULL, which Splice puts in its place.
OnlyChild(t, node) ==
    IF t.child["left"][node] = NULL
    THEN t.child["right"][node] ELSE t.child["left"][node]

Splice(t, node) ==
    LET child == OnlyChild(t, node)
        parent == t.parent[node]
    IN  SetDown(SetParent(t, child, parent), parent, node, child)

(* Mutant of TakePlace: the right child is not told of its new parent. *)
TakePlaceStaleParent(t, old, new) ==
    LET t1 == SetDown(t, t.parent[old], old, new)
        t2 == SetParent(t1, t1.child["left"][old], new)
    IN  SetNode(t2, new, t2.parent[old],
                t2.child["left"][old], t2.child["right"][old], t2.red[old])

\* Let new, which is not in the tree, have the place and the colour of old.
TakePlace(t, old, new) ==
    LET t1 == SetDown(t, t.parent[old], old, new)
        t2 == SetParent(SetParent(t1, t1.child["left"][old], new),
                        t1.child["right"][old], new)
    IN  SetNode(t2, new, t2.parent[old],
                t2.child["left"][old], t2.child["right"][old], t2.red[old])

\* A node with at most one child is replaced by it.
EraseOuter(t, node) ==
    IF t.red[node] THEN Splice(t, node)
    ELSE EraseColor(Splice(t, node), OnlyChild(t, node), t.parent[node])

\* A node with two children is replaced by the first node of its right
\* subtree, which takes over its place and its colour.
EraseInner(t, old) ==
    LET node == Furthest(t, t.child["right"][old], "left")
        child == t.child["right"][node]
        parent == IF t.parent[node] = old THEN node ELSE t.parent[node]
        t1 == TakePlace(Splice(t, node), old, node)
    IN  IF t.red[node] THEN t1 ELSE EraseColor(t1, child, parent)

\* rb_erase
Erase(t, node) ==
    IF NULL \in {t.child[s][node] : s \in Side}
    THEN Forget(EraseOuter(t, node), node)
    ELSE Forget(EraseInner(t, node), node)

(***************************************************************************)
(* Walking                                                                 *)
(***************************************************************************)
\* rb_first for s = "left", rb_last for s = "right".
End(t, s) == IF t.root = NULL THEN NULL ELSE Furthest(t, t.root, s)

\* From n up while it is the child on side s, and then to the parent.
Climb(t, n, s) ==
    LET step == [m \in Node |-> IF t.parent[m] # NULL /\ m = t.child[s][t.parent[m]]
                                THEN t.parent[m] ELSE NULL]
    IN  t.parent[Follow(step, n)]

\* rb_next for s = "right", rb_prev for s = "left".
Step(t, n, s) ==
    IF t.child[s][n] # NULL
    THEN Furthest(t, t.child[s][n], Other(s))
    ELSE Climb(t, n, s)

\* rb_replace_node
ReplaceNode(t, victim, new) == Forget(TakePlace(t, victim, new), victim)

(***************************************************************************)
(* The registry (ops.c)                                                    *)
(***************************************************************************)
\* The side of n on which an id other than its own is looked for.
Toward(id, n) == IF id < Key(n) THEN "left" ELSE "right"

\* The descent of f4op_add and f4op_find: the node with the id, or else the
\* last node that was passed, NULL in an empty tree.
Descend(t, id) ==
    LET step == [n \in Node |-> IF id = Key(n) THEN NULL ELSE t.child[Toward(id, n)][n]]
    IN  IF t.root = NULL THEN NULL ELSE Follow(step, t.root)

f4op_find(t, id) ==
    LET last == Descend(t, id)
    IN  IF last # NULL /\ Key(last) = id THEN last ELSE NULL

(* Mutant of FreeTurn: the next node is read after the current one is erased. *)
FreeTurnErased(at) ==
    IF at.next = NULL THEN at
    ELSE [tree |-> Erase(at.tree, at.next),
          next |-> Step(Erase(at.tree, at.next), at.next, "right"),
          freed |-> Append(at.freed, at.next)]

\* One turn of the loop of f4op_free_ctx: the next node is read before the
\* current one is erased.
FreeTurn(at) ==
    IF at.next = NULL THEN at
    ELSE [tree |-> Erase(at.tree, at.next),
          next |-> Step(at.tree, at.next, "right"),
          freed |-> Append(at.freed, at.next)]

f4op_free_ctx(t) ==
    LET loop[i \in 0 .. MaxTurns] ==
            IF i = 0 THEN [tree |-> t, next |-> End(t, "left"), freed |-> <<>>]
            ELSE FreeTurn(loop[i - 1])
    IN  loop[MaxTurns]

(***************************************************************************)
(* The specification                                                       *)
(***************************************************************************)
Answer(n) == IF n = NULL THEN <<>> ELSE <<n>>

Init ==
    /\ tree = EmptyTree
    /\ members = {}
    /\ answer = <<>>
    /\ balanced \in BOOLEAN

Add(op) ==
    LET parent == Descend(tree, Key(op))
        found == f4op_find(tree, Key(op))
        linked == Link(tree, op, parent, Toward(Key(op), parent))
    IN  /\ op \notin members
        /\ answer' = Answer(found)
        /\ \/ /\ found # NULL
              /\ UNCHANGED <<tree, members>>
           \/ /\ found = NULL
              /\ tree' = IF balanced THEN InsertColor(linked, op) ELSE linked
              /\ members' = members \cup {op}
        /\ UNCHANGED balanced

Remove(op) ==
    /\ op \in members
    /\ tree' = Erase(tree, op)
    /\ members' = members \ {op}
    /\ answer' = <<>>
    /\ UNCHANGED balanced

Replace(victim, new) ==
    /\ victim \in members
    /\ new \notin members
    /\ Key(victim) = Key(new)
    /\ tree' = ReplaceNode(tree, victim, new)
    /\ members' = (members \ {victim}) \cup {new}
    /\ answer' = <<>>
    /\ UNCHANGED balanced

FreeCtx ==
    LET end == f4op_free_ctx(tree)
    IN  /\ tree' = end.tree
        /\ answer' = end.freed
        /\ members' = {}
        /\ UNCHANGED balanced

Next ==
    \/ \E op \in Node : Add(op)
    \/ \E op \in Node : Remove(op)
    \/ \E victim, new \in Node : Replace(victim, new)
    \/ FreeCtx

Spec == Init /\ [][Next]_vars

(***************************************************************************)
(* Properties                                                              *)
(***************************************************************************)
\* Number of black nodes on the way from the root down to n.
BlackDepth(t, n) == Cardinality({m \in Way(t.parent, n) : ~ t.red[m]})

\* Nodes on which a way down can end.
Ends == {n \in members : NULL \in {tree.child[s][n] : s \in Side}}

\* For a user that calls rb_insert_color after every rb_link_node, the
\* rotations and colour flips of rb_insert_color and __rb_erase_color keep
\* the tree balanced: black root, no red node with a red child, equally
\* many black nodes on every way down.
RedBlack ==
    balanced =>
        /\ ~ IsRed(tree, tree.root)
        /\ \A n \in members, s \in Side : tree.red[n] => ~ IsRed(tree, tree.child[s][n])
        /\ \A m, n \in Ends : BlackDepth(tree, m) = BlackDepth(tree, n)

R == INSTANCE Registry WITH
        Op <- Node, IdOf <- Key, registered <- members, answer <- answer

\* Is i further than j on side s?
Beyond(s, i, j) == IF s = "left" THEN i < j ELSE j < i

\* The member of a set of nodes that is furthest on side s, NULL if none is.
Outermost(nodes, s) ==
    IF nodes = {} THEN NULL
    ELSE CHOOSE n \in nodes : \A m \in nodes \ {n} : Beyond(s, Key(n), Key(m))

\* Whatever was linked, erased and replaced before, and whether or not the
\* tree was ever balanced, rb_first and rb_last come to the first and the
\* last of the linked nodes, rb_next and rb_prev from every one of them to
\* its neighbour in the order of the ids, and f4op_find comes by every one
\* of them on its way down: no parent or child pointer is stale.
WalksAndFinds ==
    /\ \A s \in Side :
          /\ End(tree, s) = Outermost(members, s)
          /\ \A n \in members :
                Step(tree, n, s) =
                    Outermost({m \in members : Beyond(s, Key(m), Key(n))}, Other(s))
    /\ \A id \in Keys : Answer(f4op_find(tree, id)) = R!Lookup(members, id)

\* The tree does what the registry promises: a second operation with the
\* same id is refused with the first one as f4op_add's answer, and
\* f4op_free_ctx, which erases the nodes it walks over, frees every
\* operation exactly once.
ImplementsRegistry == R!Spec
=============================================================================
