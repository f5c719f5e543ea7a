---------------------------- MODULE RbTreeProofs ----------------------------
(***************************************************************************)
(* Proofs about the red-black tree (RbTree): the pointers always form a    *)
(* search tree of the linked nodes, so that walking and looking up are     *)
(* right and the tree implements the registry; and for a user that calls   *)
(* rb_insert_color the tree stays balanced.                                *)
(***************************************************************************)
EXTENDS RbTree, Inductions

Tree == [root : Ptr, parent : [Node -> Ptr],
         child : [Side -> [Node -> Ptr]], red : [Node -> BOOLEAN]]

(* Nodes, keys and sides. *)
LEMMA NodeFacts ==
    /\ NULL \notin Node /\ IsFiniteSet(Node)
    /\ \A n \in Node : Key(n) \in Int
    /\ MaxTurns \in Nat
  <1>1. NULL \notin Node
    BY DEF NULL, Node
  <1>2. \A n \in Node : Key(n) \in Int
    BY KeysAssumption DEF Node, Key
  <1>3. IsFiniteSet(Keys) /\ IsFiniteSet(Twice)
    BY KeysAssumption, FS_Subset
  <1>4. IsFiniteSet({0}) /\ IsFiniteSet({1})
    BY FS_Singleton
  <1>5. IsFiniteSet(Keys \X {0}) /\ IsFiniteSet(Twice \X {1})
    BY <1>3, <1>4, FS_Product
  <1>6. IsFiniteSet(Node)
    BY <1>5, FS_Union DEF Node
  <1>7. MaxTurns \in Nat
    BY <1>6, FS_CardinalityType DEF MaxTurns
  <1> QED  BY <1>1, <1>2, <1>6, <1>7

(* The two sides are each other's other. *)
LEMMA SideFacts ==
    ASSUME NEW s \in Side
    PROVE  /\ Other(s) \in Side /\ Other(s) # s /\ Other(Other(s)) = s
           /\ \A q \in Side : q = s \/ q = Other(s)
  BY DEF Side, Other

(* Beyond is a strict order of the integers, turned round on the other side. *)
LEMMA BeyondFacts ==
    ASSUME NEW s \in Side, NEW i \in Int, NEW j \in Int
    PROVE  /\ ~ Beyond(s, i, i)
           /\ Beyond(s, i, j) <=> Beyond(Other(s), j, i)
           /\ Beyond(s, i, j) => ~ Beyond(s, j, i)
           /\ i # j => Beyond(s, i, j) \/ Beyond(s, j, i)
           /\ \A k \in Int : Beyond(s, i, j) /\ Beyond(s, j, k) => Beyond(s, i, k)
  BY DEF Side, Other, Beyond

-----------------------------------------------------------------------------
(* The pointers that every primitive writes *)

(* What SetChild writes, and that it writes nothing else. *)
LEMMA SetChildFields ==
    ASSUME NEW t \in Tree, NEW n \in Node, NEW s \in Side, NEW c \in Ptr
    PROVE  LET r == SetChild(t, s, n, c)
           IN  /\ r \in Tree /\ r.root = t.root /\ r.parent = t.parent /\ r.red = t.red
               /\ \A m \in Node : \A q \in Side :
                     r.child[q][m] = IF m = n /\ q = s THEN c ELSE t.child[q][m]
  BY DEF Tree, SetChild

(* r is t with new fields of node n. *)
NodeSet(t, n, p, left, right, b, r) ==
    /\ r \in Tree /\ r.root = t.root
    /\ \A m \in Node : r.parent[m] = IF m = n THEN p ELSE t.parent[m]
    /\ \A m \in Node : r.red[m] = IF m = n THEN b ELSE t.red[m]
    /\ \A m \in Node : r.child["left"][m] = IF m = n THEN left ELSE t.child["left"][m]
    /\ \A m \in Node : r.child["right"][m] = IF m = n THEN right ELSE t.child["right"][m]

(* What SetNode writes. *)
LEMMA SetNodeFields ==
    ASSUME NEW t \in Tree, NEW n \in Node, NEW p \in Ptr, NEW left \in Ptr, NEW right \in Ptr,
           NEW b \in BOOLEAN
    PROVE  NodeSet(t, n, p, left, right, b, SetNode(t, n, p, left, right, b))
  BY DEF Tree, SetNode, Side, NodeSet

(* What rb_set_parent writes; nothing for NULL. *)
LEMMA SetParentFields ==
    ASSUME NEW t \in Tree, NEW n \in Ptr, NEW p \in Ptr
    PROVE  LET r == SetParent(t, n, p)
           IN  /\ r \in Tree /\ r.root = t.root /\ r.child = t.child /\ r.red = t.red
               /\ \A m \in Node : r.parent[m] = IF m = n THEN p ELSE t.parent[m]
  <1>1. CASE n = NULL
    BY <1>1, NodeFacts DEF SetParent
  <1>2. CASE n \in Node
    <2>1. SetParent(t, n, p) = [t EXCEPT !.parent[n] = p]
      BY <1>2, NodeFacts DEF SetParent
    <2> QED  BY <1>2, <2>1 DEF Tree
  <1> QED  BY <1>1, <1>2 DEF Ptr

(* What colouring a node writes; nothing for NULL. *)
LEMMA ColourFields ==
    ASSUME NEW t \in Tree, NEW n \in Ptr, NEW b \in BOOLEAN
    PROVE  LET r == Colour(t, n, b)
           IN  /\ r \in Tree /\ r.root = t.root /\ r.parent = t.parent /\ r.child = t.child
               /\ \A m \in Node : r.red[m] = IF m = n THEN b ELSE t.red[m]
  <1>1. CASE n = NULL
    BY <1>1, NodeFacts DEF Colour
  <1>2. CASE n \in Node
    <2>1. Colour(t, n, b) = [t EXCEPT !.red[n] = b]
      BY <1>2, NodeFacts DEF Colour
    <2> QED  BY <1>2, <2>1 DEF Tree
  <1> QED  BY <1>1, <1>2 DEF Ptr

(* What is written above a node that is exchanged: a child pointer or the root. *)
LEMMA SetDownFields ==
    ASSUME NEW t \in Tree, NEW p \in Ptr, NEW old, NEW new \in Ptr
    PROVE  LET r == SetDown(t, p, old, new)
           IN  /\ r \in Tree /\ r.parent = t.parent /\ r.red = t.red
               /\ r.root = IF p = NULL THEN new ELSE t.root
               /\ \A m \in Node : \A q \in Side :
                     r.child[q][m] = IF m = p /\ q = SideOf(t, p, old) THEN new ELSE t.child[q][m]
  <1>1. CASE p = NULL
    <2>1. SetDown(t, p, old, new) = [t EXCEPT !.root = new]
      BY <1>1 DEF SetDown
    <2> QED  BY <1>1, <2>1, NodeFacts DEF Tree
  <1>2. CASE p \in Node
    <2>1. SideOf(t, p, old) \in Side
      BY DEF SideOf, Side
    <2>2. SetDown(t, p, old, new) = SetChild(t, SideOf(t, p, old), p, new)
      BY <1>2, NodeFacts DEF SetDown
    <2> QED  BY <1>2, <2>1, <2>2, SetChildFields, NodeFacts
  <1> QED  BY <1>1, <1>2 DEF Ptr

(* A rotation turns node below its child up and hands it up's inner child. *)
LEMMA RelinkFields ==
    ASSUME NEW t \in Tree, NEW node \in Node, NEW s \in Side,
           NEW up \in Node, NEW inner \in Ptr, NEW above \in Ptr,
           up # node, inner # node, inner # up, above # node, above # up
    PROVE  LET r == Relink(t, node, s, up, inner, above)
           IN  /\ r \in Tree
               /\ r.root = IF above = NULL THEN up ELSE t.root
               /\ \A n \in Node : r.parent[n] = IF n = up THEN above
                                                ELSE IF n = node THEN up
                                                ELSE IF n = inner THEN node
                                                ELSE t.parent[n]
               /\ \A n \in Node : \A q \in Side :
                     r.child[q][n] = IF n = node /\ q = Other(s) THEN inner
                                     ELSE IF n = up /\ q = s THEN node
                                     ELSE IF n = above /\ q = SideOf(t, above, node) THEN up
                                     ELSE t.child[q][n]
               /\ r.red = t.red
  <1> DEFINE ta == SetChild(t, Other(s), node, inner)
             tb == SetParent(ta, inner, node)
             tc == SetChild(tb, s, up, node)
             td == SetParent(tc, up, above)
             te == SetDown(td, above, node, up)
             r == SetParent(te, node, up)
  <1>1. Relink(t, node, s, up, inner, above) = r
    BY DEF Relink
  <1>2. Other(s) \in Side /\ Other(s) # s /\ NULL \notin Node /\ up \in Ptr /\ node \in Ptr
    BY SideFacts, NodeFacts DEF Ptr
  <1> HIDE DEF ta, tb, tc, td, te, r
  <1>4t. ta \in Tree
    BY <1>2, SetChildFields DEF ta
  <1>4. /\ ta.root = t.root /\ ta.parent = t.parent /\ ta.red = t.red
        /\ \A n \in Node : \A q \in Side :
              ta.child[q][n] = IF n = node /\ q = Other(s) THEN inner ELSE t.child[q][n]
    BY <1>2, SetChildFields DEF ta
  <1>5t. tb \in Tree
    BY <1>2, <1>4t, SetParentFields DEF tb
  <1>5. /\ tb.root = ta.root /\ tb.child = ta.child /\ tb.red = ta.red
        /\ \A n \in Node : tb.parent[n] = IF n = inner THEN node ELSE ta.parent[n]
    BY <1>2, <1>4t, SetParentFields DEF tb
  <1>6t. tc \in Tree
    BY <1>2, <1>5t, SetChildFields DEF tc
  <1>6. /\ tc.root = tb.root /\ tc.parent = tb.parent /\ tc.red = tb.red
        /\ \A n \in Node : \A q \in Side :
              tc.child[q][n] = IF n = up /\ q = s THEN node ELSE tb.child[q][n]
    BY <1>2, <1>5t, SetChildFields DEF tc
  <1>7t. td \in Tree
    BY <1>2, <1>6t, SetParentFields DEF td
  <1>7. /\ td.root = tc.root /\ td.child = tc.child /\ td.red = tc.red
        /\ \A n \in Node : td.parent[n] = IF n = up THEN above ELSE tc.parent[n]
    BY <1>2, <1>6t, SetParentFields DEF td
  <1>8t. te \in Tree
    BY <1>2, <1>7t, SetDownFields DEF te
  <1>8. /\ te.parent = td.parent /\ te.red = td.red
        /\ te.root = IF above = NULL THEN up ELSE td.root
        /\ \A n \in Node : \A q \in Side :
             te.child[q][n] = IF n = above /\ q = SideOf(td, above, node) THEN up ELSE td.child[q][n]
    BY <1>2, <1>7t, SetDownFields DEF te
  <1>13. /\ r \in Tree /\ r.root = te.root /\ r.child = te.child /\ r.red = te.red
         /\ \A n \in Node : r.parent[n] = IF n = node THEN up ELSE te.parent[n]
    BY <1>2, <1>8t, SetParentFields DEF r
  <1>9. above # NULL => SideOf(td, above, node) = SideOf(t, above, node)
    <2>1. above # NULL => above \in Node
      BY DEF Ptr
    <2>2. "left" \in Side
      BY DEF Side
    <2>3. above # NULL => td.child["left"][above] = t.child["left"][above]
      BY <1>4, <1>5, <1>6, <1>7, <2>1, <2>2
    <2> QED  BY <2>3 DEF SideOf
  <1>10. \A n \in Node : r.parent[n] = IF n = up THEN above ELSE IF n = node THEN up
                                        ELSE IF n = inner THEN node ELSE t.parent[n]
    BY <1>4, <1>5, <1>6, <1>7, <1>8, <1>13
  <1>11. \A n \in Node : \A q \in Side :
                     r.child[q][n] = IF n = node /\ q = Other(s) THEN inner
                                     ELSE IF n = up /\ q = s THEN node
                                     ELSE IF n = above /\ q = SideOf(t, above, node) THEN up
                                     ELSE t.child[q][n]
    BY <1>2, <1>4, <1>5, <1>6, <1>7, <1>8, <1>9, <1>13
  <1>12. r.root = (IF above = NULL THEN up ELSE t.root) /\ r.red = t.red
    BY <1>4, <1>5, <1>6, <1>7, <1>8, <1>13
  <1> QED  BY <1>1, <1>10, <1>11, <1>12, <1>13
-----------------------------------------------------------------------------
(* Search trees *)

(* The children of n belong to it, the nodes below them lie on their sides *)
(* of it, and n belongs to its parent.  sub[n] is the set of the nodes at  *)
(* and below n.                                                            *)
Down(t, M, n) ==
    \A s \in Side : t.child[s][n] # NULL =>
        t.child[s][n] \in M /\ t.parent[t.child[s][n]] = n
Split(t, sub, n) ==
    \A s \in Side :
        /\ sub[n] = {n} \cup sub[t.child[s][n]] \cup sub[t.child[Other(s)][n]]
        /\ \A m \in sub[t.child[s][n]] : Beyond(s, Key(m), Key(n))
Up(t, M, n) ==
    IF t.parent[n] = NULL THEN n = t.root
    ELSE t.parent[n] \in M /\ \E s \in Side : t.child[s][t.parent[n]] = n

(* The pointers of t form a search tree of the nodes of M. *)
Shape(t, M, sub) ==
    /\ t \in Tree /\ M \in SUBSET Node
    /\ sub \in [Ptr -> SUBSET M] /\ sub[NULL] = {} /\ sub[t.root] = M
    /\ t.root # NULL => t.root \in M /\ t.parent[t.root] = NULL
    /\ \A n \in M : Down(t, M, n) /\ Split(t, sub, n) /\ Up(t, M, n)

(* The types of what a search tree is made of. *)
LEMMA ShapeType ==
    ASSUME NEW t, NEW M, NEW sub, Shape(t, M, sub)
    PROVE  /\ t \in Tree /\ M \in SUBSET Node /\ M \in SUBSET Ptr /\ NULL \notin M
           /\ sub[NULL] = {} /\ sub[t.root] = M /\ t.root \in M \cup {NULL}
           /\ (t.root # NULL => t.parent[t.root] = NULL)
           /\ \A n \in Ptr : sub[n] \in SUBSET M
           /\ \A n \in M : Key(n) \in Int
           /\ \A n \in M : t.parent[n] \in M \cup {NULL}
           /\ \A n \in M : \A s \in Side : t.child[s][n] \in M \cup {NULL} /\ t.child[s][n] \in Ptr
  <1>1. t \in Tree /\ M \in SUBSET Node /\ sub \in [Ptr -> SUBSET M]
    BY DEF Shape
  <1>2. sub[NULL] = {} /\ sub[t.root] = M /\ t.root \in M \cup {NULL} /\ (t.root # NULL => t.parent[t.root] = NULL)
    BY DEF Shape
  <1>3. \A n \in M : t.parent[n] \in M \cup {NULL}
    BY DEF Shape, Up
  <1>4. M \in SUBSET Ptr /\ NULL \notin M
    BY <1>1, NodeFacts DEF Ptr
  <1>5. \A n \in M : \A s \in Side : t.child[s][n] \in M \cup {NULL} /\ t.child[s][n] \in Ptr
    <2>1. \A n \in M : \A s \in Side : t.child[s][n] \in M \cup {NULL}
      BY DEF Shape, Down
    <2> QED  BY <2>1, <1>4 DEF Ptr
  <1> QED  BY <1>1, <1>2, <1>3, <1>4, <1>5, NodeFacts

(* A child and what is below it. *)
LEMMA ChildFacts ==
    ASSUME NEW t, NEW M, NEW sub, Shape(t, M, sub), NEW n \in M, NEW s \in Side
    PROVE  /\ sub[n] = {n} \cup sub[t.child[s][n]] \cup sub[t.child[Other(s)][n]]
           /\ n \in sub[n] /\ n \notin sub[t.child[s][n]] /\ t.child[s][n] # n
           /\ \A m \in sub[t.child[s][n]] : Beyond(s, Key(m), Key(n))
           /\ t.child[s][n] # NULL =>
                 /\ t.child[s][n] \in M /\ t.child[s][n] \in sub[t.child[s][n]]
                 /\ t.parent[t.child[s][n]] = n
                 /\ t.child[Other(s)][n] # t.child[s][n]
                 /\ t.child[s][n] \in sub[n]
                 /\ \A q \in Side : t.child[q][t.child[s][n]] # n
  <1>1. Down(t, M, n) /\ Split(t, sub, n) /\ Other(s) \in Side /\ Other(Other(s)) = s
    BY SideFacts DEF Shape
  <1>2. \A m \in M : m \in sub[m]
    BY SideFacts DEF Shape, Split
  <1>3. \A m \in sub[t.child[s][n]] : Beyond(s, Key(m), Key(n))
    BY <1>1 DEF Split
  <1>4. \A m \in sub[t.child[Other(s)][n]] : Beyond(Other(s), Key(m), Key(n))
    BY <1>1 DEF Split
  <1>5. sub[n] = {n} \cup sub[t.child[s][n]] \cup sub[t.child[Other(s)][n]]
    BY <1>1 DEF Split
  <1>6. n \notin sub[t.child[s][n]]
    BY <1>3, BeyondFacts, ShapeType
  <1>7. ASSUME t.child[s][n] # NULL
        PROVE  t.child[s][n] \in M /\ t.parent[t.child[s][n]] = n /\ t.child[s][n] \in sub[t.child[s][n]]
    BY <1>1, <1>2, <1>7 DEF Down
  <1>8. ASSUME t.child[s][n] # NULL, t.child[Other(s)][n] = t.child[s][n] PROVE FALSE
    <2> DEFINE c == t.child[s][n]
    <2>1. Beyond(s, Key(c), Key(n)) /\ Beyond(Other(s), Key(c), Key(n)) /\ c \in M
      BY <1>3, <1>4, <1>7, <1>8
    <2>2. Key(c) \in Int /\ Key(n) \in Int
      BY <2>1, ShapeType
    <2> HIDE DEF c
    <2> QED  BY <2>1, <2>2, BeyondFacts
  <1>9. ASSUME t.child[s][n] # NULL, NEW q \in Side PROVE t.child[q][t.child[s][n]] # n
    <2> DEFINE c == t.child[s][n]
    <2>1. c \in M /\ n \notin sub[c]
      BY <1>6, <1>7, <1>9
    <2> HIDE DEF c
    <2>2. Split(t, sub, c)
      BY <2>1 DEF Shape
    <2>3. sub[t.child[q][c]] \in SUBSET sub[c]
      BY <2>2 DEF Split
    <2> QED  BY <1>2, <2>1, <2>3 DEF c
  <1>10. t.child[s][n] # n
    BY <1>2, <1>6
  <1> QED  BY <1>2, <1>3, <1>5, <1>6, <1>7, <1>8, <1>9, <1>10

(* A parent, and the side of it on which a node hangs. *)
LEMMA ParentFacts ==
    ASSUME NEW t, NEW M, NEW sub, Shape(t, M, sub), NEW n \in M
    PROVE  /\ t.parent[n] = NULL <=> n = t.root
           /\ t.parent[n] # n /\ t.parent[n] \notin sub[n]
           /\ \A q \in Side : t.child[q][n] # NULL => t.child[q][n] # t.parent[n]
           /\ t.parent[n] # NULL =>
                 /\ t.parent[n] \in M /\ SideOf(t, t.parent[n], n) \in Side
                 /\ t.child[SideOf(t, t.parent[n], n)][t.parent[n]] = n
                 /\ sub[n] \in SUBSET sub[t.parent[n]]
                 /\ \A q \in Side : t.child[q][t.parent[n]] = n => q = SideOf(t, t.parent[n], n)
           /\ \A m \in M, q \in Side : t.child[q][m] = n => m = t.parent[n]
  <1> DEFINE p == t.parent[n]
  <1>0. n # NULL /\ p \in Ptr /\ NULL \notin M
    BY ShapeType DEF Ptr
  <1>1. p = NULL <=> n = t.root
    BY <1>0 DEF Shape, Up
  <1>2. ASSUME p # NULL PROVE p \in M /\ \E s \in Side : t.child[s][p] = n
    BY <1>2 DEF Shape, Up
  <1> HIDE DEF p
  <1>3. ASSUME p # NULL PROVE SideOf(t, p, n) \in Side /\ t.child[SideOf(t, p, n)][p] = n
    BY <1>2, <1>3 DEF SideOf, Side
  <1>4. ASSUME p # NULL, NEW q \in Side, t.child[q][p] = n PROVE q = SideOf(t, p, n)
    <2>1. t.child[Other(q)][p] # n
      BY <1>0, <1>2, <1>4, ChildFacts
    <2> QED  BY <1>3, <1>4, <2>1, SideFacts
  <1>5. ASSUME p # NULL PROVE p \notin sub[n] /\ sub[n] \in SUBSET sub[p] /\ p # n
    <2> DEFINE s == SideOf(t, p, n)
    <2>1. s \in Side /\ t.child[s][p] = n /\ p \in M
      BY <1>2, <1>3, <1>5
    <2> HIDE DEF s
    <2> QED  BY <2>1, ChildFacts
  <1>6. p = NULL => p \notin sub[n] /\ p # n
    BY <1>0, ShapeType
  <1>7. ASSUME NEW q \in Side, t.child[q][n] # NULL PROVE t.child[q][n] # p
    BY <1>5, <1>6, <1>7, ChildFacts
  <1>8. ASSUME NEW m \in M, NEW q \in Side, t.child[q][m] = n PROVE m = p
    BY <1>0, <1>8, ChildFacts DEF p
  <1> QED  BY <1>1, <1>2, <1>3, <1>4, <1>5, <1>6, <1>7, <1>8 DEF p

(* Only the root has no parent. *)
LEMMA RootFacts ==
    ASSUME NEW t, NEW M, NEW sub, Shape(t, M, sub), NEW n \in M
    PROVE  t.parent[n] = NULL <=> n = t.root
  BY ParentFacts, Zenon

(* What is above a node that is not the root. *)
LEMMA AboveFacts ==
    ASSUME NEW t, NEW M, NEW sub, Shape(t, M, sub), NEW n \in M, t.parent[n] # NULL
    PROVE  /\ t.parent[n] \in M /\ SideOf(t, t.parent[n], n) \in Side
           /\ t.child[SideOf(t, t.parent[n], n)][t.parent[n]] = n
           /\ sub[n] \in SUBSET sub[t.parent[n]]
  BY ParentFacts, Zenon

(* A node hangs below one parent only, on one side. *)
LEMMA SideFound ==
    ASSUME NEW t, NEW M, NEW sub, Shape(t, M, sub), NEW n \in M, NEW m \in M, NEW q \in Side,
           t.child[q][m] = n
    PROVE  m = t.parent[n] /\ q = SideOf(t, m, n)
  <1>1. n # NULL /\ m = t.parent[n] /\ t.child[Other(q)][m] # n
    <2>1. n # NULL
      BY ShapeType
    <2> QED  BY <2>1, ChildFacts
  <1>2. SideOf(t, m, n) \in Side /\ t.child[SideOf(t, m, n)][m] = n
    BY DEF SideOf, Side
  <1> QED  BY <1>1, <1>2, SideFacts

-----------------------------------------------------------------------------
(* Rotations *)

(* r is t after a rotation of node to side s. *)
Rotated(t, node, s, r) ==
    LET up == t.child[Other(s)][node]
        inner == t.child[s][up]
        above == t.parent[node]
    IN  /\ r \in Tree
        /\ r.root = IF above = NULL THEN up ELSE t.root
        /\ \A n \in Node : r.parent[n] = IF n = up THEN above
                                         ELSE IF n = node THEN up
                                         ELSE IF n = inner THEN node
                                         ELSE t.parent[n]
        /\ \A n \in Node : \A q \in Side :
              r.child[q][n] = IF n = node /\ q = Other(s) THEN inner
                              ELSE IF n = up /\ q = s THEN node
                              ELSE IF n = above /\ q = SideOf(t, above, node) THEN up
                              ELSE t.child[q][n]
        /\ r.red = t.red

(* The sets below the nodes after a rotation. *)
RotatedSub(t, node, s, sub) ==
    LET up == t.child[Other(s)][node]
    IN  [n \in Ptr |->
            IF n = up THEN sub[node]
            ELSE IF n = node THEN {node} \cup sub[t.child[s][node]] \cup sub[t.child[s][up]]
            ELSE sub[n]]

(* The nodes that take part in a rotation are different ones. *)
LEMMA RotationNodes ==
    ASSUME NEW t, NEW M, NEW sub, Shape(t, M, sub), NEW node \in M, NEW s \in Side,
           t.child[Other(s)][node] # NULL
    PROVE  LET up == t.child[Other(s)][node]
               inner == t.child[s][up]
               above == t.parent[node]
           IN  /\ Other(s) \in Side /\ Other(Other(s)) = s /\ Other(s) # s
               /\ up \in M /\ inner \in M \cup {NULL} /\ above \in M \cup {NULL}
               /\ up # node /\ inner # node /\ inner # up /\ above # node /\ above # up
               /\ inner # NULL => inner # above
               /\ t.child[s][node] # up /\ (t.child[s][node] # NULL => t.child[s][node] # above)
               /\ (t.child[Other(s)][up] # NULL => t.child[Other(s)][up] # above)
               /\ NULL \notin {node, up}
  <1> DEFINE up == t.child[Other(s)][node]
             inner == t.child[s][up]
             above == t.parent[node]
  <1>1. Other(s) \in Side /\ Other(Other(s)) = s /\ Other(s) # s
    BY SideFacts
  <1>2. up \in M /\ up # node /\ up \in sub[up] /\ up \in sub[node] /\ t.child[s][node] # up
           /\ sub[node] = {node} \cup sub[up] \cup sub[t.child[s][node]]
    BY <1>1, ChildFacts
  <1>3. above \in M \cup {NULL} /\ above # node /\ above \notin sub[node]
    BY ParentFacts
  <1>4. inner # node
    BY <1>1, ChildFacts
  <1> HIDE DEF up, above
  <1>5. /\ inner # up /\ inner \in M \cup {NULL} /\ (inner # NULL => inner \in sub[up])
        /\ (t.child[Other(s)][up] # NULL => t.child[Other(s)][up] \in sub[up])
    BY <1>1, <1>2, ChildFacts
  <1>6. t.child[s][node] # NULL => t.child[s][node] \in sub[node]
    BY ChildFacts
  <1>7. NULL \notin M
    BY ShapeType
  <1> QED  BY <1>1, <1>2, <1>3, <1>4, <1>5, <1>6, <1>7 DEF up, above

(* The pointers that __rb_rotate_left and __rb_rotate_right write. *)
LEMMA RotateFields ==
    ASSUME NEW t, NEW M, NEW sub, Shape(t, M, sub), NEW node \in M, NEW s \in Side,
           t.child[Other(s)][node] # NULL
    PROVE  Rotated(t, node, s, Rotate(t, node, s))
  <1> DEFINE up == t.child[Other(s)][node]
             inner == t.child[s][up]
             above == t.parent[node]
  <1>1. Rotate(t, node, s) = Relink(t, node, s, up, inner, above)
    BY DEF Rotate
  <1>2. t \in Tree /\ M \in SUBSET Node /\ NULL \in Ptr /\ Node \in SUBSET Ptr
    BY ShapeType DEF Ptr
  <1>3. up \in M /\ inner \in M \cup {NULL} /\ above \in M \cup {NULL}
           /\ up # node /\ inner # node /\ inner # up /\ above # node /\ above # up
    BY RotationNodes
  <1> HIDE DEF up, inner, above
  <1>4. up \in Node /\ node \in Node /\ inner \in Ptr /\ above \in Ptr
    BY <1>2, <1>3
  <1> DEFINE r == Relink(t, node, s, up, inner, above)
  <1>5. /\ r \in Tree
        /\ r.root = IF above = NULL THEN up ELSE t.root
        /\ \A n \in Node : r.parent[n] = IF n = up THEN above
                                         ELSE IF n = node THEN up
                                         ELSE IF n = inner THEN node
                                         ELSE t.parent[n]
        /\ \A n \in Node : \A q \in Side :
              r.child[q][n] = IF n = node /\ q = Other(s) THEN inner
                              ELSE IF n = up /\ q = s THEN node
                              ELSE IF n = above /\ q = SideOf(t, above, node) THEN up
                              ELSE t.child[q][n]
        /\ r.red = t.red
    BY <1>2, <1>3, <1>4, RelinkFields
  <1> HIDE DEF r
  <1>6. Rotated(t, node, s, r)
    BY <1>5, Zenon DEF Rotated, up, inner, above
  <1> QED  BY <1>1, <1>6 DEF r

(* A rotation keeps the search tree. *)
LEMMA RotateShape ==
    ASSUME NEW t, NEW M, NEW sub, Shape(t, M, sub), NEW node \in M, NEW s \in Side,
           t.child[Other(s)][node] # NULL, NEW r, Rotated(t, node, s, r)
    PROVE  Shape(r, M, RotatedSub(t, node, s, sub))
  <1> DEFINE up == t.child[Other(s)][node]
             inner == t.child[s][up]
             above == t.parent[node]
             o == Other(s)
             sub2 == RotatedSub(t, node, s, sub)
  <1>1. o \in Side /\ Other(o) = s /\ o # s
    BY SideFacts
  <1>2. up \in M /\ inner \in M \cup {NULL} /\ above \in M \cup {NULL}
           /\ up # node /\ inner # node /\ inner # up /\ above # node /\ above # up
           /\ (inner # NULL => inner # above)
           /\ t.child[s][node] # up /\ NULL \notin {node, up}
    BY RotationNodes
  <1>3. /\ r \in Tree
        /\ r.root = IF above = NULL THEN up ELSE t.root
        /\ \A n \in Node : r.parent[n] = IF n = up THEN above
                                         ELSE IF n = node THEN up
                                         ELSE IF n = inner THEN node
                                         ELSE t.parent[n]
        /\ \A n \in Node : \A q \in Side :
              r.child[q][n] = IF n = node /\ q = o THEN inner
                              ELSE IF n = up /\ q = s THEN node
                              ELSE IF n = above /\ q = SideOf(t, above, node) THEN up
                              ELSE t.child[q][n]
    BY DEF Rotated
  <1>4. /\ sub2 \in [Ptr -> SUBSET M]
        /\ \A n \in Ptr : sub2[n] =
            IF n = up THEN sub[node]
            ELSE IF n = node THEN {node} \cup sub[t.child[s][node]] \cup sub[inner]
            ELSE sub[n]
    <2>1. \A n \in Ptr : sub[n] \in SUBSET M
      BY ShapeType
    <2>2. t.child[s][node] \in Ptr /\ inner \in Ptr /\ node \in Ptr
      BY <1>2, ShapeType DEF Ptr
    <2> HIDE DEF up, inner
    <2> QED  BY <2>1, <2>2 DEF RotatedSub, up, inner
  <1>5. o = Other(s) /\ up = t.child[o][node] /\ inner = t.child[s][up] /\ above = t.parent[node]
    OBVIOUS
  <1>6. /\ M \in SUBSET Node /\ M \in SUBSET Ptr /\ NULL \notin M /\ NULL \in Ptr
        /\ sub[NULL] = {} /\ sub[t.root] = M /\ t.root \in M \cup {NULL}
        /\ \A n \in M : t.child[s][n] \in M \cup {NULL} /\ t.child[o][n] \in M \cup {NULL}
    BY <1>1, ShapeType DEF Ptr
  <1>15. above # NULL => /\ above \in M /\ SideOf(t, above, node) \in Side
                         /\ t.child[SideOf(t, above, node)][above] = node
    BY AboveFacts
  <1>16. above = NULL <=> node = t.root
    BY RootFacts
  <1> HIDE DEF up, inner, above, o, sub2
  <1>7. sub[node] = {node} \cup sub[t.child[s][node]] \cup sub[up]
           /\ sub[up] = {up} \cup sub[inner] \cup sub[t.child[o][up]]
    BY <1>1, <1>2, <1>5, ChildFacts
  <1>8. r.root # NULL => r.root \in M /\ r.parent[r.root] = NULL
    <2>1. CASE above = NULL
      BY <1>2, <1>3, <1>6, <2>1
    <2>2. CASE above # NULL
      <3>1. t.root # node /\ t.root # NULL /\ t.parent[t.root] = NULL
        BY <1>2, <1>5, <1>6, <2>2, ParentFacts, ShapeType
      <3>2. t.root # up /\ t.root # inner
        BY <1>1, <1>2, <1>5, <1>6, <3>1, ChildFacts
      <3> QED  BY <1>2, <1>3, <1>6, <2>2, <3>1, <3>2
    <2> QED  BY <2>1, <2>2
  <1>9. sub2[NULL] = {} /\ sub2[r.root] = M
    <2>1. sub2[NULL] = {}
      BY <1>2, <1>4, <1>6
    <2>2. CASE above = NULL
      <3>1. t.root = node /\ r.root = up /\ up \in Ptr
        BY <1>2, <1>3, <1>6, <1>16, <2>2
      <3>2. sub2[up] = sub[node]
        BY <1>4, <3>1
      <3> QED  BY <1>6, <2>1, <3>1, <3>2
    <2>3. CASE above # NULL
      <3>1. t.root # node /\ t.root # up /\ r.root = t.root /\ t.root \in Ptr
        BY <1>1, <1>2, <1>3, <1>5, <1>6, <2>3, ParentFacts, ChildFacts, ShapeType
      <3>2. sub2[t.root] = sub[t.root]
        BY <1>4, <3>1
      <3> QED  BY <1>6, <2>1, <3>1, <3>2
    <2> QED  BY <2>2, <2>3
  <1>10. ASSUME NEW n \in M PROVE Down(r, M, n)
    <2> SUFFICES ASSUME NEW q \in Side, r.child[q][n] # NULL
                 PROVE  r.child[q][n] \in M /\ r.parent[r.child[q][n]] = n
      BY DEF Down
    <2>0. n \in Node /\ (q = s \/ q = o)
      BY <1>5, <1>6, SideFacts
    <2>1. CASE n = node /\ q = o
      BY <1>2, <1>3, <1>6, <2>0, <2>1
    <2>2. CASE n = up /\ q = s
      BY <1>1, <1>2, <1>3, <1>6, <2>0, <2>2
    <2>3. CASE n = above /\ q = SideOf(t, above, node)
      BY <1>1, <1>2, <1>3, <1>6, <2>0, <2>3
    <2>4. CASE /\ ~ (n = node /\ q = o) /\ ~ (n = up /\ q = s)
               /\ ~ (n = above /\ q = SideOf(t, above, node))
      <3> DEFINE c == t.child[q][n]
      <3>1. r.child[q][n] = c /\ c # NULL
        BY <1>3, <2>0, <2>4
      <3>2. c \in M /\ t.parent[c] = n
        BY <3>1, ChildFacts
      <3>3. c # up
        BY <1>1, <1>2, <1>5, <2>0, <2>4, <3>2, ChildFacts
      <3>4. ASSUME c = node PROVE FALSE
        <4>1. n = above /\ above # NULL /\ t.child[q][above] = node
          BY <1>5, <1>6, <3>2, <3>4
        <4>2. q = SideOf(t, above, node)
          BY <4>1, SideFound
        <4> QED  BY <2>4, <4>1, <4>2
      <3>5. c # inner
        BY <1>1, <1>2, <1>5, <2>0, <2>4, <3>1, <3>2, ChildFacts
      <3> HIDE DEF c
      <3> QED  BY <1>3, <1>6, <3>1, <3>2, <3>3, <3>4, <3>5
    <2> QED  BY <2>1, <2>2, <2>3, <2>4
  <1>11. ASSUME NEW n \in M PROVE Up(r, M, n)
    <2>0. n \in Node /\ node \in Node /\ up \in Node
      BY <1>2, <1>6
    <2>1. CASE n = up
      <3>1. r.parent[n] = above
        BY <1>3, <2>0, <2>1
      <3>2. CASE above = NULL
        BY <1>3, <2>1, <3>1, <3>2 DEF Up
      <3>3. CASE above # NULL
        <4>1. above \in M /\ above \in Node /\ SideOf(t, above, node) \in Side
          BY <1>6, <1>15, <3>3
        <4>2. r.child[SideOf(t, above, node)][above] = up
          BY <1>2, <1>3, <4>1
        <4> QED  BY <2>1, <3>1, <3>3, <4>1, <4>2 DEF Up
      <3> QED  BY <3>2, <3>3
    <2>2. CASE n = node
      <3>1. r.parent[n] = up /\ r.child[s][up] = node
        BY <1>1, <1>2, <1>3, <2>0, <2>2
      <3> QED  BY <1>2, <2>2, <3>1 DEF Up
    <2>3. CASE n = inner
      <3>1. r.parent[n] = node /\ r.child[o][node] = inner
        BY <1>1, <1>2, <1>3, <2>0, <2>3
      <3> QED  BY <1>1, <1>2, <2>3, <3>1 DEF Up
    <2>4. CASE n # up /\ n # node /\ n # inner
      <3> DEFINE p == t.parent[n]
      <3>1. r.parent[n] = p
        BY <1>3, <2>0, <2>4
      <3>2. CASE p = NULL
        <4>1. n = t.root /\ above # NULL
          BY <1>5, <2>4, <3>2, RootFacts
        <4> QED  BY <1>3, <3>1, <3>2, <4>1 DEF Up
      <3>3. CASE p # NULL
        <4> DEFINE d == SideOf(t, p, n)
        <4>1. p \in M /\ p \in Node /\ d \in Side /\ t.child[d][p] = n
          <5>1. p \in M /\ d \in Side /\ t.child[d][p] = n
            BY <3>3, AboveFacts
          <5> QED  BY <1>6, <5>1
        <4> HIDE DEF d, p
        <4>2. /\ ~ (p = node /\ d = o) /\ ~ (p = up /\ d = s)
          BY <1>5, <2>4, <4>1
        <4>3. ~ (p = above /\ d = SideOf(t, above, node))
          BY <1>15, <2>4, <4>1, <3>3
        <4>4. r.child[d][p] = n
          BY <1>3, <4>1, <4>2, <4>3
        <4> QED  BY <3>1, <3>3, <4>1, <4>4 DEF Up
      <3> QED  BY <3>2, <3>3
    <2> QED  BY <2>1, <2>2, <2>3, <2>4
  <1>12. ASSUME NEW n \in M PROVE Split(r, sub2, n)
    <2>0. node \in Node /\ up \in Node /\ n \in Node /\ node \in Ptr /\ up \in Ptr /\ n \in Ptr
      BY <1>2, <1>6
    <2>t. \A m \in Ptr : m # up /\ m # node => sub2[m] = sub[m]
      BY <1>4
    <2>u. sub2[up] = sub[node] /\ sub2[node] = {node} \cup sub[t.child[s][node]] \cup sub[inner]
      BY <1>2, <1>4, <2>0
    <2> DEFINE outer == t.child[o][up]
               near == t.child[s][node]
    <2>v. /\ near \in Ptr /\ near # up /\ near # node /\ outer \in Ptr /\ outer # up /\ outer # node
          /\ inner \in Ptr
      BY <1>1, <1>2, <1>5, <1>6, ChildFacts
    <2>w. /\ \A m \in sub[near] : Beyond(s, Key(m), Key(node))
          /\ \A m \in sub[up] : Beyond(o, Key(m), Key(node))
          /\ \A m \in sub[inner] : Beyond(s, Key(m), Key(up))
          /\ \A m \in sub[outer] : Beyond(o, Key(m), Key(up))
      BY <1>1, <1>2, <1>5, ChildFacts
    <2>x. sub2[near] = sub[near] /\ sub2[outer] = sub[outer] /\ sub2[inner] = sub[inner]
      BY <1>2, <2>t, <2>v
    <2> HIDE DEF outer, near
    <2>a. ASSUME /\ sub2[n] = {n} \cup sub2[r.child[s][n]] \cup sub2[r.child[o][n]]
                 /\ \A m \in sub2[r.child[s][n]] : Beyond(s, Key(m), Key(n))
                 /\ \A m \in sub2[r.child[o][n]] : Beyond(o, Key(m), Key(n))
          PROVE  Split(r, sub2, n)
      <3> SUFFICES ASSUME NEW q \in Side
                   PROVE  /\ sub2[n] = {n} \cup sub2[r.child[q][n]] \cup sub2[r.child[Other(q)][n]]
                          /\ \A m \in sub2[r.child[q][n]] : Beyond(q, Key(m), Key(n))
        BY DEF Split
      <3>1. CASE q = s
        BY <1>5, <2>a, <3>1
      <3>2. CASE q = o
        BY <1>1, <2>a, <3>2
      <3> QED  BY <1>5, <3>1, <3>2, SideFacts
    <2>1. CASE n = node
      <3>1. r.child[s][n] = near /\ r.child[o][n] = inner
        BY <1>1, <1>2, <1>3, <2>0, <2>1 DEF near
      <3>2. sub[inner] \in SUBSET sub[up]
        BY <1>7
      <3> QED  BY <2>1, <2>a, <2>u, <2>w, <2>x, <3>1, <3>2 DEF near
    <2>2. CASE n = up
      <3>1. r.child[s][n] = node /\ r.child[o][n] = outer
        BY <1>1, <1>2, <1>3, <2>0, <2>2 DEF outer
      <3>2. ASSUME NEW m \in sub2[node] PROVE Beyond(s, Key(m), Key(up))
        <4>1. Beyond(o, Key(up), Key(node))
          BY <1>7, <2>w
        <4>2. Key(up) \in Int /\ Key(node) \in Int /\ Key(m) \in Int
          BY <1>2, <1>4, <2>0, <3>2, ShapeType
        <4>3. Beyond(s, Key(node), Key(up))
          BY <1>1, <4>1, <4>2, BeyondFacts
        <4>4. m = node \/ m \in sub[near] \/ m \in sub[inner]
          BY <2>u, <3>2 DEF near
        <4>5. CASE m \in sub[near]
          <5>1. Beyond(s, Key(m), Key(node))
            BY <2>w, <4>5
          <5> QED  BY <4>2, <4>3, <5>1, BeyondFacts
        <4> QED  BY <2>w, <4>3, <4>4, <4>5
      <3>3. sub2[n] = {n} \cup sub2[node] \cup sub2[outer]
        BY <1>7, <2>2, <2>u, <2>x DEF outer
      <3> QED  BY <2>2, <2>a, <2>w, <2>x, <3>1, <3>2, <3>3
    <2>3. CASE n # node /\ n # up
      <3>1. ASSUME NEW q \in Side PROVE sub2[r.child[q][n]] = sub[t.child[q][n]]
        <4>1. CASE n = above /\ q = SideOf(t, above, node)
          <5>1. t.child[q][n] = node
            BY <1>6, <1>15, <4>1
          <5>2. r.child[q][n] = up
            BY <1>3, <2>0, <2>3, <4>1
          <5> QED  BY <2>u, <5>1, <5>2
        <4>2. CASE ~ (n = above /\ q = SideOf(t, above, node))
          <5> DEFINE c == t.child[q][n]
          <5>1. r.child[q][n] = c
            BY <1>3, <2>0, <2>3, <4>2
          <5>2. c \in Ptr /\ (c # NULL => c \in M /\ t.parent[c] = n)
            BY ChildFacts, ShapeType
          <5>3. c # up
            BY <1>1, <1>2, <1>5, <2>3, <5>2, ChildFacts
          <5>4. ASSUME c = node PROVE FALSE
            <6>1. n = above /\ above # NULL /\ t.child[q][above] = node
              BY <1>2, <1>5, <1>6, <5>2, <5>4
            <6>2. q = SideOf(t, above, node)
              BY <6>1, SideFound
            <6> QED  BY <4>2, <6>1, <6>2
          <5> HIDE DEF c
          <5>5. sub2[c] = sub[c]
            BY <2>t, <5>2, <5>3, <5>4
          <5> QED  BY <5>1, <5>5 DEF c
        <4> QED  BY <4>1, <4>2
      <3>2. sub2[n] = sub[n]
        BY <2>0, <2>3, <2>t
      <3>3. sub2[r.child[s][n]] = sub[t.child[s][n]] /\ sub2[r.child[o][n]] = sub[t.child[o][n]]
        BY <1>1, <3>1
      <3>4. /\ sub[n] = {n} \cup sub[t.child[s][n]] \cup sub[t.child[o][n]]
            /\ \A m \in sub[t.child[s][n]] : Beyond(s, Key(m), Key(n))
            /\ \A m \in sub[t.child[o][n]] : Beyond(o, Key(m), Key(n))
        BY <1>1, <1>5, ChildFacts
      <3> QED  BY <2>a, <3>2, <3>3, <3>4
    <2> QED  BY <2>1, <2>2, <2>3
  <1>13. r \in Tree /\ M \in SUBSET Node /\ sub2 \in [Ptr -> SUBSET M]
    BY <1>3, <1>4, <1>6
  <1>14. Shape(r, M, sub2)
    BY <1>8, <1>9, <1>10, <1>11, <1>12, <1>13 DEF Shape
  <1> QED  BY <1>14 DEF sub2

(* Colours are no part of the shape. *)
LEMMA SameLinks ==
    ASSUME NEW t, NEW M, NEW sub, Shape(t, M, sub), NEW r \in Tree,
           r.root = t.root, r.parent = t.parent, r.child = t.child
    PROVE  Shape(r, M, sub)
  <1>1. \A n \in M : Down(r, M, n) /\ Split(r, sub, n) /\ Up(r, M, n)
    BY DEF Shape, Down, Split, Up
  <1> QED  BY <1>1 DEF Shape

-----------------------------------------------------------------------------
(* Linking *)

(* Key k lies next to p's among the keys of M: on the same side of every other. *)
Adjacent(M, p, k) ==
    \A m \in M \ {p} : \A q \in Side : Beyond(q, Key(p), Key(m)) => Beyond(q, k, Key(m))

(* r is t after node was linked below p. *)
Linked(t, node, p, s, r) ==
    /\ r \in Tree
    /\ r.root = IF p = NULL THEN node ELSE t.root
    /\ \A m \in Node : r.parent[m] = IF m = node THEN p ELSE t.parent[m]
    /\ \A m \in Node : r.red[m] = IF m = node THEN TRUE ELSE t.red[m]
    /\ \A m \in Node : \A q \in Side :
          r.child[q][m] = IF m = node THEN NULL
                          ELSE IF m = p /\ q = s THEN node ELSE t.child[q][m]

(* The fields that rb_link_node writes. *)
LEMMA LinkFields ==
    ASSUME NEW t \in Tree, NEW node \in Node, NEW p \in Ptr, p # node, NEW s \in Side
    PROVE  Linked(t, node, p, s, Link(t, node, p, s))
  <1> DEFINE leaf == SetNode(t, node, p, NULL, NULL, TRUE)
  <1>0. NULL \in Ptr /\ TRUE \in BOOLEAN /\ NULL \notin Node /\ node \in Ptr
    BY NodeFacts DEF Ptr
  <1>x. NodeSet(t, node, p, NULL, NULL, TRUE, leaf)
    BY <1>0, SetNodeFields
  <1>1. leaf \in Tree
    BY <1>x DEF NodeSet
  <1>2. /\ leaf.root = t.root
        /\ \A m \in Node :
              /\ leaf.parent[m] = IF m = node THEN p ELSE t.parent[m]
              /\ leaf.red[m] = IF m = node THEN TRUE ELSE t.red[m]
              /\ leaf.child["left"][m] = IF m = node THEN NULL ELSE t.child["left"][m]
              /\ leaf.child["right"][m] = IF m = node THEN NULL ELSE t.child["right"][m]
    BY <1>x DEF NodeSet
  <1> HIDE DEF leaf
  <1>3. Link(t, node, p, s) = IF p = NULL THEN [leaf EXCEPT !.root = node]
                              ELSE SetChild(leaf, s, p, node)
    BY DEF Link, leaf
  <1>4. \A m \in Node : \A q \in Side : leaf.child[q][m] = IF m = node THEN NULL ELSE t.child[q][m]
    BY <1>2 DEF Side
  <1>5. CASE p = NULL
    <2> DEFINE r == [leaf EXCEPT !.root = node]
    <2>1. r \in Tree /\ r.root = node /\ r.parent = leaf.parent /\ r.red = leaf.red /\ r.child = leaf.child
      BY <1>0, <1>1 DEF Tree
    <2> HIDE DEF r
    <2>3. \A m \in Node : \A q \in Side :
          r.child[q][m] = IF m = node THEN NULL
                          ELSE IF m = p /\ q = s THEN node ELSE t.child[q][m]
      BY <1>0, <1>4, <1>5, <2>1
    <2>4. /\ \A m \in Node : r.parent[m] = IF m = node THEN p ELSE t.parent[m]
          /\ \A m \in Node : r.red[m] = IF m = node THEN TRUE ELSE t.red[m]
      BY <1>2, <2>1
    <2>2. Linked(t, node, p, s, r)
      BY <1>5, <2>1, <2>3, <2>4 DEF Linked
    <2> QED  BY <1>3, <1>5, <2>2 DEF r
  <1>6. CASE p # NULL
    <2> DEFINE r == SetChild(leaf, s, p, node)
    <2>1. p \in Node
      BY <1>6 DEF Ptr
    <2>2. /\ r \in Tree /\ r.root = leaf.root /\ r.parent = leaf.parent /\ r.red = leaf.red
          /\ \A m \in Node : \A q \in Side :
                r.child[q][m] = IF m = p /\ q = s THEN node ELSE leaf.child[q][m]
      BY <1>0, <1>1, <2>1, SetChildFields
    <2> HIDE DEF r
    <2>3. \A m \in Node : \A q \in Side :
          r.child[q][m] = IF m = node THEN NULL
                          ELSE IF m = p /\ q = s THEN node ELSE t.child[q][m]
      BY <1>4, <2>2
    <2>4. /\ r.root = t.root
          /\ \A m \in Node : r.parent[m] = IF m = node THEN p ELSE t.parent[m]
          /\ \A m \in Node : r.red[m] = IF m = node THEN TRUE ELSE t.red[m]
      BY <1>2, <2>2
    <2>5. Linked(t, node, p, s, r)
      BY <1>6, <2>2, <2>3, <2>4 DEF Linked
    <2> QED  BY <1>3, <1>6, <2>5 DEF r
  <1> QED  BY <1>5, <1>6

LinkedSub(sub, node, p) ==
    [n \in Ptr |-> IF n = node THEN {node}
                   ELSE IF p \in sub[n] THEN sub[n] \cup {node} ELSE sub[n]]

(* A node linked at a free place next to its key makes a search tree again. *)
LEMMA LinkShape ==
    ASSUME NEW t, NEW M, NEW sub, Shape(t, M, sub), NEW node \in Node \ M, NEW s \in Side,
           NEW p \in M \cup {NULL},
           IF p = NULL THEN t.root = NULL
           ELSE /\ t.child[s][p] = NULL /\ Beyond(s, Key(node), Key(p))
                /\ Adjacent(M, p, Key(node)),
           NEW r, Linked(t, node, p, s, r)
    PROVE  Shape(r, M \cup {node}, LinkedSub(sub, node, p))
  <1> DEFINE M2 == M \cup {node}
             sub2 == LinkedSub(sub, node, p)
  <1>1. /\ t \in Tree /\ M \in SUBSET Node /\ M \in SUBSET Ptr /\ NULL \notin M /\ NULL \in Ptr
        /\ sub[NULL] = {} /\ sub[t.root] = M /\ t.root \in M \cup {NULL}
        /\ (t.root # NULL => t.parent[t.root] = NULL)
        /\ \A n \in Ptr : sub[n] \in SUBSET M
    BY ShapeType DEF Ptr
  <1>2. node \notin M /\ node \in Node /\ node \in Ptr /\ node # NULL /\ p # node /\ M2 \in SUBSET Node
    BY <1>1, NodeFacts DEF Ptr
  <1>3. /\ sub2 \in [Ptr -> SUBSET M2]
        /\ sub2[node] = {node}
        /\ \A n \in Ptr : n # node => sub2[n] = IF p \in sub[n] THEN sub[n] \cup {node} ELSE sub[n]
    BY <1>1, <1>2 DEF LinkedSub
  <1>4. /\ r \in Tree
        /\ r.root = IF p = NULL THEN node ELSE t.root
        /\ \A m \in Node : r.parent[m] = IF m = node THEN p ELSE t.parent[m]
        /\ \A m \in Node : \A q \in Side :
              r.child[q][m] = IF m = node THEN NULL
                              ELSE IF m = p /\ q = s THEN node ELSE t.child[q][m]
    BY DEF Linked
  <1>5. p = NULL => M = {} /\ t.root = NULL
    BY <1>1
  <1>6. p # NULL => p \in M /\ t.child[s][p] = NULL /\ Beyond(s, Key(node), Key(p)) /\ t.root \in M
    BY <1>1
  <1> HIDE DEF M2, sub2
  <1>7. M2 = M \cup {node}
    BY DEF M2
  <1>8. r.root \in M2 /\ r.parent[r.root] = NULL
    <2>1. CASE p = NULL
      BY <1>2, <1>4, <1>7, <2>1
    <2>2. CASE p # NULL
      <3>1. t.root \in M /\ t.root \in Node /\ t.parent[t.root] = NULL /\ t.root # node
        BY <1>1, <1>2, <1>6, <2>2
      <3> QED  BY <1>4, <1>7, <2>2, <3>1
    <2> QED  BY <2>1, <2>2
  <1>9. sub2[NULL] = {} /\ sub2[r.root] = M2
    <2>1. sub2[NULL] = {}
      BY <1>1, <1>2, <1>3
    <2>2. CASE p = NULL
      BY <1>3, <1>4, <1>5, <1>7, <2>1, <2>2
    <2>3. CASE p # NULL
      <3>1. t.root \in Ptr /\ t.root # node /\ p \in sub[t.root] /\ r.root = t.root
        BY <1>1, <1>2, <1>4, <1>6, <2>3
      <3>2. sub2[t.root] = sub[t.root] \cup {node}
        BY <1>3, <3>1
      <3> QED  BY <1>1, <1>7, <2>1, <3>1, <3>2
    <2> QED  BY <2>2, <2>3
  <1>10. ASSUME NEW n \in M2 PROVE Down(r, M2, n)
    <2> SUFFICES ASSUME NEW q \in Side, r.child[q][n] # NULL
                 PROVE  r.child[q][n] \in M2 /\ r.parent[r.child[q][n]] = n
      BY DEF Down
    <2>1. n \in M /\ n \in Node
      BY <1>1, <1>2, <1>4, <1>7
    <2>2. CASE n = p /\ q = s
      <3>1. r.child[q][n] = node
        BY <1>2, <1>4, <2>1, <2>2
      <3> QED  BY <1>2, <1>4, <1>7, <2>2, <3>1
    <2>3. CASE ~ (n = p /\ q = s)
      <3> DEFINE c == t.child[q][n]
      <3>1. r.child[q][n] = c
        BY <1>2, <1>4, <2>1, <2>3
      <3>2. c \in M /\ t.parent[c] = n
        BY <2>1, <3>1, ChildFacts
      <3> HIDE DEF c
      <3>3. c \in Node /\ c # node
        BY <1>1, <1>2, <3>2
      <3> QED  BY <1>4, <1>7, <3>1, <3>2, <3>3
    <2> QED  BY <2>2, <2>3
  <1>11. ASSUME NEW n \in M2 PROVE Up(r, M2, n)
    <2>0. n \in Node
      BY <1>1, <1>2, <1>7
    <2>1. CASE n = node
      <3>1. r.parent[n] = p
        BY <1>4, <2>0, <2>1
      <3>2. CASE p = NULL
        BY <1>4, <2>1, <3>1, <3>2 DEF Up
      <3>3. CASE p # NULL
        <4>1. r.child[s][p] = node /\ p \in M2
          BY <1>1, <1>2, <1>4, <1>6, <1>7, <3>3
        <4> QED  BY <2>1, <3>1, <3>3, <4>1 DEF Up
      <3> QED  BY <3>2, <3>3
    <2>2. CASE n \in M
      <3> DEFINE a == t.parent[n]
      <3>0. r.parent[n] = a
        BY <1>2, <1>4, <2>0, <2>2
      <3>1. CASE a = NULL
        <4>1. n = t.root /\ p # NULL
          BY <1>1, <1>5, <2>2, <3>1, RootFacts
        <4> QED  BY <1>4, <3>0, <3>1, <4>1 DEF Up
      <3>2. CASE a # NULL
        <4> DEFINE d == SideOf(t, a, n)
        <4>1. a \in M /\ d \in Side /\ t.child[d][a] = n
          BY <2>2, <3>2, AboveFacts
        <4> HIDE DEF a, d
        <4>2. ~ (a = p /\ d = s) /\ a \in Node /\ a # node
          BY <1>1, <1>2, <1>6, <2>2, <4>1
        <4>3. r.child[d][a] = n
          BY <1>4, <4>1, <4>2
        <4> QED  BY <1>7, <3>0, <3>2, <4>1, <4>3 DEF Up
      <3> QED  BY <3>1, <3>2
    <2> QED  BY <1>7, <2>1, <2>2
  <1>12. ASSUME NEW n \in M2 PROVE Split(r, sub2, n)
    <2> SUFFICES ASSUME NEW q \in Side
                 PROVE  /\ sub2[n] = {n} \cup sub2[r.child[q][n]] \cup sub2[r.child[Other(q)][n]]
                        /\ \A m \in sub2[r.child[q][n]] : Beyond(q, Key(m), Key(n))
      BY DEF Split
    <2>0. n \in Node /\ n \in Ptr /\ Other(q) \in Side /\ Other(Other(q)) = q /\ q # Other(q)
      BY <1>1, <1>2, <1>7, SideFacts DEF Ptr
    <2>1. CASE n = node
      <3>1. r.child[q][n] = NULL /\ r.child[Other(q)][n] = NULL
        BY <1>4, <2>0, <2>1
      <3> QED  BY <1>3, <1>9, <2>1, <3>1
    <2>2. CASE n \in M
      <3> DEFINE c(x) == t.child[x][n]
      <3>1. \A x \in Side : /\ c(x) \in Ptr /\ c(x) # node
                            /\ r.child[x][n] = IF n = p /\ x = s THEN node ELSE c(x)
        <4>1. \A x \in Side : c(x) \in Ptr /\ c(x) # node
          BY <1>2, <2>2, ShapeType
        <4> QED  BY <1>2, <1>4, <2>0, <2>2, <4>1
      <3>2. /\ sub[n] = {n} \cup sub[c(q)] \cup sub[c(Other(q))]
            /\ n \notin sub[c(q)] /\ n \notin sub[c(Other(q))]
            /\ \A m \in sub[c(q)] : Beyond(q, Key(m), Key(n))
            /\ \A m \in sub[c(Other(q))] : Beyond(Other(q), Key(m), Key(n))
        BY <2>0, <2>2, ChildFacts
      <3>3. n # node
        BY <1>2, <2>2
      <3>4. p # NULL
        BY <1>5, <2>2
      <3> HIDE DEF c
      <3>5. CASE n = p
        <4>1. sub2[n] = sub[n] \cup {node}
          BY <1>3, <2>0, <3>2, <3>3, <3>5
        <4>2. ASSUME NEW x \in Side, x # s PROVE sub2[r.child[x][n]] = sub[c(x)]
          <5>1. r.child[x][n] = c(x) /\ c(x) \in Ptr /\ c(x) # node
            BY <3>1, <4>2
          <5>2. p \notin sub[c(x)]
            BY <2>0, <3>2, <3>5, <4>2, SideFacts
          <5> QED  BY <1>3, <5>1, <5>2
        <4>3. r.child[s][n] = node /\ sub2[r.child[s][n]] = {node}
          BY <1>3, <3>1, <3>5
        <4>4. sub[c(s)] = {}
          BY <1>1, <1>6, <3>4, <3>5 DEF c
        <4>5. CASE q = s
          BY <1>6, <2>0, <3>2, <3>4, <3>5, <4>1, <4>2, <4>3, <4>4, <4>5
        <4>6. CASE Other(q) = s
          BY <1>6, <2>0, <3>2, <3>4, <3>5, <4>1, <4>2, <4>3, <4>4, <4>6
        <4> QED  BY <2>0, <4>5, <4>6, SideFacts
      <3>6. CASE n # p
        <4>1. ASSUME NEW x \in Side
              PROVE  sub2[r.child[x][n]] = IF p \in sub[c(x)] THEN sub[c(x)] \cup {node} ELSE sub[c(x)]
          <5>1. r.child[x][n] = c(x) /\ c(x) \in Ptr /\ c(x) # node
            BY <3>1, <3>6
          <5> QED  BY <1>3, <5>1
        <4>2. sub2[n] = IF p \in sub[n] THEN sub[n] \cup {node} ELSE sub[n]
          BY <1>3, <2>0, <3>3
        <4>3. ASSUME p \in sub[c(q)] PROVE Beyond(q, Key(node), Key(n))
          <5>1. Beyond(q, Key(p), Key(n)) /\ Adjacent(M, p, Key(node)) /\ n \in M \ {p}
            BY <2>2, <3>2, <3>4, <3>6, <4>3
          <5> QED  BY <5>1 DEF Adjacent
        <4>4. sub2[n] = {n} \cup sub2[r.child[q][n]] \cup sub2[r.child[Other(q)][n]]
          BY <2>0, <3>2, <3>6, <4>1, <4>2
        <4>5. \A m \in sub2[r.child[q][n]] : Beyond(q, Key(m), Key(n))
          BY <3>2, <4>1, <4>3
        <4> QED  BY <4>4, <4>5
      <3> QED  BY <3>5, <3>6
    <2> QED  BY <1>7, <2>1, <2>2
  <1>13. r \in Tree /\ M2 \in SUBSET Node /\ sub2 \in [Ptr -> SUBSET M2]
    BY <1>1, <1>2, <1>3, <1>4, <1>7
  <1>14. Shape(r, M2, sub2)
    BY <1>8, <1>9, <1>10, <1>11, <1>12, <1>13 DEF Shape
  <1> QED  BY <1>14 DEF M2, sub2

-----------------------------------------------------------------------------
(* Splicing *)

(* r is t after node gave its place to its child c. *)
Spliced(t, node, c, r) ==
    LET p == t.parent[node]
    IN  /\ r \in Tree
        /\ r.root = IF p = NULL THEN c ELSE t.root
        /\ \A m \in Node : r.parent[m] = IF m = c THEN p ELSE t.parent[m]
        /\ \A m \in Node : \A q \in Side :
              r.child[q][m] = IF m = p /\ q = SideOf(t, p, node) THEN c ELSE t.child[q][m]
        /\ r.red = t.red

(* The pointers written when a node's only child takes its place. *)
LEMMA SpliceFields ==
    ASSUME NEW t \in Tree, NEW node \in Node
    PROVE  Spliced(t, node, OnlyChild(t, node), Splice(t, node))
  <1> DEFINE c == OnlyChild(t, node)
             p == t.parent[node]
             u == SetParent(t, c, p)
             r == SetDown(u, p, node, c)
  <1>1. Splice(t, node) = r
    BY DEF Splice
  <1>2. c \in Ptr /\ p \in Ptr
    BY DEF OnlyChild, Tree, Side
  <1> HIDE DEF c, p
  <1>3. u \in Tree
    BY <1>2, SetParentFields
  <1>4. /\ u.root = t.root /\ u.child = t.child /\ u.red = t.red
        /\ \A m \in Node : u.parent[m] = IF m = c THEN p ELSE t.parent[m]
    BY <1>2, SetParentFields
  <1> HIDE DEF u
  <1>5. /\ r \in Tree /\ r.parent = u.parent /\ r.red = u.red
        /\ r.root = IF p = NULL THEN c ELSE u.root
        /\ \A m \in Node : \A q \in Side :
              r.child[q][m] = IF m = p /\ q = SideOf(u, p, node) THEN c ELSE u.child[q][m]
    BY <1>2, <1>3, SetDownFields
  <1> HIDE DEF r
  <1>6. SideOf(u, p, node) = SideOf(t, p, node)
    BY <1>4 DEF SideOf
  <1>7. /\ r \in Tree /\ r.red = t.red
        /\ r.root = IF p = NULL THEN c ELSE t.root
        /\ \A m \in Node : r.parent[m] = IF m = c THEN p ELSE t.parent[m]
        /\ \A m \in Node : \A q \in Side :
              r.child[q][m] = IF m = p /\ q = SideOf(t, p, node) THEN c ELSE t.child[q][m]
    BY <1>4, <1>5, <1>6
  <1>8. Spliced(t, node, c, r)
    BY <1>7, Zenon DEF Spliced, p
  <1> QED  BY <1>1, <1>8 DEF c

SplicedSub(sub, node) == [n \in Ptr |-> sub[n] \ {node}]

(* A node with at most one child is taken out of a search tree. *)
LEMMA SpliceShape ==
    ASSUME NEW t, NEW M, NEW sub, Shape(t, M, sub), NEW node \in M, NEW s \in Side,
           t.child[Other(s)][node] = NULL, NEW r, Spliced(t, node, t.child[s][node], r)
    PROVE  Shape(r, M \ {node}, SplicedSub(sub, node))
  <1> DEFINE M2 == M \ {node}
             sub2 == SplicedSub(sub, node)
             c == t.child[s][node]
             p == t.parent[node]
             d == SideOf(t, p, node)
  <1>1. /\ t \in Tree /\ M \in SUBSET Node /\ M \in SUBSET Ptr /\ NULL \notin M /\ NULL \in Ptr
        /\ sub[NULL] = {} /\ sub[t.root] = M /\ t.root \in M \cup {NULL}
        /\ (t.root # NULL => t.parent[t.root] = NULL)
        /\ \A n \in Ptr : sub[n] \in SUBSET M
    BY ShapeType DEF Ptr
  <1>2. /\ sub2 \in [Ptr -> SUBSET M2]
        /\ \A n \in Ptr : sub2[n] = sub[n] \ {node}
    BY <1>1 DEF SplicedSub
  <1>3. /\ r \in Tree
        /\ r.root = IF p = NULL THEN c ELSE t.root
        /\ \A m \in Node : r.parent[m] = IF m = c THEN p ELSE t.parent[m]
        /\ \A m \in Node : \A q \in Side :
              r.child[q][m] = IF m = p /\ q = d THEN c ELSE t.child[q][m]
    BY DEF Spliced
  <1>4. /\ sub[node] = {node} \cup sub[c] /\ node \notin sub[c] /\ c # node /\ c \in M \cup {NULL}
        /\ c # NULL => c \in M2 /\ t.parent[c] = node
        /\ \A q \in Side : t.child[q][node] = c \/ t.child[q][node] = NULL
    <2>1. sub[node] = {node} \cup sub[c] \cup sub[t.child[Other(s)][node]]
      BY ChildFacts
    <2>2. node \notin sub[c] /\ c # node /\ (c # NULL => c \in M /\ t.parent[c] = node)
      BY ChildFacts
    <2>3. \A q \in Side : t.child[q][node] = c \/ t.child[q][node] = NULL
      BY SideFacts
    <2> HIDE DEF c
    <2> QED  BY <1>1, <2>1, <2>2, <2>3
  <1>5. p # NULL => p \in M /\ d \in Side /\ t.child[d][p] = node /\ p # node
    BY AboveFacts, ParentFacts
  <1>6. p = NULL <=> node = t.root
    BY RootFacts
  <1>7. c # NULL => c # p
    <2>1. c # NULL => \A q \in Side : t.child[q][c] # node
      BY ChildFacts
    <2> HIDE DEF c, p, d
    <2> QED  BY <1>5, <2>1
  <1>9. \A n \in M : \A q \in Side : t.child[q][n] = node => n = p /\ q = d
    BY SideFound
  <1>10. \A n \in M : \A q \in Side : c # NULL /\ t.child[q][n] = c => n = node
    BY <1>1, <1>4, ChildFacts
  <1> HIDE DEF M2, sub2, c, p, d
  <1>8. M2 = M \ {node} /\ node \in Node /\ node # NULL /\ M2 \in SUBSET Node /\ c \in Ptr
    BY <1>1, <1>4 DEF M2
  <1>11. r.root # NULL => r.root \in M2 /\ r.parent[r.root] = NULL
    <2>1. CASE p = NULL
      BY <1>3, <1>4, <1>8, <2>1
    <2>2. CASE p # NULL
      <3>1. t.root # node /\ t.root # c
        BY <1>1, <1>4, <1>6, <1>8, <2>2
      <3> QED  BY <1>1, <1>3, <1>8, <2>2, <3>1
    <2> QED  BY <2>1, <2>2
  <1>12. sub2[NULL] = {} /\ sub2[r.root] = M2
    <2>1. sub2[NULL] = {} /\ sub2[c] = sub[c]
      <3>1. sub2[NULL] = sub[NULL] \ {node} /\ sub2[c] = sub[c] \ {node}
        BY <1>1, <1>2, <1>8
      <3> QED  BY <1>1, <1>4, <3>1
    <2>2. CASE p = NULL
      BY <1>1, <1>3, <1>4, <1>6, <1>8, <2>1, <2>2
    <2>3. CASE p # NULL
      <3>1. t.root \in Ptr /\ r.root = t.root
        BY <1>1, <1>3, <2>3
      <3> QED  BY <1>1, <1>2, <1>8, <2>1, <3>1
    <2> QED  BY <2>2, <2>3
  <1>13. ASSUME NEW n \in M2 PROVE Down(r, M2, n)
    <2> SUFFICES ASSUME NEW q \in Side, r.child[q][n] # NULL
                 PROVE  r.child[q][n] \in M2 /\ r.parent[r.child[q][n]] = n
      BY DEF Down
    <2>1. n \in M /\ n \in Node /\ n # node
      BY <1>8
    <2>2. CASE n = p /\ q = d
      <3>1. r.child[q][n] = c /\ c # NULL
        BY <1>3, <2>1, <2>2
      <3>2. c \in M2 /\ c \in Node
        BY <1>4, <1>8, <3>1
      <3> QED  BY <1>3, <2>2, <3>1, <3>2
    <2>3. CASE ~ (n = p /\ q = d)
      <3> DEFINE e == t.child[q][n]
      <3>1. r.child[q][n] = e
        BY <1>3, <2>1, <2>3
      <3>2. e \in M /\ t.parent[e] = n
        BY <2>1, <3>1, ChildFacts
      <3>3. e # node /\ e # c
        BY <1>1, <1>9, <1>10, <2>1, <2>3, <3>1, <3>2
      <3> HIDE DEF e
      <3>4. e \in Node /\ e \in M2
        BY <1>1, <1>8, <3>2, <3>3
      <3> QED  BY <1>3, <3>1, <3>2, <3>3, <3>4
    <2> QED  BY <2>2, <2>3
  <1>14. ASSUME NEW n \in M2 PROVE Up(r, M2, n)
    <2>0. n \in M /\ n \in Node /\ n # node /\ n # NULL
      BY <1>1, <1>8
    <2>1. CASE n = c
      <3>1. r.parent[n] = p
        BY <1>3, <2>0, <2>1
      <3>2. CASE p = NULL
        BY <1>3, <2>1, <3>1, <3>2 DEF Up
      <3>3. CASE p # NULL
        <4>1. r.child[d][p] = c /\ p \in M2
          BY <1>1, <1>3, <1>5, <1>8, <3>3
        <4> QED  BY <1>5, <2>1, <3>1, <3>3, <4>1 DEF Up
      <3> QED  BY <3>2, <3>3
    <2>2. CASE n # c
      <3> DEFINE a == t.parent[n]
      <3>0. r.parent[n] = a
        BY <1>3, <2>0, <2>2
      <3>1. CASE a = NULL
        <4>1. n = t.root
          BY <2>0, <3>1, RootFacts
        <4>2. p # NULL
          BY <1>6, <2>0, <4>1
        <4> QED  BY <1>3, <3>0, <3>1, <4>1, <4>2 DEF Up
      <3>2. CASE a # NULL
        <4> DEFINE f == SideOf(t, a, n)
        <4>1. a \in M /\ f \in Side /\ t.child[f][a] = n
          BY <2>0, <3>2, AboveFacts
        <4> HIDE DEF a, f
        <4>2. a # node
          BY <1>4, <2>0, <2>2, <4>1
        <4>3. ~ (a = p /\ f = d) /\ a \in Node /\ a \in M2
          BY <1>1, <1>5, <1>8, <2>0, <3>2, <4>1, <4>2
        <4>4. r.child[f][a] = n
          BY <1>3, <4>1, <4>3
        <4> QED  BY <3>0, <3>2, <4>1, <4>3, <4>4 DEF Up
      <3> QED  BY <3>1, <3>2
    <2> QED  BY <2>1, <2>2
  <1>15. ASSUME NEW n \in M2 PROVE Split(r, sub2, n)
    <2> SUFFICES ASSUME NEW q \in Side
                 PROVE  /\ sub2[n] = {n} \cup sub2[r.child[q][n]] \cup sub2[r.child[Other(q)][n]]
                        /\ \A m \in sub2[r.child[q][n]] : Beyond(q, Key(m), Key(n))
      BY DEF Split
    <2>0. n \in M /\ n \in Node /\ n \in Ptr /\ n # node /\ Other(q) \in Side
      BY <1>1, <1>8, SideFacts
    <2>1. ASSUME NEW x \in Side PROVE sub2[r.child[x][n]] = sub[t.child[x][n]] \ {node}
      <3>1. CASE n = p /\ x = d
        <4>1. r.child[x][n] = c /\ t.child[x][n] = node
          BY <1>1, <1>3, <1>5, <2>0, <3>1
        <4>2. sub2[c] = sub[c] \ {node}
          BY <1>2, <1>8
        <4> QED  BY <1>4, <4>1, <4>2
      <3>2. CASE ~ (n = p /\ x = d)
        <4>1. r.child[x][n] = t.child[x][n]
          BY <1>3, <2>0, <3>2
        <4>2. t.child[x][n] \in Ptr
          BY <2>0, ShapeType
        <4> QED  BY <1>2, <4>1, <4>2
      <3> QED  BY <3>1, <3>2
    <2>2. sub2[n] = sub[n] \ {node}
      BY <1>2, <2>0
    <2>3. /\ sub[n] = {n} \cup sub[t.child[q][n]] \cup sub[t.child[Other(q)][n]]
          /\ \A m \in sub[t.child[q][n]] : Beyond(q, Key(m), Key(n))
      BY <2>0, ChildFacts
    <2> QED  BY <2>0, <2>1, <2>2, <2>3
  <1>16. r \in Tree /\ M2 \in SUBSET Node /\ sub2 \in [Ptr -> SUBSET M2]
    BY <1>2, <1>3, <1>8
  <1>17. Shape(r, M2, sub2)
    BY <1>11, <1>12, <1>13, <1>14, <1>15, <1>16 DEF Shape
  <1> QED  BY <1>17 DEF M2, sub2

-----------------------------------------------------------------------------
(* Taking a place *)

(* r is t after new took the place of old. *)
Placed(t, old, new, r) ==
    LET p == t.parent[old]
    IN  /\ r \in Tree
        /\ r.root = IF p = NULL THEN new ELSE t.root
        /\ \A m \in Node : r.parent[m] =
              IF m = new THEN p
              ELSE IF m = t.child["left"][old] \/ m = t.child["right"][old] THEN new
              ELSE t.parent[m]
        /\ \A m \in Node : \A q \in Side :
              r.child[q][m] = IF m = new THEN t.child[q][old]
                              ELSE IF m = p /\ q = SideOf(t, p, old) THEN new ELSE t.child[q][m]
        /\ \A m \in Node : r.red[m] = IF m = new THEN t.red[old] ELSE t.red[m]

(* The fields written when new takes the place of old. *)
LEMMA TakePlaceFields ==
    ASSUME NEW t \in Tree, NEW old \in Node, NEW new \in Node, old # new,
           t.parent[old] # old, \A q \in Side : t.child[q][old] # old
    PROVE  Placed(t, old, new, TakePlace(t, old, new))
  <1> DEFINE p == t.parent[old]
             left == t.child["left"][old]
             right == t.child["right"][old]
             ta == SetDown(t, p, old, new)
             tb == SetParent(ta, left, new)
             tc == SetParent(tb, right, new)
             ua == SetParent(SetParent(ta, ta.child["left"][old], new), ta.child["right"][old], new)
             r == SetNode(tc, new, p, left, right, t.red[old])
  <1>1. TakePlace(t, old, new) = SetNode(ua, new, ua.parent[old], ua.child["left"][old],
                                         ua.child["right"][old], ua.red[old])
    BY DEF TakePlace
  <1>2. p \in Ptr /\ left \in Ptr /\ right \in Ptr /\ new \in Ptr /\ p # old /\ left # old /\ right # old
           /\ t.red[old] \in BOOLEAN
    BY DEF Tree, Side, Ptr
  <1> HIDE DEF p, left, right, ta, tb, tc, ua, r
  <1>20. left \in Ptr /\ right \in Ptr /\ new \in Ptr
    BY <1>2
  <1>3. ta \in Tree
    BY <1>2, SetDownFields DEF ta
  <1>4. /\ ta.parent = t.parent /\ ta.red = t.red
        /\ ta.root = IF p = NULL THEN new ELSE t.root
        /\ \A m \in Node : \A q \in Side :
              ta.child[q][m] = IF m = p /\ q = SideOf(t, p, old) THEN new ELSE t.child[q][m]
    BY <1>2, SetDownFields DEF ta
  <1>5. ta.child["left"][old] = left /\ ta.child["right"][old] = right
    BY <1>2, <1>4 DEF Side, left, right
  <1>6. ua = tc
    BY <1>5 DEF ua, tb, tc
  <1>7. tb \in Tree
    BY <1>3, <1>20, SetParentFields DEF tb
  <1>8. /\ tb.root = ta.root /\ tb.child = ta.child /\ tb.red = ta.red
        /\ \A m \in Node : tb.parent[m] = IF m = left THEN new ELSE ta.parent[m]
    BY <1>3, <1>20, SetParentFields DEF tb
  <1>9. tc \in Tree
    BY <1>7, <1>20, SetParentFields DEF tc
  <1>10. /\ tc.root = tb.root /\ tc.child = tb.child /\ tc.red = tb.red
         /\ \A m \in Node : tc.parent[m] = IF m = right THEN new ELSE tb.parent[m]
    BY <1>7, <1>20, SetParentFields DEF tc
  <1>11. tc.parent[old] = p /\ tc.child["left"][old] = left /\ tc.child["right"][old] = right
            /\ tc.red[old] = t.red[old]
    BY <1>2, <1>4, <1>5, <1>8, <1>10 DEF p
  <1>12. TakePlace(t, old, new) = r
    BY <1>1, <1>6, <1>11 DEF r
  <1>13. NodeSet(tc, new, p, left, right, t.red[old], r)
    BY <1>2, <1>9, SetNodeFields DEF r
  <1>14. r \in Tree /\ r.root = IF p = NULL THEN new ELSE t.root
    BY <1>4, <1>8, <1>10, <1>13 DEF NodeSet
  <1>15. \A m \in Node : r.parent[m] = IF m = new THEN p ELSE IF m = left \/ m = right THEN new
                                       ELSE t.parent[m]
    BY <1>4, <1>8, <1>10, <1>13 DEF NodeSet
  <1>16. \A m \in Node : r.red[m] = IF m = new THEN t.red[old] ELSE t.red[m]
    BY <1>4, <1>8, <1>10, <1>13 DEF NodeSet
  <1>17. ASSUME NEW m \in Node, NEW q \in Side
         PROVE  r.child[q][m] = IF m = new THEN t.child[q][old]
                                ELSE IF m = p /\ q = SideOf(t, p, old) THEN new ELSE t.child[q][m]
    <2>1. r.child[q][m] = IF m = new THEN t.child[q][old] ELSE tc.child[q][m]
      BY <1>13 DEF NodeSet, Side, left, right
    <2> QED  BY <1>4, <1>8, <1>10, <2>1
  <1>18. Placed(t, old, new, r)
    BY <1>14, <1>15, <1>16, <1>17, Zenon DEF Placed, p, left, right
  <1> QED  BY <1>12, <1>18

Swap(S, old, new) == IF old \in S THEN (S \ {old}) \cup {new} ELSE S
PlacedSub(sub, old, new) ==
    [n \in Ptr |-> IF n = new THEN Swap(sub[old], old, new) ELSE Swap(sub[n], old, new)]

(* A node whose key is next to old's takes old's place in a search tree. *)
LEMMA TakePlaceShape ==
    ASSUME NEW t, NEW M, NEW sub, Shape(t, M, sub), NEW old \in M, NEW new \in Node \ M,
           Adjacent(M, old, Key(new)), NEW r, Placed(t, old, new, r)
    PROVE  Shape(r, (M \ {old}) \cup {new}, PlacedSub(sub, old, new))
  <1> DEFINE M2 == (M \ {old}) \cup {new}
             sub2 == PlacedSub(sub, old, new)
             left == t.child["left"][old]
             right == t.child["right"][old]
             p == t.parent[old]
             d == SideOf(t, p, old)
  <1>1. /\ t \in Tree /\ M \in SUBSET Node /\ M \in SUBSET Ptr /\ NULL \notin M /\ NULL \in Ptr
        /\ sub[NULL] = {} /\ sub[t.root] = M /\ t.root \in M \cup {NULL}
        /\ (t.root # NULL => t.parent[t.root] = NULL)
        /\ \A n \in Ptr : sub[n] \in SUBSET M
    BY ShapeType DEF Ptr
  <1>2. new \notin M /\ new \in Node /\ new \in Ptr /\ new # NULL /\ old # NULL /\ M2 \in SUBSET Node
           /\ old \in Ptr /\ old \in Node /\ old # new
    BY <1>1, NodeFacts DEF Ptr
  <1>3. /\ sub2 \in [Ptr -> SUBSET M2]
        /\ sub2[new] = Swap(sub[old], old, new)
        /\ \A n \in Ptr : n # new => sub2[n] = Swap(sub[n], old, new)
    <2>1. \A n \in Ptr : Swap(sub[n], old, new) \in SUBSET M2
      BY <1>1 DEF Swap
    <2> HIDE DEF M2
    <2> QED  BY <1>2, <2>1 DEF PlacedSub
  <1>4. /\ r \in Tree
        /\ r.root = IF p = NULL THEN new ELSE t.root
        /\ \A m \in Node : r.parent[m] =
              IF m = new THEN p ELSE IF m = left \/ m = right THEN new ELSE t.parent[m]
        /\ \A m \in Node : \A q \in Side :
              r.child[q][m] = IF m = new THEN t.child[q][old]
                              ELSE IF m = p /\ q = d THEN new ELSE t.child[q][m]
    BY Zenon DEF Placed
  <1>5. p # NULL => p \in M /\ d \in Side /\ t.child[d][p] = old /\ p # old
    BY AboveFacts, ParentFacts
  <1>6. p = NULL <=> old = t.root
    BY RootFacts
  <1>7. \A n \in M : \A q \in Side : t.child[q][n] = old => n = p /\ q = d
    BY SideFound
  <1>8. /\ \A q \in Side : /\ t.child[q][old] \in M \cup {NULL} /\ t.child[q][old] # old
                           /\ t.child[q][old] = left \/ t.child[q][old] = right
        /\ (left # NULL => left \in M /\ t.parent[left] = old)
        /\ (right # NULL => right \in M /\ t.parent[right] = old)
    <2>1. "left" \in Side /\ "right" \in Side /\ \A q \in Side : q = "left" \/ q = "right"
      BY DEF Side
    <2>2. \A q \in Side : /\ t.child[q][old] \in M \cup {NULL} /\ t.child[q][old] # old
                          /\ t.child[q][old] # NULL => t.parent[t.child[q][old]] = old
      BY ChildFacts, ShapeType
    <2> QED  BY <2>1, <2>2
  <1> HIDE DEF M2, sub2, left, right, p, d
  <1>9. M2 = (M \ {old}) \cup {new}
    BY DEF M2
  <1>11. r.root # NULL => r.root \in M2 /\ r.parent[r.root] = NULL
    <2>1. CASE p = NULL
      BY <1>2, <1>4, <1>9, <2>1
    <2>2. CASE p # NULL
      <3>1. t.root # old /\ t.root # new /\ (t.root # NULL => t.root # left /\ t.root # right)
        BY <1>1, <1>2, <1>6, <1>8, <2>2
      <3> QED  BY <1>1, <1>4, <1>9, <2>2, <3>1
    <2> QED  BY <2>1, <2>2
  <1>12. sub2[NULL] = {} /\ sub2[r.root] = M2
    <2>1. sub2[NULL] = {}
      <3>1. sub2[NULL] = Swap(sub[NULL], old, new)
        BY <1>1, <1>2, <1>3
      <3> QED  BY <1>1, <3>1 DEF Swap
    <2>2. sub2[r.root] = Swap(sub[t.root], old, new)
      <3>1. CASE p = NULL
        BY <1>3, <1>4, <1>6, <3>1
      <3>2. CASE p # NULL
        <4>1. r.root = t.root /\ t.root # new /\ t.root \in Ptr
          BY <1>1, <1>2, <1>4, <3>2
        <4> QED  BY <1>3, <4>1
      <3> QED  BY <3>1, <3>2
    <2> QED  BY <1>1, <1>9, <2>1, <2>2 DEF Swap
  <1>13. ASSUME NEW n \in M2 PROVE Down(r, M2, n)
    <2> SUFFICES ASSUME NEW q \in Side, r.child[q][n] # NULL
                 PROVE  r.child[q][n] \in M2 /\ r.parent[r.child[q][n]] = n
      BY DEF Down
    <2>0. n \in Node
      BY <1>2, <1>9
    <2>1. CASE n = new
      <3> DEFINE e == t.child[q][old]
      <3>1. r.child[q][n] = e /\ e # NULL
        BY <1>4, <2>0, <2>1
      <3>2. e \in M /\ e # old /\ (e = left \/ e = right)
        BY <1>8, <3>1
      <3> HIDE DEF e
      <3>3. e \in Node /\ e # new /\ e \in M2
        BY <1>1, <1>2, <1>9, <3>2
      <3> QED  BY <1>4, <2>1, <3>1, <3>2, <3>3
    <2>2. CASE n # new /\ n = p /\ q = d
      <3>1. r.child[q][n] = new
        BY <1>4, <2>0, <2>2
      <3> QED  BY <1>2, <1>4, <1>9, <2>2, <3>1
    <2>3. CASE n # new /\ ~ (n = p /\ q = d)
      <3> DEFINE e == t.child[q][n]
      <3>0. n \in M /\ n # old
        BY <1>9, <2>3
      <3>1. r.child[q][n] = e
        BY <1>4, <2>0, <2>3
      <3>2. e \in M /\ t.parent[e] = n
        BY <3>0, <3>1, ChildFacts
      <3>3. e # old
        BY <1>7, <2>3, <3>0
      <3> HIDE DEF e
      <3>4. e \in Node /\ e # new /\ e \in M2 /\ e # NULL
        BY <1>1, <1>2, <1>9, <3>2, <3>3
      <3>5. e # left /\ e # right
        BY <1>8, <3>0, <3>2, <3>4
      <3> QED  BY <1>4, <3>1, <3>2, <3>4, <3>5
    <2> QED  BY <2>1, <2>2, <2>3
  <1>14. ASSUME NEW n \in M2 PROVE Up(r, M2, n)
    <2>0. n \in Node
      BY <1>2, <1>9
    <2>1. CASE n = new
      <3>1. r.parent[n] = p
        BY <1>4, <2>0, <2>1
      <3>2. CASE p = NULL
        BY <1>4, <2>1, <3>1, <3>2 DEF Up
      <3>3. CASE p # NULL
        <4>0. p \in Node /\ p # new /\ p \in M2
          BY <1>1, <1>2, <1>5, <1>9, <3>3
        <4>1. r.child[d][p] = new
          BY <1>4, <1>5, <3>3, <4>0
        <4> QED  BY <1>5, <2>1, <3>1, <3>3, <4>0, <4>1 DEF Up
      <3> QED  BY <3>2, <3>3
    <2>2. CASE n # new /\ (n = left \/ n = right)
      <3>1. r.parent[n] = new
        BY <1>4, <2>0, <2>2
      <3>2. \E q \in Side : t.child[q][old] = n
        BY <2>2 DEF left, right, Side
      <3>3. \E q \in Side : r.child[q][new] = n
        BY <1>2, <1>4, <3>2
      <3> QED  BY <1>2, <1>9, <3>1, <3>3 DEF Up
    <2>3. CASE n # new /\ n # left /\ n # right
      <3> DEFINE a == t.parent[n]
      <3>0. r.parent[n] = a /\ n \in M /\ n # old
        BY <1>4, <1>9, <2>0, <2>3
      <3>1. CASE a = NULL
        <4>1. n = t.root
          BY <3>0, <3>1, RootFacts
        <4>2. p # NULL
          BY <1>6, <3>0, <4>1
        <4> QED  BY <1>4, <3>0, <3>1, <4>1, <4>2 DEF Up
      <3>2. CASE a # NULL
        <4> DEFINE f == SideOf(t, a, n)
        <4>1. a \in M /\ f \in Side /\ t.child[f][a] = n
          BY <3>0, <3>2, AboveFacts
        <4> HIDE DEF a, f
        <4>2. a # old
          BY <1>8, <2>3, <4>1
        <4>3. ~ (a = p /\ f = d) /\ a \in Node /\ a \in M2 /\ a # new
          BY <1>1, <1>2, <1>5, <1>9, <3>0, <3>2, <4>1, <4>2
        <4>4. r.child[f][a] = n
          BY <1>4, <4>1, <4>3
        <4> QED  BY <3>0, <3>2, <4>1, <4>3, <4>4 DEF Up
      <3> QED  BY <3>1, <3>2
    <2> QED  BY <2>1, <2>2, <2>3
  <1>15. ASSUME NEW n \in M2 PROVE Split(r, sub2, n)
    <2> SUFFICES ASSUME NEW q \in Side
                 PROVE  /\ sub2[n] = {n} \cup sub2[r.child[q][n]] \cup sub2[r.child[Other(q)][n]]
                        /\ \A m \in sub2[r.child[q][n]] : Beyond(q, Key(m), Key(n))
      BY DEF Split
    <2>0. n \in Node /\ n \in Ptr /\ Other(q) \in Side /\ Other(Other(q)) = q
      BY <1>2, <1>9, SideFacts DEF Ptr
    <2> DEFINE w == IF n = new THEN old ELSE n
    <2>1. w \in M /\ n \in {w, new} /\ (w = old <=> n = new)
      BY <1>2, <1>9
    <2>2. ASSUME NEW x \in Side PROVE sub2[r.child[x][n]] = Swap(sub[t.child[x][w]], old, new)
      <3>0. t.child[x][w] \in M \cup {NULL} /\ t.child[x][w] \in Ptr /\ t.child[x][w] # new
        BY <1>2, <2>1, ShapeType
      <3>1. CASE n # new /\ n = p /\ x = d
        <4>1. r.child[x][n] = new /\ t.child[x][w] = old
          BY <1>1, <1>4, <1>5, <2>0, <2>1, <3>1
        <4> QED  BY <1>3, <4>1
      <3>2. CASE ~ (n # new /\ n = p /\ x = d)
        <4>1. r.child[x][n] = t.child[x][w]
          BY <1>4, <2>0, <3>2
        <4> QED  BY <1>3, <3>0, <4>1
      <3> QED  BY <3>1, <3>2
    <2>3. sub2[n] = Swap(sub[w], old, new)
      BY <1>3, <2>0
    <2> HIDE DEF w
    <2>4. /\ sub[w] = {w} \cup sub[t.child[q][w]] \cup sub[t.child[Other(q)][w]]
          /\ w \notin sub[t.child[q][w]]
          /\ \A m \in sub[t.child[q][w]] : Beyond(q, Key(m), Key(w)) /\ m \in M
      <3>1. t.child[q][w] \in Ptr
        BY <2>1, ShapeType
      <3> QED  BY <1>1, <2>1, <3>1, ChildFacts
    <2>5. sub2[n] = {n} \cup sub2[r.child[q][n]] \cup sub2[r.child[Other(q)][n]]
      <3> DEFINE A == sub[t.child[q][w]]
                 B == sub[t.child[Other(q)][w]]
      <3>1. sub2[r.child[q][n]] = Swap(A, old, new) /\ sub2[r.child[Other(q)][n]] = Swap(B, old, new)
        BY <2>0, <2>2
      <3>2. sub[w] = {w} \cup A \cup B
        BY <2>4
      <3> HIDE DEF A, B
      <3>3. Swap({w} \cup A \cup B, old, new) = {n} \cup Swap(A, old, new) \cup Swap(B, old, new)
        BY <2>1 DEF Swap
      <3> QED  BY <2>3, <3>1, <3>2, <3>3
    <2>6. ASSUME NEW m \in Swap(sub[t.child[q][w]], old, new) PROVE Beyond(q, Key(m), Key(n))
      <3>0. Key(old) \in Int /\ Key(new) \in Int
        BY <1>2, NodeFacts
      <3>1. CASE m = new
        <4>1. m \notin sub[t.child[q][w]] /\ old \in sub[t.child[q][w]]
          BY <1>2, <2>4, <2>6, <3>1 DEF Swap
        <4>2. Beyond(q, Key(old), Key(w)) /\ w # old
          BY <2>4, <4>1
        <4>3. w = n /\ n \in M \ {old}
          BY <2>1, <4>2
        <4> QED  BY <3>1, <4>2, <4>3 DEF Adjacent
      <3>2. CASE m # new
        <4>1. m \in sub[t.child[q][w]] /\ m # old
          BY <2>6, <3>2 DEF Swap
        <4>2. Beyond(q, Key(m), Key(w)) /\ m \in M
          BY <2>4, <4>1
        <4>3. CASE w = n
          BY <4>2, <4>3
        <4>4. CASE w # n
          <5>1. w = old /\ n = new /\ Key(m) \in Int
            BY <2>1, <4>2, <4>4, ShapeType
          <5>2. Beyond(Other(q), Key(old), Key(m))
            BY <3>0, <4>2, <5>1, BeyondFacts
          <5>3. Beyond(Other(q), Key(new), Key(m))
            BY <2>0, <4>1, <4>2, <5>2 DEF Adjacent
          <5> QED  BY <2>0, <3>0, <5>1, <5>3, BeyondFacts
        <4> QED  BY <4>3, <4>4
      <3> QED  BY <3>1, <3>2
    <2> QED  BY <2>2, <2>5, <2>6
  <1>16. r \in Tree /\ M2 \in SUBSET Node /\ sub2 \in [Ptr -> SUBSET M2]
    BY <1>2, <1>3, <1>4
  <1>17. Shape(r, M2, sub2)
    BY <1>11, <1>12, <1>13, <1>14, <1>15, <1>16 DEF Shape
  <1> QED  BY <1>17 DEF M2, sub2

-----------------------------------------------------------------------------
(* Subtrees *)

Size(sub, n) == Cardinality(sub[n])

(* A subtree is smaller than the one it hangs in. *)
LEMMA SizeFacts ==
    ASSUME NEW t, NEW M, NEW sub, Shape(t, M, sub)
    PROVE  /\ IsFiniteSet(M) /\ Cardinality(M) \in Nat /\ Cardinality(M) <= MaxTurns
           /\ \A n \in Ptr : Size(sub, n) \in Nat /\ Size(sub, n) <= Cardinality(M)
           /\ \A n \in M : Size(sub, n) > 0
           /\ \A n \in M : \A s \in Side : Size(sub, t.child[s][n]) < Size(sub, n)
           /\ \A n \in M : t.parent[n] # NULL => Size(sub, n) < Size(sub, t.parent[n])
  <1>1. M \in SUBSET Node /\ M \in SUBSET Ptr /\ \A n \in Ptr : sub[n] \in SUBSET M
    BY ShapeType
  <1>2. IsFiniteSet(M) /\ Cardinality(M) \in Nat /\ Cardinality(M) <= MaxTurns
    BY <1>1, NodeFacts, FS_Subset, FS_CardinalityType DEF MaxTurns
  <1>3. ASSUME NEW n \in Ptr
        PROVE  IsFiniteSet(sub[n]) /\ Size(sub, n) \in Nat /\ Size(sub, n) <= Cardinality(M)
    BY <1>1, <1>2, FS_Subset, FS_CardinalityType DEF Size
  <1>4. ASSUME NEW A, NEW B, IsFiniteSet(B), NEW x \in B, A \subseteq B, x \notin A
        PROVE  Cardinality(A) < Cardinality(B)
    <2>1. A \subseteq B \ {x} /\ IsFiniteSet(B \ {x}) /\ Cardinality(B \ {x}) = Cardinality(B) - 1
      BY <1>4, FS_RemoveElement
    <2>2. Cardinality(A) <= Cardinality(B \ {x}) /\ Cardinality(A) \in Nat /\ Cardinality(B) \in Nat
      BY <1>4, <2>1, FS_Subset, FS_CardinalityType
    <2> QED  BY <2>1, <2>2
  <1>5. ASSUME NEW n \in M, NEW s \in Side PROVE Size(sub, t.child[s][n]) < Size(sub, n)
    <2>1. n \in Ptr /\ n \in sub[n] /\ n \notin sub[t.child[s][n]] /\ sub[t.child[s][n]] \subseteq sub[n]
      BY <1>1, ChildFacts
    <2> QED  BY <1>3, <1>4, <2>1 DEF Size
  <1>6. ASSUME NEW n \in M, t.parent[n] # NULL PROVE Size(sub, n) < Size(sub, t.parent[n])
    <2>1. t.parent[n] \in M /\ SideOf(t, t.parent[n], n) \in Side
              /\ t.child[SideOf(t, t.parent[n], n)][t.parent[n]] = n
      BY <1>6, AboveFacts
    <2> QED  BY <1>5, <2>1
  <1>7. ASSUME NEW n \in M PROVE Size(sub, n) > 0
    <2>1. "left" \in Side /\ n \in Ptr /\ t.child["left"][n] \in Ptr
      BY <1>1, ShapeType DEF Side
    <2>2. Size(sub, n) \in Nat /\ Size(sub, t.child["left"][n]) \in Nat
            /\ Size(sub, t.child["left"][n]) < Size(sub, n)
      BY <1>3, <1>5, <2>1
    <2> QED  BY <2>2
  <1> QED  BY <1>2, <1>3, <1>5, <1>6, <1>7

(* What holds of the root and goes down to the children holds of all. *)
LEMMA DownwardInduction ==
    ASSUME NEW t, NEW M, NEW sub, Shape(t, M, sub), NEW P,
           M # {} => t.root \in P,
           \A n \in M : \A s \in Side : n \in P /\ t.child[s][n] # NULL => t.child[s][n] \in P
    PROVE  M \subseteq P
  <1> DEFINE S == {Cardinality(M) - Size(sub, n) : n \in M \ P}
  <1> SUFFICES ASSUME M \ P # {} PROVE FALSE
    OBVIOUS
  <1>1. M \in SUBSET Ptr
    BY ShapeType
  <1>2. S \in SUBSET Nat /\ S # {}
    BY <1>1, SizeFacts
  <1>3. PICK k \in S : \A x \in S : k <= x
    BY <1>2, LeastNatural
  <1>4. PICK n \in M \ P : k = Cardinality(M) - Size(sub, n)
    BY <1>3
  <1>5. t.parent[n] # NULL
    BY <1>4, RootFacts
  <1> DEFINE p == t.parent[n]
             s == SideOf(t, p, n)
  <1>6. p \in M /\ s \in Side /\ t.child[s][p] = n
    BY <1>4, <1>5, AboveFacts
  <1>7. Size(sub, n) < Size(sub, p)
    BY <1>4, <1>5, SizeFacts
  <1>8. n # NULL
    BY ShapeType
  <1> HIDE DEF p, s, S
  <1>9. p \notin P
    BY <1>4, <1>6, <1>8
  <1>10. k <= Cardinality(M) - Size(sub, p)
    BY <1>3, <1>6, <1>9 DEF S
  <1>11. Size(sub, n) \in Nat /\ Size(sub, p) \in Nat /\ Cardinality(M) \in Nat
    BY <1>1, <1>4, <1>6, SizeFacts
  <1> QED  BY <1>4, <1>7, <1>10, <1>11

(* A node outside a subtree lies on one side of all of it. *)
Outside(M, sub, n) ==
    \A m \in M \ sub[n] : \E s \in Side : \A k \in sub[n] : Beyond(s, Key(m), Key(k))

(* The keys of a subtree have no other key between them. *)
LEMMA OutsideFacts ==
    ASSUME NEW t, NEW M, NEW sub, Shape(t, M, sub), NEW n \in M
    PROVE  Outside(M, sub, n)
  <1> DEFINE P == {x \in M : Outside(M, sub, x)}
  <1>0. M \in SUBSET Ptr /\ sub[t.root] = M /\ (\A x \in Ptr : sub[x] \in SUBSET M)
           /\ \A x \in M : Key(x) \in Int
    BY ShapeType
  <1>1. M # {} => t.root \in P
    <2>1. M # {} => t.root \in M
      BY ShapeType
    <2>2. Outside(M, sub, t.root)
      BY <1>0 DEF Outside
    <2> QED  BY <2>1, <2>2
  <1>2. ASSUME NEW x \in M, NEW q \in Side, x \in P, t.child[q][x] # NULL PROVE t.child[q][x] \in P
    <2> DEFINE c == t.child[q][x]
               e == t.child[Other(q)][x]
    <2>1. c \in M /\ sub[x] = {x} \cup sub[c] \cup sub[e] /\ Other(q) \in Side /\ Other(Other(q)) = q
      BY <1>2, ChildFacts, SideFacts
    <2>2. (\A k \in sub[c] : Beyond(q, Key(k), Key(x))) /\ \A k \in sub[e] : Beyond(Other(q), Key(k), Key(x))
      BY <2>1, ChildFacts
    <2>3. sub[c] \in SUBSET M /\ sub[e] \in SUBSET M /\ Outside(M, sub, x)
      <3>1. c \in Ptr /\ e \in Ptr
        BY <2>1, ShapeType
      <3> QED  BY <1>0, <1>2, <3>1
    <2> HIDE DEF c, e
    <2>4. ASSUME NEW m \in M \ sub[c] PROVE \E s \in Side : \A k \in sub[c] : Beyond(s, Key(m), Key(k))
      <3>1. CASE m \notin sub[x]
        BY <2>1, <2>3, <3>1 DEF Outside
      <3>2. CASE m = x
        <4>1. \A k \in sub[c] : Beyond(Other(q), Key(x), Key(k))
          BY <1>0, <2>2, <2>3, BeyondFacts
        <4> QED  BY <2>1, <3>2, <4>1
      <3>3. CASE m \in sub[e]
        <4>1. \A k \in sub[c] : Beyond(Other(q), Key(x), Key(k))
          BY <1>0, <2>2, <2>3, BeyondFacts
        <4>2. \A k \in sub[c] : Beyond(Other(q), Key(m), Key(k))
          <5> TAKE k \in sub[c]
          <5>1. Beyond(Other(q), Key(m), Key(x)) /\ Beyond(Other(q), Key(x), Key(k))
                  /\ Key(m) \in Int /\ Key(x) \in Int /\ Key(k) \in Int
            BY <1>0, <2>2, <2>3, <3>3, <4>1
          <5> QED  BY <2>1, <5>1, BeyondFacts
        <4> QED  BY <2>1, <4>2
      <3> QED  BY <2>1, <3>1, <3>2, <3>3
    <2>5. Outside(M, sub, c)
      BY <2>4 DEF Outside
    <2> QED  BY <2>1, <2>5 DEF c
  <1> HIDE DEF P
  <1>3. M \subseteq P
    BY <1>1, <1>2, DownwardInduction
  <1> QED  BY <1>3 DEF P

(* No two nodes of a search tree have the same key. *)
LEMMA DistinctKeys ==
    ASSUME NEW t, NEW M, NEW sub, Shape(t, M, sub), NEW m \in M, NEW n \in M, m # n
    PROVE  Key(m) # Key(n)
  <1>0. Key(m) \in Int /\ Key(n) \in Int
    BY ShapeType
  <1>1. CASE m \notin sub[n]
    <2>1. n \in sub[n] /\ Outside(M, sub, n)
      BY ChildFacts, OutsideFacts DEF Side
    <2>2. \E s \in Side : Beyond(s, Key(m), Key(n))
      BY <1>1, <2>1 DEF Outside
    <2> QED  BY <1>0, <2>2, BeyondFacts
  <1>2. CASE m \in sub[n]
    <2>1. \E s \in Side : m \in sub[t.child[s][n]]
      <3>1. "left" \in Side /\ "right" \in Side /\ Other("left") = "right"
        BY DEF Side, Other
      <3> QED  BY <1>2, <3>1, ChildFacts
    <2>2. \E s \in Side : Beyond(s, Key(m), Key(n))
      BY <2>1, ChildFacts
    <2> QED  BY <1>0, <2>2, BeyondFacts
  <1> QED  BY <1>1, <1>2

-----------------------------------------------------------------------------
(* Ways *)

(* The recursive definition of a way has a solution: the nodes that every set *)
(* holds that contains the start and is closed under the step.                *)
LEMMA WayEquation ==
    ASSUME NEW step \in [Node -> Ptr], NEW n \in Node
    PROVE  Way(step, n) = {n} \cup (IF step[n] = NULL THEN {} ELSE Way(step, step[n]))
  <1> DEFINE way[m \in Node] == {m} \cup (IF step[m] = NULL THEN {} ELSE way[step[m]])
             Closed(Q) == \A y \in Q : step[y] # NULL => step[y] \in Q
             reach == [m \in Node |-> {x \in Node : \A Q \in SUBSET Node : m \in Q /\ Closed(Q) => x \in Q}]
  <1>1. way = CHOOSE h : h = [m \in Node |-> {m} \cup (IF step[m] = NULL THEN {} ELSE h[step[m]])]
    OBVIOUS
  <1>2. \A m \in Node : step[m] # NULL => step[m] \in Node
    BY DEF Ptr
  <1>3. \A m \in Node : Way(step, m) = way[m]
    BY DEF Way
  <1> HIDE DEF way
  <1>4. ASSUME NEW m \in Node
        PROVE  reach[m] = {m} \cup (IF step[m] = NULL THEN {} ELSE reach[step[m]])
    <2>1. m \in reach[m]
      OBVIOUS
    <2>2. CASE step[m] = NULL
      <3>1. Closed({m}) /\ {m} \in SUBSET Node
        BY <2>2
      <3> QED  BY <2>1, <2>2, <3>1
    <2>3. CASE step[m] # NULL
      <3>1. step[m] \in Node
        BY <1>2, <2>3
      <3> DEFINE after == reach[step[m]]
      <3>2. after \in SUBSET Node /\ step[m] \in after
        BY <3>1
      <3>3. Closed(after)
        <4> SUFFICES ASSUME NEW y \in after, step[y] # NULL,
                            NEW Q \in SUBSET Node, step[m] \in Q, Closed(Q)
                     PROVE  step[y] \in Q
          BY <1>2, <3>1
        <4>1. y \in Q
          BY <3>1
        <4> QED  BY <4>1
      <3>4. after \subseteq reach[m]
        <4> SUFFICES ASSUME NEW x \in after, NEW Q \in SUBSET Node, m \in Q, Closed(Q)
                     PROVE  x \in Q
          BY <3>2
        <4>1. step[m] \in Q
          BY <2>3
        <4> QED  BY <3>1, <4>1
      <3>5. Closed({m} \cup after) /\ {m} \cup after \in SUBSET Node
        <4> HIDE DEF after, reach
        <4> QED  BY <3>2, <3>3
      <3>6. reach[m] \subseteq {m} \cup after
        BY <3>5
      <3> HIDE DEF after, reach
      <3> QED  BY <2>1, <2>3, <3>4, <3>6 DEF after
    <2> QED  BY <2>2, <2>3
  <1>5. reach = [m \in Node |-> {m} \cup (IF step[m] = NULL THEN {} ELSE reach[step[m]])]
    <2>1. reach \in [Node -> SUBSET Node]
      OBVIOUS
    <2> HIDE DEF reach
    <2> QED  BY <1>4, <2>1
  <1> HIDE DEF reach
  <1>6. way = [m \in Node |-> {m} \cup (IF step[m] = NULL THEN {} ELSE way[step[m]])]
    BY <1>1, <1>5
  <1>7. way[n] = {n} \cup (IF step[n] = NULL THEN {} ELSE way[step[n]])
    BY <1>6
  <1> QED  BY <1>2, <1>3, <1>7

(* A way stays inside a set that its step does not leave, and it ends if a *)
(* rank decreases along it.                                                *)
LEMMA WayRule ==
    ASSUME NEW step \in [Node -> Ptr], NEW P \in SUBSET Node, NEW rank \in [P -> Nat],
           \A m \in P : step[m] # NULL => step[m] \in P /\ rank[step[m]] < rank[m],
           NEW n \in P
    PROVE  /\ Way(step, n) \subseteq P
           /\ Follow(step, n) \in P /\ step[Follow(step, n)] = NULL
           /\ \A x \in Way(step, n) : rank[x] <= rank[n]
  <1> DEFINE Good(m) == /\ Way(step, m) \subseteq P
                        /\ \E x \in Way(step, m) : step[x] = NULL
                        /\ \A x \in Way(step, m) : rank[x] <= rank[m]
             S == {rank[m] : m \in {y \in P : ~ Good(y)}}
  <1>1. ASSUME ~ Good(n) PROVE FALSE
    <2>1. S \in SUBSET Nat /\ S # {}
      <3> HIDE DEF Good
      <3> QED  BY <1>1
    <2>2. PICK k \in S : \A x \in S : k <= x
      BY <2>1, LeastNatural
    <2>3. PICK m \in P : ~ Good(m) /\ k = rank[m]
      <3> HIDE DEF Good
      <3> QED  BY <2>2
    <2>4. Way(step, m) = {m} \cup (IF step[m] = NULL THEN {} ELSE Way(step, step[m]))
      BY WayEquation
    <2>5. CASE step[m] = NULL
      <3>1. Way(step, m) = {m}
        BY <2>4, <2>5
      <3>2. rank[m] \in Nat
        OBVIOUS
      <3> QED  BY <2>3, <2>5, <3>1, <3>2
    <2>6. CASE step[m] # NULL
      <3>1. step[m] \in P /\ rank[step[m]] < rank[m] /\ rank[step[m]] \in Nat /\ rank[m] \in Nat
        BY <2>6
      <3>2. Good(step[m])
        <4> HIDE DEF Good
        <4>1. ~ Good(step[m]) => rank[step[m]] \in S
          BY <3>1
        <4>2. ~ (k <= rank[step[m]])
          BY <2>3, <3>1
        <4> QED  BY <2>2, <4>1, <4>2
      <3>3. Way(step, m) = {m} \cup Way(step, step[m])
        BY <2>4, <2>6
      <3>4. \A x \in Way(step, step[m]) : rank[x] \in Nat /\ rank[x] <= rank[step[m]]
        BY <3>2
      <3>5. \A x \in Way(step, m) : rank[x] <= rank[m]
        BY <3>1, <3>3, <3>4
      <3> QED  BY <2>3, <3>2, <3>3, <3>5
    <2> QED  BY <2>5, <2>6
  <1>2. Good(n)
    BY <1>1
  <1>3. Follow(step, n) \in Way(step, n) /\ step[Follow(step, n)] = NULL
    BY <1>2 DEF Follow
  <1> QED  BY <1>2, <1>3

-----------------------------------------------------------------------------
(* Walking and looking up *)

(* A node that is further than all others is the outermost one. *)
LEMMA OutermostFacts ==
    ASSUME NEW nodes \in SUBSET Node, NEW s \in Side, NEW x \in nodes,
           \A m \in nodes \ {x} : Beyond(s, Key(x), Key(m))
    PROVE  Outermost(nodes, s) = x
  <1> DEFINE y == CHOOSE n \in nodes : \A m \in nodes \ {n} : Beyond(s, Key(n), Key(m))
  <1>1. y \in nodes /\ \A m \in nodes \ {y} : Beyond(s, Key(y), Key(m))
    OBVIOUS
  <1>2. Outermost(nodes, s) = y
    BY DEF Outermost
  <1> HIDE DEF y
  <1>3. Key(x) \in Int /\ Key(y) \in Int
    BY <1>1, NodeFacts
  <1>4. ASSUME x # y PROVE FALSE
    <2>1. Beyond(s, Key(x), Key(y)) /\ Beyond(s, Key(y), Key(x))
      BY <1>1, <1>4
    <2> QED  BY <1>3, <2>1, BeyondFacts
  <1> QED  BY <1>2, <1>4

(* From c down the side s to the node of c's subtree that is furthest there. *)
LEMMA FurthestFacts ==
    ASSUME NEW t, NEW M, NEW sub, Shape(t, M, sub), NEW c \in M, NEW s \in Side
    PROVE  LET f == Furthest(t, c, s)
           IN  /\ f \in M /\ f \in sub[c] /\ t.child[s][f] = NULL
               /\ \A m \in sub[c] \ {f} : Beyond(s, Key(f), Key(m))
  <1> DEFINE P == {x \in M : /\ sub[x] \subseteq sub[c]
                             /\ \A m \in sub[c] \ sub[x] : \A k \in sub[x] : Beyond(s, Key(k), Key(m))}
             step == t.child[s]
             rank == [x \in P |-> Size(sub, x)]
             f == Furthest(t, c, s)
  <1>0. /\ M \in SUBSET Node /\ M \in SUBSET Ptr /\ (\A x \in Ptr : sub[x] \in SUBSET M)
        /\ (\A x \in M : Key(x) \in Int) /\ t \in Tree /\ NULL \notin M /\ sub[NULL] = {}
    BY ShapeType
  <1>1. step \in [Node -> Ptr] /\ P \in SUBSET Node /\ c \in P
    BY <1>0 DEF Tree
  <1>2. rank \in [P -> Nat]
    <2>1. \A x \in P : Size(sub, x) \in Nat
      BY <1>0, SizeFacts
    <2> HIDE DEF P
    <2> QED  BY <2>1
  <1>3. ASSUME NEW x \in P, step[x] # NULL PROVE step[x] \in P /\ rank[step[x]] < rank[x]
    <2> DEFINE y == step[x]
               e == t.child[Other(s)][x]
    <2>1. x \in M /\ y \in M /\ sub[x] = {x} \cup sub[y] \cup sub[e] /\ Other(s) \in Side
            /\ Size(sub, y) < Size(sub, x)
      BY <1>3, ChildFacts, SideFacts, SizeFacts
    <2>2. (\A k \in sub[y] : Beyond(s, Key(k), Key(x))) /\ \A k \in sub[e] : Beyond(Other(s), Key(k), Key(x))
      BY <2>1, ChildFacts
    <2>3. sub[y] \in SUBSET M /\ sub[e] \in SUBSET M
      BY <1>0, <2>1, ShapeType
    <2> HIDE DEF y, e, step
    <2>4. ASSUME NEW m \in sub[c] \ sub[y], NEW k \in sub[y] PROVE Beyond(s, Key(k), Key(m))
      <3>1. CASE m \notin sub[x]
        BY <2>1, <2>4, <3>1
      <3>2. CASE m = x
        BY <2>2, <3>2
      <3>3. CASE m \in sub[e]
        <4>1. Beyond(Other(s), Key(m), Key(x)) /\ Beyond(s, Key(k), Key(x))
          BY <2>2, <3>3
        <4>2. Key(m) \in Int /\ Key(x) \in Int /\ Key(k) \in Int
          BY <1>0, <2>1, <2>3, <3>3
        <4>3. Beyond(s, Key(x), Key(m))
          BY <4>1, <4>2, BeyondFacts
        <4> QED  BY <4>1, <4>2, <4>3, BeyondFacts
      <3> QED  BY <2>1, <2>4, <3>1, <3>2, <3>3
    <2>5. y \in P
      BY <2>1, <2>4
    <2> HIDE DEF P
    <2> QED  BY <2>1, <2>5 DEF y
  <1>4. f \in P /\ step[f] = NULL
    <2> HIDE DEF P, rank, step
    <2>1. Follow(step, c) \in P /\ step[Follow(step, c)] = NULL
      BY <1>1, <1>2, <1>3, WayRule
    <2> QED  BY <2>1 DEF Furthest, step
  <1> HIDE DEF f
  <1>5. /\ f \in sub[f] /\ Other(s) \in Side /\ sub[f] = {f} \cup sub[t.child[s][f]] \cup sub[t.child[Other(s)][f]]
        /\ \A m \in sub[t.child[Other(s)][f]] : Beyond(Other(s), Key(m), Key(f))
    BY <1>4, ChildFacts, SideFacts
  <1>6. ASSUME NEW m \in sub[c] \ {f} PROVE Beyond(s, Key(f), Key(m))
    <2>1. CASE m \notin sub[f]
      BY <1>4, <1>5, <2>1
    <2>2. CASE m \in sub[f]
      <3>1. m \in sub[t.child[Other(s)][f]]
        BY <1>0, <1>4, <1>5, <2>2
      <3>2. Key(m) \in Int /\ Key(f) \in Int /\ Beyond(Other(s), Key(m), Key(f))
        BY <1>0, <1>4, <1>5, <3>1
      <3> QED  BY <3>2, BeyondFacts
    <2> QED  BY <2>1, <2>2
  <1> QED  BY <1>4, <1>5, <1>6 DEF f

(* rb_first and rb_last come to the first and the last node. *)
LEMMA EndFacts ==
    ASSUME NEW t, NEW M, NEW sub, Shape(t, M, sub), NEW s \in Side
    PROVE  End(t, s) = Outermost(M, s)
  <1>1. M \in SUBSET Node /\ sub[t.root] = M /\ t.root \in M \cup {NULL} /\ sub[NULL] = {}
    BY ShapeType
  <1>2. CASE t.root = NULL
    BY <1>1, <1>2 DEF End, Outermost
  <1>3. CASE t.root # NULL
    <2> DEFINE f == Furthest(t, t.root, s)
    <2>1. f \in M /\ \A m \in M \ {f} : Beyond(s, Key(f), Key(m))
      BY <1>1, <1>3, FurthestFacts
    <2> HIDE DEF f
    <2>2. Outermost(M, s) = f
      BY <1>1, <2>1, OutermostFacts
    <2> QED  BY <1>3, <2>2 DEF End, f
  <1> QED  BY <1>2, <1>3

(* f is the next node after n on side s. *)
Neighbour(M, n, f, s) ==
    /\ f \in M /\ Beyond(s, Key(f), Key(n))
    /\ \A m \in M \ {f} : Beyond(s, Key(m), Key(n)) => Beyond(s, Key(m), Key(f))

(* The neighbour of a node with a child on that side is below that child. *)
LEMMA BelowFacts ==
    ASSUME NEW t, NEW M, NEW sub, Shape(t, M, sub), NEW n \in M, NEW s \in Side, t.child[s][n] # NULL
    PROVE  LET f == Furthest(t, t.child[s][n], Other(s))
           IN  /\ Neighbour(M, n, f, s) /\ f # n /\ t.child[Other(s)][f] = NULL
               /\ t.child[Other(s)][n] # f /\ f \in sub[t.child[s][n]]
  <1> DEFINE c == t.child[s][n]
             e == t.child[Other(s)][n]
             f == Furthest(t, c, Other(s))
  <1>0. (\A x \in M : Key(x) \in Int) /\ Other(s) \in Side /\ Other(Other(s)) = s
    BY ShapeType, SideFacts
  <1>1. /\ c \in M /\ sub[n] = {n} \cup sub[c] \cup sub[e] /\ n \notin sub[c] /\ n \in sub[n]
        /\ \A m \in sub[c] : Beyond(s, Key(m), Key(n))
    BY ChildFacts
  <1>2. \A m \in sub[e] : Beyond(Other(s), Key(m), Key(n))
    BY <1>0, ChildFacts
  <1>3. /\ f \in M /\ f \in sub[c] /\ t.child[Other(s)][f] = NULL
        /\ \A m \in sub[c] \ {f} : Beyond(Other(s), Key(f), Key(m))
    BY <1>0, <1>1, FurthestFacts
  <1>4. e # NULL => e \in sub[e]
    BY <1>0, ChildFacts
  <1>5. Outside(M, sub, n)
    BY OutsideFacts
  <1> HIDE DEF c, e, f
  <1>6. ASSUME NEW m \in M \ {f}, Beyond(s, Key(m), Key(n)) PROVE Beyond(s, Key(m), Key(f))
    <2>0. Key(m) \in Int /\ Key(n) \in Int /\ Key(f) \in Int
      BY <1>0, <1>3
    <2>1. CASE m \notin sub[n]
      <3>1. PICK q \in Side : \A k \in sub[n] : Beyond(q, Key(m), Key(k))
        BY <1>5, <2>1 DEF Outside
      <3>2. Beyond(q, Key(m), Key(n)) /\ Beyond(q, Key(m), Key(f))
        BY <1>1, <1>3, <3>1
      <3>3. q = s
        <4>1. q = Other(s) => Beyond(s, Key(n), Key(m))
          BY <1>0, <2>0, <3>2, BeyondFacts
        <4> QED  BY <1>6, <2>0, <4>1, BeyondFacts, SideFacts
      <3> QED  BY <3>2, <3>3
    <2>2. CASE m \in sub[n]
      <3>1. m # n
        BY <1>6, <2>0, BeyondFacts
      <3>2. m \notin sub[e]
        <4>1. m \in sub[e] => Beyond(Other(s), Key(m), Key(n))
          BY <1>2
        <4> QED  BY <1>0, <1>6, <2>0, <4>1, BeyondFacts
      <3>3. Beyond(Other(s), Key(f), Key(m))
        BY <1>1, <1>3, <2>2, <3>1, <3>2
      <3> QED  BY <1>0, <2>0, <3>3, BeyondFacts
    <2> QED  BY <2>1, <2>2
  <1>7. e # f
    <2>1. Beyond(s, Key(f), Key(n)) /\ Key(f) \in Int /\ Key(n) \in Int
      BY <1>0, <1>1, <1>3
    <2>2. ASSUME e = f PROVE FALSE
      <3>1. e # NULL
        BY <1>3, <2>2, ShapeType
      <3>2. Beyond(Other(s), Key(f), Key(n))
        BY <1>2, <1>4, <2>2, <3>1
      <3> QED  BY <1>0, <2>1, <3>2, BeyondFacts
    <2> QED  BY <2>2
  <1>8. Neighbour(M, n, f, s) /\ f # n
    BY <1>1, <1>3, <1>6 DEF Neighbour
  <1> QED  BY <1>3, <1>7, <1>8 DEF c, e, f

(* Without such a child it is above, or there is none. *)
LEMMA ClimbFacts ==
    ASSUME NEW t, NEW M, NEW sub, Shape(t, M, sub), NEW n \in M, NEW s \in Side, t.child[s][n] = NULL
    PROVE  IF Climb(t, n, s) = NULL THEN \A m \in M : ~ Beyond(s, Key(m), Key(n))
           ELSE Neighbour(M, n, Climb(t, n, s), s)
  <1> DEFINE P == {x \in M : n \in sub[x] /\ \A k \in sub[x] \ {n} : Beyond(Other(s), Key(k), Key(n))}
             step == [m \in Node |-> IF t.parent[m] # NULL /\ m = t.child[s][t.parent[m]]
                                     THEN t.parent[m] ELSE NULL]
             rank == [x \in P |-> Cardinality(M) - Size(sub, x)]
             x == Follow(step, n)
             p == t.parent[x]
  <1>0. /\ M \in SUBSET Node /\ M \in SUBSET Ptr /\ (\A y \in Ptr : sub[y] \in SUBSET M)
        /\ (\A y \in M : Key(y) \in Int) /\ t \in Tree /\ NULL \notin M /\ sub[NULL] = {}
        /\ Other(s) \in Side /\ Other(Other(s)) = s
    BY ShapeType, SideFacts
  <1>1. step \in [Node -> Ptr] /\ P \in SUBSET Node
    <2>1. \A m \in Node : t.parent[m] \in Ptr /\ NULL \in Ptr
      BY <1>0 DEF Tree, Ptr
    <2> QED  BY <1>0, <2>1
  <1>2. n \in P
    <2>1. /\ sub[n] = {n} \cup sub[t.child[s][n]] \cup sub[t.child[Other(s)][n]] /\ n \in sub[n]
          /\ \A k \in sub[t.child[Other(s)][n]] : Beyond(Other(s), Key(k), Key(n))
      BY <1>0, ChildFacts
    <2> QED  BY <1>0, <2>1
  <1>3. rank \in [P -> Nat]
    <2>1. \A y \in P : Cardinality(M) - Size(sub, y) \in Nat
      BY <1>0, SizeFacts
    <2> HIDE DEF P
    <2> QED  BY <2>1
  <1>4. ASSUME NEW y \in P, step[y] # NULL PROVE step[y] \in P /\ rank[step[y]] < rank[y]
    <2> DEFINE a == t.parent[y]
               e == t.child[Other(s)][a]
    <2>1. a # NULL /\ y = t.child[s][a] /\ step[y] = a /\ y \in M
      BY <1>1, <1>4
    <2>2. a \in M /\ y # NULL /\ Size(sub, y) < Size(sub, a)
      BY <1>0, <2>1, AboveFacts, SizeFacts
    <2> HIDE DEF a, step
    <2>3. /\ sub[a] = {a} \cup sub[y] \cup sub[e]
          /\ (\A k \in sub[y] : Beyond(s, Key(k), Key(a)))
          /\ (\A k \in sub[e] : Beyond(Other(s), Key(k), Key(a)))
      BY <1>0, <2>1, <2>2, ChildFacts
    <2>4. sub[e] \in SUBSET M
      BY <1>0, <2>2, ShapeType
    <2> HIDE DEF e
    <2>5. Beyond(Other(s), Key(a), Key(n)) /\ Key(a) \in Int /\ Key(n) \in Int
      <3>1. Beyond(s, Key(n), Key(a)) /\ Key(a) \in Int /\ Key(n) \in Int
        BY <1>0, <2>2, <2>3
      <3> QED  BY <3>1, BeyondFacts
    <2>6. ASSUME NEW k \in sub[a] \ {n} PROVE Beyond(Other(s), Key(k), Key(n))
      <3>1. CASE k \in sub[y]
        BY <3>1, <2>6
      <3>2. CASE k = a
        BY <2>5, <3>2
      <3>3. CASE k \in sub[e]
        <4>1. Beyond(Other(s), Key(k), Key(a)) /\ Key(k) \in Int
          BY <1>0, <2>3, <2>4, <3>3
        <4> QED  BY <1>0, <2>5, <4>1, BeyondFacts
      <3> QED  BY <2>3, <2>6, <3>1, <3>2, <3>3
    <2>7. a \in P
      BY <2>2, <2>3, <2>6
    <2> HIDE DEF P
    <2>8. rank[a] = Cardinality(M) - Size(sub, a) /\ rank[y] = Cardinality(M) - Size(sub, y)
      BY <2>7
    <2>9. Cardinality(M) \in Nat /\ Size(sub, a) \in Nat /\ Size(sub, y) \in Nat
      BY <1>0, <2>1, <2>2, SizeFacts
    <2> HIDE DEF rank
    <2> QED  BY <2>1, <2>2, <2>7, <2>8, <2>9
  <1>5. x \in P /\ step[x] = NULL
    <2> HIDE DEF P, rank, step
    <2> QED  BY <1>1, <1>2, <1>3, <1>4, WayRule
  <1>6. Climb(t, n, s) = p
    BY DEF Climb
  <1> HIDE DEF x
  <1>7. x \in M /\ n \in sub[x] /\ (\A k \in sub[x] \ {n} : Beyond(Other(s), Key(k), Key(n)))
           /\ (p = NULL \/ x # t.child[s][p])
    BY <1>1, <1>5
  <1>8. \A m \in sub[x] : ~ Beyond(s, Key(m), Key(n))
    <2> TAKE m \in sub[x]
    <2>1. Key(m) \in Int /\ Key(n) \in Int
      BY <1>0, <1>7
    <2>2. m # n => Beyond(Other(s), Key(m), Key(n))
      BY <1>7
    <2> QED  BY <1>0, <2>1, <2>2, BeyondFacts
  <1>9. CASE p = NULL
    <2>1. x = t.root
      BY <1>7, <1>9, RootFacts
    <2>2. sub[x] = M
      BY <2>1, ShapeType
    <2> QED  BY <1>6, <1>8, <1>9, <2>2
  <1>10. CASE p # NULL
    <2> DEFINE d == SideOf(t, p, x)
    <2>1. p \in M /\ d \in Side /\ t.child[d][p] = x
      BY <1>7, <1>10, AboveFacts
    <2> HIDE DEF p, d, step
    <2>2. t.child[Other(s)][p] = x
      BY <1>7, <1>10, <2>1, SideFacts
    <2> DEFINE e == t.child[s][p]
    <2>3. /\ sub[p] = {p} \cup sub[e] \cup sub[x] /\ p \in sub[p]
          /\ (\A k \in sub[x] : Beyond(Other(s), Key(k), Key(p)))
          /\ (\A k \in sub[e] : Beyond(s, Key(k), Key(p)))
      BY <1>0, <2>1, <2>2, ChildFacts
    <2>4. Outside(M, sub, p)
      BY <2>1, OutsideFacts
    <2> HIDE DEF e
    <2>5. Beyond(s, Key(p), Key(n)) /\ Key(p) \in Int /\ Key(n) \in Int
      <3>1. Beyond(Other(s), Key(n), Key(p)) /\ Key(p) \in Int /\ Key(n) \in Int
        BY <1>0, <1>7, <2>1, <2>3
      <3> QED  BY <1>0, <3>1, BeyondFacts
    <2>6. ASSUME NEW m \in M \ {p}, Beyond(s, Key(m), Key(n)) PROVE Beyond(s, Key(m), Key(p))
      <3>0. Key(m) \in Int
        BY <1>0
      <3>1. CASE m \notin sub[p]
        <4>1. PICK q \in Side : \A k \in sub[p] : Beyond(q, Key(m), Key(k))
          BY <2>4, <3>1 DEF Outside
        <4>2. Beyond(q, Key(m), Key(n)) /\ Beyond(q, Key(m), Key(p))
          BY <1>7, <2>3, <4>1
        <4>3. q = s
          <5>1. q = Other(s) => Beyond(s, Key(n), Key(m))
            BY <1>0, <2>5, <3>0, <4>2, BeyondFacts
          <5> QED  BY <2>5, <2>6, <3>0, <5>1, BeyondFacts, SideFacts
        <4> QED  BY <4>2, <4>3
      <3>2. CASE m \in sub[p]
        BY <1>8, <2>3, <2>6, <3>2
      <3> QED  BY <3>1, <3>2
    <2> QED  BY <1>6, <1>10, <2>1, <2>5, <2>6 DEF Neighbour
  <1> QED  BY <1>9, <1>10

(* rb_next and rb_prev come to the neighbour in the order of the keys. *)
LEMMA StepFacts ==
    ASSUME NEW t, NEW M, NEW sub, Shape(t, M, sub), NEW n \in M, NEW s \in Side
    PROVE  Step(t, n, s) = Outermost({m \in M : Beyond(s, Key(m), Key(n))}, Other(s))
  <1> DEFINE S == {m \in M : Beyond(s, Key(m), Key(n))}
             f == Step(t, n, s)
  <1>0. M \in SUBSET Node /\ NULL \notin M /\ (\A x \in M : Key(x) \in Int) /\ Other(s) \in Side
    BY ShapeType, SideFacts
  <1>1. IF f = NULL THEN S = {} ELSE Neighbour(M, n, f, s)
    <2>1. CASE t.child[s][n] = NULL
      <3>1. f = Climb(t, n, s)
        BY <2>1 DEF Step
      <3>2. IF Climb(t, n, s) = NULL THEN \A m \in M : ~ Beyond(s, Key(m), Key(n))
            ELSE Neighbour(M, n, Climb(t, n, s), s)
        BY <2>1, ClimbFacts
      <3> HIDE DEF f
      <3> QED  BY <3>1, <3>2
    <2>2. CASE t.child[s][n] # NULL
      <3>1. f = Furthest(t, t.child[s][n], Other(s))
        BY <2>2 DEF Step
      <3>2. Neighbour(M, n, f, s)
        BY <2>2, <3>1, BelowFacts
      <3>3. f # NULL
        BY <1>0, <3>2 DEF Neighbour
      <3> QED  BY <3>2, <3>3
    <2> QED  BY <2>1, <2>2
  <1> HIDE DEF f
  <1>2. CASE f = NULL
    BY <1>1, <1>2 DEF Outermost, f
  <1>3. CASE f # NULL
    <2>1. f \in S /\ f \in M /\ \A m \in S \ {f} : Beyond(s, Key(m), Key(f))
      BY <1>1, <1>3 DEF Neighbour
    <2>2. \A m \in S \ {f} : Beyond(Other(s), Key(f), Key(m))
      BY <1>0, <2>1, BeyondFacts
    <2>3. S \in SUBSET Node
      BY <1>0
    <2> HIDE DEF S
    <2>4. Outermost(S, Other(s)) = f
      BY <1>0, <2>1, <2>2, <2>3, OutermostFacts
    <2> QED  BY <2>4 DEF f, S
  <1> QED  BY <1>2, <1>3

(* The way down to an id ends at its node, or at a free place next to it. *)
LEMMA DescendFacts ==
    ASSUME NEW t, NEW M, NEW sub, Shape(t, M, sub), NEW id \in Int
    PROVE  LET p == Descend(t, id)
           IN  IF p = NULL THEN M = {} /\ t.root = NULL
               ELSE /\ p \in M /\ Adjacent(M, p, id)
                    /\ Key(p) # id => /\ Toward(id, p) \in Side /\ t.child[Toward(id, p)][p] = NULL
                                      /\ Beyond(Toward(id, p), id, Key(p))
  <1> DEFINE P == {x \in M : \A m \in M \ sub[x] : \A k \in sub[x] : \A s \in Side :
                                Beyond(s, Key(k), Key(m)) => Beyond(s, id, Key(m))}
             step == [n \in Node |-> IF id = Key(n) THEN NULL ELSE t.child[Toward(id, n)][n]]
             rank == [x \in P |-> Size(sub, x)]
             f == Follow(step, t.root)
  <1>0. /\ M \in SUBSET Node /\ M \in SUBSET Ptr /\ (\A x \in Ptr : sub[x] \in SUBSET M)
        /\ (\A x \in M : Key(x) \in Int) /\ t \in Tree /\ NULL \notin M /\ sub[NULL] = {}
        /\ sub[t.root] = M /\ t.root \in M \cup {NULL} /\ NULL \in Ptr
    BY ShapeType DEF Ptr
  <1>1. \A n \in Node : Toward(id, n) \in Side /\ (Key(n) # id => Beyond(Toward(id, n), id, Key(n)))
    BY NodeFacts DEF Toward, Side, Beyond
  <1>2. CASE t.root = NULL
    BY <1>0, <1>2 DEF Descend
  <1>3. CASE t.root # NULL
    <2>1. step \in [Node -> Ptr]
      <3>1. \A n \in Node : t.child[Toward(id, n)][n] \in Ptr
        BY <1>0, <1>1 DEF Tree
      <3> QED  BY <1>0, <3>1
    <2>2. P \in SUBSET Node /\ t.root \in P
      BY <1>0, <1>3
    <2>3. rank \in [P -> Nat]
      <3>1. \A x \in P : Size(sub, x) \in Nat
        BY <1>0, SizeFacts
      <3> HIDE DEF P
      <3> QED  BY <3>1
    <2>4. ASSUME NEW x \in P, step[x] # NULL PROVE step[x] \in P /\ rank[step[x]] < rank[x]
      <3> DEFINE d == Toward(id, x)
                 y == t.child[d][x]
                 e == t.child[Other(d)][x]
      <3>0. x \in M /\ x \in Node
        BY <1>0
      <3>1. step[x] = y /\ id # Key(x)
        BY <2>4, <3>0
      <3>2. d \in Side /\ Beyond(d, id, Key(x)) /\ Other(d) \in Side /\ Other(Other(d)) = d
        BY <1>1, <3>0, <3>1, SideFacts
      <3> HIDE DEF d, step
      <3>3. y \in M /\ sub[x] = {x} \cup sub[y] \cup sub[e] /\ Size(sub, y) < Size(sub, x)
        BY <2>4, <3>0, <3>1, <3>2, ChildFacts, SizeFacts
      <3>4. (\A k \in sub[y] : Beyond(d, Key(k), Key(x))) /\ \A k \in sub[e] : Beyond(Other(d), Key(k), Key(x))
        BY <3>0, <3>2, ChildFacts
      <3>5. sub[y] \in SUBSET M /\ sub[e] \in SUBSET M
        BY <1>0, <3>0, <3>2, ShapeType
      <3> HIDE DEF y, e
      <3>6. ASSUME NEW m \in M \ sub[y], NEW k \in sub[y], NEW s \in Side, Beyond(s, Key(k), Key(m))
            PROVE  Beyond(s, id, Key(m))
        <4>0. Key(m) \in Int /\ Key(k) \in Int /\ Key(x) \in Int
          BY <1>0, <3>0, <3>5
        <4>1. CASE m \notin sub[x]
          BY <3>3, <3>6, <4>1
        <4>2. CASE m = x
          <5>1. Beyond(d, Key(k), Key(x)) /\ Beyond(s, Key(k), Key(x))
            BY <3>4, <3>6, <4>2
          <5>2. s = d
            <6>1. s = Other(d) => Beyond(d, Key(x), Key(k))
              BY <3>2, <4>0, <5>1, BeyondFacts
            <6> QED  BY <3>2, <4>0, <5>1, <6>1, BeyondFacts, SideFacts
          <5> QED  BY <3>2, <4>2, <5>2
        <4>3. CASE m \in sub[e]
          <5>1. Beyond(d, Key(x), Key(m))
            BY <3>2, <3>4, <4>0, <4>3, BeyondFacts
          <5>2. Beyond(d, id, Key(m)) /\ Beyond(d, Key(k), Key(m))
            <6>1. Beyond(d, Key(k), Key(x))
              BY <3>4
            <6> QED  BY <3>2, <4>0, <5>1, <6>1, BeyondFacts
          <5>3. s = d
            <6>1. s = Other(d) => Beyond(d, Key(m), Key(k))
              BY <3>2, <3>6, <4>0, BeyondFacts
            <6> QED  BY <3>2, <4>0, <5>2, <6>1, BeyondFacts, SideFacts
          <5> QED  BY <5>2, <5>3
        <4> QED  BY <3>3, <3>6, <4>1, <4>2, <4>3
      <3>7. y \in P
        BY <3>3, <3>6
      <3> HIDE DEF P
      <3> QED  BY <3>1, <3>3, <3>7
    <2>5. f \in P /\ step[f] = NULL
      <3> HIDE DEF P, rank, step
      <3> QED  BY <2>1, <2>2, <2>3, <2>4, WayRule
    <2>6. Descend(t, id) = f
      BY <1>3 DEF Descend
    <2> HIDE DEF f
    <2>7. f \in M /\ f \in Node /\ f # NULL /\ f \in sub[f]
             /\ (Key(f) # id => t.child[Toward(id, f)][f] = NULL)
      <3>1. f \in M /\ f \in Node /\ f # NULL
        BY <1>0, <2>5
      <3>2. f \in sub[f]
        BY <3>1, ChildFacts DEF Side
      <3>3. Key(f) # id => t.child[Toward(id, f)][f] = NULL
        BY <2>5, <3>1
      <3> QED  BY <3>1, <3>2, <3>3
    <2>8. ASSUME NEW m \in M \ {f}, NEW s \in Side, Beyond(s, Key(f), Key(m)) PROVE Beyond(s, id, Key(m))
      <3>1. CASE m \notin sub[f]
        BY <2>5, <2>7, <2>8, <3>1
      <3>2. CASE m \in sub[f]
        <4>1. CASE Key(f) = id
          BY <2>8, <4>1
        <4>2. CASE Key(f) # id
          <5> DEFINE d == Toward(id, f)
                     e == t.child[Other(d)][f]
          <5>1. d \in Side /\ Beyond(d, id, Key(f)) /\ t.child[d][f] = NULL
                  /\ Other(d) \in Side /\ Other(Other(d)) = d
            BY <1>1, <2>7, <4>2, SideFacts
          <5> HIDE DEF d
          <5>2. /\ sub[f] = {f} \cup sub[NULL] \cup sub[e]
                /\ \A k \in sub[e] : Beyond(Other(d), Key(k), Key(f))
            BY <2>7, <5>1, ChildFacts
          <5> HIDE DEF e
          <5>3. Beyond(Other(d), Key(m), Key(f)) /\ Key(m) \in Int /\ Key(f) \in Int
            BY <1>0, <2>7, <2>8, <3>2, <5>2
          <5>4. Beyond(d, Key(f), Key(m))
            BY <5>1, <5>3, BeyondFacts
          <5>5. Beyond(d, id, Key(m))
            BY <5>1, <5>3, <5>4, BeyondFacts
          <5>6. s = d
            <6>1. s = Other(d) => Beyond(d, Key(m), Key(f))
              BY <2>8, <5>1, <5>3, BeyondFacts
            <6> QED  BY <5>1, <5>3, <5>4, <6>1, BeyondFacts, SideFacts
          <5> QED  BY <5>5, <5>6
        <4> QED  BY <4>1, <4>2
      <3> QED  BY <3>1, <3>2
    <2>9. Adjacent(M, f, id)
      BY <2>8 DEF Adjacent
    <2> QED  BY <1>1, <2>6, <2>7, <2>9
  <1> QED  BY <1>2, <1>3

(* f4op_find finds the node with the id if there is one. *)
LEMMA FindFacts ==
    ASSUME NEW t, NEW M, NEW sub, Shape(t, M, sub), NEW id \in Int
    PROVE  LET f == f4op_find(t, id)
           IN  IF f = NULL THEN \A m \in M : Key(m) # id
               ELSE f \in M /\ Key(f) = id /\ \A m \in M \ {f} : Key(m) # id
  <1> DEFINE p == Descend(t, id)
             f == f4op_find(t, id)
  <1>0. f = IF p # NULL /\ Key(p) = id THEN p ELSE NULL
    BY DEF f4op_find
  <1>1. IF p = NULL THEN M = {} ELSE p \in M /\ Adjacent(M, p, id)
    BY DescendFacts
  <1>2. \A m \in M : Key(m) \in Int
    BY ShapeType
  <1> HIDE DEF p, f
  <1>3. ASSUME p # NULL, NEW m \in M \ {p} PROVE Key(m) # id
    <2>1. Key(m) # Key(p) /\ Key(p) \in Int
      BY <1>1, <1>2, <1>3, DistinctKeys
    <2>2. PICK s \in Side : Beyond(s, Key(p), Key(m))
      <3>1. "left" \in Side /\ Other("left") \in Side
        BY DEF Side, Other
      <3>2. Beyond("left", Key(p), Key(m)) \/ Beyond("left", Key(m), Key(p))
        BY <1>2, <2>1, <3>1, BeyondFacts
      <3>3. Beyond("left", Key(m), Key(p)) => Beyond(Other("left"), Key(p), Key(m))
        BY <1>2, <2>1, <3>1, BeyondFacts
      <3> QED  BY <3>1, <3>2, <3>3
    <2>3. Beyond(s, id, Key(m))
      BY <1>1, <1>3, <2>2 DEF Adjacent
    <2> QED  BY <2>3, BeyondFacts
  <1>4. f # NULL => f = p
    BY <1>0
  <1> QED  BY <1>0, <1>1, <1>3, <1>4 DEF f

-----------------------------------------------------------------------------
(* Colours *)

(* What a node counts on a way down, and what is missing on side d of q. *)
Black(t, n) == IF t.red[n] THEN 0 ELSE 1
Lack(n, e, q, d) == IF n = q /\ e = d THEN 1 ELSE 0

(* bh[n] black nodes are on every way down from n, one more is missing on *)
(* side d of q.                                                           *)
Even(t, M, bh, q, d) ==
    /\ bh \in [Ptr -> Nat] /\ bh[NULL] = 0
    /\ \A n \in M : \A e \in Side :
          bh[n] = bh[t.child[e][n]] + Black(t, n) + Lack(n, e, q, d)

(* No red node is the root or has a red parent, but x may, and so may the *)
(* children of x.                                                         *)
Reds(t, M, x) ==
    \A n \in M : t.red[n] => \/ n = x
                             \/ /\ t.parent[n] # NULL
                                /\ t.parent[n] = x \/ ~ t.red[t.parent[n]]

(* The equation of Even at one node. *)
LEMMA EvenFacts ==
    ASSUME NEW t, NEW M, NEW sub, Shape(t, M, sub), NEW bh, NEW q, NEW d, Even(t, M, bh, q, d),
           NEW n \in M, NEW e \in Side
    PROVE  /\ bh[n] \in Nat /\ bh[t.child[e][n]] \in Nat
           /\ bh[n] = bh[t.child[e][n]] + Black(t, n) + Lack(n, e, q, d)
           /\ (t.red[n] => Black(t, n) = 0) /\ (~ t.red[n] => Black(t, n) = 1)
           /\ (n # q \/ e # d => Lack(n, e, q, d) = 0) /\ (n = q /\ e = d => Lack(n, e, q, d) = 1)
  <1>1. n \in Ptr /\ t.child[e][n] \in Ptr
    BY ShapeType
  <1>2. bh[n] \in Nat /\ bh[t.child[e][n]] \in Nat
           /\ bh[n] = bh[t.child[e][n]] + Black(t, n) + Lack(n, e, q, d)
    BY <1>1 DEF Even
  <1>3. (t.red[n] => Black(t, n) = 0) /\ (~ t.red[n] => Black(t, n) = 1)
    BY DEF Black
  <1>4. (n # q \/ e # d => Lack(n, e, q, d) = 0) /\ (n = q /\ e = d => Lack(n, e, q, d) = 1)
    BY DEF Lack
  <1> QED  BY <1>2, <1>3, <1>4

(* A node is one of the two children of its parent. *)
LEMMA TwoChildren ==
    ASSUME NEW t, NEW M, NEW sub, Shape(t, M, sub), NEW n \in M, NEW g \in M, t.parent[n] = g, NEW s \in Side
    PROVE  n = t.child[s][g] \/ n = t.child[Other(s)][g]
  <1>1. g # NULL
    BY ShapeType
  <1>2. SideOf(t, g, n) \in Side /\ t.child[SideOf(t, g, n)][g] = n
    BY <1>1, AboveFacts
  <1> QED  BY <1>2, SideFacts

(* tc is t with other colours of the nodes of W. *)
Recoloured(t, W, tc) ==
    /\ tc \in Tree /\ tc.root = t.root /\ tc.parent = t.parent /\ tc.child = t.child
    /\ \A n \in Node \ W : tc.red[n] <=> t.red[n]

(* One node is coloured. *)
LEMMA RecolourOne ==
    ASSUME NEW t \in Tree, NEW a \in Ptr, NEW va \in BOOLEAN
    PROVE  /\ Recoloured(t, {a}, Colour(t, a, va))
           /\ a # NULL => (Colour(t, a, va).red[a] <=> va)
  <1> DEFINE tc == Colour(t, a, va)
  <1>1. /\ tc \in Tree /\ tc.root = t.root /\ tc.parent = t.parent /\ tc.child = t.child
        /\ \A m \in Node : tc.red[m] = IF m = a THEN va ELSE t.red[m]
    BY ColourFields
  <1> HIDE DEF tc
  <1>2. a # NULL => (tc.red[a] <=> va)
    BY <1>1 DEF Ptr
  <1>3. Recoloured(t, {a}, tc)
    BY <1>1 DEF Recoloured
  <1> QED  BY <1>2, <1>3 DEF tc

(* Two nodes are coloured. *)
LEMMA RecolourTwo ==
    ASSUME NEW t \in Tree, NEW a \in Ptr, NEW va \in BOOLEAN, NEW b \in Ptr, NEW vb \in BOOLEAN, a # b
    PROVE  LET tc == Colour(Colour(t, a, va), b, vb)
           IN  /\ Recoloured(t, {a, b}, tc)
               /\ (a # NULL => (tc.red[a] <=> va)) /\ (b # NULL => (tc.red[b] <=> vb))
  <1> DEFINE u == Colour(t, a, va)
             tc == Colour(u, b, vb)
  <1>1. Recoloured(t, {a}, u) /\ (a # NULL => (u.red[a] <=> va))
    BY RecolourOne
  <1> HIDE DEF u
  <1>2. u \in Tree
    BY <1>1 DEF Recoloured
  <1>3. Recoloured(u, {b}, tc) /\ (b # NULL => (tc.red[b] <=> vb))
    BY <1>2, RecolourOne
  <1> HIDE DEF tc
  <1>4. \A n \in Node \ {a, b} : tc.red[n] <=> t.red[n]
    BY <1>1, <1>3 DEF Recoloured
  <1>5. a # NULL => (tc.red[a] <=> va)
    <2>1. a # NULL => a \in Node \ {b}
      BY DEF Ptr
    <2> QED  BY <1>1, <1>3, <2>1 DEF Recoloured
  <1>6. Recoloured(t, {a, b}, tc)
    BY <1>1, <1>3, <1>4 DEF Recoloured
  <1> QED  BY <1>3, <1>5, <1>6 DEF tc, u

(* What was coloured before stays as it is. *)
LEMMA RecolourMore ==
    ASSUME NEW t, NEW a \in Ptr, NEW b \in Ptr, NEW c \in Ptr, a # b, a # c, b # c, a # NULL, b # NULL,
           NEW u, Recoloured(t, {a, b}, u), NEW tc, Recoloured(u, {c}, tc)
    PROVE  Recoloured(t, {a, b, c}, tc) /\ (tc.red[a] <=> u.red[a]) /\ (tc.red[b] <=> u.red[b])
  <1>1. a \in Node \ {c} /\ b \in Node \ {c}
    BY DEF Ptr
  <1>2. (tc.red[a] <=> u.red[a]) /\ (tc.red[b] <=> u.red[b])
    BY <1>1 DEF Recoloured
  <1>3. \A n \in Node \ {a, b, c} : tc.red[n] <=> t.red[n]
    BY DEF Recoloured
  <1> QED  BY <1>2, <1>3 DEF Recoloured

(* A node and then two others are coloured. *)
LEMMA RecolourFamily ==
    ASSUME NEW t, NEW a \in Ptr, NEW b, NEW c, a # b, a # c, a # NULL,
           NEW u, Recoloured(t, {a}, u), NEW tc, Recoloured(u, {b, c}, tc)
    PROVE  Recoloured(t, {a, b, c}, tc) /\ (tc.red[a] <=> u.red[a])
  <1>1. a \in Node \ {b, c}
    BY DEF Ptr
  <1>2. tc.red[a] <=> u.red[a]
    BY <1>1 DEF Recoloured
  <1>3. \A n \in Node \ {a, b, c} : tc.red[n] <=> t.red[n]
    BY DEF Recoloured
  <1> QED  BY <1>2, <1>3 DEF Recoloured

(* r has the links of t after a rotation of node to side s. *)
Turned(t, M, node, s, r) ==
    LET up == t.child[Other(s)][node]
    IN  /\ r.root = IF t.parent[node] = NULL THEN up ELSE t.root
        /\ \A n \in M : r.parent[n] = IF n = up THEN t.parent[node]
                                      ELSE IF n = node THEN up
                                      ELSE IF n = t.child[s][up] THEN node
                                      ELSE t.parent[n]
        /\ \A n \in M \ {node, up} : \A q \in Side :
              r.child[q][n] = IF t.child[q][n] = node THEN up ELSE t.child[q][n]
        /\ r.child[s][node] = t.child[s][node] /\ r.child[Other(s)][node] = t.child[s][up]
        /\ r.child[s][up] = node /\ r.child[Other(s)][up] = t.child[Other(s)][up]

(* A rotation of a tree that was coloured before. *)
LEMMA RecolourRotate ==
    ASSUME NEW t, NEW M, NEW sub, Shape(t, M, sub), NEW node \in M, NEW s \in Side,
           t.child[Other(s)][node] # NULL, NEW W, NEW tc, Recoloured(t, W, tc)
    PROVE  LET r == Rotate(tc, node, s)
           IN  /\ Turned(t, M, node, s, r) /\ r.red = tc.red /\ r \in Tree
               /\ Shape(r, M, RotatedSub(t, node, s, sub))
  <1> DEFINE r == Rotate(tc, node, s)
             up == t.child[Other(s)][node]
             inner == t.child[s][up]
             above == t.parent[node]
  <1>1. tc \in Tree /\ tc.root = t.root /\ tc.parent = t.parent /\ tc.child = t.child
    BY DEF Recoloured
  <1>2. Shape(tc, M, sub)
    BY <1>1, SameLinks
  <1>3. Rotated(tc, node, s, r)
    BY <1>1, <1>2, RotateFields
  <1> HIDE DEF r
  <1>4. Shape(r, M, RotatedSub(tc, node, s, sub))
    BY <1>1, <1>2, <1>3, RotateShape
  <1>5. RotatedSub(tc, node, s, sub) = RotatedSub(t, node, s, sub)
    BY <1>1 DEF RotatedSub
  <1>6. /\ r \in Tree /\ r.red = tc.red
        /\ r.root = IF above = NULL THEN up ELSE t.root
        /\ \A n \in Node : r.parent[n] = IF n = up THEN above
                                         ELSE IF n = node THEN up
                                         ELSE IF n = inner THEN node
                                         ELSE t.parent[n]
    BY <1>1, <1>3 DEF Rotated
  <1>7. \A n \in Node : \A q \in Side :
              r.child[q][n] = IF n = node /\ q = Other(s) THEN inner
                              ELSE IF n = up /\ q = s THEN node
                              ELSE IF n = above /\ q = SideOf(t, above, node) THEN up
                              ELSE t.child[q][n]
    BY <1>1, <1>3 DEF Rotated, SideOf
  <1>8. /\ Other(s) \in Side /\ Other(s) # s /\ up \in M /\ up # node /\ above # node /\ above # up
        /\ M \in SUBSET Node
    BY RotationNodes, ShapeType
  <1>9. ASSUME NEW n \in M \ {node, up}, NEW q \in Side
        PROVE  r.child[q][n] = IF t.child[q][n] = node THEN up ELSE t.child[q][n]
    <2>1. t.child[q][n] = node => n = above /\ q = SideOf(t, n, node)
      BY SideFound
    <2>2. n = above /\ q = SideOf(t, above, node) => t.child[q][n] = node
      <3>1. n # NULL
        BY ShapeType
      <3>2. above # NULL => t.child[SideOf(t, above, node)][above] = node
        BY AboveFacts
      <3> HIDE DEF up, inner, above
      <3> QED  BY <3>1, <3>2
    <2> HIDE DEF up, inner, above
    <2> QED  BY <1>7, <1>8, <2>1, <2>2
  <1> HIDE DEF up, inner, above
  <1>10. /\ r.child[s][node] = t.child[s][node] /\ r.child[Other(s)][node] = inner
         /\ r.child[s][up] = node /\ r.child[Other(s)][up] = t.child[Other(s)][up]
    BY <1>7, <1>8
  <1>11. \A n \in M : r.parent[n] = IF n = up THEN above ELSE IF n = node THEN up
                                    ELSE IF n = inner THEN node ELSE t.parent[n]
    BY <1>6, <1>8
  <1>12. r.root = IF above = NULL THEN up ELSE t.root
    BY <1>6
  <1>13. Turned(t, M, node, s, r)
    BY <1>9, <1>10, <1>11, <1>12, Zenon DEF Turned, up, inner, above
  <1> QED  BY <1>4, <1>5, <1>6, <1>13 DEF r

(* The nodes outside W, which hangs together, see no difference if the node *)
(* that comes to the top of W counts as much as the old one.                *)
LEMMA TurnedEven ==
    ASSUME NEW t, NEW M, NEW sub, Shape(t, M, sub), NEW node \in M, NEW s \in Side,
           t.child[Other(s)][node] # NULL, NEW r, Turned(t, M, node, s, r),
           NEW bh, NEW q, NEW d, Even(t, M, bh, q, d), NEW W,
           NULL \notin W, node \in W, t.child[Other(s)][node] \in W,
           \A y \in W \ {node} : y \in M => t.parent[y] \in W,
           NEW bh2 \in [Ptr -> Nat], \A n \in Ptr \ W : bh2[n] = bh[n],
           \A n \in M \ W : r.red[n] <=> t.red[n],
           bh2[t.child[Other(s)][node]] = bh[node]
    PROVE  \A n \in M \ W : \A e \in Side :
              bh2[n] = bh2[r.child[e][n]] + Black(r, n) + Lack(n, e, q, d)
  <1> TAKE n \in M \ W
  <1> TAKE e \in Side
  <1> DEFINE up == t.child[Other(s)][node]
             c == t.child[e][n]
  <1>0. n \in Ptr /\ c \in Ptr /\ n # NULL
    BY ShapeType
  <1>1. r.child[e][n] = IF c = node THEN up ELSE c
    BY DEF Turned
  <1>2. bh[n] = bh[c] + Black(t, n) + Lack(n, e, q, d)
    BY DEF Even
  <1>3. Black(r, n) = Black(t, n)
    BY DEF Black
  <1>4. bh2[n] = bh[n]
    BY <1>0
  <1>5. c # node => c \notin W
    <2>1. c # NULL => c \in M /\ t.parent[c] = n
      BY ChildFacts
    <2>2. CASE c = NULL
      BY <2>2
    <2>3. CASE c # NULL
      BY <2>1, <2>3
    <2> QED  BY <2>2, <2>3
  <1>6. bh2[r.child[e][n]] = bh[c]
    BY <1>0, <1>1, <1>5
  <1> QED  BY <1>2, <1>3, <1>4, <1>6

(* The same for a tree that only got other colours. *)
LEMMA RecolouredEven ==
    ASSUME NEW t, NEW M, NEW sub, Shape(t, M, sub), NEW W, NEW r, Recoloured(t, W, r),
           NEW bh, NEW q, NEW d, Even(t, M, bh, q, d), NULL \notin W, NEW top,
           \A y \in W \ {top} : y \in M => t.parent[y] \in W,
           NEW bh2 \in [Ptr -> Nat], \A n \in Ptr \ W : bh2[n] = bh[n]
    PROVE  \A n \in M \ W : \A e \in Side :
              (t.child[e][n] # top \/ bh2[top] = bh[top]) =>
                  bh2[n] = bh2[r.child[e][n]] + Black(r, n) + Lack(n, e, q, d)
  <1> TAKE n \in M \ W
  <1> TAKE e \in Side
  <1> HAVE t.child[e][n] # top \/ bh2[top] = bh[top]
  <1> DEFINE c == t.child[e][n]
  <1>0. n \in Ptr /\ c \in Ptr /\ n # NULL /\ n \in Node \ W
    BY ShapeType
  <1>1. r.child[e][n] = c
    BY DEF Recoloured
  <1>2. bh[n] = bh[c] + Black(t, n) + Lack(n, e, q, d)
    BY DEF Even
  <1>3. Black(r, n) = Black(t, n)
    BY <1>0 DEF Black, Recoloured
  <1>4. bh2[n] = bh[n]
    BY <1>0
  <1>5. c # top => c \notin W
    <2>1. c # NULL => c \in M /\ t.parent[c] = n
      BY ChildFacts
    <2> QED  BY <2>1
  <1>6. bh2[c] = bh[c]
    BY <1>0, <1>5
  <1> QED  BY <1>1, <1>2, <1>3, <1>4, <1>6

(* Three generations: x and i below p, p and u below g. *)
LEMMA FamilyFacts ==
    ASSUME NEW t, NEW M, NEW sub, Shape(t, M, sub), NEW g \in M, NEW s \in Side, NEW p \in M, NEW u,
           t.child[s][g] = p, t.child[Other(s)][g] = u,
           NEW e \in Side, NEW x, NEW i, t.child[e][p] = x, t.child[Other(e)][p] = i
    PROVE  /\ p # g /\ u # p /\ u # g /\ x # p /\ x # g /\ i # p /\ i # g
           /\ (x # NULL => x # i /\ x # u) /\ (i # NULL => i # u /\ i # x)
           /\ u \in M \cup {NULL} /\ x \in M \cup {NULL} /\ i \in M \cup {NULL}
           /\ u \in Ptr /\ x \in Ptr /\ i \in Ptr /\ p \in Ptr /\ g \in Ptr
           /\ t.parent[p] = g
           /\ (x # NULL => t.parent[x] = p) /\ (i # NULL => t.parent[i] = p) /\ (u # NULL => t.parent[u] = g)
           /\ g # NULL /\ p # NULL
  <1>1. g # NULL /\ p # NULL /\ g \in Ptr /\ p \in Ptr /\ Other(s) \in Side /\ Other(e) \in Side
           /\ Other(Other(s)) = s
    BY ShapeType, SideFacts
  <1>2. p # g /\ u # p /\ t.parent[p] = g
    BY <1>1, ChildFacts
  <1>3. u # g /\ (u # NULL => t.parent[u] = g)
    BY <1>1, ChildFacts
  <1>4. x # p /\ (x # NULL => t.parent[x] = p /\ i # x)
    BY ChildFacts
  <1>5. i # p /\ (i # NULL => t.parent[i] = p)
    BY <1>1, ChildFacts
  <1>6. x # g /\ i # g
    <2>1. \A q \in Side : t.child[q][p] # g
      BY <1>1, ChildFacts
    <2> QED  BY <1>1, <2>1
  <1>7. u \in M \cup {NULL} /\ u \in Ptr
    BY <1>1, ShapeType
  <1>8. x \in M \cup {NULL} /\ i \in M \cup {NULL} /\ x \in Ptr /\ i \in Ptr
    BY <1>1, ShapeType
  <1> QED  BY <1>1, <1>2, <1>3, <1>4, <1>5, <1>6, <1>7, <1>8

(* The counts of a node and a child. *)
LEMMA CountFacts ==
    ASSUME NEW t, NEW M, NEW sub, Shape(t, M, sub), NEW bh, NEW q, NEW d, Even(t, M, bh, q, d),
           NEW n \in M, NEW e \in Side, NEW c, t.child[e][n] = c
    PROVE  /\ bh[n] \in Nat /\ bh[c] \in Nat
           /\ n # q \/ e # d => (t.red[n] => bh[n] = bh[c]) /\ (~ t.red[n] => bh[n] = bh[c] + 1)
           /\ n = q /\ e = d => (t.red[n] => bh[n] = bh[c] + 1) /\ (~ t.red[n] => bh[n] = bh[c] + 2)
  BY EvenFacts

-----------------------------------------------------------------------------
(* Rebalancing after an insertion *)

(* t is balanced, but for x, which is red and may be the root or have a red *)
(* parent.                                                                  *)
RedBut(t, M, x) == \A n \in M \ {x} : t.red[n] => t.parent[n] # NULL /\ ~ t.red[t.parent[n]]
Inserting(t, M, sub, bh, x) ==
    /\ Shape(t, M, sub) /\ Even(t, M, bh, NULL, "left")
    /\ x \in M /\ t.red[x] /\ RedBut(t, M, x)

(* The nodes of a turn of the loop: x below p below g. *)
LEMMA InsertNodes ==
    ASSUME NEW t, NEW M, NEW sub, NEW bh, NEW x, Inserting(t, M, sub, bh, x),
           IsRed(t, t.parent[x])
    PROVE  LET p == t.parent[x]
               g == t.parent[p]
           IN  /\ p \in M /\ g \in M /\ x # p /\ ~ t.red[g]
               /\ SideOf(t, g, p) \in Side /\ t.child[SideOf(t, g, p)][g] = p
               /\ SideOf(t, p, x) \in Side /\ t.child[SideOf(t, p, x)][p] = x
  <1> DEFINE p == t.parent[x]
             g == t.parent[p]
  <1>1. Shape(t, M, sub) /\ x \in M
    BY DEF Inserting
  <1>0. t.parent[x] # NULL
    BY DEF IsRed
  <1>2. p \in M /\ SideOf(t, p, x) \in Side /\ t.child[SideOf(t, p, x)][p] = x
    BY <1>0, <1>1, AboveFacts
  <1>3. x # p
    <2>1. t.child[SideOf(t, p, x)][p] # p
      BY <1>1, <1>2, ChildFacts
    <2> QED  BY <1>2, <2>1
  <1>4. g # NULL
    BY <1>2, <1>3 DEF Inserting, RedBut, IsRed
  <1>6. ~ t.red[g]
    BY <1>2, <1>3 DEF Inserting, RedBut, IsRed
  <1> HIDE DEF p
  <1>5. g \in M /\ SideOf(t, g, p) \in Side /\ t.child[SideOf(t, g, p)][g] = p
    BY <1>1, <1>2, <1>4, AboveFacts
  <1> QED  BY <1>2, <1>3, <1>4, <1>5, <1>6 DEF p

(* A red uncle: parent and uncle become black, the grandparent red. *)
LEMMA InsertUncle ==
    ASSUME NEW t, NEW M, NEW sub, NEW bh, NEW x, Inserting(t, M, sub, bh, x),
           NEW p \in M, NEW g \in M, NEW s \in Side, NEW e \in Side, NEW u \in M,
           t.child[s][g] = p, t.child[Other(s)][g] = u, t.child[e][p] = x, t.red[p], ~ t.red[g], t.red[u],
           NEW r, Recoloured(t, {u, p, g}, r), ~ r.red[u], ~ r.red[p], r.red[g]
    PROVE  (\E bh2 : Inserting(r, M, sub, bh2, g)) /\ Size(sub, g) > Size(sub, x)
  <1> DEFINE bh2 == [n \in Ptr |-> IF n = p \/ n = u THEN bh[n] + 1 ELSE bh[n]]
             W == {u, p, g}
             i == t.child[Other(e)][p]
  <1>0. Shape(t, M, sub) /\ x \in M /\ Other(s) \in Side /\ Other(e) \in Side
    BY SideFacts DEF Inserting
  <1>1. /\ p # g /\ u # p /\ u # g /\ x # p /\ x # g /\ i # p /\ i # g /\ x # i /\ x # u /\ (i # NULL => i # u)
        /\ u \in Ptr /\ x \in Ptr /\ i \in Ptr /\ p \in Ptr /\ g \in Ptr /\ i \in M \cup {NULL}
        /\ t.parent[p] = g /\ t.parent[x] = p /\ t.parent[u] = g /\ g # NULL /\ p # NULL
    <2>1. x # NULL /\ u # NULL
      BY <1>0, ShapeType
    <2> QED  BY <1>0, <2>1, FamilyFacts
  <1> HIDE DEF i
  <1>2. Even(t, M, bh, NULL, "left") /\ RedBut(t, M, x) /\ t.red[x]
    BY DEF Inserting
  <1>3. t \in Tree /\ M \in SUBSET Node /\ M \in SUBSET Ptr /\ NULL \notin M /\ NULL \in Ptr
    BY <1>0, ShapeType DEF Ptr
  <1>4. bh \in [Ptr -> Nat] /\ bh[NULL] = 0
    BY <1>2 DEF Even
  <1>5. /\ r \in Tree /\ r.root = t.root /\ r.parent = t.parent /\ r.child = t.child
        /\ \A n \in M \ W : r.red[n] <=> t.red[n]
    BY <1>3 DEF Recoloured
  <1>6. Shape(r, M, sub)
    BY <1>0, <1>5, SameLinks
  <1>7. /\ bh2 \in [Ptr -> Nat] /\ bh2[NULL] = 0
        /\ bh2[p] = bh[p] + 1 /\ bh2[u] = bh[u] + 1 /\ bh2[g] = bh[g]
        /\ \A n \in Ptr \ {p, u} : bh2[n] = bh[n]
    BY <1>1, <1>3, <1>4
  <1> HIDE DEF bh2, W
  <1>8. \A n \in M \ W : \A f \in Side :
           bh2[n] = bh2[r.child[f][n]] + Black(r, n) + Lack(n, f, NULL, "left")
    <2>1. \A y \in W \ {g} : y \in M => t.parent[y] \in W
      BY <1>1 DEF W
    <2>2. NULL \notin W /\ \A n \in Ptr \ W : bh2[n] = bh[n]
      BY <1>1, <1>3, <1>7 DEF W
    <2>3. Recoloured(t, W, r)
      BY DEF W
    <2>4. bh2 \in [Ptr -> Nat] /\ bh2[g] = bh[g]
      BY <1>7
    <2> QED  BY <1>0, <1>2, <2>1, <2>2, <2>3, <2>4, RecolouredEven
  <1>9. ASSUME NEW n \in W, NEW f \in Side
        PROVE  bh2[n] = bh2[r.child[f][n]] + Black(r, n) + Lack(n, f, NULL, "left")
    <2> DEFINE c == t.child[f][n]
    <2>0. n \in M /\ n # NULL /\ r.child[f][n] = c
      BY <1>3, <1>5 DEF W
    <2>1. bh[n] \in Nat /\ bh[c] \in Nat /\ (t.red[n] => bh[n] = bh[c]) /\ (~ t.red[n] => bh[n] = bh[c] + 1)
      BY <1>0, <1>2, <2>0, CountFacts
    <2>2. c # n /\ (c # NULL => c \in M /\ t.parent[c] = n) /\ c \in Ptr
      BY <1>0, <2>0, ChildFacts, ShapeType
    <2>3. n = g => c = p \/ c = u
      BY SideFacts
    <2> HIDE DEF c
    <2>4. CASE n = g
      <3>1. bh2[c] = bh[c] + 1 /\ bh2[n] = bh[n]
        BY <1>7, <2>3, <2>4
      <3>2. ~ t.red[n] /\ r.red[n]
        BY <2>4
      <3>3. bh2[n] = bh2[c] /\ bh2[c] \in Nat
        BY <2>1, <3>1, <3>2
      <3>4. Black(r, n) = 0 /\ Lack(n, f, NULL, "left") = 0
        BY <2>0, <3>2 DEF Black, Lack
      <3> QED  BY <2>0, <3>3, <3>4
    <2>5. CASE n = p \/ n = u
      <3>1. c # p /\ c # u
        BY <1>1, <1>3, <2>2, <2>5
      <3>2. bh2[c] = bh[c] /\ bh2[n] = bh[n] + 1
        BY <1>7, <2>2, <2>5, <3>1
      <3>3. t.red[n] /\ ~ r.red[n]
        BY <2>5
      <3>4. bh2[n] = bh2[c] + 1 /\ bh2[c] \in Nat
        BY <2>1, <3>2, <3>3
      <3>5. Black(r, n) = 1 /\ Lack(n, f, NULL, "left") = 0
        BY <2>0, <3>3 DEF Black, Lack
      <3> QED  BY <2>0, <3>4, <3>5
    <2> QED  BY <2>4, <2>5 DEF W
  <1>10. Even(r, M, bh2, NULL, "left")
    BY <1>7, <1>8, <1>9 DEF Even
  <1>11. ASSUME NEW n \in M \ {g}, r.red[n] PROVE r.parent[n] # NULL /\ ~ r.red[r.parent[n]]
    <2>0. n # p /\ n # u /\ r.parent[n] = t.parent[n]
      BY <1>5, <1>11
    <2>1. CASE n = x
      BY <1>1, <2>0, <2>1
    <2>2. CASE n # x
      <3>1. n \notin W
        BY <2>0 DEF W
      <3>2. t.parent[n] # NULL /\ ~ t.red[t.parent[n]]
        BY <1>2, <1>5, <1>11, <2>2, <3>1 DEF RedBut
      <3>3. t.parent[n] \in M
        BY <1>0, <3>2, AboveFacts
      <3>4. t.parent[n] # g
        <4>1. t.parent[n] = g => n = t.child[s][g] \/ n = t.child[Other(s)][g]
          BY <1>0, TwoChildren
        <4> QED  BY <2>0, <4>1
      <3>5. CASE t.parent[n] \in W
        BY <2>0, <3>2, <3>4, <3>5 DEF W
      <3>6. CASE t.parent[n] \notin W
        BY <1>5, <2>0, <3>2, <3>3, <3>6
      <3> QED  BY <3>5, <3>6
    <2> QED  BY <2>1, <2>2
  <1>12. Inserting(r, M, sub, bh2, g)
    BY <1>6, <1>10, <1>11 DEF Inserting, RedBut
  <1>13. Size(sub, g) > Size(sub, x)
    <2>1. Size(sub, x) < Size(sub, p)
      BY <1>0, SizeFacts
    <2>2. Size(sub, p) < Size(sub, g)
      BY <1>0, SizeFacts
    <2>3. Size(sub, x) \in Nat /\ Size(sub, p) \in Nat /\ Size(sub, g) \in Nat
      BY <1>0, <1>1, SizeFacts
    <2> QED  BY <2>1, <2>2, <2>3
  <1> QED  BY <1>12, <1>13

(* No red uncle, and x on the same side of p as p of g. *)
LEMMA InsertOuter ==
    ASSUME NEW t, NEW M, NEW sub, NEW bh, NEW x, Inserting(t, M, sub, bh, x),
           NEW p \in M, NEW g \in M, NEW s \in Side, NEW u, NEW i,
           t.child[s][g] = p, t.child[Other(s)][g] = u, t.child[s][p] = x, t.child[Other(s)][p] = i,
           t.red[p], ~ t.red[g], ~ IsRed(t, u),
           NEW tc, Recoloured(t, {p, g}, tc), ~ tc.red[p], tc.red[g]
    PROVE  LET r == Rotate(tc, g, Other(s))
           IN  (\E sub2, bh2 : Inserting(r, M, sub2, bh2, x)) /\ r.parent[x] = p /\ ~ r.red[p]
  <1> DEFINE r == Rotate(tc, g, Other(s))
             sub2 == RotatedSub(t, g, Other(s), sub)
             bh2 == [n \in Ptr |-> IF n = p THEN bh[g] ELSE IF n = g THEN bh[p] ELSE bh[n]]
             W == {p, g}
  <1>0. Shape(t, M, sub) /\ x \in M /\ Other(s) \in Side /\ Other(Other(s)) = s /\ Other(s) # s
    BY SideFacts DEF Inserting
  <1>3. t \in Tree /\ M \in SUBSET Node /\ M \in SUBSET Ptr /\ NULL \notin M /\ NULL \in Ptr /\ x # NULL
    BY <1>0, ShapeType DEF Ptr
  <1>1. /\ p # g /\ u # p /\ u # g /\ x # p /\ x # g /\ i # p /\ i # g /\ x # i /\ x # u /\ (i # NULL => i # u)
        /\ u \in Ptr /\ x \in Ptr /\ i \in Ptr /\ p \in Ptr /\ g \in Ptr /\ i \in M \cup {NULL} /\ u \in M \cup {NULL}
        /\ t.parent[p] = g /\ t.parent[x] = p /\ (i # NULL => t.parent[i] = p)
        /\ (u # NULL => t.parent[u] = g) /\ g # NULL /\ p # NULL
    BY <1>0, <1>3, FamilyFacts
  <1>2. Even(t, M, bh, NULL, "left") /\ RedBut(t, M, x) /\ t.red[x]
    BY DEF Inserting
  <1>4. bh \in [Ptr -> Nat] /\ bh[NULL] = 0
    BY <1>2 DEF Even
  <1>a. (u # NULL => ~ t.red[u]) /\ (i # NULL => ~ t.red[i])
    <2>1. u # NULL => ~ t.red[u]
      BY DEF IsRed
    <2>2. i # NULL => ~ t.red[i]
      BY <1>1, <1>2 DEF RedBut
    <2> QED  BY <2>1, <2>2
  <1>5. /\ bh[g] = bh[p] + 1 /\ bh[g] = bh[u] + 1 /\ bh[p] = bh[x] /\ bh[p] = bh[i]
        /\ bh[g] \in Nat /\ bh[p] \in Nat /\ bh[u] \in Nat
    <2>1. bh[g] = bh[p] + 1 /\ bh[g] \in Nat /\ bh[p] \in Nat
      BY <1>0, <1>1, <1>2, CountFacts
    <2>2. bh[g] = bh[u] + 1 /\ bh[u] \in Nat
      BY <1>0, <1>1, <1>2, CountFacts
    <2>3. bh[p] = bh[x]
      BY <1>0, <1>1, <1>2, CountFacts
    <2>4. bh[p] = bh[i]
      BY <1>0, <1>1, <1>2, CountFacts
    <2> QED  BY <2>1, <2>2, <2>3, <2>4
  <1>7. Turned(t, M, g, Other(s), r) /\ r.red = tc.red /\ r \in Tree /\ Shape(r, M, sub2)
    BY <1>0, <1>1, RecolourRotate
  <1> HIDE DEF r, sub2, W
  <1>8. ~ r.red[p] /\ r.red[g] /\ \A n \in M \ W : r.red[n] <=> t.red[n]
    BY <1>3, <1>7 DEF Recoloured, W
  <1>9. /\ \A n \in M : r.parent[n] = IF n = p THEN t.parent[g] ELSE IF n = g THEN p
                                      ELSE IF n = i THEN g ELSE t.parent[n]
        /\ r.child[Other(s)][g] = u /\ r.child[s][g] = i
        /\ r.child[Other(s)][p] = g /\ r.child[s][p] = x
    BY <1>0, <1>7 DEF Turned
  <1>10. /\ bh2 \in [Ptr -> Nat] /\ bh2[NULL] = 0 /\ bh2[p] = bh[g] /\ bh2[g] = bh[p]
         /\ (\A n \in Ptr \ W : bh2[n] = bh[n])
         /\ bh2[u] = bh[u] /\ bh2[i] = bh[i] /\ bh2[x] = bh[x]
    BY <1>1, <1>3, <1>4 DEF W
  <1> HIDE DEF bh2
  <1>11. \A n \in M \ W : \A e \in Side :
           bh2[n] = bh2[r.child[e][n]] + Black(r, n) + Lack(n, e, NULL, "left")
    <2>1. \A y \in W \ {g} : y \in M => t.parent[y] \in W
      BY <1>1 DEF W
    <2>2. NULL \notin W /\ g \in W /\ p \in W
      BY <1>1 DEF W
    <2>3. t.child[Other(Other(s))][g] = p
      BY <1>0
    <2>4. bh2[t.child[Other(Other(s))][g]] = bh[g] /\ t.child[Other(Other(s))][g] # NULL
            /\ t.child[Other(Other(s))][g] \in W
      BY <1>1, <1>10, <2>2, <2>3
    <2>5. bh2 \in [Ptr -> Nat] /\ \A n \in Ptr \ W : bh2[n] = bh[n]
      BY <1>10
    <2>6. \A n \in M \ W : r.red[n] <=> t.red[n]
      BY <1>8
    <2> QED  BY <1>0, <1>2, <1>7, <2>1, <2>2, <2>4, <2>5, <2>6, TurnedEven
  <1>12. ASSUME NEW n \in W, NEW e \in Side
         PROVE  bh2[n] = bh2[r.child[e][n]] + Black(r, n) + Lack(n, e, NULL, "left")
    <2>0. (n = p \/ n = g) /\ n # NULL /\ (e = s \/ e = Other(s))
      BY <1>1, SideFacts DEF W
    <2>1. Lack(n, e, NULL, "left") = 0 /\ (n = p => Black(r, n) = 1) /\ (n = g => Black(r, n) = 0)
      BY <1>8, <2>0 DEF Black, Lack
    <2>2. bh2[g] = bh2[u] /\ bh2[g] = bh2[i] /\ bh2[p] = bh2[g] + 1 /\ bh2[p] = bh2[x] + 1
            /\ bh2[u] \in Nat /\ bh2[g] \in Nat /\ bh2[x] \in Nat
      <3>1. bh2[p] = bh[g] /\ bh2[g] = bh[p] /\ bh2[u] = bh[u] /\ bh2[i] = bh[i] /\ bh2[x] = bh[x]
        BY <1>10
      <3>2. bh[u] = bh[p]
        BY <1>5
      <3>3. bh2[g] = bh2[u] /\ bh2[g] = bh2[i] /\ bh2[u] \in Nat /\ bh2[g] \in Nat /\ bh2[x] \in Nat
        BY <1>5, <3>1, <3>2
      <3>4. bh2[p] = bh2[g] + 1
        BY <1>5, <3>1
      <3>5. bh2[x] = bh2[g]
        BY <1>5, <3>1
      <3> QED  BY <3>3, <3>4, <3>5
    <2>3. CASE n = g
      <3>1. bh2[n] = bh2[r.child[e][n]]
        BY <1>9, <2>0, <2>2, <2>3
      <3> QED  BY <2>1, <2>2, <2>3, <3>1
    <2>4. CASE n = p
      <3>1. bh2[n] = bh2[r.child[e][n]] + 1 /\ bh2[r.child[e][n]] \in Nat
        BY <1>9, <2>0, <2>2, <2>4
      <3> QED  BY <2>1, <2>4, <3>1
    <2> QED  BY <2>0, <2>3, <2>4
  <1>13. Even(r, M, bh2, NULL, "left")
    BY <1>10, <1>11, <1>12 DEF Even
  <1>14. ASSUME NEW n \in M \ {x}, r.red[n] PROVE r.parent[n] # NULL /\ ~ r.red[r.parent[n]]
    <2>1. CASE n = g
      BY <1>1, <1>8, <1>9, <2>1
    <2>2. CASE n # g
      <3>1. n # p /\ n \notin W /\ t.red[n]
        BY <1>8, <1>14, <2>2 DEF W
      <3>2. n # i /\ n # u
        BY <1>3, <1>a, <3>1
      <3>3. t.parent[n] # NULL /\ ~ t.red[t.parent[n]]
        BY <1>2, <3>1 DEF RedBut
      <3>4. r.parent[n] = t.parent[n]
        BY <1>9, <2>2, <3>1, <3>2
      <3>5. t.parent[n] \in M
        BY <1>0, <3>3, AboveFacts
      <3>6. t.parent[n] # g
        <4>1. t.parent[n] = g => n = t.child[s][g] \/ n = t.child[Other(s)][g]
          BY <1>0, TwoChildren
        <4> QED  BY <3>1, <3>2, <4>1
      <3>7. CASE t.parent[n] = p
        BY <1>1, <1>8, <3>4, <3>7
      <3>8. CASE t.parent[n] # p
        <4>1. t.parent[n] \in M \ W
          BY <3>5, <3>6, <3>8 DEF W
        <4> QED  BY <1>8, <3>3, <3>4, <4>1
      <3> QED  BY <3>7, <3>8
    <2> QED  BY <2>1, <2>2
  <1>15. r.red[x] /\ r.parent[x] = p
    <2>1. x \in M \ W /\ r.parent[x] = p
      BY <1>0, <1>1, <1>9 DEF W
    <2> QED  BY <1>2, <1>8, <2>1
  <1>16. Inserting(r, M, sub2, bh2, x)
    BY <1>0, <1>7, <1>13, <1>14, <1>15 DEF Inserting, RedBut
  <1> QED  BY <1>8, <1>15, <1>16 DEF r

(* x on the other side of p: a rotation exchanges the two. *)
LEMMA InsertInner ==
    ASSUME NEW t, NEW M, NEW sub, NEW bh, NEW x, Inserting(t, M, sub, bh, x),
           NEW p \in M, NEW g \in M, NEW s \in Side, NEW u, NEW i,
           t.child[s][g] = p, t.child[Other(s)][g] = u, t.child[Other(s)][p] = x, t.child[s][p] = i,
           t.red[p], ~ t.red[g]
    PROVE  LET r == Rotate(t, p, s)
           IN  /\ \E sub2 : Inserting(r, M, sub2, bh, p)
               /\ r.red = t.red /\ r.child[s][g] = x /\ r.child[Other(s)][g] = u /\ r.child[s][x] = p
  <1> DEFINE y == t.child[s][x]
             z == t.child[Other(s)][x]
             r == Rotate(t, p, s)
             sub2 == RotatedSub(t, p, s, sub)
             W == {p, x}
  <1>0. Shape(t, M, sub) /\ x \in M /\ Other(s) \in Side /\ Other(Other(s)) = s /\ Other(s) # s
    BY SideFacts DEF Inserting
  <1>3. t \in Tree /\ M \in SUBSET Node /\ M \in SUBSET Ptr /\ NULL \notin M /\ NULL \in Ptr /\ x # NULL
    BY <1>0, ShapeType DEF Ptr
  <1>1. /\ p # g /\ u # p /\ u # g /\ x # p /\ x # g /\ i # p /\ i # g /\ x # i
        /\ x \in Ptr /\ i \in Ptr /\ p \in Ptr /\ g \in Ptr
        /\ t.parent[p] = g /\ t.parent[x] = p /\ g # NULL /\ p # NULL
    BY <1>0, <1>3, FamilyFacts
  <1>2. Even(t, M, bh, NULL, "left") /\ RedBut(t, M, x) /\ t.red[x]
    BY DEF Inserting
  <1>4. bh \in [Ptr -> Nat] /\ bh[NULL] = 0
    BY <1>2 DEF Even
  <1>b. y # NULL => y \in M /\ t.parent[y] = x /\ y # x
    BY <1>0, ChildFacts
  <1>7. Turned(t, M, p, s, r) /\ r.red = t.red /\ r \in Tree /\ Shape(r, M, sub2)
    <2>1. Recoloured(t, {}, t)
      BY <1>3 DEF Recoloured
    <2> QED  BY <1>0, <1>3, <2>1, RecolourRotate
  <1> HIDE DEF r, sub2, W
  <1>9. /\ \A n \in M : r.parent[n] = IF n = x THEN g ELSE IF n = p THEN x
                                      ELSE IF n = y THEN p ELSE t.parent[n]
        /\ r.child[s][p] = i /\ r.child[Other(s)][p] = y
        /\ r.child[s][x] = p /\ r.child[Other(s)][x] = z
        /\ \A n \in M \ {p, x} : \A q \in Side :
              r.child[q][n] = IF t.child[q][n] = p THEN x ELSE t.child[q][n]
    BY <1>1, <1>7 DEF Turned
  <1>10. r.child[s][g] = x /\ r.child[Other(s)][g] = u
    BY <1>0, <1>1, <1>9
  <1>5. bh[p] = bh[x] /\ bh[p] = bh[i] /\ bh[x] = bh[y] /\ bh[x] = bh[z] /\ bh[p] \in Nat
    <2>1. bh[p] = bh[i] /\ bh[p] \in Nat
      BY <1>0, <1>1, <1>2, CountFacts
    <2>2. bh[p] = bh[x]
      BY <1>0, <1>1, <1>2, CountFacts
    <2>3. bh[x] = bh[y]
      BY <1>0, <1>2, <1>3, CountFacts
    <2>4. bh[x] = bh[z]
      BY <1>0, <1>2, <1>3, CountFacts
    <2> QED  BY <2>1, <2>2, <2>3, <2>4
  <1> HIDE DEF y, z
  <1>a. y # NULL => ~ t.red[y]
    BY <1>2, <1>b DEF RedBut
  <1>11. \A n \in M \ W : \A e \in Side :
           bh[n] = bh[r.child[e][n]] + Black(r, n) + Lack(n, e, NULL, "left")
    <2>1. \A q \in W \ {p} : q \in M => t.parent[q] \in W
      BY <1>1 DEF W
    <2>2. NULL \notin W /\ p \in W /\ t.child[Other(s)][p] \in W
      BY <1>1, <1>3 DEF W
    <2>3. t.child[Other(s)][p] # NULL /\ bh[t.child[Other(s)][p]] = bh[p]
      BY <1>3, <1>5
    <2>4. (\A n \in M \ W : r.red[n] <=> t.red[n]) /\ \A n \in Ptr \ W : bh[n] = bh[n]
      BY <1>7
    <2>5. bh \in [Ptr -> Nat]
      BY <1>4
    <2> QED  BY <1>0, <1>2, <1>7, <2>1, <2>2, <2>3, <2>4, <2>5, TurnedEven
  <1>12. ASSUME NEW n \in W, NEW e \in Side
         PROVE  bh[n] = bh[r.child[e][n]] + Black(r, n) + Lack(n, e, NULL, "left")
    <2>0. (n = p \/ n = x) /\ n # NULL /\ (e = s \/ e = Other(s))
      BY <1>1, <1>3, SideFacts DEF W
    <2>1. Lack(n, e, NULL, "left") = 0 /\ Black(r, n) = 0
      BY <1>2, <1>7, <2>0 DEF Black, Lack
    <2>2. bh[n] = bh[r.child[e][n]] /\ bh[n] \in Nat
      <3>1. /\ r.child[s][p] = i /\ r.child[Other(s)][p] = y
            /\ r.child[s][x] = p /\ r.child[Other(s)][x] = z
        BY <1>9
      <3>2. CASE n = p
        BY <1>5, <2>0, <3>1, <3>2
      <3>3. CASE n = x
        BY <1>5, <2>0, <3>1, <3>3
      <3> QED  BY <2>0, <3>2, <3>3
    <2> QED  BY <2>1, <2>2
  <1>13. Even(r, M, bh, NULL, "left")
    BY <1>4, <1>11, <1>12 DEF Even
  <1>14. ASSUME NEW n \in M \ {p}, r.red[n] PROVE r.parent[n] # NULL /\ ~ r.red[r.parent[n]]
    <2>1. CASE n = x
      BY <1>1, <1>7, <1>9, <2>1
    <2>2. CASE n # x
      <3>1. t.red[n] /\ n # y
        BY <1>3, <1>a, <1>7, <1>14
      <3>2. r.parent[n] = t.parent[n]
        BY <1>9, <2>2, <3>1
      <3>3. t.parent[n] # NULL /\ ~ t.red[t.parent[n]]
        BY <1>2, <2>2, <3>1 DEF RedBut
      <3> QED  BY <1>7, <3>2, <3>3
    <2> QED  BY <2>1, <2>2
  <1>15. Inserting(r, M, sub2, bh, p)
    BY <1>7, <1>13, <1>14 DEF Inserting, RedBut
  <1> QED  BY <1>7, <1>9, <1>10, <1>15 DEF r

InsertState == [tree : Tree, node : Node]
InsertEnds(at) == ~ IsRed(at.tree, at.tree.parent[at.node])

(* One turn of the loop of rb_insert_color: it ends, or x goes up. *)
LEMMA InsertTurnKeeps ==
    ASSUME NEW at \in InsertState, NEW M, NEW sub, NEW bh, Inserting(at.tree, M, sub, bh, at.node)
    PROVE  LET next == InsertTurn(at)
           IN  /\ next \in InsertState
               /\ \E sub2, bh2 : /\ Inserting(next.tree, M, sub2, bh2, next.node)
                                 /\ InsertEnds(next) \/ Size(sub2, next.node) > Size(sub, at.node)
  <1> DEFINE t == at.tree
             x == at.node
             p == t.parent[x]
             g == t.parent[p]
             s == SideOf(t, g, p)
             u == t.child[Other(s)][g]
             inside == t.child[Other(s)][p] = x
             turned == IF inside THEN Rotate(t, p, s) ELSE t
             low == IF inside THEN p ELSE x
             top == IF inside THEN x ELSE p
             tu == Colour(Colour(Colour(t, u, FALSE), p, FALSE), g, TRUE)
             tc == Colour(Colour(turned, top, FALSE), g, TRUE)
             to == Rotate(tc, g, Other(s))
             next == InsertTurn(at)
  <1> SUFFICES /\ next \in InsertState
               /\ \E sub2, bh2 : /\ Inserting(next.tree, M, sub2, bh2, next.node)
                                 /\ InsertEnds(next) \/ Size(sub2, next.node) > Size(sub, at.node)
    OBVIOUS
  <1>1. next = IF ~ IsRed(t, p) THEN at
               ELSE IF IsRed(t, u) THEN [tree |-> tu, node |-> g] ELSE [tree |-> to, node |-> low]
    BY DEF InsertTurn
  <1>2. Inserting(t, M, sub, bh, x)
    OBVIOUS
  <1>3. Shape(t, M, sub) /\ x \in M /\ t.red[x]
    BY <1>2 DEF Inserting
  <1>4. t \in Tree /\ M \in SUBSET Node /\ M \in SUBSET Ptr /\ NULL \notin M
    BY <1>3, ShapeType
  <1>5. CASE ~ IsRed(t, p)
    <2>1. next = at
      BY <1>1, <1>5
    <2>2. InsertEnds(next)
      BY <1>5, <2>1 DEF InsertEnds
    <2> HIDE DEF next
    <2> QED  BY <1>2, <2>1, <2>2
  <1>6. CASE IsRed(t, p)
    <2>1. p \in M /\ g \in M /\ x # p /\ s \in Side /\ t.child[s][g] = p
            /\ SideOf(t, p, x) \in Side /\ t.child[SideOf(t, p, x)][p] = x
      BY <1>2, <1>6, InsertNodes
    <2>2. t.red[p] /\ ~ t.red[g]
      BY <1>2, <1>6, InsertNodes DEF IsRed
    <2> DEFINE e == SideOf(t, p, x)
    <2>3. u \in Ptr /\ u \in M \cup {NULL} /\ Other(s) \in Side
      <3>1. Other(s) \in Side
        BY <2>1, SideFacts
      <3> HIDE DEF s, g, p
      <3> QED  BY <1>3, <2>1, <3>1, ShapeType
    <2>4. t.child[Other(s)][g] = u /\ e \in Side /\ t.child[e][p] = x
      BY <2>1
    <2> HIDE DEF u, e, s, g, p, t, x
    <2>5. p \in Ptr /\ g \in Ptr /\ x \in Ptr
      BY <1>3, <1>4, <2>1
    <2>6. /\ p # g /\ u # p /\ u # g /\ x # g
      BY <1>3, <2>1, <2>4, FamilyFacts
    <2>7. CASE IsRed(t, u)
      <3>1. u \in M /\ t.red[u]
        BY <2>3, <2>7 DEF IsRed
      <3>2. Recoloured(t, {u, p, g}, tu) /\ ~ tu.red[u] /\ ~ tu.red[p] /\ tu.red[g]
        <4> DEFINE t2 == Colour(Colour(t, u, FALSE), p, FALSE)
        <4>1. u # NULL /\ p # NULL /\ g # NULL
          BY <1>4, <2>1, <3>1
        <4>2. Recoloured(t, {u, p}, t2) /\ ~ t2.red[u] /\ ~ t2.red[p]
          BY <1>4, <2>3, <2>5, <2>6, <4>1, RecolourTwo
        <4> HIDE DEF t2
        <4>3. t2 \in Tree
          BY <4>2 DEF Recoloured
        <4>4. Recoloured(t2, {g}, tu) /\ tu.red[g]
          BY <2>5, <4>1, <4>3, RecolourOne DEF t2

        <4> HIDE DEF tu
        <4>6. /\ Recoloured(t, {u, p, g}, tu)
              /\ (tu.red[u] <=> t2.red[u]) /\ (tu.red[p] <=> t2.red[p])
          BY <2>3, <2>5, <2>6, <4>1, <4>2, <4>4, RecolourMore
        <4> QED  BY <4>2, <4>4, <4>6
      <3> HIDE DEF tu
      <3>3. (\E bh2 : Inserting(tu, M, sub, bh2, g)) /\ Size(sub, g) > Size(sub, x)
        BY <1>2, <2>1, <2>2, <2>4, <3>1, <3>2, InsertUncle
      <3>4. next = [tree |-> tu, node |-> g]
        BY <1>1, <1>6, <2>7
      <3>5. tu \in Tree /\ g \in Node
        BY <1>4, <2>1, <3>2 DEF Recoloured
      <3> HIDE DEF next
      <3>6. next \in InsertState /\ next.tree = tu /\ next.node = g
        BY <3>4, <3>5 DEF InsertState
      <3> QED  BY <3>3, <3>6 DEF x
    <2>8. CASE ~ IsRed(t, u) /\ ~ inside
      <3>1. turned = t /\ low = x /\ top = p
        BY <2>8
      <3> DEFINE i == t.child[Other(s)][p]
      <3>2. e = s
        BY <2>1, <2>4, <2>8, SideFacts
      <3>3. t.child[s][p] = x /\ t.child[Other(s)][p] = i
        BY <2>4, <3>2
      <3>4. Recoloured(t, {p, g}, tc) /\ ~ tc.red[p] /\ tc.red[g]
        <4>1. p # NULL /\ g # NULL
          BY <1>4, <2>1
        <4> QED  BY <1>4, <2>5, <2>6, <3>1, <4>1, RecolourTwo
      <3> HIDE DEF tc, i
      <3>5. (\E sub2, bh2 : Inserting(to, M, sub2, bh2, x)) /\ to.parent[x] = p /\ ~ to.red[p]
        BY <1>2, <2>1, <2>2, <2>4, <2>8, <3>3, <3>4, InsertOuter
      <3>6. next = [tree |-> to, node |-> x]
        BY <1>1, <1>6, <2>8, <3>1
      <3> HIDE DEF to, next
      <3>7. to \in Tree /\ x \in Node
        BY <1>3, <1>4, <3>5 DEF Inserting, Shape
      <3>8. next \in InsertState /\ next.tree = to /\ next.node = x
        BY <3>6, <3>7 DEF InsertState
      <3>9. InsertEnds(next)
        BY <3>5, <3>8 DEF InsertEnds, IsRed
      <3> QED  BY <3>5, <3>8, <3>9
    <2>9. CASE ~ IsRed(t, u) /\ inside
      <3> DEFINE ti == Rotate(t, p, s)
                 i == t.child[s][p]
                 j == ti.child[Other(s)][x]
      <3>1. turned = ti /\ low = p /\ top = x
        BY <2>9
      <3>2. t.child[Other(s)][p] = x /\ t.child[s][p] = i
        BY <2>9
      <3> HIDE DEF i
      <3>3. /\ \E sub2 : Inserting(ti, M, sub2, bh, p)
            /\ ti.red = t.red /\ ti.child[s][g] = x /\ ti.child[Other(s)][g] = u /\ ti.child[s][x] = p
        BY <1>2, <2>1, <2>2, <2>4, <3>2, InsertInner
      <3> HIDE DEF ti
      <3>4. PICK sub1 : Inserting(ti, M, sub1, bh, p)
        BY <3>3
      <3>5. ti \in Tree
        BY <3>4 DEF Inserting, Shape
      <3>6. Recoloured(ti, {x, g}, tc) /\ ~ tc.red[x] /\ tc.red[g]
        <4>1. x # NULL /\ g # NULL
          BY <1>3, <1>4, <2>1
        <4> QED  BY <2>5, <2>6, <3>1, <3>5, <4>1, RecolourTwo
      <3>7. ti.red[x] /\ ~ ti.red[g] /\ ~ IsRed(ti, u)
        BY <1>3, <2>2, <2>9, <3>3 DEF IsRed
      <3> HIDE DEF tc
      <3>8. ti.child[Other(s)][x] = j
        OBVIOUS
      <3> HIDE DEF j
      <3>9. (\E sub2, bh2 : Inserting(to, M, sub2, bh2, p)) /\ to.parent[p] = x /\ ~ to.red[x]
        BY <1>3, <2>1, <3>3, <3>4, <3>6, <3>7, <3>8, InsertOuter
      <3>10. next = [tree |-> to, node |-> p]
        BY <1>1, <1>6, <2>9, <3>1
      <3> HIDE DEF to, next
      <3>11. to \in Tree /\ p \in Node
        BY <1>4, <2>1, <3>9 DEF Inserting, Shape
      <3>12. next \in InsertState /\ next.tree = to /\ next.node = p
        BY <3>10, <3>11 DEF InsertState
      <3>13. InsertEnds(next)
        BY <3>9, <3>12 DEF InsertEnds, IsRed
      <3> QED  BY <3>9, <3>12, <3>13
    <2> QED  BY <2>7, <2>8, <2>9
  <1> QED  BY <1>5, <1>6

(* A tree that is balanced. *)
Balanced(t, M, sub, bh) ==
    Shape(t, M, sub) /\ Even(t, M, bh, NULL, "left") /\ Reds(t, M, NULL)

(* The root is made black after the loop. *)
LEMMA InsertEnd ==
    ASSUME NEW t, NEW M, NEW sub, NEW bh, NEW x, Inserting(t, M, sub, bh, x), ~ IsRed(t, t.parent[x])
    PROVE  \E bh2 : Balanced(Colour(t, t.root, FALSE), M, sub, bh2)
  <1> DEFINE z == t.root
             r == Colour(t, z, FALSE)
             bh2 == [n \in Ptr |-> IF n = z /\ t.red[z] THEN bh[n] + 1 ELSE bh[n]]
  <1>1. Shape(t, M, sub) /\ x \in M /\ Even(t, M, bh, NULL, "left")
    BY DEF Inserting
  <1>2. t \in Tree /\ M \in SUBSET Node /\ M \in SUBSET Ptr /\ NULL \notin M /\ NULL \in Ptr
    BY <1>1, ShapeType DEF Ptr
  <1>3. z \in M /\ t.parent[z] = NULL /\ z # NULL /\ z \in Ptr
    <2>1. z \in M \cup {NULL} /\ sub[z] = M /\ sub[NULL] = {} /\ (z # NULL => t.parent[z] = NULL)
      BY <1>1, ShapeType
    <2> HIDE DEF z
    <2> QED  BY <1>1, <1>2, <2>1
  <1>4. bh \in [Ptr -> Nat] /\ bh[NULL] = 0
    BY <1>1 DEF Even
  <1>a. RedBut(t, M, x)
    BY DEF Inserting
  <1> HIDE DEF z
  <1>5. Recoloured(t, {z}, r) /\ ~ r.red[z]
    BY <1>2, <1>3, RecolourOne
  <1> HIDE DEF r
  <1>6. /\ r \in Tree /\ r.root = t.root /\ r.parent = t.parent /\ r.child = t.child
        /\ \A n \in M \ {z} : r.red[n] <=> t.red[n]
    BY <1>2, <1>5 DEF Recoloured
  <1>7. Shape(r, M, sub)
    BY <1>1, <1>6, SameLinks
  <1>8. /\ bh2 \in [Ptr -> Nat] /\ bh2[NULL] = 0 /\ (\A n \in Ptr \ {z} : bh2[n] = bh[n])
        /\ (t.red[z] => bh2[z] = bh[z] + 1) /\ (~ t.red[z] => bh2[z] = bh[z])
    <2>1. \A n \in Ptr : bh[n] \in Nat /\ bh[n] + 1 \in Nat
      BY <1>4
    <2> QED  BY <1>2, <1>3, <1>4, <2>1
  <1> HIDE DEF bh2
  <1>9. ASSUME NEW n \in M, NEW e \in Side
        PROVE  bh2[n] = bh2[r.child[e][n]] + Black(r, n) + Lack(n, e, NULL, "left")
    <2> DEFINE c == t.child[e][n]
    <2>0. n # NULL /\ n \in Ptr /\ r.child[e][n] = c
      BY <1>2, <1>6
    <2>1. bh[n] \in Nat /\ bh[c] \in Nat /\ (t.red[n] => bh[n] = bh[c]) /\ (~ t.red[n] => bh[n] = bh[c] + 1)
      BY <1>1, <2>0, CountFacts
    <2>2. c \in Ptr /\ c # z
      <3>1. c \in Ptr /\ (c # NULL => t.parent[c] = n)
        BY <1>1, ChildFacts, ShapeType
      <3> QED  BY <1>3, <2>0, <3>1
    <2> HIDE DEF c
    <2>3. bh2[c] = bh[c]
      BY <1>8, <2>2
    <2>4. Lack(n, e, NULL, "left") = 0 /\ (r.red[n] => Black(r, n) = 0) /\ (~ r.red[n] => Black(r, n) = 1)
      BY <2>0 DEF Lack, Black
    <2>5. CASE n = z
      <3>1. Black(r, n) = 1
        BY <1>5, <2>4, <2>5
      <3>2. bh2[n] = bh[c] + 1
        BY <1>8, <2>1, <2>5
      <3> QED  BY <2>0, <2>1, <2>3, <2>4, <3>1, <3>2
    <2>6. CASE n # z
      <3>1. bh2[n] = bh[n]
        BY <1>8, <2>0, <2>6
      <3>2. r.red[n] <=> t.red[n]
        BY <1>6, <2>6
      <3> QED  BY <2>0, <2>1, <2>3, <2>4, <3>1, <3>2
    <2> QED  BY <2>5, <2>6
  <1>10. Even(r, M, bh2, NULL, "left")
    BY <1>8, <1>9 DEF Even
  <1>11. ASSUME NEW n \in M, r.red[n] PROVE r.parent[n] # NULL /\ ~ r.red[r.parent[n]]
    <2>0. n # z /\ t.red[n] /\ r.parent[n] = t.parent[n]
      BY <1>5, <1>6, <1>11
    <2>1. t.parent[n] # NULL
      BY <1>1, <2>0, RootFacts DEF z
    <2>2. t.parent[n] \in M
      BY <1>1, <2>1, AboveFacts
    <2>3. ~ t.red[t.parent[n]]
      <3>1. CASE n = x
        BY <2>1, <3>1 DEF IsRed
      <3>2. CASE n # x
        BY <1>a, <2>0, <3>2 DEF RedBut
      <3> QED  BY <3>1, <3>2
    <2>4. CASE t.parent[n] = z
      BY <1>3, <1>5, <2>0, <2>4
    <2>5. CASE t.parent[n] # z
      BY <1>6, <2>0, <2>1, <2>2, <2>3, <2>5
    <2> QED  BY <2>4, <2>5
  <1>12. Reds(r, M, NULL)
    BY <1>11 DEF Reds
  <1>13. Balanced(r, M, sub, bh2)
    BY <1>7, <1>10, <1>12 DEF Balanced
  <1> QED  BY <1>13 DEF r, z

(* rb_insert_color balances the tree again. *)
LEMMA InsertColorFacts ==
    ASSUME NEW t, NEW M, NEW sub, NEW bh, NEW x, Inserting(t, M, sub, bh, x)
    PROVE  \E sub2, bh2 : Balanced(InsertColor(t, x), M, sub2, bh2)
  <1> DEFINE N == MaxTurns
             start == [tree |-> t, node |-> x]
             loop[i \in 0 .. N] == IF i = 0 THEN start ELSE InsertTurn(loop[i - 1])
             Inv(at, i) == \E sub2, bh2 : /\ Inserting(at.tree, M, sub2, bh2, at.node)
                                          /\ InsertEnds(at) \/ Size(sub2, at.node) > i
             X == {at \in InsertState : \E sub2, bh2 : Inserting(at.tree, M, sub2, bh2, at.node)}
             turn == [i \in 1 .. N |-> [at \in X |-> InsertTurn(at)]]
             S == {i \in 0 .. N : loop[i] \in InsertState /\ Inv(loop[i], i)}
             end == loop[N].tree
  <1>1. N \in Nat
    BY NodeFacts
  <1>2. InsertColor(t, x) = Colour(end, end.root, FALSE)
    BY DEF InsertColor
  <1>3. loop = CHOOSE h : h = [i \in 0 .. N |-> IF i = 0 THEN start ELSE InsertTurn(h[i - 1])]
    OBVIOUS
  <1>a. start.tree = t /\ start.node = x
    OBVIOUS
  <1>b. t \in Tree /\ x \in Node /\ Shape(t, M, sub) /\ x \in M
    <2>1. Shape(t, M, sub) /\ x \in M
      BY DEF Inserting
    <2> QED  BY <2>1, ShapeType
  <1>4. start \in InsertState
    BY <1>b DEF InsertState
  <1> HIDE DEF start
  <1>c. start \in X
    BY <1>a, <1>4
  <1>5. Inv(start, 0)
    <2>1. Size(sub, x) > 0
      BY <1>b, SizeFacts
    <2> QED  BY <1>a, <2>1
  <1>6. turn \in Turns(N, X)
    <2>1. \A at \in X : InsertTurn(at) \in X
      <3> TAKE at \in X
      <3>1. PICK sub2, bh2 : Inserting(at.tree, M, sub2, bh2, at.node)
        OBVIOUS
      <3>2. InsertTurn(at) \in InsertState
               /\ \E sub3, bh3 : Inserting(InsertTurn(at).tree, M, sub3, bh3, InsertTurn(at).node)
        BY <3>1, InsertTurnKeeps
      <3> QED  BY <3>2
    <2> HIDE DEF X, N
    <2> QED  BY <2>1 DEF Turns
  <1> HIDE DEF loop, Inv, N
  <1>7. PICK h \in [0 .. N -> X] : h[0] = start /\ \A i \in 1 .. N : h[i] = turn[i][h[i - 1]]
    <2> HIDE DEF turn, X
    <2>1. Traces(N, X, start, turn) # {}
      BY <1>1, <1>c, <1>6, LoopExists
    <2> QED  BY <2>1 DEF Traces
  <1>8. h = [i \in 0 .. N |-> IF i = 0 THEN start ELSE InsertTurn(h[i - 1])]
    <2> HIDE DEF X
    <2>1. ASSUME NEW i \in 0 .. N PROVE h[i] = IF i = 0 THEN start ELSE InsertTurn(h[i - 1])
      <3>1. CASE i = 0
        BY <1>7, <3>1
      <3>2. CASE i # 0
        <4>1. i \in 1 .. N /\ h[i - 1] \in X
          BY <1>1, <1>7, <3>2
        <4> QED  BY <1>7, <3>2, <4>1
      <3> QED  BY <3>1, <3>2
    <2> QED  BY <1>7, <2>1
  <1>9. loop = [i \in 0 .. N |-> IF i = 0 THEN start ELSE InsertTurn(loop[i - 1])]
    BY <1>3, <1>8
  <1>10. 0 \in S
    <2>1. loop[0] = start /\ 0 \in 0 .. N
      BY <1>1, <1>9
    <2> QED  BY <1>4, <1>5, <2>1
  <1>11. ASSUME NEW i \in 1 .. N, i - 1 \in S PROVE i \in S
    <2> DEFINE at == loop[i - 1]
               to == loop[i]
    <2>1. to = InsertTurn(at) /\ i \in 0 .. N /\ i \in Nat
      BY <1>1, <1>9
    <2>2. at \in InsertState /\ Inv(at, i - 1)
      BY <1>11
    <2> HIDE DEF at, to
    <2>3. PICK sub2, bh2 : /\ Inserting(at.tree, M, sub2, bh2, at.node)
                           /\ InsertEnds(at) \/ Size(sub2, at.node) > i - 1
      BY <2>2 DEF Inv
    <2>4. CASE InsertEnds(at)
      <3>1. to = at
        BY <2>1, <2>4 DEF InsertEnds, InsertTurn
      <3>2. Inv(to, i)
        BY <2>3, <2>4, <3>1 DEF Inv
      <3> QED  BY <2>1, <2>2, <3>1, <3>2 DEF to
    <2>5. CASE Size(sub2, at.node) > i - 1
      <3>1. to \in InsertState
        BY <2>1, <2>2, <2>3, InsertTurnKeeps
      <3>2. PICK sub3, bh3 : /\ Inserting(to.tree, M, sub3, bh3, to.node)
                             /\ InsertEnds(to) \/ Size(sub3, to.node) > Size(sub2, at.node)
        BY <2>1, <2>2, <2>3, InsertTurnKeeps
      <3>3. Size(sub3, to.node) > Size(sub2, at.node) => Size(sub3, to.node) > i
        <4>1. Shape(at.tree, M, sub2) /\ at.node \in M /\ Shape(to.tree, M, sub3) /\ to.node \in M
          BY <2>3, <3>2 DEF Inserting
        <4>2. at.node \in Ptr /\ to.node \in Ptr
          BY <4>1, ShapeType
        <4>3. Size(sub2, at.node) \in Nat
          BY <4>1, <4>2, SizeFacts
        <4>4. Size(sub3, to.node) \in Nat
          BY <4>1, <4>2, SizeFacts
        <4> QED  BY <2>1, <2>5, <4>3, <4>4
      <3>4. Inv(to, i)
        BY <3>2, <3>3 DEF Inv
      <3> QED  BY <2>1, <3>1, <3>4 DEF to
    <2> QED  BY <2>3, <2>4, <2>5
  <1> HIDE DEF S
  <1>12. N \in S
    <2>1. 0 .. N \subseteq S
      BY <1>1, <1>10, <1>11, InductionUpTo
    <2> QED  BY <1>1, <2>1
  <1> DEFINE at == loop[N]
  <1>13. at \in InsertState /\ Inv(at, N)
    BY <1>12 DEF S
  <1> HIDE DEF at
  <1>14. PICK sub2, bh2 : /\ Inserting(at.tree, M, sub2, bh2, at.node)
                          /\ InsertEnds(at) \/ Size(sub2, at.node) > N
    BY <1>13 DEF Inv
  <1>15. ~ (Size(sub2, at.node) > N)
    <2>1. Shape(at.tree, M, sub2) /\ at.node \in M
      BY <1>14 DEF Inserting
    <2>2. at.node \in Ptr
      BY <2>1, ShapeType
    <2>3. Size(sub2, at.node) \in Nat /\ Size(sub2, at.node) <= Cardinality(M)
      BY <2>1, <2>2, SizeFacts
    <2>4. Cardinality(M) \in Nat /\ Cardinality(M) <= N
      BY <2>1, SizeFacts DEF N
    <2> QED  BY <1>1, <2>3, <2>4
  <1>16. \E bh3 : Balanced(Colour(at.tree, at.tree.root, FALSE), M, sub2, bh3)
    BY <1>14, <1>15, InsertEnd DEF InsertEnds
  <1> QED  BY <1>2, <1>16 DEF at


-----------------------------------------------------------------------------
(* Rebalancing after a removal *)

(* One black node is missing at x, the child of q on side d, or nowhere if *)
(* q is NULL and x the root.                                               *)
Erasing(t, M, sub, bh, x, q, d) ==
    /\ Shape(t, M, sub) /\ Even(t, M, bh, q, d) /\ Reds(t, M, x)
    /\ IF q = NULL THEN x = t.root ELSE q \in M /\ d \in Side /\ t.child[d][q] = x

(* The same while the loop runs: x is not red, so that nothing is wrong *)
(* with the red nodes.                                                  *)
Lacking(t, M, sub, bh, x, q, d) ==
    /\ Shape(t, M, sub) /\ Even(t, M, bh, q, d) /\ RedBut(t, M, NULL)
    /\ q \in M /\ d \in Side /\ t.child[d][q] = x /\ ~ IsRed(t, x)

(* While the loop of __rb_erase_color goes on, one black node is missing below a parent. *)
LEMMA EraseLacks ==
    ASSUME NEW t, NEW M, NEW sub, NEW bh, NEW x, NEW q, NEW d, Erasing(t, M, sub, bh, x, q, d),
           ~ IsRed(t, x), x # t.root
    PROVE  Lacking(t, M, sub, bh, x, q, d)
  <1>1. /\ Shape(t, M, sub) /\ Even(t, M, bh, q, d) /\ Reds(t, M, x)
        /\ q \in M /\ d \in Side /\ t.child[d][q] = x
    BY DEF Erasing
  <1>2. ASSUME NEW n \in M, t.red[n] PROVE t.parent[n] # NULL /\ ~ t.red[t.parent[n]]
    <2>1. n # NULL
      BY <1>1, ShapeType
    <2>2. n # x
      BY <1>2, <2>1 DEF IsRed
    <2>3. t.parent[n] # NULL /\ (t.parent[n] = x \/ ~ t.red[t.parent[n]])
      BY <1>1, <1>2, <2>2 DEF Reds
    <2> QED  BY <2>3 DEF IsRed
  <1> QED  BY <1>1, <1>2 DEF Lacking, RedBut

(* The sibling of x is a node. *)
LEMMA LackNodes ==
    ASSUME NEW t, NEW M, NEW sub, NEW bh, NEW x, NEW q, NEW d, Lacking(t, M, sub, bh, x, q, d),
           NEW o, o = Other(d), NEW w, t.child[o][q] = w
    PROVE  /\ o \in Side /\ Other(o) = d /\ o # d
           /\ w \in M /\ w # x /\ w # NULL /\ bh[w] = bh[x] + 1 /\ bh[x] \in Nat /\ bh[w] \in Nat
           /\ SideOf(t, q, x) = d
  <1>1. /\ Shape(t, M, sub) /\ Even(t, M, bh, q, d) /\ q \in M /\ d \in Side /\ t.child[d][q] = x
    BY DEF Lacking
  <1>2. o \in Side /\ Other(o) = d /\ o # d
    BY <1>1, SideFacts
  <1>3. /\ bh[q] \in Nat /\ bh[x] \in Nat
        /\ (t.red[q] => bh[q] = bh[x] + 1) /\ (~ t.red[q] => bh[q] = bh[x] + 2)
    BY <1>1, CountFacts
  <1>4. bh[w] \in Nat /\ (t.red[q] => bh[q] = bh[w]) /\ (~ t.red[q] => bh[q] = bh[w] + 1)
    BY <1>1, <1>2, CountFacts
  <1>5. bh[w] = bh[x] + 1
    BY <1>3, <1>4
  <1>6. w # x
    BY <1>3, <1>5
  <1>7. w # NULL
    BY <1>1, <1>3, <1>5 DEF Even
  <1>8. w \in M
    BY <1>1, <1>2, <1>7, ShapeType
  <1>9. SideOf(t, q, x) = d
    BY <1>1, <1>2, <1>6 DEF SideOf, Side
  <1> QED  BY <1>2, <1>3, <1>4, <1>5, <1>6, <1>7, <1>8, <1>9

(* A red sibling: a rotation gives x a black one. *)
LEMMA LackRedSibling ==
    ASSUME NEW t, NEW M, NEW sub, NEW bh, NEW x, NEW q, NEW d, Lacking(t, M, sub, bh, x, q, d),
           NEW o, o = Other(d), NEW w, t.child[o][q] = w, NEW a, t.child[d][w] = a,
           NEW b, t.child[o][w] = b, IsRed(t, w),
           NEW tc, Recoloured(t, {w, q}, tc), ~ tc.red[w], tc.red[q]
    PROVE  LET r == Rotate(tc, q, d)
           IN  /\ \E sub2, bh2 : Lacking(r, M, sub2, bh2, x, q, d) /\ Size(sub2, x) = Size(sub, x)
               /\ ~ IsRed(r, r.child[o][q])
  <1> DEFINE r == Rotate(tc, q, d)
             sub2 == RotatedSub(t, q, d, sub)
             bh2 == [n \in Ptr |-> IF n = w THEN bh[q] ELSE IF n = q THEN bh[w] ELSE bh[n]]
             W == {w, q}
  <1>0. /\ Shape(t, M, sub) /\ Even(t, M, bh, q, d) /\ RedBut(t, M, NULL)
        /\ q \in M /\ d \in Side /\ t.child[d][q] = x /\ ~ IsRed(t, x)
    BY DEF Lacking
  <1>1. /\ o \in Side /\ Other(o) = d /\ Other(d) = o /\ o # d /\ w \in M /\ w # x /\ w # NULL
        /\ bh[w] = bh[x] + 1 /\ bh[x] \in Nat /\ bh[w] \in Nat
    BY LackNodes
  <1>2. t.child[Other(o)][q] = x /\ t.child[Other(d)][w] = b /\ t.child[Other(d)][q] = w
    BY <1>0, <1>1
  <1>3. /\ w # q /\ x # w /\ x # q /\ a # w /\ a # q /\ b # w /\ b # q
        /\ (a # NULL => a # b /\ a # x) /\ (b # NULL => b # x /\ b # a)
        /\ x \in Ptr /\ a \in Ptr /\ b \in Ptr /\ w \in Ptr /\ q \in Ptr
        /\ a \in M \cup {NULL} /\ b \in M \cup {NULL} /\ x \in M \cup {NULL}
        /\ t.parent[w] = q /\ (a # NULL => t.parent[a] = w) /\ (b # NULL => t.parent[b] = w)
        /\ (x # NULL => t.parent[x] = q) /\ q # NULL
    BY <1>0, <1>1, <1>2, FamilyFacts
  <1>4. t \in Tree /\ M \in SUBSET Node /\ M \in SUBSET Ptr /\ NULL \notin M /\ NULL \in Ptr
    BY <1>0, ShapeType DEF Ptr
  <1>5. bh \in [Ptr -> Nat] /\ bh[NULL] = 0
    BY <1>0 DEF Even
  <1>6. t.red[w] /\ ~ t.red[q]
    BY <1>0, <1>1, <1>3, <1>4 DEF IsRed, RedBut
  <1>7. (a # NULL => ~ t.red[a]) /\ (b # NULL => ~ t.red[b])
    BY <1>0, <1>3, <1>4, <1>6 DEF RedBut
  <1>8. /\ bh[q] = bh[w] + 1 /\ bh[w] = bh[a] /\ bh[w] = bh[b] /\ bh[q] \in Nat
    <2>1. bh[q] = bh[w] + 1 /\ bh[q] \in Nat
      BY <1>0, <1>1, <1>6, CountFacts
    <2>2. bh[w] = bh[a]
      BY <1>0, <1>1, <1>3, <1>6, CountFacts
    <2>3. bh[w] = bh[b]
      BY <1>0, <1>1, <1>3, <1>6, CountFacts
    <2> QED  BY <2>1, <2>2, <2>3
  <1>9. Turned(t, M, q, d, r) /\ r.red = tc.red /\ r \in Tree /\ Shape(r, M, sub2)
    BY <1>0, <1>1, <1>2, RecolourRotate
  <1>10. Size(sub2, x) = Size(sub, x)
    BY <1>2, <1>3 DEF RotatedSub, Size
  <1> HIDE DEF r, sub2, W
  <1>11. ~ r.red[w] /\ r.red[q] /\ \A n \in M \ W : r.red[n] <=> t.red[n]
    BY <1>4, <1>9 DEF Recoloured, W
  <1>12. /\ \A n \in M : r.parent[n] = IF n = w THEN t.parent[q] ELSE IF n = q THEN w
                                       ELSE IF n = a THEN q ELSE t.parent[n]
         /\ r.child[d][q] = x /\ r.child[o][q] = a /\ r.child[d][w] = q /\ r.child[o][w] = b
    BY <1>0, <1>1, <1>2, <1>9 DEF Turned
  <1>13. /\ bh2 \in [Ptr -> Nat] /\ bh2[NULL] = 0 /\ bh2[w] = bh[q] /\ bh2[q] = bh[w]
         /\ (\A n \in Ptr \ W : bh2[n] = bh[n])
         /\ bh2[a] = bh[a] /\ bh2[b] = bh[b] /\ bh2[x] = bh[x]
    BY <1>1, <1>3, <1>4, <1>5, <1>8 DEF W
  <1> HIDE DEF bh2
  <1>14. \A n \in M \ W : \A e \in Side :
           bh2[n] = bh2[r.child[e][n]] + Black(r, n) + Lack(n, e, q, d)
    <2>1. \A y \in W \ {q} : y \in M => t.parent[y] \in W
      BY <1>3 DEF W
    <2>2. NULL \notin W /\ q \in W /\ t.child[Other(d)][q] \in W /\ t.child[Other(d)][q] # NULL
      BY <1>1, <1>2, <1>3 DEF W
    <2>3. bh2[t.child[Other(d)][q]] = bh[q]
      BY <1>2, <1>13
    <2>4. bh2 \in [Ptr -> Nat] /\ \A n \in Ptr \ W : bh2[n] = bh[n]
      BY <1>13
    <2>5. \A n \in M \ W : r.red[n] <=> t.red[n]
      BY <1>11
    <2> QED  BY <1>0, <1>9, <2>1, <2>2, <2>3, <2>4, <2>5, TurnedEven
  <1>15. ASSUME NEW n \in W, NEW e \in Side
         PROVE  bh2[n] = bh2[r.child[e][n]] + Black(r, n) + Lack(n, e, q, d)
    <2>0. (n = w \/ n = q) /\ (e = d \/ e = o)
      BY <1>0, <1>1, SideFacts DEF W
    <2>1. bh2[w] = bh2[q] + 1 /\ bh2[w] = bh2[b] + 1 /\ bh2[q] = bh2[x] + 1 /\ bh2[q] = bh2[a]
            /\ bh2[q] \in Nat /\ bh2[b] \in Nat /\ bh2[x] \in Nat /\ bh2[a] \in Nat
      <3>1. bh2[w] = bh[q] /\ bh2[q] = bh[w] /\ bh2[a] = bh[w] /\ bh2[b] = bh[w] /\ bh2[x] = bh[x]
        BY <1>8, <1>13
      <3>2. bh[q] = bh[w] + 1 /\ bh[w] = bh[x] + 1 /\ bh[x] \in Nat /\ bh[w] \in Nat
        BY <1>1, <1>8
      <3> QED  BY <3>1, <3>2
    <2>2. CASE n = w
      <3>1. Black(r, n) = 1 /\ Lack(n, e, q, d) = 0
        BY <1>3, <1>11, <2>2 DEF Black, Lack
      <3>2. bh2[n] = bh2[r.child[e][n]] + 1 /\ bh2[r.child[e][n]] \in Nat
        BY <1>12, <2>0, <2>1, <2>2
      <3> QED  BY <3>1, <3>2
    <2>3. CASE n = q /\ e = d
      <3>1. Black(r, n) = 0 /\ Lack(n, e, q, d) = 1
        BY <1>11, <2>3 DEF Black, Lack
      <3>2. bh2[n] = bh2[r.child[e][n]] + 1 /\ bh2[r.child[e][n]] \in Nat
        BY <1>12, <2>1, <2>3
      <3> QED  BY <3>1, <3>2
    <2>4. CASE n = q /\ e = o
      <3>1. Black(r, n) = 0 /\ Lack(n, e, q, d) = 0
        BY <1>1, <1>11, <2>4 DEF Black, Lack
      <3>2. bh2[n] = bh2[r.child[e][n]] /\ bh2[r.child[e][n]] \in Nat
        BY <1>12, <2>1, <2>4
      <3> QED  BY <3>1, <3>2
    <2> QED  BY <2>0, <2>2, <2>3, <2>4
  <1>16. Even(r, M, bh2, q, d)
    BY <1>13, <1>14, <1>15 DEF Even
  <1>17. ASSUME NEW n \in M, r.red[n] PROVE r.parent[n] # NULL /\ ~ r.red[r.parent[n]]
    <2>1. CASE n = q
      BY <1>1, <1>3, <1>11, <1>12, <2>1
    <2>2. CASE n # q
      <3>1. n # w /\ n \notin W /\ t.red[n] /\ n # NULL
        BY <1>4, <1>11, <1>17, <2>2 DEF W
      <3>2. n # a /\ n # b /\ n # x
        BY <1>0, <1>7, <3>1 DEF IsRed
      <3>3. t.parent[n] # NULL /\ ~ t.red[t.parent[n]]
        BY <1>0, <3>1 DEF RedBut
      <3>4. r.parent[n] = t.parent[n]
        BY <1>12, <2>2, <3>1, <3>2
      <3>5. t.parent[n] \in M
        BY <1>0, <3>3, AboveFacts
      <3>6. t.parent[n] # q
        <4>1. t.parent[n] = q => n = t.child[d][q] \/ n = t.child[Other(d)][q]
          BY <1>0, TwoChildren
        <4> QED  BY <1>0, <1>2, <3>1, <3>2, <4>1
      <3>7. t.parent[n] # w
        BY <1>6, <3>3
      <3>8. t.parent[n] \in M \ W
        BY <3>5, <3>6, <3>7 DEF W
      <3> QED  BY <1>11, <3>3, <3>4, <3>8
    <2> QED  BY <2>1, <2>2
  <1>18. ASSUME NEW n \in {a, x} PROVE ~ IsRed(r, n)
    <2>1. CASE n = NULL
      BY <2>1 DEF IsRed
    <2>2. CASE n # NULL
      <3>1. n \in M \ W /\ ~ t.red[n]
        BY <1>0, <1>3, <1>7, <2>2 DEF W, IsRed
      <3> QED  BY <1>11, <3>1 DEF IsRed
    <2> QED  BY <2>1, <2>2
  <1>19. Lacking(r, M, sub2, bh2, x, q, d)
    BY <1>0, <1>9, <1>12, <1>16, <1>17, <1>18 DEF Lacking, RedBut
  <1> QED  BY <1>10, <1>12, <1>18, <1>19 DEF r

(* What is above a node that has a child. *)
LEMMA PlaceFacts ==
    ASSUME NEW t, NEW M, NEW sub, Shape(t, M, sub), NEW q \in M, NEW o \in Side, NEW w \in M,
           t.child[o][q] = w
    PROVE  LET p == t.parent[q]
           IN  /\ p # q /\ p # w
               /\ p # NULL => p \in M /\ SideOf(t, p, q) \in Side /\ t.child[SideOf(t, p, q)][p] = q
  <1>1. t.parent[q] # q /\ \A e \in Side : t.child[e][q] # NULL => t.child[e][q] # t.parent[q]
    BY ParentFacts
  <1>2. w # NULL
    BY ShapeType
  <1> QED  BY <1>1, <1>2, AboveFacts

(* A black sibling with no red child becomes red: now q lacks a black node. *)
LEMMA LackBlackNephews ==
    ASSUME NEW t, NEW M, NEW sub, NEW bh, NEW x, NEW q, NEW d, Lacking(t, M, sub, bh, x, q, d),
           NEW o, o = Other(d), NEW w, t.child[o][q] = w, NEW a, t.child[d][w] = a,
           NEW b, t.child[o][w] = b, ~ IsRed(t, w), ~ IsRed(t, a), ~ IsRed(t, b),
           NEW r, Recoloured(t, {w}, r), r.red[w]
    PROVE  /\ \E bh2, d2 : Erasing(r, M, sub, bh2, q, t.parent[q], d2)
           /\ Size(sub, q) > Size(sub, x)
  <1> DEFINE bh2 == [n \in Ptr |-> IF n = w \/ n = q THEN bh[n] - 1 ELSE bh[n]]
             W == {w, q}
             p == t.parent[q]
             d2 == SideOf(t, p, q)
  <1>0. /\ Shape(t, M, sub) /\ Even(t, M, bh, q, d) /\ RedBut(t, M, NULL)
        /\ q \in M /\ d \in Side /\ t.child[d][q] = x /\ ~ IsRed(t, x)
    BY DEF Lacking
  <1>1. /\ o \in Side /\ Other(o) = d /\ Other(d) = o /\ o # d /\ w \in M /\ w # x /\ w # NULL
        /\ bh[w] = bh[x] + 1 /\ bh[x] \in Nat /\ bh[w] \in Nat
    BY LackNodes
  <1>2. t.child[Other(o)][q] = x /\ t.child[Other(d)][w] = b /\ t.child[Other(d)][q] = w
    BY <1>0, <1>1
  <1>3. /\ w # q /\ x # w /\ x # q /\ a # w /\ a # q /\ b # w /\ b # q
        /\ x \in Ptr /\ a \in Ptr /\ b \in Ptr /\ w \in Ptr /\ q \in Ptr
        /\ a \in M \cup {NULL} /\ b \in M \cup {NULL} /\ x \in M \cup {NULL}
        /\ t.parent[w] = q /\ (x # NULL => t.parent[x] = q) /\ q # NULL
    BY <1>0, <1>1, <1>2, FamilyFacts
  <1>4. t \in Tree /\ M \in SUBSET Node /\ M \in SUBSET Ptr /\ NULL \notin M /\ NULL \in Ptr
    BY <1>0, ShapeType DEF Ptr
  <1>5. bh \in [Ptr -> Nat] /\ bh[NULL] = 0
    BY <1>0 DEF Even
  <1>6. ~ t.red[w]
    BY <1>1 DEF IsRed
  <1>8. /\ bh[w] = bh[a] + 1 /\ bh[w] = bh[b] + 1 /\ bh[a] \in Nat /\ bh[b] \in Nat /\ bh[q] \in Nat
        /\ (t.red[q] => bh[q] = bh[w]) /\ (~ t.red[q] => bh[q] = bh[w] + 1)
    <2>1. bh[q] \in Nat /\ (t.red[q] => bh[q] = bh[w]) /\ (~ t.red[q] => bh[q] = bh[w] + 1)
      BY <1>0, <1>1, CountFacts
    <2>2. bh[w] = bh[a] + 1 /\ bh[a] \in Nat
      BY <1>0, <1>1, <1>3, <1>6, CountFacts
    <2>3. bh[w] = bh[b] + 1 /\ bh[b] \in Nat
      BY <1>0, <1>1, <1>3, <1>6, CountFacts
    <2> QED  BY <2>1, <2>2, <2>3
  <1>9. /\ r \in Tree /\ r.root = t.root /\ r.parent = t.parent /\ r.child = t.child
        /\ \A n \in M \ {w} : r.red[n] <=> t.red[n]
    BY <1>4 DEF Recoloured
  <1>10. Shape(r, M, sub)
    BY <1>0, <1>9, SameLinks
  <1>12. p # NULL => p \in M /\ d2 \in Side /\ t.child[d2][p] = q
    BY <1>0, <1>1, PlaceFacts
  <1>13. p = NULL => q = t.root
    BY <1>0, RootFacts
  <1>14. p # q /\ p # w
    BY <1>0, <1>1, PlaceFacts
  <1>11. p = t.parent[q] /\ d2 = SideOf(t, p, q)
    OBVIOUS
  <1> HIDE DEF d2, p
  <1>15. /\ bh2 \in [Ptr -> Nat] /\ bh2[NULL] = 0 /\ bh2[w] = bh[w] - 1 /\ bh2[q] = bh[q] - 1
         /\ (\A n \in Ptr \ W : bh2[n] = bh[n])
         /\ bh2[a] = bh[a] /\ bh2[b] = bh[b] /\ bh2[x] = bh[x]
    <2>1. bh[w] - 1 \in Nat /\ bh[q] - 1 \in Nat
      BY <1>1, <1>8
    <2>2. \A n \in Ptr : bh[n] \in Nat
      BY <1>5
    <2>3. bh2 \in [Ptr -> Nat]
      BY <2>1, <2>2
    <2> QED  BY <1>1, <1>3, <1>4, <1>5, <2>3 DEF W
  <1> HIDE DEF bh2, W
  <1>16. ASSUME NEW n \in M \ W, NEW e \in Side
         PROVE  bh2[n] = bh2[r.child[e][n]] + Black(r, n) + Lack(n, e, p, d2)
    <2> DEFINE c == t.child[e][n]
    <2>0. n # NULL /\ n \in Ptr /\ r.child[e][n] = c /\ c \in Ptr /\ n # q /\ n # w
            /\ (c # NULL => t.parent[c] = n)
      <3>1. c # NULL => t.parent[c] = n
        BY <1>0, ChildFacts
      <3>2. c \in Ptr
        BY <1>0, ShapeType
      <3> QED  BY <1>4, <1>9, <3>1, <3>2 DEF W
    <2>1. /\ bh[n] \in Nat /\ bh[c] \in Nat
          /\ (t.red[n] => bh[n] = bh[c]) /\ (~ t.red[n] => bh[n] = bh[c] + 1)
      BY <1>0, <2>0, CountFacts
    <2>2. c # w
      BY <1>1, <1>3, <2>0
    <2>3. c = q <=> n = p /\ e = d2
      <3>1. c = q => n = p /\ e = d2
        BY <1>0, <1>11, SideFound
      <3>2. n = p /\ e = d2 => c = q
        BY <1>12, <2>0
      <3> QED  BY <3>1, <3>2
    <2> HIDE DEF c
    <2>4. (c = q => Lack(n, e, p, d2) = 1) /\ (c # q => Lack(n, e, p, d2) = 0)
      BY <2>3 DEF Lack
    <2>5. r.red[n] <=> t.red[n]
      BY <1>9, <2>0
    <2>6. (t.red[n] => Black(r, n) = 0) /\ (~ t.red[n] => Black(r, n) = 1)
      BY <2>5 DEF Black
    <2>7. bh2[n] = bh[n] /\ (c # q => bh2[c] = bh[c]) /\ (c = q => bh2[c] = bh[c] - 1)
      BY <1>15, <2>0, <2>2 DEF W
    <2>8. bh2[n] = bh2[c] + Black(r, n) + Lack(n, e, p, d2)
      <3>1. CASE c = q
        BY <2>1, <2>4, <2>6, <2>7, <3>1
      <3>2. CASE c # q
        BY <2>1, <2>4, <2>6, <2>7, <3>2
      <3> QED  BY <3>1, <3>2
    <2> QED  BY <2>0, <2>8
  <1>17. ASSUME NEW n \in W, NEW e \in Side
         PROVE  bh2[n] = bh2[r.child[e][n]] + Black(r, n) + Lack(n, e, p, d2)
    <2>0. (n = w \/ n = q) /\ (e = d \/ e = o)
      BY <1>0, <1>1, SideFacts DEF W
    <2>2. Lack(n, e, p, d2) = 0
      BY <1>14, <2>0 DEF Lack
    <2>3. CASE n = w
      <3>1. Black(r, n) = 0
        BY <2>3 DEF Black
      <3>2. r.child[e][n] = a \/ r.child[e][n] = b
        BY <1>9, <2>0, <2>3
      <3>3. bh2[w] = bh2[a] /\ bh2[w] = bh2[b] /\ bh2[w] \in Nat
        BY <1>8, <1>15
      <3>4. bh2[r.child[e][n]] = bh2[w]
        BY <3>2, <3>3
      <3> QED  BY <2>2, <2>3, <3>1, <3>3, <3>4
    <2>4. CASE n = q
      <3>1. r.red[q] <=> t.red[q]
        BY <1>0, <1>3, <1>9
      <3>2. (t.red[q] => Black(r, n) = 0) /\ (~ t.red[q] => Black(r, n) = 1)
        BY <2>4, <3>1 DEF Black
      <3>3. r.child[e][n] = x \/ r.child[e][n] = w
        BY <1>0, <1>9, <2>0, <2>4
      <3>4. bh2[x] = bh2[w] /\ bh2[w] = bh[w] - 1 /\ bh2[q] = bh[q] - 1 /\ bh2[w] \in Nat
        BY <1>1, <1>15
      <3>5. bh2[q] = bh2[w] + Black(r, n)
        <4>1. CASE t.red[q]
          BY <1>1, <1>8, <3>2, <3>4, <4>1
        <4>2. CASE ~ t.red[q]
          BY <1>1, <1>8, <3>2, <3>4, <4>2
        <4> QED  BY <4>1, <4>2
      <3>6. Black(r, n) \in Nat
        BY <3>2
      <3>7. bh2[r.child[e][n]] = bh2[w]
        BY <3>3, <3>4
      <3> QED  BY <2>2, <2>4, <3>4, <3>5, <3>6, <3>7
    <2> QED  BY <2>0, <2>3, <2>4
  <1>18. Even(r, M, bh2, p, d2)
    BY <1>15, <1>16, <1>17 DEF Even
  <1>19. ASSUME NEW n \in M, r.red[n]
         PROVE  n = q \/ (r.parent[n] # NULL /\ (r.parent[n] = q \/ ~ r.red[r.parent[n]]))
    <2>1. CASE n = w
      BY <1>3, <1>9, <2>1
    <2>2. CASE n # w
      <3>1. t.red[n] /\ n # NULL
        BY <1>4, <1>9, <1>19, <2>2
      <3>2. n # a /\ n # b
        BY <3>1 DEF IsRed
      <3>3. t.parent[n] # NULL /\ ~ t.red[t.parent[n]]
        BY <1>0, <3>1 DEF RedBut
      <3>4. t.parent[n] \in M
        BY <1>0, <3>3, AboveFacts
      <3>5. t.parent[n] # w
        <4>1. t.parent[n] = w => n = t.child[d][w] \/ n = t.child[Other(d)][w]
          BY <1>0, <1>1, TwoChildren
        <4> QED  BY <1>2, <3>2, <4>1
      <3> QED  BY <1>9, <3>3, <3>4, <3>5
    <2> QED  BY <2>1, <2>2
  <1>20. Reds(r, M, q)
    BY <1>19 DEF Reds
  <1>21. Erasing(r, M, sub, bh2, q, p, d2)
    BY <1>9, <1>10, <1>12, <1>13, <1>18, <1>20 DEF Erasing
  <1>22. Size(sub, q) > Size(sub, x)
    BY <1>0, SizeFacts
  <1> QED  BY <1>11, <1>21, <1>22

(* A black sibling whose red child is the near one: a rotation gives it a *)
(* red far one.                                                           *)
LEMMA LackNearNephew ==
    ASSUME NEW t, NEW M, NEW sub, NEW bh, NEW x, NEW q, NEW d, Lacking(t, M, sub, bh, x, q, d),
           NEW o, o = Other(d), NEW w, t.child[o][q] = w, NEW a, t.child[d][w] = a,
           NEW b, t.child[o][w] = b, ~ IsRed(t, w), IsRed(t, a), ~ IsRed(t, b),
           NEW tc, Recoloured(t, {a, w}, tc), ~ tc.red[a], tc.red[w]
    PROVE  LET r == Rotate(tc, w, o)
           IN  /\ \E sub2, bh2 : Lacking(r, M, sub2, bh2, x, q, d)
               /\ r.child[o][q] = a /\ r.child[o][a] = w /\ ~ IsRed(r, a) /\ IsRed(r, w)
  <1> DEFINE r == Rotate(tc, w, o)
             sub2 == RotatedSub(t, w, o, sub)
             bh2 == [n \in Ptr |-> IF n = a THEN bh[w] ELSE IF n = w THEN bh[a] ELSE bh[n]]
             W == {a, w}
             i == t.child[d][a]
             j == t.child[o][a]
  <1>0. /\ Shape(t, M, sub) /\ Even(t, M, bh, q, d) /\ RedBut(t, M, NULL)
        /\ q \in M /\ d \in Side /\ t.child[d][q] = x /\ ~ IsRed(t, x)
    BY DEF Lacking
  <1>1. /\ o \in Side /\ Other(o) = d /\ Other(d) = o /\ o # d /\ w \in M /\ w # x /\ w # NULL
    BY LackNodes
  <1>2. t.child[Other(o)][q] = x /\ t.child[Other(d)][w] = b /\ t.child[Other(o)][w] = a
          /\ t.child[Other(d)][a] = j /\ t.child[d][a] = i /\ t.child[o][a] = j
    BY <1>0, <1>1
  <1>3. /\ w # q /\ x # q /\ a # w /\ a # q /\ b # w /\ b # q
        /\ (a # NULL => a # b /\ a # x)
        /\ x \in Ptr /\ a \in Ptr /\ b \in Ptr /\ w \in Ptr /\ q \in Ptr
        /\ a \in M \cup {NULL} /\ b \in M \cup {NULL} /\ x \in M \cup {NULL}
        /\ t.parent[w] = q /\ (a # NULL => t.parent[a] = w) /\ (x # NULL => t.parent[x] = q) /\ q # NULL
    BY <1>0, <1>1, <1>2, FamilyFacts
  <1>4. t \in Tree /\ M \in SUBSET Node /\ M \in SUBSET Ptr /\ NULL \notin M /\ NULL \in Ptr
    BY <1>0, ShapeType DEF Ptr
  <1>5. bh \in [Ptr -> Nat] /\ bh[NULL] = 0
    BY <1>0 DEF Even
  <1>6. a # NULL /\ a \in M /\ t.red[a] /\ ~ t.red[w] /\ (b # NULL => ~ t.red[b])
    BY <1>1, <1>3 DEF IsRed
  <1> HIDE DEF i, j
  <1>a. /\ i # a /\ i # w /\ j # a /\ j # w /\ i \in Ptr /\ j \in Ptr
        /\ i \in M \cup {NULL} /\ j \in M \cup {NULL}
        /\ (i # NULL => t.parent[i] = a) /\ (j # NULL => t.parent[j] = a)
    BY <1>0, <1>1, <1>2, <1>6, FamilyFacts
  <1>7. (i # NULL => ~ t.red[i]) /\ (j # NULL => ~ t.red[j])
    BY <1>0, <1>4, <1>6, <1>a DEF RedBut
  <1>8. /\ bh[w] = bh[a] + 1 /\ bh[w] = bh[b] + 1 /\ bh[a] = bh[i] /\ bh[a] = bh[j]
        /\ bh[a] \in Nat /\ bh[b] \in Nat /\ bh[w] \in Nat
    <2>1. bh[w] = bh[a] + 1 /\ bh[w] \in Nat /\ bh[a] \in Nat
      BY <1>0, <1>1, <1>3, <1>6, CountFacts
    <2>2. bh[w] = bh[b] + 1 /\ bh[b] \in Nat
      BY <1>0, <1>1, <1>3, <1>6, CountFacts
    <2>3. bh[a] = bh[i]
      BY <1>0, <1>1, <1>2, <1>3, <1>6, CountFacts
    <2>4. bh[a] = bh[j]
      BY <1>0, <1>1, <1>2, <1>3, <1>6, CountFacts
    <2> QED  BY <2>1, <2>2, <2>3, <2>4
  <1>9. Turned(t, M, w, o, r) /\ r.red = tc.red /\ r \in Tree /\ Shape(r, M, sub2)
    BY <1>0, <1>1, <1>2, <1>6, RecolourRotate
  <1> HIDE DEF r, sub2, W
  <1>11. ~ r.red[a] /\ r.red[w] /\ \A n \in M \ W : r.red[n] <=> t.red[n]
    BY <1>4, <1>9 DEF Recoloured, W
  <1>12. /\ \A n \in M : r.parent[n] = IF n = a THEN q ELSE IF n = w THEN a
                                       ELSE IF n = j THEN w ELSE t.parent[n]
         /\ \A n \in M \ W : \A e \in Side : r.child[e][n] = IF t.child[e][n] = w THEN a ELSE t.child[e][n]
         /\ r.child[o][w] = b /\ r.child[d][w] = j /\ r.child[o][a] = w /\ r.child[d][a] = i
    BY <1>0, <1>1, <1>2, <1>3, <1>9 DEF Turned, W
  <1>b. q \in M \ W /\ r.child[d][q] = x /\ r.child[o][q] = a
    <2>1. q \in M \ W
      BY <1>0, <1>3 DEF W
    <2> QED  BY <1>0, <1>1, <1>12, <2>1
  <1>13. /\ bh2 \in [Ptr -> Nat] /\ bh2[NULL] = 0 /\ bh2[a] = bh[w] /\ bh2[w] = bh[a]
         /\ (\A n \in Ptr \ W : bh2[n] = bh[n])
         /\ bh2[i] = bh[i] /\ bh2[j] = bh[j] /\ bh2[b] = bh[b]
    BY <1>1, <1>3, <1>4, <1>5, <1>6, <1>8, <1>a DEF W
  <1> HIDE DEF bh2
  <1>14. \A n \in M \ W : \A e \in Side :
           bh2[n] = bh2[r.child[e][n]] + Black(r, n) + Lack(n, e, q, d)
    <2>1. \A y \in W \ {w} : y \in M => t.parent[y] \in W
      BY <1>3, <1>6 DEF W
    <2>2. NULL \notin W /\ w \in W /\ t.child[Other(o)][w] \in W /\ t.child[Other(o)][w] # NULL
      BY <1>1, <1>2, <1>6 DEF W
    <2>3. bh2[t.child[Other(o)][w]] = bh[w]
      BY <1>2, <1>13
    <2>4. bh2 \in [Ptr -> Nat] /\ \A n \in Ptr \ W : bh2[n] = bh[n]
      BY <1>13
    <2>5. \A n \in M \ W : r.red[n] <=> t.red[n]
      BY <1>11
    <2> QED  BY <1>0, <1>1, <1>9, <2>1, <2>2, <2>3, <2>4, <2>5, TurnedEven
  <1>15. ASSUME NEW n \in W, NEW e \in Side
         PROVE  bh2[n] = bh2[r.child[e][n]] + Black(r, n) + Lack(n, e, q, d)
    <2>0. (n = a \/ n = w) /\ (e = d \/ e = o)
      BY <1>0, <1>1, SideFacts DEF W
    <2>1. Lack(n, e, q, d) = 0
      BY <1>3, <2>0 DEF Lack
    <2>2. bh2[a] = bh2[w] + 1 /\ bh2[i] = bh2[w] /\ bh2[j] = bh2[w] /\ bh2[b] = bh2[w] /\ bh2[w] \in Nat
      <3>1. bh2[a] = bh[w] /\ bh2[w] = bh[a] /\ bh2[i] = bh[a] /\ bh2[j] = bh[a] /\ bh2[b] = bh[b]
        BY <1>8, <1>13
      <3>2. bh[b] = bh[a]
        BY <1>8
      <3> QED  BY <1>8, <3>1, <3>2
    <2>3. CASE n = a
      <3>1. Black(r, n) = 1
        BY <1>11, <2>3 DEF Black
      <3>2. r.child[e][n] = w \/ r.child[e][n] = i
        BY <1>12, <2>0, <2>3
      <3>3. bh2[r.child[e][n]] = bh2[w]
        BY <2>2, <3>2
      <3> QED  BY <2>1, <2>2, <2>3, <3>1, <3>3
    <2>4. CASE n = w
      <3>1. Black(r, n) = 0
        BY <1>11, <2>4 DEF Black
      <3>2. r.child[e][n] = b \/ r.child[e][n] = j
        BY <1>12, <2>0, <2>4
      <3>3. bh2[r.child[e][n]] = bh2[w]
        BY <2>2, <3>2
      <3> QED  BY <2>1, <2>2, <2>4, <3>1, <3>3
    <2> QED  BY <2>0, <2>3, <2>4
  <1>16. Even(r, M, bh2, q, d)
    BY <1>13, <1>14, <1>15 DEF Even
  <1>17. ASSUME NEW n \in M, r.red[n] PROVE r.parent[n] # NULL /\ ~ r.red[r.parent[n]]
    <2>1. CASE n = w
      BY <1>1, <1>3, <1>6, <1>11, <1>12, <2>1
    <2>2. CASE n # w
      <3>1. n # a /\ n \notin W /\ t.red[n] /\ n # NULL
        BY <1>4, <1>11, <1>17, <2>2 DEF W
      <3>2. n # i /\ n # j /\ n # b
        BY <1>6, <1>7, <3>1
      <3>3. t.parent[n] # NULL /\ ~ t.red[t.parent[n]]
        BY <1>0, <3>1 DEF RedBut
      <3>4. r.parent[n] = t.parent[n]
        BY <1>12, <2>2, <3>1, <3>2
      <3>5. t.parent[n] \in M
        BY <1>0, <3>3, AboveFacts
      <3>6. t.parent[n] # w
        <4>1. t.parent[n] = w => n = t.child[d][w] \/ n = t.child[Other(d)][w]
          BY <1>0, <1>1, TwoChildren
        <4> QED  BY <1>2, <3>1, <3>2, <4>1
      <3>7. t.parent[n] # a
        BY <1>6, <3>3
      <3>8. t.parent[n] \in M \ W
        BY <3>5, <3>6, <3>7 DEF W
      <3> QED  BY <1>11, <3>3, <3>4, <3>8
    <2> QED  BY <2>1, <2>2
  <1>18. ~ IsRed(r, x)
    <2>1. CASE x = NULL
      BY <2>1 DEF IsRed
    <2>2. CASE x # NULL
      <3>1. x \in M \ W /\ ~ t.red[x]
        BY <1>0, <1>1, <1>3, <1>6, <2>2 DEF W, IsRed
      <3> QED  BY <1>11, <3>1 DEF IsRed
    <2> QED  BY <2>1, <2>2
  <1>19. Lacking(r, M, sub2, bh2, x, q, d)
    BY <1>0, <1>9, <1>b, <1>16, <1>17, <1>18 DEF Lacking, RedBut
  <1>20. ~ IsRed(r, a) /\ IsRed(r, w)
    BY <1>1, <1>11 DEF IsRed
  <1> QED  BY <1>12, <1>b, <1>19, <1>20 DEF r

(* A black sibling with a red far child: a rotation supplies what lacks. *)
LEMMA LackFarNephew ==
    ASSUME NEW t, NEW M, NEW sub, NEW bh, NEW x, NEW q, NEW d, Lacking(t, M, sub, bh, x, q, d),
           NEW o, o = Other(d), NEW w, t.child[o][q] = w, NEW a, t.child[d][w] = a,
           NEW b, t.child[o][w] = b, ~ IsRed(t, w), IsRed(t, b),
           NEW tc, Recoloured(t, {w, q, b}, tc), tc.red[w] <=> t.red[q], ~ tc.red[q], ~ tc.red[b]
    PROVE  LET r == Rotate(tc, q, d)
           IN  r \in Tree /\ \E sub2, bh2 : Erasing(r, M, sub2, bh2, r.root, NULL, "left")
  <1> DEFINE r == Rotate(tc, q, d)
             sub2 == RotatedSub(t, q, d, sub)
             bh2 == [n \in Ptr |-> IF n = w THEN bh[q] ELSE IF n = q THEN bh[w]
                                   ELSE IF n = b THEN bh[w] ELSE bh[n]]
             W == {w, q, b}
             i == t.child[d][b]
             j == t.child[o][b]
  <1>0. /\ Shape(t, M, sub) /\ Even(t, M, bh, q, d) /\ RedBut(t, M, NULL)
        /\ q \in M /\ d \in Side /\ t.child[d][q] = x /\ ~ IsRed(t, x)
    BY DEF Lacking
  <1>1. /\ o \in Side /\ Other(o) = d /\ Other(d) = o /\ o # d /\ w \in M /\ w # x /\ w # NULL
        /\ bh[w] = bh[x] + 1 /\ bh[x] \in Nat /\ bh[w] \in Nat
    BY LackNodes
  <1>2. t.child[Other(o)][q] = x /\ t.child[Other(o)][w] = a /\ t.child[Other(d)][w] = b
          /\ t.child[Other(d)][q] = w /\ t.child[Other(o)][b] = i /\ t.child[o][b] = j
    BY <1>0, <1>1
  <1>3. /\ w # q /\ x # q /\ a # w /\ a # q /\ b # w /\ b # q
        /\ (b # NULL => b # a /\ b # x)
        /\ x \in Ptr /\ a \in Ptr /\ b \in Ptr /\ w \in Ptr /\ q \in Ptr
        /\ a \in M \cup {NULL} /\ b \in M \cup {NULL} /\ x \in M \cup {NULL}
        /\ t.parent[w] = q /\ (b # NULL => t.parent[b] = w) /\ (a # NULL => t.parent[a] = w)
        /\ (x # NULL => t.parent[x] = q) /\ q # NULL
    BY <1>0, <1>1, <1>2, FamilyFacts
  <1>4. t \in Tree /\ M \in SUBSET Node /\ M \in SUBSET Ptr /\ NULL \notin M /\ NULL \in Ptr
    BY <1>0, ShapeType DEF Ptr
  <1>5. bh \in [Ptr -> Nat] /\ bh[NULL] = 0
    BY <1>0 DEF Even
  <1>6. b # NULL /\ b \in M /\ t.red[b] /\ ~ t.red[w]
    BY <1>1, <1>3 DEF IsRed
  <1> HIDE DEF i, j
  <1>a. /\ i # b /\ i # w /\ j # b /\ j # w /\ i \in Ptr /\ j \in Ptr
        /\ i \in M \cup {NULL} /\ j \in M \cup {NULL}
        /\ (i # NULL => t.parent[i] = b) /\ (j # NULL => t.parent[j] = b)
    BY <1>0, <1>1, <1>2, <1>6, FamilyFacts
  <1>c. i # q /\ j # q
    <2>1. t.parent[q] # b
      <3>1. t.parent[q] \notin sub[q]
        BY <1>0, ParentFacts, Zenon
      <3>2. w \in sub[q] /\ sub[w] \subseteq sub[q]
        BY <1>0, <1>1, ChildFacts
      <3>3. b \in sub[w]
        BY <1>0, <1>1, <1>6, ChildFacts
      <3> QED  BY <3>1, <3>2, <3>3
    <2> QED  BY <1>3, <1>a, <2>1
  <1>d. t.parent[q] # w /\ t.parent[q] # b /\ t.parent[q] # q
    <2>1. t.parent[q] \notin sub[q]
      BY <1>0, ParentFacts, Zenon
    <2>2. w \in sub[q] /\ sub[w] \subseteq sub[q] /\ q \in sub[q]
      BY <1>0, <1>1, ChildFacts
    <2>3. b \in sub[w]
      BY <1>0, <1>1, <1>6, ChildFacts
    <2> QED  BY <2>1, <2>2, <2>3
  <1>8. /\ bh[w] = bh[a] + 1 /\ bh[w] = bh[b] + 1 /\ bh[b] = bh[i] /\ bh[b] = bh[j]
        /\ bh[a] \in Nat /\ bh[b] \in Nat /\ bh[q] \in Nat
        /\ (t.red[q] => bh[q] = bh[w]) /\ (~ t.red[q] => bh[q] = bh[w] + 1)
    <2>1. bh[q] \in Nat /\ (t.red[q] => bh[q] = bh[w]) /\ (~ t.red[q] => bh[q] = bh[w] + 1)
      BY <1>0, <1>1, CountFacts
    <2>2. bh[w] = bh[a] + 1 /\ bh[a] \in Nat
      BY <1>0, <1>1, <1>3, <1>6, CountFacts
    <2>3. bh[w] = bh[b] + 1 /\ bh[b] \in Nat
      BY <1>0, <1>1, <1>3, <1>6, CountFacts
    <2>4. bh[b] = bh[i]
      BY <1>0, <1>1, <1>2, <1>3, <1>6, CountFacts
    <2>5. bh[b] = bh[j]
      BY <1>0, <1>1, <1>2, <1>3, <1>6, CountFacts
    <2> QED  BY <2>1, <2>2, <2>3, <2>4, <2>5
  <1>9. Turned(t, M, q, d, r) /\ r.red = tc.red /\ r \in Tree /\ Shape(r, M, sub2)
    BY <1>0, <1>1, <1>2, RecolourRotate
  <1> HIDE DEF r, sub2, W
  <1>11. /\ (r.red[w] <=> t.red[q]) /\ ~ r.red[q] /\ ~ r.red[b]
         /\ \A n \in M \ W : r.red[n] <=> t.red[n]
    BY <1>4, <1>9 DEF Recoloured, W
  <1>12. /\ \A n \in M : r.parent[n] = IF n = w THEN t.parent[q] ELSE IF n = q THEN w
                                       ELSE IF n = a THEN q ELSE t.parent[n]
         /\ \A n \in M \ {w, q} : \A e \in Side :
               r.child[e][n] = IF t.child[e][n] = q THEN w ELSE t.child[e][n]
         /\ r.child[d][q] = x /\ r.child[o][q] = a /\ r.child[d][w] = q /\ r.child[o][w] = b
    BY <1>0, <1>1, <1>2, <1>9 DEF Turned
  <1>b. r.child[d][b] = i /\ r.child[o][b] = j
    <2>1. b \in M \ {w, q} /\ t.child[d][b] = i
      BY <1>2, <1>1, <1>3, <1>6
    <2> QED  BY <1>0, <1>1, <1>2, <1>c, <1>12, <2>1
  <1>13. /\ bh2 \in [Ptr -> Nat] /\ bh2[NULL] = 0 /\ bh2[w] = bh[q] /\ bh2[q] = bh[w] /\ bh2[b] = bh[w]
         /\ (\A n \in Ptr \ W : bh2[n] = bh[n])
         /\ bh2[a] = bh[a] /\ bh2[i] = bh[i] /\ bh2[j] = bh[j] /\ bh2[x] = bh[x]
    <2>1. bh2 \in [Ptr -> Nat]
      BY <1>1, <1>5, <1>8
    <2>2. bh2[NULL] = 0 /\ bh2[w] = bh[q] /\ bh2[q] = bh[w] /\ bh2[b] = bh[w]
            /\ (\A n \in Ptr \ W : bh2[n] = bh[n])
      BY <1>1, <1>3, <1>4, <1>5, <1>6 DEF W
    <2>3. bh2[a] = bh[a] /\ bh2[i] = bh[i] /\ bh2[j] = bh[j] /\ bh2[x] = bh[x]
      BY <1>1, <1>3, <1>6, <1>a, <1>c
    <2> QED  BY <2>1, <2>2, <2>3
  <1> HIDE DEF bh2
  <1>14. ASSUME NEW n \in M \ W, NEW e \in Side
         PROVE  bh2[n] = bh2[r.child[e][n]] + Black(r, n) + Lack(n, e, NULL, "left")
    <2>1. \A y \in W \ {q} : y \in M => t.parent[y] \in W
      BY <1>3, <1>6 DEF W
    <2>2. NULL \notin W /\ q \in W /\ t.child[Other(d)][q] \in W /\ t.child[Other(d)][q] # NULL
      BY <1>1, <1>2, <1>3, <1>6 DEF W
    <2>3. bh2[t.child[Other(d)][q]] = bh[q]
      BY <1>2, <1>13
    <2>4. bh2 \in [Ptr -> Nat] /\ \A m \in Ptr \ W : bh2[m] = bh[m]
      BY <1>13
    <2>5. \A m \in M \ W : r.red[m] <=> t.red[m]
      BY <1>11
    <2>6. bh2[n] = bh2[r.child[e][n]] + Black(r, n) + Lack(n, e, q, d)
      BY <1>0, <1>9, <2>1, <2>2, <2>3, <2>4, <2>5, TurnedEven
    <2>7. Lack(n, e, q, d) = Lack(n, e, NULL, "left")
      BY <1>4, <2>2 DEF Lack
    <2> QED  BY <2>6, <2>7
  <1>15. ASSUME NEW n \in W, NEW e \in Side
         PROVE  bh2[n] = bh2[r.child[e][n]] + Black(r, n) + Lack(n, e, NULL, "left")
    <2>0. (n = w \/ n = q \/ n = b) /\ (e = d \/ e = o)
      BY <1>0, <1>1, SideFacts DEF W
    <2>1. Lack(n, e, NULL, "left") = 0
      BY <1>1, <1>3, <1>6, <2>0 DEF Lack
    <2>2. CASE n = w
      <3>1. (t.red[q] => Black(r, n) = 0) /\ (~ t.red[q] => Black(r, n) = 1)
        BY <1>11, <2>2 DEF Black
      <3>2. r.child[e][n] = q \/ r.child[e][n] = b
        BY <1>12, <2>0, <2>2
      <3>3. bh2[r.child[e][n]] = bh[w] /\ bh2[n] = bh[q]
        BY <1>13, <2>2, <3>2
      <3>4. bh2[n] = bh2[r.child[e][n]] + Black(r, n)
        <4>1. CASE t.red[q]
          BY <1>1, <1>8, <3>1, <3>3, <4>1
        <4>2. CASE ~ t.red[q]
          BY <1>1, <1>8, <3>1, <3>3, <4>2
        <4> QED  BY <4>1, <4>2
      <3>5. Black(r, n) \in Nat
        BY <3>1
      <3> QED  BY <1>1, <2>1, <3>3, <3>4, <3>5
    <2>3. CASE n = q
      <3>1. Black(r, n) = 1
        BY <1>11, <2>3 DEF Black
      <3>2. r.child[e][n] = x \/ r.child[e][n] = a
        BY <1>12, <2>0, <2>3
      <3>3. bh[a] = bh[x]
        BY <1>1, <1>8
      <3>4. bh2[r.child[e][n]] = bh[x] /\ bh2[n] = bh[w]
        BY <1>13, <2>3, <3>2, <3>3
      <3> QED  BY <1>1, <2>1, <3>1, <3>4
    <2>4. CASE n = b
      <3>1. Black(r, n) = 1
        BY <1>11, <2>4 DEF Black
      <3>2. r.child[e][n] = i \/ r.child[e][n] = j
        BY <1>b, <2>0, <2>4
      <3>3. bh2[r.child[e][n]] = bh[b] /\ bh2[n] = bh[w]
        BY <1>8, <1>13, <2>4, <3>2
      <3> QED  BY <1>8, <2>1, <3>1, <3>3
    <2> QED  BY <2>0, <2>2, <2>3, <2>4
  <1>16. Even(r, M, bh2, NULL, "left")
    BY <1>13, <1>14, <1>15 DEF Even
  <1>17. ASSUME NEW n \in M, r.red[n] PROVE r.parent[n] # NULL /\ ~ r.red[r.parent[n]]
    <2>1. CASE n = w
      <3>1. t.red[q] /\ r.parent[n] = t.parent[q]
        BY <1>1, <1>11, <1>12, <1>17, <2>1
      <3>2. t.parent[q] # NULL /\ ~ t.red[t.parent[q]]
        BY <1>0, <1>3, <3>1 DEF RedBut
      <3>3. t.parent[q] \in M
        BY <1>0, <3>2, AboveFacts
      <3>4. t.parent[q] \in M \ W
        BY <1>d, <3>3 DEF W
      <3> QED  BY <1>11, <3>1, <3>2, <3>4
    <2>2. CASE n # w
      <3>1. n # q /\ n # b /\ n \notin W /\ t.red[n] /\ n # NULL
        BY <1>4, <1>11, <1>17, <2>2 DEF W
      <3>3. t.parent[n] # NULL /\ ~ t.red[t.parent[n]]
        BY <1>0, <3>1 DEF RedBut
      <3>5. t.parent[n] \in M
        BY <1>0, <3>3, AboveFacts
      <3>6. CASE n = a
        BY <1>3, <1>11, <1>12, <2>2, <3>1, <3>6
      <3>7. CASE n # a
        <4>1. r.parent[n] = t.parent[n]
          BY <1>12, <2>2, <3>1, <3>7
        <4>2. t.parent[n] # w
          <5>1. t.parent[n] = w => n = t.child[d][w] \/ n = t.child[Other(d)][w]
            BY <1>0, <1>1, TwoChildren
          <5> QED  BY <1>2, <3>1, <3>7, <5>1
        <4>3. CASE t.parent[n] \in {q, b}
          BY <1>11, <3>3, <4>1, <4>3
        <4>4. CASE t.parent[n] \notin {q, b}
          <5>1. t.parent[n] \in M \ W
            BY <3>5, <4>2, <4>4 DEF W
          <5> QED  BY <1>11, <3>3, <4>1, <5>1
        <4> QED  BY <4>3, <4>4
      <3> QED  BY <3>6, <3>7
    <2> QED  BY <2>1, <2>2
  <1>18. Reds(r, M, r.root)
    BY <1>17 DEF Reds
  <1>19. Erasing(r, M, sub2, bh2, r.root, NULL, "left")
    BY <1>9, <1>16, <1>18 DEF Erasing
  <1> QED  BY <1>9, <1>19 DEF r

EraseState == [tree : Tree, node : Ptr, parent : Ptr]
EraseEnds(at) == IsRed(at.tree, at.node) \/ at.node = at.tree.root

(* What a turn comes to when the sibling of x is black. *)
EraseRest(t, x, q, d) ==
    LET o == Other(d)
        w == t.child[o][q]
        a == t.child[d][w]
        b == t.child[o][w]
        t2 == IF IsRed(t, b) THEN t ELSE Rotate(Colour(Colour(t, a, FALSE), w, TRUE), w, o)
        w2 == t2.child[o][q]
        t3 == Colour(Colour(Colour(t2, w2, t2.red[q]), q, FALSE), t2.child[o][w2], FALSE)
        t4 == Rotate(t3, q, d)
    IN  IF ~ IsRed(t, a) /\ ~ IsRed(t, b)
        THEN [tree |-> Colour(t, w, TRUE), node |-> q, parent |-> t.parent[q]]
        ELSE [tree |-> t4, node |-> t4.root, parent |-> NULL]

(* Node c hangs below node n on side e. *)
Hangs(t, n, e, c) == t.child[e][n] = c

(* The last step of a turn, with a red far nephew. *)
LEMMA EraseLast ==
    ASSUME NEW t, NEW M, NEW sub, NEW bh, NEW x, NEW q, NEW d, Lacking(t, M, sub, bh, x, q, d),
           NEW o, o = Other(d), NEW w, Hangs(t, q, o, w), NEW b, Hangs(t, w, o, b),
           ~ IsRed(t, w), IsRed(t, b)
    PROVE  LET r == Rotate(Colour(Colour(Colour(t, w, t.red[q]), q, FALSE), b, FALSE), q, d)
           IN  r \in Tree /\ \E sub2, bh2 : Erasing(r, M, sub2, bh2, r.root, NULL, "left")
  <1> DEFINE a == t.child[d][w]
  <1>0. Shape(t, M, sub) /\ q \in M /\ d \in Side /\ t.child[d][q] = x
    BY DEF Lacking
  <1>a. t.child[o][q] = w /\ t.child[o][w] = b
    BY DEF Hangs
  <1>1. o \in Side /\ Other(o) = d /\ Other(d) = o /\ w \in M /\ w # NULL
    BY <1>a, LackNodes
  <1>2. /\ t.child[Other(o)][q] = x /\ t.child[Other(o)][w] = a /\ t.child[Other(d)][w] = b
        /\ t.child[d][w] = a /\ t.child[o][q] = w /\ t.child[o][w] = b
    BY <1>0, <1>1, <1>a
  <1> HIDE DEF a
  <1>3. w # q /\ b # w /\ b # q /\ b \in Ptr /\ w \in Ptr /\ q \in Ptr /\ q # NULL
    BY <1>0, <1>1, <1>2, FamilyFacts
  <1>4. t \in Tree /\ M \in SUBSET Node
    BY <1>0, ShapeType
  <1>5. t.red[q] \in BOOLEAN
    BY <1>0, <1>4 DEF Tree
  <1>6. b # NULL
    BY DEF IsRed
  <1>7. PICK v : v = t.red[q] /\ (v = TRUE \/ v = FALSE)
    BY <1>5
  <1> DEFINE tc == Colour(Colour(Colour(t, w, v), q, FALSE), b, FALSE)
  <1>8. Recoloured(t, {w, q, b}, tc) /\ (tc.red[w] <=> v = TRUE) /\ ~ tc.red[q] /\ ~ tc.red[b]
    <2> DEFINE u == Colour(t, w, v)
    <2>1. Recoloured(t, {w}, u) /\ (u.red[w] <=> v = TRUE)
      <3>1. CASE v = TRUE
        BY <1>1, <1>3, <1>4, <3>1, RecolourOne
      <3>2. CASE v = FALSE
        BY <1>1, <1>3, <1>4, <3>2, RecolourOne
      <3> QED  BY <1>7, <3>1, <3>2
    <2> HIDE DEF u
    <2>2. u \in Tree
      BY <2>1 DEF Recoloured
    <2>3. Recoloured(u, {q, b}, tc) /\ ~ tc.red[q] /\ ~ tc.red[b]
      BY <1>3, <1>6, <2>2, RecolourTwo DEF u
    <2> HIDE DEF tc
    <2> QED  BY <1>1, <1>3, <2>1, <2>3, RecolourFamily
  <1> HIDE DEF tc
  <1>9. (tc.red[w] <=> t.red[q]) /\ ~ tc.red[q] /\ ~ tc.red[b]
    BY <1>7, <1>8
  <1> DEFINE r == Rotate(tc, q, d)
  <1>10. r \in Tree /\ \E sub2, bh2 : Erasing(r, M, sub2, bh2, r.root, NULL, "left")
    BY <1>2, <1>8, <1>9, LackFarNephew
  <1> QED  BY <1>7, <1>10 DEF tc

(* The rest of a turn, once the sibling is black. *)
LEMMA EraseRestKeeps ==
    ASSUME NEW t, NEW M, NEW sub, NEW bh, NEW x, NEW q, NEW d, Lacking(t, M, sub, bh, x, q, d),
           ~ IsRed(t, t.child[Other(d)][q])
    PROVE  LET next == EraseRest(t, x, q, d)
           IN  /\ next \in EraseState
               /\ \E sub2, bh2, d2 : /\ Erasing(next.tree, M, sub2, bh2, next.node, next.parent, d2)
                                     /\ EraseEnds(next) \/ Size(sub2, next.node) > Size(sub, x)
  <1> DEFINE o == Other(d)
             w == t.child[o][q]
             a == t.child[d][w]
             b == t.child[o][w]
             t2 == IF IsRed(t, b) THEN t ELSE Rotate(Colour(Colour(t, a, FALSE), w, TRUE), w, o)
             w2 == t2.child[o][q]
             t3 == Colour(Colour(Colour(t2, w2, t2.red[q]), q, FALSE), t2.child[o][w2], FALSE)
             t4 == Rotate(t3, q, d)
             next == EraseRest(t, x, q, d)
             Goal == /\ next \in EraseState
                     /\ \E sub2, bh2, d2 :
                           /\ Erasing(next.tree, M, sub2, bh2, next.node, next.parent, d2)
                           /\ EraseEnds(next) \/ Size(sub2, next.node) > Size(sub, x)
  <1> SUFFICES Goal
    OBVIOUS
  <1>1. next = IF ~ IsRed(t, a) /\ ~ IsRed(t, b)
               THEN [tree |-> Colour(t, w, TRUE), node |-> q, parent |-> t.parent[q]]
               ELSE [tree |-> t4, node |-> t4.root, parent |-> NULL]
    BY DEF EraseRest
  <1>2. ~ IsRed(t, w) /\ o = Other(d) /\ t.child[o][q] = w /\ t.child[d][w] = a /\ t.child[o][w] = b
    OBVIOUS
  <1>3. Shape(t, M, sub) /\ q \in M /\ d \in Side /\ t.child[d][q] = x
    BY DEF Lacking
  <1> HIDE DEF next, t4, t3, w2, t2, b, a, w, o
  <1>4. o \in Side /\ Other(o) = d /\ Other(d) = o /\ w \in M /\ w # NULL
    BY <1>2, LackNodes
  <1>5. t.child[Other(o)][q] = x /\ t.child[Other(o)][w] = a
    BY <1>2, <1>3, <1>4
  <1>6. w # q /\ a # w /\ a # q /\ b # w /\ b # q /\ a \in Ptr /\ b \in Ptr /\ w \in Ptr /\ q \in Ptr
    BY <1>2, <1>3, <1>4, <1>5, FamilyFacts
  <1>7. t \in Tree /\ t.parent[q] \in Ptr
    BY <1>3, ShapeType DEF Tree
  <1>8. CASE ~ IsRed(t, a) /\ ~ IsRed(t, b)
    <2> DEFINE r == Colour(t, w, TRUE)
    <2>1. Recoloured(t, {w}, r) /\ r.red[w]
      BY <1>4, <1>6, <1>7, RecolourOne
    <2>2. next = [tree |-> r, node |-> q, parent |-> t.parent[q]]
      BY <1>1, <1>8
    <2> HIDE DEF r
    <2>3. (\E bh2, d2 : Erasing(r, M, sub, bh2, q, t.parent[q], d2)) /\ Size(sub, q) > Size(sub, x)
      BY <1>2, <1>8, <2>1, LackBlackNephews
    <2>4. r \in Tree
      BY <2>1 DEF Recoloured
    <2>5. next \in EraseState /\ next.tree = r /\ next.node = q /\ next.parent = t.parent[q]
      BY <1>6, <1>7, <2>2, <2>4 DEF EraseState
    <2> QED  BY <2>3, <2>5
  <1>9. ASSUME t4 \in Tree, NEW sub2, NEW bh2, Erasing(t4, M, sub2, bh2, t4.root, NULL, "left"),
               ~ (~ IsRed(t, a) /\ ~ IsRed(t, b))
        PROVE  Goal
    <2>1. next = [tree |-> t4, node |-> t4.root, parent |-> NULL]
      BY <1>1, <1>9
    <2>2. t4.root \in Ptr /\ NULL \in Ptr
      BY <1>9 DEF Tree, Ptr
    <2>3. next \in EraseState /\ next.tree = t4 /\ next.node = t4.root /\ next.parent = NULL
      BY <1>9, <2>1, <2>2 DEF EraseState
    <2>4. EraseEnds(next)
      BY <2>3 DEF EraseEnds
    <2> QED  BY <1>9, <2>3, <2>4
  <1>10. CASE IsRed(t, b)
    <2>1. t2 = t
      BY <1>10 DEF t2
    <2>2. w2 = w /\ t2.child[o][w2] = b
      BY <1>2, <2>1 DEF w2
    <2>3. t4 = Rotate(Colour(Colour(Colour(t, w, t.red[q]), q, FALSE), b, FALSE), q, d)
      BY <2>1, <2>2 DEF t4, t3
    <2>4. t4 \in Tree /\ \E sub2, bh2 : Erasing(t4, M, sub2, bh2, t4.root, NULL, "left")
      BY <1>2, <1>10, <2>3, EraseLast DEF Hangs
    <2> HIDE DEF Goal
    <2> QED  BY <1>9, <1>10, <2>4
  <1>11. CASE ~ IsRed(t, b) /\ IsRed(t, a)
    <2> DEFINE tc == Colour(Colour(t, a, FALSE), w, TRUE)
    <2>1. t2 = Rotate(tc, w, o)
      BY <1>11 DEF t2
    <2>2. Recoloured(t, {a, w}, tc) /\ ~ tc.red[a] /\ tc.red[w]
      <3>1. a # NULL
        BY <1>11 DEF IsRed
      <3> QED  BY <1>4, <1>6, <1>7, <3>1, RecolourTwo
    <2> HIDE DEF tc
    <2>3. /\ \E sub2, bh2 : Lacking(t2, M, sub2, bh2, x, q, d)
          /\ t2.child[o][q] = a /\ t2.child[o][a] = w /\ ~ IsRed(t2, a) /\ IsRed(t2, w)
      BY <1>2, <1>11, <2>1, <2>2, LackNearNephew
    <2>4. w2 = a /\ t2.child[o][w2] = w
      BY <2>3 DEF w2
    <2>5. t4 = Rotate(Colour(Colour(Colour(t2, a, t2.red[q]), q, FALSE), w, FALSE), q, d)
      BY <2>4 DEF t4, t3
    <2>6. t4 \in Tree /\ \E sub2, bh2 : Erasing(t4, M, sub2, bh2, t4.root, NULL, "left")
      BY <1>2, <2>3, <2>5, EraseLast DEF Hangs
    <2> HIDE DEF Goal
    <2> QED  BY <1>9, <1>11, <2>6
  <1> QED  BY <1>8, <1>10, <1>11

(* One turn of the loop of __rb_erase_color: it ends, or x goes up. *)
LEMMA EraseTurnKeeps ==
    ASSUME NEW at \in EraseState, NEW M, NEW sub, NEW bh, NEW d,
           Erasing(at.tree, M, sub, bh, at.node, at.parent, d)
    PROVE  LET next == EraseTurn(at)
           IN  /\ next \in EraseState
               /\ \E sub2, bh2, d2 : /\ Erasing(next.tree, M, sub2, bh2, next.node, next.parent, d2)
                                     /\ EraseEnds(next) \/ Size(sub2, next.node) > Size(sub, at.node)
  <1> DEFINE t == at.tree
             x == at.node
             q == at.parent
             s == SideOf(t, q, x)
             w == t.child[Other(s)][q]
             tc == Colour(Colour(t, w, FALSE), q, TRUE)
             t1 == IF IsRed(t, w) THEN Rotate(tc, q, s) ELSE t
             next == EraseTurn(at)
             Goal == /\ next \in EraseState
                     /\ \E sub2, bh2, d2 :
                           /\ Erasing(next.tree, M, sub2, bh2, next.node, next.parent, d2)
                           /\ EraseEnds(next) \/ Size(sub2, next.node) > Size(sub, x)
  <1> SUFFICES Goal
    OBVIOUS
  <1>1. next = IF EraseEnds(at) THEN at ELSE EraseRest(t1, x, q, s)
    BY DEF EraseTurn, EraseRest, EraseEnds
  <1>2. Erasing(t, M, sub, bh, x, q, d)
    OBVIOUS
  <1>3. EraseEnds(at) <=> IsRed(t, x) \/ x = t.root
    BY DEF EraseEnds
  <1>4. CASE EraseEnds(at)
    <2>1. next = at
      BY <1>1, <1>4
    <2> HIDE DEF next
    <2> QED  BY <1>2, <1>4, <2>1
  <1>5. CASE ~ EraseEnds(at)
    <2>1. next = EraseRest(t1, x, q, s)
      BY <1>1, <1>5
    <2>2. w = t.child[Other(s)][q]
      OBVIOUS
    <2> HIDE DEF next, t1, tc, w, t, x, q
    <2>3. Lacking(t, M, sub, bh, x, q, d)
      BY <1>2, <1>3, <1>5, EraseLacks
    <2>4. s = d /\ Other(d) \in Side
      BY <2>3, LackNodes
    <2> HIDE DEF s
    <2>5. t.child[Other(d)][q] = w
      BY <2>2, <2>4
    <2>6. w \in M /\ w # NULL
      BY <2>3, <2>5, LackNodes
    <2>7. Shape(t, M, sub) /\ q \in M /\ d \in Side /\ t.child[d][q] = x
      BY <2>3 DEF Lacking
    <2>8. t \in Tree /\ q \in Ptr /\ w \in Ptr /\ q # NULL
      BY <2>6, <2>7, ShapeType
    <2>9. w # q
      BY <2>4, <2>5, <2>7, ChildFacts
    <2>10. /\ \E sub2, bh2 : Lacking(t1, M, sub2, bh2, x, q, d) /\ Size(sub2, x) = Size(sub, x)
           /\ ~ IsRed(t1, t1.child[Other(d)][q])
      <3>1. CASE IsRed(t, w)
        <4> DEFINE a == t.child[d][w]
                   b == t.child[Other(d)][w]
        <4>1. t1 = Rotate(tc, q, d)
          BY <2>4, <3>1 DEF t1
        <4>2. Recoloured(t, {w, q}, tc) /\ ~ tc.red[w] /\ tc.red[q]
          BY <2>6, <2>8, <2>9, RecolourTwo DEF tc
        <4>3. t.child[d][w] = a /\ t.child[Other(d)][w] = b
          OBVIOUS
        <4> HIDE DEF a, b
        <4> QED  BY <2>3, <2>5, <3>1, <4>1, <4>2, <4>3, LackRedSibling
      <3>2. CASE ~ IsRed(t, w)
        <4>1. t1 = t
          BY <3>2 DEF t1
        <4> QED  BY <2>3, <2>5, <3>2, <4>1
      <3> QED  BY <3>1, <3>2
    <2>11. PICK sub1, bh1 : Lacking(t1, M, sub1, bh1, x, q, d) /\ Size(sub1, x) = Size(sub, x)
      BY <2>10
    <2>12. /\ next \in EraseState
           /\ \E sub2, bh2, d2 : /\ Erasing(next.tree, M, sub2, bh2, next.node, next.parent, d2)
                                 /\ EraseEnds(next) \/ Size(sub2, next.node) > Size(sub1, x)
      BY <2>1, <2>4, <2>10, <2>11, EraseRestKeeps
    <2> QED  BY <2>11, <2>12
  <1> QED  BY <1>4, <1>5

(* The node where the loop ends is made black. *)
LEMMA EraseEnd ==
    ASSUME NEW t, NEW M, NEW sub, NEW bh, NEW x, NEW q, NEW d, Erasing(t, M, sub, bh, x, q, d),
           NEW z, z = t.root, IsRed(t, x) \/ x = z
    PROVE  \E bh2 : Balanced(Colour(t, x, FALSE), M, sub, bh2)
  <1> DEFINE r == Colour(t, x, FALSE)
             bh2 == [n \in Ptr |-> IF n = x /\ IsRed(t, x) THEN bh[n] + 1 ELSE bh[n]]
  <1>1. Shape(t, M, sub) /\ Even(t, M, bh, q, d) /\ Reds(t, M, x)
    BY DEF Erasing
  <1>2. t \in Tree /\ M \in SUBSET Node /\ M \in SUBSET Ptr /\ NULL \notin M /\ NULL \in Ptr
    BY <1>1, ShapeType DEF Ptr
  <1>3. x \in M \cup {NULL} /\ x \in Ptr
    <2>1. CASE q = NULL
      BY <1>1, <1>2, <2>1, ShapeType DEF Erasing
    <2>2. CASE q # NULL
      BY <1>1, <2>2, ShapeType DEF Erasing
    <2> QED  BY <2>1, <2>2
  <1>4. bh \in [Ptr -> Nat] /\ bh[NULL] = 0
    BY <1>1 DEF Even
  <1>5. Recoloured(t, {x}, r) /\ (x # NULL => ~ r.red[x])
    BY <1>2, <1>3, RecolourOne
  <1> HIDE DEF r
  <1>6. /\ r \in Tree /\ r.root = t.root /\ r.parent = t.parent /\ r.child = t.child
        /\ \A n \in M \ {x} : r.red[n] <=> t.red[n]
    BY <1>2, <1>5 DEF Recoloured
  <1>7. Shape(r, M, sub)
    BY <1>1, <1>6, SameLinks
  <1>8. /\ bh2 \in [Ptr -> Nat] /\ bh2[NULL] = 0 /\ (\A n \in Ptr \ {x} : bh2[n] = bh[n])
        /\ (IsRed(t, x) => bh2[x] = bh[x] + 1) /\ (~ IsRed(t, x) => bh2[x] = bh[x])
    <2>1. \A n \in Ptr : bh[n] \in Nat /\ bh[n] + 1 \in Nat
      BY <1>4
    <2>2. x = NULL => ~ IsRed(t, x)
      BY DEF IsRed
    <2> QED  BY <1>2, <1>3, <1>4, <2>1, <2>2
  <1> HIDE DEF bh2
  <1>9. ASSUME NEW n \in M, NEW e \in Side
        PROVE  bh2[n] = bh2[r.child[e][n]] + Black(r, n) + Lack(n, e, NULL, "left")
    <2> DEFINE c == t.child[e][n]
    <2>0. n # NULL /\ n \in Ptr /\ r.child[e][n] = c
      BY <1>2, <1>6
    <2>1. /\ bh[n] \in Nat /\ bh[c] \in Nat
          /\ n # q \/ e # d => (t.red[n] => bh[n] = bh[c]) /\ (~ t.red[n] => bh[n] = bh[c] + 1)
          /\ n = q /\ e = d => (t.red[n] => bh[n] = bh[c] + 1) /\ (~ t.red[n] => bh[n] = bh[c] + 2)
      BY <1>1, CountFacts
    <2>2. c \in Ptr /\ (c # NULL => t.parent[c] = n) /\ c # n /\ (c # NULL => c \in M)
      BY <1>1, ChildFacts, ShapeType
    <2>3. n = q /\ e = d => c = x /\ c # z
      <3>1. n = q /\ e = d => c = x
        BY <2>0 DEF Erasing
      <3>2. c # z
        <4>1. z \in M \cup {NULL} /\ (z # NULL => t.parent[z] = NULL) /\ sub[z] = M /\ sub[NULL] = {}
          BY <1>1, ShapeType
        <4>2. z # NULL
          BY <4>1
        <4> QED  BY <2>0, <2>2, <4>1, <4>2
      <3> QED  BY <3>1, <3>2
    <2>4. c = x /\ c # NULL => n = q /\ e = d
      <3>1. CASE q = NULL
        <4>1. x = z /\ (z # NULL => t.parent[z] = NULL)
          BY <1>1, <3>1, ShapeType DEF Erasing
        <4> QED  BY <2>0, <2>2, <4>1
      <3>2. CASE q # NULL
        <4>1. q \in M /\ d \in Side /\ t.child[d][q] = x
          BY <3>2 DEF Erasing
        <4>2. c = x /\ c # NULL => n = t.parent[x] /\ e = SideOf(t, n, x)
          BY <1>1, <2>2, SideFound
        <4>3. x # NULL => q = t.parent[x] /\ d = SideOf(t, q, x)
          BY <1>1, <1>3, <4>1, SideFound
        <4> QED  BY <4>2, <4>3
      <3> QED  BY <3>1, <3>2
    <2> HIDE DEF c
    <2>5. Lack(n, e, NULL, "left") = 0 /\ (r.red[n] => Black(r, n) = 0) /\ (~ r.red[n] => Black(r, n) = 1)
      BY <2>0 DEF Lack, Black
    <2>6. CASE n = q /\ e = d
      <3>1. c = x /\ IsRed(t, x) /\ n # x
        BY <2>2, <2>3, <2>6
      <3>2. bh2[c] = bh[c] + 1 /\ bh2[n] = bh[n] /\ (r.red[n] <=> t.red[n])
        BY <1>6, <1>8, <2>0, <3>1
      <3>3. CASE t.red[n]
        <4>1. bh[n] = bh[c] + 1 /\ Black(r, n) = 0
          BY <2>1, <2>5, <2>6, <3>2, <3>3
        <4> QED  BY <2>0, <2>1, <2>5, <3>2, <4>1
      <3>4. CASE ~ t.red[n]
        <4>1. bh[n] = bh[c] + 2 /\ Black(r, n) = 1
          BY <2>1, <2>5, <2>6, <3>2, <3>4
        <4> QED  BY <2>0, <2>1, <2>5, <3>2, <4>1
      <3> QED  BY <3>3, <3>4
    <2>7. CASE ~ (n = q /\ e = d)
      <3>1. bh2[c] = bh[c]
        <4>1. c = x => c = NULL
          BY <2>4, <2>7
        <4> QED  BY <1>4, <1>8, <2>2, <4>1
      <3>2. CASE n = x /\ IsRed(t, x)
        <4>1. t.red[n] /\ ~ r.red[n] /\ bh2[n] = bh[n] + 1
          BY <1>5, <1>8, <2>0, <3>2 DEF IsRed
        <4>2. bh[n] = bh[c] /\ Black(r, n) = 1
          BY <2>1, <2>5, <2>7, <4>1
        <4> QED  BY <2>0, <2>1, <2>5, <3>1, <4>1, <4>2
      <3>3. CASE ~ (n = x /\ IsRed(t, x))
        <4>1. bh2[n] = bh[n] /\ (r.red[n] <=> t.red[n])
          <5>1. CASE n = x
            <6>1. ~ IsRed(t, x)
              BY <3>3, <5>1
            <6> QED  BY <1>5, <1>8, <2>0, <5>1, <6>1 DEF IsRed
          <5>2. CASE n # x
            BY <1>6, <1>8, <2>0, <5>2
          <5> QED  BY <5>1, <5>2
        <4>2. bh[n] = bh[c] + Black(r, n) /\ Black(r, n) \in Nat
          <5>1. CASE t.red[n]
            BY <2>1, <2>5, <2>7, <4>1, <5>1
          <5>2. CASE ~ t.red[n]
            BY <2>1, <2>5, <2>7, <4>1, <5>2
          <5> QED  BY <5>1, <5>2
        <4> QED  BY <2>0, <2>1, <2>5, <3>1, <4>1, <4>2
      <3> QED  BY <3>2, <3>3
    <2> QED  BY <2>6, <2>7
  <1>10. Even(r, M, bh2, NULL, "left")
    BY <1>8, <1>9 DEF Even
  <1>11. ASSUME NEW n \in M, r.red[n] PROVE r.parent[n] # NULL /\ ~ r.red[r.parent[n]]
    <2>0. n # x /\ t.red[n] /\ r.parent[n] = t.parent[n]
      BY <1>2, <1>5, <1>6, <1>11
    <2>1. t.parent[n] # NULL /\ (t.parent[n] = x \/ ~ t.red[t.parent[n]])
      BY <1>1, <2>0 DEF Reds
    <2>2. t.parent[n] \in M
      BY <1>1, <2>1, AboveFacts
    <2>3. CASE t.parent[n] = x
      BY <1>5, <2>0, <2>1, <2>3
    <2>4. CASE t.parent[n] # x
      BY <1>6, <2>0, <2>1, <2>2, <2>4
    <2> QED  BY <2>3, <2>4
  <1>12. Reds(r, M, NULL)
    BY <1>11 DEF Reds
  <1>13. Balanced(r, M, sub, bh2)
    BY <1>7, <1>10, <1>12 DEF Balanced
  <1> QED  BY <1>13 DEF r

(* __rb_erase_color balances the tree again: there are fewer nodes in the *)
(* tree than turns.                                                       *)
LEMMA EraseColorFacts ==
    ASSUME NEW t, NEW M, NEW sub, NEW bh, NEW x, NEW q \in Ptr, NEW d, Erasing(t, M, sub, bh, x, q, d),
           NEW gone \in Node \ M
    PROVE  \E sub2, bh2 : Balanced(EraseColor(t, x, q), M, sub2, bh2)
  <1> DEFINE N == MaxTurns
             start == [tree |-> t, node |-> x, parent |-> q]
             loop[i \in 0 .. N] == IF i = 0 THEN start ELSE EraseTurn(loop[i - 1])
             Some(at) == \E sub2, bh2, d2 : Erasing(at.tree, M, sub2, bh2, at.node, at.parent, d2)
             Inv(at, i) == \E sub2, bh2, d2 : /\ Erasing(at.tree, M, sub2, bh2, at.node, at.parent, d2)
                                              /\ EraseEnds(at) \/ Size(sub2, at.node) >= i
             X == {at \in EraseState : Some(at)}
             turn == [i \in 1 .. N |-> [at \in X |-> EraseTurn(at)]]
             S == {i \in 0 .. N : loop[i] \in EraseState /\ Inv(loop[i], i)}
             end == loop[N]
  <1>1. N \in Nat
    BY NodeFacts
  <1>2. EraseColor(t, x, q) = Colour(end.tree, end.node, FALSE)
    BY DEF EraseColor
  <1>3. loop = CHOOSE h : h = [i \in 0 .. N |-> IF i = 0 THEN start ELSE EraseTurn(h[i - 1])]
    OBVIOUS
  <1>a. start.tree = t /\ start.node = x /\ start.parent = q
    OBVIOUS
  <1>b. t \in Tree /\ x \in Ptr /\ Shape(t, M, sub)
    <2>1. Shape(t, M, sub)
      BY DEF Erasing
    <2>2. t \in Tree
      BY <2>1, ShapeType
    <2>3. CASE q = NULL
      BY <2>2, <2>3 DEF Erasing, Tree
    <2>4. CASE q # NULL
      BY <2>1, <2>4, ShapeType DEF Erasing
    <2> QED  BY <2>1, <2>2, <2>3, <2>4
  <1>4. start \in EraseState
    BY <1>b DEF EraseState
  <1> HIDE DEF start
  <1>c. start \in X
    BY <1>a, <1>4
  <1>5. Inv(start, 0)
    <2>1. Size(sub, x) >= 0
      BY <1>b, SizeFacts
    <2> QED  BY <1>a, <2>1
  <1>6. turn \in Turns(N, X)
    <2>1. \A at \in X : EraseTurn(at) \in X
      <3> TAKE at \in X
      <3>1. PICK sub2, bh2, d2 : Erasing(at.tree, M, sub2, bh2, at.node, at.parent, d2)
        OBVIOUS
      <3> DEFINE to == EraseTurn(at)
      <3>2. to \in EraseState
              /\ \E sub3, bh3, d3 : Erasing(to.tree, M, sub3, bh3, to.node, to.parent, d3)
        BY <3>1, EraseTurnKeeps
      <3> QED  BY <3>2
    <2> HIDE DEF X, N
    <2> QED  BY <2>1 DEF Turns
  <1> HIDE DEF loop, Inv, N
  <1>7. PICK h \in [0 .. N -> X] : h[0] = start /\ \A i \in 1 .. N : h[i] = turn[i][h[i - 1]]
    <2> HIDE DEF turn, X
    <2>1. Traces(N, X, start, turn) # {}
      BY <1>1, <1>c, <1>6, LoopExists
    <2> QED  BY <2>1 DEF Traces
  <1>8. h = [i \in 0 .. N |-> IF i = 0 THEN start ELSE EraseTurn(h[i - 1])]
    <2> HIDE DEF X
    <2>1. ASSUME NEW i \in 0 .. N PROVE h[i] = IF i = 0 THEN start ELSE EraseTurn(h[i - 1])
      <3>1. CASE i = 0
        BY <1>7, <3>1
      <3>2. CASE i # 0
        <4>1. i \in 1 .. N /\ h[i - 1] \in X
          BY <1>1, <1>7, <3>2
        <4> QED  BY <1>7, <3>2, <4>1
      <3> QED  BY <3>1, <3>2
    <2> QED  BY <1>7, <2>1
  <1>9. loop = [i \in 0 .. N |-> IF i = 0 THEN start ELSE EraseTurn(loop[i - 1])]
    BY <1>3, <1>8
  <1>10. 0 \in S
    <2>1. loop[0] = start /\ 0 \in 0 .. N
      BY <1>1, <1>9
    <2> QED  BY <1>4, <1>5, <2>1
  <1>11. ASSUME NEW i \in 1 .. N, i - 1 \in S PROVE i \in S
    <2> DEFINE at == loop[i - 1]
               to == loop[i]
    <2>1. to = EraseTurn(at) /\ i \in 0 .. N /\ i \in Nat
      BY <1>1, <1>9
    <2>2. at \in EraseState /\ Inv(at, i - 1)
      BY <1>11
    <2> HIDE DEF at, to
    <2>3. PICK sub2, bh2, d2 : /\ Erasing(at.tree, M, sub2, bh2, at.node, at.parent, d2)
                               /\ EraseEnds(at) \/ Size(sub2, at.node) >= i - 1
      BY <2>2 DEF Inv
    <2>4. CASE EraseEnds(at)
      <3>1. to = at
        BY <2>1, <2>4 DEF EraseEnds, EraseTurn
      <3>2. Inv(to, i)
        BY <2>3, <2>4, <3>1 DEF Inv
      <3> QED  BY <2>1, <2>2, <3>1, <3>2 DEF to
    <2>5. CASE Size(sub2, at.node) >= i - 1
      <3>1. to \in EraseState
        BY <2>1, <2>2, <2>3, EraseTurnKeeps
      <3>2. PICK sub3, bh3, d3 : /\ Erasing(to.tree, M, sub3, bh3, to.node, to.parent, d3)
                                 /\ EraseEnds(to) \/ Size(sub3, to.node) > Size(sub2, at.node)
        BY <2>1, <2>2, <2>3, EraseTurnKeeps
      <3>3. Size(sub3, to.node) > Size(sub2, at.node) => Size(sub3, to.node) >= i
        <4>1. Shape(at.tree, M, sub2) /\ Shape(to.tree, M, sub3)
          BY <2>3, <3>2 DEF Erasing
        <4>2. at.node \in Ptr /\ to.node \in Ptr
          BY <2>2, <3>1 DEF EraseState
        <4>3. Size(sub2, at.node) \in Nat
          BY <4>1, <4>2, SizeFacts
        <4>4. Size(sub3, to.node) \in Nat
          BY <4>1, <4>2, SizeFacts
        <4> QED  BY <2>1, <2>5, <4>3, <4>4
      <3>4. Inv(to, i)
        BY <3>2, <3>3 DEF Inv
      <3> QED  BY <2>1, <3>1, <3>4 DEF to
    <2> QED  BY <2>3, <2>4, <2>5
  <1> HIDE DEF S
  <1>12. N \in S
    <2>1. 0 .. N \subseteq S
      BY <1>1, <1>10, <1>11, InductionUpTo
    <2> QED  BY <1>1, <2>1
  <1> DEFINE at == loop[N]
  <1>13. at \in EraseState /\ Inv(at, N)
    BY <1>12 DEF S
  <1> HIDE DEF at
  <1>14. PICK sub2, bh2, d2 : /\ Erasing(at.tree, M, sub2, bh2, at.node, at.parent, d2)
                              /\ EraseEnds(at) \/ Size(sub2, at.node) >= N
    BY <1>13 DEF Inv
  <1>15. ~ (Size(sub2, at.node) >= N)
    <2>1. Shape(at.tree, M, sub2)
      BY <1>14 DEF Erasing
    <2>2. at.node \in Ptr
      BY <1>13 DEF EraseState
    <2>3. Size(sub2, at.node) \in Nat /\ Size(sub2, at.node) <= Cardinality(M) /\ Cardinality(M) \in Nat
      BY <2>1, <2>2, SizeFacts
    <2>4. Cardinality(M) < N
      <3>1. M \subseteq Node \ {gone}
        BY <2>1, ShapeType
      <3>2. IsFiniteSet(Node \ {gone}) /\ Cardinality(Node \ {gone}) = N - 1
        BY NodeFacts, FS_RemoveElement DEF N, MaxTurns
      <3>3. Cardinality(M) <= Cardinality(Node \ {gone})
        BY <3>1, <3>2, FS_Subset
      <3> QED  BY <1>1, <2>3, <3>2, <3>3
    <2> QED  BY <1>1, <2>3, <2>4
  <1>16. \E bh3 : Balanced(Colour(at.tree, at.node, FALSE), M, sub2, bh3)
    BY <1>14, <1>15, EraseEnd DEF EraseEnds
  <1> QED  BY <1>2, <1>16 DEF at

-----------------------------------------------------------------------------
(* What every operation leaves behind *)

(* The colours of a tree that is balanced, or of one that never was: there *)
(* every node stays as red as it was linked.                               *)
Coloured(t, M, b) ==
    IF b THEN \E bh : Even(t, M, bh, NULL, "left") /\ Reds(t, M, NULL)
    ELSE \A n \in M : t.red[n]
Good(t, M, b) == \E sub : Shape(t, M, sub) /\ Coloured(t, M, b)

(* A balanced tree is what a user that rebalances may meet. *)
LEMMA GoodBalanced ==
    ASSUME NEW t, NEW M, NEW sub, NEW bh, Balanced(t, M, sub, bh), NEW b, b = TRUE
    PROVE  Good(t, M, b)
  BY DEF Balanced, Good, Coloured

(* A tree that is written outside of M only. *)
LEMMA SameOn ==
    ASSUME NEW t, NEW M, NEW sub, Shape(t, M, sub), NEW r \in Tree, r.root = t.root,
           \A n \in M : r.parent[n] = t.parent[n] /\ (r.red[n] <=> t.red[n]),
           \A n \in M : \A s \in Side : r.child[s][n] = t.child[s][n]
    PROVE  /\ Shape(r, M, sub)
           /\ \A bh : Even(t, M, bh, NULL, "left") => Even(r, M, bh, NULL, "left")
           /\ Reds(t, M, NULL) => Reds(r, M, NULL)
  <1>1. \A n \in M : Down(r, M, n) /\ Split(r, sub, n) /\ Up(r, M, n)
    <2> TAKE n \in M
    <2>1. Down(t, M, n) /\ Split(t, sub, n) /\ Up(t, M, n)
      BY DEF Shape
    <2>2. Down(r, M, n)
      BY <2>1 DEF Down
    <2>3. Split(r, sub, n)
      BY <2>1, SideFacts DEF Split
    <2>4. Up(r, M, n)
      BY <2>1 DEF Up
    <2> QED  BY <2>2, <2>3, <2>4
  <1>2. Shape(r, M, sub)
    BY <1>1 DEF Shape
  <1>3. \A bh : Even(t, M, bh, NULL, "left") => Even(r, M, bh, NULL, "left")
    <2> TAKE bh
    <2> HAVE Even(t, M, bh, NULL, "left")
    <2>1. \A n \in M : Black(r, n) = Black(t, n)
      BY DEF Black
    <2> QED  BY <2>1 DEF Even
  <1>4. ASSUME Reds(t, M, NULL), NEW n \in M, r.red[n]
        PROVE  r.parent[n] # NULL /\ ~ r.red[r.parent[n]]
    <2>1. t.red[n] /\ n # NULL
      BY <1>4, ShapeType
    <2>2. t.parent[n] # NULL /\ ~ t.red[t.parent[n]]
      BY <1>4, <2>1 DEF Reds
    <2>3. t.parent[n] \in M
      BY <2>2, AboveFacts
    <2> QED  BY <2>2, <2>3
  <1>5. Reds(t, M, NULL) => Reds(r, M, NULL)
    BY <1>4 DEF Reds
  <1> QED  BY <1>2, <1>3, <1>5

(* The memory of a node outside of the tree is cleared. *)
LEMMA ForgetGood ==
    ASSUME NEW t, NEW M, NEW b, Good(t, M, b), NEW n \in Node \ M
    PROVE  Good(Forget(t, n), M, b)
  <1> DEFINE r == Forget(t, n)
  <1>1. PICK sub : Shape(t, M, sub) /\ Coloured(t, M, b)
    BY DEF Good
  <1>2. t \in Tree /\ M \in SUBSET Node
    BY <1>1, ShapeType
  <1>3. NodeSet(t, n, NULL, NULL, NULL, FALSE, r)
    <2>1. NULL \in Ptr /\ FALSE \in BOOLEAN
      BY DEF Ptr
    <2> QED  BY <1>2, <2>1, SetNodeFields DEF Forget
  <1> HIDE DEF r
  <1>4. /\ r \in Tree /\ r.root = t.root
        /\ \A m \in M : r.parent[m] = t.parent[m] /\ (r.red[m] <=> t.red[m])
    BY <1>2, <1>3 DEF NodeSet
  <1>5. \A m \in M : \A s \in Side : r.child[s][m] = t.child[s][m]
    BY <1>2, <1>3 DEF NodeSet, Side
  <1>6. /\ Shape(r, M, sub)
        /\ \A bh : Even(t, M, bh, NULL, "left") => Even(r, M, bh, NULL, "left")
        /\ Reds(t, M, NULL) => Reds(r, M, NULL)
    BY <1>1, <1>4, <1>5, SameOn
  <1>7. Coloured(r, M, b)
    BY <1>1, <1>4, <1>6 DEF Coloured
  <1> QED  BY <1>6, <1>7 DEF Good, r

(* A node with at most one child, which takes its place: if the node was *)
(* black, one is missing there.                                          *)
LEMMA SpliceColours ==
    ASSUME NEW t, NEW M, NEW sub, Shape(t, M, sub), NEW bh, Even(t, M, bh, NULL, "left"), Reds(t, M, NULL),
           NEW node \in M, NEW s \in Side, t.child[Other(s)][node] = NULL,
           NEW r, Spliced(t, node, t.child[s][node], r)
    PROVE  LET p == t.parent[node]
           IN  IF t.red[node] THEN Balanced(r, M \ {node}, SplicedSub(sub, node), bh)
               ELSE Erasing(r, M \ {node}, SplicedSub(sub, node), bh, t.child[s][node],
                            p, SideOf(t, p, node))
  <1> DEFINE M2 == M \ {node}
             sub2 == SplicedSub(sub, node)
             c == t.child[s][node]
             p == t.parent[node]
             d == SideOf(t, p, node)
  <1>1. /\ M \in SUBSET Node /\ M \in SUBSET Ptr /\ NULL \notin M
    BY ShapeType
  <1>2. Shape(r, M2, sub2)
    BY SpliceShape
  <1>3. /\ r.root = IF p = NULL THEN c ELSE t.root
        /\ \A m \in Node : r.parent[m] = IF m = c THEN p ELSE t.parent[m]
        /\ \A m \in Node : \A q \in Side : r.child[q][m] = IF m = p /\ q = d THEN c ELSE t.child[q][m]
        /\ r.red = t.red
    BY DEF Spliced
  <1>4. p # NULL => p \in M /\ d \in Side /\ t.child[d][p] = node
    BY AboveFacts
  <1>5. p # node
    BY ParentFacts, Zenon
  <1>6. c # node /\ (c # NULL => c \in M /\ t.parent[c] = node)
    BY ChildFacts
  <1>7. \A m \in M : t.parent[m] = node => m = c
    <2> TAKE m \in M
    <2>1. t.parent[m] = node => m = t.child[s][node] \/ m = t.child[Other(s)][node]
      BY TwoChildren
    <2> QED  BY <1>1, <2>1
  <1>8. bh \in [Ptr -> Nat] /\ bh[NULL] = 0
    BY DEF Even
  <1>9. bh[node] \in Nat /\ bh[c] \in Nat
          /\ (t.red[node] => bh[node] = bh[c]) /\ (~ t.red[node] => bh[node] = bh[c] + 1)
    <2>1. node # NULL
      BY <1>1
    <2> QED  BY <2>1, CountFacts
  <1> HIDE DEF sub2
  <1>10. ASSUME NEW m \in M2, NEW e \in Side
         PROVE  bh[m] = bh[r.child[e][m]] + Black(r, m)
                          + (IF m = p /\ e = d /\ ~ t.red[node] THEN 1 ELSE 0)
    <2>1. m \in M /\ m # node /\ m # NULL /\ m \in Node
      BY <1>1
    <2>2. /\ bh[m] = bh[t.child[e][m]] + Black(t, m) + Lack(m, e, NULL, "left")
          /\ Lack(m, e, NULL, "left") = 0 /\ bh[t.child[e][m]] \in Nat
      BY <2>1, EvenFacts
    <2>3. Black(r, m) = Black(t, m) /\ Black(t, m) \in Nat
      BY <1>3 DEF Black
    <2>4. CASE m = p /\ e = d
      <3>1. t.child[e][m] = node /\ r.child[e][m] = c
        BY <1>3, <1>4, <2>1, <2>4
      <3>2. bh[m] = bh[node] + Black(r, m)
        BY <1>9, <2>2, <2>3, <3>1
      <3> HIDE DEF c, p, d
      <3>3. CASE t.red[node]
        BY <1>9, <2>3, <2>4, <3>1, <3>2, <3>3
      <3>4. CASE ~ t.red[node]
        BY <1>9, <2>3, <2>4, <3>1, <3>2, <3>4
      <3> QED  BY <3>3, <3>4
    <2>5. CASE ~ (m = p /\ e = d)
      <3>1. r.child[e][m] = t.child[e][m]
        BY <1>3, <2>1, <2>5
      <3> HIDE DEF c, p, d
      <3> QED  BY <2>2, <2>3, <2>5, <3>1
    <2> QED  BY <2>4, <2>5
  <1>11. ASSUME NEW m \in M2, r.red[m], m # c
         PROVE  r.parent[m] # NULL /\ ~ r.red[r.parent[m]]
    <2>1. m \in M /\ m \in Node /\ m # NULL /\ t.red[m] /\ r.parent[m] = t.parent[m]
      BY <1>1, <1>3, <1>11
    <2>2. t.parent[m] # NULL /\ ~ t.red[t.parent[m]]
      BY <2>1 DEF Reds
    <2> QED  BY <1>3, <2>1, <2>2
  <1>12. CASE t.red[node]
    <2>1. Even(r, M2, bh, NULL, "left")
      <3>1. ASSUME NEW m \in M2, NEW e \in Side
            PROVE  bh[m] = bh[r.child[e][m]] + Black(r, m) + Lack(m, e, NULL, "left")
        <4>1. Lack(m, e, NULL, "left") = 0
          BY <1>1 DEF Lack
        <4>2. bh[m] = bh[r.child[e][m]] + Black(r, m) + 0
          BY <1>10, <1>12
        <4> QED  BY <4>1, <4>2
      <3> QED  BY <1>8, <3>1 DEF Even
    <2>2. c # NULL => ~ r.red[c]
      <3>1. c # NULL => ~ t.red[c]
        BY <1>1, <1>6, <1>12 DEF Reds
      <3> QED  BY <1>3, <3>1
    <2>3. Reds(r, M2, NULL)
      <3> HIDE DEF c
      <3>1. \A m \in M2 : r.red[m] => m # c
        BY <1>1, <2>2
      <3> QED  BY <1>11, <3>1 DEF Reds
    <2>4. Balanced(r, M2, sub2, bh)
      BY <1>2, <2>1, <2>3 DEF Balanced
    <2> QED  BY <1>12, <2>4 DEF sub2
  <1>13. CASE ~ t.red[node]
    <2>1. Even(r, M2, bh, p, d)
      <3>1. ASSUME NEW m \in M2, NEW e \in Side
            PROVE  bh[m] = bh[r.child[e][m]] + Black(r, m) + Lack(m, e, p, d)
        <4>1. Lack(m, e, p, d) = IF m = p /\ e = d /\ ~ t.red[node] THEN 1 ELSE 0
          BY <1>13 DEF Lack
        <4> HIDE DEF p, d
        <4> QED  BY <1>10, <4>1
      <3> HIDE DEF p, d
      <3> QED  BY <1>8, <3>1 DEF Even
    <2>2. Reds(r, M2, c)
      BY <1>11 DEF Reds
    <2>3. IF p = NULL THEN c = r.root ELSE p \in M2 /\ d \in Side /\ r.child[d][p] = c
      <3> HIDE DEF p, d, c
      <3> QED  BY <1>1, <1>3, <1>4, <1>5
    <2> HIDE DEF p, d, c
    <2>4. Erasing(r, M2, sub2, bh, c, p, d)
      BY <1>2, <2>1, <2>2, <2>3 DEF Erasing
    <2> QED  BY <1>13, <2>4 DEF sub2, p, d, c
  <1> QED  BY <1>12, <1>13

(* A node that takes the place and the colour of another counts as much. *)
LEMMA PlacedColours ==
    ASSUME NEW t, NEW M, NEW sub, Shape(t, M, sub), NEW old \in M, NEW new \in Node \ M,
           NEW r, Placed(t, old, new, r), NEW bh, NEW x, NEW q \in M \cup {NULL}, NEW d,
           Even(t, M, bh, q, d), Reds(t, M, x), x # old
    PROVE  LET M2 == (M \ {old}) \cup {new}
           IN  /\ \E bh2 : Even(r, M2, bh2, IF q = old THEN new ELSE q, d)
               /\ Reds(r, M2, x)
  <1> DEFINE M2 == (M \ {old}) \cup {new}
             q2 == IF q = old THEN new ELSE q
             p == t.parent[old]
             bh2 == [n \in Ptr |-> IF n = new THEN bh[old] ELSE bh[n]]
  <1>1. /\ t \in Tree /\ M \in SUBSET Node /\ M \in SUBSET Ptr /\ NULL \notin M /\ NULL \in Ptr
    BY ShapeType DEF Ptr
  <1>2. new \in Ptr /\ new # NULL /\ new \notin M /\ new # old
    BY <1>1, NodeFacts DEF Ptr
  <1>3. bh \in [Ptr -> Nat] /\ bh[NULL] = 0
    BY DEF Even
  <1>4. bh2 \in [Ptr -> Nat] /\ bh2[NULL] = 0 /\ bh2[new] = bh[old] /\ \A n \in M \cup {NULL} : bh2[n] = bh[n]
    BY <1>1, <1>2, <1>3
  <1>5. p # NULL => p \in M /\ SideOf(t, p, old) \in Side /\ t.child[SideOf(t, p, old)][p] = old
    BY AboveFacts
  <1>6. p # old
    BY ParentFacts, Zenon
  <1>7. /\ r.parent[new] = p /\ (r.red[new] <=> t.red[old])
        /\ \A e \in Side : r.child[e][new] = t.child[e][old]
        /\ \A m \in M : r.red[m] <=> t.red[m]
    BY <1>1, <1>2 DEF Placed
  <1>8. \A m \in M \ {old} : \A e \in Side : r.child[e][m] = IF t.child[e][m] = old THEN new ELSE t.child[e][m]
    <2> TAKE m \in M \ {old}
    <2> TAKE e \in Side
    <2>1. r.child[e][m] = IF m = p /\ e = SideOf(t, p, old) THEN new ELSE t.child[e][m]
      BY <1>1, <1>2 DEF Placed
    <2>2. t.child[e][m] = old => m = t.parent[old] /\ e = SideOf(t, m, old)
      BY SideFound
    <2>3. m = p /\ e = SideOf(t, p, old) => t.child[e][m] = old
      BY <1>1, <1>5
    <2> HIDE DEF p
    <2> QED  BY <2>1, <2>2, <2>3 DEF p
  <1>9. \A m \in M \ {old} : r.parent[m] = IF t.parent[m] = old THEN new ELSE t.parent[m]
    <2> TAKE m \in M \ {old}
    <2>1. r.parent[m] = IF m = t.child["left"][old] \/ m = t.child["right"][old] THEN new ELSE t.parent[m]
      BY <1>1, <1>2 DEF Placed
    <2>2. t.parent[m] = old => m = t.child["left"][old] \/ m = t.child["right"][old]
      <3>1. "left" \in Side /\ Other("left") = "right"
        BY DEF Side, Other
      <3> QED  BY <3>1, TwoChildren
    <2>3. m = t.child["left"][old] \/ m = t.child["right"][old] => t.parent[m] = old
      <3>1. "left" \in Side /\ "right" \in Side
        BY DEF Side
      <3> QED  BY <1>1, <3>1, ChildFacts
    <2> QED  BY <2>1, <2>2, <2>3
  <1> HIDE DEF bh2
  <1>10. ASSUME NEW m \in M2, NEW e \in Side
         PROVE  bh2[m] = bh2[r.child[e][m]] + Black(r, m) + Lack(m, e, q2, d)
    <2>1. CASE m = new
      <3>1. bh[old] = bh[t.child[e][old]] + Black(t, old) + Lack(old, e, q, d)
        BY EvenFacts
      <3>2. Black(r, new) = Black(t, old)
        BY <1>7 DEF Black
      <3>3. Lack(new, e, q2, d) = Lack(old, e, q, d)
        BY <1>2 DEF Lack
      <3>4. r.child[e][new] = t.child[e][old] /\ t.child[e][old] \in M \cup {NULL}
        BY <1>7, ShapeType
      <3>5. bh2[new] = bh[old] /\ bh2[r.child[e][new]] = bh[t.child[e][old]]
        BY <1>4, <3>4
      <3> QED  BY <2>1, <3>1, <3>2, <3>3, <3>5
    <2>2. CASE m # new
      <3>0. m \in M /\ m # old
        BY <2>2
      <3>1. bh[m] = bh[t.child[e][m]] + Black(t, m) + Lack(m, e, q, d)
        BY <3>0, EvenFacts
      <3>2. Black(r, m) = Black(t, m)
        BY <1>7, <3>0 DEF Black
      <3>3. Lack(m, e, q2, d) = Lack(m, e, q, d)
        BY <2>2, <3>0 DEF Lack
      <3>4. t.child[e][m] \in M \cup {NULL} /\ r.child[e][m] = IF t.child[e][m] = old THEN new ELSE t.child[e][m]
        BY <1>8, <3>0, ShapeType
      <3>5. bh2[m] = bh[m] /\ bh2[r.child[e][m]] = bh[t.child[e][m]]
        BY <1>4, <3>0, <3>4
      <3> QED  BY <3>1, <3>2, <3>3, <3>5
    <2> QED  BY <2>1, <2>2
  <1>11. Even(r, M2, bh2, q2, d)
    <2> HIDE DEF q2, M2
    <2> QED  BY <1>4, <1>10 DEF Even
  <1>12. ASSUME NEW m \in M2, r.red[m], m # x
         PROVE  r.parent[m] # NULL /\ (r.parent[m] = x \/ ~ r.red[r.parent[m]])
    <2>1. CASE m = new
      <3>1. t.red[old] /\ r.parent[m] = t.parent[old]
        BY <1>7, <1>12, <2>1
      <3>2. t.parent[old] # NULL /\ (t.parent[old] = x \/ ~ t.red[t.parent[old]])
        BY <3>1 DEF Reds
      <3>3. t.parent[old] \in M
        BY <3>2, AboveFacts
      <3> QED  BY <1>7, <3>1, <3>2, <3>3
    <2>2. CASE m # new
      <3>1. m \in M \ {old}
        BY <2>2
      <3>2. t.red[m]
        BY <1>7, <1>12, <3>1
      <3>3. t.parent[m] # NULL /\ (t.parent[m] = x \/ ~ t.red[t.parent[m]])
        BY <1>12, <3>1, <3>2 DEF Reds
      <3>4. r.parent[m] = IF t.parent[m] = old THEN new ELSE t.parent[m]
        BY <1>9, <3>1
      <3>5. CASE t.parent[m] = old
        <4>1. ~ t.red[old] /\ r.parent[m] = new
          BY <3>3, <3>4, <3>5
        <4> QED  BY <1>2, <1>7, <4>1
      <3>6. CASE t.parent[m] # old
        <4>1. t.parent[m] \in M
          BY <3>1, <3>3, AboveFacts
        <4> QED  BY <1>7, <3>3, <3>4, <3>6, <4>1
      <3> QED  BY <3>5, <3>6
    <2> QED  BY <2>1, <2>2
  <1>13. Reds(r, M2, x)
    <2> HIDE DEF M2
    <2> QED  BY <1>12 DEF Reds
  <1> QED  BY <1>11, <1>13

(* The same for the pointers of a removal that is not finished. *)
LEMMA PlacedErasing ==
    ASSUME NEW t, NEW M, NEW sub, NEW bh, NEW x, NEW q, NEW d, Erasing(t, M, sub, bh, x, q, d),
           NEW old \in M, NEW new \in Node \ M, Adjacent(M, old, Key(new)),
           NEW r, Placed(t, old, new, r), x # old
    PROVE  \E sub2, bh2 : Erasing(r, (M \ {old}) \cup {new}, sub2, bh2, x, IF q = old THEN new ELSE q, d)
  <1> DEFINE M2 == (M \ {old}) \cup {new}
             q2 == IF q = old THEN new ELSE q
             p == t.parent[old]
  <1>1. /\ Shape(t, M, sub) /\ Even(t, M, bh, q, d) /\ Reds(t, M, x)
        /\ IF q = NULL THEN x = t.root ELSE q \in M /\ d \in Side /\ t.child[d][q] = x
    BY DEF Erasing
  <1>2. q \in M \cup {NULL} /\ NULL \notin M /\ M \in SUBSET Node /\ new # NULL
    BY <1>1, ShapeType, NodeFacts
  <1>3. Shape(r, M2, PlacedSub(sub, old, new))
    BY <1>1, TakePlaceShape
  <1>4. (\E bh2 : Even(r, M2, bh2, q2, d)) /\ Reds(r, M2, x)
    BY <1>1, <1>2, PlacedColours
  <1>5. IF q2 = NULL THEN x = r.root ELSE q2 \in M2 /\ d \in Side /\ r.child[d][q2] = x
    <2>1. CASE q = NULL
      <3>1. q2 = NULL /\ x = t.root
        BY <1>1, <1>2, <2>1
      <3>2. p # NULL
        BY <1>1, <3>1, RootFacts
      <3>3. r.root = t.root
        BY <3>2 DEF Placed
      <3> QED  BY <3>1, <3>3
    <2>2. CASE q = old
      <3>1. q2 = new /\ d \in Side /\ t.child[d][old] = x
        BY <1>1, <1>2, <2>2
      <3>2. r.child[d][new] = t.child[d][old]
        BY <3>1 DEF Placed
      <3> QED  BY <1>2, <3>1, <3>2
    <2>3. CASE q # NULL /\ q # old
      <3>1. q2 = q /\ q \in M \ {old} /\ d \in Side /\ t.child[d][q] = x /\ q # new /\ q \in Node
        BY <1>1, <1>2, <2>3
      <3>2. r.child[d][q] = IF q = p /\ d = SideOf(t, p, old) THEN new ELSE t.child[d][q]
        BY <3>1 DEF Placed
      <3>3. p # NULL => p \in M /\ SideOf(t, p, old) \in Side /\ t.child[SideOf(t, p, old)][p] = old
        BY <1>1, AboveFacts
      <3> HIDE DEF p
      <3>4. ~ (q = p /\ d = SideOf(t, p, old))
        BY <2>3, <3>1, <3>3
      <3>5. r.child[d][q] = x
        BY <3>1, <3>2, <3>4
      <3> QED  BY <2>3, <3>1, <3>5
    <2> QED  BY <2>1, <2>2, <2>3
  <1> HIDE DEF M2, q2
  <1>6. \E sub2, bh2 : Erasing(r, M2, sub2, bh2, x, q2, d)
    BY <1>3, <1>4, <1>5 DEF Erasing
  <1> QED  BY <1>6 DEF M2, q2

(* rb_erase of a node with at most one child. *)
LEMMA EraseOuterGood ==
    ASSUME NEW t, NEW M, NEW b \in BOOLEAN, Good(t, M, b), NEW node \in M, NEW s \in Side,
           t.child[Other(s)][node] = NULL
    PROVE  Good(EraseOuter(t, node), M \ {node}, b)
  <1> DEFINE M2 == M \ {node}
             c == t.child[s][node]
             p == t.parent[node]
             r == Splice(t, node)
             d == SideOf(t, p, node)
  <1>1. PICK sub : Shape(t, M, sub) /\ Coloured(t, M, b)
    BY DEF Good
  <1>2. t \in Tree /\ M \in SUBSET Node /\ M \in SUBSET Ptr /\ NULL \in Ptr /\ node \in Node \ M2
    BY <1>1, ShapeType DEF Ptr
  <1>3. OnlyChild(t, node) = c
    BY DEF OnlyChild, Side, Other
  <1>4. Spliced(t, node, c, r)
    BY <1>2, <1>3, SpliceFields
  <1>5. EraseOuter(t, node) = IF t.red[node] THEN r ELSE EraseColor(r, c, p)
    BY <1>3 DEF EraseOuter
  <1>6. p \in Ptr
    BY <1>2 DEF Tree
  <1> HIDE DEF r
  <1>7. Shape(r, M2, SplicedSub(sub, node)) /\ r.red = t.red
    BY <1>1, <1>4, SpliceShape DEF Spliced
  <1>8. CASE b = FALSE
    <2>1. \A n \in M : t.red[n]
      BY <1>1, <1>8 DEF Coloured
    <2>2. Coloured(r, M2, b)
      BY <1>7, <1>8, <2>1 DEF Coloured
    <2>3. EraseOuter(t, node) = r
      BY <1>5, <2>1
    <2> QED  BY <1>7, <2>2, <2>3 DEF Good
  <1>9. CASE b = TRUE
    <2>1. PICK bh : Even(t, M, bh, NULL, "left") /\ Reds(t, M, NULL)
      BY <1>1, <1>9 DEF Coloured
    <2>2. IF t.red[node] THEN Balanced(r, M2, SplicedSub(sub, node), bh)
          ELSE Erasing(r, M2, SplicedSub(sub, node), bh, c, p, d)
      BY <1>1, <1>4, <2>1, SpliceColours
    <2> HIDE DEF M2, c, p, d
    <2>3. CASE t.red[node]
      <3>1. Balanced(r, M2, SplicedSub(sub, node), bh)
        BY <2>2, <2>3
      <3>2. Good(r, M2, b)
        BY <1>9, <3>1, GoodBalanced
      <3>3. EraseOuter(t, node) = r
        BY <1>5, <2>3
      <3> QED  BY <3>2, <3>3 DEF M2
    <2>4. CASE ~ t.red[node]
      <3>1. \E sub2, bh2 : Balanced(EraseColor(r, c, p), M2, sub2, bh2)
        BY <1>2, <1>6, <2>2, <2>4, EraseColorFacts
      <3>2. Good(EraseColor(r, c, p), M2, b)
        BY <1>9, <3>1, GoodBalanced
      <3>3. EraseOuter(t, node) = EraseColor(r, c, p)
        BY <1>5, <2>4
      <3> QED  BY <3>2, <3>3 DEF M2
    <2> QED  BY <2>3, <2>4
  <1> QED  BY <1>8, <1>9

(* rb_erase of a node with two children. *)
LEMMA EraseInnerGood ==
    ASSUME NEW t, NEW M, NEW b \in BOOLEAN, Good(t, M, b), NEW old \in M,
           t.child["right"][old] # NULL
    PROVE  Good(EraseInner(t, old), M \ {old}, b)
  <1> DEFINE f == Furthest(t, t.child["right"][old], "left")
             c == t.child["right"][f]
             q == t.parent[f]
             q2 == IF q = old THEN f ELSE q
             d == SideOf(t, q, f)
             r == Splice(t, f)
             t1 == TakePlace(r, old, f)
             M1 == M \ {f}
             M2 == (M1 \ {old}) \cup {f}
  <1>0. "left" \in Side /\ "right" \in Side /\ Other("right") = "left"
    BY DEF Side, Other
  <1>1. PICK sub : Shape(t, M, sub) /\ Coloured(t, M, b)
    BY DEF Good
  <1> DEFINE sub1 == SplicedSub(sub, f)
  <1>2. t \in Tree /\ M \in SUBSET Node /\ M \in SUBSET Ptr /\ NULL \in Ptr /\ NULL \notin M
          /\ \A n \in M : Key(n) \in Int
    BY <1>1, ShapeType DEF Ptr
  <1>3. EraseInner(t, old) = IF t.red[f] THEN t1 ELSE EraseColor(t1, c, q2)
    BY DEF EraseInner
  <1>4. Neighbour(M, old, f, "right") /\ f # old /\ t.child["left"][f] = NULL /\ f \in sub[t.child["right"][old]]
    BY <1>0, <1>1, BelowFacts
  <1> HIDE DEF f
  <1>5. f \in M /\ f \in Node \ M1 /\ old \in M1 /\ M2 = M \ {old} /\ old \in Node \ M2
    BY <1>2, <1>4 DEF Neighbour
  <1>6. c # old
    <2>1. f \in sub[old]
      <3>1. sub[t.child["right"][old]] \subseteq sub[old]
        BY <1>0, <1>1, ChildFacts
      <3> QED  BY <1>4, <3>1
    <2>2. t.parent[old] \notin sub[old]
      BY <1>1, ParentFacts, Zenon
    <2>3. c # NULL => t.parent[c] = f
      BY <1>0, <1>1, <1>5, ChildFacts
    <2> QED  BY <1>2, <2>1, <2>2, <2>3
  <1>7. Adjacent(M1, old, Key(f))
    <2>1. ASSUME NEW m \in M1 \ {old}, NEW e \in Side, Beyond(e, Key(old), Key(m))
          PROVE  Beyond(e, Key(f), Key(m))
      <3>1. m \in M \ {f} /\ Key(m) \in Int /\ Key(f) \in Int /\ Key(old) \in Int
        BY <1>2, <1>5
      <3>2. Beyond("right", Key(f), Key(old))
              /\ (Beyond("right", Key(m), Key(old)) => Beyond("right", Key(m), Key(f)))
        BY <1>4, <3>1 DEF Neighbour
      <3>3. e = "left" \/ e = "right"
        BY DEF Side
      <3> QED  BY <2>1, <3>1, <3>2, <3>3 DEF Beyond
    <2> QED  BY <2>1 DEF Adjacent
  <1>8. OnlyChild(t, f) = c
    BY <1>4 DEF OnlyChild
  <1>9. Spliced(t, f, c, r) /\ t.child[Other("right")][f] = NULL
    BY <1>0, <1>2, <1>4, <1>5, <1>8, SpliceFields
  <1>10. q \in Ptr /\ q2 \in Ptr
    BY <1>2, <1>5 DEF Tree
  <1> HIDE DEF r
  <1>11. Shape(r, M1, sub1) /\ r.red = t.red
    BY <1>0, <1>1, <1>5, <1>9, SpliceShape DEF Spliced
  <1> HIDE DEF sub1
  <1>12. Placed(r, old, f, t1)
    <2>1. r \in Tree
      BY <1>11, ShapeType
    <2>2. r.parent[old] # old
      <3>1. Shape(r, M1, sub1) /\ old \in M1
        BY <1>5, <1>11
      <3> HIDE DEF M1
      <3> QED  BY <3>1, ParentFacts, Zenon
    <2>3. \A e \in Side : r.child[e][old] # old
      BY <1>5, <1>11, ChildFacts
    <2> QED  BY <1>2, <1>4, <1>5, <2>1, <2>2, <2>3, TakePlaceFields
  <1> HIDE DEF t1
  <1>13. Shape(t1, M2, PlacedSub(sub1, old, f))
    BY <1>5, <1>7, <1>11, <1>12, TakePlaceShape
  <1>14. CASE b = FALSE
    <2>1. \A n \in M : t.red[n]
      BY <1>1, <1>14 DEF Coloured
    <2>2. \A m \in Node : t1.red[m] = IF m = f THEN t.red[old] ELSE t.red[m]
      BY <1>11, <1>12 DEF Placed
    <2>3. \A m \in M2 : t1.red[m]
      BY <1>2, <1>5, <2>1, <2>2
    <2>4. Coloured(t1, M2, b)
      BY <1>14, <2>3 DEF Coloured
    <2>5. EraseInner(t, old) = t1
      BY <1>3, <1>5, <2>1
    <2> QED  BY <1>5, <1>13, <2>4, <2>5 DEF Good
  <1>15. CASE b = TRUE
    <2>1. PICK bh : Even(t, M, bh, NULL, "left") /\ Reds(t, M, NULL)
      BY <1>1, <1>15 DEF Coloured
    <2>2. IF t.red[f] THEN Balanced(r, M1, sub1, bh) ELSE Erasing(r, M1, sub1, bh, c, q, d)
      BY <1>0, <1>1, <1>5, <1>9, <2>1, SpliceColours DEF sub1
    <2>3. CASE t.red[f]
      <3>1. Even(r, M1, bh, NULL, "left") /\ Reds(r, M1, NULL)
        BY <2>2, <2>3 DEF Balanced
      <3>2. (IF NULL = old THEN f ELSE NULL) = NULL /\ NULL # old
        BY <1>2
      <3>3. (\E bh2 : Even(t1, M2, bh2, IF NULL = old THEN f ELSE NULL, "left")) /\ Reds(t1, M2, NULL)
        BY <1>5, <1>11, <1>12, <3>1, <3>2, PlacedColours
      <3>4. Coloured(t1, M2, b)
        BY <1>15, <3>2, <3>3 DEF Coloured
      <3>5. EraseInner(t, old) = t1
        BY <1>3, <2>3
      <3> QED  BY <1>5, <1>13, <3>4, <3>5 DEF Good
    <2>4. CASE ~ t.red[f]
      <3> HIDE DEF c, q, d
      <3>0. Erasing(r, M1, sub1, bh, c, q, d)
        BY <2>2, <2>4
      <3> HIDE DEF M1
      <3>1. \E sub2, bh2 : Erasing(t1, M2, sub2, bh2, c, q2, d)
        BY <1>5, <1>6, <1>7, <1>12, <3>0, PlacedErasing
      <3> HIDE DEF M2, q2
      <3>2. \E sub2, bh2 : Balanced(EraseColor(t1, c, q2), M2, sub2, bh2)
        BY <1>5, <1>10, <3>1, EraseColorFacts
      <3> QED  BY <1>3, <1>5, <1>15, <2>4, <3>2, GoodBalanced
    <2> QED  BY <2>3, <2>4
  <1> QED  BY <1>14, <1>15

(* rb_erase *)
LEMMA EraseGood ==
    ASSUME NEW t, NEW M, NEW b \in BOOLEAN, Good(t, M, b), NEW node \in M
    PROVE  Good(Erase(t, node), M \ {node}, b)
  <1> DEFINE M2 == M \ {node}
  <1>1. PICK sub : Shape(t, M, sub)
    BY DEF Good
  <1>2. node \in Node \ M2
    BY <1>1, ShapeType
  <1>3. CASE NULL \in {t.child[s][node] : s \in Side}
    <2>1. PICK s \in Side : t.child[Other(s)][node] = NULL
      BY <1>3, SideFacts
    <2>2. Good(EraseOuter(t, node), M2, b)
      BY <2>1, EraseOuterGood
    <2>3. Erase(t, node) = Forget(EraseOuter(t, node), node)
      BY <1>3 DEF Erase
    <2> QED  BY <1>2, <2>2, <2>3, ForgetGood
  <1>4. CASE NULL \notin {t.child[s][node] : s \in Side}
    <2>1. t.child["right"][node] # NULL
      BY <1>4 DEF Side
    <2>2. Good(EraseInner(t, node), M2, b)
      BY <2>1, EraseInnerGood
    <2>3. Erase(t, node) = Forget(EraseInner(t, node), node)
      BY <1>4 DEF Erase
    <2> QED  BY <1>2, <2>2, <2>3, ForgetGood
  <1> QED  BY <1>3, <1>4

(* rb_replace_node *)
LEMMA ReplaceGood ==
    ASSUME NEW t, NEW M, NEW b \in BOOLEAN, Good(t, M, b), NEW old \in M, NEW new \in Node \ M,
           Key(old) = Key(new)
    PROVE  Good(ReplaceNode(t, old, new), (M \ {old}) \cup {new}, b)
  <1> DEFINE M2 == (M \ {old}) \cup {new}
             r == TakePlace(t, old, new)
  <1>1. PICK sub : Shape(t, M, sub) /\ Coloured(t, M, b)
    BY DEF Good
  <1>2. t \in Tree /\ M \in SUBSET Node /\ NULL \notin M /\ old \in Node \ M2 /\ old # new
    BY <1>1, ShapeType
  <1>3. Placed(t, old, new, r)
    <2>1. t.parent[old] # old
      BY <1>1, ParentFacts, Zenon
    <2>2. \A e \in Side : t.child[e][old] # old
      BY <1>1, ChildFacts
    <2> QED  BY <1>2, <2>1, <2>2, TakePlaceFields
  <1>4. Adjacent(M, old, Key(new))
    BY DEF Adjacent
  <1> HIDE DEF r
  <1>5. Shape(r, M2, PlacedSub(sub, old, new))
    BY <1>1, <1>3, <1>4, TakePlaceShape
  <1>6. Coloured(r, M2, b)
    <2>1. CASE b = FALSE
      <3>1. \A n \in M : t.red[n]
        BY <1>1, <2>1 DEF Coloured
      <3>2. \A m \in Node : r.red[m] = IF m = new THEN t.red[old] ELSE t.red[m]
        BY <1>3 DEF Placed
      <3>3. \A m \in M2 : r.red[m]
        BY <1>2, <3>1, <3>2
      <3> QED  BY <2>1, <3>3 DEF Coloured
    <2>2. CASE b = TRUE
      <3>1. PICK bh : Even(t, M, bh, NULL, "left") /\ Reds(t, M, NULL)
        BY <1>1, <2>2 DEF Coloured
      <3>2. (IF NULL = old THEN new ELSE NULL) = NULL /\ NULL # old
        BY <1>2
      <3>3. (\E bh2 : Even(r, M2, bh2, IF NULL = old THEN new ELSE NULL, "left")) /\ Reds(r, M2, NULL)
        BY <1>1, <1>3, <3>1, <3>2, PlacedColours
      <3> QED  BY <2>2, <3>2, <3>3 DEF Coloured
    <2> QED  BY <2>1, <2>2
  <1>7. Good(r, M2, b)
    BY <1>5, <1>6 DEF Good
  <1> QED  BY <1>2, <1>7, ForgetGood DEF ReplaceNode, r

(* A place below p, on side s, where a node with key k belongs. *)
FreePlace(t, M, p, s, k) ==
    IF p = NULL THEN t.root = NULL
    ELSE t.child[s][p] = NULL /\ Beyond(s, k, Key(p)) /\ Adjacent(M, p, k)

(* A new red leaf may have a red parent, and nothing else is wrong. *)
LEMMA LinkColours ==
    ASSUME NEW t, NEW M, NEW sub, Shape(t, M, sub), NEW bh, Even(t, M, bh, NULL, "left"), Reds(t, M, NULL),
           NEW node \in Node \ M, NEW s \in Side, NEW p \in M \cup {NULL},
           FreePlace(t, M, p, s, Key(node)), NEW r, Linked(t, node, p, s, r)
    PROVE  \E sub2, bh2 : Inserting(r, M \cup {node}, sub2, bh2, node)
  <1> DEFINE M2 == M \cup {node}
             sub2 == LinkedSub(sub, node, p)
             bh2 == [n \in Ptr |-> IF n = node THEN 0 ELSE bh[n]]
  <1>1. /\ M \in SUBSET Node /\ M \in SUBSET Ptr /\ NULL \notin M /\ NULL \in Ptr
        /\ node \notin M /\ node \in Ptr /\ node # NULL
    BY ShapeType, NodeFacts DEF Ptr
  <1>2. Shape(r, M2, sub2)
    BY LinkShape DEF FreePlace
  <1>3. bh \in [Ptr -> Nat] /\ bh[NULL] = 0
    BY DEF Even
  <1>4. bh2 \in [Ptr -> Nat] /\ bh2[NULL] = 0 /\ bh2[node] = 0 /\ \A n \in Ptr : n # node => bh2[n] = bh[n]
    BY <1>1, <1>3
  <1>5. /\ \A m \in M : r.parent[m] = t.parent[m] /\ (r.red[m] <=> t.red[m])
        /\ r.red[node]
    BY <1>1 DEF Linked
  <1>6. /\ \A q \in Side : r.child[q][node] = NULL
        /\ \A m \in M : \A q \in Side : r.child[q][m] = IF m = p /\ q = s THEN node ELSE t.child[q][m]
    BY <1>1 DEF Linked
  <1> HIDE DEF bh2, sub2
  <1>7. ASSUME NEW n \in M2, NEW e \in Side
        PROVE  bh2[n] = bh2[r.child[e][n]] + Black(r, n) + Lack(n, e, NULL, "left")
    <2>0. n # NULL /\ Lack(n, e, NULL, "left") = 0
      BY <1>1 DEF Lack
    <2>1. CASE n = node
      <3>1. bh2[n] = 0 /\ bh2[r.child[e][n]] = 0
        BY <1>4, <1>6, <2>1
      <3>2. Black(r, n) = 0
        BY <1>5, <2>1 DEF Black
      <3> QED  BY <2>0, <3>1, <3>2
    <2>2. CASE n # node
      <3> DEFINE c == t.child[e][n]
      <3>1. n \in M /\ n \in Ptr
        BY <1>1, <2>2
      <3>2. bh[n] \in Nat /\ bh[c] \in Nat /\ bh[n] = bh[c] + Black(t, n) + Lack(n, e, NULL, "left")
        BY <3>1, EvenFacts
      <3>3. c \in M \cup {NULL} /\ c \in Ptr /\ c # node
        <4>1. c \in M \cup {NULL} /\ c \in Ptr
          BY <3>1, ShapeType
        <4> HIDE DEF c
        <4> QED  BY <1>1, <4>1
      <3>4. Black(r, n) = Black(t, n)
        BY <1>5, <3>1 DEF Black
      <3>5. bh2[n] = bh[n]
        BY <1>4, <2>2, <3>1
      <3>6. bh2[r.child[e][n]] = bh[c]
        <4>1. CASE n = p /\ e = s
          <5>1. c = NULL
            BY <1>1, <3>1, <4>1 DEF FreePlace
          <5>2. r.child[e][n] = node
            BY <1>6, <3>1, <4>1
          <5> QED  BY <1>3, <1>4, <5>1, <5>2
        <4>2. CASE ~ (n = p /\ e = s)
          <5>1. r.child[e][n] = c
            BY <1>6, <3>1, <4>2
          <5> HIDE DEF c
          <5> QED  BY <1>4, <3>3, <5>1
        <4> QED  BY <4>1, <4>2
      <3> HIDE DEF c
      <3> QED  BY <3>2, <3>4, <3>5, <3>6
    <2> QED  BY <2>1, <2>2
  <1>8. Even(r, M2, bh2, NULL, "left")
    BY <1>4, <1>7 DEF Even
  <1>9. ASSUME NEW n \in M2 \ {node}, r.red[n] PROVE r.parent[n] # NULL /\ ~ r.red[r.parent[n]]
    <2>1. n \in M /\ t.red[n] /\ n # NULL /\ r.parent[n] = t.parent[n]
      BY <1>1, <1>5, <1>9
    <2>2. t.parent[n] # NULL /\ ~ t.red[t.parent[n]]
      BY <2>1 DEF Reds
    <2>3. t.parent[n] \in M
      BY <2>1, <2>2, AboveFacts
    <2> QED  BY <1>5, <2>1, <2>2, <2>3
  <1>10. RedBut(r, M2, node)
    BY <1>9 DEF RedBut
  <1>11. Inserting(r, M2, sub2, bh2, node)
    BY <1>2, <1>5, <1>8, <1>10 DEF Inserting
  <1> QED  BY <1>11

(* rb_link_node, and rb_insert_color if the tree is balanced. *)
LEMMA LinkGood ==
    ASSUME NEW t, NEW M, NEW b \in BOOLEAN, Good(t, M, b), NEW node \in Node \ M, NEW s \in Side,
           NEW p \in M \cup {NULL}, FreePlace(t, M, p, s, Key(node))
    PROVE  LET linked == Link(t, node, p, s)
           IN  Good(IF b THEN InsertColor(linked, node) ELSE linked, M \cup {node}, b)
  <1> DEFINE M2 == M \cup {node}
             r == Link(t, node, p, s)
  <1>1. PICK sub : Shape(t, M, sub) /\ Coloured(t, M, b)
    BY DEF Good
  <1>2. t \in Tree /\ M \in SUBSET Node /\ p \in Ptr /\ p # node
    BY <1>1, ShapeType, NodeFacts DEF Ptr
  <1>3. Linked(t, node, p, s, r)
    BY <1>2, LinkFields
  <1> HIDE DEF r
  <1>4. CASE b = FALSE
    <2>1. Shape(r, M2, LinkedSub(sub, node, p))
      BY <1>1, <1>3, LinkShape DEF FreePlace
    <2>2. \A n \in M2 : r.red[n]
      <3>1. \A n \in M : t.red[n]
        BY <1>1, <1>4 DEF Coloured
      <3>2. \A n \in Node : r.red[n] = IF n = node THEN TRUE ELSE t.red[n]
        BY <1>3 DEF Linked
      <3> QED  BY <1>2, <3>1, <3>2
    <2>3. Good(r, M2, b)
      BY <1>4, <2>1, <2>2 DEF Good, Coloured
    <2> QED  BY <1>4, <2>3 DEF r
  <1>5. CASE b = TRUE
    <2>1. PICK bh : Even(t, M, bh, NULL, "left") /\ Reds(t, M, NULL)
      BY <1>1, <1>5 DEF Coloured
    <2>2. PICK sub2, bh2 : Inserting(r, M2, sub2, bh2, node)
      BY <1>1, <1>3, <2>1, LinkColours
    <2> HIDE DEF M2
    <2>3. \E sub3, bh3 : Balanced(InsertColor(r, node), M2, sub3, bh3)
      BY <2>2, InsertColorFacts
    <2>4. Good(InsertColor(r, node), M2, b)
      BY <1>5, <2>3, GoodBalanced
    <2> QED  BY <1>5, <2>4 DEF r, M2
  <1> QED  BY <1>4, <1>5

(* f4op_add: a new id goes where the search for it ended. *)
LEMMA AddGood ==
    ASSUME NEW t, NEW M, NEW b \in BOOLEAN, Good(t, M, b), NEW op \in Node,
           f4op_find(t, Key(op)) = NULL
    PROVE  LET parent == Descend(t, Key(op))
               linked == Link(t, op, parent, Toward(Key(op), parent))
           IN  Good(IF b THEN InsertColor(linked, op) ELSE linked, M \cup {op}, b)
  <1> DEFINE k == Key(op)
             p == Descend(t, k)
             s == Toward(k, p)
  <1>1. PICK sub : Shape(t, M, sub)
    BY DEF Good
  <1>2. k \in Int
    BY NodeFacts
  <1>3. op \notin M
    <2>1. \A m \in M : Key(m) # k
      BY <1>1, <1>2, FindFacts
    <2> QED  BY <2>1
  <1>4. s \in Side
    BY DEF Toward, Side
  <1>5. p # NULL => Key(p) # k
    BY DEF f4op_find
  <1>6. p \in M \cup {NULL} /\ FreePlace(t, M, p, s, k)
    <2>1. IF p = NULL THEN M = {} /\ t.root = NULL
          ELSE /\ p \in M /\ Adjacent(M, p, k)
               /\ Key(p) # k => /\ Toward(k, p) \in Side /\ t.child[Toward(k, p)][p] = NULL
                                /\ Beyond(Toward(k, p), k, Key(p))
      BY <1>1, <1>2, DescendFacts
    <2> HIDE DEF p, k
    <2> QED  BY <1>5, <2>1 DEF FreePlace
  <1> HIDE DEF p, s
  <1>7. Good(IF b THEN InsertColor(Link(t, op, p, s), op) ELSE Link(t, op, p, s), M \cup {op}, b)
    BY <1>3, <1>4, <1>6, LinkGood DEF k
  <1> QED  BY <1>7 DEF p, s, k

-----------------------------------------------------------------------------
(* f4op_free_ctx *)

(* The walk has freed the nodes of M before rest, in order, and erased them. *)
FreeState == [tree : Tree, next : Ptr, freed : Seq(Node)]
Freeing(at, M, b, rest) ==
    /\ rest \in SUBSET M /\ Good(at.tree, rest, b) /\ at.next = End(at.tree, "left")
    /\ R!Ordered(M \ rest, at.freed)
    /\ \A i \in DOMAIN at.freed : \A m \in rest : Key(at.freed[i]) < Key(m)

(* rb_first comes to the node with the least key. *)
LEMMA FirstFacts ==
    ASSUME NEW t, NEW M, NEW sub, Shape(t, M, sub)
    PROVE  IF M = {} THEN End(t, "left") = NULL
           ELSE /\ End(t, "left") \in M
                /\ \A m \in M \ {End(t, "left")} : Key(End(t, "left")) < Key(m)
  <1>0. "left" \in Side
    BY DEF Side
  <1>1. M \in SUBSET Node /\ NULL \notin M /\ sub[t.root] = M /\ t.root \in M \cup {NULL} /\ sub[NULL] = {}
    BY ShapeType
  <1>2. CASE t.root = NULL
    BY <1>1, <1>2 DEF End
  <1>3. CASE t.root # NULL
    <2> DEFINE f == Furthest(t, t.root, "left")
    <2>1. f \in M /\ \A m \in M \ {f} : Beyond("left", Key(f), Key(m))
      BY <1>0, <1>1, <1>3, FurthestFacts
    <2>2. End(t, "left") = f
      BY <1>3 DEF End
    <2> HIDE DEF f
    <2> QED  BY <2>1, <2>2 DEF Beyond
  <1> QED  BY <1>2, <1>3

(* What Append does. *)
LEMMA AppendFacts ==
    ASSUME NEW S, NEW s \in Seq(S), NEW x \in S
    PROVE  /\ Append(s, x) \in Seq(S) /\ Len(s) \in Nat /\ DOMAIN s = 1 .. Len(s)
           /\ DOMAIN Append(s, x) = 1 .. Len(s) + 1
           /\ \A i \in DOMAIN s : Append(s, x)[i] = s[i]
           /\ Append(s, x)[Len(s) + 1] = x
  OBVIOUS

(* A turn frees the first of the rest, and comes to the next one. *)
LEMMA FreeTurnKeeps ==
    ASSUME NEW at \in FreeState, NEW M \in SUBSET Node, NEW b \in BOOLEAN, NEW rest,
           Freeing(at, M, b, rest), rest # {}
    PROVE  /\ at.next \in rest /\ FreeTurn(at) \in FreeState
           /\ Freeing(FreeTurn(at), M, b, rest \ {at.next})
  <1> DEFINE t == at.tree
             n == at.next
             s == at.freed
             to == FreeTurn(at)
             rest2 == rest \ {n}
             s2 == Append(s, n)
  <1>0. "left" \in Side /\ "right" \in Side /\ Other("right") = "left"
    BY DEF Side, Other
  <1>1. t \in Tree /\ n \in Ptr /\ s \in Seq(Node)
    BY DEF FreeState
  <1>2. rest \in SUBSET M /\ Good(t, rest, b) /\ n = End(t, "left") /\ R!Ordered(M \ rest, s)
          /\ \A i \in DOMAIN s : \A m \in rest : Key(s[i]) < Key(m)
    BY DEF Freeing
  <1>3. PICK sub : Shape(t, rest, sub)
    BY <1>2 DEF Good
  <1> HIDE DEF t, s
  <1>4. n \in rest /\ \A m \in rest \ {n} : Key(n) < Key(m)
    BY <1>2, <1>3, FirstFacts
  <1>5. n # NULL /\ n \in Node /\ \A m \in M : Key(m) \in Int
    BY <1>2, <1>4, NodeFacts
  <1> HIDE DEF n
  <1>6. to = [tree |-> Erase(t, n), next |-> Step(t, n, "right"), freed |-> s2]
    BY <1>5 DEF FreeTurn, t, n, s
  <1> HIDE DEF to
  <1>7. Good(Erase(t, n), rest2, b)
    BY <1>2, <1>4, EraseGood
  <1>8. PICK sub2 : Shape(Erase(t, n), rest2, sub2)
    BY <1>7 DEF Good
  <1>9. Step(t, n, "right") = End(Erase(t, n), "left")
    <2>1. {m \in rest : Beyond("right", Key(m), Key(n))} = rest2
      <3>1. \A m \in rest : Key(m) \in Int
        BY <1>2, <1>5
      <3>2. \A m \in rest : Beyond("right", Key(m), Key(n)) <=> m # n
        BY <1>4, <3>1 DEF Beyond
      <3> QED  BY <3>2
    <2>2. Step(t, n, "right") = Outermost({m \in rest : Beyond("right", Key(m), Key(n))}, "left")
      BY <1>0, <1>3, <1>4, StepFacts
    <2>3. End(Erase(t, n), "left") = Outermost(rest2, "left")
      BY <1>0, <1>8, EndFacts
    <2> QED  BY <2>1, <2>2, <2>3
  <1>10. Erase(t, n) \in Tree /\ Step(t, n, "right") \in Ptr
    <2>1. Erase(t, n) \in Tree /\ rest2 \in SUBSET Ptr
      BY <1>8, ShapeType
    <2>2. End(Erase(t, n), "left") \in rest2 \cup {NULL}
      BY <1>8, FirstFacts
    <2> QED  BY <1>9, <2>1, <2>2 DEF Ptr
  <1>11. /\ s2 \in Seq(Node) /\ Len(s) \in Nat /\ DOMAIN s = 1 .. Len(s) /\ DOMAIN s2 = 1 .. Len(s) + 1
         /\ (\A i \in DOMAIN s : s2[i] = s[i]) /\ s2[Len(s) + 1] = n
    BY <1>1, <1>5, AppendFacts
  <1> HIDE DEF s2
  <1>12. to \in FreeState
    BY <1>6, <1>10, <1>11 DEF FreeState
  <1>13. \A i, j \in DOMAIN s : i < j => Key(s[i]) < Key(s[j])
    BY <1>2 DEF R!Ordered
  <1>14. {s[i] : i \in DOMAIN s} = M \ rest
    BY <1>2 DEF R!Ordered
  <1>15. \A i \in DOMAIN s2 : i \in DOMAIN s \/ i = Len(s) + 1
    BY <1>11
  <1>16. \A i, j \in DOMAIN s2 : i < j => Key(s2[i]) < Key(s2[j])
    <2> SUFFICES ASSUME NEW i \in DOMAIN s2, NEW j \in DOMAIN s2, i < j PROVE Key(s2[i]) < Key(s2[j])
      OBVIOUS
    <2>1. i \in DOMAIN s
      BY <1>11
    <2>2. CASE j \in DOMAIN s
      BY <1>11, <1>13, <2>1, <2>2
    <2>3. CASE j = Len(s) + 1
      BY <1>2, <1>4, <1>11, <2>1, <2>3
    <2> QED  BY <1>15, <2>2, <2>3
  <1>17. {s2[i] : i \in DOMAIN s2} = M \ rest2
    <2>1. ASSUME NEW i \in DOMAIN s2 PROVE s2[i] \in M \ rest2
      <3>1. CASE i \in DOMAIN s
        BY <1>11, <1>14, <3>1
      <3>2. CASE i = Len(s) + 1
        BY <1>2, <1>4, <1>11, <3>2
      <3> QED  BY <1>15, <3>1, <3>2
    <2>2. ASSUME NEW m \in M \ rest2 PROVE \E i \in DOMAIN s2 : s2[i] = m
      <3>1. CASE m = n
        <4>1. Len(s) + 1 \in DOMAIN s2
          BY <1>11
        <4> QED  BY <1>11, <3>1, <4>1
      <3>2. CASE m # n
        <4>1. PICK i \in DOMAIN s : s[i] = m
          BY <1>14, <3>2
        <4>2. i \in DOMAIN s2
          BY <1>11
        <4> QED  BY <1>11, <4>1, <4>2
      <3> QED  BY <3>1, <3>2
    <2> QED  BY <2>1, <2>2
  <1>18. R!Ordered(M \ rest2, s2)
    BY <1>16, <1>17 DEF R!Ordered
  <1>19. \A i \in DOMAIN s2 : \A m \in rest2 : Key(s2[i]) < Key(m)
    <2> SUFFICES ASSUME NEW i \in DOMAIN s2, NEW m \in rest2 PROVE Key(s2[i]) < Key(m)
      OBVIOUS
    <2>1. CASE i \in DOMAIN s
      BY <1>2, <1>11, <2>1
    <2>2. CASE i = Len(s) + 1
      BY <1>4, <1>11, <2>2
    <2> QED  BY <1>15, <2>1, <2>2
  <1>20. to.tree = Erase(t, n) /\ to.next = Step(t, n, "right") /\ to.freed = s2
    BY <1>6
  <1>21. Freeing(to, M, b, rest2)
    <2>1. rest2 \in SUBSET M
      BY <1>2
    <2> HIDE DEF rest2
    <2> QED  BY <1>7, <1>9, <1>18, <1>19, <1>20, <2>1 DEF Freeing
  <1> QED  BY <1>4, <1>12, <1>21 DEF n, to

(* f4op_free_ctx frees every node once and in order, and leaves no tree. *)
LEMMA FreeCtxFacts ==
    ASSUME NEW t, NEW M, NEW b \in BOOLEAN, Good(t, M, b)
    PROVE  LET end == f4op_free_ctx(t)
           IN  Good(end.tree, {}, b) /\ R!Ordered(M, end.freed)
  <1> DEFINE N == MaxTurns
             start == [tree |-> t, next |-> End(t, "left"), freed |-> <<>>]
             loop[i \in 0 .. N] == IF i = 0 THEN start ELSE FreeTurn(loop[i - 1])
             Inv(at, i) == \E rest : /\ Freeing(at, M, b, rest)
                                     /\ rest = {} \/ Cardinality(rest) + i <= Cardinality(M)
             X == {at \in FreeState : \E rest : Freeing(at, M, b, rest)}
             turn == [i \in 1 .. N |-> [at \in X |-> FreeTurn(at)]]
             S == {i \in 0 .. N : loop[i] \in FreeState /\ Inv(loop[i], i)}
  <1>1. N \in Nat
    BY NodeFacts
  <1>2. f4op_free_ctx(t) = loop[N]
    BY DEF f4op_free_ctx
  <1>3. loop = CHOOSE h : h = [i \in 0 .. N |-> IF i = 0 THEN start ELSE FreeTurn(h[i - 1])]
    OBVIOUS
  <1>a. start.tree = t /\ start.next = End(t, "left") /\ start.freed = <<>>
    OBVIOUS
  <1>b. PICK sub : Shape(t, M, sub)
    BY DEF Good
  <1>d. /\ t \in Tree /\ M \in SUBSET Node /\ M \in SUBSET Ptr
        /\ IsFiniteSet(M) /\ Cardinality(M) \in Nat /\ Cardinality(M) <= N
    BY <1>b, ShapeType, SizeFacts
  <1>4. start \in FreeState
    <2>1. End(t, "left") \in Ptr
      BY <1>b, <1>d, FirstFacts DEF Ptr
    <2> QED  BY <1>d, <2>1 DEF FreeState
  <1> HIDE DEF start
  <1>5. Freeing(start, M, b, M)
    <2>1. R!Ordered(M \ M, start.freed)
      BY <1>a DEF R!Ordered
    <2> QED  BY <1>a, <2>1 DEF Freeing
  <1>c. start \in X /\ Inv(start, 0)
    BY <1>4, <1>5, <1>d
  <1>e. ASSUME NEW at \in FreeState, NEW rest, Freeing(at, M, b, rest), rest = {} PROVE FreeTurn(at) = at
    <2>1. Good(at.tree, {}, b) /\ at.next = End(at.tree, "left")
      BY <1>e DEF Freeing
    <2>2. PICK sub2 : Shape(at.tree, {}, sub2)
      BY <2>1 DEF Good
    <2>3. at.next = NULL
      BY <2>1, <2>2, FirstFacts
    <2> QED  BY <2>3 DEF FreeTurn
  <1>6. turn \in Turns(N, X)
    <2>1. \A at \in X : FreeTurn(at) \in X
      <3> TAKE at \in X
      <3>0. at \in FreeState
        OBVIOUS
      <3>1. PICK rest : Freeing(at, M, b, rest)
        OBVIOUS
      <3>2. CASE rest = {}
        BY <1>e, <3>0, <3>1, <3>2
      <3>3. CASE rest # {}
        <4>1. FreeTurn(at) \in FreeState /\ Freeing(FreeTurn(at), M, b, rest \ {at.next})
          BY <1>d, <3>0, <3>1, <3>3, FreeTurnKeeps
        <4> QED  BY <4>1
      <3> QED  BY <3>2, <3>3
    <2> HIDE DEF X, N
    <2> QED  BY <2>1 DEF Turns
  <1> HIDE DEF loop, Inv, N
  <1>7. PICK h \in [0 .. N -> X] : h[0] = start /\ \A i \in 1 .. N : h[i] = turn[i][h[i - 1]]
    <2> HIDE DEF turn, X
    <2>1. Traces(N, X, start, turn) # {}
      BY <1>1, <1>c, <1>6, LoopExists
    <2> QED  BY <2>1 DEF Traces
  <1>8. h = [i \in 0 .. N |-> IF i = 0 THEN start ELSE FreeTurn(h[i - 1])]
    <2> HIDE DEF X
    <2>1. ASSUME NEW i \in 0 .. N PROVE h[i] = IF i = 0 THEN start ELSE FreeTurn(h[i - 1])
      <3>1. CASE i = 0
        BY <1>7, <3>1
      <3>2. CASE i # 0
        <4>1. i \in 1 .. N /\ h[i - 1] \in X
          BY <1>1, <1>7, <3>2
        <4> QED  BY <1>7, <3>2, <4>1
      <3> QED  BY <3>1, <3>2
    <2> QED  BY <1>7, <2>1
  <1>9. loop = [i \in 0 .. N |-> IF i = 0 THEN start ELSE FreeTurn(loop[i - 1])]
    BY <1>3, <1>8
  <1>10. 0 \in S
    <2>1. loop[0] = start /\ 0 \in 0 .. N
      BY <1>1, <1>9
    <2> QED  BY <1>4, <1>c, <2>1
  <1>11. ASSUME NEW i \in 1 .. N, i - 1 \in S PROVE i \in S
    <2> DEFINE at == loop[i - 1]
               to == loop[i]
    <2>1. to = FreeTurn(at) /\ i \in 0 .. N /\ i \in Nat
      BY <1>1, <1>9
    <2>2. at \in FreeState /\ Inv(at, i - 1)
      BY <1>11
    <2> HIDE DEF at, to
    <2>3. PICK rest : /\ Freeing(at, M, b, rest)
                      /\ rest = {} \/ Cardinality(rest) + (i - 1) <= Cardinality(M)
      BY <2>2 DEF Inv
    <2>4. CASE rest = {}
      <3>1. to = at
        BY <1>e, <2>1, <2>2, <2>3, <2>4
      <3>2. Inv(to, i)
        BY <2>3, <2>4, <3>1 DEF Inv
      <3> QED  BY <2>1, <2>2, <3>1, <3>2 DEF to
    <2>5. CASE rest # {}
      <3> DEFINE rest2 == rest \ {at.next}
      <3>1. at.next \in rest /\ to \in FreeState /\ Freeing(to, M, b, rest2)
        BY <1>d, <2>1, <2>2, <2>3, <2>5, FreeTurnKeeps
      <3>2. rest \in SUBSET M
        BY <2>3 DEF Freeing
      <3>3. IsFiniteSet(rest)
        BY <1>d, <3>2, FS_Subset
      <3>4. Cardinality(rest2) = Cardinality(rest) - 1 /\ Cardinality(rest) \in Nat
        BY <3>1, <3>3, FS_RemoveElement, FS_CardinalityType
      <3>5. Cardinality(rest2) + i <= Cardinality(M)
        BY <1>d, <2>1, <2>3, <2>5, <3>4
      <3> HIDE DEF rest2
      <3>6. Inv(to, i)
        BY <3>1, <3>5 DEF Inv
      <3> QED  BY <2>1, <3>1, <3>6 DEF to
    <2> QED  BY <2>4, <2>5
  <1> HIDE DEF S
  <1>12. N \in S
    <2>1. 0 .. N \subseteq S
      BY <1>1, <1>10, <1>11, InductionUpTo
    <2> QED  BY <1>1, <2>1
  <1> DEFINE at == loop[N]
  <1>13. at \in FreeState /\ Inv(at, N)
    BY <1>12 DEF S
  <1> HIDE DEF at
  <1>14. PICK rest : Freeing(at, M, b, rest) /\ (rest = {} \/ Cardinality(rest) + N <= Cardinality(M))
    BY <1>13 DEF Inv
  <1>15. rest = {}
    <2>1. rest \in SUBSET M
      BY <1>14 DEF Freeing
    <2>2. IsFiniteSet(rest) /\ Cardinality(rest) \in Nat
      BY <1>d, <2>1, FS_Subset, FS_CardinalityType
    <2>3. rest # {} => Cardinality(rest) = 0
      BY <1>1, <1>14, <1>d, <2>2
    <2> QED  BY <2>2, <2>3, FS_EmptySet
  <1>16. Good(at.tree, {}, b) /\ R!Ordered(M \ {}, at.freed)
    BY <1>14, <1>15 DEF Freeing
  <1>17. M \ {} = M
    OBVIOUS
  <1>18. R!Ordered(M, at.freed)
    BY <1>16, <1>17
  <1> QED  BY <1>2, <1>16, <1>18 DEF at

-----------------------------------------------------------------------------
(* The specification *)

IInv == balanced \in BOOLEAN /\ Good(tree, members, balanced)

(* The empty tree. *)
LEMMA InitGood ==
    ASSUME Init
    PROVE  IInv
  <1> DEFINE sub == [n \in Ptr |-> {}]
             bh == [n \in Ptr |-> 0]
             none == {}
  <1>0. NULL \in Ptr /\ none \in SUBSET Node /\ balanced \in BOOLEAN
    BY DEF Init, Ptr
  <1>1. tree = EmptyTree /\ members = none
    BY DEF Init
  <1>2. EmptyTree \in Tree /\ EmptyTree.root = NULL
    BY <1>0 DEF EmptyTree, Tree
  <1>3. Shape(EmptyTree, none, sub)
    BY <1>0, <1>2 DEF Shape
  <1>4. Even(EmptyTree, none, bh, NULL, "left") /\ Reds(EmptyTree, none, NULL)
    BY <1>0 DEF Even, Reds
  <1> HIDE DEF sub, bh
  <1>5. Coloured(EmptyTree, none, balanced)
    BY <1>0, <1>4 DEF Coloured
  <1>6. Good(EmptyTree, none, balanced)
    BY <1>3, <1>5 DEF Good
  <1> QED  BY <1>0, <1>1, <1>6 DEF IInv

(* f4op_add, with and without rebalancing. *)
LEMMA AddKeeps ==
    ASSUME IInv, NEW op \in Node, Add(op)
    PROVE  IInv'
  <1> DEFINE found == f4op_find(tree, Key(op))
             parent == Descend(tree, Key(op))
             linked == Link(tree, op, parent, Toward(Key(op), parent))
             tree2 == IF balanced THEN InsertColor(linked, op) ELSE linked
  <1>1. balanced' = balanced /\ balanced \in BOOLEAN /\ Good(tree, members, balanced)
    BY DEF IInv, Add
  <1>2. CASE found # NULL
    <2>1. tree' = tree /\ members' = members
      BY <1>2 DEF Add
    <2> QED  BY <1>1, <2>1 DEF IInv
  <1>3. CASE found = NULL
    <2>1. tree' = tree2 /\ members' = members \cup {op}
      BY <1>3 DEF Add
    <2>2. Good(tree2, members \cup {op}, balanced)
      BY <1>1, <1>3, AddGood
    <2> HIDE DEF tree2
    <2> QED  BY <1>1, <2>1, <2>2 DEF IInv
  <1> QED  BY <1>2, <1>3

(* Every step keeps the invariant. *)
LEMMA NextKeeps ==
    ASSUME IInv, [Next]_vars
    PROVE  IInv'
  <1>0. balanced \in BOOLEAN /\ Good(tree, members, balanced)
    BY DEF IInv
  <1>1. ASSUME NEW op \in Node, Add(op) PROVE IInv'
    BY <1>1, AddKeeps
  <1>2. ASSUME NEW op \in Node, Remove(op) PROVE IInv'
    <2>1. tree' = Erase(tree, op) /\ members' = members \ {op} /\ balanced' = balanced /\ op \in members
      BY <1>2 DEF Remove
    <2>2. Good(Erase(tree, op), members \ {op}, balanced)
      BY <1>0, <2>1, EraseGood
    <2> QED  BY <1>0, <2>1, <2>2 DEF IInv
  <1>3. ASSUME NEW victim \in Node, NEW new \in Node, Replace(victim, new) PROVE IInv'
    <2>1. /\ tree' = ReplaceNode(tree, victim, new) /\ members' = (members \ {victim}) \cup {new}
          /\ balanced' = balanced /\ victim \in members /\ new \notin members /\ Key(victim) = Key(new)
      BY <1>3 DEF Replace
    <2>2. Good(ReplaceNode(tree, victim, new), (members \ {victim}) \cup {new}, balanced)
      BY <1>0, <2>1, ReplaceGood
    <2> QED  BY <1>0, <2>1, <2>2 DEF IInv
  <1>4. ASSUME FreeCtx PROVE IInv'
    <2>1. tree' = f4op_free_ctx(tree).tree /\ members' = {} /\ balanced' = balanced
      BY <1>4 DEF FreeCtx
    <2>2. Good(f4op_free_ctx(tree).tree, {}, balanced)
      BY <1>0, FreeCtxFacts
    <2> QED  BY <1>0, <2>1, <2>2 DEF IInv
  <1>5. ASSUME UNCHANGED vars PROVE IInv'
    <2>1. tree' = tree /\ members' = members /\ balanced' = balanced
      BY <1>5 DEF vars
    <2> QED  BY <1>0, <2>1 DEF IInv
  <1> QED  BY <1>1, <1>2, <1>3, <1>4, <1>5 DEF Next

(* The pointers of the tree always form a search tree of the linked nodes,     *)
(* coloured as a red-black tree if its user rebalances it: the invariant that  *)
(* rb_insert_color, rb_erase, rb_replace_node and the loop of f4op_free_ctx    *)
(* keep, whatever the ids are and in whatever order the calls come.            *)
THEOREM TreeInvariant == Spec => []IInv
  <1>1. Init => IInv
    BY InitGood
  <1>2. IInv /\ [Next]_vars => IInv'
    BY NextKeeps
  <1> QED  BY <1>1, <1>2, PTL DEF Spec

-----------------------------------------------------------------------------
(* What the invariant says *)

(* f4op_find answers what the registry would. *)
LEMMA LookupFacts ==
    ASSUME NEW t, NEW M, NEW sub, Shape(t, M, sub), NEW id \in Int
    PROVE  /\ Answer(f4op_find(t, id)) = R!Lookup(M, id)
           /\ f4op_find(t, id) = NULL <=> R!Lookup(M, id) = <<>>
  <1> DEFINE f == f4op_find(t, id)
             c == CHOOSE op \in M : Key(op) = id
  <1>1. IF f = NULL THEN \A m \in M : Key(m) # id
        ELSE f \in M /\ Key(f) = id /\ \A m \in M \ {f} : Key(m) # id
    BY FindFacts
  <1>2. R!Lookup(M, id) = IF id \in R!Ids(M) THEN <<c>> ELSE <<>>
    BY DEF R!Lookup
  <1>3. id \in R!Ids(M) <=> \E m \in M : Key(m) = id
    BY DEF R!Ids
  <1> HIDE DEF f
  <1>4. CASE f = NULL
    <2>1. R!Lookup(M, id) = <<>>
      BY <1>1, <1>2, <1>3, <1>4
    <2> QED  BY <1>4, <2>1 DEF Answer, f
  <1>5. CASE f # NULL
    <2>1. c \in M /\ Key(c) = id
      BY <1>1, <1>5
    <2>2. c = f
      BY <1>1, <1>5, <2>1
    <2> HIDE DEF c
    <2>3. R!Lookup(M, id) = <<f>>
      BY <1>1, <1>2, <1>3, <1>5, <2>2
    <2>4. <<f>> # <<>>
      OBVIOUS
    <2> QED  BY <1>5, <2>3, <2>4 DEF Answer, f
  <1> QED  BY <1>4, <1>5

(* rb_first, rb_last, rb_next, rb_prev and f4op_find come to the nodes they are *)
(* asked for after every sequence of rb_link_node, rb_insert_color, rb_erase    *)
(* and rb_replace_node: WalksAndFinds holds for every set of ids.               *)
THEOREM TreeWalksAndFinds == Spec => []WalksAndFinds
  <1>1. ASSUME IInv PROVE WalksAndFinds
    <2>1. PICK sub : Shape(tree, members, sub)
      BY <1>1 DEF IInv, Good
    <2>2. \A s \in Side : End(tree, s) = Outermost(members, s)
      BY <2>1, EndFacts
    <2>3. \A s \in Side : \A n \in members :
              Step(tree, n, s) = Outermost({m \in members : Beyond(s, Key(m), Key(n))}, Other(s))
      BY <2>1, StepFacts
    <2>4. \A id \in Keys : Answer(f4op_find(tree, id)) = R!Lookup(members, id)
      BY <2>1, LookupFacts, KeysAssumption
    <2> QED  BY <2>2, <2>3, <2>4 DEF WalksAndFinds
  <1> QED  BY <1>1, TreeInvariant, PTL

(* Black nodes above a node and below it add up to the same for all nodes. *)
LEMMA DepthFacts ==
    ASSUME NEW t, NEW M, NEW sub, Shape(t, M, sub), NEW bh, Even(t, M, bh, NULL, "left"), NEW x \in M
    PROVE  /\ BlackDepth(t, x) \in Nat
           /\ BlackDepth(t, x) + bh[x] = bh[t.root] + Black(t, x)
  <1> DEFINE W(n) == Way(t.parent, n)
             B(n) == {m \in W(n) : ~ t.red[m]}
             P == {n \in M : /\ IsFiniteSet(W(n)) /\ BlackDepth(t, n) \in Nat
                             /\ BlackDepth(t, n) + bh[n] = bh[t.root] + Black(t, n)}
             rank == [n \in M |-> Cardinality(M) - Size(sub, n)]
  <1>1. /\ t \in Tree /\ M \in SUBSET Node /\ M \in SUBSET Ptr /\ NULL \notin M /\ NULL \in Ptr
        /\ sub[t.root] = M /\ sub[NULL] = {} /\ t.root \in M \cup {NULL} /\ (t.root # NULL => t.parent[t.root] = NULL)
    BY ShapeType DEF Ptr
  <1>2. t.parent \in [Node -> Ptr]
    BY <1>1 DEF Tree
  <1>3. bh \in [Ptr -> Nat] /\ \A n \in M : bh[n] \in Nat
    BY <1>1 DEF Even
  <1>4. \A n \in M : BlackDepth(t, n) = Cardinality(B(n))
    BY DEF BlackDepth
  <1>5. \A n \in M : Black(t, n) \in Nat
    BY DEF Black
  <1>6. ASSUME NEW n \in M, NEW c \in M, t.parent[c] = n PROVE c \notin W(n)
    <2>1. Cardinality(M) \in Nat /\ \A m \in M : Size(sub, m) \in Nat /\ Size(sub, m) <= Cardinality(M)
      BY <1>1, SizeFacts
    <2>2. rank \in [M -> Nat] /\ \A m \in M : rank[m] = Cardinality(M) - Size(sub, m)
      BY <2>1
    <2> HIDE DEF rank
    <2>3. ASSUME NEW m \in M, t.parent[m] # NULL
          PROVE  t.parent[m] \in M /\ rank[t.parent[m]] < rank[m]
      <3> DEFINE p == t.parent[m]
      <3>1. p \in M /\ Size(sub, m) < Size(sub, p)
        BY <2>3, AboveFacts, SizeFacts
      <3> HIDE DEF p
      <3>2. rank[p] < rank[m]
        BY <2>1, <2>2, <3>1
      <3> QED  BY <3>1, <3>2 DEF p
    <2>4. \A y \in W(n) : rank[y] <= rank[n]
      BY <1>1, <1>2, <2>2, <2>3, WayRule
    <2>5. rank[n] < rank[c]
      <3>1. n # NULL
        BY <1>1
      <3> QED  BY <1>6, <2>3, <3>1
    <2>6. rank[n] \in Nat /\ rank[c] \in Nat
      BY <2>2
    <2> QED  BY <2>4, <2>5, <2>6
  <1>7. M # {} => t.root \in P
    <2> DEFINE z == t.root
    <2> SUFFICES ASSUME M # {} PROVE z \in P
      OBVIOUS
    <2>1. z \in M /\ z \in Node /\ t.parent[z] = NULL
      BY <1>1
    <2> HIDE DEF z
    <2>2. W(z) = {z}
      BY <1>2, <2>1, WayEquation
    <2>3. IsFiniteSet(W(z))
      BY <2>2, FS_Singleton
    <2>4. Cardinality(B(z)) = Black(t, z)
      <3>1. CASE t.red[z]
        <4>1. B(z) = {}
          BY <2>2, <3>1
        <4> QED  BY <3>1, <4>1, FS_EmptySet DEF Black
      <3>2. CASE ~ t.red[z]
        <4>1. B(z) = {z}
          BY <2>2, <3>2
        <4> QED  BY <3>2, <4>1, FS_Singleton DEF Black
      <3> QED  BY <3>1, <3>2
    <2>5. BlackDepth(t, z) = Black(t, z)
      BY <1>4, <2>1, <2>4
    <2>6. BlackDepth(t, z) + bh[z] = bh[z] + Black(t, z)
      BY <1>3, <1>5, <2>1, <2>5
    <2>7. BlackDepth(t, z) \in Nat
      BY <1>5, <2>1, <2>5
    <2> HIDE DEF W
    <2> QED  BY <2>1, <2>3, <2>6, <2>7 DEF z
  <1>8. ASSUME NEW n \in M, NEW s \in Side, n \in P, t.child[s][n] # NULL PROVE t.child[s][n] \in P
    <2> DEFINE c == t.child[s][n]
    <2>1. c \in M /\ t.parent[c] = n
      BY <1>8, ShapeType, ChildFacts
    <2>2. bh[n] = bh[c] + Black(t, n)
      <3>1. bh[n] \in Nat /\ bh[c] \in Nat /\ bh[n] = bh[c] + Black(t, n) + Lack(n, s, NULL, "left")
        BY EvenFacts
      <3>2. Lack(n, s, NULL, "left") = 0
        BY <1>1 DEF Lack
      <3> HIDE DEF c
      <3> QED  BY <1>5, <3>1, <3>2
    <2> HIDE DEF c
    <2>3. W(c) = {c} \cup W(n)
      <3>1. c \in Node /\ t.parent[c] # NULL
        BY <1>1, <2>1
      <3> QED  BY <1>2, <2>1, <3>1, WayEquation
    <2>4. c \notin W(n)
      BY <1>6, <2>1
    <2>5. IsFiniteSet(W(n)) /\ BlackDepth(t, n) \in Nat /\ BlackDepth(t, n) + bh[n] = bh[t.root] + Black(t, n)
      BY <1>8
    <2> HIDE DEF W
    <2>6. IsFiniteSet(W(c))
      BY <2>3, <2>5, FS_AddElement
    <2>7. IsFiniteSet(B(n)) /\ c \notin B(n)
      BY <2>4, <2>5, FS_Subset
    <2>8. Cardinality(B(c)) = Cardinality(B(n)) + Black(t, c)
      <3>1. CASE t.red[c]
        <4>1. B(c) = B(n)
          BY <2>3, <3>1
        <4>2. Cardinality(B(n)) \in Nat
          BY <1>4, <2>5
        <4> QED  BY <3>1, <4>1, <4>2 DEF Black
      <3>2. CASE ~ t.red[c]
        <4>1. B(c) = B(n) \cup {c}
          BY <2>3, <3>2
        <4>2. Cardinality(B(n) \cup {c}) = Cardinality(B(n)) + 1
          BY <2>7, FS_AddElement
        <4> QED  BY <3>2, <4>1, <4>2 DEF Black
      <3> QED  BY <3>1, <3>2
    <2>9. BlackDepth(t, c) = BlackDepth(t, n) + Black(t, c)
      BY <1>4, <2>1, <2>8
    <2>10. bh[t.root] \in Nat
      BY <1>1, <1>3
    <2>11. BlackDepth(t, c) \in Nat /\ BlackDepth(t, c) + bh[c] = bh[t.root] + Black(t, c)
      <3>1. Black(t, c) \in Nat /\ Black(t, n) \in Nat /\ bh[c] \in Nat /\ bh[n] \in Nat
        BY <1>3, <1>5, <2>1
      <3> QED  BY <2>2, <2>5, <2>9, <2>10, <3>1
    <2>12. c \in P
      BY <2>1, <2>6, <2>11
    <2> QED  BY <2>12 DEF c
  <1>9. M \subseteq P
    <2> HIDE DEF P
    <2> QED  BY <1>7, <1>8, DownwardInduction
  <1>10. x \in P
    BY <1>9
  <1> QED  BY <1>10

(* rb_insert_color and __rb_erase_color keep the tree balanced for every set of *)
(* ids and every sequence of calls: RedBlack.                                   *)
THEOREM TreeRedBlack == Spec => []RedBlack
  <1>1. ASSUME IInv PROVE RedBlack
    <2> SUFFICES ASSUME balanced
                 PROVE  /\ ~ IsRed(tree, tree.root)
                        /\ \A n \in members, s \in Side : tree.red[n] => ~ IsRed(tree, tree.child[s][n])
                        /\ \A m, n \in Ends : BlackDepth(tree, m) = BlackDepth(tree, n)
      BY DEF RedBlack
    <2> DEFINE t == tree
               M == members
    <2>1. PICK sub : Shape(t, M, sub) /\ Coloured(t, M, balanced)
      BY <1>1 DEF IInv, Good
    <2>2. PICK bh : Even(t, M, bh, NULL, "left") /\ Reds(t, M, NULL)
      BY <2>1 DEF Coloured
    <2>0. NULL \notin M /\ M \in SUBSET Ptr /\ NULL \in Ptr /\ t.root \in M \cup {NULL} /\ (t.root # NULL => t.parent[t.root] = NULL)
      BY <2>1, ShapeType DEF Ptr
    <2> HIDE DEF t, M
    <2>3. \A n \in M : t.red[n] => t.parent[n] # NULL /\ ~ t.red[t.parent[n]]
      BY <2>0, <2>2 DEF Reds
    <2>4. ~ IsRed(t, t.root)
      BY <2>0, <2>3 DEF IsRed
    <2>5. ASSUME NEW n \in M, NEW s \in Side, t.red[n], IsRed(t, t.child[s][n]) PROVE FALSE
      <3> DEFINE c == t.child[s][n]
      <3>1. c # NULL /\ t.red[c]
        BY <2>5 DEF IsRed
      <3>2. c \in M /\ t.parent[c] = n
        BY <2>1, <3>1, ShapeType, ChildFacts
      <3> HIDE DEF c
      <3> QED  BY <2>3, <2>5, <3>1, <3>2
    <2>6. ASSUME NEW n \in M, NEW s \in Side, t.child[s][n] = NULL
          PROVE  BlackDepth(t, n) = bh[t.root]
      <3>1. BlackDepth(t, n) \in Nat /\ BlackDepth(t, n) + bh[n] = bh[t.root] + Black(t, n)
        BY <2>1, <2>2, DepthFacts
      <3>2. bh[n] \in Nat /\ bh[t.child[s][n]] \in Nat
               /\ bh[n] = bh[t.child[s][n]] + Black(t, n) + Lack(n, s, NULL, "left")
        BY <2>1, <2>2, EvenFacts
      <3>3. Lack(n, s, NULL, "left") = 0
        BY <2>0 DEF Lack
      <3>4. bh[t.child[s][n]] = 0 /\ bh[t.root] \in Nat
        BY <2>0, <2>2, <2>6 DEF Even
      <3>5. Black(t, n) \in Nat
        BY DEF Black
      <3> HIDE DEF t
      <3> QED  BY <3>1, <3>2, <3>3, <3>4, <3>5
    <2>7. \A n \in Ends : n \in M /\ \E s \in Side : t.child[s][n] = NULL
      BY DEF Ends, t, M
    <2>8. \A m, n \in Ends : BlackDepth(t, m) = BlackDepth(t, n)
      BY <2>6, <2>7
    <2> QED  BY <2>4, <2>5, <2>8 DEF t, M
  <1> QED  BY <1>1, TreeInvariant, PTL

(* The operations registry built on the tree does what Registry promises: every *)
(* step of f4op_add, f4op_remove, rb_replace_node and f4op_free_ctx is a step   *)
(* of the registry with the same answer.                                        *)
THEOREM TreeImplementsRegistry == Spec => ImplementsRegistry
  <1>1. Init => R!Init
    BY DEF Init, R!Init
  <1>2. ASSUME IInv, [Next]_vars PROVE [R!Next]_<<members, answer>>
    <2>1. PICK sub : Shape(tree, members, sub)
      BY <1>2 DEF IInv, Good
    <2>2. ASSUME NEW op \in Node, Add(op) PROVE R!Next
      <3> DEFINE found == f4op_find(tree, Key(op))
      <3>1. Key(op) \in Int
        BY NodeFacts
      <3>2. /\ Answer(found) = R!Lookup(members, Key(op))
            /\ found = NULL <=> R!Lookup(members, Key(op)) = <<>>
        BY <2>1, <3>1, LookupFacts
      <3>3. answer' = Answer(found) /\ members' = IF found = NULL THEN members \cup {op} ELSE members
        BY <2>2 DEF Add
      <3> HIDE DEF found
      <3>4. R!Add(op)
        BY <3>2, <3>3 DEF R!Add, R!Added
      <3> QED  BY <3>4 DEF R!Next
    <2>3. ASSUME NEW op \in Node, Remove(op) PROVE R!Next
      BY <2>3 DEF Remove, R!Remove, R!Next
    <2>4. ASSUME NEW victim \in Node, NEW new \in Node, Replace(victim, new) PROVE R!Next
      <3>1. R!Replace(victim, new)
        BY <2>4 DEF Replace, R!Replace
      <3> QED  BY <3>1 DEF R!Next
    <2>5. ASSUME FreeCtx PROVE R!Next
      <3>1. answer' = f4op_free_ctx(tree).freed /\ members' = {}
        BY <2>5 DEF FreeCtx
      <3>2. R!Ordered(members, f4op_free_ctx(tree).freed)
        BY <1>2, FreeCtxFacts DEF IInv
      <3>3. R!FreeAll
        BY <3>1, <3>2 DEF R!FreeAll
      <3> QED  BY <3>3 DEF R!Next
    <2>6. ASSUME UNCHANGED vars PROVE UNCHANGED <<members, answer>>
      BY <2>6 DEF vars
    <2> QED  BY <1>2, <2>2, <2>3, <2>4, <2>5, <2>6 DEF Next
  <1> QED  BY <1>1, <1>2, TreeInvariant, PTL DEF Spec, ImplementsRegistry, R!Spec
=============================================================================
