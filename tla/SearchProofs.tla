---------------------------- MODULE SearchProofs ----------------------------
(***************************************************************************)
(* Proofs about the searches (module Search): for any number of targets,   *)
(* nodes and slots the lists stay sorted and within their limits, a hash   *)
(* has one search, an unfinished one keeps the timer armed and its slot,   *)
(* its completion is told once, and a reply reaches the search that asked. *)
(***************************************************************************)
EXTENDS Search, Inductions, SequenceTheorems

-----------------------------------------------------------------------------
(* Minima and folds *)

(* The least of a nonempty set of integers that is bounded below. *)
LEMMA MinFacts ==
    ASSUME NEW S \in SUBSET Int, S # {}, NEW low \in Int, \A x \in S : low <= x
    PROVE  Min(S) \in S /\ \A x \in S : Min(S) <= x
  <1> DEFINE T == {x - low : x \in S}
  <1>1. T \in SUBSET Nat /\ T # {}
    <2>1. ASSUME NEW x \in S PROVE x - low \in Nat
      <3>1. x \in Int /\ low <= x
        OBVIOUS
      <3> QED  BY <3>1
    <2> QED  BY <2>1
  <1>2. PICK m \in T : \A x \in T : m <= x
    BY <1>1, LeastNatural
  <1>3. PICK y \in S : m = y - low
    BY <1>2
  <1>4. ASSUME NEW x \in S PROVE y <= x
    <2>1. x - low \in T
      OBVIOUS
    <2>2. y - low <= x - low
      BY <1>2, <1>3, <2>1
    <2>3. x \in Int /\ y \in Int
      OBVIOUS
    <2> QED  BY <2>2, <2>3
  <1> QED  BY <1>4 DEF Min

(* The later of 0 and a number. *)
LEMMA MaxWithZero ==
    ASSUME NEW x \in Int
    PROVE  Max({0, x}) \in Nat /\ Max({0, x}) = IF x > 0 THEN x ELSE 0
  <1>1. \E m \in {0, x} : \A y \in {0, x} : m >= y
    OBVIOUS
  <1>2. Max({0, x}) \in {0, x} /\ \A y \in {0, x} : Max({0, x}) >= y
    BY <1>1 DEF Max
  <1> QED  BY <1>2

(* insert_search_bucket, or the loop over the nodes of a reply, leaves every set *)
(* of searches that one insertion leaves.                                        *)
LEMMA InsertAllStays ==
    ASSUME NEW X, NEW sr \in X, NEW ids, IsFiniteSet(ids),
           \A s \in X : \A id \in ids : InsertSearchNode(s, id) \in X
    PROVE  InsertAll(sr, ids) \in X
  <1> DEFINE put == [id \in ids |-> [s \in X |-> InsertSearchNode(s, id)]]
             fold[T \in SUBSET ids] ==
                IF T = {} THEN sr
                ELSE LET x == CHOOSE x \in T : TRUE IN InsertSearchNode(fold[T \ {x}], x)
             Is(h) == h = [T \in SUBSET ids |->
                IF T = {} THEN sr
                ELSE LET x == CHOOSE x \in T : TRUE IN InsertSearchNode(h[T \ {x}], x)]
  <1>1. fold = CHOOSE h : Is(h)
    OBVIOUS
  <1>2. InsertAll(sr, ids) = fold[ids]
    BY DEF InsertAll, FoldSet, MapThenFoldSet
  <1> HIDE DEF fold
  <1>3. put \in Changes(ids, X)
    BY DEF Changes
  <1>4. PICK g \in Values(ids, X, sr, put) : TRUE
    <2> HIDE DEF put
    <2> QED  BY <1>3, FoldExists
  <1>5. g \in [SUBSET ids -> X]
    BY <1>4 DEF Values
  <1>6. ASSUME NEW T \in SUBSET ids
        PROVE  g[T] = IF T = {} THEN sr ELSE InsertSearchNode(g[T \ {Pick(T)}], Pick(T))
    <2>1. g[T] = IF T = {} THEN sr ELSE put[Pick(T)][g[T \ {Pick(T)}]]
      <3> HIDE DEF put
      <3> QED  BY <1>4 DEF Values
    <2>2. CASE T # {}
      <3>1. Pick(T) \in ids /\ T \ {Pick(T)} \in SUBSET ids
        BY <2>2 DEF Pick
      <3>2. g[T \ {Pick(T)}] \in X
        BY <1>5, <3>1
      <3> QED  BY <2>1, <2>2, <3>1, <3>2
    <2> QED  BY <2>1, <2>2
  <1>7. Is(g)
    BY <1>5, <1>6 DEF Pick
  <1> HIDE DEF Is
  <1>8. Is(fold)
    BY <1>1, <1>7
  <1>9. ASSUME NEW T \in SUBSET ids
        PROVE  fold[T] = IF T = {} THEN sr ELSE InsertSearchNode(fold[T \ {Pick(T)}], Pick(T))
    BY <1>8 DEF Is, Pick
  <1> DEFINE F == {T \in SUBSET ids : fold[T] \in X}
  <1>10. {} \in F
    BY <1>9
  <1>11. ASSUME NEW T \in SUBSET ids, T # {}, T \ {CHOOSE x \in T : TRUE} \in F
         PROVE  T \in F
    <2>1. Pick(T) \in ids /\ fold[T \ {Pick(T)}] \in X
      BY <1>11 DEF Pick
    <2>2. fold[T] = InsertSearchNode(fold[T \ {Pick(T)}], Pick(T))
      BY <1>9, <1>11
    <2> QED  BY <2>1, <2>2
  <1> HIDE DEF F
  <1>12. SUBSET ids \subseteq F
    BY <1>10, <1>11, SubsetInduction
  <1>13. ids \in F
    BY <1>12
  <1> QED  BY <1>2, <1>13 DEF F

-----------------------------------------------------------------------------
(* The nodes of a search *)

(* The nodes of a list in the order search_step relies on. *)
Ordered(t, nodes) ==
    \A i, j \in DOMAIN nodes : i < j => Dist[t][nodes[i].id] < Dist[t][nodes[j].id]

(* A search with its nodes in order and within the limit. *)
GoodRec == {sr \in SearchRec : Len(sr.nodes) <= SearchNodes /\ Ordered(sr.id, sr.nodes)}

(* Two states of one search between two steps of it. *)
Alike(a, b) ==
    /\ a.id = b.id /\ a.tid = b.tid /\ a.step = b.step
    /\ a.announce = b.announce /\ a.done = b.done

(* What a record of the model holds. *)
LEMMA RecFields ==
    ASSUME NEW sr \in SearchRec
    PROVE  /\ sr.id \in Targets /\ sr.tid \in 0 .. Tids - 1 /\ sr.step \in Age
           /\ sr.announce \in BOOLEAN /\ sr.done \in BOOLEAN /\ sr.nodes \in Seq(SearchNode)
           /\ sr = [id |-> sr.id, tid |-> sr.tid, step |-> sr.step, announce |-> sr.announce,
                    done |-> sr.done, nodes |-> sr.nodes]
  BY DEF SearchRec

LEMMA NodeFields ==
    ASSUME NEW n \in SearchNode
    PROVE  /\ n.id \in Peers /\ n.request \in Age /\ n.reply \in Age
           /\ n.pinged \in 0 .. MaxRequests
           /\ n.token \in BOOLEAN /\ n.replied \in BOOLEAN /\ n.acked \in BOOLEAN
  BY DEF SearchNode

(* The distances from a target are natural numbers, one per node. *)
LEMMA DistFacts ==
    ASSUME NEW t \in Targets
    PROVE  /\ \A p \in Peers : Dist[t][p] \in Nat
           /\ \A p, q \in Peers : Dist[t][p] = Dist[t][q] => p = q
  BY DistAssumption

(* Replacing the nodes of a search keeps it good when they are. *)
LEMMA WithNodes ==
    ASSUME NEW sr \in SearchRec, NEW nodes \in Seq(SearchNode)
    PROVE  LET new == [sr EXCEPT !.nodes = nodes]
           IN  /\ new \in SearchRec /\ Alike(new, sr) /\ new.nodes = nodes
               /\ Len(nodes) <= SearchNodes /\ Ordered(sr.id, nodes) => new \in GoodRec
  <1> DEFINE new == [sr EXCEPT !.nodes = nodes]
  <1>1. new \in SearchRec /\ new.nodes = nodes /\ Alike(new, sr)
    BY DEF SearchRec, Alike
  <1>2. new.id = sr.id
    BY <1>1 DEF Alike
  <1> HIDE DEF new
  <1>3. Len(nodes) <= SearchNodes /\ Ordered(sr.id, nodes) => new \in GoodRec
    BY <1>1, <1>2 DEF GoodRec
  <1>4. new \in SearchRec /\ Alike(new, sr) /\ new.nodes = nodes
               /\ (Len(nodes) <= SearchNodes /\ Ordered(sr.id, nodes) => new \in GoodRec)
    BY <1>1, <1>3
  <1> QED  BY <1>4 DEF new

(* A list made from another member by member. *)
LEMMA MappedList ==
    ASSUME NEW S, NEW T, NEW old \in Seq(S), NEW new,
           new = [i \in DOMAIN old |-> new[i]], \A i \in DOMAIN old : new[i] \in T
    PROVE  new \in Seq(T) /\ Len(new) = Len(old) /\ DOMAIN new = DOMAIN old
  <1>1. Len(old) \in Nat /\ DOMAIN old = 1 .. Len(old)
    OBVIOUS
  <1>2. new \in [1 .. Len(old) -> T]
    BY <1>1
  <1> QED  BY <1>1, <1>2

(* Nodes that keep their ids keep their order. *)
LEMMA SameIds ==
    ASSUME NEW sr \in GoodRec, NEW nodes, nodes = [i \in DOMAIN sr.nodes |-> nodes[i]],
           \A i \in DOMAIN sr.nodes : nodes[i] \in SearchNode /\ nodes[i].id = sr.nodes[i].id
    PROVE  LET new == [sr EXCEPT !.nodes = nodes]
           IN  new \in GoodRec /\ Alike(new, sr) /\ new.nodes = nodes
  <1>1. sr \in SearchRec /\ Len(sr.nodes) <= SearchNodes /\ Ordered(sr.id, sr.nodes)
    BY DEF GoodRec
  <1>2. sr.nodes \in Seq(SearchNode)
    BY <1>1, RecFields
  <1>4. nodes \in Seq(SearchNode) /\ Len(nodes) = Len(sr.nodes) /\ DOMAIN nodes = DOMAIN sr.nodes
    BY <1>2, MappedList
  <1>3. Ordered(sr.id, nodes)
    BY <1>1, <1>4 DEF Ordered
  <1> QED  BY <1>1, <1>3, <1>4, WithNodes

(* The sizes of the lists. *)
LEMMA SizeFacts ==
    /\ SearchNodes \in Nat \ {0} /\ K \in Nat \ {0} /\ Burst \in Nat \ {0}
    /\ MaxSearches \in Nat \ {0} /\ Tids \in Nat \ {0}
    /\ MaxCalls \in Nat /\ MaxReplies \in Nat /\ Jitter \in Nat
    /\ StepWait \in Nat /\ RequestWait \in Nat /\ ReplyAge \in Nat /\ ExpireAge \in Nat
    /\ MaxAge \in Nat
  BY SizesAssumption, AgesAssumption

(* Where insert_search_node stops: everything before is closer than the id, and *)
(* what stands there is the node itself or is farther away.                     *)
LEMMA PlaceFacts ==
    ASSUME NEW sr \in GoodRec, NEW id \in Peers
    PROVE  /\ Place(sr, id) \in 1 .. Len(sr.nodes) + 1
           /\ \A j \in DOMAIN sr.nodes : j < Place(sr, id) =>
                Dist[sr.id][sr.nodes[j].id] < Dist[sr.id][id] /\ sr.nodes[j].id # id
           /\ Place(sr, id) \in DOMAIN sr.nodes =>
                \/ sr.nodes[Place(sr, id)].id = id
                \/ \A j \in DOMAIN sr.nodes : j >= Place(sr, id) =>
                        Dist[sr.id][id] < Dist[sr.id][sr.nodes[j].id]
  <1> DEFINE nodes == sr.nodes
             D(p) == Dist[sr.id][p]
             stops == {i \in DOMAIN nodes :
                        nodes[i].id = id \/ Dist[sr.id][id] < Dist[sr.id][nodes[i].id]}
             i == Place(sr, id)
  <1>1. sr \in SearchRec /\ Ordered(sr.id, nodes)
    BY DEF GoodRec
  <1>2. nodes \in Seq(SearchNode) /\ sr.id \in Targets
    BY <1>1, RecFields
  <1>3. Len(nodes) \in Nat /\ DOMAIN nodes = 1 .. Len(nodes)
    BY <1>2
  <1>4. \A j \in DOMAIN nodes : nodes[j].id \in Peers
    <2>1. ASSUME NEW j \in DOMAIN nodes PROVE nodes[j] \in SearchNode
      BY <1>2
    <2> HIDE DEF nodes
    <2> QED  BY <2>1, NodeFields
  <1>5. \A p \in Peers : D(p) \in Nat
    BY <1>2, DistFacts
  <1>6. \A p, q \in Peers : D(p) = D(q) => p = q
    BY <1>2, DistFacts
  <1>7. i = IF stops = {} THEN Len(nodes) + 1 ELSE Min(stops)
    BY DEF Place
  <1>8. stops # {} => i \in stops /\ \A j \in stops : i <= j
    <2>1. stops \in SUBSET Int /\ 1 \in Int /\ \A x \in stops : 1 <= x
      BY <1>3
    <2>2. stops # {} => Min(stops) \in stops /\ \A j \in stops : Min(stops) <= j
      <3> HIDE DEF stops
      <3> QED  BY <2>1, MinFacts
    <2> HIDE DEF stops, i
    <2> QED  BY <1>7, <2>2
  <1>9. i \in 1 .. Len(nodes) + 1
    <2>1. CASE stops = {}
      BY <1>3, <1>7, <2>1
    <2>2. CASE stops # {}
      <3>1. i \in DOMAIN nodes
        BY <1>8, <2>2
      <3> HIDE DEF i
      <3> QED  BY <1>3, <3>1
    <2> QED  BY <2>1, <2>2
  <1>10. ASSUME NEW j \in DOMAIN nodes, j < i
         PROVE  D(nodes[j].id) < D(id) /\ nodes[j].id # id
    <2>1. j \notin stops
      <3>1. SUFFICES ASSUME j \in stops PROVE FALSE
        OBVIOUS
      <3>2. i <= j
        BY <1>8, <3>1
      <3>3. j \in Int /\ i \in Int
        BY <1>3, <1>9
      <3> HIDE DEF i
      <3> QED  BY <1>10, <3>2, <3>3
    <2>2. nodes[j].id # id /\ ~ (D(id) < D(nodes[j].id))
      BY <2>1
    <2>3. D(nodes[j].id) \in Nat /\ D(id) \in Nat /\ D(id) # D(nodes[j].id)
      BY <1>4, <1>5, <1>6, <2>2
    <2> QED  BY <2>2, <2>3
  <1>11. ASSUME i \in DOMAIN nodes, nodes[i].id # id, NEW j \in DOMAIN nodes, j >= i
         PROVE  D(id) < D(nodes[j].id)
    <2>1. stops # {}
      <3>1. Len(nodes) + 1 \notin DOMAIN nodes
        BY <1>3
      <3> HIDE DEF stops, i, nodes
      <3> QED  BY <1>7, <1>11, <3>1
    <2>2. D(id) < D(nodes[i].id)
      BY <1>8, <1>11, <2>1
    <2>3. i = j \/ i < j
      <3>1. i \in Int /\ j \in Int
        BY <1>3, <1>9
      <3> HIDE DEF i
      <3> QED  BY <1>11, <3>1
    <2>4. i = j \/ D(nodes[i].id) < D(nodes[j].id)
      BY <1>1, <1>11, <2>3 DEF Ordered
    <2>5. D(nodes[i].id) \in Nat /\ D(id) \in Nat /\ D(nodes[j].id) \in Nat
      BY <1>4, <1>5, <1>11
    <2>6. CASE i = j
      BY <2>2, <2>6
    <2>7. CASE D(nodes[i].id) < D(nodes[j].id)
      <3> HIDE DEF D
      <3> QED  BY <2>2, <2>5, <2>7
    <2> QED  BY <2>4, <2>6, <2>7
  <1> HIDE DEF i
  <1>12. i \in DOMAIN nodes => nodes[i].id = id \/ \A j \in DOMAIN nodes : j >= i => D(id) < D(nodes[j].id)
    BY <1>11
  <1> QED  BY <1>9, <1>10, <1>12 DEF i

(* insert_search_node keeps the order and the limit, whatever falls off. *)
LEMMA InsertFacts ==
    ASSUME NEW sr \in GoodRec, NEW id \in Peers
    PROVE  InsertSearchNode(sr, id) \in GoodRec /\ Alike(InsertSearchNode(sr, id), sr)
  <1> DEFINE nodes == sr.nodes
             i == Place(sr, id)
             found == i \in DOMAIN nodes /\ nodes[i].id = id
             n == FreshSearchNode(id)
             size == Min({Len(nodes) + 1, SearchNodes})
             new == Shifted(nodes, i, n)
             D(p) == Dist[sr.id][p]
  <1>1. sr \in SearchRec /\ Ordered(sr.id, nodes) /\ Len(nodes) <= SearchNodes
    BY DEF GoodRec
  <1>2. nodes \in Seq(SearchNode) /\ sr.id \in Targets
    BY <1>1, RecFields
  <1>3. Len(nodes) \in Nat /\ DOMAIN nodes = 1 .. Len(nodes) /\ SearchNodes \in Nat
    BY <1>2, SizeFacts
  <1>a. InsertSearchNode(sr, id) = IF found \/ i > SearchNodes THEN sr ELSE [sr EXCEPT !.nodes = new]
    BY DEF InsertSearchNode
  <1>4. CASE found \/ i > SearchNodes
    <2>1. InsertSearchNode(sr, id) = sr
      BY <1>4, <1>a
    <2> QED  BY <2>1 DEF Alike
  <1>5. CASE ~ found /\ ~ (i > SearchNodes)
    <2>1. /\ i \in 1 .. Len(nodes) + 1
          /\ \A j \in DOMAIN nodes : j < i => D(nodes[j].id) < D(id)
          /\ \A j \in DOMAIN nodes : j >= i => D(id) < D(nodes[j].id)
      <3>1. i \in 1 .. Len(nodes) + 1
        BY PlaceFacts
      <3>2. \A j \in DOMAIN nodes : j < i => D(nodes[j].id) < D(id)
        BY PlaceFacts
      <3>3. ASSUME NEW j \in DOMAIN nodes, j >= i PROVE D(id) < D(nodes[j].id)
        <4>1. i \in DOMAIN nodes
          <5>1. j \in 1 .. Len(nodes)
            BY <1>3
          <5> HIDE DEF i
          <5> QED  BY <1>3, <3>1, <3>3, <5>1
        <4>2. nodes[i].id # id
          BY <1>5, <4>1
        <4> QED  BY <3>3, <4>1, <4>2, PlaceFacts
      <3> QED  BY <3>1, <3>2, <3>3
    <2>2. n \in SearchNode /\ n.id = id
      BY SizeFacts DEF FreshSearchNode, SearchNode, Age, Never, MaxRequests
    <2>3. /\ size \in Nat /\ size <= SearchNodes /\ size <= Len(nodes) + 1
          /\ (size = SearchNodes \/ size = Len(nodes) + 1)
      <3> DEFINE two == {Len(nodes) + 1, SearchNodes}
      <3>1. two \in SUBSET Int /\ two # {} /\ 0 \in Int /\ \A x \in two : 0 <= x
        BY <1>3
      <3>2. Min(two) \in two /\ \A x \in two : Min(two) <= x
        <4> HIDE DEF two
        <4> QED  BY <3>1, MinFacts
      <3> QED  BY <1>3, <3>2
    <2> HIDE DEF n, size, i, D
    <2>4. new = [j \in 1 .. size |-> IF j < i THEN nodes[j] ELSE IF j = i THEN n ELSE nodes[j - 1]]
      BY DEF Shifted, size
    <2> HIDE DEF new
    <2>5. ASSUME NEW j \in 1 .. size
          PROVE  /\ new[j] \in SearchNode
                 /\ j < i => j \in DOMAIN nodes /\ new[j] = nodes[j]
                 /\ j = i => new[j] = n
                 /\ j > i => j - 1 \in DOMAIN nodes /\ j - 1 >= i /\ new[j] = nodes[j - 1]
      <3>1. j \in Int /\ i \in Int /\ 1 <= j /\ j <= Len(nodes) + 1 /\ 1 <= i /\ i <= Len(nodes) + 1
        BY <1>3, <2>1, <2>3
      <3>2. j < i => j \in DOMAIN nodes
        BY <1>3, <3>1
      <3>3. j > i => j - 1 \in DOMAIN nodes /\ j - 1 >= i
        BY <1>3, <3>1
      <3>4. /\ j < i => new[j] = nodes[j]
            /\ j = i => new[j] = n
            /\ j > i => new[j] = nodes[j - 1]
        BY <2>4, <3>1
      <3>5. \A l \in DOMAIN nodes : nodes[l] \in SearchNode
        BY <1>2
      <3>6. new[j] \in SearchNode
        BY <2>2, <3>1, <3>2, <3>3, <3>4, <3>5
      <3> QED  BY <3>2, <3>3, <3>4, <3>6
    <2>6. new \in Seq(SearchNode) /\ Len(new) = size /\ DOMAIN new = 1 .. size
      BY <2>3, <2>4, <2>5
    <2>7. ASSUME NEW a \in DOMAIN new, NEW b \in DOMAIN new, a < b
          PROVE  D(new[a].id) < D(new[b].id)
      <3>1. a \in 1 .. size /\ b \in 1 .. size /\ a \in Int /\ b \in Int /\ i \in Int
        BY <2>1, <2>3, <2>6
      <3>2. \A p \in Peers : D(p) \in Nat
        BY <1>2, DistFacts DEF D
      <3>3. new[a].id \in Peers /\ new[b].id \in Peers
        BY <2>5, <3>1, NodeFields
      <3>4. D(new[a].id) \in Nat /\ D(new[b].id) \in Nat /\ D(id) \in Nat
        BY <3>2, <3>3
      <3>5. a < i => D(new[a].id) < D(id)
        BY <2>1, <2>5, <3>1
      <3>6. b > i => D(id) < D(new[b].id)
        BY <2>1, <2>5, <3>1
      <3>7. (a = i => D(new[a].id) = D(id)) /\ (b = i => D(new[b].id) = D(id))
        BY <2>2, <2>5, <3>1
      <3>8. CASE b < i
        <4>1. a < i
          BY <2>7, <3>1, <3>8
        <4>2. /\ new[a] = nodes[a] /\ new[b] = nodes[b]
              /\ a \in DOMAIN nodes /\ b \in DOMAIN nodes
          BY <2>5, <3>1, <3>8, <4>1
        <4> QED  BY <1>1, <2>7, <4>2 DEF Ordered, D
      <3>9. CASE a > i
        <4>1. b > i
          BY <2>7, <3>1, <3>9
        <4>2. /\ new[a] = nodes[a - 1] /\ new[b] = nodes[b - 1]
              /\ a - 1 \in DOMAIN nodes /\ b - 1 \in DOMAIN nodes
          BY <2>5, <3>1, <3>9, <4>1
        <4>3. a - 1 < b - 1
          BY <2>7, <3>1
        <4> QED  BY <1>1, <4>2, <4>3 DEF Ordered, D
      <3>10. CASE a = i
        <4>1. b > i
          BY <2>7, <3>1, <3>10
        <4> QED  BY <3>6, <3>7, <3>10, <4>1
      <3>11. CASE b = i
        <4>1. a < i
          BY <2>7, <3>1, <3>11
        <4> QED  BY <3>5, <3>7, <3>11, <4>1
      <3>12. CASE a < i /\ b > i
        BY <3>4, <3>5, <3>6, <3>12
      <3> QED  BY <2>7, <3>1, <3>8, <3>9, <3>10, <3>11, <3>12
    <2>8. Ordered(sr.id, new) /\ Len(new) <= SearchNodes
      BY <2>3, <2>6, <2>7 DEF Ordered, D
    <2>9. [sr EXCEPT !.nodes = new] \in GoodRec /\ Alike([sr EXCEPT !.nodes = new], sr)
      BY <1>1, <2>6, <2>8, WithNodes
    <2>10. InsertSearchNode(sr, id) = [sr EXCEPT !.nodes = new]
      BY <1>5, <1>a DEF i
    <2> QED  BY <2>9, <2>10
  <1> QED  BY <1>4, <1>5

(* So do insert_search_bucket and the nodes of a reply. *)
LEMMA InsertAllFacts ==
    ASSUME NEW sr \in GoodRec, NEW ids \in SUBSET Peers
    PROVE  InsertAll(sr, ids) \in GoodRec /\ Alike(InsertAll(sr, ids), sr)
  <1> DEFINE X == {s \in GoodRec : Alike(s, sr)}
  <1>1. sr \in X
    BY DEF Alike
  <1>2. IsFiniteSet(ids)
    BY DistAssumption, FS_Subset
  <1>3. ASSUME NEW s \in X, NEW id \in ids PROVE InsertSearchNode(s, id) \in X
    <2>1. InsertSearchNode(s, id) \in GoodRec /\ Alike(InsertSearchNode(s, id), s)
      BY InsertFacts
    <2> QED  BY <2>1 DEF Alike
  <1>4. InsertAll(sr, ids) \in X
    <2> HIDE DEF X
    <2> QED  BY <1>1, <1>2, <1>3, InsertAllStays
  <1> QED  BY <1>4

-----------------------------------------------------------------------------
(* The steps of a search *)

(* The greatest of a nonempty set of positions. *)
LEMMA MaxFacts ==
    ASSUME NEW n \in Nat, NEW S \in SUBSET (1 .. n), S # {}
    PROVE  Max(S) \in S
  <1> DEFINE T == {n - x : x \in S}
  <1>1. T \in SUBSET Nat /\ T # {}
    <2>1. ASSUME NEW x \in S PROVE n - x \in Nat
      <3>1. x \in 1 .. n
        OBVIOUS
      <3> QED  BY <3>1
    <2> QED  BY <2>1
  <1>2. PICK m \in T : \A x \in T : m <= x
    BY <1>1, LeastNatural
  <1>3. PICK y \in S : m = n - y
    BY <1>2
  <1>4. ASSUME NEW x \in S PROVE y >= x
    <2>1. n - x \in T
      OBVIOUS
    <2>2. n - y <= n - x
      BY <1>2, <1>3, <2>1
    <2>3. x \in Int /\ y \in Int
      OBVIOUS
    <2> QED  BY <2>2, <2>3
  <1> QED  BY <1>4 DEF Max

(* search_send_get_peers asks live nodes of the list only, so the count of its *)
(* requests stays within 3.                                                    *)
LEMMA AskableFacts ==
    ASSUME NEW sr \in SearchRec
    PROVE  /\ \A i \in Askable(sr) : i \in DOMAIN sr.nodes /\ Live(sr.nodes[i])
           /\ StepAsks(sr) \subseteq Askable(sr) /\ Pushed(sr) \subseteq Askable(sr)
  <1>1. \A i \in Askable(sr) : i \in DOMAIN sr.nodes /\ Live(sr.nodes[i])
    BY DEF Askable, MayAsk
  <1>2. StepAsks(sr) \subseteq Askable(sr)
    BY DEF StepAsks, FirstOf
  <1>3. Pushed(sr) \subseteq Askable(sr)
    <2>1. CASE Askable(sr) = {}
      BY <2>1 DEF Pushed
    <2>2. CASE Askable(sr) # {}
      <3>1. sr.nodes \in Seq(SearchNode)
        BY RecFields
      <3>2. Len(sr.nodes) \in Nat /\ Askable(sr) \in SUBSET (1 .. Len(sr.nodes))
        BY <1>1, <3>1
      <3>3. Max(Askable(sr)) \in Askable(sr)
        BY <2>2, <3>2, MaxFacts
      <3> QED  BY <2>2, <3>3 DEF Pushed
    <2> QED  BY <2>1, <2>2
  <1> QED  BY <1>1, <1>2, <1>3

(* A request to a live node. *)
LEMMA SentFacts ==
    ASSUME NEW n \in SearchNode, Live(n)
    PROVE  Sent(n) \in SearchNode /\ Sent(n).id = n.id
  <1>1. n.pinged + 1 \in 0 .. MaxRequests /\ 0 \in Age
    <2>1. n.pinged \in 0 .. 3 /\ n.pinged < 3
      BY NodeFields DEF Live, MaxRequests
    <2> QED  BY <2>1, SizeFacts DEF MaxRequests, Age
  <1>2. [n EXCEPT !.pinged = n.pinged + 1, !.request = 0] \in SearchNode
    BY <1>1 DEF SearchNode
  <1>3. Sent(n) = [n EXCEPT !.pinged = n.pinged + 1, !.request = 0]
    BY DEF Sent
  <1>4. Sent(n).id = n.id
    BY <1>3 DEF SearchNode
  <1> QED  BY <1>2, <1>3, <1>4

LEMMA AskedFacts ==
    ASSUME NEW sr \in GoodRec, NEW I, I \subseteq Askable(sr)
    PROVE  Asked(sr, I) \in GoodRec /\ Alike(Asked(sr, I), sr)
  <1> DEFINE old == sr.nodes
             new == [i \in DOMAIN old |-> IF i \in I THEN Sent(old[i]) ELSE old[i]]
  <1>1. sr \in SearchRec /\ old \in Seq(SearchNode)
    BY RecFields DEF GoodRec
  <1>2. ASSUME NEW i \in DOMAIN old
        PROVE  new[i] \in SearchNode /\ new[i].id = old[i].id
    <2>1. old[i] \in SearchNode
      BY <1>1
    <2>2. i \in I => Live(old[i])
      BY <1>1, AskableFacts
    <2> QED  BY <2>1, <2>2, SentFacts
  <1>3. new = [i \in DOMAIN old |-> new[i]]
    OBVIOUS
  <1>4. Asked(sr, I) = [sr EXCEPT !.nodes = new]
    BY DEF Asked
  <1> HIDE DEF new
  <1> QED  BY <1>2, <1>3, <1>4, SameIds

LEMMA AnnouncedFacts ==
    ASSUME NEW sr \in GoodRec
    PROVE  Announced(sr) \in GoodRec /\ Alike(Announced(sr), sr)
  <1> DEFINE old == sr.nodes
             new == [i \in DOMAIN old |->
                        IF i \notin Front(sr) THEN old[i]
                        ELSE IF ~ old[i].token THEN [old[i] EXCEPT !.acked = TRUE]
                        ELSE IF old[i].acked THEN old[i] ELSE Sent(old[i])]
  <1>1. sr \in SearchRec /\ old \in Seq(SearchNode)
    BY RecFields DEF GoodRec
  <1>2. ASSUME NEW i \in DOMAIN old
        PROVE  new[i] \in SearchNode /\ new[i].id = old[i].id
    <2>1. old[i] \in SearchNode
      BY <1>1
    <2>2. i \in Front(sr) => Live(old[i])
      BY DEF Front, FirstOf
    <2>3. [old[i] EXCEPT !.acked = TRUE] \in SearchNode
            /\ [old[i] EXCEPT !.acked = TRUE].id = old[i].id
      BY <2>1 DEF SearchNode
    <2>4. i \in Front(sr) => Sent(old[i]) \in SearchNode /\ Sent(old[i]).id = old[i].id
      BY <2>1, <2>2, SentFacts
    <2> QED  BY <2>1, <2>3, <2>4
  <1>3. new = [i \in DOMAIN old |-> new[i]]
    OBVIOUS
  <1>4. Announced(sr) = [sr EXCEPT !.nodes = new]
    BY DEF Announced
  <1> HIDE DEF new
  <1> QED  BY <1>2, <1>3, <1>4, SameIds

(* insert_search_node of the node that replied. *)
LEMMA InsertRepliedFacts ==
    ASSUME NEW sr \in GoodRec, NEW id \in Peers, NEW token \in TokenKinds
    PROVE  InsertReplied(sr, id, token) \in GoodRec /\ Alike(InsertReplied(sr, id, token), sr)
  <1> DEFINE with == InsertSearchNode(sr, id)
             old == with.nodes
             new == [i \in DOMAIN old |->
                        IF old[i].id = id THEN MarkReplied(old[i], token) ELSE old[i]]
  <1>0. with \in GoodRec /\ Alike(with, sr)
    BY InsertFacts
  <1>5. InsertReplied(sr, id, token) = [with EXCEPT !.nodes = new]
    BY DEF InsertReplied
  <1> HIDE DEF with
  <1>1. with \in SearchRec /\ old \in Seq(SearchNode)
    BY <1>0, RecFields DEF GoodRec
  <1>2. ASSUME NEW i \in DOMAIN old
        PROVE  new[i] \in SearchNode /\ new[i].id = old[i].id
    <2>1. old[i] \in SearchNode
      BY <1>1
    <2>2. 0 \in Age /\ Never \in Age /\ 0 \in 0 .. MaxRequests
      BY SizeFacts DEF Age, Never, MaxRequests
    <2>3. ASSUME NEW n \in SearchNode
          PROVE  MarkReplied(n, token) \in SearchNode /\ MarkReplied(n, token).id = n.id
      <3> DEFINE tk == IF token = "overlong" THEN n.token ELSE token = "usable"
                 m == [n EXCEPT !.replied = TRUE, !.reply = 0, !.request = Never, !.pinged = 0,
                                !.token = tk]
      <3>1. tk \in BOOLEAN
        BY NodeFields
      <3>2. MarkReplied(n, token) = m
        BY DEF MarkReplied
      <3> HIDE DEF tk
      <3>3. m \in SearchNode /\ m.id = n.id
        BY <2>2, <3>1 DEF SearchNode
      <3> QED  BY <3>2, <3>3
    <2>4. MarkReplied(old[i], token) \in SearchNode /\ MarkReplied(old[i], token).id = old[i].id
      BY <2>1, <2>3
    <2> QED  BY <2>1, <2>4
  <1>3. new = [i \in DOMAIN old |-> new[i]]
    OBVIOUS
  <1> HIDE DEF new
  <1>4. InsertReplied(sr, id, token) \in GoodRec /\ Alike(InsertReplied(sr, id, token), with)
    BY <1>0, <1>2, <1>3, <1>5, SameIds
  <1> QED  BY <1>0, <1>4 DEF Alike

(* search_step: the search keeps its place, its step is now or as it was, and an *)
(* unfinished one is done exactly when its completion was reported.              *)
LEMMA SearchStepFacts ==
    ASSUME NEW sr \in GoodRec
    PROVE  /\ SearchStep(sr) \in GoodRec
           /\ SearchStep(sr).id = sr.id /\ SearchStep(sr).tid = sr.tid
           /\ SearchStep(sr).step \in {0, sr.step}
           /\ ~ sr.done => SearchStep(sr).done = Completes(sr)
  <1> DEFINE new == SearchStep(sr)
  <1>1. sr \in SearchRec
    BY DEF GoodRec
  <1>2. sr.done \in BOOLEAN /\ 0 \in Age
    BY <1>1, RecFields, SizeFacts DEF Age
  <1>3. ASSUME NEW a \in GoodRec, Alike(a, sr), NEW d \in BOOLEAN
        PROVE  /\ [a EXCEPT !.done = d, !.step = 0] \in GoodRec
               /\ [a EXCEPT !.done = d, !.step = 0].id = sr.id
               /\ [a EXCEPT !.done = d, !.step = 0].tid = sr.tid
               /\ [a EXCEPT !.done = d, !.step = 0].step = 0
               /\ [a EXCEPT !.done = d, !.step = 0].done = d
    <2> DEFINE b == [a EXCEPT !.done = d, !.step = 0]
    <2>1. a \in SearchRec /\ Len(a.nodes) <= SearchNodes /\ Ordered(a.id, a.nodes)
      BY DEF GoodRec
    <2>2. b \in SearchRec /\ b.nodes = a.nodes /\ b.id = a.id /\ b.tid = a.tid
            /\ b.step = 0 /\ b.done = d
      BY <1>2, <2>1 DEF SearchRec
    <2> HIDE DEF b
    <2>3. b \in GoodRec /\ b.id = sr.id /\ b.tid = sr.tid
      BY <1>3, <2>1, <2>2 DEF GoodRec, Alike
    <2> QED  BY <2>2, <2>3 DEF b
  <1>4. CASE AllDone(sr)
    <2> DEFINE a == IF sr.announce THEN Announced(sr) ELSE sr
    <2>1. a \in GoodRec /\ Alike(a, sr)
      BY AnnouncedFacts DEF Alike
    <2>2. Completes(sr) \in BOOLEAN
      BY DEF Completes, AllDone
    <2>3. new = [a EXCEPT !.done = Completes(sr), !.step = 0]
      BY <1>4 DEF SearchStep
    <2> HIDE DEF a, new
    <2>4. new \in GoodRec /\ new.id = sr.id /\ new.tid = sr.tid /\ new.step = 0
            /\ new.done = Completes(sr)
      BY <1>3, <2>1, <2>2, <2>3
    <2> QED  BY <2>4 DEF new
  <1>5. CASE ~ AllDone(sr)
    <2>1. Completes(sr) = FALSE
      BY <1>5 DEF Completes
    <2>2. CASE sr.step <= RequestWait
      <3>1. new = sr
        BY <1>5, <2>2 DEF SearchStep
      <3> QED  BY <1>2, <2>1, <3>1
    <2>3. CASE ~ (sr.step <= RequestWait)
      <3> DEFINE a == Asked(sr, StepAsks(sr))
      <3>1. a \in GoodRec /\ Alike(a, sr)
        BY <1>1, AskableFacts, AskedFacts
      <3>2. new = [a EXCEPT !.step = 0]
        BY <1>5, <2>3 DEF SearchStep
      <3>3. a.done = sr.done /\ a \in SearchRec
        BY <3>1 DEF Alike, GoodRec
      <3> HIDE DEF a, new
      <3>4. new = [a EXCEPT !.done = sr.done, !.step = 0]
        BY <3>2, <3>3 DEF SearchRec
      <3>5. new \in GoodRec /\ new.id = sr.id /\ new.tid = sr.tid /\ new.step = 0
            /\ new.done = sr.done
        BY <1>2, <1>3, <3>1, <3>4
      <3> QED  BY <1>2, <2>1, <3>5 DEF new
    <2> QED  BY <2>2, <2>3
  <1> QED  BY <1>4, <1>5

(* Some nodes of a search go. *)
LEMMA SomeNodes ==
    ASSUME NEW sr \in GoodRec, NEW I \in SUBSET DOMAIN sr.nodes
    PROVE  LET new == [sr EXCEPT !.nodes = At(sr.nodes, I)]
           IN  new \in GoodRec /\ Alike(new, sr) /\ new.nodes = At(sr.nodes, I)
  <1> DEFINE old == sr.nodes
             nodes == At(old, I)
  <1>1. sr \in SearchRec /\ Len(old) <= SearchNodes /\ Ordered(sr.id, old) /\ old \in Seq(SearchNode)
    BY RecFields DEF GoodRec
  <1>2. /\ nodes \in Seq(SearchNode) /\ Len(nodes) \in 0 .. Len(old)
        /\ \A k \in DOMAIN nodes : Nth(I, k) \in DOMAIN old /\ nodes[k] = old[Nth(I, k)]
        /\ \A k, l \in DOMAIN nodes : k < l => Nth(I, k) < Nth(I, l)
    BY <1>1, AtFacts
  <1>3. Len(old) \in Nat /\ SearchNodes \in Nat
    BY <1>1, SizeFacts
  <1> HIDE DEF nodes
  <1>4. Len(nodes) <= SearchNodes
    BY <1>1, <1>2, <1>3
  <1>5. Ordered(sr.id, nodes)
    BY <1>1, <1>2 DEF Ordered
  <1>6. LET new == [sr EXCEPT !.nodes = nodes]
        IN  new \in GoodRec /\ Alike(new, sr) /\ new.nodes = nodes
    BY <1>1, <1>2, <1>4, <1>5, WithNodes
  <1> QED  BY <1>6 DEF nodes

(* flush_search_node *)
LEMMA FlushFacts ==
    ASSUME NEW sr \in GoodRec, NEW id
    PROVE  FlushSearchNode(sr, id) \in GoodRec /\ Alike(FlushSearchNode(sr, id), sr)
  BY SomeNodes DEF FlushSearchNode

(* A search that is used again keeps its order and its transaction id, and is no *)
(* longer done.                                                                  *)
LEMMA ReusedFacts ==
    ASSUME NEW sr \in GoodRec
    PROVE  /\ Reused(sr) \in GoodRec /\ Reused(sr).id = sr.id /\ Reused(sr).tid = sr.tid
           /\ Reused(sr).done = FALSE
  <1> DEFINE nodes == sr.nodes
             I == {i \in DOMAIN nodes : Live(nodes[i]) /\ nodes[i].reply <= ReplyAge}
             kept == At(nodes, I)
             mid == [sr EXCEPT !.nodes = kept]
             reset == [i \in DOMAIN kept |->
                        [kept[i] EXCEPT !.pinged = 0, !.token = FALSE,
                                        !.replied = FALSE, !.acked = FALSE]]
             end == [mid EXCEPT !.nodes = reset]
  <1>1. mid \in GoodRec /\ Alike(mid, sr) /\ mid.nodes = kept
    <2>1. I \in SUBSET DOMAIN nodes
      OBVIOUS
    <2> HIDE DEF I
    <2> QED  BY <2>1, SomeNodes
  <1>2. kept \in Seq(SearchNode)
    BY <1>1, RecFields DEF GoodRec
  <1>a. sr \in SearchRec
    BY DEF GoodRec
  <1>b. Reused(sr) = [sr EXCEPT !.done = FALSE, !.nodes = reset]
    BY DEF Reused
  <1> HIDE DEF kept
  <1>3. ASSUME NEW i \in DOMAIN kept PROVE reset[i] \in SearchNode /\ reset[i].id = kept[i].id
    <2>1. kept[i] \in SearchNode /\ 0 \in 0 .. MaxRequests
      BY <1>2 DEF MaxRequests
    <2> QED  BY <2>1 DEF SearchNode
  <1>4. reset = [i \in DOMAIN kept |-> reset[i]]
    OBVIOUS
  <1> HIDE DEF reset, mid
  <1>5. end \in GoodRec /\ Alike(end, mid) /\ end.nodes = reset
    BY <1>1, <1>3, <1>4, SameIds
  <1> HIDE DEF end
  <1>6. reset \in Seq(SearchNode) /\ Len(reset) <= SearchNodes /\ Ordered(sr.id, reset)
    BY <1>1, <1>5, RecFields DEF GoodRec, Alike
  <1> DEFINE new == [sr EXCEPT !.done = FALSE, !.nodes = reset]
  <1>7. new \in SearchRec /\ new.id = sr.id /\ new.tid = sr.tid /\ new.done = FALSE /\ new.nodes = reset
    BY <1>a, <1>6 DEF SearchRec
  <1> HIDE DEF new
  <1>8. new \in GoodRec
    BY <1>6, <1>7 DEF GoodRec
  <1>9. Reused(sr) = new
    BY <1>b DEF new
  <1> QED  BY <1>7, <1>8, <1>9

-----------------------------------------------------------------------------
(* The list of searches *)

(* Good searches, one per hash, within the limit. *)
GoodList(list) ==
    /\ list \in Seq(GoodRec) /\ Len(list) <= MaxSearches
    /\ \A i, j \in DOMAIN list : list[i].id = list[j].id => i = j

(* The completions that were told are the ones of the searches that are done, but *)
(* for the quiet ones, which are done and were not told.                          *)
TalliedAs(sr, count, quiet) ==
    /\ count[sr.id] = IF sr.done /\ sr.id \notin quiet THEN 1 ELSE 0
    /\ sr.id \in quiet => sr.done

Tally(list, count, quiet) == \A i \in DOMAIN list : TalliedAs(list[i], count, quiet)

(* Some search is unfinished. *)
Waiting(list) == \E i \in DOMAIN list : ~ list[i].done

(* The searches of one list are the ones of another, in another state. *)
Within(new, list) ==
    \A i \in DOMAIN new : \E j \in DOMAIN list : new[i].id = list[j].id /\ new[i].tid = list[j].tid

LEMMA ListFacts ==
    ASSUME NEW list, GoodList(list)
    PROVE  /\ Len(list) \in Nat /\ DOMAIN list = 1 .. Len(list)
           /\ \A i \in DOMAIN list : /\ list[i] \in GoodRec /\ list[i] \in SearchRec
                                     /\ list[i].id \in Targets /\ list[i].tid \in 0 .. Tids - 1
                                     /\ list[i].step \in Age /\ list[i].done \in BOOLEAN
  <1>1. list \in Seq(GoodRec)
    BY DEF GoodList
  <1>2. ASSUME NEW i \in DOMAIN list PROVE list[i] \in GoodRec /\ list[i] \in SearchRec
    BY <1>1 DEF GoodRec
  <1> QED  BY <1>1, <1>2, RecFields

(* expire_searches keeps the searches stepped recently, as they are. *)
LEMMA ExpireFacts ==
    ASSUME NEW list, GoodList(list)
    PROVE  /\ GoodList(ExpireSearches(list))
           /\ \A k \in DOMAIN ExpireSearches(list) :
                \E j \in DOMAIN list : ExpireSearches(list)[k] = list[j]
           /\ \A j \in DOMAIN list : list[j].step <= ExpireAge =>
                \E k \in DOMAIN ExpireSearches(list) : ExpireSearches(list)[k] = list[j]
  <1> DEFINE I == {i \in DOMAIN list : list[i].step <= ExpireAge}
             kept == At(list, I)
  <1>1. list \in Seq(GoodRec) /\ Len(list) <= MaxSearches /\ Len(list) \in Nat
    BY DEF GoodList
  <1>2. \A i, j \in DOMAIN list : list[i].id = list[j].id => i = j
    BY DEF GoodList
  <1>3. ExpireSearches(list) = kept
    BY DEF ExpireSearches
  <1>4. I \in SUBSET DOMAIN list
    OBVIOUS
  <1>5. /\ kept \in Seq(GoodRec) /\ Len(kept) \in 0 .. Len(list)
        /\ \A k \in DOMAIN kept : Nth(I, k) \in DOMAIN list /\ kept[k] = list[Nth(I, k)]
        /\ \A k, l \in DOMAIN kept : k < l => Nth(I, k) < Nth(I, l)
        /\ \A i \in I : \E k \in DOMAIN kept : Nth(I, k) = i
    <2> HIDE DEF I
    <2> QED  BY <1>1, <1>4, AtFacts
  <1>6. ASSUME NEW j \in DOMAIN list, list[j].step <= ExpireAge
        PROVE  \E k \in DOMAIN kept : kept[k] = list[j]
    <2>1. j \in I
      BY <1>6
    <2> HIDE DEF I, kept
    <2> QED  BY <1>5, <2>1
  <1>7. ASSUME NEW k \in DOMAIN kept, NEW l \in DOMAIN kept, kept[k].id = kept[l].id
        PROVE  k = l
    <2>1. k \in Int /\ l \in Int
      BY <1>5
    <2>2. Nth(I, k) = Nth(I, l) /\ Nth(I, k) \in Int
      BY <1>1, <1>2, <1>5, <1>7
    <2> HIDE DEF I, kept
    <2>3. ~ (k < l) /\ ~ (l < k)
      BY <1>5, <2>2
    <2> QED  BY <2>1, <2>3
  <1>8. Len(kept) <= MaxSearches
    BY <1>1, <1>5, SizeFacts
  <1> HIDE DEF kept, I
  <1>9. GoodList(kept)
    BY <1>5, <1>7, <1>8 DEF GoodList
  <1> QED  BY <1>3, <1>5, <1>6, <1>9

(* A list whose searches keep their hashes. *)
LEMMA SameSlots ==
    ASSUME NEW list, GoodList(list), NEW new, new = [i \in DOMAIN list |-> new[i]],
           \A i \in DOMAIN list : new[i] \in GoodRec /\ new[i].id = list[i].id
    PROVE  GoodList(new) /\ DOMAIN new = DOMAIN list
  <1>1. list \in Seq(GoodRec) /\ Len(list) <= MaxSearches
    BY DEF GoodList
  <1>2. new \in Seq(GoodRec) /\ Len(new) = Len(list) /\ DOMAIN new = DOMAIN list
    BY <1>1, MappedList
  <1> QED  BY <1>1, <1>2 DEF GoodList

(* The requests of a step, or of a pushed search, carry its transaction id and hash. *)
LEMMA RequestFacts ==
    ASSUME NEW sr \in SearchRec, NEW I, I \subseteq Askable(sr)
    PROVE  \A r \in RequestsTo(sr, I) : r \in Request /\ r.tid = sr.tid /\ r.target = sr.id
  <1>1. ASSUME NEW i \in I PROVE sr.nodes[i].id \in Peers
    <2>1. i \in DOMAIN sr.nodes /\ sr.nodes \in Seq(SearchNode)
      BY AskableFacts, RecFields
    <2>2. sr.nodes[i] \in SearchNode
      BY <2>1
    <2> QED  BY <2>2, NodeFields
  <1>2. sr.tid \in 0 .. Tids - 1 /\ sr.id \in Targets
    BY RecFields
  <1> QED  BY <1>1, <1>2 DEF RequestsTo, Request

(* search_time after the searches are stepped: set, and not too far away, as long *)
(* as some search is unfinished.                                                  *)
LEMMA NextWakeFacts ==
    ASSUME NEW list, GoodList(list), NEW w \in NextWake(list)
    PROVE  w \in NoWake .. RequestWait + Jitter /\ (Waiting(list) => w # NoWake)
  <1> DEFINE waiting == {i \in DOMAIN list : ~ list[i].done}
             left == {RequestWait - list[i].step : i \in waiting}
  <1>1. waiting # {} <=> Waiting(list)
    BY DEF Waiting
  <1>2. NextWake(list) = IF waiting = {} THEN {NoWake} ELSE {Max({0, Min(left) + r}) : r \in 0 .. Jitter}
    BY DEF NextWake
  <1>3. CASE waiting = {}
    BY <1>1, <1>2, <1>3, SizeFacts DEF NoWake
  <1>4. CASE waiting # {}
    <2>1. ASSUME NEW i \in waiting
          PROVE  /\ RequestWait - list[i].step \in Int
                 /\ RequestWait - MaxAge <= RequestWait - list[i].step
                 /\ RequestWait - list[i].step <= RequestWait
      <3>1. list[i].step \in 0 .. MaxAge
        BY ListFacts DEF Age
      <3> QED  BY <3>1, SizeFacts
    <2>2. left # {} /\ left \in SUBSET Int /\ RequestWait - MaxAge \in Int
      BY <1>4, <2>1, SizeFacts
    <2>3. \A x \in left : RequestWait - MaxAge <= x /\ x <= RequestWait
      BY <2>1
    <2> HIDE DEF waiting, left
    <2>4. Min(left) \in left
      BY <2>2, <2>3, MinFacts
    <2>5. Min(left) \in Int /\ Min(left) <= RequestWait
      BY <2>2, <2>3, <2>4
    <2>6. PICK r \in 0 .. Jitter : w = Max({0, Min(left) + r})
      BY <1>2, <1>4
    <2>7. r \in Int /\ 0 <= r /\ r <= Jitter /\ Min(left) + r \in Int
      BY <2>5, SizeFacts
    <2>8. w \in Nat /\ w = IF Min(left) + r > 0 THEN Min(left) + r ELSE 0
      BY <2>6, <2>7, MaxWithZero
    <2>9. w <= RequestWait + Jitter
      BY <2>5, <2>7, <2>8, SizeFacts
    <2> QED  BY <2>8, <2>9, SizeFacts DEF NoWake
  <1> QED  BY <1>3, <1>4

(* What a list of searches and the other variables must be for dht_periodic. *)
Ready(list) ==
    /\ GoodList(list)
    /\ told \in [Targets -> 0 .. 2] /\ silent \subseteq Targets /\ Tally(list, told, silent)
    /\ wake \in NoWake .. RequestWait + Jitter /\ (Waiting(list) => wake # NoWake)

(* The end of dht_periodic, over a list in good order: it stays so, completions are *)
(* told, the timer is armed, the requests sent are those of searches of the list,   *)
(* and the searches stepped recently are still there.                               *)
LEMMA TimersFacts ==
    ASSUME NEW list, Ready(list), NEW requests, requests \subseteq Request,
           Timers(list, requests), UNCHANGED silent
    PROVE  /\ Ready(searches)' /\ net' \subseteq Request
           /\ Within(searches', list)
           /\ \A r \in net' : \/ r \in requests
                              \/ \E j \in DOMAIN list : r.tid = list[j].tid /\ r.target = list[j].id
           /\ \A j \in DOMAIN list : list[j].step <= ExpireAge =>
                \E i \in DOMAIN searches' : searches'[i].id = list[j].id
  <1>0. GoodList(list) /\ told \in [Targets -> 0 .. 2] /\ Tally(list, told, silent)
          /\ wake \in NoWake .. RequestWait + Jitter /\ (Waiting(list) => wake # NoWake)
          /\ silent' = silent /\ silent \subseteq Targets
    BY DEF Ready
  <1>1. PICK expire \in BOOLEAN :
        LET kept == IF expire THEN ExpireSearches(list) ELSE list
            due == {i \in DOMAIN kept : wake = 0 /\ Due(kept[i])}
            stepped == [i \in DOMAIN kept |-> IF i \in due THEN SearchStep(kept[i]) ELSE kept[i]]
        IN  /\ searches' = stepped
            /\ net' = requests \cup UNION {RequestsTo(kept[i], StepAsks(kept[i])) : i \in due}
            /\ told' = [t \in Targets |->
                            IF \E i \in due : kept[i].id = t /\ Completes(kept[i])
                                THEN Report(told[t]) ELSE told[t]]
            /\ wake' \in IF wake = 0 THEN NextWake(stepped) ELSE {wake}
    BY DEF Timers
  <1> DEFINE kept == IF expire THEN ExpireSearches(list) ELSE list
             due == {i \in DOMAIN kept : wake = 0 /\ Due(kept[i])}
             stepped == [i \in DOMAIN kept |-> IF i \in due THEN SearchStep(kept[i]) ELSE kept[i]]
             finish(t) == \E i \in due : kept[i].id = t /\ Completes(kept[i])
  <1>2. /\ searches' = stepped
        /\ net' = requests \cup UNION {RequestsTo(kept[i], StepAsks(kept[i])) : i \in due}
        /\ told' = [t \in Targets |-> IF finish(t) THEN Report(told[t]) ELSE told[t]]
        /\ wake' \in IF wake = 0 THEN NextWake(stepped) ELSE {wake}
    BY <1>1
  <1>3. /\ GoodList(kept)
        /\ \A k \in DOMAIN kept : \E j \in DOMAIN list : kept[k] = list[j]
        /\ \A j \in DOMAIN list : list[j].step <= ExpireAge => \E k \in DOMAIN kept : kept[k] = list[j]
    BY <1>0, ExpireFacts
  <1> HIDE DEF kept
  <1>4. Tally(kept, told, silent) /\ (Waiting(kept) => wake # NoWake)
    BY <1>0, <1>3 DEF Tally, Waiting
  <1>5. \A i \in DOMAIN kept : kept[i] \in GoodRec /\ kept[i] \in SearchRec
            /\ kept[i].id \in Targets /\ kept[i].done \in BOOLEAN
    BY <1>3, ListFacts
  <1>6. ASSUME NEW i \in DOMAIN kept
        PROVE  /\ stepped[i] \in GoodRec
               /\ stepped[i].id = kept[i].id /\ stepped[i].tid = kept[i].tid
               /\ i \in due => ~ kept[i].done /\ stepped[i].done = Completes(kept[i])
               /\ i \notin due => stepped[i] = kept[i]
    <2>1. CASE i \in due
      <3>1. ~ kept[i].done
        BY <2>1 DEF Due
      <3>2. stepped[i] = SearchStep(kept[i])
        BY <2>1
      <3> HIDE DEF stepped, due
      <3> QED  BY <1>5, <2>1, <3>1, <3>2, SearchStepFacts
    <2>2. CASE i \notin due
      BY <1>5, <2>2
    <2> QED  BY <2>1, <2>2
  <1>7. stepped = [i \in DOMAIN kept |-> stepped[i]]
    OBVIOUS
  <1>8. due \subseteq DOMAIN kept
    OBVIOUS
  <1> HIDE DEF stepped, due
  <1>9. GoodList(stepped) /\ DOMAIN stepped = DOMAIN kept
    BY <1>3, <1>6, <1>7, SameSlots
  <1>11. told' \in [Targets -> 0 .. 2]
    <2>1. \A n \in 0 .. 2 : Report(n) \in 0 .. 2
      BY DEF Report
    <2>2. ASSUME NEW t \in Targets
          PROVE (IF finish(t) THEN Report(told[t]) ELSE told[t]) \in 0 .. 2
      <3>1. told[t] \in 0 .. 2
        BY <1>0
      <3> QED  BY <2>1, <3>1
    <2> HIDE DEF finish
    <2> QED  BY <1>2, <2>2
  <1>12. Tally(stepped, told', silent)
    <2>1. SUFFICES ASSUME NEW i \in DOMAIN kept
                   PROVE  /\ told'[stepped[i].id] =
                                IF stepped[i].done /\ stepped[i].id \notin silent THEN 1 ELSE 0
                          /\ stepped[i].id \in silent => stepped[i].done
      BY <1>9 DEF Tally, TalliedAs
    <2> DEFINE t == kept[i].id
    <2>2. /\ t \in Targets /\ stepped[i].id = t /\ (t \in silent => kept[i].done)
          /\ told[t] = IF kept[i].done /\ t \notin silent THEN 1 ELSE 0
      BY <1>4, <1>5, <1>6 DEF Tally, TalliedAs
    <2>3. finish(t) <=> i \in due /\ Completes(kept[i])
      BY <1>3, <1>8 DEF GoodList
    <2>4. told'[t] = IF finish(t) THEN Report(told[t]) ELSE told[t]
      BY <1>2, <2>2
    <2> HIDE DEF finish, t
    <2>5. CASE i \in due /\ Completes(kept[i])
      <3>1. told[t] = 0 /\ stepped[i].done /\ t \notin silent
        BY <1>6, <2>2, <2>5
      <3>2. told'[t] = 1
        BY <2>3, <2>4, <2>5, <3>1 DEF Report
      <3> QED  BY <2>2, <3>1, <3>2
    <2>6. CASE i \in due /\ ~ Completes(kept[i])
      <3>1. told[t] = 0 /\ ~ stepped[i].done /\ t \notin silent
        BY <1>6, <2>2, <2>6
      <3> QED  BY <2>2, <2>3, <2>4, <2>6, <3>1
    <2>7. CASE i \notin due
      BY <1>6, <2>2, <2>3, <2>4, <2>7
    <2> QED  BY <2>5, <2>6, <2>7
  <1>13. wake' \in NoWake .. RequestWait + Jitter /\ (Waiting(stepped) => wake' # NoWake)
    <2>1. CASE wake = 0
      BY <1>2, <1>9, <2>1, NextWakeFacts
    <2>2. CASE wake # 0
      <3>1. due = {}
        BY <2>2 DEF due
      <3>2. wake' = wake
        BY <1>2, <2>2
      <3>3. Waiting(stepped) => Waiting(kept)
        BY <1>6, <1>9, <3>1 DEF Waiting
      <3> QED  BY <1>0, <1>4, <3>2, <3>3
    <2> QED  BY <2>1, <2>2
  <1>14. Ready(searches)'
    <2>1. GoodList(searches')
      BY <1>2, <1>9
    <2> QED  BY <1>0, <1>2, <1>11, <1>12, <1>13, <2>1 DEF Ready, GoodList, Tally, TalliedAs, Waiting
  <1>15. ASSUME NEW i \in due
         PROVE  \A r \in RequestsTo(kept[i], StepAsks(kept[i])) :
                    /\ r \in Request
                    /\ \E j \in DOMAIN list : r.tid = list[j].tid /\ r.target = list[j].id
    <2>1. kept[i] \in SearchRec
      BY <1>5, <1>8
    <2>2. \A r \in RequestsTo(kept[i], StepAsks(kept[i])) :
            r \in Request /\ r.tid = kept[i].tid /\ r.target = kept[i].id
      BY <2>1, AskableFacts, RequestFacts
    <2> QED  BY <1>3, <1>8, <2>2
  <1>16. net' \subseteq Request
    BY <1>2, <1>15
  <1>17. \A r \in net' : r \in requests \/ \E j \in DOMAIN list : r.tid = list[j].tid /\ r.target = list[j].id
    BY <1>2, <1>15
  <1>18. Within(searches', list)
    BY <1>2, <1>3, <1>6, <1>9 DEF Within
  <1>19. \A j \in DOMAIN list : list[j].step <= ExpireAge =>
                \E i \in DOMAIN searches' : searches'[i].id = list[j].id
    BY <1>2, <1>3, <1>6, <1>9
  <1> QED  BY <1>14, <1>16, <1>17, <1>18, <1>19

-----------------------------------------------------------------------------
(* dht_search *)

(* A search whose nodes were not asked yet. *)
Unasked(sr) == \A i \in DOMAIN sr.nodes : sr.nodes[i].pinged = 0 /\ ~ sr.nodes[i].replied

(* What a slot for the hash t must be: an unfinished search that asked nobody yet, in *)
(* a list in good order whose other searches are told right.                          *)
Slot(list, at, t) ==
    /\ GoodList(list) /\ at \in DOMAIN list /\ list[at].id = t /\ ~ list[at].done
    /\ Unasked(list[at])
    /\ \A i \in DOMAIN list : i # at => TalliedAs(list[i], told, silent)

(* The nodes dht_search inserts were not asked either. *)
LEMMA InsertUnasked ==
    ASSUME NEW sr \in GoodRec, Unasked(sr), NEW ids \in SUBSET Peers
    PROVE  Unasked(InsertAll(sr, ids))
  <1> DEFINE X == {s \in GoodRec : Unasked(s)}
  <1>1. sr \in X /\ IsFiniteSet(ids)
    BY DistAssumption, FS_Subset
  <1>2. ASSUME NEW s \in X, NEW id \in ids PROVE InsertSearchNode(s, id) \in X
    <2> DEFINE i == Place(s, id)
               new == Shifted(s.nodes, i, FreshSearchNode(id))
    <2>1. InsertSearchNode(s, id) \in GoodRec
      BY InsertFacts
    <2>2. \/ InsertSearchNode(s, id) = s
          \/ InsertSearchNode(s, id) = [s EXCEPT !.nodes = new]
      BY DEF InsertSearchNode
    <2>3. s \in SearchRec /\ s.nodes \in Seq(SearchNode)
      BY RecFields DEF GoodRec
    <2>4. CASE InsertSearchNode(s, id) = [s EXCEPT !.nodes = new]
      <3>1. InsertSearchNode(s, id).nodes = new
        BY <2>3, <2>4 DEF SearchRec
      <3>2. DOMAIN new = 1 .. Min({Len(s.nodes) + 1, SearchNodes})
        BY DEF Shifted
      <3>3. Min({Len(s.nodes) + 1, SearchNodes}) \in Nat
              /\ Min({Len(s.nodes) + 1, SearchNodes}) <= Len(s.nodes) + 1
        <4>1. Len(s.nodes) \in Nat /\ SearchNodes \in Nat
          BY <2>3, SizeFacts
        <4> DEFINE two == {Len(s.nodes) + 1, SearchNodes}
        <4>2. two \in SUBSET Int /\ two # {} /\ 0 \in Int /\ \A x \in two : 0 <= x
          BY <4>1
        <4> HIDE DEF two
        <4>3. Min(two) \in two /\ \A x \in two : Min(two) <= x
          BY <4>2, MinFacts
        <4> QED  BY <4>1, <4>3 DEF two
      <3>4. i \in Nat \ {0}
        BY PlaceFacts
      <3>5. ASSUME NEW j \in DOMAIN new
            PROVE  new[j].pinged = 0 /\ ~ new[j].replied
        <4>1. new[j] = IF j < i THEN s.nodes[j] ELSE IF j = i THEN FreshSearchNode(id)
                       ELSE s.nodes[j - 1]
          BY DEF Shifted
        <4>2. FreshSearchNode(id).pinged = 0 /\ ~ FreshSearchNode(id).replied
          BY DEF FreshSearchNode
        <4>3. j < i => j \in DOMAIN s.nodes
          BY <2>3, <3>2, <3>3, <3>4, PlaceFacts
        <4>4. j > i => j - 1 \in DOMAIN s.nodes
          BY <2>3, <3>2, <3>3, <3>4
        <4>5. j \in Nat
          BY <3>2, <3>3
        <4> HIDE DEF new, i
        <4> QED  BY <3>4, <4>1, <4>2, <4>3, <4>4, <4>5 DEF Unasked
      <3> QED  BY <2>1, <3>1, <3>5 DEF Unasked
    <2> QED  BY <2>1, <2>2, <2>4
  <1>3. InsertAll(sr, ids) \in X
    <2> HIDE DEF X
    <2> QED  BY <1>1, <1>2, InsertAllStays
  <1> QED  BY <1>3

(* The first step of a search that asked nobody yet completes it exactly when it has *)
(* no node to ask.                                                                   *)
LEMMA CompletesAtOnce ==
    ASSUME NEW sr \in GoodRec, Unasked(sr)
    PROVE  Completes(sr) <=> sr.nodes = <<>>
  <1>1. sr.nodes \in Seq(SearchNode) /\ Len(sr.nodes) \in Nat /\ DOMAIN sr.nodes = 1 .. Len(sr.nodes)
    BY RecFields DEF GoodRec
  <1>2. CASE sr.nodes = <<>>
    <2>1. Front(sr) = {}
      BY <1>2 DEF Front, FirstOf
    <2> QED  BY <1>2, <2>1 DEF Completes, AllDone, AllAcked
  <1>3. CASE sr.nodes # <<>>
    <2> DEFINE S == {i \in DOMAIN sr.nodes : Live(sr.nodes[i])}
    <2>1. 1 \in DOMAIN sr.nodes
      BY <1>1, <1>3
    <2>2. 1 \in S
      BY <2>1 DEF Unasked, Live, MaxRequests
    <2>3. {j \in S : j < 1} = {}
      BY <1>1
    <2>4. Cardinality({j \in S : j < 1}) = 0
      BY <2>3, FS_EmptySet
    <2> HIDE DEF S
    <2>5. 1 \in FirstOf(S, K)
      BY <2>2, <2>4, SizeFacts DEF FirstOf
    <2>6. 1 \in Front(sr)
      BY <2>5 DEF Front, S
    <2>7. ~ sr.nodes[1].replied
      BY <2>1 DEF Unasked
    <2> QED  BY <1>3, <2>6, <2>7 DEF Completes, AllDone
  <1> QED  BY <1>2, <1>3

(* Setting the announce flag. *)
LEMMA AnnounceFacts ==
    ASSUME NEW sr \in GoodRec, NEW a \in BOOLEAN
    PROVE  LET new == [sr EXCEPT !.announce = a]
           IN  /\ new \in GoodRec /\ new.id = sr.id /\ new.tid = sr.tid
               /\ new.step = sr.step /\ new.done = sr.done /\ new.nodes = sr.nodes
  <1> DEFINE new == [sr EXCEPT !.announce = a]
  <1>1. sr \in SearchRec /\ Len(sr.nodes) <= SearchNodes /\ Ordered(sr.id, sr.nodes)
    BY DEF GoodRec
  <1>2. new \in SearchRec /\ new.nodes = sr.nodes /\ new.id = sr.id /\ new.tid = sr.tid
            /\ new.step = sr.step /\ new.done = sr.done
    BY <1>1 DEF SearchRec
  <1> HIDE DEF new
  <1>3. new \in GoodRec
    BY <1>1, <1>2 DEF GoodRec
  <1>4. /\ new \in GoodRec /\ new.id = sr.id /\ new.tid = sr.tid
        /\ new.step = sr.step /\ new.done = sr.done /\ new.nodes = sr.nodes
    BY <1>2, <1>3
  <1> QED  BY <1>4 DEF new

(* The end of dht_search: the first step of the search, with the timer due at once. *)
LEMMA StartFacts ==
    ASSUME NEW t \in Targets, NEW list, NEW at, Slot(list, at, t),
           told \in [Targets -> 0 .. 2], silent \subseteq Targets, net \subseteq Request,
           NEW announce \in BOOLEAN, NEW seeds \in SUBSET Peers, NEW callback \in BOOLEAN,
           StartSearch(t, [list |-> list, at |-> at], announce, seeds, callback)
    PROVE  /\ Ready(searches)' /\ net' \subseteq Request
           /\ DOMAIN searches' = DOMAIN list
           /\ \A i \in DOMAIN list : searches'[i].id = list[i].id /\ searches'[i].tid = list[i].tid
           /\ \A r \in net' : r \in net \/ (r.tid = list[at].tid /\ r.target = t)
  <1> DEFINE base == [list[at] EXCEPT !.announce = announce]
             sr == InsertAll(base, seeds)
             new == [list EXCEPT ![at] = SearchStep(sr)]
  <1>1. /\ searches' = new
        /\ net' = net \cup RequestsTo(sr, StepAsks(sr))
        /\ told' = [told EXCEPT ![t] = IF Completes(sr) /\ callback THEN 1 ELSE 0]
        /\ silent' = IF callback \/ sr.nodes # <<>> THEN silent \ {t} ELSE silent \cup {t}
        /\ wake' = 0
    BY DEF StartSearch
  <1>2. GoodList(list) /\ at \in DOMAIN list /\ list[at].id = t /\ ~ list[at].done
          /\ Unasked(list[at])
    BY DEF Slot
  <1>3. list[at] \in GoodRec
    BY <1>2, ListFacts
  <1>4. base \in GoodRec /\ base.id = t /\ base.tid = list[at].tid /\ ~ base.done
          /\ base.nodes = list[at].nodes
    BY <1>2, <1>3, AnnounceFacts
  <1>a. Unasked(base)
    <2> HIDE DEF base
    <2> QED  BY <1>2, <1>4 DEF Unasked
  <1> HIDE DEF base
  <1>5. sr \in GoodRec /\ sr.id = t /\ sr.tid = list[at].tid /\ ~ sr.done
    BY <1>4, InsertAllFacts DEF Alike
  <1>b. Completes(sr) <=> sr.nodes = <<>>
    <2>1. Unasked(sr)
      BY <1>4, <1>a, InsertUnasked
    <2> HIDE DEF sr
    <2> QED  BY <1>5, <2>1, CompletesAtOnce
  <1> HIDE DEF sr
  <1>6. /\ SearchStep(sr) \in GoodRec /\ SearchStep(sr).id = t
        /\ SearchStep(sr).tid = list[at].tid /\ SearchStep(sr).done = Completes(sr)
    BY <1>5, SearchStepFacts
  <1>7. new = [i \in DOMAIN list |-> new[i]]
    OBVIOUS
  <1>8. ASSUME NEW i \in DOMAIN list
        PROVE  /\ new[i] \in GoodRec /\ new[i].id = list[i].id /\ new[i].tid = list[i].tid
               /\ i # at => new[i] = list[i]
               /\ i = at => new[i].done = Completes(sr)
    <2>1. i # at => new[i] = list[i]
      OBVIOUS
    <2>2. i = at => new[i] = SearchStep(sr)
      OBVIOUS
    <2>3. list[i] \in GoodRec
      BY <1>2, ListFacts
    <2> HIDE DEF new
    <2> QED  BY <1>2, <1>6, <2>1, <2>2, <2>3
  <1> HIDE DEF new
  <1>9. GoodList(new) /\ DOMAIN new = DOMAIN list
    BY <1>2, <1>7, <1>8, SameSlots
  <1>10. told' \in [Targets -> 0 .. 2] /\ silent' \subseteq Targets
    BY <1>1
  <1>11. Tally(new, told', silent')
    <2>1. SUFFICES ASSUME NEW i \in DOMAIN list
                   PROVE  /\ told'[new[i].id] =
                                IF new[i].done /\ new[i].id \notin silent' THEN 1 ELSE 0
                          /\ new[i].id \in silent' => new[i].done
      BY <1>9 DEF Tally, TalliedAs
    <2>2. CASE i = at
      <3>1. new[i].id = t /\ (new[i].done <=> Completes(sr))
        BY <1>2, <1>8, <2>2
      <3>2. told'[t] = IF Completes(sr) /\ callback THEN 1 ELSE 0
        BY <1>1
      <3>3. t \in silent' <=> ~ callback /\ sr.nodes = <<>>
        BY <1>1
      <3>4. t \in silent' <=> ~ callback /\ Completes(sr)
        BY <1>b, <3>3
      <3>5. CASE Completes(sr) /\ callback
        BY <3>1, <3>2, <3>4, <3>5
      <3>6. CASE ~ (Completes(sr) /\ callback)
        BY <3>1, <3>2, <3>4, <3>6
      <3> QED  BY <3>5, <3>6
    <2>3. CASE i # at
      <3>1. new[i] = list[i] /\ list[i].id # t /\ list[i].id \in Targets
        BY <1>2, <1>8, <2>3, ListFacts DEF GoodList
      <3>2. told'[list[i].id] = told[list[i].id]
        BY <1>1, <3>1
      <3>3. /\ told[list[i].id] = IF list[i].done /\ list[i].id \notin silent THEN 1 ELSE 0
            /\ list[i].id \in silent => list[i].done
        BY <2>3 DEF Slot, TalliedAs
      <3>4. list[i].id \in silent' <=> list[i].id \in silent
        BY <1>1, <3>1
      <3> QED  BY <3>1, <3>2, <3>3, <3>4
    <2> QED  BY <2>2, <2>3
  <1>12. Ready(searches)'
    <2>1. wake' \in NoWake .. RequestWait + Jitter /\ wake' # NoWake
      BY <1>1, SizeFacts DEF NoWake
    <2> QED  BY <1>1, <1>9, <1>10, <1>11, <2>1 DEF Ready, GoodList, Tally, TalliedAs, Waiting
  <1>13. \A r \in RequestsTo(sr, StepAsks(sr)) : r \in Request /\ r.tid = sr.tid /\ r.target = sr.id
    <2>1. sr \in SearchRec
      BY <1>5 DEF GoodRec
    <2> QED  BY <2>1, AskableFacts, RequestFacts
  <1> QED  BY <1>1, <1>5, <1>8, <1>9, <1>12, <1>13

(* A fresh search. *)
LEMMA NewRecFacts ==
    ASSUME NEW t \in Targets, search_id \in 0 .. Tids - 1
    PROVE  /\ NewRec(t) \in GoodRec /\ NewRec(t).id = t /\ NewRec(t).tid = search_id
           /\ ~ NewRec(t).done /\ Unasked(NewRec(t))
  <1>1. <<>> \in Seq(SearchNode) /\ Len(<<>>) = 0 /\ DOMAIN <<>> = {} /\ Never \in Age
    BY SizeFacts DEF Age, Never
  <1>2. NewRec(t) \in SearchRec /\ NewRec(t).nodes = <<>> /\ NewRec(t).id = t
          /\ NewRec(t).tid = search_id /\ ~ NewRec(t).done
    BY <1>1 DEF NewRec, SearchRec
  <1>3. Ordered(t, <<>>) /\ Unasked(NewRec(t))
    BY <1>1, <1>2 DEF Ordered, Unasked
  <1> QED  BY <1>1, <1>2, <1>3, SizeFacts DEF GoodRec

(* new_search: a finished search is overwritten, or one slot is added within the *)
(* limit; every other search stays as it is.                                     *)
LEMMA NewSearchFacts ==
    ASSUME NEW t \in Targets, search_id \in 0 .. Tids - 1, Ready(searches), SlotOf(t) = {},
           NEW slot \in NewSearch(t)
    PROVE  /\ slot = [list |-> slot.list, at |-> slot.at]
           /\ Slot(slot.list, slot.at, t) /\ slot.list[slot.at] = NewRec(t)
           /\ \A i \in DOMAIN slot.list :
                i # slot.at => \E j \in DOMAIN searches : slot.list[i] = searches[j]
           /\ \A j \in DOMAIN searches : ~ searches[j].done =>
                \E i \in DOMAIN slot.list : slot.list[i] = searches[j]
  <1> DEFINE expired == {i \in OldestDone : searches[i].step > ExpireAge}
             put(i) == [list |-> [searches EXCEPT ![i] = NewRec(t)], at |-> i]
             allocated == [list |-> <<NewRec(t)>> \o searches, at |-> 1]
  <1>1. /\ GoodList(searches) /\ Tally(searches, told, silent) /\ searches \in Seq(GoodRec)
        /\ Len(searches) \in Nat
    BY DEF Ready, GoodList
  <1>2. \A i \in DOMAIN searches : searches[i].id # t
    BY DEF SlotOf
  <1>3. NewRec(t) \in GoodRec /\ NewRec(t).id = t /\ ~ NewRec(t).done /\ Unasked(NewRec(t))
    BY NewRecFacts
  <1>4. \/ \E i \in OldestDone : slot = put(i)
        \/ slot = allocated /\ Len(searches) < MaxSearches
    BY DEF NewSearch
  <1>5. ASSUME NEW i \in OldestDone, slot = put(i)
        PROVE  /\ slot = [list |-> slot.list, at |-> slot.at]
               /\ Slot(slot.list, slot.at, t) /\ slot.list[slot.at] = NewRec(t)
               /\ \A k \in DOMAIN slot.list :
                    k # slot.at => \E j \in DOMAIN searches : slot.list[k] = searches[j]
               /\ \A j \in DOMAIN searches : ~ searches[j].done =>
                    \E k \in DOMAIN slot.list : slot.list[k] = searches[j]
    <2> DEFINE list == [searches EXCEPT ![i] = NewRec(t)]
    <2>1. i \in DOMAIN searches /\ searches[i].done
      BY DEF OldestDone
    <2>2. slot.list = list /\ slot.at = i /\ slot = [list |-> slot.list, at |-> slot.at]
      BY <1>5
    <2>3. list \in Seq(GoodRec) /\ Len(list) = Len(searches) /\ DOMAIN list = DOMAIN searches
      BY <1>1, <1>3, <2>1
    <2>4. list[i] = NewRec(t) /\ \A k \in DOMAIN searches : k # i => list[k] = searches[k]
      BY <1>1, <2>1
    <2> HIDE DEF list
    <2>5. GoodList(list)
      <3>1. ASSUME NEW k \in DOMAIN list, NEW l \in DOMAIN list, list[k].id = list[l].id PROVE k = l
        BY <1>1, <1>2, <1>3, <2>3, <2>4, <3>1 DEF GoodList
      <3> QED  BY <1>1, <2>3, <3>1 DEF GoodList
    <2>6. Slot(list, i, t)
      BY <1>1, <1>3, <2>1, <2>3, <2>4, <2>5 DEF Slot, Tally
    <2>7. \A k \in DOMAIN list : k # i => \E j \in DOMAIN searches : list[k] = searches[j]
      BY <2>3, <2>4
    <2>8. \A j \in DOMAIN searches : ~ searches[j].done => \E k \in DOMAIN list : list[k] = searches[j]
      BY <2>1, <2>3, <2>4
    <2> QED  BY <2>2, <2>4, <2>6, <2>7, <2>8
  <1>6. ASSUME slot = allocated, Len(searches) < MaxSearches
        PROVE  /\ slot = [list |-> slot.list, at |-> slot.at]
               /\ Slot(slot.list, slot.at, t) /\ slot.list[slot.at] = NewRec(t)
               /\ \A k \in DOMAIN slot.list :
                    k # slot.at => \E j \in DOMAIN searches : slot.list[k] = searches[j]
               /\ \A j \in DOMAIN searches : ~ searches[j].done =>
                    \E k \in DOMAIN slot.list : slot.list[k] = searches[j]
    <2> DEFINE list == <<NewRec(t)>> \o searches
    <2>1. slot.list = list /\ slot.at = 1 /\ slot = [list |-> slot.list, at |-> slot.at]
      BY <1>6
    <2>2. DOMAIN searches = 1 .. Len(searches)
      BY <1>1
    <2>3. /\ list \in Seq(GoodRec) /\ Len(list) = Len(searches) + 1
          /\ DOMAIN list = 1 .. Len(searches) + 1
          /\ list[1] = NewRec(t)
          /\ \A k \in 1 .. Len(searches) : list[k + 1] = searches[k]
      BY <1>1, <1>3
    <2> HIDE DEF list
    <2>4. ASSUME NEW k \in DOMAIN list, k # 1
          PROVE  k - 1 \in DOMAIN searches /\ list[k] = searches[k - 1]
      <3>1. k - 1 \in 1 .. Len(searches) /\ (k - 1) + 1 = k
        BY <1>1, <2>3, <2>4
      <3> QED  BY <2>2, <2>3, <3>1
    <2>5. ASSUME NEW j \in DOMAIN searches PROVE j + 1 \in DOMAIN list /\ list[j + 1] = searches[j]
      BY <1>1, <2>2, <2>3
    <2>6. 1 \in DOMAIN list
      BY <1>1, <2>3
    <2>7. GoodList(list)
      <3>1. ASSUME NEW k \in DOMAIN list, NEW l \in DOMAIN list, list[k].id = list[l].id PROVE k = l
        <4>1. k = 1 <=> l = 1
          BY <1>2, <1>3, <2>3, <2>4, <3>1
        <4>2. CASE k # 1
          <5>1. k - 1 \in DOMAIN searches /\ l - 1 \in DOMAIN searches
                  /\ searches[k - 1].id = searches[l - 1].id
            BY <2>4, <3>1, <4>1, <4>2
          <5>2. k - 1 = l - 1
            BY <1>1, <5>1 DEF GoodList
          <5>3. k \in Int /\ l \in Int
            BY <1>1, <2>3
          <5> QED  BY <5>2, <5>3
        <4> QED  BY <4>1, <4>2
      <3>2. Len(list) <= MaxSearches
        BY <1>1, <1>6, <2>3, SizeFacts
      <3> QED  BY <2>3, <3>1, <3>2 DEF GoodList
    <2>8. Slot(list, 1, t)
      BY <1>1, <1>3, <2>3, <2>4, <2>6, <2>7 DEF Slot, Tally
    <2>9. \A k \in DOMAIN list : k # 1 => \E j \in DOMAIN searches : list[k] = searches[j]
      BY <2>4
    <2>10. \A j \in DOMAIN searches : \E k \in DOMAIN list : list[k] = searches[j]
      BY <2>5
    <2> QED  BY <2>1, <2>3, <2>8, <2>9, <2>10
  <1> QED  BY <1>4, <1>5, <1>6

-----------------------------------------------------------------------------
(* The invariant, action by action *)

(* The list and the timer are in good order, and every other variable has its type. *)
SearchInv ==
    /\ Ready(searches) /\ net \subseteq Request
    /\ search_id \in 0 .. Tids - 1 /\ calls \in 0 .. MaxCalls /\ replies \in 0 .. MaxReplies

(* The requests that are new belong to searches of the list. *)
OwnRequests ==
    \A r \in net' : \/ r \in net
                    \/ \E j \in DOMAIN searches : r.tid = searches[j].tid /\ r.target = searches[j].id

(* A step that starts no search. *)
SameSearches ==
    /\ search_id' = search_id /\ calls' \in {calls, calls + 1}
    /\ Within(searches', searches) /\ OwnRequests

(* A step that starts a search for t with the next transaction id. *)
NewSearchFor(t) ==
    /\ calls < MaxCalls /\ calls' = calls + 1
    /\ search_id' = (search_id + 1) % Tids
    /\ \A i \in DOMAIN searches' :
        \/ searches'[i].tid = search_id /\ searches'[i].id = t
        \/ \E j \in DOMAIN searches :
            searches'[i].id = searches[j].id /\ searches'[i].tid = searches[j].tid
    /\ \A r \in net' : r \in net \/ (r.tid = search_id /\ r.target = t)

(* What every step comes to. *)
Outcome ==
    /\ SearchInv' /\ UnfinishedStay
    /\ SameSearches \/ \E t \in Targets : NewSearchFor(t)

(* Every search of the list is still there. *)
LEMMA AllStay ==
    ASSUME \A j \in DOMAIN searches : ~ searches[j].done /\ searches[j].step <= ExpireAge =>
                \E i \in DOMAIN searches' : searches'[i].id = searches[j].id
    PROVE  UnfinishedStay
  BY DEF UnfinishedStay, Unfinished

(* The nodes of a search that is used again are asked anew. *)
LEMMA ReusedUnasked ==
    ASSUME NEW sr \in GoodRec
    PROVE  Unasked(Reused(sr))
  <1> DEFINE nodes == sr.nodes
             I == {i \in DOMAIN nodes : Live(nodes[i]) /\ nodes[i].reply <= ReplyAge}
             kept == At(nodes, I)
             reset == [i \in DOMAIN kept |->
                        [kept[i] EXCEPT !.pinged = 0, !.token = FALSE,
                                        !.replied = FALSE, !.acked = FALSE]]
  <1>1. I \in SUBSET DOMAIN nodes
    OBVIOUS
  <1>2. sr \in SearchRec /\ Reused(sr).nodes = reset
    BY DEF Reused, GoodRec, SearchRec
  <1> HIDE DEF I
  <1>3. kept \in Seq(SearchNode)
    <2> DEFINE mid == [sr EXCEPT !.nodes = kept]
    <2>1. mid \in GoodRec /\ mid.nodes = kept
      BY <1>1, SomeNodes
    <2> HIDE DEF mid
    <2> QED  BY <2>1, RecFields DEF GoodRec
  <1> HIDE DEF kept
  <1>4. ASSUME NEW i \in DOMAIN kept PROVE reset[i].pinged = 0 /\ ~ reset[i].replied
    <2> DEFINE n == kept[i]
               m == [n EXCEPT !.pinged = 0, !.token = FALSE, !.replied = FALSE, !.acked = FALSE]
    <2>1. n \in SearchNode /\ reset[i] = m
      BY <1>3
    <2> HIDE DEF n, reset
    <2>2. m.pinged = 0 /\ ~ m.replied
      BY <2>1 DEF SearchNode
    <2> QED  BY <2>1, <2>2
  <1>5. DOMAIN reset = DOMAIN kept
    OBVIOUS
  <1> HIDE DEF reset
  <1> QED  BY <1>2, <1>4, <1>5 DEF Unasked

LEMMA AgainStep ==
    ASSUME SearchInv, NEW t \in Targets, NEW announce \in BOOLEAN, NEW seeds \in SUBSET Peers,
           NEW callback \in BOOLEAN, SearchAgain(t, announce, seeds, callback),
           calls < MaxCalls, calls' = calls + 1, UNCHANGED replies
    PROVE  Outcome
  <1>1. PICK i \in SlotOf(t) :
            StartSearch(t, [list |-> [searches EXCEPT ![i] = Reused(searches[i])], at |-> i],
                        announce, seeds, callback)
    BY DEF SearchAgain
  <1> DEFINE list == [searches EXCEPT ![i] = Reused(searches[i])]
  <1>2. Ready(searches) /\ GoodList(searches) /\ i \in DOMAIN searches /\ searches[i].id = t
    BY DEF SearchInv, Ready, SlotOf
  <1>3. /\ Reused(searches[i]) \in GoodRec /\ Reused(searches[i]).id = t
        /\ Reused(searches[i]).tid = searches[i].tid /\ ~ Reused(searches[i]).done
        /\ Unasked(Reused(searches[i]))
    BY <1>2, ListFacts, ReusedFacts, ReusedUnasked
  <1>4. list = [k \in DOMAIN searches |-> list[k]]
    OBVIOUS
  <1>5. ASSUME NEW k \in DOMAIN searches
        PROVE  /\ list[k] \in GoodRec /\ list[k].id = searches[k].id /\ list[k].tid = searches[k].tid
               /\ k # i => list[k] = searches[k]
               /\ k = i => list[k] = Reused(searches[i])
    <2>1. /\ k # i => list[k] = searches[k]
          /\ k = i => list[k] = Reused(searches[i])
      BY <1>2
    <2>2. searches[k] \in GoodRec
      BY <1>2, ListFacts
    <2> HIDE DEF list
    <2> QED  BY <1>2, <1>3, <2>1, <2>2
  <1> HIDE DEF list
  <1>6. GoodList(list) /\ DOMAIN list = DOMAIN searches
    BY <1>2, <1>4, <1>5, SameSlots
  <1>7. Slot(list, i, t)
    BY <1>2, <1>3, <1>5, <1>6 DEF Slot, Ready, Tally
  <1>8. told \in [Targets -> 0 .. 2] /\ silent \subseteq Targets /\ net \subseteq Request
    BY DEF SearchInv, Ready
  <1>9. StartSearch(t, [list |-> list, at |-> i], announce, seeds, callback)
    BY <1>1 DEF list
  <1>10. /\ Ready(searches)' /\ net' \subseteq Request
         /\ DOMAIN searches' = DOMAIN list
         /\ \A k \in DOMAIN list : searches'[k].id = list[k].id /\ searches'[k].tid = list[k].tid
         /\ \A r \in net' : r \in net \/ (r.tid = list[i].tid /\ r.target = t)
    BY <1>7, <1>8, <1>9, StartFacts
  <1>11. search_id' = search_id
    BY DEF SearchAgain
  <1>12. SearchInv'
    BY <1>10, <1>11, SizeFacts DEF SearchInv
  <1>13. UnfinishedStay
    BY <1>5, <1>6, <1>10, AllStay
  <1>14. SameSearches
    BY <1>2, <1>5, <1>6, <1>10, <1>11 DEF SameSearches, Within, OwnRequests
  <1> QED  BY <1>12, <1>13, <1>14 DEF Outcome

LEMMA AnewStep ==
    ASSUME SearchInv, NEW t \in Targets, NEW announce \in BOOLEAN, NEW seeds \in SUBSET Peers,
           NEW callback \in BOOLEAN, SearchAnew(t, announce, seeds, callback),
           calls < MaxCalls, calls' = calls + 1, UNCHANGED replies
    PROVE  Outcome
  <1>1. PICK slot \in NewSearch(t) : StartSearch(t, slot, announce, seeds, callback)
    BY DEF SearchAnew
  <1>2. /\ SlotOf(t) = {} /\ search_id' = (search_id + 1) % Tids
        /\ Ready(searches) /\ search_id \in 0 .. Tids - 1
        /\ told \in [Targets -> 0 .. 2] /\ silent \subseteq Targets /\ net \subseteq Request
    BY DEF SearchAnew, SearchInv, Ready
  <1> DEFINE list == slot.list
             at == slot.at
  <1>3. /\ slot = [list |-> list, at |-> at] /\ Slot(list, at, t) /\ list[at] = NewRec(t)
        /\ \A i \in DOMAIN list : i # at => \E j \in DOMAIN searches : list[i] = searches[j]
        /\ \A j \in DOMAIN searches : ~ searches[j].done => \E i \in DOMAIN list : list[i] = searches[j]
    BY <1>2, NewSearchFacts
  <1> HIDE DEF list, at
  <1>4. StartSearch(t, [list |-> list, at |-> at], announce, seeds, callback)
    BY <1>1, <1>3
  <1>5. /\ Ready(searches)' /\ net' \subseteq Request
        /\ DOMAIN searches' = DOMAIN list
        /\ \A i \in DOMAIN list : searches'[i].id = list[i].id /\ searches'[i].tid = list[i].tid
        /\ \A r \in net' : r \in net \/ (r.tid = list[at].tid /\ r.target = t)
    <2>1. Slot(list, at, t)
      BY <1>3
    <2>2. told \in [Targets -> 0 .. 2] /\ silent \subseteq Targets /\ net \subseteq Request
      BY <1>2
    <2> QED  BY <1>4, <2>1, <2>2, StartFacts
  <1>6. list[at].tid = search_id /\ list[at].id = t
    BY <1>2, <1>3, NewRecFacts
  <1>7. search_id' \in 0 .. Tids - 1
    <2>1. search_id \in Nat /\ Tids \in Nat \ {0}
      BY <1>2, SizeFacts
    <2>2. (search_id + 1) % Tids \in 0 .. Tids - 1
      BY <2>1
    <2> QED  BY <1>2, <2>2
  <1>8. SearchInv'
    BY <1>5, <1>7, SizeFacts DEF SearchInv
  <1>9. UnfinishedStay
    BY <1>3, <1>5, AllStay
  <1>10. NewSearchFor(t)
    BY <1>2, <1>3, <1>5, <1>6 DEF NewSearchFor
  <1> QED  BY <1>8, <1>9, <1>10 DEF Outcome

(* Nothing of the list changes. *)
LEMMA IdleStep ==
    ASSUME SearchInv, UNCHANGED <<searches, search_id, wake, net, told, silent>>,
           calls' \in 0 .. MaxCalls, calls' \in {calls, calls + 1}, replies' \in 0 .. MaxReplies
    PROVE  Outcome
  <1>1. SearchInv'
    BY DEF SearchInv, Ready, GoodList, Tally, TalliedAs, Waiting
  <1>2. UnfinishedStay
    BY AllStay
  <1>3. SameSearches
    BY DEF SameSearches, Within, OwnRequests
  <1> QED  BY <1>1, <1>2, <1>3 DEF Outcome

(* dht_periodic, over a list its beginning left alike. *)
LEMMA TimersStep ==
    ASSUME SearchInv, NEW list, list = [i \in DOMAIN searches |-> list[i]],
           \A i \in DOMAIN searches : list[i] \in GoodRec /\ Alike(list[i], searches[i]),
           NEW requests, requests \subseteq Request,
           \A r \in requests : \/ r \in net
                               \/ \E j \in DOMAIN searches : r.tid = searches[j].tid
                                                          /\ r.target = searches[j].id,
           Timers(list, requests), UNCHANGED <<search_id, silent, calls>>, replies' \in 0 .. MaxReplies
    PROVE  Outcome
  <1>1. /\ GoodList(searches) /\ Tally(searches, told, silent) /\ (Waiting(searches) => wake # NoWake)
        /\ told \in [Targets -> 0 .. 2] /\ silent \subseteq Targets
        /\ wake \in NoWake .. RequestWait + Jitter
    BY DEF SearchInv, Ready
  <1>2. \A i \in DOMAIN searches : /\ list[i].id = searches[i].id /\ list[i].tid = searches[i].tid
                                   /\ list[i].step = searches[i].step /\ list[i].done = searches[i].done
    BY DEF Alike
  <1>3. GoodList(list) /\ DOMAIN list = DOMAIN searches
    BY <1>1, <1>2, SameSlots
  <1>4. Ready(list)
    BY <1>1, <1>2, <1>3 DEF Ready, Tally, TalliedAs, Waiting
  <1>5. /\ Ready(searches)' /\ net' \subseteq Request
        /\ Within(searches', list)
        /\ \A r \in net' : \/ r \in requests
                           \/ \E j \in DOMAIN list : r.tid = list[j].tid /\ r.target = list[j].id
        /\ \A j \in DOMAIN list : list[j].step <= ExpireAge =>
             \E i \in DOMAIN searches' : searches'[i].id = list[j].id
    BY <1>4, TimersFacts
  <1>6. SearchInv'
    BY <1>5 DEF SearchInv
  <1>7. UnfinishedStay
    BY <1>2, <1>3, <1>5, AllStay
  <1>8. Within(searches', searches)
    BY <1>2, <1>3, <1>5 DEF Within
  <1>9. OwnRequests
    BY <1>2, <1>3, <1>5 DEF OwnRequests
  <1>10. SameSearches
    BY <1>8, <1>9 DEF SameSearches
  <1> QED  BY <1>6, <1>7, <1>10 DEF Outcome

LEMMA PeriodicStep ==
    ASSUME SearchInv, Periodic
    PROVE  Outcome
  <1>1. GoodList(searches) /\ net \subseteq Request /\ replies \in 0 .. MaxReplies
    BY DEF SearchInv, Ready
  <1>2. searches = [i \in DOMAIN searches |-> searches[i]]
    BY <1>1 DEF GoodList
  <1>3. \A i \in DOMAIN searches : searches[i] \in GoodRec /\ Alike(searches[i], searches[i])
    BY <1>1, ListFacts DEF Alike
  <1>4. Timers(searches, net) /\ UNCHANGED <<search_id, silent, calls>> /\ replies' \in 0 .. MaxReplies
    BY <1>1 DEF Periodic
  <1> QED  BY <1>1, <1>2, <1>3, <1>4, TimersStep

(* _dht_handle_response, followed by the end of dht_periodic. *)
LEMMA ReplyStep ==
    ASSUME SearchInv, HandleReply
    PROVE  Outcome
  <1>1. GoodList(searches) /\ net \subseteq Request /\ replies \in 0 .. MaxReplies
    BY DEF SearchInv, Ready
  <1>2. searches = [i \in DOMAIN searches |-> searches[i]]
    BY <1>1 DEF GoodList
  <1>3. \A i \in DOMAIN searches : searches[i] \in GoodRec /\ Alike(searches[i], searches[i])
    BY <1>1, ListFacts DEF Alike
  <1>4. UNCHANGED <<search_id, silent, calls>> /\ replies' \in 0 .. MaxReplies
    BY <1>1, SizeFacts DEF HandleReply
  <1>5. PICK r \in net, again \in BOOLEAN :
        LET left == IF again THEN net ELSE net \ {r}
        IN  \/ Timers(Snubbed(r.to), left)
            \/ FindSearch(r.tid) = {} /\ Timers(searches, left)
            \/ \E i \in FindSearch(r.tid), named \in SUBSET Peers, token \in TokenKinds :
                LET sr == InsertAll(searches[i], named)
                IN  Timers(TakeReply(i, r.to, named, token),
                           left \cup RequestsTo(sr, Pushed(sr)))
    BY DEF HandleReply
  <1> DEFINE left == IF again THEN net ELSE net \ {r}
  <1>6. left \subseteq Request /\ left \subseteq net /\ r \in Request
    BY <1>1
  <1>7. CASE Timers(Snubbed(r.to), left)
    <2> DEFINE list == Snubbed(r.to)
    <2>1. list = [i \in DOMAIN searches |-> list[i]]
      BY DEF Snubbed
    <2>2. ASSUME NEW i \in DOMAIN searches PROVE list[i] \in GoodRec /\ Alike(list[i], searches[i])
      <3>1. list[i] = FlushSearchNode(searches[i], r.to)
        BY DEF Snubbed
      <3> QED  BY <1>3, <3>1, FlushFacts
    <2> HIDE DEF list, left
    <2>3. Timers(list, left)
      BY <1>7 DEF list
    <2> QED  BY <1>4, <1>6, <2>1, <2>2, <2>3, TimersStep
  <1>8. CASE Timers(searches, left)
    <2> HIDE DEF left
    <2> QED  BY <1>2, <1>3, <1>4, <1>6, <1>8, TimersStep
  <1>9. ASSUME NEW i \in FindSearch(r.tid), NEW named \in SUBSET Peers, NEW token \in TokenKinds,
               Timers(TakeReply(i, r.to, named, token),
                      left \cup RequestsTo(InsertAll(searches[i], named),
                                           Pushed(InsertAll(searches[i], named))))
        PROVE  Outcome
    <2> DEFINE sr == InsertAll(searches[i], named)
               list == TakeReply(i, r.to, named, token)
               end == InsertReplied(Asked(sr, Pushed(sr)), r.to, token)
               requests == left \cup RequestsTo(sr, Pushed(sr))
    <2>1. i \in DOMAIN searches /\ r.to \in Peers
      BY <1>6 DEF FindSearch, FirstOf, Request
    <2>2. sr \in GoodRec /\ Alike(sr, searches[i])
      BY <1>3, <2>1, InsertAllFacts
    <2>3. list = [searches EXCEPT ![i] = end]
      BY DEF TakeReply
    <2>4. requests \subseteq Request /\ \A q \in requests : \/ q \in net
                 \/ \E j \in DOMAIN searches : q.tid = searches[j].tid /\ q.target = searches[j].id
      <3> HIDE DEF sr
      <3>1. sr \in SearchRec
        BY <2>2 DEF GoodRec
      <3>2. \A q \in RequestsTo(sr, Pushed(sr)) : q \in Request /\ q.tid = sr.tid /\ q.target = sr.id
        BY <3>1, AskableFacts, RequestFacts
      <3>3. sr.tid = searches[i].tid /\ sr.id = searches[i].id
        BY <2>2 DEF Alike
      <3> QED  BY <1>6, <2>1, <3>2, <3>3
    <2>5. end \in GoodRec /\ Alike(end, searches[i])
      <3> HIDE DEF sr
      <3>1. sr \in SearchRec
        BY <2>2 DEF GoodRec
      <3>2. Asked(sr, Pushed(sr)) \in GoodRec /\ Alike(Asked(sr, Pushed(sr)), sr)
        BY <2>2, <3>1, AskableFacts, AskedFacts
      <3>3. end \in GoodRec /\ Alike(end, Asked(sr, Pushed(sr)))
        BY <2>1, <3>2, InsertRepliedFacts
      <3> QED  BY <2>2, <3>2, <3>3 DEF Alike
    <2>6. Timers(list, requests)
      BY <1>9
    <2> HIDE DEF end, list, requests
    <2>7. list = [k \in DOMAIN searches |-> list[k]]
      BY <2>3
    <2>8. ASSUME NEW k \in DOMAIN searches PROVE list[k] \in GoodRec /\ Alike(list[k], searches[k])
      <3>1. list[k] = IF k = i THEN end ELSE searches[k]
        BY <2>1, <2>3
      <3> QED  BY <1>3, <2>5, <3>1
    <2> QED  BY <1>4, <2>4, <2>6, <2>7, <2>8, TimersStep
  <1> QED  BY <1>5, <1>7, <1>8, <1>9

(* Time passes. *)
LEMMA TickStep ==
    ASSUME SearchInv, Tick
    PROVE  Outcome
  <1>1. /\ GoodList(searches) /\ Tally(searches, told, silent) /\ (Waiting(searches) => wake # NoWake)
        /\ told \in [Targets -> 0 .. 2] /\ silent \subseteq Targets
        /\ wake \in NoWake .. RequestWait + Jitter
    BY DEF SearchInv, Ready
  <1> DEFINE aged(sr) == [j \in DOMAIN sr.nodes |-> AgedNode(sr.nodes[j])]
             older(sr) == [sr EXCEPT !.step = Older(sr.step), !.nodes = aged(sr)]
             new == [i \in DOMAIN searches |-> older(searches[i])]
  <1>2. searches' = new
    BY DEF Tick
  <1>3. \A a \in Age : Older(a) \in Age
    BY SizeFacts DEF Age, Older
  <1>4. ASSUME NEW sr \in GoodRec
        PROVE  /\ older(sr) \in GoodRec /\ older(sr).id = sr.id /\ older(sr).tid = sr.tid
               /\ older(sr).done = sr.done
    <2>1. /\ sr \in SearchRec /\ sr.step \in Age /\ sr.nodes \in Seq(SearchNode)
      BY RecFields DEF GoodRec
    <2> DEFINE nodes == aged(sr)
               mid == [sr EXCEPT !.nodes = nodes]
    <2>2. ASSUME NEW j \in DOMAIN sr.nodes
          PROVE  nodes[j] \in SearchNode /\ nodes[j].id = sr.nodes[j].id
      <3> DEFINE n == sr.nodes[j]
                 m == [n EXCEPT !.request = Older(n.request), !.reply = Older(n.reply)]
      <3>1. n \in SearchNode
        BY <2>1
      <3>2. nodes[j] = m
        BY DEF AgedNode
      <3> HIDE DEF n
      <3>3. Older(n.request) \in Age /\ Older(n.reply) \in Age
        BY <1>3, <3>1, NodeFields
      <3>4. m \in SearchNode /\ m.id = n.id
        BY <3>1, <3>3 DEF SearchNode
      <3> QED  BY <3>2, <3>4 DEF n
    <2>3. nodes = [j \in DOMAIN sr.nodes |-> nodes[j]]
      OBVIOUS
    <2>4. older(sr) = [sr EXCEPT !.step = Older(sr.step), !.nodes = nodes]
      OBVIOUS
    <2> HIDE DEF nodes, older, aged
    <2>5. mid \in GoodRec /\ Alike(mid, sr) /\ mid.nodes = nodes
      BY <2>2, <2>3, SameIds
    <2> HIDE DEF mid
    <2>6. nodes \in Seq(SearchNode) /\ Len(nodes) <= SearchNodes /\ Ordered(sr.id, nodes)
      BY <2>5, RecFields DEF GoodRec, Alike
    <2>7. Older(sr.step) \in Age
      BY <1>3, <2>1
    <2> DEFINE end == [sr EXCEPT !.step = Older(sr.step), !.nodes = nodes]
    <2>8. end \in SearchRec /\ end.id = sr.id /\ end.tid = sr.tid /\ end.done = sr.done
            /\ end.nodes = nodes
      BY <2>1, <2>6, <2>7 DEF SearchRec
    <2> HIDE DEF end
    <2>9. end \in GoodRec
      BY <2>6, <2>8 DEF GoodRec
    <2> QED  BY <2>4, <2>8, <2>9 DEF end
  <1>5. \A i \in DOMAIN searches : new[i] = older(searches[i])
    OBVIOUS
  <1>6. new = [i \in DOMAIN searches |-> new[i]]
    OBVIOUS
  <1> HIDE DEF new, older, aged
  <1>7. \A i \in DOMAIN searches : /\ new[i] \in GoodRec /\ new[i].id = searches[i].id
                                   /\ new[i].tid = searches[i].tid /\ new[i].done = searches[i].done
    BY <1>1, <1>4, <1>5, ListFacts
  <1>8. GoodList(new) /\ DOMAIN new = DOMAIN searches
    BY <1>1, <1>6, <1>7, SameSlots
  <1>9. UNCHANGED <<search_id, net, told, silent, calls, replies>>
    BY DEF Tick
  <1>10. /\ wake' \in NoWake .. RequestWait + Jitter /\ (wake # NoWake => wake' # NoWake)
    <2>1. wake' = IF wake > 0 THEN wake - 1 ELSE wake
      BY DEF Tick
    <2> QED  BY <1>1, <2>1, SizeFacts DEF NoWake
  <1>11. Tally(new, told, silent) /\ (Waiting(new) => Waiting(searches))
    BY <1>1, <1>7, <1>8 DEF Tally, TalliedAs, Waiting
  <1>12. Ready(searches)'
    BY <1>1, <1>2, <1>8, <1>9, <1>10, <1>11 DEF Ready, GoodList, Tally, TalliedAs, Waiting
  <1>13. SearchInv'
    BY <1>9, <1>12 DEF SearchInv
  <1>14. UnfinishedStay
    BY <1>2, <1>7, <1>8, AllStay
  <1>15. SameSearches
    BY <1>2, <1>7, <1>8, <1>9 DEF SameSearches, Within, OwnRequests
  <1> QED  BY <1>13, <1>14, <1>15 DEF Outcome

(* Every step of the system. *)
LEMMA EveryStep ==
    ASSUME SearchInv, [Next]_svars
    PROVE  Outcome
  <1>0. calls \in 0 .. MaxCalls /\ replies \in 0 .. MaxReplies
    BY DEF SearchInv
  <1>1. CASE DhtSearch
    <2>1. /\ calls < MaxCalls /\ calls' = calls + 1 /\ UNCHANGED replies
          /\ calls' \in 0 .. MaxCalls
      BY <1>0, <1>1, SizeFacts DEF DhtSearch
    <2>2. PICK t \in Targets, announce, callback \in BOOLEAN, seeds \in SUBSET Peers :
            \/ SearchAgain(t, announce, seeds, callback)
            \/ SearchAnew(t, announce, seeds, callback)
            \/ SearchRefused(t)
      BY <1>1 DEF DhtSearch
    <2>3. CASE SearchRefused(t)
      BY <1>0, <2>1, <2>3, IdleStep DEF SearchRefused
    <2> QED  BY <2>1, <2>2, <2>3, AgainStep, AnewStep
  <1>2. CASE UNCHANGED svars
    <2>1. UNCHANGED <<searches, search_id, wake, net, told, silent, calls, replies>>
      BY <1>2 DEF svars
    <2>2. calls' \in 0 .. MaxCalls /\ calls' \in {calls, calls + 1} /\ replies' \in 0 .. MaxReplies
      BY <1>0, <2>1
    <2> QED  BY <2>1, <2>2, IdleStep
  <1> QED  BY <1>1, <1>2, PeriodicStep, ReplyStep, TickStep DEF Next

LEMMA InitGood ==
    ASSUME Init
    PROVE  SearchInv
  <1>1. searches = <<>> /\ DOMAIN searches = {} /\ Len(searches) = 0 /\ searches \in Seq(GoodRec)
    BY DEF Init
  <1>2. GoodList(searches) /\ Tally(searches, told, silent) /\ ~ Waiting(searches)
    BY <1>1, SizeFacts DEF GoodList, Tally, Waiting
  <1>3. told \in [Targets -> 0 .. 2] /\ silent \subseteq Targets
    BY DEF Init
  <1>4. wake \in NoWake .. RequestWait + Jitter
    BY SizeFacts DEF Init, NoWake
  <1>5. net \subseteq Request /\ search_id \in 0 .. Tids - 1 /\ calls \in 0 .. MaxCalls
          /\ replies \in 0 .. MaxReplies
    BY SizeFacts DEF Init
  <1> QED  BY <1>2, <1>3, <1>4, <1>5 DEF SearchInv, Ready

(* The lists of searches and of their nodes, the timer, the requests and the counts *)
(* are in good order in every state.                                                *)
THEOREM SearchInvariant == Spec => []SearchInv
  <1>1. SearchInv /\ [Next]_svars => SearchInv'
    BY EveryStep DEF Outcome
  <1> QED  BY <1>1, InitGood, PTL DEF Spec

(* The variables keep their types: no list outgrows its limit (SEARCH_NODES,  *)
(* DHT_MAX_SEARCHES), no node is asked more than three times.                 *)
THEOREM TypeCorrect == Spec => []TypeOK
  <1>1. ASSUME SearchInv PROVE TypeOK
    <2>1. /\ GoodList(searches) /\ told \in [Targets -> 0 .. 2] /\ silent \subseteq Targets
          /\ wake \in NoWake .. RequestWait + Jitter
      BY <1>1 DEF SearchInv, Ready
    <2>2. searches \in Seq(SearchRec) /\ Len(searches) <= MaxSearches
      <3>1. searches \in Seq(GoodRec) /\ Len(searches) <= MaxSearches
        BY <2>1 DEF GoodList
      <3>2. \A i \in DOMAIN searches : searches[i] \in SearchRec
        BY <2>1, ListFacts
      <3> QED  BY <3>1, <3>2
    <2>3. \A i \in DOMAIN searches : Len(searches[i].nodes) <= SearchNodes
      BY <2>1, ListFacts DEF GoodRec
    <2> QED  BY <1>1, <2>1, <2>2, <2>3 DEF TypeOK, SearchInv
  <1>2. SearchInv => TypeOK
    BY <1>1
  <1> QED  BY <1>2, SearchInvariant, PTL

(* insert_search_node, the shift, flush_search_node and the reset of a reused search *)
(* keep every list of nodes sorted by distance, for any distances and any limit.     *)
THEOREM NodesSortedTheorem == Spec => []NodesSorted
  <1>1. ASSUME SearchInv PROVE NodesSorted
    <2>1. \A s \in DOMAIN searches : Ordered(searches[s].id, searches[s].nodes)
      BY <1>1, ListFacts DEF SearchInv, Ready, GoodRec
    <2> QED  BY <2>1 DEF NodesSorted, Ordered
  <1>2. SearchInv => NodesSorted
    BY <1>1
  <1> QED  BY <1>2, SearchInvariant, PTL

(* dht_search finds the search of a hash again, whatever slots new_search has  *)
(* reused and expire_searches has unlinked.                                    *)
THEOREM OneSearchPerTargetTheorem == Spec => []OneSearchPerTarget
  <1>1. SearchInv => OneSearchPerTarget
    BY DEF SearchInv, Ready, GoodList, OneSearchPerTarget
  <1> QED  BY <1>1, SearchInvariant, PTL

(* As long as a search is unfinished, search_time is set. *)
THEOREM TimerArmedTheorem == Spec => []TimerArmed
  <1>1. SearchInv => TimerArmed
    BY DEF SearchInv, Ready, Waiting, TimerArmed
  <1> QED  BY <1>1, SearchInvariant, PTL

(* The callback reports the end of a search once, when it is done; only a search that *)
(* was started with no callback and had no node to begin with is never reported.      *)
THEOREM CompletionToldOnceTheorem == Spec => []CompletionToldOnce
  <1>1. SearchInv => CompletionToldOnce
    BY DEF SearchInv, Ready, Tally, TalliedAs, CompletionToldOnce
  <1> QED  BY <1>1, SearchInvariant, PTL

(* new_search takes no slot from an unfinished search, and expire_searches unlinks *)
(* none before its time.                                                           *)
THEOREM UnfinishedKeptTheorem == Spec => UnfinishedKept
  <1>1. SearchInv /\ [Next]_svars => UnfinishedStay
    BY EveryStep DEF Outcome
  <1>2. SearchInv /\ [Next]_svars => [UnfinishedStay]_svars
    BY <1>1
  <1> QED  BY <1>2, SearchInvariant, PTL DEF Spec, UnfinishedKept

-----------------------------------------------------------------------------
(* Transaction ids *)

(* No search has the transaction id n, and no request carries it. *)
Unused(n) ==
    /\ \A i \in DOMAIN searches : searches[i].tid # n
    /\ \A r \in net : r.tid # n

(* As long as search_id has not come round: the searches have different transaction *)
(* ids, the requests in flight that carry one of them are its own, and the ids the  *)
(* next calls of dht_search would take are unused.                                  *)
TidInv ==
    /\ \A i, j \in DOMAIN searches : searches[i].tid = searches[j].tid => i = j
    /\ \A r \in net : \A i \in DOMAIN searches :
        r.tid = searches[i].tid => searches[i].id = r.target
    /\ \A k \in Nat : k < MaxCalls - calls => Unused((search_id + k) % Tids)

(* A counter of Tids values that has not come round. *)
LEMMA ModFacts ==
    ASSUME NEW T \in Nat \ {0}, NEW a \in 0 .. T - 1, NEW k \in Nat, k < T
    PROVE  (a + k) % T = IF a + k < T THEN a + k ELSE a + k - T
  <1>1. ASSUME NEW x \in 0 .. T - 1 PROVE x % T = x
    OBVIOUS
  <1>2. ASSUME NEW x \in T .. T + T - 1 PROVE x % T = x - T
    OBVIOUS
  <1>3. a + k \in Nat /\ a + k <= T + T - 1
    OBVIOUS
  <1> QED  BY <1>1, <1>2, <1>3

(* The k-th id after the next one is the (k + 1)-th id, and is not the id itself. *)
LEMMA NextTids ==
    ASSUME NEW T \in Nat \ {0}, NEW a \in 0 .. T - 1, NEW k \in Nat, k + 1 < T
    PROVE  /\ (((a + 1) % T) + k) % T = (a + (k + 1)) % T
           /\ (a + (k + 1)) % T # a /\ (a + 0) % T = a
  <1>0. k + 1 \in Nat /\ k < T
    OBVIOUS
  <1>1. (a + (k + 1)) % T = IF a + (k + 1) < T THEN a + (k + 1) ELSE a + (k + 1) - T
    BY <1>0, ModFacts
  <1>2. 1 < T
    OBVIOUS
  <1>3. (a + 1) % T = IF a + 1 < T THEN a + 1 ELSE a + 1 - T
    BY <1>2, ModFacts
  <1> DEFINE b == (a + 1) % T
  <1>4. b \in 0 .. T - 1
    BY <1>3
  <1> HIDE DEF b
  <1>5. (b + k) % T = IF b + k < T THEN b + k ELSE b + k - T
    BY <1>0, <1>4, ModFacts
  <1>6. (a + 0) % T = a
    BY ModFacts
  <1>7. (b + k) % T = (a + (k + 1)) % T
    BY <1>1, <1>3, <1>4, <1>5 DEF b
  <1>8. (a + (k + 1)) % T # a
    BY <1>1
  <1> QED  BY <1>6, <1>7, <1>8 DEF b

(* A step that starts no search leaves the transaction ids as they are. *)
LEMMA SameTids ==
    ASSUME SearchInv, SearchInv', TidInv, SameSearches
    PROVE  TidInv'
  <1>1. \A i \in DOMAIN searches' : \E j \in DOMAIN searches :
            searches'[i].id = searches[j].id /\ searches'[i].tid = searches[j].tid
    BY DEF SameSearches, Within
  <1>2. \A r \in net' : \/ r \in net
                        \/ \E j \in DOMAIN searches : r.tid = searches[j].tid /\ r.target = searches[j].id
    BY DEF SameSearches, OwnRequests
  <1>3. \A i, j \in DOMAIN searches' : searches'[i].id = searches'[j].id => i = j
    BY DEF SearchInv, Ready, GoodList
  <1>4. \A i, j \in DOMAIN searches : searches[i].tid = searches[j].tid => i = j
    BY DEF TidInv
  <1>5. \A r \in net : \A i \in DOMAIN searches :
            r.tid = searches[i].tid => searches[i].id = r.target
    BY DEF TidInv
  <1>6. \A i, j \in DOMAIN searches' : searches'[i].tid = searches'[j].tid => i = j
    BY <1>1, <1>3, <1>4
  <1>7. \A r \in net' : \A i \in DOMAIN searches' :
            r.tid = searches'[i].tid => searches'[i].id = r.target
    BY <1>1, <1>2, <1>4, <1>5
  <1>8. ASSUME NEW k \in Nat, k < MaxCalls - calls' PROVE Unused((search_id + k) % Tids)'
    <2>1. k < MaxCalls - calls
      <3>1. calls \in Int /\ MaxCalls \in Int /\ calls' \in {calls, calls + 1}
        BY SizeFacts DEF SearchInv, SameSearches
      <3>2. \A m, c, d \in Int : d \in {c, c + 1} /\ k < m - d => k < m - c
        OBVIOUS
      <3>3. calls' \in Int
        BY <3>1
      <3> QED  BY <1>8, <3>1, <3>2, <3>3
    <2> DEFINE n == (search_id + k) % Tids
    <2>2. Unused(n)
      BY <2>1 DEF TidInv
    <2>3. n' = n
      BY DEF SameSearches
    <2> HIDE DEF n
    <2>4. Unused(n)'
      BY <1>1, <1>2, <2>2, <2>3 DEF Unused
    <2> QED  BY <2>4 DEF n
  <1> QED  BY <1>6, <1>7, <1>8 DEF TidInv

(* A step that starts a search takes an id nothing else has. *)
LEMMA FreshTid ==
    ASSUME MaxCalls <= Tids, SearchInv, SearchInv', TidInv, NEW t \in Targets, NewSearchFor(t)
    PROVE  TidInv'
  <1>1. /\ calls < MaxCalls /\ calls' = calls + 1 /\ search_id' = (search_id + 1) % Tids
        /\ \A i \in DOMAIN searches' :
            \/ searches'[i].tid = search_id /\ searches'[i].id = t
            \/ \E j \in DOMAIN searches :
                searches'[i].id = searches[j].id /\ searches'[i].tid = searches[j].tid
        /\ \A r \in net' : r \in net \/ (r.tid = search_id /\ r.target = t)
    BY DEF NewSearchFor
  <1>2. /\ search_id \in 0 .. Tids - 1 /\ Tids \in Nat \ {0} /\ calls \in Nat /\ MaxCalls \in Nat
    BY SizeFacts DEF SearchInv
  <1>3. \A i, j \in DOMAIN searches' : searches'[i].id = searches'[j].id => i = j
    BY DEF SearchInv, Ready, GoodList
  <1>4. \A i, j \in DOMAIN searches : searches[i].tid = searches[j].tid => i = j
    BY DEF TidInv
  <1>5. \A r \in net : \A i \in DOMAIN searches :
            r.tid = searches[i].tid => searches[i].id = r.target
    BY DEF TidInv
  <1>6. Unused(search_id)
    <2>1. 0 \in Nat /\ 0 < MaxCalls - calls
      BY <1>1, <1>2
    <2>2. Unused((search_id + 0) % Tids)
      BY <2>1 DEF TidInv
    <2>3. 0 < Tids
      BY <1>2
    <2>4. (search_id + 0) % Tids = search_id
      BY <1>2, <2>3, ModFacts
    <2> QED  BY <2>2, <2>4
  <1>7. /\ \A i \in DOMAIN searches : searches[i].tid # search_id
        /\ \A r \in net : r.tid # search_id
    BY <1>6 DEF Unused
  <1>8. \A i, j \in DOMAIN searches' : searches'[i].tid = searches'[j].tid => i = j
    BY <1>1, <1>3, <1>4, <1>7
  <1>9. \A r \in net' : \A i \in DOMAIN searches' :
            r.tid = searches'[i].tid => searches'[i].id = r.target
    BY <1>1, <1>5, <1>7
  <1>10. ASSUME NEW k \in Nat, k < MaxCalls - calls' PROVE Unused((search_id + k) % Tids)'
    <2>1. k + 1 \in Nat /\ k + 1 < MaxCalls - calls /\ k + 1 < Tids
      BY <1>1, <1>2, <1>10
    <2> DEFINE n == (search_id + (k + 1)) % Tids
    <2>2. Unused(n)
      BY <2>1 DEF TidInv
    <2>3. (((search_id + 1) % Tids) + k) % Tids = n /\ n # search_id
      BY <1>2, <2>1, NextTids
    <2>4. ((search_id + k) % Tids)' = n
      BY <1>1, <2>3
    <2> HIDE DEF n
    <2>5. \A i \in DOMAIN searches' : searches'[i].tid # n
      BY <1>1, <2>2, <2>3 DEF Unused
    <2>6. \A r \in net' : r.tid # n
      BY <1>1, <2>2, <2>3 DEF Unused
    <2> QED  BY <2>4, <2>5, <2>6 DEF Unused
  <1> QED  BY <1>8, <1>9, <1>10 DEF TidInv

(* Until dht_search was called as often as there are transaction ids (65536), a reply *)
(* under way reaches the search that asked for it, or none: search_id has not come    *)
(* round, so no later search has taken over the id a request in flight carries.       *)
THEOREM RepliesReachTheirSearchTheorem ==
    ASSUME MaxCalls <= Tids
    PROVE  Spec => []RepliesReachTheirSearch
  <1>1. Init => TidInv
    <2>1. Init => searches = <<>> /\ net = {}
      BY DEF Init
    <2>2. DOMAIN <<>> = {}
      OBVIOUS
    <2> QED  BY <2>1, <2>2 DEF TidInv, Unused
  <1>2. SearchInv /\ TidInv /\ [Next]_svars => TidInv'
    <2>1. SUFFICES ASSUME SearchInv, TidInv, [Next]_svars PROVE TidInv'
      OBVIOUS
    <2>2. SearchInv' /\ (SameSearches \/ \E t \in Targets : NewSearchFor(t))
      BY <2>1, EveryStep DEF Outcome
    <2> QED  BY <2>1, <2>2, SameTids, FreshTid
  <1>3. TidInv => RepliesReachTheirSearch
    <2>1. \A n : FindSearch(n) \subseteq {i \in DOMAIN searches : searches[i].tid = n}
      BY DEF FindSearch, FirstOf
    <2> QED  BY <2>1 DEF TidInv, RepliesReachTheirSearch
  <1> QED  BY <1>1, <1>2, <1>3, SearchInvariant, PTL DEF Spec
=============================================================================
