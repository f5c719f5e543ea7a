------------------------- MODULE TableQueriesProofs -------------------------
(***************************************************************************)
(* The reply to find_node and get_peers: for every size of the ids, of the *)
(* reply and of the table, send_closest_nodes finds the closest nodes.     *)
(***************************************************************************)
EXTENDS TableQueries, Inductions

Id == [1 .. IdBytes -> Byte]
Node == [id : Id, good : BOOLEAN, heard_later : BOOLEAN]
Bucket == [first : Id, nodes : Seq(Node), has_candidate : BOOLEAN]

(* Whether a is closer to r than b is, as the buffer compares them. *)
Closer(a, b, r) == xorcmp(a, b, r) < 0

(* The first difference is one, and the first. *)
LEMMA DifferenceFacts ==
    ASSUME NEW a \in Id, NEW b \in Id
    PROVE  \/ FirstDifference(a, b) = 0 /\ a = b
           \/ /\ FirstDifference(a, b) \in 1 .. IdBytes
              /\ a[FirstDifference(a, b)] # b[FirstDifference(a, b)]
              /\ \A j \in 1 .. IdBytes : j < FirstDifference(a, b) => a[j] = b[j]
  <1> DEFINE D == {i \in 1 .. IdBytes : a[i] # b[i]}
  <1>0. FirstDifference(a, b) = IF D = {} THEN 0 ELSE Min(D)
    BY DEF FirstDifference
  <1>1. CASE D = {}
    <2>1. \A i \in 1 .. IdBytes : a[i] = b[i]
      BY <1>1
    <2>2. a = b
      <3>1. a = [i \in 1 .. IdBytes |-> a[i]] /\ b = [i \in 1 .. IdBytes |-> b[i]]
        BY DEF Id
      <3> HIDE DEF D
      <3>2. [i \in 1 .. IdBytes |-> a[i]] = [i \in 1 .. IdBytes |-> b[i]]
        BY <2>1
      <3> QED  BY <3>1, <3>2, Zenon
    <2> QED  BY <1>0, <1>1, <2>2
  <1>2. CASE D # {}
    <2>1. D \in SUBSET Nat
      BY QueriesAssumption
    <2>2. PICK m \in D : \A x \in D : m <= x
      BY <1>2, <2>1, LeastNatural
    <2>3. Min(D) \in D /\ \A x \in D : Min(D) <= x
      <3> HIDE DEF D
      <3> QED  BY <2>2 DEF Min
    <2> DEFINE d == FirstDifference(a, b)
    <2>4. d \in D /\ \A x \in D : d <= x
      BY <1>0, <1>2, <2>3
    <2> HIDE DEF d
    <2>5. d \in 1 .. IdBytes /\ a[d] # b[d]
      BY <2>4
    <2>6. ASSUME NEW j \in 1 .. IdBytes, j < d PROVE a[j] = b[j]
      BY <2>4, <2>5, <2>6, QueriesAssumption
    <2> QED  BY <2>5, <2>6 DEF d
  <1> QED  BY <1>1, <1>2

(* The byte that decides between two ids. *)
Decides(i, a, b, r) ==
    /\ ByteXor(a[i], r[i]) < ByteXor(b[i], r[i])
    /\ \A j \in 1 .. IdBytes : j < i => a[j] = b[j]

(* An id is closer when the first byte that differs is. *)
LEMMA CloserFacts ==
    ASSUME NEW a \in Id, NEW b \in Id, NEW r \in Id
    PROVE  Closer(a, b, r) <=> \E i \in 1 .. IdBytes : Decides(i, a, b, r)
  <1> DEFINE d == FirstDifference(a, b)
  <1>0. \A i \in 1 .. IdBytes : a[i] \in Byte /\ b[i] \in Byte /\ r[i] \in Byte
    BY DEF Id
  <1>x. \A i \in 1 .. IdBytes : ByteXor(a[i], r[i]) \in Nat /\ ByteXor(b[i], r[i]) \in Nat
    BY <1>0, QueriesAssumption
  <1>1. CASE d = 0 /\ a = b
    <2>1. ~ Closer(a, b, r)
      BY <1>1 DEF Closer, xorcmp
    <2>2. ASSUME NEW i \in 1 .. IdBytes, Decides(i, a, b, r) PROVE FALSE
      BY <1>1, <1>x, <2>2 DEF Decides
    <2> QED  BY <2>1, <2>2
  <1>2. CASE /\ d \in 1 .. IdBytes
             /\ a[d] # b[d]
             /\ \A j \in 1 .. IdBytes : j < d => a[j] = b[j]
    <2>1. d # 0
      BY <1>2, QueriesAssumption
    <2>2. Closer(a, b, r) <=> ByteXor(a[d], r[d]) < ByteXor(b[d], r[d])
      BY <2>1 DEF Closer, xorcmp
    <2> HIDE DEF d
    <2>3. ASSUME ByteXor(a[d], r[d]) < ByteXor(b[d], r[d]) PROVE \E i \in 1 .. IdBytes : Decides(i, a, b, r)
      BY <1>2, <2>3 DEF Decides
    <2>4. ASSUME NEW i \in 1 .. IdBytes, Decides(i, a, b, r) PROVE ByteXor(a[d], r[d]) < ByteXor(b[d], r[d])
      <3>1. ~ (d < i)
        BY <1>2, <2>4 DEF Decides
      <3>2. ~ (i < d)
        <4>1. ASSUME i < d PROVE FALSE
          <5>1. a[i] = b[i]
            BY <1>2, <4>1
          <5>2. ByteXor(a[i], r[i]) < ByteXor(a[i], r[i])
            BY <2>4, <5>1 DEF Decides
          <5> QED  BY <1>x, <5>2
        <4> QED  BY <4>1
      <3>3. i = d
        BY <1>2, <3>1, <3>2, QueriesAssumption
      <3> QED  BY <2>4, <3>3 DEF Decides
    <2> QED  BY <2>2, <2>3, <2>4
  <1> QED  BY <1>1, <1>2, DifferenceFacts

(* Closeness is a strict total order on the ids: no id is closer than itself. *)
LEMMA CloserIrreflexive ==
    ASSUME NEW a \in Id, NEW r \in Id
    PROVE  ~ Closer(a, a, r)
  <1>1. ASSUME NEW i \in 1 .. IdBytes, Decides(i, a, a, r) PROVE FALSE
    <2>1. ByteXor(a[i], r[i]) \in Nat
      BY QueriesAssumption DEF Id
    <2> QED  BY <1>1, <2>1 DEF Decides
  <1> QED  BY <1>1, CloserFacts

(* Of two ids, one is closer. *)
LEMMA CloserTotal ==
    ASSUME NEW a \in Id, NEW b \in Id, NEW r \in Id, a # b
    PROVE  Closer(a, b, r) \/ Closer(b, a, r)
  <1> DEFINE d == FirstDifference(a, b)
  <1>1. /\ d \in 1 .. IdBytes
        /\ a[d] # b[d]
        /\ \A j \in 1 .. IdBytes : j < d => a[j] = b[j]
    BY DifferenceFacts
  <1> HIDE DEF d
  <1>2. a[d] \in Byte /\ b[d] \in Byte /\ r[d] \in Byte
    BY <1>1 DEF Id
  <1> DEFINE x == ByteXor(a[d], r[d])
             y == ByteXor(b[d], r[d])
  <1>3. x \in Nat /\ y \in Nat /\ x # y
    BY <1>1, <1>2, QueriesAssumption
  <1>4. x < y \/ y < x
    <2> HIDE DEF x, y
    <2> QED  BY <1>3
  <1>5. Decides(d, a, b, r) \/ Decides(d, b, a, r)
    BY <1>1, <1>4 DEF Decides
  <1> HIDE DEF x, y
  <1> QED  BY <1>1, <1>5, CloserFacts

(* What is closer than a closer id is closer. *)
LEMMA CloserTransitive ==
    ASSUME NEW a \in Id, NEW b \in Id, NEW c \in Id, NEW r \in Id,
           Closer(a, b, r), Closer(b, c, r)
    PROVE  Closer(a, c, r)
  <1>1. PICK i \in 1 .. IdBytes : Decides(i, a, b, r)
    BY CloserFacts
  <1>2. PICK k \in 1 .. IdBytes : Decides(k, b, c, r)
    BY CloserFacts
  <1>0. i \in Nat /\ k \in Nat
    BY QueriesAssumption
  <1>x. \A j \in 1 .. IdBytes : /\ ByteXor(a[j], r[j]) \in Nat /\ ByteXor(b[j], r[j]) \in Nat
                                /\ ByteXor(c[j], r[j]) \in Nat
    BY QueriesAssumption DEF Id
  <1>3. CASE i < k
    <2>1. b[i] = c[i]
      BY <1>2, <1>3 DEF Decides
    <2>2. ByteXor(a[i], r[i]) < ByteXor(c[i], r[i])
      BY <1>1, <2>1 DEF Decides
    <2>3. ASSUME NEW j \in 1 .. IdBytes, j < i PROVE a[j] = c[j]
      <3>1. j < k
        BY <1>0, <1>3, <2>3
      <3> QED  BY <1>1, <1>2, <2>3, <3>1 DEF Decides
    <2>4. Decides(i, a, c, r)
      BY <2>2, <2>3 DEF Decides
    <2> QED  BY <2>4, CloserFacts
  <1>4. CASE k < i
    <2>1. a[k] = b[k]
      BY <1>1, <1>4 DEF Decides
    <2>2. ByteXor(a[k], r[k]) < ByteXor(c[k], r[k])
      BY <1>2, <2>1 DEF Decides
    <2>3. ASSUME NEW j \in 1 .. IdBytes, j < k PROVE a[j] = c[j]
      <3>1. j < i
        BY <1>0, <1>4, <2>3
      <3> QED  BY <1>1, <1>2, <2>3, <3>1 DEF Decides
    <2>4. Decides(k, a, c, r)
      BY <2>2, <2>3 DEF Decides
    <2> QED  BY <2>4, CloserFacts
  <1>5. CASE i = k
    <2>1. ByteXor(a[i], r[i]) < ByteXor(b[i], r[i]) /\ ByteXor(b[i], r[i]) < ByteXor(c[i], r[i])
      BY <1>1, <1>2, <1>5 DEF Decides
    <2>2. ByteXor(a[i], r[i]) < ByteXor(c[i], r[i])
      BY <1>x, <2>1
    <2>3. \A j \in 1 .. IdBytes : j < i => a[j] = c[j]
      BY <1>1, <1>2, <1>5 DEF Decides
    <2>4. Decides(i, a, c, r)
      BY <2>2, <2>3 DEF Decides
    <2> QED  BY <2>4, CloserFacts
  <1> QED  BY <1>0, <1>3, <1>4, <1>5

(* Keeps the closest of the ids in G: a list in order, with no id of G left out while *)
(* there is room, and none left out that is closer than one in the list.              *)
Closest(list, G, r) ==
    /\ list \in Seq(Id) /\ Len(list) <= MaxClosest
    /\ \A i \in 1 .. Len(list) : list[i] \in G
    /\ \A i, j \in 1 .. Len(list) : i < j => Closer(list[i], list[j], r)
    /\ \A x \in G : \/ \E i \in 1 .. Len(list) : list[i] = x
                    \/ /\ Len(list) = MaxClosest
                       /\ \A i \in 1 .. Len(list) : Closer(list[i], x, r)

(* m is the list with x put in at p, and maybe without the last. *)
Inserted(m, list, p, x) ==
    /\ m \in Seq(Id) /\ Len(m) \in Len(list) .. Len(list) + 1
    /\ p \in 1 .. Len(m)
    /\ \A k \in 1 .. Len(m) : m[k] = IF k < p THEN list[k] ELSE IF k = p THEN x ELSE list[k - 1]

(* Insertion in order keeps the closest ids. *)
LEMMA InsertedKeeps ==
    ASSUME NEW r \in Id, NEW G \in SUBSET Id, NEW list, Closest(list, G, r), NEW x \in Id,
           NEW m, NEW p, Inserted(m, list, p, x), Len(m) <= MaxClosest,
           Len(m) = Len(list) => Len(m) = MaxClosest,
           \A j \in 1 .. Len(list) : j < p => Closer(list[j], x, r),
           \A j \in 1 .. Len(list) : j >= p => Closer(x, list[j], r)
    PROVE  Closest(m, G \cup {x}, r)
  <1> DEFINE L == Len(list)
             M == Len(m)
  <1>0. /\ list \in Seq(Id) /\ L \in Nat /\ M \in Nat /\ M \in L .. L + 1 /\ p \in 1 .. M
        /\ MaxClosest \in Nat
    BY QueriesAssumption DEF Closest, Inserted
  <1>1. /\ \A i \in 1 .. L : list[i] \in G /\ list[i] \in Id
        /\ \A i, j \in 1 .. L : i < j => Closer(list[i], list[j], r)
        /\ \A y \in G : \/ \E i \in 1 .. L : list[i] = y
                        \/ L = MaxClosest /\ \A i \in 1 .. L : Closer(list[i], y, r)
    BY DEF Closest
  <1>2. \A k \in 1 .. M : m[k] = IF k < p THEN list[k] ELSE IF k = p THEN x ELSE list[k - 1]
    BY DEF Inserted
  <1>3. m \in Seq(Id) /\ M <= MaxClosest /\ (M = L => M = MaxClosest)
    BY DEF Inserted
  <1>4. /\ \A j \in 1 .. L : j < p => Closer(list[j], x, r)
        /\ \A j \in 1 .. L : j >= p => Closer(x, list[j], r)
    OBVIOUS
  <1> HIDE DEF L, M
  <1>5. ASSUME NEW k \in 1 .. M PROVE m[k] \in G \cup {x}
    <2>1. CASE k < p
      BY <1>0, <1>1, <1>2, <2>1
    <2>2. CASE k = p
      BY <1>2, <2>2
    <2>3. CASE k > p
      <3>1. k - 1 \in 1 .. L /\ m[k] = list[k - 1]
        BY <1>0, <1>2, <2>3
      <3> QED  BY <1>1, <3>1
    <2> QED  BY <1>0, <2>1, <2>2, <2>3
  <1>6. ASSUME NEW i \in 1 .. M, NEW j \in 1 .. M, i < j PROVE Closer(m[i], m[j], r)
    <2>1. CASE j < p
      <3>1. i \in 1 .. L /\ j \in 1 .. L /\ m[i] = list[i] /\ m[j] = list[j]
        BY <1>0, <1>2, <1>6, <2>1
      <3> QED  BY <1>1, <1>6, <3>1
    <2>2. CASE j = p
      <3>1. i \in 1 .. L /\ i < p /\ m[i] = list[i] /\ m[j] = x
        BY <1>0, <1>2, <1>6, <2>2
      <3> QED  BY <1>4, <3>1
    <2>3. CASE j > p /\ i = p
      <3>1. j - 1 \in 1 .. L /\ j - 1 >= p /\ m[i] = x /\ m[j] = list[j - 1]
        BY <1>0, <1>2, <1>6, <2>3
      <3> QED  BY <1>4, <3>1
    <2>4. CASE j > p /\ i < p
      <3>1. i \in 1 .. L /\ j - 1 \in 1 .. L /\ i < j - 1 /\ m[i] = list[i] /\ m[j] = list[j - 1]
        BY <1>0, <1>2, <1>6, <2>4
      <3> QED  BY <1>1, <3>1
    <2>5. CASE j > p /\ i > p
      <3>1. /\ i - 1 \in 1 .. L /\ j - 1 \in 1 .. L /\ i - 1 < j - 1
            /\ m[i] = list[i - 1] /\ m[j] = list[j - 1]
        BY <1>0, <1>2, <1>6, <2>5
      <3> QED  BY <1>1, <3>1
    <2> QED  BY <1>0, <2>1, <2>2, <2>3, <2>4, <2>5
  <1>7. ASSUME NEW y \in G \cup {x}
        PROVE  \/ \E i \in 1 .. M : m[i] = y
               \/ M = MaxClosest /\ \A i \in 1 .. M : Closer(m[i], y, r)
    <2>1. CASE y = x
      <3>1. m[p] = y
        BY <1>0, <1>2, <2>1
      <3> QED  BY <1>0, <3>1
    <2>2. CASE \E i \in 1 .. L : list[i] = y
      <3>1. PICK i \in 1 .. L : list[i] = y
        BY <2>2
      <3>2. CASE i < p
        <4>1. i \in 1 .. M /\ m[i] = y
          BY <1>0, <1>2, <3>1, <3>2
        <4> QED  BY <4>1
      <3>3. CASE i >= p /\ i < M
        <4>1. i + 1 \in 1 .. M /\ i + 1 > p /\ (i + 1) - 1 = i
          BY <1>0, <3>1, <3>3
        <4>2. m[i + 1] = y
          BY <1>0, <1>2, <3>1, <4>1
        <4> QED  BY <4>1, <4>2
      <3>4. CASE i >= p /\ i >= M
        <4>1. i = L /\ M = L /\ M = MaxClosest
          BY <1>0, <1>3, <3>1, <3>4
        <4>2. ASSUME NEW k \in 1 .. M PROVE Closer(m[k], y, r)
          <5>1. CASE k < p
            <6>1. k \in 1 .. L /\ k < i /\ m[k] = list[k]
              BY <1>0, <1>2, <3>4, <4>1, <5>1
            <6> QED  BY <1>1, <3>1, <6>1
          <5>2. CASE k = p
            <6>1. m[k] = x
              BY <1>2, <5>2
            <6> QED  BY <1>4, <3>1, <3>4, <6>1
          <5>3. CASE k > p
            <6>1. k - 1 \in 1 .. L /\ k - 1 < i /\ m[k] = list[k - 1]
              BY <1>0, <1>2, <4>1, <5>3
            <6> QED  BY <1>1, <3>1, <6>1
          <5> QED  BY <1>0, <5>1, <5>2, <5>3
        <4> QED  BY <4>1, <4>2
      <3> QED  BY <1>0, <3>2, <3>3, <3>4
    <2>3. CASE y \in G /\ L = MaxClosest /\ \A i \in 1 .. L : Closer(list[i], y, r)
      <3>0. M = L
        BY <1>0, <1>3, <2>3
      <3>1. ASSUME NEW k \in 1 .. M PROVE Closer(m[k], y, r)
        <4>1. CASE k < p
          <5>1. k \in 1 .. L /\ m[k] = list[k]
            BY <1>0, <1>2, <3>0, <4>1
          <5> QED  BY <2>3, <5>1
        <4>2. CASE k = p
          <5>1. m[k] = x /\ p \in 1 .. L /\ p >= p
            BY <1>0, <1>2, <3>0, <4>2
          <5>2. Closer(x, list[p], r) /\ Closer(list[p], y, r) /\ list[p] \in Id /\ y \in Id
            BY <1>1, <1>4, <2>3, <5>1
          <5> QED  BY <5>1, <5>2, CloserTransitive
        <4>3. CASE k > p
          <5>1. k - 1 \in 1 .. L /\ m[k] = list[k - 1]
            BY <1>0, <1>2, <4>3
          <5> QED  BY <2>3, <5>1
        <4> QED  BY <1>0, <4>1, <4>2, <4>3
      <3> QED  BY <2>3, <3>0, <3>1
    <2> QED  BY <1>1, <2>1, <2>2, <2>3
  <1> QED  BY <1>3, <1>5, <1>6, <1>7 DEF Closest, M

(* What an insertion into a sequence gives, with and without the last of it. *)
LEMMA InsertAtFacts ==
    ASSUME NEW list \in Seq(Id), NEW p \in 1 .. Len(list) + 1, NEW x \in Id
    PROVE  /\ Inserted(InsertAt(list, p, x), list, p, x)
           /\ Len(InsertAt(list, p, x)) = Len(list) + 1
           /\ p <= Len(list) => /\ Inserted(Front(InsertAt(list, p, x)), list, p, x)
                                /\ Len(Front(InsertAt(list, p, x))) = Len(list)
  <1> DEFINE L == Len(list)
             a == SubSeq(list, 1, p - 1)
             c == SubSeq(list, p, L)
             m == InsertAt(list, p, x)
  <1>0. L \in Nat /\ p \in Nat /\ \A k \in 1 .. L : list[k] \in Id
    OBVIOUS
  <1>1. a \in Seq(Id) /\ Len(a) = p - 1 /\ \A k \in 1 .. p - 1 : a[k] = list[k]
    BY <1>0
  <1>2. c \in Seq(Id) /\ Len(c) = L - p + 1 /\ \A k \in 1 .. L - p + 1 : c[k] = list[p + k - 1]
    BY <1>0
  <1>3. m = (a \o <<x>>) \o c
    BY DEF InsertAt
  <1> HIDE DEF a, c, m
  <1> DEFINE h == a \o <<x>>
  <1>4. h \in Seq(Id) /\ Len(h) = p /\ \A k \in 1 .. p : h[k] = IF k < p THEN list[k] ELSE x
    BY <1>0, <1>1
  <1> HIDE DEF h
  <1>5. m \in Seq(Id) /\ Len(m) = L + 1
    BY <1>0, <1>2, <1>3, <1>4 DEF h
  <1>6. ASSUME NEW k \in 1 .. L + 1
        PROVE  m[k] = IF k < p THEN list[k] ELSE IF k = p THEN x ELSE list[k - 1]
    <2>0. m = h \o c
      BY <1>3 DEF h
    <2>1. CASE k <= p
      <3>1. m[k] = h[k]
        BY <1>0, <1>2, <1>4, <2>0, <2>1
      <3> QED  BY <1>0, <1>4, <2>1, <3>1
    <2>2. CASE k > p
      <3>1. m[k] = c[k - p]
        BY <1>0, <1>2, <1>4, <2>0, <2>2
      <3>2. k - p \in 1 .. L - p + 1 /\ p + (k - p) - 1 = k - 1
        BY <1>0, <2>2
      <3>3. c[k - p] = list[k - 1]
        BY <1>2, <3>2
      <3> QED  BY <1>0, <2>2, <3>1, <3>3
    <2> QED  BY <1>0, <2>1, <2>2
  <1>7. Inserted(m, list, p, x)
    BY <1>0, <1>5, <1>6 DEF Inserted
  <1>8. ASSUME p <= L PROVE Inserted(Front(m), list, p, x) /\ Len(Front(m)) = L
    <2> DEFINE f == Front(m)
    <2>1. f \in Seq(Id) /\ Len(f) = L /\ \A k \in 1 .. L : f[k] = m[k]
      BY <1>0, <1>5 DEF Front
    <2> HIDE DEF f
    <2>2. Inserted(f, list, p, x)
      BY <1>0, <1>6, <1>8, <2>1 DEF Inserted
    <2> QED  BY <2>1, <2>2 DEF f
  <1> QED  BY <1>5, <1>7, <1>8 DEF m

(* The buffer takes a node: it keeps the closest of those it was given. *)
LEMMA InsertKeeps ==
    ASSUME NEW r \in Id, NEW G \in SUBSET Id, NEW list, Closest(list, G, r), NEW n, n.id \in Id
    PROVE  Closest(insert_closest_node(list, r, n), G \cup {n.id}, r)
  <1> DEFINE x == n.id
             L == Len(list)
             P == {k \in 1 .. L : x = list[k] \/ Closer(x, list[k], r)}
             i == IF P # {} THEN Min(P) ELSE 0
             place == IF i = 0 THEN L + 1 ELSE i
             longer == InsertAt(list, place, x)
             after == insert_closest_node(list, r, n)
  <1>0. list \in Seq(Id) /\ L \in Nat /\ L <= MaxClosest /\ MaxClosest \in Nat /\ x \in Id
    BY QueriesAssumption DEF Closest
  <1>1. \A k \in 1 .. L : list[k] \in Id /\ list[k] \in G
    BY DEF Closest
  <1>2. after = IF (i # 0 /\ list[place] = x) \/ place = MaxClosest + 1 THEN list
                ELSE IF L < MaxClosest THEN longer ELSE Front(longer)
    BY DEF insert_closest_node, SelectInSeq, Closer
  <1>3. \/ P = {} /\ i = 0 /\ place = L + 1
        \/ P # {} /\ i \in P /\ place = i /\ i # 0 /\ \A k \in P : i <= k
    <2>1. CASE P = {}
      BY <2>1
    <2>2. CASE P # {}
      <3>1. P \in SUBSET Nat
        OBVIOUS
      <3>2. PICK k \in P : \A j \in P : k <= j
        BY <2>2, <3>1, LeastNatural
      <3>3. Min(P) \in P /\ \A j \in P : Min(P) <= j
        <4> HIDE DEF P
        <4> QED  BY <3>2 DEF Min
      <3>4. i = Min(P)
        BY <2>2
      <3>5. i \in P /\ \A j \in P : i <= j
        BY <3>3, <3>4
      <3>6. i # 0
        <4> HIDE DEF i
        <4> QED  BY <3>5
      <3>7. place = i
        <4> HIDE DEF i
        <4> QED  BY <3>6
      <3> QED  BY <2>2, <3>5, <3>6, <3>7
    <2> QED  BY <2>1, <2>2
  <1> HIDE DEF i, place, longer, after
  <1>4. place \in 1 .. L + 1 /\ (i = 0 => place = L + 1) /\ (i # 0 => place <= L)
    BY <1>0, <1>3
  <1>5. ASSUME NEW k \in 1 .. L, k < place PROVE Closer(list[k], x, r)
    <2>1. k \notin P
      BY <1>0, <1>3, <1>5
    <2> QED  BY <1>0, <1>1, <2>1, CloserTotal
  <1>6. CASE i # 0 /\ list[place] = x
    <2>1. after = list
      BY <1>2, <1>6
    <2>2. x \in G
      BY <1>1, <1>4, <1>6
    <2>3. G \cup {x} = G
      BY <2>2
    <2> QED  BY <2>1, <2>3 DEF after
  <1>7. CASE i = 0 /\ place = MaxClosest + 1
    <2>1. after = list /\ L = MaxClosest
      BY <1>0, <1>2, <1>4, <1>7
    <2>2. \A k \in 1 .. L : Closer(list[k], x, r)
      BY <1>0, <1>4, <1>5, <1>7
    <2>3. Closest(list, G \cup {x}, r)
      <3> HIDE DEF x
      <3> QED  BY <2>1, <2>2 DEF Closest
    <2> QED  BY <2>1, <2>3 DEF after
  <1>8. CASE ~ (i # 0 /\ list[place] = x) /\ ~ (i = 0 /\ place = MaxClosest + 1)
    <2>1. place # MaxClosest + 1
      BY <1>0, <1>4, <1>8
    <2>2. after = IF L < MaxClosest THEN longer ELSE Front(longer)
      BY <1>2, <1>8, <2>1
    <2>3. ASSUME NEW k \in 1 .. L, k >= place PROVE Closer(x, list[k], r)
      <3>1. i # 0 /\ place = i /\ i \in P
        BY <1>0, <1>3, <2>3
      <3>2. place \in 1 .. L /\ Closer(x, list[place], r)
        BY <1>8, <3>1
      <3>3. CASE k = place
        BY <3>2, <3>3
      <3>4. CASE k > place
        <4>1. Closer(list[place], list[k], r)
          BY <3>2, <3>4 DEF Closest
        <4> QED  BY <1>0, <1>1, <3>2, <4>1, CloserTransitive
      <3> QED  BY <1>0, <2>3, <3>2, <3>3, <3>4
    <2>4. /\ Inserted(longer, list, place, x) /\ Len(longer) = L + 1
          /\ place <= L => Inserted(Front(longer), list, place, x) /\ Len(Front(longer)) = L
      BY <1>0, <1>4, InsertAtFacts DEF longer
    <2>5. CASE L < MaxClosest
      <3>1. after = longer
        BY <2>2, <2>5
      <3>2. Len(after) <= MaxClosest /\ Len(after) # L
        BY <1>0, <2>4, <2>5, <3>1
      <3>3. Closest(after, G \cup {x}, r)
        <4> HIDE DEF x, P
        <4> QED  BY <1>0, <1>5, <2>3, <2>4, <3>1, <3>2, InsertedKeeps
      <3> QED  BY <3>3 DEF after
    <2>6. CASE ~ (L < MaxClosest)
      <3>1. after = Front(longer) /\ L = MaxClosest
        BY <1>0, <2>2, <2>6
      <3>2. place <= L
        BY <1>0, <1>4, <2>1, <3>1
      <3>3. Inserted(after, list, place, x) /\ Len(after) = L
        BY <2>4, <3>1, <3>2
      <3>4. Len(after) <= MaxClosest /\ (Len(after) = L => Len(after) = MaxClosest)
        BY <1>0, <3>1, <3>3
      <3>5. Closest(after, G \cup {x}, r)
        <4> HIDE DEF x, P
        <4> QED  BY <1>0, <1>5, <2>3, <3>3, <3>4, InsertedKeeps
      <3> QED  BY <3>5 DEF after
    <2> QED  BY <2>5, <2>6
  <1> QED  BY <1>6, <1>7, <1>8

(* The ids of the good nodes among the first k of a bucket. *)
GoodUpTo(b, k) == {b.nodes[j].id : j \in {i \in 1 .. k : b.nodes[i].good}}

(* A bucket: the buffer keeps the closest of what it held and of the good nodes. *)
LEMMA BufferKeeps ==
    ASSUME NEW r \in Id, NEW G \in SUBSET Id, NEW list, Closest(list, G, r), NEW b \in Bucket
    PROVE  Closest(buffer_closest_nodes(list, r, b), G \cup GoodUpTo(b, Len(b.nodes)), r)
  <1> DEFINE N == Len(b.nodes)
             Step(i, at) == IF b.nodes[i].good THEN insert_closest_node(at, r, b.nodes[i]) ELSE at
             Put(i) == IF b.nodes[i].good THEN {b.nodes[i].id} ELSE {}
             loop[i \in 0 .. N] ==
                IF i = 0 THEN list
                ELSE IF b.nodes[i].good THEN insert_closest_node(loop[i - 1], r, b.nodes[i])
                ELSE loop[i - 1]
             X == {at \in Seq(Id) : \E H \in SUBSET Id : Closest(at, H, r)}
             turn == [i \in 1 .. N |-> [at \in X |-> Step(i, at)]]
             S == {i \in 0 .. N : Closest(loop[i], G \cup GoodUpTo(b, i), r)}
  <1>1. N \in Nat /\ \A i \in 1 .. N : b.nodes[i] \in Node
    BY DEF Bucket
  <1>a. \A i \in 1 .. N : b.nodes[i].id \in Id
    BY <1>1 DEF Node
  <1>2. buffer_closest_nodes(list, r, b) = loop[N]
    BY DEF buffer_closest_nodes
  <1>3. loop = CHOOSE h : h = [i \in 0 .. N |->
                                IF i = 0 THEN list
                                ELSE IF b.nodes[i].good THEN insert_closest_node(h[i - 1], r, b.nodes[i])
                                ELSE h[i - 1]]
    OBVIOUS
  <1>4. list \in X
    BY DEF Closest
  <1>s. ASSUME NEW i \in 1 .. N, NEW at, NEW H \in SUBSET Id, Closest(at, H, r)
        PROVE  Closest(Step(i, at), H \cup Put(i), r)
    <2>1. CASE b.nodes[i].good
      <3> DEFINE n == b.nodes[i]
      <3>1. n.id \in Id
        BY <1>a
      <3>2. Put(i) = {n.id}
        BY <2>1
      <3>3. Step(i, at) = insert_closest_node(at, r, n)
        BY <2>1
      <3> HIDE DEF n, Step
      <3>4. Closest(insert_closest_node(at, r, n), H \cup {n.id}, r)
        BY <1>s, <3>1, InsertKeeps
      <3> QED  BY <3>2, <3>3, <3>4
    <2>2. CASE ~ b.nodes[i].good
      <3>1. H \cup Put(i) = H
        BY <2>2
      <3>2. Step(i, at) = at
        BY <2>2
      <3> HIDE DEF Step
      <3> QED  BY <1>s, <3>1, <3>2
    <2> QED  BY <2>1, <2>2
  <1>5. turn \in Turns(N, X)
    <2>1. ASSUME NEW i \in 1 .. N, NEW at \in X PROVE Step(i, at) \in X
      <3>1. PICK H \in SUBSET Id : Closest(at, H, r)
        OBVIOUS
      <3> DEFINE K == H \cup Put(i)
      <3>2. K \in SUBSET Id
        BY <1>a
      <3>3. Closest(Step(i, at), K, r)
        <4> HIDE DEF Step
        <4> QED  BY <1>s, <3>1
      <3> HIDE DEF K, Step
      <3>4. Step(i, at) \in Seq(Id)
        BY <3>3 DEF Closest
      <3> QED  BY <3>2, <3>3, <3>4
    <2> HIDE DEF X, N, Step
    <2> QED  BY <2>1 DEF Turns
  <1> HIDE DEF loop, N
  <1>7. PICK h \in [0 .. N -> X] : h[0] = list /\ \A i \in 1 .. N : h[i] = turn[i][h[i - 1]]
    <2> HIDE DEF turn, X
    <2>1. Traces(N, X, list, turn) # {}
      BY <1>1, <1>4, <1>5, LoopExists
    <2> QED  BY <2>1 DEF Traces
  <1>8. h = [i \in 0 .. N |->
                IF i = 0 THEN list
                ELSE IF b.nodes[i].good THEN insert_closest_node(h[i - 1], r, b.nodes[i])
                ELSE h[i - 1]]
    <2> HIDE DEF X
    <2>1. ASSUME NEW i \in 0 .. N
          PROVE  h[i] = IF i = 0 THEN list
                        ELSE IF b.nodes[i].good THEN insert_closest_node(h[i - 1], r, b.nodes[i])
                        ELSE h[i - 1]
      <3>1. CASE i = 0
        BY <1>7, <3>1
      <3>2. CASE i # 0
        <4>1. i \in 1 .. N /\ h[i - 1] \in X
          BY <1>1, <1>7, <3>2
        <4> QED  BY <1>7, <3>2, <4>1
      <3> QED  BY <3>1, <3>2
    <2> QED  BY <1>7, <2>1
  <1>9. loop = [i \in 0 .. N |->
                IF i = 0 THEN list
                ELSE IF b.nodes[i].good THEN insert_closest_node(loop[i - 1], r, b.nodes[i])
                ELSE loop[i - 1]]
    BY <1>3, <1>8
  <1>10. 0 \in S
    <2>1. loop[0] = list /\ 0 \in 0 .. N
      BY <1>1, <1>9
    <2>2. G \cup GoodUpTo(b, 0) = G
      BY DEF GoodUpTo
    <2> QED  BY <2>1, <2>2
  <1>11. ASSUME NEW i \in 1 .. N, i - 1 \in S PROVE i \in S
    <2>1. loop[i] = Step(i, loop[i - 1]) /\ i \in 0 .. N
      BY <1>1, <1>9
    <2> DEFINE H == G \cup GoodUpTo(b, i - 1)
               K == H \cup Put(i)
    <2>2. H \in SUBSET Id /\ Closest(loop[i - 1], H, r)
      <3>1. \A j \in 1 .. i - 1 : b.nodes[j].id \in Id
        BY <1>1, <1>a
      <3>2. GoodUpTo(b, i - 1) \in SUBSET Id
        BY <3>1 DEF GoodUpTo
      <3> QED  BY <1>11, <3>2
    <2>3. K = G \cup GoodUpTo(b, i)
      <3>1. GoodUpTo(b, i) = GoodUpTo(b, i - 1) \cup Put(i)
        <4>1. {j \in 1 .. i : b.nodes[j].good} =
                  {j \in 1 .. i - 1 : b.nodes[j].good} \cup (IF b.nodes[i].good THEN {i} ELSE {})
          BY <1>1
        <4>2. CASE b.nodes[i].good
          <5>1. Put(i) = {b.nodes[i].id}
            BY <4>2
          <5> QED  BY <4>1, <4>2, <5>1 DEF GoodUpTo
        <4>3. CASE ~ b.nodes[i].good
          <5>1. Put(i) = {}
            BY <4>3
          <5> QED  BY <4>1, <4>3, <5>1 DEF GoodUpTo
        <4> QED  BY <4>2, <4>3
      <3> QED  BY <3>1
    <2>4. Closest(Step(i, loop[i - 1]), K, r)
      <3> HIDE DEF Step, H
      <3> QED  BY <1>s, <2>2
    <2> HIDE DEF Step, K
    <2> QED  BY <2>1, <2>3, <2>4
  <1> HIDE DEF S
  <1>12. 0 .. N \subseteq S
    BY <1>1, <1>10, <1>11, InductionUpTo
  <1>13. N \in S
    BY <1>1, <1>12
  <1>14. Closest(loop[N], G \cup GoodUpTo(b, N), r)
    BY <1>13 DEF S
  <1> QED  BY <1>2, <1>14 DEF N

(* Ids differ from each other where the others differ from them. *)
LEMMA DifferenceSymmetric ==
    ASSUME NEW a \in Id, NEW b \in Id
    PROVE  FirstDifference(a, b) = FirstDifference(b, a)
  <1>1. {i \in 1 .. IdBytes : a[i] # b[i]} = {i \in 1 .. IdBytes : b[i] # a[i]}
    OBVIOUS
  <1> QED  BY <1>1 DEF FirstDifference

(* memcmp of two ids is a number, and changes its sign when they change places. *)
LEMMA CompareFacts ==
    ASSUME NEW a \in Id, NEW b \in Id
    PROVE  /\ id_cmp(a, b) \in Int
           /\ id_cmp(b, a) = 0 - id_cmp(a, b)
  <1> DEFINE d == FirstDifference(a, b)
  <1>1. FirstDifference(b, a) = d
    BY DifferenceSymmetric
  <1>2. CASE d = 0
    <2>1. id_cmp(a, b) = 0
      BY <1>2 DEF id_cmp
    <2>2. id_cmp(b, a) = 0
      BY <1>1, <1>2 DEF id_cmp
    <2> QED  BY <2>1, <2>2
  <1>3. CASE d # 0
    <2>1. d \in 1 .. IdBytes
      BY <1>3, DifferenceFacts
    <2>2. id_cmp(a, b) = a[d] - b[d] /\ id_cmp(b, a) = b[d] - a[d]
      BY <1>1, <1>3 DEF id_cmp
    <2> HIDE DEF d
    <2>3. a[d] \in Nat /\ b[d] \in Nat
      BY <2>1, QueriesAssumption DEF Id
    <2> QED  BY <2>2, <2>3
  <1> QED  BY <1>2, <1>3

(* find_bucket ends at a bucket of the table, and at one whose range holds the id when   *)
(* the first bucket does not start after it: its loop leaves at the bucket before the    *)
(* first one that starts after the id.                                                   *)
THEOREM BucketFound ==
    ASSUME NEW table \in Seq(Bucket), table # <<>>, NEW id \in Id
    PROVE  /\ find_bucket(table, id) \in 1 .. Len(table)
           /\ id_cmp(table[1].first, id) <= 0 => InBucket(table, find_bucket(table, id), id)
  <1> DEFINE L == Len(table)
             P == {k \in 1 .. L : id_cmp(id, table[k].first) < 0}
             before == IF P # {} THEN Min(P) ELSE 0
             f == find_bucket(table, id)
  <1>0. L \in Nat /\ L # 0 /\ \A k \in 1 .. L : table[k].first \in Id
    <2>1. \A k \in 1 .. L : table[k] \in Bucket
      OBVIOUS
    <2> QED  BY <2>1 DEF Bucket
  <1>1. f = IF before = 0 THEN L ELSE IF before = 1 THEN 1 ELSE before - 1
    BY DEF find_bucket, SelectInSeq
  <1>2. \/ P = {} /\ before = 0
        \/ before \in P /\ \A k \in P : before <= k
    <2>1. CASE P = {}
      BY <2>1
    <2>2. CASE P # {}
      <3>1. P \in SUBSET Nat
        OBVIOUS
      <3>2. PICK k \in P : \A j \in P : k <= j
        BY <2>2, <3>1, LeastNatural
      <3>3. Min(P) \in P /\ \A j \in P : Min(P) <= j
        <4> HIDE DEF P
        <4> QED  BY <3>2 DEF Min
      <3>4. before = Min(P)
        BY <2>2
      <3> QED  BY <3>3, <3>4
    <2> QED  BY <2>1, <2>2
  <1> HIDE DEF before, f
  <1>3. f \in 1 .. L
    BY <1>0, <1>1, <1>2
  <1>4. ASSUME id_cmp(table[1].first, id) <= 0 PROVE InBucket(table, f, id)
    <2>1. \A k \in 1 .. L : k \notin P => id_cmp(table[k].first, id) <= 0
      <3> TAKE k \in 1 .. L
      <3>1. /\ id_cmp(id, table[k].first) \in Int
            /\ id_cmp(table[k].first, id) = 0 - id_cmp(id, table[k].first)
        BY <1>0, CompareFacts
      <3> QED  BY <3>1
    <2>2. 1 \notin P
      <3>1. /\ id_cmp(id, table[1].first) \in Int
            /\ id_cmp(table[1].first, id) = 0 - id_cmp(id, table[1].first)
        BY <1>0, CompareFacts
      <3> QED  BY <1>4, <3>1
    <2>3. CASE before = 0
      <3>1. f = L /\ L \in 1 .. L /\ L \notin P
        BY <1>0, <1>1, <1>2, <2>3
      <3>2. id_cmp(table[L].first, id) <= 0
        BY <2>1, <3>1
      <3> QED  BY <3>1, <3>2 DEF InBucket
    <2>4. CASE before # 0
      <3>1. before \in P /\ before # 1 /\ \A k \in P : before <= k
        BY <1>2, <2>2, <2>4
      <3>2. f = before - 1 /\ f \in 1 .. L /\ f \notin P /\ f + 1 = before
        BY <1>0, <1>1, <1>3, <2>4, <3>1
      <3>3. id_cmp(table[f].first, id) <= 0
        BY <2>1, <3>2
      <3>4. id_cmp(id, table[f + 1].first) < 0
        BY <3>1, <3>2
      <3> QED  BY <3>3, <3>4 DEF InBucket
    <2> QED  BY <2>3, <2>4
  <1> QED  BY <1>3, <1>4 DEF f

(* The good nodes of a bucket are those of its list. *)
LEMMA GoodSetFacts ==
    ASSUME NEW b \in Bucket
    PROVE  GoodSet(b) = GoodUpTo(b, Len(b.nodes)) /\ GoodSet(b) \in SUBSET Id
  <1>1. b.nodes \in Seq(Node) /\ DOMAIN b.nodes = 1 .. Len(b.nodes)
    BY DEF Bucket
  <1>2. \A i \in 1 .. Len(b.nodes) : b.nodes[i].id \in Id
    <2>1. \A i \in 1 .. Len(b.nodes) : b.nodes[i] \in Node
      BY <1>1
    <2> QED  BY <2>1 DEF Node
  <1>3. GoodSet(b) = GoodUpTo(b, Len(b.nodes))
    BY <1>1 DEF GoodSet, GoodUpTo, ToSet
  <1>4. GoodUpTo(b, Len(b.nodes)) \in SUBSET Id
    BY <1>2 DEF GoodUpTo
  <1> QED  BY <1>3, <1>4

(* send_closest_nodes: whatever the table, the reply holds the good nodes closest to the *)
(* id among those of its bucket and of the two beside it, in order of closeness, and     *)
(* leaves one out only when it is full and every node in it is closer.                   *)
THEOREM RepliesWithClosest ==
    ASSUME NEW table \in Seq(Bucket), table # <<>>, NEW id \in Id
    PROVE  ClosestOf(send_closest_nodes(table, id), Reached(table, id), id)
  <1> DEFINE L == Len(table)
             b == find_bucket(table, id)
             own == buffer_closest_nodes(<<>>, id, table[b])
             next == IF b < L THEN buffer_closest_nodes(own, id, table[b + 1]) ELSE own
             reply == IF b > 1 THEN buffer_closest_nodes(next, id, table[b - 1]) ELSE next
             G1 == GoodSet(table[b])
             G2 == IF b < L THEN G1 \cup GoodSet(table[b + 1]) ELSE G1
             G3 == IF b > 1 THEN G2 \cup GoodSet(table[b - 1]) ELSE G2
  <1>0. L \in Nat /\ b \in 1 .. L /\ \A k \in 1 .. L : table[k] \in Bucket
    BY BucketFound
  <1>1. send_closest_nodes(table, id) = reply
    BY DEF send_closest_nodes
  <1>2. Reached(table, id) = G3
    <2>1. DOMAIN table = 1 .. L
      OBVIOUS
    <2>2. Reached(table, id) = UNION {GoodSet(table[k]) : k \in {b - 1, b, b + 1} \cap (1 .. L)}
      BY <2>1 DEF Reached
    <2>3. {b - 1, b, b + 1} \cap (1 .. L) =
              {b} \cup (IF b < L THEN {b + 1} ELSE {}) \cup (IF b > 1 THEN {b - 1} ELSE {})
      <3> HIDE DEF b, L
      <3> QED  BY <1>0
    <2> HIDE DEF b, L
    <2> QED  BY <2>2, <2>3
  <1> HIDE DEF b, L
  <1>k. ASSUME NEW list, NEW G \in SUBSET Id, Closest(list, G, id), NEW k \in 1 .. L
        PROVE  /\ Closest(buffer_closest_nodes(list, id, table[k]), G \cup GoodSet(table[k]), id)
               /\ G \cup GoodSet(table[k]) \in SUBSET Id
    <2>1. table[k] \in Bucket
      BY <1>0
    <2> DEFINE t == table[k]
    <2> HIDE DEF t
    <2>2. t \in Bucket
      BY <2>1 DEF t
    <2>3. GoodSet(t) = GoodUpTo(t, Len(t.nodes)) /\ GoodSet(t) \in SUBSET Id
      BY <2>2, GoodSetFacts
    <2>4. Closest(buffer_closest_nodes(list, id, t), G \cup GoodUpTo(t, Len(t.nodes)), id)
      BY <1>k, <2>2, BufferKeeps
    <2> QED  BY <2>3, <2>4 DEF t
  <1>3. Closest(<<>>, {}, id)
    <2>1. <<>> \in Seq(Id) /\ Len(<<>>) = 0 /\ 0 <= MaxClosest
      BY QueriesAssumption
    <2> QED  BY <2>1 DEF Closest
  <1>4. Closest(own, G1, id) /\ G1 \in SUBSET Id
    <2>1. {} \cup GoodSet(table[b]) = GoodSet(table[b])
      OBVIOUS
    <2> QED  BY <1>0, <1>3, <1>k, <2>1
  <1> HIDE DEF own, G1
  <1>5. Closest(next, G2, id) /\ G2 \in SUBSET Id
    <2>1. CASE b < L
      <3>1. b + 1 \in 1 .. L
        BY <1>0, <2>1
      <3> QED  BY <1>4, <1>k, <2>1, <3>1
    <2>2. CASE ~ (b < L)
      BY <1>4, <2>2
    <2> QED  BY <2>1, <2>2
  <1> HIDE DEF next, G2
  <1>6. Closest(reply, G3, id)
    <2>1. CASE b > 1
      <3>1. b - 1 \in 1 .. L
        BY <1>0, <2>1
      <3> QED  BY <1>5, <1>k, <2>1, <3>1
    <2>2. CASE ~ (b > 1)
      BY <1>5, <2>2
    <2> QED  BY <2>1, <2>2
  <1> HIDE DEF reply, G3
  <1>7. ClosestOf(reply, G3, id)
    <2>1. /\ reply \in Seq(Id) /\ Len(reply) <= MaxClosest /\ Len(reply) \in Nat
          /\ DOMAIN reply = 1 .. Len(reply)
      BY <1>6 DEF Closest
    <2>2. ToSet(reply) = {reply[i] : i \in 1 .. Len(reply)}
      BY <2>1 DEF ToSet
    <2>3. ToSet(reply) \subseteq G3
      BY <1>6, <2>2 DEF Closest
    <2> QED  BY <1>6, <2>1, <2>2, <2>3 DEF Closest, ClosestOf, Closer
  <1> QED  BY <1>1, <1>2, <1>7
=============================================================================
