------------------------- MODULE RoutingTableProofs -------------------------
(***************************************************************************)
(* The routing table keeps its invariants, whatever the number of bits of  *)
(* an id, the size of a bucket, the addresses and the clock.               *)
(***************************************************************************)
EXTENDS RoutingTable, Inductions, FiniteSetTheorems, SequenceTheorems

-----------------------------------------------------------------------------
(* Ids and ranges of ids (NodeIds), for every number of bits *)

(* Division with remainder. *)
LEMMA DivMod ==
    ASSUME NEW x \in Nat, NEW w \in Nat \ {0}
    PROVE  /\ x \div w \in Nat
           /\ x = (x \div w) * w + (x % w)
           /\ x % w \in 0 .. w - 1
  OBVIOUS

(* A remainder is determined by the quotient. *)
LEMMA ModUnique ==
    ASSUME NEW w \in Nat \ {0}, NEW k \in Nat, NEW r \in 0 .. w - 1
    PROVE  (k * w + r) % w = r
  <1>1. k * w \in Nat
    OBVIOUS
  <1> DEFINE x == k * w + r
  <1>2. x \in Nat /\ x = k * w + r
    BY <1>1
  <1> HIDE DEF x
  <1>3. x % w = r
    BY <1>2
  <1> QED  BY <1>3 DEF x

(* An odd multiple is not an even one. *)
LEMMA OddIsNotEven ==
    ASSUME NEW w \in Nat \ {0}, NEW i \in Nat, NEW j \in Nat,
           i * (2 * w) + w = j * (2 * w)
    PROVE  FALSE
  <1>1. (2 * i + 1) * w = (2 * j) * w
    OBVIOUS
  <1>2. 2 * i + 1 = 2 * j
    BY <1>1
  <1> QED  BY <1>2

(* Weights are positive and halve from one position to the next. *)
LEMMA WeightFacts ==
    ASSUME NEW p \in 0 .. IdBits
    PROVE  /\ Weight[p] \in Nat \ {0}
           /\ p < IdBits => p + 1 \in 0 .. IdBits /\ Weight[p] = 2 * Weight[p + 1]
           /\ p > 0 => p - 1 \in 0 .. IdBits /\ Weight[p - 1] = 2 * Weight[p]
  BY IdBitsAssumption, WeightAssumption

(* To be aligned is to be a multiple. *)
LEMMA AlignedMultiple ==
    ASSUME NEW x \in Nat, NEW p \in 0 .. IdBits
    PROVE  Aligned(x, p) <=> \E k \in Nat : x = k * Weight[p]
  <1>1. Weight[p] \in Nat \ {0}
    BY WeightFacts
  <1> DEFINE w == Weight[p]
  <1> HIDE DEF w
  <1>2. w \in Nat \ {0}
    BY <1>1 DEF w
  <1>3. ASSUME x % w = 0 PROVE \E k \in Nat : x = k * w
    <2>1. x \div w \in Nat /\ x = (x \div w) * w + 0
      BY <1>2, <1>3, DivMod
    <2>2. x = (x \div w) * w
      BY <2>1, <1>2
    <2> QED  BY <2>1, <2>2
  <1>4. ASSUME NEW k \in Nat, x = k * w PROVE x % w = 0
    BY <1>2, <1>4
  <1> QED  BY <1>3, <1>4 DEF Aligned, w

(* What is aligned at a position is aligned at the next one. *)
LEMMA AlignedNext ==
    ASSUME NEW x \in Nat, NEW p \in 0 .. IdBits, p < IdBits, Aligned(x, p)
    PROVE  Aligned(x, p + 1)
  <1>1. p + 1 \in 0 .. IdBits /\ Weight[p] = 2 * Weight[p + 1] /\ Weight[p + 1] \in Nat
    BY WeightFacts
  <1>2. PICK k \in Nat : x = k * Weight[p]
    BY AlignedMultiple
  <1>3. x = (2 * k) * Weight[p + 1]
    BY <1>1, <1>2
  <1>4. 2 * k \in Nat
    OBVIOUS
  <1> QED  BY <1>1, <1>3, <1>4, AlignedMultiple

(* ... and at every later one. *)
LEMMA AlignedLater ==
    ASSUME NEW x \in Nat, NEW p \in 0 .. IdBits, NEW q \in p .. IdBits, Aligned(x, p)
    PROVE  Aligned(x, q)
  <1> DEFINE S == {r \in p .. IdBits : ~ Aligned(x, r)}
  <1>1. SUFFICES ASSUME S # {} PROVE FALSE
    BY <1>1
  <1>2. S \in SUBSET Nat
    OBVIOUS
  <1>3. PICK m \in S : \A r \in S : m <= r
    BY <1>1, <1>2, LeastNatural
  <1>4. m # p /\ m - 1 \in p .. IdBits /\ m - 1 \in 0 .. IdBits /\ m - 1 < IdBits
    BY <1>3, IdBitsAssumption
  <1>5. Aligned(x, m - 1)
    BY <1>3, <1>4
  <1>6. Aligned(x, (m - 1) + 1)
    BY <1>4, <1>5, AlignedNext
  <1>7. (m - 1) + 1 = m
    BY <1>3
  <1> QED  BY <1>3, <1>6, <1>7

(* lowbit is one less than the first position at which the id is aligned. *)
LEMMA LowBitIs ==
    ASSUME NEW x \in Nat, NEW m \in 0 .. IdBits, Aligned(x, m),
           m = 0 \/ ~ Aligned(x, m - 1)
    PROVE  LowBit(x) = m - 1
  <1>1. CASE m = 0
    <2>1. \A p \in 0 .. IdBits - 1 : Aligned(x, p)
      BY <1>1, AlignedLater, IdBitsAssumption
    <2> QED  BY <1>1, <2>1 DEF LowBit
  <1>2. CASE m # 0
    <2>1. m - 1 \in 0 .. IdBits - 1 /\ ~ Aligned(x, m - 1)
      BY <1>2, IdBitsAssumption
    <2>2. \A q \in m .. IdBits - 1 : Aligned(x, q)
      BY AlignedLater, IdBitsAssumption
    <2> DEFINE Last(p) == ~ Aligned(x, p) /\ \A q \in p + 1 .. IdBits - 1 : Aligned(x, q)
    <2>3. Last(m - 1)
      <3>1. (m - 1) + 1 = m
        OBVIOUS
      <3> QED  BY <2>1, <2>2, <3>1
    <2>4. ASSUME NEW p \in 0 .. IdBits - 1, Last(p) PROVE p = m - 1
      <3>1. CASE p < m - 1
        BY <2>1, <2>4, <3>1
      <3>2. CASE p > m - 1
        BY <2>2, <2>4, <3>2
      <3> QED  BY <2>1, <3>1, <3>2
    <2> HIDE DEF Last
    <2>5. (CHOOSE p \in 0 .. IdBits - 1 : Last(p)) = m - 1
      BY <2>1, <2>3, <2>4
    <2> QED  BY <2>1, <2>5 DEF LowBit, Last
  <1> QED  BY <1>1, <1>2

(* Such a position exists. *)
LEMMA LowBitExists ==
    ASSUME NEW x \in Nat
    PROVE  \E m \in 0 .. IdBits : Aligned(x, m) /\ (m = 0 \/ ~ Aligned(x, m - 1))
  <1> DEFINE S == {m \in 0 .. IdBits : Aligned(x, m)}
  <1>1. IdBits \in S
    <2>1. IdBits \in 0 .. IdBits /\ Weight[IdBits] = 1
      BY IdBitsAssumption, WeightAssumption
    <2> QED  BY <2>1 DEF Aligned
  <1>2. S \in SUBSET Nat /\ S # {}
    BY <1>1
  <1> HIDE DEF S
  <1>3. PICK m \in S : \A r \in S : m <= r
    BY <1>2, LeastNatural
  <1>4. m - 1 \notin S
    BY <1>2, <1>3
  <1> QED  BY <1>3, <1>4, IdBitsAssumption DEF S

(* Two ends of a range of ids that share a prefix of p bits: the bit after it  *)
(* is the one bucket_middle sets.                                               *)
LEMMA RangeBitIs ==
    ASSUME NEW p \in 0 .. IdBits, NEW lo \in Id, Aligned(lo, p),
           lo + Weight[p] <= EndOfIds
    PROVE  RangeBit(lo, lo + Weight[p]) = p
  <1> DEFINE hi == lo + Weight[p]
  <1>1. lo \in Nat /\ hi \in Nat
    BY WeightFacts DEF Id
  <1>2. PICK k \in Nat : lo = k * Weight[p]
    BY <1>1, AlignedMultiple
  <1>3. hi = (k + 1) * Weight[p] /\ k + 1 \in Nat
    BY <1>2, WeightFacts
  <1>4. Aligned(hi, p)
    BY <1>1, <1>3, AlignedMultiple
  <1> HIDE DEF hi
  <1>5. PICK m1 \in 0 .. IdBits : Aligned(lo, m1) /\ (m1 = 0 \/ ~ Aligned(lo, m1 - 1))
    BY <1>1, LowBitExists
  <1>6. PICK m2 \in 0 .. IdBits : Aligned(hi, m2) /\ (m2 = 0 \/ ~ Aligned(hi, m2 - 1))
    BY <1>1, LowBitExists
  <1>7. m1 <= p
    <2>1. SUFFICES ASSUME p < m1 PROVE FALSE
      BY <2>1
    <2>2. m1 - 1 \in p .. IdBits
      BY <2>1, IdBitsAssumption
    <2> QED  BY <1>1, <1>5, <2>1, <2>2, AlignedLater
  <1>8. m2 <= p
    <2>1. SUFFICES ASSUME p < m2 PROVE FALSE
      BY <2>1
    <2>2. m2 - 1 \in p .. IdBits
      BY <2>1, IdBitsAssumption
    <2> QED  BY <1>1, <1>4, <1>6, <2>1, <2>2, AlignedLater
  <1>9. m1 = p \/ m2 = p
    <2>1. SUFFICES ASSUME m1 < p, m2 < p PROVE FALSE
      BY <1>7, <1>8, <2>1
    <2>2. p - 1 \in 0 .. IdBits /\ Weight[p - 1] = 2 * Weight[p] /\ Weight[p] \in Nat \ {0}
      BY <2>1, WeightFacts
    <2>3. Aligned(lo, p - 1) /\ Aligned(hi, p - 1)
      BY <1>1, <1>5, <1>6, <2>1, <2>2, AlignedLater
    <2>4. PICK i \in Nat : lo = i * Weight[p - 1]
      BY <1>1, <2>2, <2>3, AlignedMultiple
    <2>5. PICK j \in Nat : hi = j * Weight[p - 1]
      BY <1>1, <2>2, <2>3, AlignedMultiple
    <2>6. i * (2 * Weight[p]) + Weight[p] = j * (2 * Weight[p])
      BY <2>2, <2>4, <2>5 DEF hi
    <2> QED  BY <2>2, <2>6, OddIsNotEven
  <1>10. LowBit(lo) = m1 - 1 /\ LowBit(hi) = m2 - 1
    BY <1>1, <1>5, <1>6, LowBitIs
  <1> QED  BY <1>7, <1>8, <1>9, <1>10 DEF RangeBit, hi

(* A range of all the ids with a common prefix has a middle unless it is one   *)
(* id, and its middle cuts it into the two ranges with one more bit in common.  *)
LEMMA HalvesOfRange ==
    ASSUME NEW p \in 0 .. IdBits, NEW lo \in Id, Aligned(lo, p),
           lo + Weight[p] <= EndOfIds
    PROVE  LET hi == lo + Weight[p]
               mid == BucketMiddle(lo, hi)
           IN  /\ HasMiddle(lo, hi) <=> p < IdBits
               /\ p < IdBits =>
                    /\ mid \in Id
                    /\ mid = lo + Weight[p + 1]
                    /\ hi = mid + Weight[p + 1]
                    /\ Aligned(lo, p + 1)
                    /\ Aligned(mid, p + 1)
  <1> DEFINE hi == lo + Weight[p]
             mid == BucketMiddle(lo, hi)
  <1>1. RangeBit(lo, hi) = p
    BY RangeBitIs
  <1>2. HasMiddle(lo, hi) <=> p < IdBits
    BY <1>1 DEF HasMiddle
  <1>3. ASSUME p < IdBits
        PROVE  /\ mid \in Id
               /\ mid = lo + Weight[p + 1]
               /\ hi = mid + Weight[p + 1]
               /\ Aligned(lo, p + 1)
               /\ Aligned(mid, p + 1)
    <2>1. /\ p + 1 \in 0 .. IdBits
          /\ Weight[p] = 2 * Weight[p + 1]
          /\ Weight[p + 1] \in Nat \ {0}
          /\ lo \in Nat
      BY <1>3, WeightFacts DEF Id
    <2>2. mid = lo + Weight[p + 1]
      BY <1>1 DEF BucketMiddle
    <2>3. hi = mid + Weight[p + 1] /\ mid \in Nat
      BY <2>1, <2>2
    <2>4. mid \in Id
      <3>1. 0 \in 0 .. IdBits
        BY IdBitsAssumption
      <3>2. EndOfIds \in Nat
        BY <3>1, WeightFacts DEF EndOfIds
      <3>3. lo + Weight[p + 1] < EndOfIds
        BY <2>1, <3>2
      <3>4. lo + Weight[p + 1] \in Id
        BY <2>1, <3>2, <3>3 DEF Id, EndOfIds
      <3> QED  BY <2>2, <3>4
    <2>5. PICK k \in Nat : lo = k * Weight[p]
      BY <2>1, AlignedMultiple
    <2>6. /\ lo = (2 * k) * Weight[p + 1] /\ 2 * k \in Nat
          /\ mid = (2 * k + 1) * Weight[p + 1] /\ 2 * k + 1 \in Nat
      BY <2>1, <2>2, <2>5
    <2>7. Aligned(lo, p + 1) /\ Aligned(mid, p + 1)
      BY <2>1, <2>3, <2>6, AlignedMultiple
    <2> QED  BY <2>2, <2>3, <2>4, <2>7
  <1> QED  BY <1>2, <1>3

-----------------------------------------------------------------------------
(* The buckets *)

(* What a bucket whose range ends at hi must satisfy by itself at time T. *)
GoodBucket(b, hi, T) ==
    /\ IsFiniteSet(b.nodes)
    /\ b.count = Cardinality(b.nodes)
    /\ b.count <= K
    /\ \A n \in b.nodes : b.first <= n.id /\ n.id < hi /\ n.id # MyId
    /\ \A n \in b.nodes : n.reply_time <= b.time
    /\ \A n, m \in b.nodes : n.id = m.id => n = m
    /\ b.cached # NoAddr => b.count = K
    /\ b.time <= T

(* A list of buckets that is in order and whose buckets are good. *)
GoodList(bs, T) ==
    /\ bs \in Seq(Bucket) /\ bs # <<>>
    /\ Tiles(bs)
    /\ \A i \in DOMAIN bs : GoodBucket(bs[i], Upper(bs, i), T)
    /\ \A i \in DOMAIN bs : SplitAroundMe(bs, i)

(* The inductive invariant. *)
IInv ==
    /\ GoodList(buckets, now)
    /\ grow_time \in Time
    /\ now \in Time
    /\ call \in Call \cup {NoCall}

-----------------------------------------------------------------------------
(* Ids and addresses of the constants. *)
LEMMA EndOfIdsFacts == EndOfIds \in Nat \ {0} /\ Id = 0 .. EndOfIds - 1
  <1>1. 0 \in 0 .. IdBits
    BY IdBitsAssumption
  <1> QED  BY <1>1, WeightFacts DEF EndOfIds, Id

(* The fields of a bucket. *)
LEMMA BucketFields ==
    ASSUME NEW b \in Bucket
    PROVE  /\ b.first \in Id /\ b.first \in Nat
           /\ b.count \in Nat
           /\ b.time \in Time
           /\ b.nodes \in SUBSET Node
           /\ b.cached \in Addr \cup {NoAddr}
  <1>1. b.first \in Id
    BY DEF Bucket
  <1>2. b.first \in Nat
    BY <1>1, EndOfIdsFacts
  <1> QED  BY <1>1, <1>2 DEF Bucket

(* The buckets of a list and their ranges. *)
LEMMA ListFields ==
    ASSUME NEW bs \in Seq(Bucket), NEW i \in 1 .. Len(bs)
    PROVE  bs[i] \in Bucket /\ bs[i].first \in Nat /\ Upper(bs, i) \in Nat
  <1>1. \A j \in 1 .. Len(bs) : bs[j] \in Bucket /\ bs[j].first \in Nat
    BY BucketFields
  <1>2. i # Len(bs) => i + 1 \in 1 .. Len(bs)
    OBVIOUS
  <1> QED  BY <1>1, <1>2, EndOfIdsFacts DEF Upper

(* find_bucket stops at the first bucket whose range ends after the id. *)
LEMMA FindBucketStops ==
    ASSUME NEW bs \in Seq(Bucket), bs # <<>>, NEW id \in Id
    PROVE  LET i == FindBucket(bs, id)
           IN  /\ i \in 1 .. Len(bs)
               /\ id < Upper(bs, i)
               /\ \A j \in 1 .. i - 1 : Upper(bs, j) <= id
  <1> DEFINE S == {i \in 1 .. Len(bs) : id < Upper(bs, i)}
  <1>1. Len(bs) \in Nat /\ Len(bs) >= 1 /\ DOMAIN bs = 1 .. Len(bs)
    OBVIOUS
  <1>2. Len(bs) \in S
    BY <1>1, EndOfIdsFacts DEF Upper
  <1>3. S \in SUBSET Nat
    OBVIOUS
  <1>4. PICK m \in S : \A x \in S : m <= x
    BY <1>2, <1>3, LeastNatural
  <1>5. \A j \in 1 .. m - 1 : j \in 1 .. Len(bs) /\ j \notin S
    <2>1. m \in 1 .. Len(bs)
      BY <1>4
    <2>2. \A x \in S : x >= m
      BY <1>3, <1>4
    <2> HIDE DEF S
    <2> QED  BY <1>1, <2>1, <2>2
  <1>6. \A j \in 1 .. Len(bs) : Upper(bs, j) \in Nat
    BY ListFields
  <1>7. \A j \in 1 .. m - 1 : Upper(bs, j) <= id
    BY <1>5, <1>6, EndOfIdsFacts
  <1> QED  BY <1>1, <1>4, <1>7 DEF FindBucket

(* In a list that starts at 0, the id is in the bucket found. *)
LEMMA FindBucketHolds ==
    ASSUME NEW bs \in Seq(Bucket), bs # <<>>, NEW id \in Id, bs[1].first = 0
    PROVE  LET i == FindBucket(bs, id)
           IN  i \in 1 .. Len(bs) /\ InBucket(bs, i, id)
  <1> DEFINE i == FindBucket(bs, id)
  <1>1. i \in 1 .. Len(bs) /\ id < Upper(bs, i) /\ \A j \in 1 .. i - 1 : Upper(bs, j) <= id
    BY FindBucketStops
  <1> HIDE DEF i
  <1>2. ASSUME i = 1 PROVE bs[i].first <= id
    BY <1>2, EndOfIdsFacts
  <1>3. ASSUME i # 1 PROVE bs[i].first <= id
    <2>1. i - 1 \in 1 .. i - 1 /\ i - 1 # Len(bs)
      BY <1>1, <1>3
    <2>2. Upper(bs, i - 1) <= id
      BY <1>1, <2>1
    <2>3. Upper(bs, i - 1) = bs[i].first
      BY <1>1, <2>1 DEF Upper
    <2> QED  BY <2>2, <2>3
  <1> QED  BY <1>1, <1>2, <1>3 DEF i, InBucket

(* Nothing but the bucket that holds the id is found, in a list in order. *)
LEMMA FindBucketUnique ==
    ASSUME NEW bs \in Seq(Bucket), bs # <<>>, NEW id \in Id, bs[1].first = 0,
           \A i, j \in DOMAIN bs : i < j => bs[i].first < bs[j].first,
           NEW k \in 1 .. Len(bs), InBucket(bs, k, id)
    PROVE  FindBucket(bs, id) = k
  <1> DEFINE i == FindBucket(bs, id)
  <1>1. i \in 1 .. Len(bs) /\ InBucket(bs, i, id)
    BY FindBucketHolds
  <1> HIDE DEF i
  <1>2. \A j \in 1 .. Len(bs) : bs[j].first \in Nat
    BY ListFields
  <1>3. id \in Nat
    BY EndOfIdsFacts
  <1>4. ASSUME NEW a \in 1 .. Len(bs), NEW c \in 1 .. Len(bs), a < c,
               InBucket(bs, a, id), InBucket(bs, c, id)
        PROVE  FALSE
    <2>1. a # Len(bs) /\ a + 1 \in 1 .. Len(bs)
      BY <1>4
    <2>2. id < bs[a + 1].first /\ bs[c].first <= id
      BY <1>4, <2>1 DEF InBucket, Upper
    <2>3. a + 1 = c \/ bs[a + 1].first < bs[c].first
      BY <1>4, <2>1
    <2> QED  BY <1>2, <1>3, <2>1, <2>2, <2>3
  <1>5. i = k
    BY <1>1, <1>4
  <1> QED  BY <1>5 DEF i

-----------------------------------------------------------------------------
(* A list of good buckets over the ranges of a good list is a good list. *)
LEMMA SameRangesGood ==
    ASSUME NEW T \in Time, NEW bs, GoodList(bs, T), NEW cs \in Seq(Bucket),
           Len(cs) = Len(bs),
           \A j \in DOMAIN bs : cs[j].first = bs[j].first /\ GoodBucket(cs[j], Upper(bs, j), T)
    PROVE  GoodList(cs, T)
  <1>1. bs \in Seq(Bucket) /\ DOMAIN bs = 1 .. Len(bs) /\ Len(bs) \in Nat
    BY DEF GoodList
  <1>2. DOMAIN cs = DOMAIN bs /\ cs # <<>> /\ 1 \in DOMAIN bs
    BY <1>1 DEF GoodList
  <1>3. \A j \in DOMAIN bs : Upper(cs, j) = Upper(bs, j)
    <2>1. ASSUME NEW n \in Nat PROVE \A j \in 1 .. n : j # n => j + 1 \in 1 .. n
      OBVIOUS
    <2> QED  BY <1>1, <1>2, <2>1 DEF Upper
  <1>4. \A j \in DOMAIN bs : Size(cs, j) = Size(bs, j)
    BY <1>3 DEF Size
  <1>5. Tiles(cs)
    BY <1>2, <1>4 DEF Tiles, GoodList
  <1>6. \A j \in DOMAIN cs : GoodBucket(cs[j], Upper(cs, j), T)
    BY <1>2, <1>3
  <1>7. \A j \in DOMAIN cs : SplitAroundMe(cs, j)
    BY <1>2, <1>4 DEF SplitAroundMe, GoodList
  <1> QED  BY <1>2, <1>5, <1>6, <1>7 DEF GoodList

(* A list whose i-th bucket is replaced by one with the same first id. *)
LEMMA PutBucketGood ==
    ASSUME NEW T \in Time, NEW bs, GoodList(bs, T), NEW i \in DOMAIN bs, NEW b \in Bucket,
           b.first = bs[i].first, GoodBucket(b, Upper(bs, i), T)
    PROVE  GoodList([bs EXCEPT ![i] = b], T)
  <1> DEFINE cs == [bs EXCEPT ![i] = b]
  <1>1. bs \in Seq(Bucket) /\ DOMAIN bs = 1 .. Len(bs)
    BY DEF GoodList
  <1>2. cs \in Seq(Bucket) /\ Len(cs) = Len(bs)
    BY <1>1
  <1>3. \A j \in DOMAIN bs : cs[j] = IF j = i THEN b ELSE bs[j]
    BY <1>1
  <1> HIDE DEF cs
  <1>4. \A j \in DOMAIN bs : cs[j].first = bs[j].first /\ GoodBucket(cs[j], Upper(bs, j), T)
    BY <1>3 DEF GoodList
  <1>5. GoodList(cs, T)
    BY <1>2, <1>4, SameRangesGood
  <1> QED  BY <1>5 DEF cs

(* Exchanging a node for one with the same id, or for one with a new id. *)
LEMMA SwapNodes ==
    ASSUME NEW nodes \in SUBSET Node, IsFiniteSet(nodes),
           \A x, y \in nodes : x.id = y.id => x = y,
           NEW n \in nodes, NEW m \in Node,
           m.id = n.id \/ \A x \in nodes : x.id # m.id
    PROVE  /\ Swap(nodes, n, m) \in SUBSET Node
           /\ IsFiniteSet(Swap(nodes, n, m))
           /\ Cardinality(Swap(nodes, n, m)) = Cardinality(nodes)
           /\ \A x, y \in Swap(nodes, n, m) : x.id = y.id => x = y
  <1>1. m \notin nodes \ {n}
    OBVIOUS
  <1>2. /\ IsFiniteSet(nodes \ {n})
        /\ Cardinality(nodes \ {n}) = Cardinality(nodes) - 1
        /\ Cardinality(nodes) \in Nat
    BY FS_RemoveElement, FS_CardinalityType
  <1>3. /\ IsFiniteSet(Swap(nodes, n, m))
        /\ Cardinality(Swap(nodes, n, m)) = Cardinality(nodes \ {n}) + 1
    BY <1>1, <1>2, FS_AddElement DEF Swap
  <1>4. Cardinality(Swap(nodes, n, m)) = Cardinality(nodes)
    BY <1>2, <1>3
  <1>5. \A x, y \in Swap(nodes, n, m) : x.id = y.id => x = y
    BY DEF Swap
  <1>6. Swap(nodes, n, m) \in SUBSET Node
    BY DEF Swap
  <1> QED  BY <1>3, <1>4, <1>5, <1>6

(* A good bucket with one node exchanged, its time raised and its candidate     *)
(* kept, dropped or, when it is full, replaced.                                 *)
LEMMA SwapGood ==
    ASSUME NEW b \in Bucket, NEW hi \in Nat, NEW T \in Time, GoodBucket(b, hi, T),
           NEW n \in b.nodes, NEW m \in Node,
           \/ m.id = n.id
           \/ /\ \A x \in b.nodes : x.id # m.id
              /\ b.first <= m.id /\ m.id < hi /\ m.id # MyId,
           NEW d \in Bucket, d.first = b.first, d.count = b.count,
           b.time <= d.time, d.time <= T, m.reply_time <= d.time,
           d.nodes = Swap(b.nodes, n, m),
           d.cached = b.cached \/ d.cached = NoAddr \/ b.count = K
    PROVE  GoodBucket(d, hi, T)
  <1>1. b.nodes \in SUBSET Node /\ b.time \in Time /\ d.time \in Time
    BY BucketFields
  <1>2. /\ IsFiniteSet(b.nodes)
        /\ \A x, y \in b.nodes : x.id = y.id => x = y
        /\ \A x \in b.nodes : b.first <= x.id /\ x.id < hi /\ x.id # MyId
        /\ \A x \in b.nodes : x.reply_time <= b.time
    BY DEF GoodBucket
  <1>3. /\ IsFiniteSet(d.nodes)
        /\ Cardinality(d.nodes) = Cardinality(b.nodes)
        /\ \A x, y \in d.nodes : x.id = y.id => x = y
    BY <1>1, <1>2, SwapNodes
  <1>4. \A x \in d.nodes : d.first <= x.id /\ x.id < hi /\ x.id # MyId
    BY <1>2 DEF Swap
  <1>5. \A x \in d.nodes : x.reply_time <= d.time
    <2>1. \A x \in b.nodes : x.reply_time \in Time
      BY <1>1 DEF Node
    <2>2. \A x \in b.nodes : x.reply_time <= d.time
      BY <1>1, <1>2, <2>1, TimesAssumption DEF Time
    <2> QED  BY <2>2 DEF Swap
  <1>6. d.cached # NoAddr => d.count = K
    BY DEF GoodBucket
  <1> QED  BY <1>3, <1>4, <1>5, <1>6 DEF GoodBucket

(* A good bucket with room for it and a new node added. *)
LEMMA AddGood ==
    ASSUME NEW b \in Bucket, NEW hi \in Nat, NEW T \in Time, GoodBucket(b, hi, T), b.count < K,
           NEW m \in Node, \A x \in b.nodes : x.id # m.id,
           b.first <= m.id, m.id < hi, m.id # MyId,
           NEW t \in Time, b.time <= t, t <= T, m.reply_time <= t,
           NEW d \in Bucket, d.first = b.first, d.count = b.count + 1, d.time = t,
           d.nodes = b.nodes \cup {m}, d.cached = b.cached
    PROVE  GoodBucket(d, hi, T)
  <1>1. b.nodes \in SUBSET Node /\ b.time \in Time /\ b.count \in Nat
    BY BucketFields
  <1>2. m \notin b.nodes
    OBVIOUS
  <1>3. IsFiniteSet(d.nodes) /\ Cardinality(d.nodes) = Cardinality(b.nodes) + 1
    <2>1. IsFiniteSet(b.nodes)
      BY DEF GoodBucket
    <2>2. /\ IsFiniteSet(b.nodes \cup {m})
          /\ Cardinality(b.nodes \cup {m}) = Cardinality(b.nodes) + 1
      BY <1>2, <2>1, FS_AddElement, Zenon
    <2> QED  BY <2>2
  <1>4. \A x \in d.nodes : x.reply_time <= d.time
    <2>1. \A x \in b.nodes : x.reply_time \in Time
      BY <1>1 DEF Node
    <2>2. \A x \in b.nodes : x.reply_time <= t
      BY <1>1, <2>1, TimesAssumption DEF Time, GoodBucket
    <2> QED  BY <2>2
  <1>5. d.count <= K /\ d.cached = NoAddr
    BY <1>1, KAssumption DEF GoodBucket
  <1> QED  BY <1>3, <1>4, <1>5 DEF GoodBucket

(* A good bucket stays good when only its time is raised. *)
LEMMA RaiseTimeGood ==
    ASSUME NEW b \in Bucket, NEW hi \in Nat, NEW T \in Time, GoodBucket(b, hi, T),
           NEW t \in Time, b.time <= t, t <= T
    PROVE  /\ [b EXCEPT !.time = t] \in Bucket
           /\ GoodBucket([b EXCEPT !.time = t], hi, T)
  <1>1. b.nodes \in SUBSET Node /\ b.time \in Time
    BY BucketFields
  <1>2. \A x \in b.nodes : x.reply_time \in Time
    BY <1>1 DEF Node
  <1>3. \A x \in b.nodes : x.reply_time <= t
    BY <1>1, <1>2, TimesAssumption DEF Time, GoodBucket
  <1> QED  BY <1>3 DEF GoodBucket, Bucket

(* A good bucket is good after its dead nodes are purged. *)
LEMMA PurgedGood ==
    ASSUME NEW b \in Bucket, NEW hi \in Nat, NEW T \in Time, GoodBucket(b, hi, T)
    PROVE  Purged(b) \in Bucket /\ Purged(b).first = b.first /\ GoodBucket(Purged(b), hi, T)
  <1> DEFINE dead == {n \in b.nodes : n.pinged >= 4}
             rest == [b EXCEPT !.nodes = @ \ dead, !.count = @ - Cardinality(dead),
                               !.cached = NoAddr]
  <1>1. CASE dead = {}
    BY <1>1 DEF Purged
  <1>2. CASE dead # {}
    <2>1. Purged(b) = rest
      BY <1>2 DEF Purged
    <2>2. /\ IsFiniteSet(b.nodes \ dead) /\ IsFiniteSet(dead)
          /\ Cardinality(b.nodes \ dead) = Cardinality(b.nodes) - Cardinality(b.nodes \cap dead)
      BY FS_Difference, FS_Subset DEF GoodBucket
    <2>3. b.nodes \cap dead = dead
      OBVIOUS
    <2>4. Cardinality(b.nodes \ dead) = b.count - Cardinality(dead)
      BY <2>2, <2>3 DEF GoodBucket
    <2>5. Cardinality(dead) \in Nat /\ Cardinality(b.nodes \ dead) \in Nat
      BY <2>2, FS_CardinalityType
    <2> HIDE DEF dead
    <2>6. /\ rest.first = b.first /\ rest.time = b.time /\ rest.cached = NoAddr
          /\ rest.nodes = b.nodes \ dead /\ rest.count = b.count - Cardinality(dead)
      BY DEF Bucket
    <2>7. rest \in Bucket
      BY <2>4, <2>5 DEF Bucket
    <2>8. rest.count <= K
      BY <2>5, <2>6, BucketFields, KAssumption DEF GoodBucket
    <2> HIDE DEF rest
    <2>9. GoodBucket(rest, hi, T)
      BY <2>2, <2>4, <2>6, <2>8 DEF GoodBucket
    <2> QED  BY <2>1, <2>6, <2>7, <2>9
  <1> QED  BY <1>1, <1>2

-----------------------------------------------------------------------------
(* A function on 1 .. n is a sequence of length n. *)
LEMMA FunctionIsSeq ==
    ASSUME NEW S, NEW n \in Nat, NEW f \in [1 .. n -> S]
    PROVE  f \in Seq(S) /\ Len(f) = n
  <1>1. f \in Seq(S)
    BY SeqDef
  <1>2. DOMAIN f = 1 .. n /\ DOMAIN f = 1 .. Len(f) /\ Len(f) \in Nat
    BY <1>1
  <1> QED  BY <1>1, <1>2

(* split_bucket keeps a list of buckets good. *)
LEMMA SplitGood ==
    ASSUME NEW T \in Time, NEW bs, GoodList(bs, T), NEW i \in DOMAIN bs, InBucket(bs, i, MyId),
           HasMiddle(bs[i].first, Upper(bs, i))
    PROVE  GoodList(SplitBucket(bs, i), T)
  <1> DEFINE N == Len(bs)
             lo == bs[i].first
             hi == Upper(bs, i)
             mid == BucketMiddle(lo, hi)
             t == bs[i].time
             nodes == bs[i].nodes
             es == WithBucketAfter([bs EXCEPT ![i] = EmptyBucket(lo, t)], i, EmptyBucket(mid, t))
             mine(j) == {n \in nodes : FindBucket(es, n.id) = j}
             rs == InsertNodes(es, nodes)
  <1>1. /\ bs \in Seq(Bucket) /\ N \in Nat /\ DOMAIN bs = 1 .. N
        /\ i \in 1 .. N /\ 1 \in 1 .. N
    BY DEF GoodList
  <1>2. \A j \in 1 .. N : bs[j] \in Bucket /\ bs[j].first \in Nat /\ Upper(bs, j) \in Nat
    BY <1>1, ListFields
  <1>3. /\ lo \in Id /\ lo \in Nat /\ hi \in Nat /\ t \in Time /\ nodes \in SUBSET Node
        /\ GoodBucket(bs[i], hi, T)
    BY <1>1, <1>2, BucketFields DEF GoodList
  <1>4. hi <= EndOfIds
    <2>1. CASE i = N
      BY <2>1, EndOfIdsFacts DEF Upper
    <2>2. CASE i # N
      <3>1. i + 1 \in 1 .. N /\ hi = bs[i + 1].first
        BY <1>1, <2>2 DEF Upper
      <3>2. bs[i + 1].first \in Id
        BY <1>2, <3>1, BucketFields
      <3> QED  BY <3>1, <3>2, EndOfIdsFacts
    <2> QED  BY <2>1, <2>2
  <1>5. PICK p \in 0 .. IdBits : hi - lo = Weight[p] /\ Aligned(lo, p)
    BY <1>1 DEF GoodList, Tiles, Size
  <1>6. hi = lo + Weight[p] /\ Weight[p] \in Nat \ {0}
    BY <1>3, <1>5, WeightFacts
  <1>7. p < IdBits /\ p + 1 \in 0 .. IdBits /\ Weight[p] = 2 * Weight[p + 1]
        /\ Weight[p + 1] \in Nat \ {0}
    BY <1>3, <1>4, <1>5, <1>6, HalvesOfRange, WeightFacts
  <1>8. /\ mid \in Id /\ mid = lo + Weight[p + 1] /\ hi = mid + Weight[p + 1]
        /\ Aligned(lo, p + 1) /\ Aligned(mid, p + 1)
    BY <1>3, <1>4, <1>5, <1>6, <1>7, HalvesOfRange
  <1>9. mid \in Nat /\ lo < mid /\ mid < hi
    BY <1>3, <1>7, <1>8
  <1> HIDE DEF mid, lo, hi, t, nodes, N
  <1>10. EmptyBucket(lo, t) \in Bucket /\ EmptyBucket(mid, t) \in Bucket
    <2>1. {} \in SUBSET Node /\ 0 \in Nat
      OBVIOUS
    <2> QED  BY <1>3, <1>8, <2>1 DEF EmptyBucket, Bucket
  <1>11. /\ es \in Seq(Bucket) /\ Len(es) = N + 1 /\ DOMAIN es = 1 .. N + 1 /\ es # <<>>
         /\ \A j \in 1 .. N + 1 :
              es[j] = IF j < i THEN bs[j]
                      ELSE IF j = i THEN EmptyBucket(lo, t)
                      ELSE IF j = i + 1 THEN EmptyBucket(mid, t)
                      ELSE bs[j - 1]
    <2> DEFINE ds == [bs EXCEPT ![i] = EmptyBucket(lo, t)]
    <2>1. Len(ds) = N /\ \A j \in 1 .. N : ds[j] = IF j = i THEN EmptyBucket(lo, t) ELSE bs[j]
      BY <1>1 DEF N
    <2> HIDE DEF ds
    <2>2. es = [j \in 1 .. N + 1 |->
                  IF j <= i THEN ds[j] ELSE IF j = i + 1 THEN EmptyBucket(mid, t) ELSE ds[j - 1]]
      BY <2>1 DEF WithBucketAfter, ds
    <2> HIDE DEF es
    <2>3. \A j \in 1 .. N + 1 :
              es[j] = IF j < i THEN bs[j]
                      ELSE IF j = i THEN EmptyBucket(lo, t)
                      ELSE IF j = i + 1 THEN EmptyBucket(mid, t)
                      ELSE bs[j - 1]
      <3> TAKE j \in 1 .. N + 1
      <3>1. CASE j < i
        BY <1>1, <2>1, <2>2, <3>1
      <3>2. CASE j = i
        BY <1>1, <2>1, <2>2, <3>2
      <3>3. CASE j = i + 1
        BY <1>1, <2>1, <2>2, <3>3
      <3>4. CASE j > i + 1
        <4>1. j - 1 \in 1 .. N /\ j - 1 # i
          BY <1>1, <3>4
        <4> QED  BY <1>1, <2>1, <2>2, <3>4, <4>1
      <3> QED  BY <1>1, <3>1, <3>2, <3>3, <3>4
    <2>4. \A j \in 1 .. N + 1 : es[j] \in Bucket
      <3> TAKE j \in 1 .. N + 1
      <3>1. j > i + 1 => j - 1 \in 1 .. N
        BY <1>1
      <3>2. j < i => j \in 1 .. N
        BY <1>1
      <3> QED  BY <1>1, <1>2, <1>10, <2>3, <3>1, <3>2
    <2>5. es \in [1 .. N + 1 -> Bucket]
      BY <2>2, <2>4
    <2>6. N + 1 \in Nat
      BY <1>1
    <2>7. es \in Seq(Bucket) /\ Len(es) = N + 1
      BY <2>5, <2>6, FunctionIsSeq
    <2> QED  BY <1>1, <2>3, <2>5, <2>7
  <1> HIDE DEF es
  <1>12. /\ es[i] = EmptyBucket(lo, t) /\ i \in 1 .. N + 1
         /\ es[i + 1] = EmptyBucket(mid, t) /\ i + 1 \in 1 .. N + 1
         /\ es[i].first = lo /\ es[i + 1].first = mid
    <2>1. i \in 1 .. N + 1 /\ i + 1 \in 1 .. N + 1
      BY <1>1
    <2>2. es[i] = EmptyBucket(lo, t) /\ es[i + 1] = EmptyBucket(mid, t)
      BY <1>1, <1>11, <2>1
    <2>3. EmptyBucket(lo, t).first = lo /\ EmptyBucket(mid, t).first = mid
      BY DEF EmptyBucket
    <2> QED  BY <2>1, <2>2, <2>3
  <1>13. /\ \A j \in 1 .. N + 1 : j < i => j \in 1 .. N /\ es[j] = bs[j]
         /\ \A j \in 1 .. N + 1 : j > i + 1 => j - 1 \in 1 .. N /\ es[j] = bs[j - 1]
    BY <1>1, <1>11
  <1>14. /\ Upper(es, i) = mid
         /\ Upper(es, i + 1) = hi
         /\ \A j \in 1 .. N + 1 : j < i => Upper(es, j) = Upper(bs, j)
         /\ \A j \in 1 .. N + 1 : j > i + 1 => Upper(es, j) = Upper(bs, j - 1)
    <2>1. Upper(es, i) = mid
      BY <1>1, <1>11, <1>12 DEF Upper
    <2>2. Upper(es, i + 1) = hi
      <3>1. CASE i = N
        BY <1>1, <1>11, <3>1 DEF Upper, hi, N
      <3>2. CASE i # N
        <4>1. (i + 1) + 1 \in 1 .. N + 1 /\ (i + 1) + 1 > i + 1 /\ ((i + 1) + 1) - 1 = i + 1
          BY <1>1, <3>2
        <4>2. es[(i + 1) + 1] = bs[i + 1]
          BY <1>13, <4>1
        <4> QED  BY <1>1, <1>11, <3>2, <4>2 DEF Upper, hi, N
      <3> QED  BY <3>1, <3>2
    <2>3. ASSUME NEW j \in 1 .. N + 1, j < i PROVE Upper(es, j) = Upper(bs, j)
      <3>1. j # N + 1 /\ j # N /\ j + 1 \in 1 .. N + 1 /\ (j + 1 < i \/ j + 1 = i)
        BY <1>1, <2>3
      <3>2. es[j + 1].first = bs[j + 1].first
        BY <1>12, <1>13, <3>1 DEF lo
      <3> QED  BY <1>11, <3>1, <3>2 DEF Upper, N
    <2>4. ASSUME NEW j \in 1 .. N + 1, j > i + 1 PROVE Upper(es, j) = Upper(bs, j - 1)
      <3>1. CASE j = N + 1
        BY <1>1, <1>11, <3>1 DEF Upper, N
      <3>2. CASE j # N + 1
        <4>1. j + 1 \in 1 .. N + 1 /\ j + 1 > i + 1 /\ (j + 1) - 1 = (j - 1) + 1 /\ j - 1 # N
          BY <1>1, <2>4, <3>2
        <4>2. es[j + 1] = bs[(j - 1) + 1]
          BY <1>13, <4>1
        <4> QED  BY <1>11, <3>2, <4>1, <4>2 DEF Upper, N
      <3> QED  BY <3>1, <3>2
    <2> QED  BY <2>1, <2>2, <2>3, <2>4
  <1>15. /\ es[1].first = 0
         /\ \A j, k \in DOMAIN es : j < k => es[j].first < es[k].first
    <2>1. bs[1].first = 0 /\ \A j, k \in 1 .. N : j < k => bs[j].first < bs[k].first
      BY <1>1 DEF GoodList, Tiles
    <2>2. es[1].first = 0
      <3>1. CASE i = 1
        BY <1>12, <2>1, <3>1 DEF lo
      <3>2. CASE i # 1
        BY <1>1, <1>13, <2>1, <3>2
      <3> QED  BY <3>1, <3>2
    <2>3. \A j \in 1 .. N : j < i => bs[j].first < lo
      BY <1>1, <2>1 DEF lo
    <2>4. \A j \in 1 .. N : j > i => hi <= bs[j].first
      <3> TAKE j \in 1 .. N
      <3> HAVE j > i
      <3>1. i # N /\ i + 1 \in 1 .. N /\ hi = bs[i + 1].first
        BY <1>1 DEF hi, Upper, N
      <3>2. i + 1 = j \/ bs[i + 1].first < bs[j].first
        BY <1>1, <2>1, <3>1
      <3> QED  BY <1>2, <3>1, <3>2
    <2>5. ASSUME NEW j \in 1 .. N + 1, NEW k \in 1 .. N + 1, j < k
          PROVE  es[j].first < es[k].first
      <3>1. CASE k < i
        BY <1>1, <1>13, <2>1, <2>5, <3>1
      <3>2. CASE k = i
        BY <1>1, <1>12, <1>13, <2>3, <2>5, <3>2
      <3>3. CASE k = i + 1 /\ j = i
        BY <1>9, <1>12, <3>3
      <3>4. CASE k = i + 1 /\ j < i
        <4>1. es[j].first < lo /\ es[j].first \in Nat
          BY <1>1, <1>2, <1>13, <2>3, <3>4
        <4> QED  BY <1>3, <1>9, <1>12, <3>4, <4>1
      <3>5. CASE k > i + 1
        <4>1. k - 1 \in 1 .. N /\ es[k] = bs[k - 1] /\ k - 1 > i
          BY <1>1, <1>13, <3>5
        <4>2. hi <= es[k].first /\ es[k].first \in Nat
          BY <1>2, <2>4, <4>1
        <4>3. CASE j < i
          BY <1>1, <1>13, <2>1, <4>1, <4>3
        <4>4. CASE j = i
          BY <1>3, <1>9, <1>12, <4>2, <4>4
        <4>5. CASE j = i + 1
          BY <1>3, <1>9, <1>12, <4>2, <4>5
        <4>6. CASE j > i + 1
          <5>1. j - 1 \in 1 .. N /\ es[j] = bs[j - 1] /\ j - 1 < k - 1
            BY <1>1, <1>13, <2>5, <4>6
          <5> QED  BY <2>1, <4>1, <5>1
        <4> QED  BY <1>1, <4>3, <4>4, <4>5, <4>6
      <3> QED  BY <1>1, <2>5, <3>1, <3>2, <3>3, <3>4, <3>5
    <2> QED  BY <1>11, <2>2, <2>5
  <1>16. \A n \in nodes : /\ n.id \in Id /\ n.id \in Nat
                           /\ lo <= n.id /\ n.id < hi /\ n.id # MyId
                           /\ n.reply_time <= t
    <2>1. \A n \in nodes : n.id \in Id
      BY <1>3 DEF Node
    <2>2. \A n \in nodes : n.id \in Nat
      BY <2>1, EndOfIdsFacts
    <2> QED  BY <1>3, <2>1, <2>2 DEF GoodBucket, nodes, lo, t
  <1>17. \A n \in nodes : FindBucket(es, n.id) = IF n.id < mid THEN i ELSE i + 1
    <2> TAKE n \in nodes
    <2>1. CASE n.id < mid
      <3>1. InBucket(es, i, n.id)
        BY <1>12, <1>14, <1>16, <2>1 DEF InBucket
      <3> QED  BY <1>11, <1>12, <1>15, <1>16, <2>1, <3>1, FindBucketUnique
    <2>2. CASE ~ (n.id < mid)
      <3>1. InBucket(es, i + 1, n.id)
        BY <1>9, <1>12, <1>14, <1>16, <2>2 DEF InBucket
      <3> QED  BY <1>11, <1>12, <1>15, <1>16, <2>2, <3>1, FindBucketUnique
    <2> QED  BY <2>1, <2>2
  <1>18. /\ mine(i) = {n \in nodes : n.id < mid}
         /\ mine(i + 1) = {n \in nodes : ~ (n.id < mid)}
         /\ \A j \in 1 .. N + 1 : j # i /\ j # i + 1 => mine(j) = {}
    BY <1>1, <1>17
  <1>19. \A j \in 1 .. N + 1 : mine(j) \in SUBSET nodes /\ IsFiniteSet(mine(j))
                               /\ Cardinality(mine(j)) \in Nat /\ Cardinality(mine(j)) <= K
    <2>1. /\ IsFiniteSet(nodes) /\ Cardinality(nodes) = bs[i].count /\ bs[i].count <= K
          /\ bs[i].count \in Nat
      BY <1>1, <1>2, <1>3, BucketFields DEF GoodBucket, nodes
    <2> TAKE j \in 1 .. N + 1
    <2>2. mine(j) \in SUBSET nodes
      OBVIOUS
    <2> HIDE DEF mine
    <2>3. IsFiniteSet(mine(j)) /\ Cardinality(mine(j)) <= Cardinality(nodes)
      BY <2>1, <2>2, FS_Subset
    <2>4. Cardinality(mine(j)) \in Nat
      BY <2>3, FS_CardinalityType
    <2> QED  BY <2>1, <2>2, <2>3, <2>4, KAssumption
  <1>20. rs = [j \in 1 .. N + 1 |->
                [es[j] EXCEPT !.nodes = @ \cup mine(j), !.count = @ + Cardinality(mine(j))]]
    BY <1>11 DEF InsertNodes
  <1> HIDE DEF rs, mine
  <1>21. \A j \in 1 .. N + 1 :
            /\ rs[j] \in Bucket
            /\ rs[j].first = es[j].first /\ rs[j].time = es[j].time
            /\ rs[j].cached = es[j].cached
            /\ rs[j].nodes = es[j].nodes \cup mine(j)
            /\ rs[j].count = es[j].count + Cardinality(mine(j))
    <2> TAKE j \in 1 .. N + 1
    <2> DEFINE b == es[j]
               X == mine(j)
               c == Cardinality(mine(j))
               d == rs[j]
    <2>1. b \in Bucket /\ X \in SUBSET Node /\ c \in Nat
      BY <1>3, <1>11, <1>19
    <2>2. d = [b EXCEPT !.nodes = @ \cup X, !.count = @ + c]
      BY <1>20
    <2> HIDE DEF b, X, c, d
    <2>3. /\ d \in Bucket
          /\ d.first = b.first /\ d.time = b.time /\ d.cached = b.cached
          /\ d.nodes = b.nodes \cup X
          /\ d.count = b.count + c
      <3>1. b.nodes \cup X \in SUBSET Node /\ b.count + c \in Nat
        BY <2>1, BucketFields
      <3> QED  BY <2>1, <2>2, <3>1 DEF Bucket
    <2> QED  BY <2>3 DEF b, X, c, d
  <1>22. rs \in Seq(Bucket) /\ Len(rs) = N + 1 /\ DOMAIN rs = 1 .. N + 1 /\ rs # <<>>
    <2>1. rs \in [1 .. N + 1 -> Bucket]
      BY <1>20, <1>21
    <2>2. N + 1 \in Nat
      BY <1>1
    <2>3. rs \in Seq(Bucket) /\ Len(rs) = N + 1
      BY <2>1, <2>2, FunctionIsSeq
    <2> QED  BY <1>1, <2>1, <2>3
  <1>23. \A j \in 1 .. N + 1 : Upper(rs, j) = Upper(es, j)
    <2> TAKE j \in 1 .. N + 1
    <2>1. j # N + 1 => j + 1 \in 1 .. N + 1
      BY <1>1
    <2> QED  BY <1>11, <1>21, <1>22, <2>1 DEF Upper
  <1>24. \A j \in 1 .. N + 1 : GoodBucket(rs[j], Upper(rs, j), T)
    <2> TAKE j \in 1 .. N + 1
    <2>1. CASE j # i /\ j # i + 1
      <3>1. mine(j) = {} /\ Cardinality(mine(j)) = 0
        BY <1>18, <2>1, FS_EmptySet
      <3>2. es[j] \in Bucket /\ es[j].count \in Nat
        BY <1>11, BucketFields
      <3>3. GoodBucket(es[j], Upper(es, j), T)
        <4>1. CASE j < i
          BY <1>1, <1>13, <1>14, <4>1 DEF GoodList
        <4>2. CASE j > i + 1
          BY <1>1, <1>13, <1>14, <4>2 DEF GoodList
        <4> QED  BY <1>1, <2>1, <4>1, <4>2
      <3>4. rs[j].nodes = es[j].nodes
        <4>1. rs[j].nodes = es[j].nodes \cup mine(j)
          BY <1>21
        <4> QED  BY <3>1, <4>1
      <3>5. rs[j].count = es[j].count
        <4>1. rs[j].count = es[j].count + Cardinality(mine(j))
          BY <1>21
        <4> QED  BY <3>1, <3>2, <4>1
      <3> QED  BY <1>21, <1>23, <3>3, <3>4, <3>5 DEF GoodBucket
    <2>2. CASE j = i \/ j = i + 1
      <3>1. /\ es[j].nodes = {} /\ es[j].count = 0 /\ es[j].time = t /\ es[j].cached = NoAddr
        BY <1>12, <2>2 DEF EmptyBucket
      <3>2. /\ rs[j].nodes = mine(j) /\ rs[j].count = Cardinality(mine(j))
            /\ rs[j].time = t /\ rs[j].cached = NoAddr
        <4>1. rs[j].nodes = es[j].nodes \cup mine(j) /\ rs[j].time = t /\ rs[j].cached = NoAddr
          BY <1>21, <3>1
        <4>2. rs[j].nodes = mine(j)
          BY <3>1, <4>1
        <4>3. rs[j].count = 0 + Cardinality(mine(j)) /\ Cardinality(mine(j)) \in Nat
          BY <1>19, <1>21, <3>1
        <4> QED  BY <4>1, <4>2, <4>3
      <3>3. \A n \in mine(j) : rs[j].first <= n.id /\ n.id < Upper(rs, j)
        <4>1. CASE j = i
          BY <1>12, <1>14, <1>16, <1>18, <1>21, <1>23, <4>1
        <4>2. CASE j = i + 1
          BY <1>9, <1>12, <1>14, <1>16, <1>18, <1>21, <1>23, <4>2
        <4> QED  BY <2>2, <4>1, <4>2
      <3>4. \A n \in mine(j) : n \in nodes /\ n.id # MyId /\ n.reply_time <= t
        BY <1>16, <1>19
      <3>5. \A n, m \in mine(j) : n.id = m.id => n = m
        BY <1>3, <3>4 DEF GoodBucket, nodes
      <3>6. t <= T
        BY <1>3 DEF GoodBucket, t
      <3> QED  BY <1>19, <3>2, <3>3, <3>4, <3>5, <3>6 DEF GoodBucket
    <2> QED  BY <2>1, <2>2
  <1>25. /\ \A j \in 1 .. N + 1 : j < i => Size(rs, j) = Size(bs, j) /\ rs[j].first = bs[j].first
         /\ \A j \in 1 .. N + 1 :
              j > i + 1 => Size(rs, j) = Size(bs, j - 1) /\ rs[j].first = bs[j - 1].first
         /\ Size(rs, i) = Weight[p + 1] /\ rs[i].first = lo
         /\ Size(rs, i + 1) = Weight[p + 1] /\ rs[i + 1].first = mid
    <2>1. \A j \in 1 .. N + 1 : Size(rs, j) = Upper(es, j) - es[j].first /\ rs[j].first = es[j].first
      BY <1>21, <1>23 DEF Size
    <2>2. Size(rs, i) = Weight[p + 1] /\ Size(rs, i + 1) = Weight[p + 1]
      <3>1. Size(rs, i) = mid - lo /\ Size(rs, i + 1) = hi - mid
        BY <1>12, <1>14, <2>1
      <3> QED  BY <1>3, <1>7, <1>8, <1>9, <3>1
    <2> QED  BY <1>12, <1>13, <1>14, <2>1, <2>2 DEF Size
  <1>26. Tiles(rs)
    <2>1. rs[1].first = 0 /\ \A j, k \in DOMAIN rs : j < k => rs[j].first < rs[k].first
      <3>1. \A j \in 1 .. N + 1 : rs[j].first = es[j].first
        BY <1>21
      <3>2. 1 \in 1 .. N + 1
        BY <1>1
      <3> QED  BY <1>11, <1>15, <1>22, <3>1, <3>2
    <2>2. \A j \in 1 .. N : \E q \in 0 .. IdBits :
            Size(bs, j) = Weight[q] /\ Aligned(bs[j].first, q)
      BY <1>1 DEF GoodList, Tiles
    <2>3. ASSUME NEW j \in 1 .. N + 1
          PROVE  \E q \in 0 .. IdBits : Size(rs, j) = Weight[q] /\ Aligned(rs[j].first, q)
      <3>1. CASE j < i
        BY <1>13, <1>25, <2>2, <3>1
      <3>2. CASE j = i \/ j = i + 1
        BY <1>7, <1>8, <1>25, <3>2
      <3>3. CASE j > i + 1
        BY <1>13, <1>25, <2>2, <3>3
      <3> QED  BY <1>1, <3>1, <3>2, <3>3
    <2> QED  BY <1>22, <2>1, <2>3 DEF Tiles
  <1>27. \A j \in 1 .. N + 1 : SplitAroundMe(rs, j)
    <2> TAKE j \in 1 .. N + 1
    <2>1. CASE j < i
      BY <1>1, <1>13, <1>25, <2>1 DEF SplitAroundMe, GoodList
    <2>2. CASE j > i + 1
      BY <1>1, <1>13, <1>25, <2>2 DEF SplitAroundMe, GoodList
    <2>3. MyId \in Nat /\ lo <= MyId /\ MyId < hi
      BY IdsAssumption, EndOfIdsFacts DEF InBucket, lo, hi
    <2>4. PICK k \in Nat : lo = k * Weight[p]
      BY <1>3, <1>5, AlignedMultiple
    <2>5. CASE j = i
      <3>1. (k * Weight[p] + 0) % Weight[p] = 0
        BY <1>6, ModUnique
      <3>2. lo % (2 * Weight[p + 1]) = 0
        BY <1>6, <1>7, <2>4, <3>1
      <3> QED  BY <1>3, <1>6, <1>7, <1>25, <2>3, <2>5, <3>2 DEF SplitAroundMe
    <2>6. CASE j = i + 1
      <3>1. Weight[p + 1] \in 0 .. Weight[p] - 1
        BY <1>6, <1>7
      <3>2. (k * Weight[p] + Weight[p + 1]) % Weight[p] = Weight[p + 1]
        BY <1>6, <3>1, ModUnique
      <3>3. mid % (2 * Weight[p + 1]) = Weight[p + 1]
        BY <1>7, <1>8, <2>4, <3>2
      <3> QED  BY <1>3, <1>6, <1>7, <1>8, <1>25, <2>3, <2>6, <3>3 DEF SplitAroundMe
    <2> QED  BY <1>1, <2>1, <2>2, <2>5, <2>6
  <1>28. GoodList(rs, T)
    BY <1>22, <1>24, <1>26, <1>27 DEF GoodList
  <1>29. rs = SplitBucket(bs, i)
    BY DEF SplitBucket, rs, es, nodes, mid, lo, hi, t
  <1> QED  BY <1>28, <1>29

-----------------------------------------------------------------------------
(* The steps of new_node *)

(* The bucket of the id, with the time of the reply. *)
LEMMA TargetGood ==
    ASSUME IInv, NEW i \in DOMAIN buckets, NEW confirm \in 0 .. 2, NEW b,
           b = TargetBucket(i, confirm)
    PROVE  /\ buckets[i] \in Bucket /\ Upper(buckets, i) \in Nat
           /\ GoodBucket(buckets[i], Upper(buckets, i), now)
           /\ b \in Bucket /\ GoodBucket(b, Upper(buckets, i), now)
           /\ b.first = buckets[i].first /\ b.count = buckets[i].count
           /\ b.nodes = buckets[i].nodes /\ b.cached = buckets[i].cached
           /\ b.time \in Time /\ (confirm = 2 => b.time = now)
  <1>1. now \in Time /\ buckets \in Seq(Bucket)
    BY DEF IInv, GoodList
  <1>2. buckets[i] \in Bucket /\ Upper(buckets, i) \in Nat
    BY <1>1, ListFields
  <1>3. GoodBucket(buckets[i], Upper(buckets, i), now)
    BY DEF IInv, GoodList
  <1>4. CASE confirm = 2
    <2>1. buckets[i].time <= now /\ now <= now
      BY <1>1, <1>3 DEF GoodBucket, Time
    <2>2. b = [buckets[i] EXCEPT !.time = now]
      BY <1>4 DEF TargetBucket
    <2>3. b \in Bucket /\ GoodBucket(b, Upper(buckets, i), now)
      BY <1>1, <1>2, <1>3, <2>1, <2>2, RaiseTimeGood
    <2>4. /\ b.first = buckets[i].first /\ b.count = buckets[i].count
          /\ b.nodes = buckets[i].nodes /\ b.cached = buckets[i].cached
          /\ b.time = now
      BY <1>2, <2>2 DEF Bucket
    <2> QED  BY <1>1, <1>2, <1>3, <2>3, <2>4
  <1>5. CASE confirm # 2
    <2>1. b = buckets[i]
      BY <1>5 DEF TargetBucket
    <2> QED  BY <1>2, <1>3, <1>5, <2>1, BucketFields
  <1> QED  BY <1>4, <1>5

(* A node just learnt. *)
LEMMA FreshNodeType ==
    ASSUME now \in Time, NEW id \in Id, NEW addr \in Addr, NEW confirm \in 0 .. 2
    PROVE  /\ FreshNode(id, addr, confirm) \in Node
           /\ FreshNode(id, addr, confirm).id = id
           /\ FreshNode(id, addr, confirm).reply_time = IF confirm = 2 THEN now ELSE 0
  <1>1. 0 \in Time /\ 0 \in 0 .. MaxPinged
    BY TimesAssumption DEF Time, MaxPinged
  <1> QED  BY <1>1 DEF FreshNode, Node

(* A request sent to a node changes neither its id nor its last reply. *)
LEMMA PingType ==
    ASSUME now \in Time, NEW n \in Node
    PROVE  Ping(n) \in Node /\ Ping(n).id = n.id /\ Ping(n).reply_time = n.reply_time
  <1>1. n.pinged \in 0 .. MaxPinged
    BY DEF Node
  <1>2. (IF n.pinged < MaxPinged THEN n.pinged + 1 ELSE n.pinged) \in 0 .. MaxPinged
    BY <1>1 DEF MaxPinged
  <1> QED  BY <1>2 DEF Ping, Node

(* Known node. *)
LEMMA KnownNodeGood ==
    ASSUME IInv, NEW i \in DOMAIN buckets, NEW id \in Id, NEW addr \in Addr,
           NEW confirm \in 0 .. 2, KnownNode(id, addr, confirm, i)
    PROVE  GoodList(buckets', now)
  <1> DEFINE b == TargetBucket(i, confirm)
  <1>1. now \in Time /\ GoodList(buckets, now)
    BY DEF IInv
  <1>2. /\ Upper(buckets, i) \in Nat
        /\ b \in Bucket /\ GoodBucket(b, Upper(buckets, i), now)
        /\ b.first = buckets[i].first /\ b.time \in Time /\ (confirm = 2 => b.time = now)
    BY TargetGood
  <1>3. PICK n \in b.nodes :
            /\ n.id = id
            /\ buckets' = [buckets EXCEPT ![i] =
                             [b EXCEPT !.nodes = Swap(@, n, Update(n, addr, confirm))]]
    BY DEF KnownNode, PutBucket
  <1> HIDE DEF b
  <1> DEFINE m == Update(n, addr, confirm)
             d == [b EXCEPT !.nodes = Swap(@, n, m)]
  <1>4. n \in Node /\ n.reply_time <= b.time
    BY <1>2, <1>3, BucketFields DEF GoodBucket
  <1>5. m \in Node /\ m.id = n.id /\ m.reply_time <= b.time
    <2>1. CASE confirm = 2
      <3>1. m = FreshNode(n.id, addr, 2)
        BY <2>1 DEF Update
      <3>2. FreshNode(n.id, addr, 2) \in Node /\ FreshNode(n.id, addr, 2).id = n.id
            /\ FreshNode(n.id, addr, 2).reply_time = now
        BY <1>1, <1>3, FreshNodeType
      <3> QED  BY <1>1, <1>2, <2>1, <3>1, <3>2 DEF Time
    <2>2. CASE confirm = 1
      <3>1. m = [n EXCEPT !.addr = addr, !.time = now]
        BY <2>2 DEF Update
      <3> QED  BY <1>1, <1>4, <3>1 DEF Node
    <2>3. CASE confirm = 0 /\ n.time < now - ActiveAge
      <3>1. m = [n EXCEPT !.addr = addr]
        BY <2>3 DEF Update
      <3> QED  BY <1>4, <3>1 DEF Node
    <2>4. CASE confirm = 0 /\ ~ (n.time < now - ActiveAge)
      <3>1. m = n
        BY <2>4 DEF Update
      <3> QED  BY <1>4, <3>1
    <2> QED  BY <2>1, <2>2, <2>3, <2>4
  <1> HIDE DEF m
  <1>6. b.nodes \in SUBSET Node /\ IsFiniteSet(b.nodes)
        /\ \A x, y \in b.nodes : x.id = y.id => x = y
    BY <1>2, BucketFields DEF GoodBucket
  <1>7. Swap(b.nodes, n, m) \in SUBSET Node
    BY <1>3, <1>5, <1>6, SwapNodes
  <1>8. /\ d \in Bucket /\ d.first = b.first /\ d.count = b.count /\ d.time = b.time
        /\ d.nodes = Swap(b.nodes, n, m) /\ d.cached = b.cached
    BY <1>2, <1>7 DEF Bucket
  <1> HIDE DEF d
  <1>9. b.time <= b.time /\ b.time <= now /\ b.cached \in Addr \cup {NoAddr}
    BY <1>2, BucketFields DEF GoodBucket, Time
  <1>10. GoodBucket(d, Upper(buckets, i), now)
    BY <1>1, <1>2, <1>3, <1>5, <1>8, <1>9, SwapGood
  <1>11. GoodList([buckets EXCEPT ![i] = d], now)
    BY <1>1, <1>2, <1>8, <1>10, PutBucketGood
  <1> QED  BY <1>3, <1>11 DEF d, m

(* A known-bad node gives its place to the new one. *)
LEMMA ReplaceBadGood ==
    ASSUME IInv, NEW i \in DOMAIN buckets, NEW id \in Id, NEW addr \in Addr,
           NEW confirm \in 0 .. 2, InBucket(buckets, i, id), id # MyId, NewTo(i, id),
           ReplaceBad(id, addr, confirm, i)
    PROVE  GoodList(buckets', now)
  <1> DEFINE b == TargetBucket(i, confirm)
             m == FreshNode(id, addr, confirm)
  <1>1. now \in Time /\ GoodList(buckets, now)
    BY DEF IInv
  <1>2. /\ Upper(buckets, i) \in Nat
        /\ b \in Bucket /\ GoodBucket(b, Upper(buckets, i), now)
        /\ b.first = buckets[i].first /\ b.time \in Time /\ (confirm = 2 => b.time = now)
        /\ b.nodes = buckets[i].nodes
    BY TargetGood
  <1>3. PICK n \in b.nodes :
            buckets' = [buckets EXCEPT ![i] = [b EXCEPT !.nodes = Swap(@, n, m)]]
    BY DEF ReplaceBad, PutBucket
  <1>4. m \in Node /\ m.id = id /\ m.reply_time = IF confirm = 2 THEN now ELSE 0
    BY <1>1, FreshNodeType
  <1>5. m.reply_time <= b.time
    BY <1>1, <1>2, <1>4 DEF Time
  <1>6. \A x \in b.nodes : x.id # m.id
    BY <1>2, <1>4 DEF NewTo
  <1>7. b.first <= m.id /\ m.id < Upper(buckets, i) /\ m.id # MyId
    BY <1>2, <1>4 DEF InBucket
  <1> HIDE DEF b, m
  <1> DEFINE d == [b EXCEPT !.nodes = Swap(@, n, m)]
  <1>8. Swap(b.nodes, n, m) \in SUBSET Node
    <2>1. b.nodes \in SUBSET Node /\ IsFiniteSet(b.nodes)
          /\ \A x, y \in b.nodes : x.id = y.id => x = y
      BY <1>2, BucketFields DEF GoodBucket
    <2> QED  BY <1>3, <1>4, <1>6, <2>1, SwapNodes
  <1>9. /\ d \in Bucket /\ d.first = b.first /\ d.count = b.count /\ d.time = b.time
        /\ d.nodes = Swap(b.nodes, n, m) /\ d.cached = b.cached
    BY <1>2, <1>8 DEF Bucket
  <1> HIDE DEF d
  <1>10. b.time <= b.time /\ b.time <= now /\ b.cached \in Addr \cup {NoAddr}
    BY <1>2, BucketFields DEF GoodBucket, Time
  <1>11. GoodBucket(d, Upper(buckets, i), now)
    BY <1>1, <1>2, <1>3, <1>4, <1>5, <1>6, <1>7, <1>9, <1>10, SwapGood
  <1>12. GoodList([buckets EXCEPT ![i] = d], now)
    BY <1>1, <1>2, <1>9, <1>11, PutBucketGood
  <1> QED  BY <1>3, <1>12 DEF d

(* What pinging a dubious node makes of the nodes of a bucket. *)
LEMMA DubiousNodes ==
    ASSUME now \in Time, NEW b \in Bucket, NEW hi \in Nat, GoodBucket(b, hi, now),
           NEW nodes \in DubiousPinged(b.nodes)
    PROVE  /\ nodes \in SUBSET Node
           /\ nodes = b.nodes \/ \E n \in b.nodes : nodes = Swap(b.nodes, n, Ping(n))
  <1> DEFINE waiting == {n \in b.nodes : ~ NodeGood(n) /\ n.pinged_time < now - PingWait}
  <1>1. b.nodes \in SUBSET Node
    BY BucketFields
  <1>2. nodes = b.nodes \/ \E n \in b.nodes : nodes = Swap(b.nodes, n, Ping(n))
    <2>1. CASE waiting = {}
      BY <2>1 DEF DubiousPinged
    <2>2. CASE waiting # {}
      <3>1. nodes \in {Swap(b.nodes, n, Ping(n)) : n \in waiting}
        BY <2>2 DEF DubiousPinged
      <3> QED  BY <3>1
    <2> QED  BY <2>1, <2>2
  <1>3. \A n \in b.nodes : Ping(n) \in Node
    BY <1>1, PingType
  <1> QED  BY <1>1, <1>2, <1>3 DEF Swap

(* A full bucket, one of whose dubious nodes may have been pinged. *)
LEMMA DubiousGood ==
    ASSUME now \in Time, NEW b \in Bucket, NEW hi \in Nat, GoodBucket(b, hi, now),
           NEW d \in Bucket, d.first = b.first, d.count = b.count, d.time = b.time,
           d.nodes \in DubiousPinged(b.nodes),
           d.cached = b.cached \/ d.cached = NoAddr \/ b.count = K
    PROVE  GoodBucket(d, hi, now)
  <1>1. /\ b.nodes \in SUBSET Node /\ b.time \in Time
        /\ b.time <= d.time /\ d.time <= now
    BY BucketFields DEF GoodBucket, Time
  <1>2. CASE d.nodes = b.nodes
    BY <1>2 DEF GoodBucket
  <1>3. CASE \E n \in b.nodes : d.nodes = Swap(b.nodes, n, Ping(n))
    <2>1. PICK n \in b.nodes : d.nodes = Swap(b.nodes, n, Ping(n))
      BY <1>3
    <2>2. Ping(n) \in Node /\ Ping(n).id = n.id /\ Ping(n).reply_time <= d.time
      BY <1>1, PingType DEF GoodBucket
    <2> QED  BY <1>1, <2>1, <2>2, SwapGood
  <1> QED  BY <1>2, <1>3, DubiousNodes

(* No space for the node: it becomes the candidate of a full bucket. *)
LEMMA CacheAwayGood ==
    ASSUME IInv, NEW i \in DOMAIN buckets, NEW id \in Id, NEW addr \in Addr,
           NEW confirm \in 0 .. 2, buckets[i].count >= K, CacheAway(id, addr, confirm, i)
    PROVE  GoodList(buckets', now)
  <1> DEFINE b == TargetBucket(i, confirm)
             c == IF confirm > 0 \/ b.cached = NoAddr THEN addr ELSE b.cached
  <1>1. now \in Time /\ GoodList(buckets, now)
    BY DEF IInv
  <1>2. /\ Upper(buckets, i) \in Nat
        /\ b \in Bucket /\ GoodBucket(b, Upper(buckets, i), now)
        /\ b.first = buckets[i].first /\ b.nodes = buckets[i].nodes
        /\ b.count = buckets[i].count
    BY TargetGood
  <1>3. PICK nodes \in DubiousPinged(b.nodes) :
            buckets' = [buckets EXCEPT ![i] = [b EXCEPT !.nodes = nodes, !.cached = c]]
    BY <1>2 DEF CacheAway, PutBucket
  <1>4. b.count = K
    BY <1>2, BucketFields, KAssumption DEF GoodBucket
  <1>5. c \in Addr \cup {NoAddr}
    BY <1>2, BucketFields
  <1> HIDE DEF b, c
  <1> DEFINE d == [b EXCEPT !.nodes = nodes, !.cached = c]
  <1>6. /\ d \in Bucket /\ d.first = b.first /\ d.count = b.count /\ d.time = b.time
        /\ d.nodes = nodes /\ d.cached = c
    <2>1. nodes \in SUBSET Node
      BY <1>1, <1>2, DubiousNodes
    <2> QED  BY <1>2, <1>5, <2>1 DEF Bucket
  <1> HIDE DEF d
  <1>7. GoodBucket(d, Upper(buckets, i), now)
    BY <1>1, <1>2, <1>4, <1>6, DubiousGood
  <1>8. GoodList([buckets EXCEPT ![i] = d], now)
    BY <1>1, <1>2, <1>6, <1>7, PutBucketGood
  <1> QED  BY <1>3, <1>8 DEF d

(* Our own bucket is full: one of its nodes may have been pinged, and it is split *)
(* unless there is no memory.                                                     *)
LEMMA SplitAndRetryParts ==
    ASSUME IInv, NEW i \in DOMAIN buckets, NEW id \in Id, NEW addr \in Addr,
           NEW confirm \in 0 .. 2, SplitAndRetry(id, addr, confirm, i)
    PROVE  \E bs, d : \E nodes \in DubiousPinged(buckets[i].nodes) :
             /\ d.nodes = nodes /\ DOMAIN bs = DOMAIN buckets /\ bs[i] = d
             /\ \A j \in DOMAIN buckets : j # i => bs[j] = buckets[j]
             /\ GoodList(bs, now) /\ InBucket(bs, i, MyId)
             /\ \/ buckets' = bs
                \/ buckets' = SplitBucket(bs, i) /\ HasMiddle(bs[i].first, Upper(bs, i))
  <1> DEFINE b == TargetBucket(i, confirm)
  <1>1. now \in Time /\ GoodList(buckets, now)
    BY DEF IInv
  <1>2. /\ Upper(buckets, i) \in Nat
        /\ b \in Bucket /\ GoodBucket(b, Upper(buckets, i), now)
        /\ b.first = buckets[i].first /\ b.nodes = buckets[i].nodes
    BY TargetGood
  <1>3. PICK nodes \in DubiousPinged(b.nodes), ok \in AllocOutcomes :
            LET bs == [buckets EXCEPT ![i] = [b EXCEPT !.nodes = nodes]]
            IN  buckets' = IF ok /\ HasMiddle(bs[i].first, Upper(bs, i))
                               THEN SplitBucket(bs, i) ELSE bs
    BY <1>2 DEF SplitAndRetry
  <1> DEFINE d == [b EXCEPT !.nodes = nodes]
             bs == [buckets EXCEPT ![i] = d]
  <1> HIDE DEF b
  <1>4. d \in Bucket /\ GoodBucket(d, Upper(buckets, i), now) /\ d.first = b.first
        /\ d.nodes = nodes
    <2>1. nodes \in SUBSET Node
      BY <1>1, <1>2, DubiousNodes
    <2>2. /\ d \in Bucket /\ d.first = b.first /\ d.count = b.count /\ d.time = b.time
          /\ d.nodes = nodes /\ d.cached = b.cached
      BY <1>2, <2>1 DEF Bucket
    <2> HIDE DEF d
    <2> QED  BY <1>1, <1>2, <2>2, DubiousGood
  <1> HIDE DEF d
  <1>5. GoodList(bs, now)
    BY <1>1, <1>2, <1>4, PutBucketGood
  <1>6. /\ buckets \in Seq(Bucket) /\ Len(bs) = Len(buckets) /\ bs[i] = d
        /\ DOMAIN bs = DOMAIN buckets /\ DOMAIN buckets = 1 .. Len(buckets)
        /\ i \in 1 .. Len(buckets)
        /\ \A j \in 1 .. Len(buckets) : j # i => bs[j] = buckets[j]
    BY <1>1, <1>4 DEF GoodList
  <1> HIDE DEF bs
  <1>a. InBucket(bs, i, MyId)
    <2>1. Upper(bs, i) = Upper(buckets, i)
      <3>1. i # Len(buckets) => i + 1 \in 1 .. Len(buckets) /\ i + 1 # i
        BY <1>6
      <3> QED  BY <1>6, <3>1 DEF Upper
    <2>2. InBucket(buckets, i, MyId)
      BY DEF SplitAndRetry, WantSplit
    <2> QED  BY <1>2, <1>4, <1>6, <2>1, <2>2 DEF InBucket
  <1>7. buckets' = bs \/ (buckets' = SplitBucket(bs, i) /\ HasMiddle(bs[i].first, Upper(bs, i)))
    BY <1>3 DEF bs, d
  <1>8. nodes \in DubiousPinged(buckets[i].nodes)
    BY <1>2
  <1> QED  BY <1>4, <1>5, <1>6, <1>a, <1>7, <1>8

(* Our own bucket is full and is split. *)
LEMMA SplitAndRetryGood ==
    ASSUME IInv, NEW i \in DOMAIN buckets, NEW id \in Id, NEW addr \in Addr,
           NEW confirm \in 0 .. 2, SplitAndRetry(id, addr, confirm, i)
    PROVE  GoodList(buckets', now)
  <1>1. now \in Time
    BY DEF IInv
  <1>2. PICK bs :
            /\ i \in DOMAIN bs /\ GoodList(bs, now) /\ InBucket(bs, i, MyId)
            /\ \/ buckets' = bs
               \/ buckets' = SplitBucket(bs, i) /\ HasMiddle(bs[i].first, Upper(bs, i))
    BY SplitAndRetryParts
  <1>3. CASE buckets' = bs
    BY <1>2, <1>3
  <1>4. CASE buckets' = SplitBucket(bs, i) /\ HasMiddle(bs[i].first, Upper(bs, i))
    BY <1>1, <1>2, <1>4, SplitGood
  <1> QED  BY <1>2, <1>3, <1>4

(* A node is added to a bucket that has room. *)
LEMMA AddNodeGood ==
    ASSUME IInv, NEW i \in DOMAIN buckets, NEW id \in Id, NEW addr \in Addr,
           NEW confirm \in 0 .. 2, InBucket(buckets, i, id), id # MyId, NewTo(i, id),
           ~ (buckets[i].count >= K), AddNode(id, addr, confirm, i)
    PROVE  GoodList(buckets', now)
  <1> DEFINE b == TargetBucket(i, confirm)
             m == FreshNode(id, addr, confirm)
             d == [b EXCEPT !.nodes = @ \cup {m}, !.count = @ + 1]
  <1>1. now \in Time /\ GoodList(buckets, now)
    BY DEF IInv
  <1>2. /\ Upper(buckets, i) \in Nat
        /\ b \in Bucket /\ GoodBucket(b, Upper(buckets, i), now)
        /\ b.first = buckets[i].first /\ b.time \in Time /\ (confirm = 2 => b.time = now)
        /\ b.nodes = buckets[i].nodes /\ b.count = buckets[i].count
    BY TargetGood
  <1>3. m \in Node /\ m.id = id /\ m.reply_time = IF confirm = 2 THEN now ELSE 0
    BY <1>1, FreshNodeType
  <1>4. m.reply_time <= b.time
    BY <1>1, <1>2, <1>3 DEF Time
  <1>5. \A x \in b.nodes : x.id # m.id
    BY <1>2, <1>3 DEF NewTo
  <1>6. b.first <= m.id /\ m.id < Upper(buckets, i) /\ m.id # MyId
    BY <1>2, <1>3 DEF InBucket
  <1>7. b.count < K /\ b.count \in Nat
    BY <1>2, BucketFields, KAssumption
  <1>8. buckets' = [buckets EXCEPT ![i] = d] \/ buckets' = [buckets EXCEPT ![i] = b]
    BY DEF AddNode, PutBucket
  <1> HIDE DEF b, m
  <1>9. /\ d \in Bucket /\ d.first = b.first /\ d.count = b.count + 1 /\ d.time = b.time
        /\ d.nodes = b.nodes \cup {m} /\ d.cached = b.cached
    <2>1. b.nodes \cup {m} \in SUBSET Node /\ b.count + 1 \in Nat
      BY <1>2, <1>3, <1>7, BucketFields
    <2> QED  BY <1>2, <2>1 DEF Bucket
  <1> HIDE DEF d
  <1>10. b.time <= b.time /\ b.time <= now
    BY <1>2 DEF GoodBucket, Time
  <1>11. GoodBucket(d, Upper(buckets, i), now)
    BY <1>1, <1>2, <1>3, <1>4, <1>5, <1>6, <1>7, <1>9, <1>10, AddGood
  <1>12. GoodList([buckets EXCEPT ![i] = d], now)
    BY <1>1, <1>2, <1>9, <1>11, PutBucketGood
  <1>13. GoodList([buckets EXCEPT ![i] = b], now)
    BY <1>1, <1>2, PutBucketGood
  <1> QED  BY <1>8, <1>12, <1>13

(* One turn of new_node. *)
LEMMA NewNodeTurnGood ==
    ASSUME IInv, NEW id \in Id, NEW addr \in Addr, NEW confirm \in 0 .. 2,
           NewNodeTurn(id, addr, confirm)
    PROVE  IInv'
  <1> DEFINE i == FindBucket(buckets, id)
  <1>1. /\ now \in Time /\ grow_time \in Time /\ call \in Call \cup {NoCall}
        /\ GoodList(buckets, now) /\ buckets \in Seq(Bucket) /\ buckets # <<>>
        /\ buckets[1].first = 0
    BY DEF IInv, GoodList, Tiles
  <1>2. i \in DOMAIN buckets /\ InBucket(buckets, i, id)
    BY <1>1, FindBucketHolds
  <1>3. /\ \/ Refused(id, addr)
           \/ KnownNode(id, addr, confirm, i)
           \/ id # MyId /\ NewTo(i, id) /\ ReplaceBad(id, addr, confirm, i)
           \/ SplitAndRetry(id, addr, confirm, i)
           \/ buckets[i].count >= K /\ CacheAway(id, addr, confirm, i)
           \/ /\ id # MyId /\ NewTo(i, id) /\ ~ (buckets[i].count >= K)
              /\ AddNode(id, addr, confirm, i)
        /\ now' = now
    BY DEF NewNodeTurn
  <1> HIDE DEF i
  <1>4. GoodList(buckets', now)
    <2>1. CASE Refused(id, addr)
      BY <1>1, <2>1 DEF Refused
    <2>2. CASE KnownNode(id, addr, confirm, i)
      BY <1>2, <2>2, KnownNodeGood
    <2>3. CASE id # MyId /\ NewTo(i, id) /\ ReplaceBad(id, addr, confirm, i)
      BY <1>2, <2>3, ReplaceBadGood
    <2>4. CASE SplitAndRetry(id, addr, confirm, i)
      BY <1>2, <2>4, SplitAndRetryGood
    <2>5. CASE buckets[i].count >= K /\ CacheAway(id, addr, confirm, i)
      BY <1>2, <2>5, CacheAwayGood
    <2>6. CASE /\ id # MyId /\ NewTo(i, id) /\ ~ (buckets[i].count >= K)
               /\ AddNode(id, addr, confirm, i)
      BY <1>2, <2>6, AddNodeGood
    <2> QED  BY <1>3, <2>1, <2>2, <2>3, <2>4, <2>5, <2>6
  <1>5. grow_time' \in Time
    BY <1>1, <1>3 DEF Refused, KnownNode, ReplaceBad, SplitAndRetry, CacheAway, AddNode, Grow
  <1>6. call' \in Call \cup {NoCall}
    <2>1. call' = NoCall \/ call' = [id |-> id, addr |-> addr, confirm |-> confirm]
      BY <1>3, Zenon
      DEF Refused, KnownNode, ReplaceBad, SplitAndRetry, CacheAway, AddNode, Return
    <2> QED  BY <2>1 DEF Call
  <1> QED  BY <1>1, <1>3, <1>4, <1>5, <1>6 DEF IInv

-----------------------------------------------------------------------------
(* The other steps *)

(* A bucket one of whose nodes was sent a request. *)
LEMMA PingedBucketGood ==
    ASSUME now \in Time, NEW b \in Bucket, NEW hi \in Nat, GoodBucket(b, hi, now),
           NEW n \in b.nodes, NEW m \in Node, m.id = n.id, m.reply_time = n.reply_time,
           NEW d \in Bucket, d.first = b.first, d.count = b.count, d.time = b.time,
           d.nodes = Swap(b.nodes, n, m), d.cached = b.cached \/ d.cached = NoAddr
    PROVE  GoodBucket(d, hi, now)
  <1>1. b.time \in Time /\ n.reply_time <= b.time /\ b.time <= now
    BY BucketFields DEF GoodBucket
  <1>2. b.time <= d.time /\ d.time <= now /\ m.reply_time <= d.time
    BY <1>1 DEF Time
  <1> QED  BY <1>2, SwapGood

(* pinged, on a node of the table. *)
LEMMA PingedGood ==
    ASSUME IInv, NEW i \in DOMAIN buckets, NEW n \in buckets[i].nodes,
           buckets' = [buckets EXCEPT ![i] = PingedBucket(buckets[i], n)]
    PROVE  GoodList(buckets', now)
  <1> DEFINE b == buckets[i]
             m == Ping(n)
             d == PingedBucket(b, n)
  <1>1. now \in Time /\ GoodList(buckets, now) /\ buckets \in Seq(Bucket)
    BY DEF IInv, GoodList
  <1>2. b \in Bucket /\ Upper(buckets, i) \in Nat /\ GoodBucket(b, Upper(buckets, i), now)
    BY <1>1, ListFields DEF GoodList
  <1>3. b.nodes \in SUBSET Node /\ n \in Node /\ n \in b.nodes
    BY <1>2, BucketFields
  <1>4. m \in Node /\ m.id = n.id /\ m.reply_time = n.reply_time
    BY <1>1, <1>3, PingType
  <1>5. d = [b EXCEPT !.nodes = Swap(@, n, m),
                      !.cached = IF m.pinged >= 3 THEN NoAddr ELSE @]
    BY DEF PingedBucket
  <1> HIDE DEF b, m, d
  <1>6. Swap(b.nodes, n, m) \in SUBSET Node
    BY <1>3, <1>4 DEF Swap
  <1>7. /\ d \in Bucket /\ d.first = b.first /\ d.count = b.count /\ d.time = b.time
        /\ d.nodes = Swap(b.nodes, n, m) /\ (d.cached = b.cached \/ d.cached = NoAddr)
    BY <1>2, <1>5, <1>6 DEF Bucket
  <1>8. GoodBucket(d, Upper(buckets, i), now)
    BY <1>1, <1>2, <1>3, <1>4, <1>7, PingedBucketGood
  <1>9. GoodList([buckets EXCEPT ![i] = d], now)
    BY <1>1, <1>7, <1>8, PutBucketGood DEF b
  <1> QED  BY <1>9 DEF b, d

(* A query about a bucket goes to a bucket of the list. *)
LEMMA SourcesInList ==
    ASSUME buckets \in Seq(Bucket), NEW i \in DOMAIN buckets
    PROVE  Sources(i) \subseteq DOMAIN buckets
  <1>1. DOMAIN buckets = 1 .. Len(buckets) /\ Len(buckets) \in Nat
    OBVIOUS
  <1>2. i # Len(buckets) => i + 1 \in DOMAIN buckets
    BY <1>1
  <1>3. i > 1 => i - 1 \in DOMAIN buckets
    BY <1>1
  <1> QED  BY <1>2, <1>3 DEF Sources

(* A node found broken. *)
LEMMA BrokenNodeGood ==
    ASSUME IInv, BrokenNode
    PROVE  GoodList(buckets', now)
  <1>1. /\ now \in Time /\ GoodList(buckets, now)
        /\ buckets \in Seq(Bucket) /\ buckets # <<>> /\ buckets[1].first = 0
    BY DEF IInv, GoodList, Tiles
  <1>2. PICK id \in Peers :
            LET i == FindBucket(buckets, id)
            IN  \E n \in buckets[i].nodes :
                PutBucket(i, [buckets[i] EXCEPT
                    !.nodes = Swap(@, n, Ping([n EXCEPT !.pinged = 3])), !.cached = NoAddr])
    BY DEF BrokenNode
  <1> DEFINE i == FindBucket(buckets, id)
  <1>3. i \in DOMAIN buckets
    BY <1>1, <1>2, IdsAssumption, FindBucketHolds
  <1>4. PICK n \in buckets[i].nodes :
            buckets' = [buckets EXCEPT ![i] = [buckets[i] EXCEPT
                !.nodes = Swap(@, n, Ping([n EXCEPT !.pinged = 3])), !.cached = NoAddr]]
    BY <1>2 DEF PutBucket
  <1> HIDE DEF i
  <1> DEFINE b == buckets[i]
             m == Ping([n EXCEPT !.pinged = 3])
             d == [b EXCEPT !.nodes = Swap(@, n, m), !.cached = NoAddr]
  <1>5. b \in Bucket /\ Upper(buckets, i) \in Nat /\ GoodBucket(b, Upper(buckets, i), now)
    BY <1>1, <1>3, ListFields DEF GoodList
  <1>6. b.nodes \in SUBSET Node /\ n \in Node /\ n \in b.nodes
    BY <1>4, <1>5, BucketFields
  <1>7. m \in Node /\ m.id = n.id /\ m.reply_time = n.reply_time
    <2> DEFINE x == [n EXCEPT !.pinged = 3]
    <2>1. x \in Node /\ x.id = n.id /\ x.reply_time = n.reply_time
      BY <1>6 DEF Node, MaxPinged
    <2> HIDE DEF x
    <2>2. Ping(x) \in Node /\ Ping(x).id = x.id /\ Ping(x).reply_time = x.reply_time
      BY <1>1, <2>1, PingType
    <2> QED  BY <2>1, <2>2 DEF x
  <1> HIDE DEF b, m
  <1>8. Swap(b.nodes, n, m) \in SUBSET Node
    BY <1>6, <1>7 DEF Swap
  <1>9. /\ d \in Bucket /\ d.first = b.first /\ d.count = b.count /\ d.time = b.time
        /\ d.nodes = Swap(b.nodes, n, m) /\ d.cached = NoAddr
    BY <1>5, <1>8 DEF Bucket
  <1> HIDE DEF d
  <1>10. GoodBucket(d, Upper(buckets, i), now)
    BY <1>1, <1>5, <1>6, <1>7, <1>9, PingedBucketGood
  <1>11. GoodList([buckets EXCEPT ![i] = d], now)
    BY <1>1, <1>3, <1>9, <1>10, PutBucketGood DEF b
  <1> QED  BY <1>4, <1>11 DEF b, d, m

(* The purge of every bucket. *)
LEMMA ExpireGood ==
    ASSUME IInv, ExpireBuckets
    PROVE  GoodList(buckets', now)
  <1>1. /\ now \in Time /\ GoodList(buckets, now) /\ buckets \in Seq(Bucket)
        /\ DOMAIN buckets = 1 .. Len(buckets) /\ Len(buckets) \in Nat
    BY DEF IInv, GoodList
  <1>2. buckets' = [i \in DOMAIN buckets |-> Purged(buckets[i])]
    BY DEF ExpireBuckets
  <1>3. \A i \in DOMAIN buckets :
            /\ Purged(buckets[i]) \in Bucket
            /\ Purged(buckets[i]).first = buckets[i].first
            /\ GoodBucket(Purged(buckets[i]), Upper(buckets, i), now)
    <2> TAKE i \in DOMAIN buckets
    <2>1. buckets[i] \in Bucket /\ Upper(buckets, i) \in Nat
          /\ GoodBucket(buckets[i], Upper(buckets, i), now)
      BY <1>1, ListFields DEF GoodList
    <2> QED  BY <1>1, <2>1, PurgedGood
  <1>4. buckets' \in [1 .. Len(buckets) -> Bucket]
    BY <1>1, <1>2, <1>3
  <1>5. buckets' \in Seq(Bucket) /\ Len(buckets') = Len(buckets)
    BY <1>1, <1>4, FunctionIsSeq
  <1>6. \A j \in DOMAIN buckets : buckets'[j].first = buckets[j].first
                                 /\ GoodBucket(buckets'[j], Upper(buckets, j), now)
    BY <1>2, <1>3
  <1> QED  BY <1>1, <1>5, <1>6, SameRangesGood

-----------------------------------------------------------------------------
(* The invariant *)

(* dht_init establishes the inductive invariant: one empty bucket is a good list. *)
LEMMA InitIInv ==
    ASSUME Init
    PROVE  IInv
  <1>1. StartTime \in Time /\ 0 \in Time /\ 0 <= StartTime
    BY TimesAssumption DEF Time
  <1>2. 0 \in Id
    BY EndOfIdsFacts
  <1> DEFINE b == EmptyBucket(0, 0)
             bs == <<b>>
  <1>3. /\ b \in Bucket /\ b.first = 0 /\ b.count = 0 /\ b.nodes = {}
        /\ b.cached = NoAddr /\ b.time = 0
    <2>1. {} \in SUBSET Node
      OBVIOUS
    <2> QED  BY <1>1, <1>2, <2>1 DEF EmptyBucket, Bucket
  <1> HIDE DEF b
  <1>4. bs \in Seq(Bucket) /\ Len(bs) = 1 /\ bs[1] = b /\ DOMAIN bs = {1} /\ bs # <<>>
    BY <1>3
  <1> HIDE DEF bs
  <1>5. Upper(bs, 1) = EndOfIds /\ Size(bs, 1) = EndOfIds
    BY <1>3, <1>4, EndOfIdsFacts DEF Upper, Size
  <1>6. Tiles(bs)
    <2>1. 0 \in 0 .. IdBits /\ Weight[0] \in Nat \ {0}
      BY IdBitsAssumption, WeightFacts
    <2>2. Aligned(0, 0)
      BY <2>1 DEF Aligned
    <2> QED  BY <1>3, <1>4, <1>5, <2>1, <2>2 DEF Tiles, EndOfIds
  <1>7. GoodBucket(bs[1], Upper(bs, 1), StartTime)
    <2>1. IsFiniteSet({}) /\ Cardinality({}) = 0 /\ 0 <= K
      BY FS_EmptySet, KAssumption
    <2>2. GoodBucket(b, Upper(bs, 1), StartTime)
      BY <1>1, <1>3, <2>1 DEF GoodBucket
    <2> QED  BY <1>4, <2>2
  <1>8. SplitAroundMe(bs, 1)
    BY <1>5, EndOfIdsFacts DEF SplitAroundMe
  <1>9. GoodList(bs, StartTime)
    BY <1>4, <1>6, <1>7, <1>8 DEF GoodList
  <1> QED  BY <1>1, <1>9 DEF Init, IInv, bs, b

(* Every step of new_node, maintenance, broken_node, expire_buckets and the     *)
(* clock preserves the inductive invariant.                                     *)
LEMMA NextIInv ==
    ASSUME IInv, [Next]_vars
    PROVE  IInv'
  <1>1. /\ now \in Time /\ grow_time \in Time /\ call \in Call \cup {NoCall}
        /\ GoodList(buckets, now) /\ buckets \in Seq(Bucket) /\ buckets # <<>>
        /\ buckets[1].first = 0
    BY DEF IInv, GoodList, Tiles
  <1>2. CASE NewNode
    <2>1. PICK id \in Peers, addr \in Addr, confirm \in 0 .. 2 : NewNodeTurn(id, addr, confirm)
      BY <1>2 DEF NewNode
    <2>2. id \in Id
      BY IdsAssumption
    <2> QED  BY <2>1, <2>2, NewNodeTurnGood
  <1>3. CASE NewNodeAgain
    <2>1. call \in Call /\ NewNodeTurn(call.id, call.addr, call.confirm)
      BY <1>1, <1>3 DEF NewNodeAgain
    <2>2. call.id \in Id /\ call.addr \in Addr /\ call.confirm \in 0 .. 2
      BY <2>1 DEF Call
    <2> QED  BY <2>1, <2>2, NewNodeTurnGood
  <1>4. CASE BucketMaintenance
    <2>1. PICK i \in DOMAIN buckets : QueryFor(i)
      BY <1>4 DEF BucketMaintenance
    <2>2. PICK q \in Sources(i) : \E n \in buckets[q].nodes :
            buckets' = [buckets EXCEPT ![q] = PingedBucket(buckets[q], n)]
      BY <2>1 DEF QueryFor, PutBucket
    <2>3. q \in DOMAIN buckets
      BY <1>1, SourcesInList
    <2>4. GoodList(buckets', now)
      BY <2>2, <2>3, PingedGood
    <2> QED  BY <1>1, <1>4, <2>4 DEF BucketMaintenance, IInv
  <1>5. CASE NeighbourhoodMaintenance
    <2> DEFINE i == FindBucket(buckets, MyId)
    <2>1. i \in DOMAIN buckets
      BY <1>1, IdsAssumption, FindBucketHolds
    <2>2. PICK q \in Sources(i) : \E n \in buckets[q].nodes :
            buckets' = [buckets EXCEPT ![q] = PingedBucket(buckets[q], n)]
      BY <1>5 DEF NeighbourhoodMaintenance, QueryFor, PutBucket
    <2>3. q \in DOMAIN buckets
      BY <1>1, <2>1, SourcesInList
    <2>4. GoodList(buckets', now)
      BY <2>2, <2>3, PingedGood
    <2> QED  BY <1>1, <1>5, <2>4 DEF NeighbourhoodMaintenance, IInv
  <1>6. CASE SearchPinged
    <2>1. GoodList(buckets', now)
      BY <1>6, PingedGood DEF SearchPinged, PutBucket
    <2> QED  BY <1>1, <1>6, <2>1 DEF SearchPinged, IInv
  <1>7. CASE BrokenNode
    <2>1. GoodList(buckets', now)
      BY <1>7, BrokenNodeGood
    <2> QED  BY <1>1, <1>7, <2>1 DEF BrokenNode, IInv
  <1>8. CASE ExpireBuckets
    <2>1. GoodList(buckets', now)
      BY <1>8, ExpireGood
    <2> QED  BY <1>1, <1>8, <2>1 DEF ExpireBuckets, IInv
  <1>9. CASE Tick
    <2>1. now' \in Time /\ now' = now + 1
      BY <1>1, <1>9, TimesAssumption DEF Tick, Time
    <2>2. \A i \in DOMAIN buckets : GoodBucket(buckets[i], Upper(buckets, i), now')
      <3> TAKE i \in DOMAIN buckets
      <3>1. GoodBucket(buckets[i], Upper(buckets, i), now) /\ buckets[i].time \in Time
        BY <1>1, ListFields, BucketFields DEF GoodList
      <3>2. buckets[i].time <= now'
        BY <1>1, <2>1, <3>1 DEF GoodBucket, Time
      <3> QED  BY <3>1, <3>2 DEF GoodBucket
    <2>3. GoodList(buckets, now')
      BY <1>1, <2>2 DEF GoodList
    <2> QED  BY <1>1, <1>9, <2>1, <2>3 DEF Tick, IInv
  <1>10. CASE UNCHANGED vars
    BY <1>1, <1>10 DEF vars, IInv
  <1> QED
    BY <1>2, <1>3, <1>4, <1>5, <1>6, <1>7, <1>8, <1>9, <1>10 DEF Next

(* The inductive invariant holds in every reachable state of the table. *)
THEOREM Invariant == Spec => []IInv
  <1>1. Init => IInv
    BY InitIInv
  <1>2. IInv /\ [Next]_vars => IInv'
    BY NextIInv
  <1> QED  BY <1>1, <1>2, PTL DEF Spec

(* Every variable keeps its type; in particular find_bucket never runs off the list. *)
THEOREM TypeCorrect == Spec => []TypeOK
  <1>1. IInv => TypeOK
    BY DEF IInv, GoodList, TypeOK
  <1> QED  BY <1>1, Invariant, PTL

(* The buckets tile the ids, each a range with a common prefix, after any splits. *)
THEOREM BucketsAlwaysTile == Spec => []BucketsTile
  <1>1. IInv => BucketsTile
    BY DEF IInv, GoodList, BucketsTile
  <1> QED  BY <1>1, Invariant, PTL

(* Every node is where find_node looks for it, and none is ourselves. *)
THEOREM NodesStayWhereTheyBelong == Spec => []NodesWhereTheyBelong
  <1>1. IInv => NodesWhereTheyBelong
    BY DEF IInv, GoodList, GoodBucket, NodesWhereTheyBelong, InBucket
  <1> QED  BY <1>1, Invariant, PTL

(* No bucket ever holds an id twice. *)
THEOREM NoDuplicateIds == Spec => []OneNodePerId
  <1>1. IInv => OneNodePerId
    BY DEF IInv, GoodList, GoodBucket, OneNodePerId
  <1> QED  BY <1>1, Invariant, PTL

(* count is the length of the list and never exceeds K. *)
THEOREM CountsStayExact == Spec => []CountExact
  <1>1. IInv => CountExact
    BY DEF IInv, GoodList, GoodBucket, CountExact
  <1> QED  BY <1>1, Invariant, PTL

(* A candidate is remembered only by a full bucket. *)
THEOREM CandidatesOnlyWhenFull == Spec => []CandidateOnlyWhenFull
  <1>1. IInv => CandidateOnlyWhenFull
    BY DEF IInv, GoodList, GoodBucket, CandidateOnlyWhenFull
  <1> QED  BY <1>1, Invariant, PTL

(* Only the bucket of myid is ever split. *)
THEOREM TableFollowsMyId == Spec => []BucketsFollowMyId
  <1>1. IInv => BucketsFollowMyId
    BY DEF IInv, GoodList, BucketsFollowMyId
  <1> QED  BY <1>1, Invariant, PTL

(* The time of a bucket is no earlier than the replies of its nodes. *)
THEOREM BucketTimesCoverReplies == Spec => []BucketTimeCoversReplies
  <1>1. IInv => BucketTimeCoversReplies
    BY DEF IInv, GoodList, GoodBucket, BucketTimeCoversReplies
  <1> QED  BY <1>1, Invariant, PTL

(* The range of a bucket of the table: aligned, a power of two, within the ids. *)
LEMMA BucketRange ==
    ASSUME IInv, NEW i \in DOMAIN buckets
    PROVE  LET lo == buckets[i].first
               hi == Upper(buckets, i)
           IN  /\ lo \in Id /\ lo \in Nat /\ hi \in Nat
               /\ \E p \in 0 .. IdBits : /\ hi = lo + Weight[p] /\ Weight[p] \in Nat \ {0}
                                       /\ Aligned(lo, p) /\ hi <= EndOfIds
  <1> DEFINE lo == buckets[i].first
             hi == Upper(buckets, i)
  <1>1. /\ buckets \in Seq(Bucket) /\ buckets[i] \in Bucket /\ hi \in Nat
        /\ lo \in Id /\ lo \in Nat
        /\ i \in 1 .. Len(buckets)
    BY ListFields, BucketFields DEF IInv, GoodList
  <1>2. PICK p \in 0 .. IdBits : hi - lo = Weight[p] /\ Aligned(lo, p)
    BY DEF IInv, GoodList, Tiles, Size
  <1>3. hi = lo + Weight[p] /\ Weight[p] \in Nat \ {0}
    BY <1>1, <1>2, WeightFacts
  <1>4. hi <= EndOfIds
    <2>1. i # Len(buckets) => i + 1 \in 1 .. Len(buckets) /\ hi = buckets[i + 1].first
      BY <1>1 DEF Upper
    <2>2. i # Len(buckets) => hi \in Id
      BY <1>1, <2>1, ListFields, BucketFields
    <2>3. i = Len(buckets) => hi = EndOfIds
      BY DEF Upper
    <2> QED  BY <2>2, <2>3, EndOfIdsFacts
  <1> QED  BY <1>1, <1>2, <1>3, <1>4

(* A full bucket of ours has a middle: it is not a single id, which would be    *)
(* our own.  So the recursion of new_node never waits on an impossible split.   *)
THEOREM FullOwnBucketAlwaysSplits == Spec => []FullOwnBucketSplits
  <1>1. IInv => FullOwnBucketSplits
    <2> SUFFICES ASSUME IInv, NEW i \in DOMAIN buckets,
                        InBucket(buckets, i, MyId), buckets[i].count = K
                 PROVE  HasMiddle(buckets[i].first, Upper(buckets, i))
      BY DEF FullOwnBucketSplits
    <2> DEFINE lo == buckets[i].first
               hi == Upper(buckets, i)
    <2>1. /\ buckets \in Seq(Bucket) /\ buckets[i] \in Bucket /\ hi \in Nat
          /\ lo \in Id /\ lo \in Nat
          /\ GoodBucket(buckets[i], hi, now)
          /\ i \in 1 .. Len(buckets)
      BY ListFields, BucketFields DEF IInv, GoodList
    <2>2. PICK p \in 0 .. IdBits : /\ hi = lo + Weight[p] /\ Weight[p] \in Nat \ {0}
                                  /\ Aligned(lo, p) /\ hi <= EndOfIds
      BY BucketRange
    <2>3. hi = lo + Weight[p]
      BY <2>2
    <2>4. hi <= EndOfIds
      BY <2>2
    <2>5. ASSUME p = IdBits PROVE FALSE
      <3>1. hi = lo + 1
        BY <2>3, <2>5, WeightAssumption
      <3>2. MyId = lo
        <4>1. MyId \in Nat /\ lo <= MyId /\ MyId < hi
          BY IdsAssumption, EndOfIdsFacts DEF InBucket
        <4> QED  BY <2>1, <3>1, <4>1
      <3>3. \A n \in buckets[i].nodes : FALSE
        <4> TAKE n \in buckets[i].nodes
        <4>1. n.id \in Nat
          BY <2>1, BucketFields, EndOfIdsFacts DEF Node
        <4>2. lo <= n.id /\ n.id < hi /\ n.id # MyId
          BY <2>1 DEF GoodBucket
        <4> QED  BY <2>1, <3>1, <3>2, <4>1, <4>2
      <3>4. Cardinality(buckets[i].nodes) = 0
        BY <3>3, FS_EmptySet
      <3> QED  BY <2>1, <3>4, KAssumption DEF GoodBucket
    <2>6. p < IdBits
      BY <2>5, IdBitsAssumption
    <2>7. HasMiddle(lo, lo + Weight[p])
      BY <2>1, <2>2, <2>3, <2>4, <2>6, HalvesOfRange
    <2> QED  BY <2>3, <2>7
  <1> QED  BY <1>1, Invariant, PTL

(* bucket_random yields the ids of the bucket and no others: the leading bits   *)
(* it keeps are exactly those that all ids of the bucket share.                 *)
THEOREM RandomIdsAlwaysCoverBucket == Spec => []RandomIdsCoverBucket
  <1>1. IInv => RandomIdsCoverBucket
    <2> SUFFICES ASSUME IInv, NEW i \in DOMAIN buckets
                 PROVE  BucketRandom(buckets[i].first, Upper(buckets, i))
                            = {id \in Id : InBucket(buckets, i, id)}
      BY DEF RandomIdsCoverBucket
    <2> DEFINE lo == buckets[i].first
               hi == Upper(buckets, i)
    <2>1. lo \in Id /\ lo \in Nat /\ hi \in Nat
      BY BucketRange
    <2>2. PICK p \in 0 .. IdBits : /\ hi = lo + Weight[p] /\ Weight[p] \in Nat \ {0}
                                  /\ Aligned(lo, p) /\ hi <= EndOfIds
      BY BucketRange
    <2>3. RangeBit(lo, hi) = p
      BY <2>1, <2>2, RangeBitIs
    <2>4. BucketRandom(lo, hi) = lo .. hi - 1
      <3>1. CASE p < IdBits
        <4>1. BucketRandom(lo, hi) = lo .. lo + Weight[p] - 1
          BY <2>3, <3>1 DEF BucketRandom, HasMiddle
        <4> HIDE DEF lo, hi
        <4>2. lo + Weight[p] - 1 = hi - 1
          BY <2>1, <2>2
        <4> QED  BY <4>1, <4>2
      <3>2. CASE p = IdBits
        <4>1. BucketRandom(lo, hi) = {lo}
          BY <2>3, <3>2, IdBitsAssumption DEF BucketRandom, HasMiddle
        <4>2. hi = lo + 1
          BY <2>2, <3>2, WeightAssumption
        <4>3. lo .. hi - 1 = {lo}
          BY <2>1, <4>2
        <4> QED  BY <4>1, <4>3
      <3> QED  BY <3>1, <3>2, IdBitsAssumption
    <2>5. lo .. hi - 1 = {id \in Id : InBucket(buckets, i, id)}
      <3>1. \A id \in Id : InBucket(buckets, i, id) <=> lo <= id /\ id < hi
        BY DEF InBucket
      <3>2. Id = 0 .. EndOfIds - 1 /\ EndOfIds \in Nat
        BY EndOfIdsFacts
      <3> HIDE DEF lo, hi
      <3>3. \A id : id \in lo .. hi - 1 <=> id \in Id /\ lo <= id /\ id < hi
        BY <2>1, <2>2, <3>2
      <3> QED  BY <3>1, <3>3
    <2> QED  BY <2>4, <2>5
  <1> QED  BY <1>1, Invariant, PTL

-----------------------------------------------------------------------------
(* The contact book *)

(* A node is in one bucket only, and no two nodes of the table have the same id. *)
LEMMA ContactsApart ==
    ASSUME NEW T \in Time, NEW bs, GoodList(bs, T)
    PROVE  /\ \A i, j \in DOMAIN bs : \A n \in bs[i].nodes : \A m \in bs[j].nodes :
                n.id = m.id => i = j /\ n = m
           /\ Contacts(bs) \in SUBSET Node
           /\ \A n, m \in Contacts(bs) : n.id = m.id => n = m
           /\ \A n \in Contacts(bs) : n.id \in Id /\ n.id # MyId
  <1>1. /\ bs \in Seq(Bucket) /\ bs # <<>> /\ bs[1].first = 0
        /\ \A i, j \in DOMAIN bs : i < j => bs[i].first < bs[j].first
        /\ \A i \in DOMAIN bs : GoodBucket(bs[i], Upper(bs, i), T)
        /\ DOMAIN bs = 1 .. Len(bs)
    BY DEF GoodList, Tiles
  <1>2. ASSUME NEW i \in DOMAIN bs, NEW n \in bs[i].nodes
        PROVE  n \in Node /\ n.id \in Id /\ n.id # MyId /\ FindBucket(bs, n.id) = i
    <2>1. bs[i] \in Bucket
      BY <1>1, ListFields
    <2>2. n \in Node
      BY <2>1, BucketFields
    <2>3. n.id \in Id
      BY <2>2 DEF Node
    <2>4. InBucket(bs, i, n.id) /\ n.id # MyId
      BY <1>1 DEF GoodBucket, InBucket
    <2>5. FindBucket(bs, n.id) = i
      BY <1>1, <2>3, <2>4, FindBucketUnique
    <2> QED  BY <2>2, <2>3, <2>4, <2>5
  <1>3. ASSUME NEW i \in DOMAIN bs, NEW j \in DOMAIN bs, NEW n \in bs[i].nodes,
               NEW m \in bs[j].nodes, n.id = m.id
        PROVE  i = j /\ n = m
    <2>1. i = j
      BY <1>2, <1>3
    <2>2. \A x, y \in bs[i].nodes : x.id = y.id => x = y
      BY <1>1 DEF GoodBucket
    <2> QED  BY <1>3, <2>1, <2>2
  <1>4. \A n \in Contacts(bs) : \E i \in DOMAIN bs : n \in bs[i].nodes
    BY DEF Contacts
  <1>5. \A n, m \in Contacts(bs) : n.id = m.id => n = m
    BY <1>3, <1>4
  <1>6. \A n \in Contacts(bs) : n \in Node /\ n.id \in Id /\ n.id # MyId
    BY <1>2, <1>4
  <1> QED  BY <1>3, <1>5, <1>6

(* One bucket gets other nodes. *)
LEMMA ContactsPut ==
    ASSUME NEW T \in Time, NEW bs, GoodList(bs, T), NEW i \in DOMAIN bs, NEW cs, NEW d,
           DOMAIN cs = DOMAIN bs, cs[i] = d, \A j \in DOMAIN bs : j # i => cs[j] = bs[j]
    PROVE  Contacts(cs) = (Contacts(bs) \ bs[i].nodes) \cup d.nodes
  <1>3. \A j \in DOMAIN bs : j # i => \A n \in bs[j].nodes : n \notin bs[i].nodes
    BY ContactsApart
  <1>4. ASSUME NEW n \in Contacts(cs) PROVE n \in (Contacts(bs) \ bs[i].nodes) \cup d.nodes
    <2>1. PICK j \in DOMAIN bs : n \in cs[j].nodes
      BY DEF Contacts
    <2> QED  BY <1>3, <2>1 DEF Contacts
  <1>5. ASSUME NEW n \in (Contacts(bs) \ bs[i].nodes) \cup d.nodes PROVE n \in Contacts(cs)
    <2>1. CASE n \in d.nodes
      BY <2>1 DEF Contacts
    <2>2. CASE n \in Contacts(bs) /\ n \notin bs[i].nodes
      <3>1. PICK j \in DOMAIN bs : n \in bs[j].nodes
        BY <2>2 DEF Contacts
      <3> QED  BY <2>2, <3>1 DEF Contacts
    <2> QED  BY <2>1, <2>2
  <1> QED  BY <1>4, <1>5

(* The table gets another bucket in the place of its i-th. *)
LEMMA ContactsAfterPut ==
    ASSUME IInv, NEW i \in DOMAIN buckets, NEW d, buckets' = [buckets EXCEPT ![i] = d]
    PROVE  /\ Contacts(buckets') = (Contacts(buckets) \ buckets[i].nodes) \cup d.nodes
           /\ buckets[i].nodes \subseteq Contacts(buckets)
  <1>1. now \in Time /\ GoodList(buckets, now)
    BY DEF IInv
  <1>2. /\ DOMAIN buckets' = DOMAIN buckets /\ buckets'[i] = d
        /\ \A j \in DOMAIN buckets : j # i => buckets'[j] = buckets[j]
    BY <1>1 DEF GoodList
  <1> DEFINE cs == buckets'
  <1>4. DOMAIN cs = DOMAIN buckets /\ cs[i] = d /\ \A j \in DOMAIN buckets : j # i => cs[j] = buckets[j]
    BY <1>2
  <1> HIDE DEF cs
  <1>5. Contacts(cs) = (Contacts(buckets) \ buckets[i].nodes) \cup d.nodes
    BY <1>1, <1>4, ContactsPut
  <1>3. buckets[i].nodes \subseteq Contacts(buckets)
    BY DEF Contacts
  <1> QED  BY <1>3, <1>5 DEF cs

(* The table as it was: a stuttering step of the book. *)
LEMMA BookStutters ==
    ASSUME Contacts(buckets') = Contacts(buckets)
    PROVE  [Book!BookNext]_(Book!book)
  BY DEF Known, Suspect, Book!book

(* One node is exchanged for another with the same id. *)
LEMMA BookJudges ==
    ASSUME IInv, NEW n \in Contacts(buckets), NEW m, m.id = n.id,
           Contacts(buckets') = Swap(Contacts(buckets), n, m)
    PROVE  [Book!BookNext]_(Book!book)
  <1> DEFINE C == Contacts(buckets)
  <1>1. now \in Time /\ \A x, y \in C : x.id = y.id => x = y
    BY ContactsApart DEF IInv
  <1>2. Known = {x.id : x \in C} /\ Suspect = {x.id : x \in {y \in C : y.pinged >= 3}}
    BY DEF Known, Suspect
  <1>3. /\ Known' = {x.id : x \in Swap(C, n, m)}
        /\ Suspect' = {x.id : x \in {y \in Swap(C, n, m) : y.pinged >= 3}}
    BY DEF Known, Suspect
  <1> HIDE DEF C
  <1>a. n \in C
    BY DEF C
  <1>4. n.id \in Known /\ Known' = Known
    BY <1>2, <1>3, <1>a DEF Swap
  <1>5. m.pinged >= 3 => Suspect' = Suspect \cup {n.id}
    BY <1>1, <1>2, <1>3, <1>a DEF Swap
  <1>6. ~ (m.pinged >= 3) => Suspect' = Suspect \ {n.id}
    BY <1>1, <1>2, <1>3, <1>a DEF Swap
  <1>7. Book!Judge
    BY <1>4, <1>5, <1>6 DEF Book!Judge
  <1> QED  BY <1>7 DEF Book!BookNext

(* A node of one bucket is exchanged for another with the same id. *)
LEMMA BookJudgesIn ==
    ASSUME IInv, NEW i \in DOMAIN buckets, NEW n \in buckets[i].nodes, NEW m, m.id = n.id,
           NEW d, d.nodes = Swap(buckets[i].nodes, n, m), buckets' = [buckets EXCEPT ![i] = d]
    PROVE  [Book!BookNext]_(Book!book)
  <1>1. /\ Contacts(buckets') = (Contacts(buckets) \ buckets[i].nodes) \cup d.nodes
        /\ buckets[i].nodes \subseteq Contacts(buckets)
    BY ContactsAfterPut
  <1>2. Contacts(buckets') = Swap(Contacts(buckets), n, m) /\ n \in Contacts(buckets)
    BY <1>1 DEF Swap
  <1> QED  BY <1>2, BookJudges

(* A node with a new id comes, in the place of at most one suspect. *)
LEMMA BookLearns ==
    ASSUME IInv, NEW gone, gone \subseteq Contacts(buckets), \A x, y \in gone : x = y,
           \A x \in gone : x.pinged >= 3,
           NEW m, m.id \in Id, m.id # MyId, \A x \in Contacts(buckets) : x.id # m.id,
           ~ (m.pinged >= 3),
           Contacts(buckets') = (Contacts(buckets) \ gone) \cup {m}
    PROVE  [Book!BookNext]_(Book!book)
  <1> DEFINE C == Contacts(buckets)
             old == {x.id : x \in gone}
  <1>1. now \in Time /\ \A x, y \in C : x.id = y.id => x = y
    BY ContactsApart DEF IInv
  <1>2. Known = {x.id : x \in C} /\ Suspect = {x.id : x \in {y \in C : y.pinged >= 3}}
    BY DEF Known, Suspect
  <1>3. /\ Known' = {x.id : x \in (C \ gone) \cup {m}}
        /\ Suspect' = {x.id : x \in {y \in (C \ gone) \cup {m} : y.pinged >= 3}}
    BY DEF Known, Suspect
  <1>4. gone \subseteq C /\ \A x \in C : x.id # m.id
    OBVIOUS
  <1> HIDE DEF C
  <1>5. old \subseteq Suspect /\ \A x, y \in old : x = y
    BY <1>2, <1>4
  <1>6. m.id \in Id \ (Known \cup {MyId})
    BY <1>2, <1>4
  <1>7. Known' = (Known \ old) \cup {m.id}
    BY <1>1, <1>2, <1>3, <1>4
  <1>8. Suspect' \subseteq Suspect \ old
    BY <1>1, <1>2, <1>3, <1>4
  <1> HIDE DEF old
  <1>9. Book!Learn
    BY <1>5, <1>6, <1>7, <1>8 DEF Book!Learn
  <1> QED  BY <1>9 DEF Book!BookNext

(* Nodes that are suspect go. *)
LEMMA BookForgets ==
    ASSUME IInv, NEW gone, gone \subseteq Contacts(buckets), \A x \in gone : x.pinged >= 3,
           Contacts(buckets') = Contacts(buckets) \ gone
    PROVE  [Book!BookNext]_(Book!book)
  <1> DEFINE C == Contacts(buckets)
             old == {x.id : x \in gone}
  <1>1. now \in Time /\ \A x, y \in C : x.id = y.id => x = y
    BY ContactsApart DEF IInv
  <1>2. Known = {x.id : x \in C} /\ Suspect = {x.id : x \in {y \in C : y.pinged >= 3}}
    BY DEF Known, Suspect
  <1>3. /\ Known' = {x.id : x \in C \ gone}
        /\ Suspect' = {x.id : x \in {y \in C \ gone : y.pinged >= 3}}
    BY DEF Known, Suspect
  <1>4. gone \subseteq C
    OBVIOUS
  <1> HIDE DEF C
  <1>5. old \subseteq Suspect
    BY <1>2, <1>4
  <1>6. Known' = Known \ old
    BY <1>1, <1>2, <1>3, <1>4
  <1>7. Suspect' = Suspect \ old
    BY <1>1, <1>2, <1>3, <1>4
  <1> HIDE DEF old
  <1>8. Book!Forget
    BY <1>5, <1>6, <1>7 DEF Book!Forget
  <1> QED  BY <1>8 DEF Book!BookNext

(* The middle of a bucket that has one is an id. *)
LEMMA MiddleOfBucket ==
    ASSUME NEW T \in Time, NEW bs, GoodList(bs, T), NEW i \in DOMAIN bs,
           HasMiddle(bs[i].first, Upper(bs, i))
    PROVE  BucketMiddle(bs[i].first, Upper(bs, i)) \in Id
  <1> DEFINE N == Len(bs)
             lo == bs[i].first
             hi == Upper(bs, i)
  <1>1. bs \in Seq(Bucket) /\ N \in Nat /\ DOMAIN bs = 1 .. N /\ i \in 1 .. N
    BY DEF GoodList
  <1>2. \A j \in 1 .. N : bs[j] \in Bucket /\ bs[j].first \in Nat /\ Upper(bs, j) \in Nat
    BY <1>1, ListFields
  <1>3. lo \in Id /\ lo \in Nat /\ hi \in Nat
    BY <1>1, <1>2, BucketFields
  <1>4. hi <= EndOfIds
    <2>1. CASE i = N
      BY <2>1, EndOfIdsFacts DEF Upper
    <2>2. CASE i # N
      <3>1. i + 1 \in 1 .. N /\ hi = bs[i + 1].first
        BY <1>1, <2>2 DEF Upper
      <3>2. bs[i + 1].first \in Id
        BY <1>2, <3>1, BucketFields
      <3> QED  BY <3>1, <3>2, EndOfIdsFacts
    <2> QED  BY <2>1, <2>2
  <1>5. PICK p \in 0 .. IdBits : hi - lo = Weight[p] /\ Aligned(lo, p)
    BY <1>1 DEF GoodList, Tiles, Size
  <1>6. hi = lo + Weight[p] /\ Weight[p] \in Nat \ {0}
    BY <1>3, <1>5, WeightFacts
  <1> QED  BY <1>3, <1>4, <1>5, <1>6, HalvesOfRange, WeightFacts

(* split_bucket moves nodes and loses none. *)
LEMMA ContactsSplit ==
    ASSUME NEW T \in Time, NEW bs, GoodList(bs, T), NEW i \in DOMAIN bs, InBucket(bs, i, MyId),
           HasMiddle(bs[i].first, Upper(bs, i))
    PROVE  Contacts(SplitBucket(bs, i)) = Contacts(bs)
  <1> DEFINE b == bs[i]
             N == Len(bs)
             mid == BucketMiddle(b.first, Upper(bs, i))
             ds == [bs EXCEPT ![i] = EmptyBucket(b.first, b.time)]
             es == WithBucketAfter(ds, i, EmptyBucket(mid, b.time))
             mine(j) == {n \in b.nodes : FindBucket(es, n.id) = j}
             rs == SplitBucket(bs, i)
  <1>1. bs \in Seq(Bucket) /\ N \in Nat /\ DOMAIN bs = 1 .. N /\ i \in 1 .. N
    BY DEF GoodList
  <1>2. rs = [j \in DOMAIN es |-> [es[j] EXCEPT !.nodes = es[j].nodes \cup mine(j),
                                                !.count = es[j].count + Cardinality(mine(j))]]
    BY DEF SplitBucket, InsertNodes
  <1>3. Len(ds) = N /\ \A j \in 1 .. N : ds[j] = IF j = i THEN EmptyBucket(b.first, b.time) ELSE bs[j]
    BY <1>1
  <1> HIDE DEF ds, mid
  <1>4. es = [j \in 1 .. N + 1 |->
                  IF j <= i THEN ds[j] ELSE IF j = i + 1 THEN EmptyBucket(mid, b.time) ELSE ds[j - 1]]
    BY <1>3 DEF WithBucketAfter
  <1>5. DOMAIN es = 1 .. N + 1 /\ DOMAIN rs = 1 .. N + 1
    BY <1>2, <1>4
  <1>6. EmptyBucket(mid, b.time).nodes = {} /\ EmptyBucket(b.first, b.time).nodes = {}
    BY DEF EmptyBucket
  <1> HIDE DEF es, rs, b, N
  <1>7. ASSUME NEW j \in 1 .. N + 1
        PROVE  /\ es[j].nodes \subseteq Contacts(bs)
               /\ rs[j].nodes = es[j].nodes \cup mine(j)
    <2>1. es[j].nodes \subseteq Contacts(bs)
      <3>1. CASE j <= i
        <4>1. j \in 1 .. N /\ es[j] = ds[j]
          BY <1>1, <1>4, <3>1
        <4> QED  BY <1>1, <1>3, <1>6, <4>1 DEF Contacts
      <3>2. CASE j = i + 1
        BY <1>1, <1>4, <1>6, <3>2
      <3>3. CASE j > i + 1
        <4>1. j - 1 \in 1 .. N /\ j - 1 # i /\ es[j] = ds[j - 1]
          BY <1>1, <1>4, <3>3
        <4> QED  BY <1>1, <1>3, <4>1 DEF Contacts
      <3> QED  BY <1>1, <3>1, <3>2, <3>3
    <2>2. rs[j] = [es[j] EXCEPT !.nodes = es[j].nodes \cup mine(j),
                                !.count = es[j].count + Cardinality(mine(j))]
      BY <1>2, <1>5
    <2>3. es[j] \in Bucket \/ "nodes" \in DOMAIN es[j]
      <3>1. \A x, y : "nodes" \in DOMAIN EmptyBucket(x, y)
        BY DEF EmptyBucket
      <3>2. \A k \in 1 .. N : bs[k] \in Bucket
        BY <1>1 DEF N
      <3>3. \A k \in 1 .. N : "nodes" \in DOMAIN ds[k]
        BY <1>3, <3>1, <3>2 DEF Bucket
      <3>4. es[j] = EmptyBucket(mid, b.time) \/ \E k \in 1 .. N : es[j] = ds[k]
        <4>1. CASE j <= i
          BY <1>1, <1>4, <4>1
        <4>2. CASE j = i + 1
          BY <1>1, <1>4, <4>2
        <4>3. CASE j > i + 1
          <5>1. j - 1 \in 1 .. N /\ es[j] = ds[j - 1]
            BY <1>1, <1>4, <4>3
          <5> QED  BY <5>1
        <4> QED  BY <1>1, <4>1, <4>2, <4>3
      <3> QED  BY <3>1, <3>3, <3>4
    <2>4. "nodes" \in DOMAIN es[j]
      BY <2>3 DEF Bucket
    <2> QED  BY <2>1, <2>2, <2>4
  <1>10. es \in Seq(Bucket) /\ es # <<>> /\ Len(es) = N + 1
    <2>1. /\ b \in Bucket /\ b.first \in Id /\ b.time \in Time
      BY <1>1, ListFields, BucketFields DEF b, N
    <2>2. mid \in Id
      BY <1>1, MiddleOfBucket DEF mid, b
    <2>3. EmptyBucket(mid, b.time) \in Bucket /\ EmptyBucket(b.first, b.time) \in Bucket
      <3>1. {} \in SUBSET Node /\ 0 \in Nat
        OBVIOUS
      <3> QED  BY <2>1, <2>2, <3>1 DEF EmptyBucket, Bucket
    <2>4. \A k \in 1 .. N : ds[k] \in Bucket
      <3>1. \A k \in 1 .. N : bs[k] \in Bucket
        BY <1>1 DEF N
      <3> QED  BY <1>3, <2>3, <3>1
    <2>5. \A j \in 1 .. N + 1 : es[j] \in Bucket
      <3> TAKE j \in 1 .. N + 1
      <3>1. CASE j <= i
        BY <1>1, <1>4, <2>4, <3>1
      <3>2. CASE j = i + 1
        BY <1>1, <1>4, <2>3, <3>2
      <3>3. CASE j > i + 1
        <4>1. j - 1 \in 1 .. N /\ es[j] = ds[j - 1]
          BY <1>1, <1>4, <3>3
        <4> QED  BY <2>4, <4>1
      <3> QED  BY <1>1, <3>1, <3>2, <3>3
    <2>6. es \in [1 .. N + 1 -> Bucket] /\ N + 1 \in Nat /\ N + 1 # 0
      BY <1>1, <1>4, <1>5, <2>5
    <2>7. es \in Seq(Bucket) /\ Len(es) = N + 1
      BY <2>6, FunctionIsSeq
    <2> QED  BY <2>6, <2>7
  <1>a. \A n \in bs[i].nodes : n.id \in Id
    BY ContactsApart DEF Contacts
  <1>8. ASSUME NEW n \in Contacts(rs) PROVE n \in Contacts(bs)
    <2>1. PICK j \in 1 .. N + 1 : n \in rs[j].nodes
      BY <1>5 DEF Contacts
    <2>2. n \in Contacts(bs) \/ n \in b.nodes
      BY <1>7, <2>1
    <2> QED  BY <2>2 DEF Contacts, b
  <1>9. ASSUME NEW n \in Contacts(bs) PROVE n \in Contacts(rs)
    <2>1. PICK k \in 1 .. N : n \in bs[k].nodes
      BY <1>1 DEF Contacts
    <2>2. CASE k = i
      <3> DEFINE j == FindBucket(es, n.id)
      <3>1. j \in 1 .. N + 1
        BY <1>10, <1>a, <2>1, <2>2, FindBucketStops DEF b
      <3>2. n \in mine(j)
        BY <2>1, <2>2 DEF b
      <3> HIDE DEF j
      <3> QED  BY <1>5, <1>7, <3>1, <3>2 DEF Contacts
    <2>3. CASE k < i
      <3>1. k \in 1 .. N + 1 /\ es[k] = bs[k]
        BY <1>1, <1>3, <1>4, <2>3
      <3> QED  BY <1>5, <1>7, <2>1, <3>1 DEF Contacts
    <2>4. CASE k > i
      <3>1. k + 1 \in 1 .. N + 1 /\ es[k + 1] = bs[k]
        <4>1. k + 1 \in 1 .. N + 1 /\ ~ (k + 1 <= i) /\ k + 1 # i + 1 /\ (k + 1) - 1 = k
          BY <1>1, <2>4
        <4> QED  BY <1>3, <1>4, <2>4, <4>1
      <3> QED  BY <1>5, <1>7, <2>1, <3>1 DEF Contacts
    <2> QED  BY <1>1, <2>2, <2>3, <2>4
  <1> QED  BY <1>8, <1>9 DEF rs

-----------------------------------------------------------------------------
(* The steps of the table, as steps of the book *)

LEMMA KnownNodeBook ==
    ASSUME IInv, NEW i \in DOMAIN buckets, NEW id \in Id, NEW addr \in Addr,
           NEW confirm \in 0 .. 2, KnownNode(id, addr, confirm, i)
    PROVE  [Book!BookNext]_(Book!book)
  <1> DEFINE b == TargetBucket(i, confirm)
  <1>1. b \in Bucket /\ b.nodes = buckets[i].nodes
    BY TargetGood
  <1>2. PICK n \in b.nodes :
            buckets' = [buckets EXCEPT ![i] =
                             [b EXCEPT !.nodes = Swap(@, n, Update(n, addr, confirm))]]
    BY DEF KnownNode, PutBucket
  <1> HIDE DEF b
  <1> DEFINE m == Update(n, addr, confirm)
             d == [b EXCEPT !.nodes = Swap(@, n, m)]
  <1>3. n \in Node
    BY <1>1, BucketFields
  <1>4. m.id = n.id
    <2>1. CASE confirm = 2
      BY <2>1 DEF Update, FreshNode
    <2>2. CASE confirm = 1
      <3>1. m = [n EXCEPT !.addr = addr, !.time = now]
        BY <2>2 DEF Update
      <3> QED  BY <1>3, <3>1 DEF Node
    <2>3. CASE confirm = 0 /\ n.time < now - ActiveAge
      <3>1. m = [n EXCEPT !.addr = addr]
        BY <2>3 DEF Update
      <3> QED  BY <1>3, <3>1 DEF Node
    <2>4. CASE confirm = 0 /\ ~ (n.time < now - ActiveAge)
      BY <2>4 DEF Update
    <2> QED  BY <2>1, <2>2, <2>3, <2>4
  <1> HIDE DEF m
  <1>5. d.nodes = Swap(buckets[i].nodes, n, m) /\ n \in buckets[i].nodes
    BY <1>1 DEF Bucket
  <1>6. buckets' = [buckets EXCEPT ![i] = d]
    BY <1>2 DEF m
  <1> HIDE DEF d
  <1> QED  BY <1>4, <1>5, <1>6, BookJudgesIn

(* What new_node looks at to find a node new: the bucket of its id. *)
LEMMA NewToTable ==
    ASSUME IInv, NEW id \in Id, NewTo(FindBucket(buckets, id), id)
    PROVE  \A x \in Contacts(buckets) : x.id # id
  <1>1. /\ now \in Time /\ GoodList(buckets, now) /\ buckets \in Seq(Bucket) /\ buckets # <<>>
        /\ buckets[1].first = 0
        /\ \A i, j \in DOMAIN buckets : i < j => buckets[i].first < buckets[j].first
        /\ \A i \in DOMAIN buckets : GoodBucket(buckets[i], Upper(buckets, i), now)
        /\ DOMAIN buckets = 1 .. Len(buckets)
    BY DEF IInv, GoodList, Tiles
  <1>2. SUFFICES ASSUME NEW j \in DOMAIN buckets, NEW x \in buckets[j].nodes, x.id = id
                 PROVE  FALSE
    BY DEF Contacts
  <1>3. InBucket(buckets, j, id)
    BY <1>1, <1>2 DEF GoodBucket, InBucket
  <1>4. FindBucket(buckets, id) = j
    BY <1>1, <1>3, FindBucketUnique
  <1> QED  BY <1>2, <1>4 DEF NewTo

LEMMA ReplaceBadBook ==
    ASSUME IInv, NEW id \in Id, NEW addr \in Addr, NEW confirm \in 0 .. 2,
           NEW i \in DOMAIN buckets, i = FindBucket(buckets, id), id # MyId, NewTo(i, id),
           ReplaceBad(id, addr, confirm, i)
    PROVE  [Book!BookNext]_(Book!book)
  <1> DEFINE b == TargetBucket(i, confirm)
             m == FreshNode(id, addr, confirm)
  <1>1. b \in Bucket /\ b.nodes = buckets[i].nodes
    BY TargetGood
  <1>2. PICK n \in b.nodes :
            /\ Bad(n)
            /\ buckets' = [buckets EXCEPT ![i] = [b EXCEPT !.nodes = Swap(@, n, m)]]
    BY DEF ReplaceBad, PutBucket
  <1>3. m.id = id /\ m.pinged = 0
    BY DEF FreshNode
  <1> HIDE DEF b, m
  <1> DEFINE d == [b EXCEPT !.nodes = Swap(@, n, m)]
  <1>4. d.nodes = Swap(buckets[i].nodes, n, m) /\ n \in buckets[i].nodes
    BY <1>1 DEF Bucket
  <1>5. buckets' = [buckets EXCEPT ![i] = d]
    BY <1>2
  <1> HIDE DEF d
  <1>6. /\ Contacts(buckets') = (Contacts(buckets) \ buckets[i].nodes) \cup d.nodes
        /\ buckets[i].nodes \subseteq Contacts(buckets)
    BY <1>5, ContactsAfterPut
  <1>7. Contacts(buckets') = (Contacts(buckets) \ {n}) \cup {m} /\ n \in Contacts(buckets)
    BY <1>4, <1>6 DEF Swap
  <1>8. \A x \in Contacts(buckets) : x.id # m.id
    BY <1>3, NewToTable
  <1>9. \A x \in {n} : x.pinged >= 3
    BY <1>2 DEF Bad
  <1>10. ~ (m.pinged >= 3)
    BY <1>3
  <1> DEFINE gone == {n}
  <1>11. gone \subseteq Contacts(buckets) /\ \A x, y \in gone : x = y
    BY <1>7
  <1> HIDE DEF gone
  <1> QED  BY <1>3, <1>7, <1>8, <1>9, <1>10, <1>11, BookLearns DEF gone

LEMMA AddNodeBook ==
    ASSUME IInv, NEW id \in Id, NEW addr \in Addr, NEW confirm \in 0 .. 2,
           NEW i \in DOMAIN buckets, i = FindBucket(buckets, id), id # MyId, NewTo(i, id),
           AddNode(id, addr, confirm, i)
    PROVE  [Book!BookNext]_(Book!book)
  <1> DEFINE b == TargetBucket(i, confirm)
             m == FreshNode(id, addr, confirm)
             d == [b EXCEPT !.nodes = @ \cup {m}, !.count = @ + 1]
  <1>1. b \in Bucket /\ b.nodes = buckets[i].nodes
    BY TargetGood
  <1>2. buckets' = [buckets EXCEPT ![i] = d] \/ buckets' = [buckets EXCEPT ![i] = b]
    BY DEF AddNode, PutBucket
  <1>3. m.id = id /\ m.pinged = 0
    BY DEF FreshNode
  <1> HIDE DEF b, m
  <1>4. d.nodes = buckets[i].nodes \cup {m}
    BY <1>1 DEF Bucket
  <1> HIDE DEF d
  <1>8. CASE buckets' = [buckets EXCEPT ![i] = b]
    <2>1. /\ Contacts(buckets') = (Contacts(buckets) \ buckets[i].nodes) \cup b.nodes
          /\ buckets[i].nodes \subseteq Contacts(buckets)
      BY <1>8, ContactsAfterPut
    <2>2. Contacts(buckets') = Contacts(buckets)
      BY <1>1, <2>1
    <2> QED  BY <2>2, BookStutters
  <1>9. CASE buckets' = [buckets EXCEPT ![i] = d]
    <2> DEFINE gone == {}
    <2>1. Contacts(buckets') = (Contacts(buckets) \ gone) \cup {m}
      BY <1>4, <1>9, ContactsAfterPut
    <2>2. \A x \in Contacts(buckets) : x.id # m.id
      BY <1>3, NewToTable
    <2>3. gone \subseteq Contacts(buckets) /\ (\A x, y \in gone : x = y)
            /\ \A x \in gone : x.pinged >= 3
      OBVIOUS
    <2>4. ~ (m.pinged >= 3)
      BY <1>3
    <2> HIDE DEF gone
    <2> QED  BY <1>3, <2>1, <2>2, <2>3, <2>4, BookLearns
  <1> QED  BY <1>2, <1>8, <1>9

(* A full bucket, one of whose dubious nodes may have been pinged. *)
LEMMA DubiousBook ==
    ASSUME IInv, NEW i \in DOMAIN buckets, NEW nodes \in DubiousPinged(buckets[i].nodes),
           Contacts(buckets') = (Contacts(buckets) \ buckets[i].nodes) \cup nodes
    PROVE  [Book!BookNext]_(Book!book)
  <1>1. now \in Time /\ GoodList(buckets, now) /\ buckets \in Seq(Bucket)
    BY DEF IInv, GoodList
  <1>2. /\ buckets[i] \in Bucket /\ Upper(buckets, i) \in Nat
        /\ GoodBucket(buckets[i], Upper(buckets, i), now)
    BY <1>1, ListFields DEF GoodList
  <1>3. buckets[i].nodes \subseteq Contacts(buckets)
    BY DEF Contacts
  <1>4. CASE nodes = buckets[i].nodes
    <2>1. Contacts(buckets') = Contacts(buckets)
      BY <1>3, <1>4
    <2> QED  BY <2>1, BookStutters
  <1>5. CASE \E n \in buckets[i].nodes : nodes = Swap(buckets[i].nodes, n, Ping(n))
    <2>1. PICK n \in buckets[i].nodes : nodes = Swap(buckets[i].nodes, n, Ping(n))
      BY <1>5
    <2>2. n \in Node /\ n \in Contacts(buckets)
      BY <1>2, <1>3, BucketFields
    <2> DEFINE m == Ping(n)
    <2>3. m.id = n.id
      BY <1>1, <2>2, PingType
    <2>4. Contacts(buckets') = Swap(Contacts(buckets), n, m)
      BY <1>3, <2>1 DEF Swap
    <2> HIDE DEF m
    <2> QED  BY <2>2, <2>3, <2>4, BookJudges
  <1> QED  BY <1>1, <1>2, <1>4, <1>5, DubiousNodes

LEMMA CacheAwayBook ==
    ASSUME IInv, NEW i \in DOMAIN buckets, NEW id \in Id, NEW addr \in Addr,
           NEW confirm \in 0 .. 2, CacheAway(id, addr, confirm, i)
    PROVE  [Book!BookNext]_(Book!book)
  <1> DEFINE b == TargetBucket(i, confirm)
             c == IF confirm > 0 \/ b.cached = NoAddr THEN addr ELSE b.cached
  <1>1. now \in Time /\ GoodList(buckets, now) /\ b \in Bucket
    BY TargetGood DEF IInv
  <1>2. PICK nodes \in DubiousPinged(buckets[i].nodes) :
            buckets' = [buckets EXCEPT ![i] = [b EXCEPT !.nodes = nodes, !.cached = c]]
    BY DEF CacheAway, PutBucket
  <1> HIDE DEF b, c
  <1> DEFINE d == [b EXCEPT !.nodes = nodes, !.cached = c]
  <1>3. d.nodes = nodes
    BY <1>1 DEF Bucket
  <1>4. buckets' = [buckets EXCEPT ![i] = d]
    BY <1>2
  <1> HIDE DEF d
  <1>5. Contacts(buckets') = (Contacts(buckets) \ buckets[i].nodes) \cup nodes
    BY <1>3, <1>4, ContactsAfterPut
  <1> QED  BY <1>5, DubiousBook

LEMMA SplitAndRetryBook ==
    ASSUME IInv, NEW i \in DOMAIN buckets, NEW id \in Id, NEW addr \in Addr,
           NEW confirm \in 0 .. 2, SplitAndRetry(id, addr, confirm, i)
    PROVE  [Book!BookNext]_(Book!book)
  <1>1. now \in Time /\ GoodList(buckets, now)
    BY DEF IInv
  <1>2. PICK bs, d : \E nodes \in DubiousPinged(buckets[i].nodes) :
            /\ d.nodes = nodes /\ DOMAIN bs = DOMAIN buckets /\ bs[i] = d
            /\ \A j \in DOMAIN buckets : j # i => bs[j] = buckets[j]
            /\ GoodList(bs, now) /\ InBucket(bs, i, MyId)
            /\ \/ buckets' = bs
               \/ buckets' = SplitBucket(bs, i) /\ HasMiddle(bs[i].first, Upper(bs, i))
    BY SplitAndRetryParts
  <1>3. PICK nodes \in DubiousPinged(buckets[i].nodes) : d.nodes = nodes
    BY <1>2
  <1>4. Contacts(bs) = (Contacts(buckets) \ buckets[i].nodes) \cup d.nodes
    BY <1>1, <1>2, ContactsPut
  <1>5. Contacts(buckets') = Contacts(bs)
    <2>1. CASE buckets' = bs
      BY <2>1
    <2>2. CASE buckets' = SplitBucket(bs, i) /\ HasMiddle(bs[i].first, Upper(bs, i))
      BY <1>1, <1>2, <2>2, ContactsSplit
    <2> QED  BY <1>2, <2>1, <2>2
  <1>6. Contacts(buckets') = (Contacts(buckets) \ buckets[i].nodes) \cup nodes
    BY <1>3, <1>4, <1>5
  <1> QED  BY <1>6, DubiousBook

(* Every way new_node can go. *)
LEMMA NewNodeTurnBook ==
    ASSUME IInv, NEW id \in Id, NEW addr \in Addr, NEW confirm \in 0 .. 2,
           NewNodeTurn(id, addr, confirm)
    PROVE  [Book!BookNext]_(Book!book)
  <1> DEFINE i == FindBucket(buckets, id)
  <1>1. buckets \in Seq(Bucket) /\ buckets # <<>> /\ buckets[1].first = 0
    BY DEF IInv, GoodList, Tiles
  <1>2. i \in DOMAIN buckets
    BY <1>1, FindBucketHolds
  <1>3. \/ Refused(id, addr)
        \/ KnownNode(id, addr, confirm, i)
        \/ id # MyId /\ NewTo(i, id) /\ ReplaceBad(id, addr, confirm, i)
        \/ SplitAndRetry(id, addr, confirm, i)
        \/ CacheAway(id, addr, confirm, i)
        \/ id # MyId /\ NewTo(i, id) /\ AddNode(id, addr, confirm, i)
    BY Zenon DEF NewNodeTurn
  <1>4. i = FindBucket(buckets, id)
    OBVIOUS
  <1> HIDE DEF i
  <1>5. CASE Refused(id, addr)
    <2>1. Contacts(buckets') = Contacts(buckets)
      BY <1>5 DEF Refused
    <2> QED  BY <2>1, BookStutters
  <1>6. CASE KnownNode(id, addr, confirm, i)
    BY <1>2, <1>6, KnownNodeBook
  <1>7. CASE id # MyId /\ NewTo(i, id) /\ ReplaceBad(id, addr, confirm, i)
    BY <1>2, <1>4, <1>7, ReplaceBadBook
  <1>8. CASE SplitAndRetry(id, addr, confirm, i)
    BY <1>2, <1>8, SplitAndRetryBook
  <1>9. CASE CacheAway(id, addr, confirm, i)
    BY <1>2, <1>9, CacheAwayBook
  <1>10. CASE id # MyId /\ NewTo(i, id) /\ AddNode(id, addr, confirm, i)
    BY <1>2, <1>4, <1>10, AddNodeBook
  <1> QED  BY <1>3, <1>5, <1>6, <1>7, <1>8, <1>9, <1>10

(* A request sent to a node of the table. *)
LEMMA PingedBook ==
    ASSUME IInv, NEW i \in DOMAIN buckets, NEW n \in buckets[i].nodes,
           buckets' = [buckets EXCEPT ![i] = PingedBucket(buckets[i], n)]
    PROVE  [Book!BookNext]_(Book!book)
  <1> DEFINE m == Ping(n)
             d == PingedBucket(buckets[i], n)
  <1>1. now \in Time /\ buckets \in Seq(Bucket)
    BY DEF IInv, GoodList
  <1>2. buckets[i] \in Bucket /\ n \in Node
    BY <1>1, ListFields, BucketFields
  <1>3. m.id = n.id
    BY <1>1, <1>2, PingType
  <1>4. d.nodes = Swap(buckets[i].nodes, n, m)
    BY <1>2 DEF PingedBucket, Bucket
  <1>5. buckets' = [buckets EXCEPT ![i] = d]
    OBVIOUS
  <1> HIDE DEF m, d
  <1> QED  BY <1>3, <1>4, <1>5, BookJudgesIn

LEMMA BrokenNodeBook ==
    ASSUME IInv, BrokenNode
    PROVE  [Book!BookNext]_(Book!book)
  <1>1. /\ now \in Time /\ buckets \in Seq(Bucket) /\ buckets # <<>> /\ buckets[1].first = 0
    BY DEF IInv, GoodList, Tiles
  <1>2. PICK id \in Peers :
            LET i == FindBucket(buckets, id)
            IN  \E n \in buckets[i].nodes :
                PutBucket(i, [buckets[i] EXCEPT
                    !.nodes = Swap(@, n, Ping([n EXCEPT !.pinged = 3])), !.cached = NoAddr])
    BY DEF BrokenNode
  <1> DEFINE i == FindBucket(buckets, id)
  <1>3. i \in DOMAIN buckets
    BY <1>1, <1>2, IdsAssumption, FindBucketHolds
  <1>4. PICK n \in buckets[i].nodes :
            buckets' = [buckets EXCEPT ![i] = [buckets[i] EXCEPT
                !.nodes = Swap(@, n, Ping([n EXCEPT !.pinged = 3])), !.cached = NoAddr]]
    BY <1>2 DEF PutBucket
  <1> HIDE DEF i
  <1> DEFINE m == Ping([n EXCEPT !.pinged = 3])
             d == [buckets[i] EXCEPT !.nodes = Swap(@, n, m), !.cached = NoAddr]
  <1>5. buckets[i] \in Bucket /\ n \in Node
    BY <1>1, <1>3, <1>4, ListFields, BucketFields
  <1>6. m.id = n.id
    <2> DEFINE x == [n EXCEPT !.pinged = 3]
    <2>1. x \in Node /\ x.id = n.id
      BY <1>5 DEF Node, MaxPinged
    <2> HIDE DEF x
    <2>2. Ping(x).id = x.id
      BY <1>1, <2>1, PingType
    <2> QED  BY <2>1, <2>2 DEF x
  <1>7. buckets' = [buckets EXCEPT ![i] = d]
    BY <1>4
  <1> HIDE DEF m
  <1>8. d.nodes = Swap(buckets[i].nodes, n, m)
    BY <1>5 DEF Bucket
  <1>9. n \in buckets[i].nodes
    BY <1>4
  <1> HIDE DEF d
  <1> QED  BY <1>3, <1>6, <1>7, <1>8, <1>9, BookJudgesIn

(* Only suspects are purged. *)
LEMMA ExpireBook ==
    ASSUME IInv, ExpireBuckets
    PROVE  [Book!BookNext]_(Book!book)
  <1> DEFINE dead(j) == {n \in buckets[j].nodes : n.pinged >= 4}
             gone == {n \in Contacts(buckets) : n.pinged >= 4}
  <1>1. buckets \in Seq(Bucket) /\ now \in Time /\ GoodList(buckets, now)
    BY DEF IInv, GoodList
  <1>2. DOMAIN buckets' = DOMAIN buckets
        /\ \A j \in DOMAIN buckets : buckets'[j] = Purged(buckets[j])
    BY DEF ExpireBuckets
  <1>3. \A j \in DOMAIN buckets : Purged(buckets[j]).nodes = buckets[j].nodes \ dead(j)
    <2> TAKE j \in DOMAIN buckets
    <2>1. buckets[j] \in Bucket
      BY <1>1, ListFields
    <2> QED  BY <2>1 DEF Purged, Bucket
  <1>4. \A n \in Contacts(buckets) : n.pinged \in Nat
    BY <1>1, ContactsApart DEF Node, MaxPinged
  <1>5. Contacts(buckets') = UNION {buckets[j].nodes \ dead(j) : j \in DOMAIN buckets}
    BY <1>2, <1>3 DEF Contacts
  <1>6. Contacts(buckets') = Contacts(buckets) \ gone
    BY <1>5 DEF Contacts
  <1>7. gone \subseteq Contacts(buckets) /\ \A x \in gone : x.pinged >= 3
    BY <1>4
  <1> HIDE DEF gone
  <1> QED  BY <1>6, <1>7, BookForgets

(* Every step of the table is a step of the book, or leaves it as it is. *)
LEMMA NextBook ==
    ASSUME IInv, [Next]_vars
    PROVE  [Book!BookNext]_(Book!book)
  <1>1. /\ call \in Call \cup {NoCall} /\ buckets \in Seq(Bucket) /\ buckets # <<>>
        /\ buckets[1].first = 0
    BY DEF IInv, GoodList, Tiles
  <1>2. CASE NewNode
    <2>1. PICK id \in Peers, addr \in Addr, confirm \in 0 .. 2 : NewNodeTurn(id, addr, confirm)
      BY <1>2 DEF NewNode
    <2>2. id \in Id
      BY IdsAssumption
    <2> QED  BY <2>1, <2>2, NewNodeTurnBook
  <1>3. CASE NewNodeAgain
    <2>1. call \in Call /\ NewNodeTurn(call.id, call.addr, call.confirm)
      BY <1>1, <1>3 DEF NewNodeAgain
    <2>2. call.id \in Id /\ call.addr \in Addr /\ call.confirm \in 0 .. 2
      BY <2>1 DEF Call
    <2> QED  BY <2>1, <2>2, NewNodeTurnBook
  <1>4. ASSUME NEW i \in DOMAIN buckets, QueryFor(i)
        PROVE  [Book!BookNext]_(Book!book)
    <2>1. PICK q \in Sources(i) : \E n \in buckets[q].nodes :
            buckets' = [buckets EXCEPT ![q] = PingedBucket(buckets[q], n)]
      BY <1>4 DEF QueryFor, PutBucket
    <2>2. q \in DOMAIN buckets
      BY <1>1, SourcesInList
    <2> QED  BY <2>1, <2>2, PingedBook
  <1>5. CASE BucketMaintenance
    BY <1>4, <1>5 DEF BucketMaintenance
  <1>6. CASE NeighbourhoodMaintenance
    <2>1. FindBucket(buckets, MyId) \in DOMAIN buckets
      BY <1>1, IdsAssumption, FindBucketHolds
    <2> QED  BY <1>4, <1>6, <2>1 DEF NeighbourhoodMaintenance
  <1>7. CASE SearchPinged
    BY <1>7, PingedBook DEF SearchPinged, PutBucket
  <1>8. CASE BrokenNode
    BY <1>8, BrokenNodeBook
  <1>9. CASE ExpireBuckets
    BY <1>9, ExpireBook
  <1>10. CASE Tick \/ UNCHANGED vars
    <2>1. Contacts(buckets') = Contacts(buckets)
      BY <1>10 DEF Tick, vars
    <2> QED  BY <2>1, BookStutters
  <1> QED  BY <1>2, <1>3, <1>5, <1>6, <1>7, <1>8, <1>9, <1>10 DEF Next

(* The table implements the contact book: whatever splits, replacements and     *)
(* purges do to the buckets, a contact is learnt by new_node alone, one at a    *)
(* time, and is forgotten only after three of our requests went unanswered.     *)
THEOREM TableImplementsContactBook == Spec => ImplementsContactBook
  <1>1. Init => Book!BookInit
    <2> SUFFICES ASSUME Init PROVE Book!BookInit
      OBVIOUS
    <2>1. buckets = <<EmptyBucket(0, 0)>> /\ EmptyBucket(0, 0).nodes = {}
      BY DEF Init, EmptyBucket
    <2>2. DOMAIN buckets = {1} /\ buckets[1].nodes = {}
      BY <2>1
    <2>3. Contacts(buckets) = {}
      BY <2>2 DEF Contacts
    <2>4. Known = {} /\ Suspect = {}
      BY <2>3 DEF Known, Suspect
    <2> QED  BY <2>4 DEF Book!BookInit
  <1>2. IInv /\ [Next]_vars => [Book!BookNext]_(Book!book)
    BY NextBook
  <1> QED  BY <1>1, <1>2, Invariant, PTL DEF Spec, ImplementsContactBook, Book!BookSpec
=============================================================================
