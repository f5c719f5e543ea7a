--------------------------- MODULE DhtNodeProofs ---------------------------
(***************************************************************************)
(* Proofs about the life of the library, the stored peers and the tokens,  *)
(* for every number of hashes and peers, all limits and all waiting times. *)
(***************************************************************************)
EXTENDS DhtNode, Inductions, SequenceTheorems

-----------------------------------------------------------------------------
(* The scan of one record's peers *)

ScanState == [s : Seq(Stored), i : Nat]

Fresh(p) == p.time >= now - PeerAge

NoPeerTwice(peers) == \A k, l \in DOMAIN peers : k # l => peers[k].peer # peers[l].peer

(* After n turns: what is before i is fresh, nothing fresh was lost, nothing *)
(* came in, and the turns left are the peers still to be looked at.          *)
ScanInv(scan, peers, n) ==
    /\ scan.i \in 1 .. Len(scan.s) + 1
    /\ Len(scan.s) + 1 - scan.i = Len(peers) - n /\ Len(scan.s) <= Len(peers)
    /\ \A k \in 1 .. scan.i - 1 : Fresh(scan.s[k])
    /\ \A k \in DOMAIN scan.s : \E l \in DOMAIN peers : scan.s[k] = peers[l]
    /\ \A l \in DOMAIN peers : Fresh(peers[l]) => \E k \in DOMAIN scan.s : scan.s[k] = peers[l]
    /\ NoPeerTwice(scan.s)

(* The hole is filled from the end. *)
LEMMA FillHoleFacts ==
    ASSUME NEW S, NEW s \in Seq(S), NEW i \in DOMAIN s
    PROVE  /\ FillHole(s, i) \in Seq(S) /\ Len(FillHole(s, i)) = Len(s) - 1
           /\ DOMAIN FillHole(s, i) = 1 .. Len(s) - 1
           /\ \A k \in 1 .. Len(s) - 1 : FillHole(s, i)[k] = IF k = i THEN s[Len(s)] ELSE s[k]
  <1>1. Len(s) - 1 \in Nat /\ \A k \in 1 .. Len(s) - 1 : k \in DOMAIN s
    OBVIOUS
  <1>2. \A k \in 1 .. Len(s) - 1 : (IF k = i THEN s[Len(s)] ELSE s[k]) \in S
    OBVIOUS
  <1> QED  BY <1>1, <1>2 DEF FillHole

(* A turn keeps the type of the scan. *)
LEMMA ScanStepType ==
    ASSUME NEW scan \in ScanState, scan.i >= 1
    PROVE  ScanStep(scan) \in ScanState /\ ScanStep(scan).i >= 1
  <1>1. scan.s \in Seq(Stored) /\ scan.i \in Nat
    BY DEF ScanState
  <1>2. CASE scan.i > Len(scan.s)
    BY <1>2 DEF ScanStep
  <1>3. CASE ~ scan.i > Len(scan.s)
    <2>1. scan.i \in DOMAIN scan.s
      BY <1>1, <1>3
    <2>2. FillHole(scan.s, scan.i) \in Seq(Stored)
      BY <1>1, <2>1, FillHoleFacts
    <2>3. [s |-> FillHole(scan.s, scan.i), i |-> scan.i] \in ScanState
      BY <1>1, <2>2 DEF ScanState
    <2>4. [s |-> scan.s, i |-> scan.i + 1] \in ScanState
      BY <1>1 DEF ScanState
    <2> QED  BY <1>1, <1>3, <2>3, <2>4 DEF ScanStep
  <1> QED  BY <1>2, <1>3

(* A turn keeps what holds after the turns before. *)
LEMMA ScanStepKeeps ==
    ASSUME now \in Int, NEW peers \in Seq(Stored), NEW n \in 1 .. Len(peers),
           NEW scan \in ScanState, ScanInv(scan, peers, n - 1)
    PROVE  ScanInv(ScanStep(scan), peers, n)
  <1> DEFINE s == scan.s
             i == scan.i
             t == FillHole(s, i)
  <1>1. s \in Seq(Stored) /\ i \in Nat /\ Len(s) \in Nat /\ DOMAIN s = 1 .. Len(s)
    BY DEF ScanState
  <1>2. /\ i \in 1 .. Len(s) + 1 /\ Len(s) + 1 - i = Len(peers) - (n - 1)
        /\ \A k \in 1 .. i - 1 : Fresh(s[k])
        /\ \A k \in DOMAIN s : \E l \in DOMAIN peers : s[k] = peers[l]
        /\ \A l \in DOMAIN peers : Fresh(peers[l]) => \E k \in DOMAIN s : s[k] = peers[l]
        /\ NoPeerTwice(s)
    BY DEF ScanInv
  <1>12. Len(s) <= Len(peers)
    BY DEF ScanInv
  <1>3. Len(peers) \in Nat /\ n \in Int /\ n <= Len(peers)
    OBVIOUS
  <1>10. i \in 1 .. Len(s) + 1 /\ Len(s) + 1 - i = Len(peers) - (n - 1)
    BY <1>2
  <1>4. i <= Len(s) /\ i \in DOMAIN s
    BY <1>1, <1>3, <1>10
  <1>11. i \in Int /\ 1 <= i /\ Len(s) \in Int /\ Len(peers) \in Int
    BY <1>1, <1>3, <1>10
  <1>5. /\ Len(t) = Len(s) - 1 /\ DOMAIN t = 1 .. Len(s) - 1
        /\ \A k \in 1 .. Len(s) - 1 : t[k] = IF k = i THEN s[Len(s)] ELSE s[k]
    BY <1>1, <1>4, FillHoleFacts
  <1>6. \A k \in DOMAIN s : s[k].time \in Int
    <2>1. MaxTime \in Int
      BY DhtNodeAssumption
    <2>2. \A x \in 0 .. MaxTime : x \in Int
      BY <2>1
    <2>3. \A k \in DOMAIN s : s[k] \in Stored
      BY <1>1
    <2> QED  BY <2>2, <2>3 DEF Stored
  <1>7. PeerAge \in Int
    BY DhtNodeAssumption
  <1>8. CASE s[i].time < now - PeerAge
    <2>1. ScanStep(scan) = [s |-> t, i |-> i]
      BY <1>1, <1>4, <1>8 DEF ScanStep
    <2>2. ~ Fresh(s[i])
      BY <1>4, <1>6, <1>7, <1>8 DEF Fresh
    <2> HIDE DEF s, i, t
    <2>3. i \in 1 .. Len(t) + 1 /\ Len(t) + 1 - i = Len(peers) - n /\ Len(t) <= Len(peers)
      <3>1. i <= Len(s) /\ Len(t) = Len(s) - 1 /\ Len(s) + 1 - i = Len(peers) - (n - 1)
        BY <1>4, <1>5, <1>10
      <3> QED  BY <1>3, <1>11, <1>12, <3>1
    <2>4. ASSUME NEW k \in 1 .. i - 1 PROVE Fresh(t[k])
      <3>1. t[k] = s[k]
        BY <1>1, <1>4, <1>5
      <3> QED  BY <1>2, <3>1
    <2>5. ASSUME NEW k \in DOMAIN t PROVE \E l \in DOMAIN peers : t[k] = peers[l]
      BY <1>1, <1>2, <1>4, <1>5
    <2>6. ASSUME NEW l \in DOMAIN peers, Fresh(peers[l])
          PROVE  \E k \in DOMAIN t : t[k] = peers[l]
      <3>1. PICK k \in DOMAIN s : s[k] = peers[l]
        BY <1>2, <2>6
      <3>2. k # i
        BY <2>2, <2>6, <3>1
      <3>3. CASE k = Len(s)
        <4>1. i \in 1 .. Len(s) - 1
          <5>1. i <= Len(s) /\ i # Len(s)
            BY <1>4, <3>2, <3>3
          <5> QED  BY <1>11, <5>1
        <4>2. i \in DOMAIN t /\ t[i] = s[Len(s)]
          BY <1>5, <4>1
        <4> QED  BY <3>1, <3>3, <4>2
      <3>4. CASE k # Len(s)
        <4>1. k \in DOMAIN t /\ t[k] = s[k]
          BY <1>1, <1>5, <3>2, <3>4
        <4> QED  BY <3>1, <4>1
      <3> QED  BY <3>3, <3>4
    <2>7. NoPeerTwice(t)
      <3>1. ASSUME NEW k \in DOMAIN t, NEW l \in DOMAIN t, k # l PROVE t[k].peer # t[l].peer
        <4> DEFINE from(j) == IF j = i THEN Len(s) ELSE j
        <4>1. from(k) \in DOMAIN s /\ from(l) \in DOMAIN s /\ from(k) # from(l)
          BY <1>1, <1>5, <3>1
        <4>2. t[k] = s[from(k)] /\ t[l] = s[from(l)]
          BY <1>5
        <4> HIDE DEF from
        <4> QED  BY <1>2, <4>1, <4>2 DEF NoPeerTwice
      <3> QED  BY <3>1 DEF NoPeerTwice
    <2>8. ScanStep(scan).s = t /\ ScanStep(scan).i = i
      BY <2>1
    <2>9. \A k \in 1 .. i - 1 : Fresh(t[k])
      BY <2>4
    <2> QED  BY <2>3, <2>5, <2>6, <2>7, <2>8, <2>9 DEF ScanInv
  <1>9. CASE ~ s[i].time < now - PeerAge
    <2>1. ScanStep(scan) = [s |-> s, i |-> i + 1]
      BY <1>1, <1>4, <1>9 DEF ScanStep
    <2>2. Fresh(s[i])
      BY <1>4, <1>6, <1>7, <1>9 DEF Fresh
    <2> HIDE DEF s, i, t
    <2>3. i + 1 \in 1 .. Len(s) + 1 /\ Len(s) + 1 - (i + 1) = Len(peers) - n
      BY <1>1, <1>2, <1>3, <1>4
    <2>4. \A k \in 1 .. (i + 1) - 1 : Fresh(s[k])
      BY <1>1, <1>2, <2>2
    <2> QED  BY <1>2, <1>12, <2>1, <2>3, <2>4 DEF ScanInv
  <1> QED  BY <1>8, <1>9

(* The inner loop of expire_storage leaves exactly the peers that are fresh. *)
LEMMA UnexpiredFacts ==
    ASSUME now \in Int, NEW peers \in Seq(Stored), NoPeerTwice(peers)
    PROVE  LET left == Unexpired(peers)
           IN  /\ left \in Seq(Stored) /\ Len(left) <= Len(peers)
               /\ \A k \in DOMAIN left : Fresh(left[k]) /\ \E l \in DOMAIN peers : left[k] = peers[l]
               /\ \A l \in DOMAIN peers : Fresh(peers[l]) => \E k \in DOMAIN left : left[k] = peers[l]
               /\ NoPeerTwice(left)
  <1> DEFINE n == Len(peers)
             start == [s |-> peers, i |-> 1]
             scan[m \in 0 .. n] == IF m = 0 THEN start ELSE ScanStep(scan[m - 1])
             X == {x \in ScanState : x.i >= 1}
             turn == [m \in 1 .. n |-> [x \in X |-> ScanStep(x)]]
             S == {m \in 0 .. n : scan[m] \in ScanState /\ ScanInv(scan[m], peers, m)}
  <1>1. n \in Nat /\ DOMAIN peers = 1 .. n
    OBVIOUS
  <1>2. Unexpired(peers) = scan[n].s
    BY DEF Unexpired
  <1>3. scan = CHOOSE h : h = [m \in 0 .. n |-> IF m = 0 THEN start ELSE ScanStep(h[m - 1])]
    OBVIOUS
  <1>4. start \in X
    BY DEF ScanState
  <1>5. ScanInv(start, peers, 0)
    <2>1. 1 \in 1 .. n + 1 /\ n + 1 - 1 = n - 0 /\ n <= n
      BY <1>1
    <2>2. \A k \in 1 .. 1 - 1 : Fresh(peers[k])
      OBVIOUS
    <2> HIDE DEF n
    <2> QED  BY <2>1, <2>2 DEF ScanInv, n
  <1>6. turn \in Turns(n, X)
    <2>1. \A x \in X : ScanStep(x) \in X
      BY ScanStepType
    <2> HIDE DEF X, n
    <2> QED  BY <2>1 DEF Turns
  <1> HIDE DEF start, scan
  <1>7. PICK g \in [0 .. n -> X] : g[0] = start /\ \A m \in 1 .. n : g[m] = turn[m][g[m - 1]]
    <2> HIDE DEF turn, X, n
    <2>1. Traces(n, X, start, turn) # {}
      BY <1>1, <1>4, <1>6, LoopExists
    <2> QED  BY <2>1 DEF Traces
  <1>8. g = [m \in 0 .. n |-> IF m = 0 THEN start ELSE ScanStep(g[m - 1])]
    <2> HIDE DEF X, n
    <2>1. ASSUME NEW m \in 0 .. n PROVE g[m] = IF m = 0 THEN start ELSE ScanStep(g[m - 1])
      <3>1. CASE m = 0
        BY <1>7, <3>1
      <3>2. CASE m # 0
        <4>1. m \in 1 .. n /\ g[m - 1] \in X
          BY <1>1, <1>7, <3>2
        <4> QED  BY <1>7, <3>2, <4>1
      <3> QED  BY <3>1, <3>2
    <2> QED  BY <1>7, <2>1
  <1>9. scan = [m \in 0 .. n |-> IF m = 0 THEN start ELSE ScanStep(scan[m - 1])]
    BY <1>3, <1>8
  <1> HIDE DEF n
  <1>10. 0 \in S
    <2>1. scan[0] = start /\ 0 \in 0 .. n
      BY <1>1, <1>9
    <2> QED  BY <1>4, <1>5, <2>1
  <1>11. ASSUME NEW m \in 1 .. n, m - 1 \in S PROVE m \in S
    <2>1. scan[m] = ScanStep(scan[m - 1]) /\ m \in 0 .. n
      BY <1>1, <1>9
    <2>2. scan[m - 1] \in ScanState /\ ScanInv(scan[m - 1], peers, m - 1)
      BY <1>11
    <2>3. scan[m] \in ScanState
      <3>1. scan[m - 1].i >= 1
        BY <2>2 DEF ScanInv, ScanState
      <3> QED  BY <2>1, <2>2, <3>1, ScanStepType
    <2>4. ScanInv(scan[m], peers, m)
      BY <2>1, <2>2, ScanStepKeeps DEF n
    <2> QED  BY <2>1, <2>3, <2>4
  <1> HIDE DEF S
  <1>12. 0 .. n \subseteq S
    BY <1>1, <1>10, <1>11, InductionUpTo
  <1>13. n \in S
    BY <1>1, <1>12
  <1>14. scan[n] \in ScanState /\ ScanInv(scan[n], peers, n)
    BY <1>13 DEF S
  <1> DEFINE left == scan[n].s
  <1>15. left \in Seq(Stored) /\ Len(left) \in Nat /\ DOMAIN left = 1 .. Len(left)
    BY <1>14 DEF ScanState
  <1>16. scan[n].i - 1 = Len(left)
    <2>1. Len(left) + 1 - scan[n].i = n - n /\ scan[n].i \in 1 .. Len(left) + 1
      BY <1>14 DEF ScanInv, n
    <2> HIDE DEF left
    <2> QED  BY <1>1, <1>15, <2>1
  <1> QED  BY <1>2, <1>14, <1>15, <1>16 DEF ScanInv

-----------------------------------------------------------------------------
(* The list of records *)

Rec == [id : Hash, peers : Seq(Stored), maxpeers : 0 .. MaxPeers]

Sound(st) == Len(st.peers) <= st.maxpeers /\ NoPeerTwice(st.peers)

(* What the list is at any time. *)
ListInv ==
    /\ storage \in Seq(Rec)
    /\ \A i, j \in DOMAIN storage : i # j => storage[i].id # storage[j].id
    /\ \A i \in DOMAIN storage : Sound(storage[i])

(* The records are scanned one by one. *)
LEMMA ScannedFacts ==
    ASSUME now \in Int, ListInv
    PROVE  /\ Scanned \in Seq(Rec) /\ DOMAIN Scanned = DOMAIN storage
           /\ Len(Scanned) = Len(storage)
           /\ \A i \in DOMAIN storage :
                 /\ Scanned[i] \in Rec /\ Scanned[i].id = storage[i].id /\ Sound(Scanned[i])
                 /\ Scanned[i].peers = Unexpired(storage[i].peers)
  <1>1. storage \in Seq(Rec) /\ Len(storage) \in Nat /\ DOMAIN storage = 1 .. Len(storage)
    BY DEF ListInv
  <1>2. ASSUME NEW i \in DOMAIN storage
        PROVE  /\ Scanned[i] \in Rec /\ Scanned[i].id = storage[i].id /\ Sound(Scanned[i])
               /\ Scanned[i].peers = Unexpired(storage[i].peers)
    <2>1. storage[i] \in Rec /\ Sound(storage[i])
      BY DEF ListInv
    <2>2. storage[i].peers \in Seq(Stored) /\ NoPeerTwice(storage[i].peers)
      BY <2>1 DEF Rec, Sound
    <2> DEFINE left == Unexpired(storage[i].peers)
    <2>3. left \in Seq(Stored) /\ Len(left) <= Len(storage[i].peers) /\ NoPeerTwice(left)
      BY <2>2, UnexpiredFacts
    <2> HIDE DEF left
    <2>4. Scanned[i] = [storage[i] EXCEPT !.peers = left]
      BY DEF Scanned, left
    <2>5. /\ Scanned[i] \in Rec /\ Scanned[i].id = storage[i].id /\ Scanned[i].peers = left
          /\ Scanned[i].maxpeers = storage[i].maxpeers
      BY <2>1, <2>3, <2>4 DEF Rec
    <2>6. Len(left) <= storage[i].maxpeers
      <3>1. Len(left) \in Int /\ Len(storage[i].peers) \in Int
        BY <2>2, <2>3
      <3>2. storage[i].maxpeers \in Int /\ Len(storage[i].peers) <= storage[i].maxpeers
        BY <2>1, DhtNodeAssumption DEF Rec, Sound
      <3> QED  BY <2>3, <3>1, <3>2
    <2> QED  BY <2>3, <2>5, <2>6 DEF Sound, left
  <1>3. DOMAIN Scanned = 1 .. Len(storage)
    BY <1>1 DEF Scanned
  <1>4. Scanned \in [1 .. Len(storage) -> Rec]
    <2>1. Scanned = [i \in DOMAIN storage |-> Scanned[i]]
      BY DEF Scanned
    <2> QED  BY <1>1, <1>2, <2>1
  <1>5. Scanned \in Seq(Rec)
    BY <1>1, <1>4, SeqDef
  <1>6. Len(Scanned) = Len(storage)
    BY <1>1, <1>3, <1>5
  <1> QED  BY <1>1, <1>2, <1>3, <1>5, <1>6

(* A stored peer is an entry. *)
LEMMA EntriesDef ==
    /\ \A e : e \in Entries <=>
          \E i \in DOMAIN storage : \E k \in DOMAIN storage[i].peers :
              e = [id |-> storage[i].id, peer |-> storage[i].peers[k].peer,
                   time |-> storage[i].peers[k].time]
    /\ \A e : e \in Entries' <=>
          \E i \in DOMAIN storage' : \E k \in DOMAIN storage'[i].peers :
              e = [id |-> storage'[i].id, peer |-> storage'[i].peers[k].peer,
                   time |-> storage'[i].peers[k].time]
  BY DEF Entries

(* expire_storage keeps the list what it is and drops exactly the old peers. *)
LEMMA ExpireFacts ==
    ASSUME now \in Int, ListInv, numstorage \in Nat, expire_storage
    PROVE  /\ ListInv'
           /\ numstorage' \in 0 .. numstorage
           /\ numstorage = Len(storage) => numstorage' = Len(storage')
           /\ Entries' = {e \in Entries : e.time >= now - PeerAge}
  <1> DEFINE gone == {i \in DOMAIN Scanned : Scanned[i].peers = <<>>}
             I == DOMAIN Scanned \ gone
             n == Len(storage)
  <1>1. /\ storage' = At(Scanned, I)
        /\ numstorage' = IF numstorage - Cardinality(gone) < 0 THEN 0 ELSE numstorage - Cardinality(gone)
    BY DEF expire_storage
  <1>2. /\ Scanned \in Seq(Rec) /\ DOMAIN Scanned = 1 .. n /\ DOMAIN storage = 1 .. n /\ n \in Nat
        /\ \A i \in 1 .. n :
              /\ Scanned[i] \in Rec /\ Scanned[i].id = storage[i].id /\ Sound(Scanned[i])
              /\ Scanned[i].peers = Unexpired(storage[i].peers)
    BY ScannedFacts DEF ListInv
  <1>3. gone \in SUBSET (1 .. n) /\ I = (1 .. n) \ gone /\ I \in SUBSET DOMAIN Scanned
    BY <1>2
  <1> HIDE DEF n
  <1>4. Cardinality(gone) \in 0 .. n /\ Cardinality(I) = n - Cardinality(gone)
    <2> HIDE DEF gone, I
    <2> QED  BY <1>2, <1>3, PositionsFinite
  <1>14. \A i \in I : i \in 1 .. n /\ Scanned[i].peers # <<>>
    BY <1>3
  <1>15. \A i \in 1 .. n : Scanned[i].peers # <<>> => i \in I
    BY <1>3
  <1> HIDE DEF gone, I
  <1>5. /\ storage' \in Seq(Rec) /\ Len(storage') = Cardinality(I)
        /\ DOMAIN storage' = 1 .. Cardinality(I)
        /\ \A k \in DOMAIN storage' : Nth(I, k) \in I /\ storage'[k] = Scanned[Nth(I, k)]
        /\ \A k, l \in DOMAIN storage' : k < l => Nth(I, k) < Nth(I, l)
        /\ \A i \in I : \E k \in DOMAIN storage' : Nth(I, k) = i
    <2> DEFINE t == At(Scanned, I)
    <2>1. Scanned \in Seq(Rec) /\ I \in SUBSET DOMAIN Scanned
      BY <1>2, <1>3
    <2>2. /\ t \in Seq(Rec) /\ Len(t) = Cardinality(I)
          /\ DOMAIN t = 1 .. Cardinality(I)
          /\ \A k \in DOMAIN t : Nth(I, k) \in I /\ t[k] = Scanned[Nth(I, k)]
          /\ \A k, l \in DOMAIN t : k < l => Nth(I, k) < Nth(I, l)
          /\ \A i \in I : \E k \in DOMAIN t : Nth(I, k) = i
      BY <2>1, AtFacts
    <2>3. storage' = t
      BY <1>1
    <2> HIDE DEF t
    <2> QED  BY <2>2, <2>3
  <1>6. numstorage' \in 0 .. numstorage
    BY <1>1, <1>2, <1>4
  <1>7. numstorage = n => numstorage' = Len(storage')
    BY <1>1, <1>2, <1>4, <1>5
  <1>8. ASSUME NEW k \in DOMAIN storage', NEW l \in DOMAIN storage', k # l
        PROVE  storage'[k].id # storage'[l].id
    <2>1. k \in Int /\ l \in Int
      BY <1>2, <1>4, <1>5
    <2>2. Nth(I, k) \in I /\ Nth(I, l) \in I /\ Nth(I, k) \in Int /\ Nth(I, l) \in Int
      BY <1>2, <1>5, <1>14
    <2>3. k < l \/ l < k
      BY <1>8, <2>1
    <2>4. Nth(I, k) < Nth(I, l) \/ Nth(I, l) < Nth(I, k)
      BY <1>5, <2>3
    <2>5. Nth(I, k) # Nth(I, l)
      BY <2>2, <2>4
    <2>6. storage[Nth(I, k)].id # storage[Nth(I, l)].id
      BY <1>2, <1>14, <2>2, <2>5 DEF ListInv
    <2> QED  BY <1>2, <1>5, <1>14, <2>2, <2>6
  <1>9. \A k \in DOMAIN storage' : Sound(storage'[k])
    BY <1>2, <1>5, <1>14
  <1>10. ListInv'
    BY <1>5, <1>8, <1>9 DEF ListInv, Sound, NoPeerTwice
  <1>11. ASSUME NEW i \in 1 .. n
         PROVE  /\ \A k \in DOMAIN Scanned[i].peers :
                      /\ Fresh(Scanned[i].peers[k])
                      /\ \E l \in DOMAIN storage[i].peers : Scanned[i].peers[k] = storage[i].peers[l]
                /\ \A l \in DOMAIN storage[i].peers : Fresh(storage[i].peers[l]) =>
                      \E k \in DOMAIN Scanned[i].peers : Scanned[i].peers[k] = storage[i].peers[l]
    <2>1. storage[i] \in Rec /\ Sound(storage[i])
      BY <1>2 DEF ListInv
    <2>2. storage[i].peers \in Seq(Stored) /\ NoPeerTwice(storage[i].peers)
      BY <2>1 DEF Rec, Sound
    <2> QED  BY <1>2, <2>2, UnexpiredFacts
  <1>12. ASSUME NEW e \in Entries' PROVE e \in Entries /\ e.time >= now - PeerAge
    <2>1. PICK k \in DOMAIN storage' : \E m \in DOMAIN storage'[k].peers :
              e = [id |-> storage'[k].id, peer |-> storage'[k].peers[m].peer,
                   time |-> storage'[k].peers[m].time]
      BY EntriesDef
    <2> DEFINE i == Nth(I, k)
    <2>2. i \in 1 .. n /\ storage'[k] = Scanned[i] /\ Scanned[i].id = storage[i].id
      BY <1>2, <1>5, <1>14
    <2> HIDE DEF i
    <2>3. PICK m \in DOMAIN Scanned[i].peers :
              e = [id |-> storage[i].id, peer |-> Scanned[i].peers[m].peer,
                   time |-> Scanned[i].peers[m].time]
      BY <2>1, <2>2
    <2>4. PICK l \in DOMAIN storage[i].peers :
              Fresh(Scanned[i].peers[m]) /\ Scanned[i].peers[m] = storage[i].peers[l]
      BY <1>11, <2>2
    <2>5. e = [id |-> storage[i].id, peer |-> storage[i].peers[l].peer,
               time |-> storage[i].peers[l].time]
      BY <2>3, <2>4
    <2>6. e \in Entries
      BY <1>2, <2>2, <2>5, EntriesDef
    <2>7. e.time = Scanned[i].peers[m].time
      BY <2>3
    <2> QED  BY <2>4, <2>6, <2>7 DEF Fresh
  <1>13. ASSUME NEW e \in Entries, e.time >= now - PeerAge PROVE e \in Entries'
    <2>1. PICK i \in 1 .. n : \E l \in DOMAIN storage[i].peers :
              e = [id |-> storage[i].id, peer |-> storage[i].peers[l].peer,
                   time |-> storage[i].peers[l].time]
      BY <1>2, EntriesDef
    <2>2. PICK l \in DOMAIN storage[i].peers :
              e = [id |-> storage[i].id, peer |-> storage[i].peers[l].peer,
                   time |-> storage[i].peers[l].time]
      BY <2>1
    <2>3. Fresh(storage[i].peers[l])
      BY <1>13, <2>2 DEF Fresh
    <2>4. PICK m \in DOMAIN Scanned[i].peers : Scanned[i].peers[m] = storage[i].peers[l]
      BY <1>11, <2>3
    <2>5. Scanned[i].peers # <<>>
      BY <2>4
    <2>6. PICK k \in DOMAIN storage' : Nth(I, k) = i
      BY <1>5, <1>15, <2>5
    <2>7. storage'[k] = Scanned[i] /\ Scanned[i].id = storage[i].id
      BY <1>2, <1>5, <2>6
    <2>8. e = [id |-> storage'[k].id, peer |-> storage'[k].peers[m].peer,
               time |-> storage'[k].peers[m].time] /\ m \in DOMAIN storage'[k].peers
      BY <2>2, <2>4, <2>7
    <2> QED  BY <2>8, EntriesDef
  <1>16. Entries' = {e \in Entries : e.time >= now - PeerAge}
    BY <1>12, <1>13
  <1> QED  BY <1>6, <1>7, <1>10, <1>16 DEF n

(* The array of a record that is full grows, up to the limit. *)
LEMMA GrownFacts ==
    ASSUME NEW max \in 0 .. MaxPeers, max < MaxPeers
    PROVE  Grown(max) \in 0 .. MaxPeers /\ max + 1 <= Grown(max)
  BY DhtNodeAssumption DEF Grown

(* A peer that is stored is refreshed, appended or refused; the others stay. *)
LEMMA AddPeerFacts ==
    ASSUME now \in 0 .. MaxTime, NEW st \in Rec, Sound(st), NEW p \in Peer,
           NEW canGrow \in BOOLEAN
    PROVE  LET new == AddPeer(st, p, canGrow)
           IN  /\ new \in Rec /\ new.id = st.id /\ Sound(new)
               /\ \A k \in DOMAIN st.peers : \E m \in DOMAIN new.peers :
                     /\ new.peers[m].peer = st.peers[k].peer
                     /\ new.peers[m].time \in {st.peers[k].time, now}
               /\ \A m \in DOMAIN new.peers :
                     \/ new.peers[m].time = now
                     \/ \E k \in DOMAIN st.peers : new.peers[m].time = st.peers[k].time
  <1> DEFINE ps == st.peers
             at == {i \in DOMAIN ps : ps[i].peer = p}
             full == Len(ps) >= st.maxpeers
             item == [peer |-> p, time |-> now]
             refreshed == [i \in DOMAIN ps |->
                             IF i \in at THEN [ps[i] EXCEPT !.time = now] ELSE ps[i]]
             new == AddPeer(st, p, canGrow)
  <1>1. /\ ps \in Seq(Stored) /\ Len(ps) \in Nat /\ DOMAIN ps = 1 .. Len(ps)
        /\ st.maxpeers \in 0 .. MaxPeers
    BY DEF Rec
  <1>2. Len(ps) <= st.maxpeers /\ NoPeerTwice(ps)
    BY DEF Sound
  <1>3. item \in Stored
    BY DEF Stored
  <1>4. CASE at # {}
    <2>1. new = [st EXCEPT !.peers = refreshed]
      BY <1>4 DEF AddPeer
    <2>2. ASSUME NEW i \in DOMAIN ps
          PROVE  /\ refreshed[i] \in Stored /\ refreshed[i].peer = ps[i].peer
                 /\ refreshed[i].time \in {ps[i].time, now}
      <3>1. ps[i] \in Stored
        BY <1>1
      <3> QED  BY <3>1 DEF Stored
    <2>3. refreshed \in Seq(Stored) /\ DOMAIN refreshed = DOMAIN ps /\ Len(refreshed) = Len(ps)
      <3>1. DOMAIN refreshed = DOMAIN ps
        OBVIOUS
      <3>2. refreshed = [i \in 1 .. Len(ps) |-> refreshed[i]]
        BY <1>1
      <3> HIDE DEF refreshed
      <3>3. refreshed \in [1 .. Len(ps) -> Stored]
        BY <1>1, <2>2, <3>2
      <3>4. refreshed \in Seq(Stored)
        BY <1>1, <3>3, SeqDef
      <3> QED  BY <1>1, <3>1, <3>4
    <2> HIDE DEF refreshed, new, ps
    <2>4. /\ new \in Rec /\ new.id = st.id /\ new.peers = refreshed
          /\ new.maxpeers = st.maxpeers
      BY <2>1, <2>3 DEF Rec
    <2>5. NoPeerTwice(refreshed)
      BY <1>2, <2>2, <2>3 DEF NoPeerTwice
    <2>6. Sound(new)
      BY <1>2, <2>3, <2>4, <2>5 DEF Sound
    <2> QED  BY <2>2, <2>3, <2>4, <2>6 DEF new, ps
  <1>5. CASE at = {} /\ full /\ (st.maxpeers >= MaxPeers \/ ~ canGrow)
    <2>1. new = st
      BY <1>5 DEF AddPeer
    <2> HIDE DEF new
    <2> QED  BY <2>1 DEF new
  <1>6. CASE at = {} /\ ~ (full /\ (st.maxpeers >= MaxPeers \/ ~ canGrow))
    <2> DEFINE max == IF full THEN Grown(st.maxpeers) ELSE st.maxpeers
               longer == Append(ps, item)
    <2>1. new = [st EXCEPT !.peers = longer, !.maxpeers = max]
      BY <1>6 DEF AddPeer
    <2>2. max \in 0 .. MaxPeers /\ Len(ps) + 1 <= max
      <3>1. CASE full
        <4>1. st.maxpeers < MaxPeers
          BY <1>1, <1>6, <3>1, DhtNodeAssumption
        <4>2. max \in 0 .. MaxPeers /\ st.maxpeers + 1 <= max
          BY <1>1, <3>1, <4>1, GrownFacts
        <4> HIDE DEF max
        <4> QED  BY <1>1, <1>2, <4>2, DhtNodeAssumption
      <3>2. CASE ~ full
        BY <1>1, <3>2, DhtNodeAssumption
      <3> QED  BY <3>1, <3>2
    <2>3. /\ longer \in Seq(Stored) /\ Len(longer) = Len(ps) + 1
          /\ DOMAIN longer = 1 .. Len(ps) + 1
          /\ \A i \in 1 .. Len(ps) : longer[i] = ps[i]
          /\ longer[Len(ps) + 1] = item
      <3> HIDE DEF item, ps
      <3> QED  BY <1>1, <1>3, AppendProperties
    <2> HIDE DEF longer, max, new
    <2>4. /\ new \in Rec /\ new.id = st.id /\ new.peers = longer /\ new.maxpeers = max
      BY <2>1, <2>2, <2>3 DEF Rec
    <2>5. ASSUME NEW k \in DOMAIN longer, NEW l \in DOMAIN longer, k # l
          PROVE  longer[k].peer # longer[l].peer
      <3>1. \A i \in 1 .. Len(ps) : longer[i].peer # p
        BY <1>1, <1>6, <2>3
      <3>2. longer[Len(ps) + 1].peer = p
        BY <2>3
      <3>3. CASE k \in 1 .. Len(ps) /\ l \in 1 .. Len(ps)
        BY <1>1, <1>2, <2>3, <2>5, <3>3 DEF NoPeerTwice
      <3>4. k \in 1 .. Len(ps) \/ k = Len(ps) + 1
        BY <1>1, <2>3
      <3>5. l \in 1 .. Len(ps) \/ l = Len(ps) + 1
        BY <1>1, <2>3
      <3> QED  BY <2>5, <3>1, <3>2, <3>3, <3>4, <3>5
    <2>6. Sound(new)
      BY <2>2, <2>3, <2>4, <2>5 DEF Sound, NoPeerTwice
    <2>7. ASSUME NEW k \in DOMAIN ps PROVE k \in DOMAIN longer /\ longer[k] = ps[k]
      BY <1>1, <2>3
    <2>8. ASSUME NEW m \in DOMAIN longer
          PROVE  longer[m].time = now \/ \E k \in DOMAIN ps : longer[m].time = ps[k].time
      <3>1. m \in 1 .. Len(ps) \/ m = Len(ps) + 1
        BY <1>1, <2>3
      <3> QED  BY <1>1, <2>3, <3>1
    <2> QED  BY <2>4, <2>6, <2>7, <2>8 DEF new
  <1> QED  BY <1>4, <1>5, <1>6

(* find_storage finds the first record of a hash. *)
LEMMA FindStorageFacts ==
    ASSUME ListInv, NEW id
    PROVE  \/ /\ find_storage(id) = 0
              /\ \A i \in DOMAIN storage : storage[i].id # id
           \/ /\ find_storage(id) \in DOMAIN storage
              /\ storage[find_storage(id)].id = id
  <1>1. Places(id) \in SUBSET Nat /\ Places(id) \subseteq DOMAIN storage
    BY DEF Places, ListInv
  <1>2. CASE Places(id) = {}
    BY <1>2 DEF find_storage, Places
  <1>3. CASE Places(id) # {}
    <2>1. \E i \in Places(id) : \A j \in Places(id) : i <= j
      BY <1>1, <1>3, LeastNatural
    <2>2. find_storage(id) = CHOOSE i \in Places(id) : \A j \in Places(id) : i <= j
      BY <1>3 DEF find_storage
    <2>3. find_storage(id) \in Places(id)
      BY <2>1, <2>2
    <2> QED  BY <2>3 DEF Places
  <1> QED  BY <1>2, <1>3

(* Every entry is still there, with its time or with the present one. *)
NothingLost ==
    \A e \in Entries : \E f \in Entries' :
        f.id = e.id /\ f.peer = e.peer /\ f.time \in {e.time, now}

(* Every entry has the time of one that was there, or the present one. *)
NothingOlder == \A f \in Entries' : f.time = now \/ \E e \in Entries : f.time = e.time

(* storage_store keeps the list what it is, loses no entry and makes none older. *)
LEMMA StoreFacts ==
    ASSUME now \in 0 .. MaxTime, ListInv, numstorage \in 0 .. MaxHashes,
           NEW id \in Hash, NEW p \in Peer, storage_store(id, p)
    PROVE  /\ ListInv' /\ NothingLost /\ NothingOlder
           /\ numstorage' \in 0 .. MaxHashes
           /\ numstorage = Len(storage) => numstorage' = Len(storage')
  <1> DEFINE i == find_storage(id)
             n == Len(storage)
             empty == [id |-> id, peers |-> <<>>, maxpeers |-> 0]
  <1>1. storage \in Seq(Rec) /\ n \in Nat /\ DOMAIN storage = 1 .. n
    BY DEF ListInv
  <1>2. \A k \in DOMAIN storage : storage[k] \in Rec /\ Sound(storage[k])
    BY DEF ListInv
  <1>3. CASE UNCHANGED store
    <2>1. UNCHANGED <<storage, numstorage>>
      BY <1>3 DEF store
    <2>2. Entries' = Entries
      BY <2>1 DEF Entries
    <2>3. NothingLost /\ NothingOlder
      BY <2>2 DEF NothingLost, NothingOlder
    <2>4. ListInv'
      BY <2>1 DEF ListInv
    <2> QED  BY <2>1, <2>3, <2>4
  <1>4. ASSUME NEW canGrow \in BOOLEAN, i # 0, UNCHANGED numstorage,
               storage' = [storage EXCEPT ![i] = AddPeer(@, p, canGrow)]
        PROVE  ListInv' /\ NothingLost /\ NothingOlder /\ Len(storage') = Len(storage)
    <2> DEFINE new == AddPeer(storage[i], p, canGrow)
    <2>1. i \in DOMAIN storage
      BY <1>4, FindStorageFacts
    <2>2. /\ new \in Rec /\ new.id = storage[i].id /\ Sound(new)
          /\ \A k \in DOMAIN storage[i].peers : \E m \in DOMAIN new.peers :
                /\ new.peers[m].peer = storage[i].peers[k].peer
                /\ new.peers[m].time \in {storage[i].peers[k].time, now}
          /\ \A m \in DOMAIN new.peers :
                \/ new.peers[m].time = now
                \/ \E k \in DOMAIN storage[i].peers : new.peers[m].time = storage[i].peers[k].time
      BY <1>2, <2>1, AddPeerFacts
    <2>3. storage' = [storage EXCEPT ![i] = new]
      BY <1>4
    <2> HIDE DEF new, i, n
    <2>4. /\ storage' \in Seq(Rec) /\ Len(storage') = Len(storage)
          /\ DOMAIN storage' = DOMAIN storage
          /\ \A k \in DOMAIN storage : storage'[k] = IF k = i THEN new ELSE storage[k]
      BY <1>1, <2>1, <2>2, <2>3, ExceptSeq
    <2>5. ListInv'
      <3>1. \A k \in DOMAIN storage' : storage'[k].id = storage[k].id /\ Sound(storage'[k])
        BY <1>2, <2>2, <2>4
      <3>2. \A k, l \in DOMAIN storage' : k # l => storage'[k].id # storage'[l].id
        BY <2>4, <3>1 DEF ListInv
      <3> QED  BY <2>4, <3>1, <3>2 DEF ListInv, Sound, NoPeerTwice
    <2>6. ASSUME NEW e \in Entries
          PROVE  \E f \in Entries' : f.id = e.id /\ f.peer = e.peer /\ f.time \in {e.time, now}
      <3>1. PICK k \in DOMAIN storage : \E m \in DOMAIN storage[k].peers :
                e = [id |-> storage[k].id, peer |-> storage[k].peers[m].peer,
                     time |-> storage[k].peers[m].time]
        BY EntriesDef
      <3>2. PICK m \in DOMAIN storage[k].peers :
                e = [id |-> storage[k].id, peer |-> storage[k].peers[m].peer,
                     time |-> storage[k].peers[m].time]
        BY <3>1
      <3>3. storage'[k].id = e.id
        BY <2>2, <2>4, <3>2
      <3>4. PICK l \in DOMAIN storage'[k].peers :
                storage'[k].peers[l].peer = e.peer /\ storage'[k].peers[l].time \in {e.time, now}
        BY <2>2, <2>4, <3>2
      <3> DEFINE f == [id |-> storage'[k].id, peer |-> storage'[k].peers[l].peer,
                       time |-> storage'[k].peers[l].time]
      <3>5. f \in Entries'
        BY <2>4, EntriesDef
      <3>6. f.id = e.id /\ f.peer = e.peer /\ f.time \in {e.time, now}
        BY <3>3, <3>4
      <3> HIDE DEF f
      <3> QED  BY <3>5, <3>6
    <2>7. ASSUME NEW f \in Entries'
          PROVE  f.time = now \/ \E e \in Entries : f.time = e.time
      <3>1. PICK k \in DOMAIN storage' : \E m \in DOMAIN storage'[k].peers :
                f = [id |-> storage'[k].id, peer |-> storage'[k].peers[m].peer,
                     time |-> storage'[k].peers[m].time]
        BY EntriesDef
      <3>2. PICK m \in DOMAIN storage'[k].peers : f.time = storage'[k].peers[m].time
        BY <3>1
      <3>3. \/ f.time = now
            \/ \E l \in DOMAIN storage[k].peers : f.time = storage[k].peers[l].time
        BY <2>2, <2>4, <3>2
      <3>4. ASSUME NEW l \in DOMAIN storage[k].peers, f.time = storage[k].peers[l].time
            PROVE  \E e \in Entries : f.time = e.time
        <4> DEFINE e == [id |-> storage[k].id, peer |-> storage[k].peers[l].peer,
                         time |-> storage[k].peers[l].time]
        <4>1. e \in Entries /\ e.time = f.time
          BY <2>4, <3>4, EntriesDef
        <4> QED  BY <4>1
      <3> QED  BY <3>3, <3>4
    <2> QED  BY <2>4, <2>5, <2>6, <2>7 DEF NothingLost, NothingOlder
  <1>5. ASSUME NEW canGrow \in BOOLEAN, i = 0,
               storage' = <<AddPeer(empty, p, canGrow)>> \o storage
        PROVE  ListInv' /\ NothingLost /\ NothingOlder /\ Len(storage') = Len(storage) + 1
    <2> DEFINE new == AddPeer(empty, p, canGrow)
    <2>1. \A k \in DOMAIN storage : storage[k].id # id
      BY <1>5, FindStorageFacts
    <2>2. empty \in Rec /\ Sound(empty)
      <3>1. <<>> \in Seq(Stored) /\ Len(<<>>) = 0 /\ DOMAIN <<>> = {}
        OBVIOUS
      <3>2. 0 \in 0 .. MaxPeers
        BY DhtNodeAssumption
      <3> QED  BY <3>1, <3>2 DEF Rec, Sound, NoPeerTwice
    <2>3. /\ new \in Rec /\ new.id = id /\ Sound(new)
          /\ \A m \in DOMAIN new.peers : new.peers[m].time = now
      <3>1. DOMAIN empty.peers = {} /\ empty.id = id
        OBVIOUS
      <3> HIDE DEF empty
      <3> QED  BY <2>2, <3>1, AddPeerFacts
    <2> HIDE DEF new, i, empty
    <2>4. /\ storage' \in Seq(Rec) /\ Len(storage') = n + 1
          /\ DOMAIN storage' = 1 .. n + 1 /\ storage'[1] = new
          /\ \A k \in 2 .. n + 1 : storage'[k] = storage[k - 1]
      <3>1. storage' = <<new>> \o storage
        BY <1>5 DEF new
      <3>2. <<new>> \in Seq(Rec) /\ Len(<<new>>) = 1 /\ <<new>>[1] = new
        BY <2>3
      <3> QED  BY <1>1, <3>1, <3>2, ConcatProperties
    <2> HIDE DEF n
    <2>5. \A k \in 2 .. n + 1 : k - 1 \in DOMAIN storage
      BY <1>1
    <2>6. ListInv'
      <3>1. ASSUME NEW k \in DOMAIN storage', NEW l \in DOMAIN storage', k # l
            PROVE  storage'[k].id # storage'[l].id
        <4>1. CASE k = 1
          <5>1. l \in 2 .. n + 1
            BY <1>1, <2>4, <3>1, <4>1
          <5>2. storage'[l].id # id
            BY <2>1, <2>4, <2>5, <5>1
          <5> QED  BY <2>3, <2>4, <4>1, <5>2
        <4>2. CASE l = 1
          <5>1. k \in 2 .. n + 1
            BY <1>1, <2>4, <3>1, <4>2
          <5>2. storage'[k].id # id
            BY <2>1, <2>4, <2>5, <5>1
          <5> QED  BY <2>3, <2>4, <4>2, <5>2
        <4>3. CASE k # 1 /\ l # 1
          <5>1. k \in 2 .. n + 1 /\ l \in 2 .. n + 1 /\ k - 1 # l - 1
            BY <1>1, <2>4, <3>1, <4>3
          <5> QED  BY <2>4, <2>5, <5>1 DEF ListInv
        <4> QED  BY <4>1, <4>2, <4>3
      <3>2. ASSUME NEW k \in DOMAIN storage' PROVE Sound(storage'[k])
        <4>1. k = 1 \/ k \in 2 .. n + 1
          BY <1>1, <2>4
        <4> QED  BY <1>2, <2>3, <2>4, <2>5, <4>1
      <3> QED  BY <2>4, <3>1, <3>2 DEF ListInv, Sound, NoPeerTwice
    <2>7. ASSUME NEW e \in Entries
          PROVE  \E f \in Entries' : f.id = e.id /\ f.peer = e.peer /\ f.time \in {e.time, now}
      <3>1. PICK k \in DOMAIN storage : \E m \in DOMAIN storage[k].peers :
                e = [id |-> storage[k].id, peer |-> storage[k].peers[m].peer,
                     time |-> storage[k].peers[m].time]
        BY EntriesDef
      <3>2. k + 1 \in DOMAIN storage' /\ storage'[k + 1] = storage[k]
        <4>1. k + 1 \in 2 .. n + 1 /\ (k + 1) - 1 = k /\ k + 1 \in 1 .. n + 1
          BY <1>1
        <4> QED  BY <2>4, <4>1
      <3>3. e \in Entries'
        BY <3>1, <3>2, EntriesDef
      <3> QED  BY <3>3
    <2>8. ASSUME NEW f \in Entries'
          PROVE  f.time = now \/ f \in Entries
      <3>1. PICK k \in DOMAIN storage' : \E m \in DOMAIN storage'[k].peers :
                f = [id |-> storage'[k].id, peer |-> storage'[k].peers[m].peer,
                     time |-> storage'[k].peers[m].time]
        BY EntriesDef
      <3>2. k = 1 \/ k \in 2 .. n + 1
        BY <1>1, <2>4
      <3>3. CASE k = 1
        BY <2>3, <2>4, <3>1, <3>3
      <3>4. CASE k \in 2 .. n + 1
        BY <2>4, <2>5, <3>1, <3>4, EntriesDef
      <3> QED  BY <3>2, <3>3, <3>4
    <2> QED  BY <2>4, <2>6, <2>7, <2>8 DEF NothingLost, NothingOlder, n
  <1> HIDE DEF i, empty
  <1>6. \/ UNCHANGED store
        \/ \E canGrow \in BOOLEAN :
              /\ i # 0 /\ UNCHANGED numstorage
              /\ storage' = [storage EXCEPT ![i] = AddPeer(@, p, canGrow)]
        \/ \E canGrow \in BOOLEAN :
              /\ i = 0 /\ numstorage < MaxHashes /\ numstorage' = numstorage + 1
              /\ storage' = <<AddPeer(empty, p, canGrow)>> \o storage
    BY DEF storage_store, i, empty
  <1>7. CASE \E canGrow \in BOOLEAN :
              /\ i # 0 /\ UNCHANGED numstorage
              /\ storage' = [storage EXCEPT ![i] = AddPeer(@, p, canGrow)]
    BY <1>4, <1>7
  <1>8. CASE \E canGrow \in BOOLEAN :
              /\ i = 0 /\ numstorage < MaxHashes /\ numstorage' = numstorage + 1
              /\ storage' = <<AddPeer(empty, p, canGrow)>> \o storage
    <2>1. ListInv' /\ NothingLost /\ NothingOlder /\ Len(storage') = Len(storage) + 1
      BY <1>5, <1>8
    <2>2. numstorage' \in 0 .. MaxHashes /\ numstorage' = numstorage + 1
      BY <1>8, DhtNodeAssumption
    <2> QED  BY <2>1, <2>2
  <1> QED  BY <1>3, <1>6, <1>7, <1>8

-----------------------------------------------------------------------------
(* The invariants *)

(* The sockets stay set once dht_init has succeeded: that is why no list and no *)
(* token is ever left behind by a later dht_init.                               *)
LifeInv ==
    /\ phase = "up" => sockets # {}
    /\ issued # {} => sockets # {}

(* The token last given out was made with the secret of that time.  It is still *)
(* the secret, or the old one until a rotation that is due RotateWait after it, *)
(* or its time is over; and secrets drawn later are greater.                    *)
TokenInv ==
    \A i \in issued :
        /\ i.time \in 0 .. now /\ i.draw \in 0 .. drawn
        /\ i.token = make_token(i.token.peer, i.token.secret) /\ i.token.secret \in 0 .. i.draw
        /\ \/ i.token.secret = secret
           \/ i.token.secret = oldsecret /\ i.time + RotateWait <= rotate_secrets_time
           \/ i.time + RotateWait <= now
        /\ drawn > i.draw => secret > i.draw
        /\ drawn > i.draw + 1 => oldsecret > i.draw

(* The next sweep is never too far ahead, and no peer is so old that it will be much *)
(* older than its age when it comes.                                                 *)
SweepInv ==
    phase = "up" =>
        /\ expire_stuff_time < now + ExpireWait + ExpireSpan
        /\ \A e \in Entries : expire_stuff_time < e.time + PeerAge + ExpireWait + ExpireSpan

(* The inductive invariant. *)
IInv ==
    /\ TypeOK /\ ListInv
    /\ phase = "up" => numstorage = Len(storage)
    /\ LifeInv /\ InitLosesNothing
    /\ TokenInv /\ SweepInv

(* The assumptions as the provers need them. *)
LEMMA Sizes ==
    /\ MaxHashes \in Nat /\ MaxPeers \in Nat /\ PeerAge \in Nat /\ RotateWait \in Nat
    /\ ExpireWait \in Nat /\ RotateSpan \in Nat /\ ExpireSpan \in Nat /\ MaxTime \in Nat
    /\ RotateWait > 0 /\ ExpireWait > 0 /\ MaxDraws \in Nat
  BY DhtNodeAssumption

(* A rotation puts the next one off, and keeps or draws a secret. *)
LEMMA RotateFacts ==
    ASSUME now \in 0 .. MaxTime, drawn \in Nat, NEW current \in 0 .. drawn, NEW ok \in BOOLEAN,
           Rotate(current, ok)
    PROVE  /\ rotate_secrets_time' \in Nat /\ now + RotateWait <= rotate_secrets_time'
           /\ drawn' \in Nat /\ drawn <= drawn' /\ secret' \in 0 .. drawn'
           /\ oldsecret' = current /\ oldsecret' \in 0 .. drawn'
           /\ \/ secret' = drawn + 1 /\ drawn' = drawn + 1
              \/ secret' = current /\ drawn' = drawn
  <1>1. PICK r \in 0 .. RotateSpan - 1 : rotate_secrets_time' = now + RotateWait + r
    BY DEF Rotate
  <1>2. rotate_secrets_time' \in Nat /\ now + RotateWait <= rotate_secrets_time'
    BY <1>1, Sizes
  <1>3. oldsecret' = current
    BY DEF Rotate
  <1>4. \/ secret' = drawn + 1 /\ drawn' = drawn + 1
        \/ secret' = current /\ drawn' = drawn
    BY DEF Rotate
  <1> QED  BY <1>2, <1>3, <1>4

(* A step that leaves the list alone leaves what is said of it alone. *)
LEMMA ListUnchanged ==
    ASSUME UNCHANGED storage
    PROVE  (ListInv => ListInv') /\ Entries' = Entries
  BY DEF ListInv, Entries

(* The empty list. *)
LEMMA EmptyList ==
    /\ storage = <<>> => ListInv /\ Len(storage) = 0
    /\ storage' = <<>> => ListInv' /\ Len(storage') = 0
  <1>1. <<>> \in Seq(Rec) /\ DOMAIN <<>> = {} /\ Len(<<>>) = 0
    OBVIOUS
  <1> QED  BY <1>1 DEF ListInv

(* The times of the entries. *)
LEMMA EntryTimes ==
    ASSUME ListInv
    PROVE  \A e \in Entries : e.time \in 0 .. MaxTime
  <1>1. ASSUME NEW i \in DOMAIN storage, NEW k \in DOMAIN storage[i].peers
        PROVE  storage[i].peers[k].time \in 0 .. MaxTime
    <2>0. storage[i] \in Rec
      BY DEF ListInv
    <2>1. storage[i].peers \in Seq(Stored)
      BY <2>0 DEF Rec
    <2>2. storage[i].peers[k] \in Stored
      BY <2>1
    <2> QED  BY <2>2 DEF Stored
  <1> QED  BY <1>1, EntriesDef

(* The steps that leave the lists, the secrets and the timers alone. *)
LEMMA OthersKeep ==
    ASSUME IInv, StartSearch \/ Tick \/ UNCHANGED vars
    PROVE  IInv'
  <1>0. TypeOK /\ ListInv
    BY DEF IInv
  <1>1. /\ UNCHANGED <<sockets, tables, phase, secret, oldsecret, drawn, issued,
                       rotate_secrets_time, expire_stuff_time, storage, numstorage>>
        /\ now' \in 0 .. MaxTime /\ now <= now'
        /\ searches' = searches \/ (phase = "up" /\ searches' = TRUE)
    <2>1. now \in 0 .. MaxTime
      BY <1>0 DEF TypeOK
    <2> QED  BY <2>1, Sizes DEF StartSearch, Tick, vars, timers, store, secrets, life
  <1>2. TypeOK'
    BY <1>0, <1>1 DEF TypeOK
  <1>3. LifeInv' /\ InitLosesNothing'
    BY <1>0, <1>1 DEF LifeInv, InitLosesNothing, Busy, IInv
  <1>6. SweepInv'
    <2>1. now \in Int /\ now' \in Int /\ expire_stuff_time \in Int
      BY <1>0, <1>1, Sizes DEF TypeOK
    <2>2. expire_stuff_time < now + ExpireWait + ExpireSpan
            => expire_stuff_time < now' + ExpireWait + ExpireSpan
      <3>1. now <= now'
        BY <1>1
      <3>2. \A w, s, x, m, n \in Int : m <= n /\ x < m + w + s => x < n + w + s
        OBVIOUS
      <3>3. ExpireWait \in Int /\ ExpireSpan \in Int
        BY Sizes
      <3> QED  BY <2>1, <3>1, <3>2, <3>3
    <2>3. Entries' = Entries
      BY <1>1, ListUnchanged
    <2> QED  BY <1>1, <2>2, <2>3 DEF SweepInv, IInv
  <1>4. TokenInv'
    <2>1. ASSUME NEW i \in issued
          PROVE  /\ i.time \in 0 .. now'
                 /\ i.time + RotateWait <= now => i.time + RotateWait <= now'
      <3>1. i.time \in 0 .. now /\ now \in Int /\ now' \in Int
        BY <1>0, <1>1, Sizes DEF IInv, TokenInv, TypeOK
      <3> QED  BY <1>1, <3>1, Sizes
    <2> QED  BY <1>1, <2>1 DEF IInv, TokenInv
  <1>5. ListInv'
    BY <1>0, <1>1, ListUnchanged
  <1> QED  BY <1>1, <1>2, <1>3, <1>4, <1>5, <1>6 DEF IInv

(* dht_init, whatever comes of it. *)
LEMMA InitKeeps ==
    ASSUME IInv, NEW fams \in (SUBSET {4, 6}) \ {{}}, dht_init(fams)
    PROVE  IInv'
  <1> USE DEF ForgetLists
  <1>0. fams \subseteq {4, 6} /\ fams # {} /\ TypeOK /\ ListInv
    BY DEF IInv
  <1>1. CASE InitBusy
    BY <1>1, OthersKeep DEF InitBusy
  <1>2. CASE InitFailsEarly(fams) \/ InitFailsLate(fams) \/ InitSucceeds(fams)
    <2>1. /\ ~ Busy /\ UNCHANGED <<now, issued>>
          /\ searches' = FALSE /\ storage' = <<>> /\ numstorage' = 0
      BY <1>2 DEF InitFailsEarly, InitFailsLate, InitSucceeds
    <2>2. sockets = {} /\ tables = {} /\ issued = {} /\ phase # "up"
      BY <2>1 DEF Busy, IInv, LifeInv
    <2>3. ListInv' /\ Len(storage') = 0
      BY <2>1, EmptyList
    <2>4. InitLosesNothing'
      BY <2>1 DEF InitLosesNothing
    <2>5. TokenInv'
      BY <2>1, <2>2 DEF TokenInv
    <2>7. /\ \/ UNCHANGED <<secret, oldsecret, drawn, rotate_secrets_time>>
             \/ Rotate(0, FALSE) \/ Rotate(0, TRUE)
          /\ \/ UNCHANGED expire_stuff_time
             \/ expire_stuff_time' \in {now + ExpireWait + r : r \in 0 .. ExpireSpan - 1}
          /\ \/ phase' = phase /\ sockets' = {}
             \/ /\ phase' = "up" /\ sockets' = fams
                /\ expire_stuff_time' \in {now + ExpireWait + r : r \in 0 .. ExpireSpan - 1}
      BY <1>2, <2>2 DEF InitFailsEarly, InitFailsLate, InitSucceeds, secrets, timers
    <2>8. /\ rotate_secrets_time' \in Nat /\ drawn' \in Nat
          /\ secret' \in 0 .. drawn' /\ oldsecret' \in 0 .. drawn'
      <3>1. now \in 0 .. MaxTime /\ drawn \in Nat /\ 0 \in 0 .. drawn
        BY <1>0 DEF TypeOK
      <3>2. ASSUME NEW ok \in BOOLEAN, Rotate(0, ok)
            PROVE  /\ rotate_secrets_time' \in Nat /\ drawn' \in Nat
                   /\ secret' \in 0 .. drawn' /\ oldsecret' \in 0 .. drawn'
        BY <3>1, <3>2, RotateFacts
      <3>3. CASE UNCHANGED <<secret, oldsecret, drawn, rotate_secrets_time>>
        BY <1>0, <3>3 DEF TypeOK
      <3> QED  BY <2>7, <3>2, <3>3
    <2>9. expire_stuff_time' \in Nat
      BY <1>0, <2>7, Sizes DEF TypeOK
    <2>10. tables' \subseteq {4, 6}
      BY <1>0, <1>2, <2>2 DEF InitFailsEarly, InitFailsLate, InitSucceeds
    <2>11. TypeOK'
      <3>1. 0 \in 0 .. MaxHashes
        BY Sizes
      <3>2. storage' \in Seq([id : Hash, peers : Seq(Stored), maxpeers : 0 .. MaxPeers])
        BY <2>3 DEF ListInv, Rec
      <3>3. /\ now' \in 0 .. MaxTime /\ numstorage' \in 0 .. MaxHashes /\ searches' \in BOOLEAN
            /\ phase' \in {"off", "up", "down", "freed"} /\ sockets' \subseteq {4, 6}
        BY <1>0, <2>1, <2>7, <3>1 DEF TypeOK
      <3> QED  BY <2>8, <2>9, <2>10, <3>2, <3>3 DEF TypeOK
    <2>12. LifeInv'
      BY <1>0, <2>1, <2>2, <2>7 DEF LifeInv
    <2>13. SweepInv'
      <3>1. Entries' = {}
        BY <2>1 DEF Entries
      <3>2. phase' = "up" => expire_stuff_time' < now + ExpireWait + ExpireSpan
        <4>1. now \in Int
          BY <1>0, Sizes DEF TypeOK
        <4> QED  BY <2>2, <2>7, <4>1, Sizes
      <3> QED  BY <2>1, <3>1, <3>2 DEF SweepInv
    <2> QED  BY <2>1, <2>3, <2>4, <2>5, <2>11, <2>12, <2>13 DEF IInv
  <1> QED  BY <1>1, <1>2 DEF dht_init

(* dht_uninit, with and without dofree. *)
LEMMA UninitKeeps ==
    ASSUME IInv, NEW dofree \in BOOLEAN, dht_uninit(dofree)
    PROVE  IInv'
  <1>0. TypeOK /\ ListInv /\ InitLosesNothing /\ LifeInv
    BY DEF IInv
  <1>1. /\ phase' \in {"freed", "down"}
        /\ UNCHANGED <<now, secret, oldsecret, drawn, rotate_secrets_time, expire_stuff_time,
                       sockets, issued, numstorage>>
        /\ \/ UNCHANGED <<tables, searches, storage>>
           \/ 4 \in sockets /\ tables' = tables \ {4} /\ searches' = FALSE /\ storage' = <<>>
    BY DEF dht_uninit, store, timers, secrets
  <1>2. ListInv'
    BY <1>0, <1>1, ListUnchanged, EmptyList
  <1>3. TypeOK'
    <2>1. storage' \in Seq([id : Hash, peers : Seq(Stored), maxpeers : 0 .. MaxPeers])
      BY <1>2 DEF ListInv, Rec
    <2>2. tables' \subseteq {4, 6} /\ searches' \in BOOLEAN
      BY <1>0, <1>1 DEF TypeOK
    <2> QED  BY <1>0, <1>1, <2>1, <2>2 DEF TypeOK
  <1>4. LifeInv' /\ InitLosesNothing' /\ SweepInv'
    BY <1>0, <1>1 DEF LifeInv, InitLosesNothing, SweepInv, Busy
  <1>5. TokenInv'
    BY <1>1 DEF IInv, TokenInv
  <1> QED  BY <1>1, <1>2, <1>3, <1>4, <1>5 DEF IInv

(* storage_store. *)
LEMMA StoreKeeps ==
    ASSUME IInv, NEW id \in Hash, NEW p \in Peer, storage_store(id, p)
    PROVE  IInv'
  <1>0. TypeOK /\ ListInv /\ phase = "up" /\ numstorage = Len(storage) /\ sockets # {}
    BY DEF IInv, LifeInv, storage_store
  <1>1. UNCHANGED <<now, sockets, tables, phase, searches, secret, oldsecret, drawn,
                    rotate_secrets_time, expire_stuff_time, issued>>
    BY DEF storage_store, timers, secrets, life
  <1>2. now \in 0 .. MaxTime /\ numstorage \in 0 .. MaxHashes
    BY <1>0 DEF TypeOK
  <1>3. ListInv' /\ numstorage' \in 0 .. MaxHashes /\ numstorage' = Len(storage') /\ NothingOlder
    BY <1>0, <1>2, StoreFacts
  <1>4. TypeOK'
    <2>1. storage' \in Seq([id : Hash, peers : Seq(Stored), maxpeers : 0 .. MaxPeers])
      BY <1>3 DEF ListInv, Rec
    <2> QED  BY <1>0, <1>1, <1>3, <2>1 DEF TypeOK
  <1>5. LifeInv' /\ InitLosesNothing'
    BY <1>0, <1>1 DEF LifeInv, InitLosesNothing, Busy, IInv
  <1>6. TokenInv'
    BY <1>1 DEF IInv, TokenInv
  <1>7. SweepInv'
    <2>1. /\ expire_stuff_time < now + ExpireWait + ExpireSpan
          /\ \A e \in Entries : expire_stuff_time < e.time + PeerAge + ExpireWait + ExpireSpan
      BY <1>0 DEF IInv, SweepInv
    <2>2. expire_stuff_time < now + PeerAge + ExpireWait + ExpireSpan
      <3>1. expire_stuff_time \in Int /\ now \in Int
        BY <1>0, Sizes DEF TypeOK
      <3> QED  BY <2>1, <3>1, Sizes
    <2>3. \A f \in Entries' : expire_stuff_time < f.time + PeerAge + ExpireWait + ExpireSpan
      BY <1>3, <2>1, <2>2 DEF NothingOlder
    <2> QED  BY <1>1, <2>1, <2>3 DEF SweepInv
  <1> QED  BY <1>3, <1>4, <1>5, <1>6, <1>7 DEF IInv

(* make_token. *)
LEMMA GiveTokenKeeps ==
    ASSUME IInv, NEW p \in Peer, GiveToken(p)
    PROVE  IInv'
  <1>0. TypeOK /\ ListInv /\ phase = "up" /\ numstorage = Len(storage) /\ sockets # {}
    BY DEF IInv, LifeInv, GiveToken
  <1>1. /\ UNCHANGED <<now, sockets, tables, phase, searches, secret, oldsecret, drawn,
                       rotate_secrets_time, expire_stuff_time, storage, numstorage>>
        /\ issued' = {[token |-> make_token(p, secret), time |-> now, draw |-> drawn]}
    BY DEF GiveToken, timers, secrets, life, store
  <1>2. TypeOK'
    BY <1>0, <1>1 DEF TypeOK
  <1>3. LifeInv' /\ InitLosesNothing'
    BY <1>0, <1>1 DEF LifeInv, InitLosesNothing, Busy, IInv
  <1>6. SweepInv'
    BY <1>1, ListUnchanged DEF SweepInv, IInv
  <1>4. TokenInv'
    <2>1. now \in 0 .. now /\ drawn \in 0 .. drawn /\ secret \in 0 .. drawn /\ drawn \in Nat
      BY <1>0 DEF TypeOK
    <2> DEFINE i == [token |-> make_token(p, secret), time |-> now, draw |-> drawn]
    <2>2. /\ i.time = now /\ i.draw = drawn /\ i.token.secret = secret
          /\ i.token = make_token(i.token.peer, i.token.secret)
      BY DEF make_token
    <2>3. issued' = {i}
      BY <1>1
    <2> HIDE DEF i
    <2> QED  BY <1>1, <2>1, <2>2, <2>3 DEF TokenInv
  <1>5. ListInv'
    BY <1>0, <1>1, ListUnchanged
  <1> QED  BY <1>0, <1>1, <1>2, <1>3, <1>4, <1>5, <1>6 DEF IInv

(* dht_periodic: rotation and expiration, each when it is due. *)
LEMMA PeriodicKeeps ==
    ASSUME IInv, dht_periodic
    PROVE  IInv'
  <1>0. TypeOK /\ ListInv /\ phase = "up" /\ numstorage = Len(storage) /\ sockets # {}
    BY DEF IInv, LifeInv, dht_periodic
  <1>1. /\ UNCHANGED <<now, sockets, tables, phase, issued>>
        /\ searches' \in {searches, FALSE}
    BY DEF dht_periodic, life
  <1>2. now \in 0 .. MaxTime /\ now \in Int /\ numstorage \in 0 .. MaxHashes /\ drawn \in Nat
          /\ secret \in 0 .. drawn /\ oldsecret \in 0 .. drawn
          /\ rotate_secrets_time \in Nat /\ expire_stuff_time \in Nat
    BY <1>0, Sizes DEF TypeOK
  <1>3. \/ expire_storage /\ expire_stuff_time' \in {now + ExpireWait + r : r \in 0 .. ExpireSpan - 1}
        \/ UNCHANGED <<storage, numstorage, expire_stuff_time>>
    BY DEF dht_periodic, store
  <1>4. ListInv' /\ numstorage' \in 0 .. MaxHashes /\ numstorage' = Len(storage')
    <2>1. CASE expire_storage
      <3>1. ListInv' /\ numstorage' \in 0 .. numstorage /\ numstorage' = Len(storage')
        BY <1>0, <1>2, <2>1, ExpireFacts
      <3> QED  BY <1>2, <3>1, Sizes
    <2>2. CASE UNCHANGED <<storage, numstorage, expire_stuff_time>>
      BY <1>0, <1>2, <2>2, ListUnchanged
    <2> QED  BY <1>3, <2>1, <2>2
  <1>5. expire_stuff_time' \in Nat
    BY <1>2, <1>3, Sizes
  <1>6. \/ UNCHANGED <<secret, oldsecret, drawn, rotate_secrets_time>>
        \/ /\ now >= rotate_secrets_time
           /\ rotate_secrets_time' \in Nat /\ now + RotateWait <= rotate_secrets_time'
           /\ drawn' \in Nat /\ drawn <= drawn' /\ secret' \in 0 .. drawn'
           /\ oldsecret' = secret /\ oldsecret' \in 0 .. drawn'
           /\ \/ secret' = drawn + 1 /\ drawn' = drawn + 1
              \/ secret' = secret /\ drawn' = drawn
    <2>1. ASSUME NEW ok \in BOOLEAN, now >= rotate_secrets_time, Rotate(secret, ok)
          PROVE  /\ rotate_secrets_time' \in Nat /\ now + RotateWait <= rotate_secrets_time'
                 /\ drawn' \in Nat /\ drawn <= drawn' /\ secret' \in 0 .. drawn'
                 /\ oldsecret' = secret /\ oldsecret' \in 0 .. drawn'
                 /\ \/ secret' = drawn + 1 /\ drawn' = drawn + 1
                    \/ secret' = secret /\ drawn' = drawn
      BY <1>2, <2>1, RotateFacts
    <2>2. \/ now >= rotate_secrets_time /\ \E ok \in BOOLEAN : Rotate(secret, ok)
          \/ UNCHANGED <<secret, oldsecret, drawn, rotate_secrets_time>>
      BY DEF dht_periodic, secrets
    <2> QED  BY <2>1, <2>2
  <1>7. TypeOK'
    <2>1. storage' \in Seq([id : Hash, peers : Seq(Stored), maxpeers : 0 .. MaxPeers])
      BY <1>4 DEF ListInv, Rec
    <2>2. /\ drawn' \in Nat /\ secret' \in 0 .. drawn' /\ oldsecret' \in 0 .. drawn'
          /\ rotate_secrets_time' \in Nat
      BY <1>2, <1>6
    <2>3. /\ now' \in 0 .. MaxTime /\ sockets' \subseteq {4, 6} /\ tables' \subseteq {4, 6}
          /\ searches' \in BOOLEAN /\ phase' \in {"off", "up", "down", "freed"}
      BY <1>0, <1>1 DEF TypeOK
    <2> QED  BY <1>4, <1>5, <2>1, <2>2, <2>3 DEF TypeOK
  <1>8. LifeInv' /\ InitLosesNothing'
    BY <1>0, <1>1 DEF LifeInv, InitLosesNothing, Busy, IInv
  <1>10. SweepInv'
    <2>1. CASE /\ expire_storage
               /\ expire_stuff_time' \in {now + ExpireWait + r : r \in 0 .. ExpireSpan - 1}
      <3>1. Entries' = {e \in Entries : e.time >= now - PeerAge}
        BY <1>0, <1>2, <2>1, ExpireFacts
      <3>2. expire_stuff_time' \in Int /\ expire_stuff_time' < now + ExpireWait + ExpireSpan
        BY <1>2, <2>1, Sizes
      <3>3. ASSUME NEW e \in Entries'
            PROVE  expire_stuff_time' < e.time + PeerAge + ExpireWait + ExpireSpan
        <4>1. e \in Entries /\ e.time >= now - PeerAge
          BY <3>1
        <4>2. e.time \in Int
          BY <1>0, <4>1, EntryTimes, Sizes
        <4> QED  BY <1>2, <3>2, <4>1, <4>2, Sizes
      <3> QED  BY <1>1, <3>2, <3>3 DEF SweepInv
    <2>2. CASE UNCHANGED <<storage, numstorage, expire_stuff_time>>
      BY <1>1, <2>2, ListUnchanged DEF SweepInv, IInv
    <2> QED  BY <1>3, <2>1, <2>2
  <1>9. TokenInv'
    <2>1. ASSUME NEW i \in issued
          PROVE  /\ i.time \in 0 .. now /\ i.draw \in 0 .. drawn'
                 /\ i.token = make_token(i.token.peer, i.token.secret)
                 /\ i.token.secret \in 0 .. i.draw
                 /\ \/ i.token.secret = secret'
                    \/ i.token.secret = oldsecret' /\ i.time + RotateWait <= rotate_secrets_time'
                    \/ i.time + RotateWait <= now
                 /\ drawn' > i.draw => secret' > i.draw
                 /\ drawn' > i.draw + 1 => oldsecret' > i.draw
      <3>1. /\ i.time \in 0 .. now /\ i.draw \in 0 .. drawn
            /\ i.token = make_token(i.token.peer, i.token.secret) /\ i.token.secret \in 0 .. i.draw
            /\ \/ i.token.secret = secret
               \/ i.token.secret = oldsecret /\ i.time + RotateWait <= rotate_secrets_time
               \/ i.time + RotateWait <= now
            /\ drawn > i.draw => secret > i.draw
            /\ drawn > i.draw + 1 => oldsecret > i.draw
        BY DEF IInv, TokenInv
      <3>2. CASE UNCHANGED <<secret, oldsecret, drawn, rotate_secrets_time>>
        BY <3>1, <3>2
      <3>3. CASE ~ UNCHANGED <<secret, oldsecret, drawn, rotate_secrets_time>>
        <4>1. /\ now >= rotate_secrets_time
              /\ rotate_secrets_time' \in Nat /\ now + RotateWait <= rotate_secrets_time'
              /\ drawn' \in Nat /\ drawn <= drawn' /\ oldsecret' = secret
              /\ \/ secret' = drawn + 1 /\ drawn' = drawn + 1
                 \/ secret' = secret /\ drawn' = drawn
          BY <1>6, <3>3
        <4>2. \/ i.token.secret = oldsecret' /\ i.time + RotateWait <= rotate_secrets_time'
              \/ i.time + RotateWait <= now
          BY <1>2, <3>1, <4>1, Sizes
        <4>3. i.draw \in 0 .. drawn' /\ (drawn' > i.draw => secret' > i.draw)
                /\ (drawn' > i.draw + 1 => oldsecret' > i.draw)
          BY <1>2, <3>1, <4>1
        <4> QED  BY <3>1, <4>2, <4>3
      <3> QED  BY <3>2, <3>3
    <2> QED  BY <1>1, <2>1 DEF TokenInv
  <1> QED  BY <1>4, <1>7, <1>8, <1>9, <1>10 DEF IInv

(* The invariant is inductive. *)
LEMMA Inductive == IInv /\ [Next]_vars => IInv'
  BY InitKeeps, UninitKeeps, StoreKeeps, GiveTokenKeeps, PeriodicKeeps, OthersKeep DEF Next

(* It holds in every state. *)
LEMMA Always == Spec => []IInv
  <1>1. Init => IInv
    <2> SUFFICES ASSUME Init PROVE IInv
      OBVIOUS
    <2> USE DEF Init
    <2>1. ListInv /\ Len(storage) = 0
      BY EmptyList
    <2>2. TypeOK
      <3>1. storage \in Seq([id : Hash, peers : Seq(Stored), maxpeers : 0 .. MaxPeers])
        BY <2>1 DEF ListInv, Rec
      <3>2. now \in 0 .. MaxTime /\ numstorage \in 0 .. MaxHashes
        BY Sizes
      <3>3. drawn \in Nat /\ secret \in 0 .. drawn /\ oldsecret \in 0 .. drawn
              /\ rotate_secrets_time \in Nat /\ expire_stuff_time \in Nat
        OBVIOUS
      <3>4. /\ sockets \subseteq {4, 6} /\ tables \subseteq {4, 6}
            /\ phase \in {"off", "up", "down", "freed"}
        OBVIOUS
      <3>5. searches \in BOOLEAN
        OBVIOUS
      <3> HIDE DEF Init
      <3> QED  BY <3>1, <3>2, <3>3, <3>4, <3>5 DEF TypeOK
    <2>3. LifeInv /\ InitLosesNothing /\ TokenInv /\ SweepInv
      BY DEF LifeInv, InitLosesNothing, TokenInv, SweepInv, Busy
    <2> QED  BY <2>1, <2>2, <2>3 DEF IInv
  <1> QED  BY <1>1, Inductive, PTL DEF Spec

-----------------------------------------------------------------------------
(* The theorems *)

(* The globals of dht.c have their types, the limits on hashes and peers included. *)
THEOREM TypeCorrect == Spec => []TypeOK
  <1>1. IInv => TypeOK
    BY DEF IInv
  <1> QED  BY <1>1, Always, PTL

(* numstorage is the number of records; no hash has two records, no peer is twice *)
(* in one, and no array is fuller than its size.                                  *)
THEOREM StorageConsistentTheorem == Spec => []StorageConsistent
  <1>1. IInv => StorageConsistent
    <2> SUFFICES ASSUME IInv PROVE StorageConsistent
      OBVIOUS
    <2>1. ASSUME NEW i \in DOMAIN storage
          PROVE  /\ Len(storage[i].peers) <= storage[i].maxpeers /\ storage[i].maxpeers <= MaxPeers
                 /\ \A k, l \in DOMAIN storage[i].peers :
                       k # l => storage[i].peers[k].peer # storage[i].peers[l].peer
      <3>1. storage[i] \in Rec /\ Sound(storage[i])
        BY DEF IInv, ListInv
      <3>2. storage[i].maxpeers <= MaxPeers
        BY <3>1, Sizes DEF Rec
      <3> QED  BY <3>1, <3>2 DEF Sound, NoPeerTwice
    <2> QED  BY <2>1 DEF IInv, ListInv, StorageConsistent
  <1> QED  BY <1>1, Always, PTL

(* A token is accepted for the shortest time between two rotations, and refused *)
(* once two secrets have been drawn after it was given.                         *)
THEOREM TokenWindowTheorem == Spec => []TokenWindow
  <1>1. IInv => TokenWindow
    <2> SUFFICES ASSUME IInv, NEW i \in issued
                 PROVE  /\ now < i.time + RotateWait => token_match(i.token, i.token.peer)
                        /\ drawn >= i.draw + 2 => ~ token_match(i.token, i.token.peer)
      BY DEF TokenWindow
    <2>1. /\ i.time \in 0 .. now /\ i.draw \in 0 .. drawn
          /\ i.token = make_token(i.token.peer, i.token.secret) /\ i.token.secret \in 0 .. i.draw
          /\ \/ i.token.secret = secret
             \/ i.token.secret = oldsecret /\ i.time + RotateWait <= rotate_secrets_time
             \/ i.time + RotateWait <= now
          /\ drawn > i.draw => secret > i.draw
          /\ drawn > i.draw + 1 => oldsecret > i.draw
      BY DEF IInv, TokenInv
    <2>2. now \in Nat /\ drawn \in Nat /\ secret \in Nat /\ oldsecret \in Nat
      BY Sizes DEF IInv, TypeOK
    <2>3. ASSUME now < i.time + RotateWait PROVE token_match(i.token, i.token.peer)
      <3>1. i.token.secret = secret \/ i.token.secret = oldsecret
        BY <2>1, <2>2, <2>3, Sizes
      <3> QED  BY <2>1, <3>1 DEF token_match
    <2>4. ASSUME drawn >= i.draw + 2 PROVE ~ token_match(i.token, i.token.peer)
      <3>1. i.token.secret # secret /\ i.token.secret # oldsecret
        BY <2>1, <2>2, <2>4
      <3>2. \A s : make_token(i.token.peer, s).secret = s
        BY DEF make_token
      <3> QED  BY <3>1, <3>2 DEF token_match
    <2> QED  BY <2>3, <2>4
  <1> QED  BY <1>1, Always, PTL

(* Whenever dht_init may get past its test for EBUSY, the lists it overwrites *)
(* hold nothing.                                                              *)
THEOREM InitLosesNothingTheorem == Spec => []InitLosesNothing
  <1>1. IInv => InitLosesNothing
    BY DEF IInv
  <1> QED  BY <1>1, Always, PTL

(* For any ages and waiting times: a stored peer outlives its age by less than the *)
(* longest time between two sweeps, unless a sweep is overdue.                     *)
THEOREM PeersLeaveInTimeTheorem == Spec => []PeersLeaveInTime
  <1>1. IInv => PeersLeaveInTime
    <2> SUFFICES ASSUME IInv, phase = "up", now <= expire_stuff_time, NEW e \in Entries
                 PROVE  now - e.time < PeerAge + ExpireWait + ExpireSpan
      BY DEF PeersLeaveInTime
    <2>1. expire_stuff_time < e.time + PeerAge + ExpireWait + ExpireSpan
      BY DEF IInv, SweepInv
    <2>2. now \in Int /\ expire_stuff_time \in Int /\ e.time \in Int
      BY EntryTimes, Sizes DEF IInv, TypeOK
    <2> QED  BY <2>1, <2>2, Sizes
  <1> QED  BY <1>1, Always, PTL

(* Expiration drops exactly the peers that are too old, and between two of them *)
(* a stored peer is only ever refreshed.                                        *)
THEOREM PeersExpireExactlyTheorem == Spec => PeersExpireExactly
  <1> DEFINE swept == expire_stuff_time' # expire_stuff_time
             kept == {e \in Entries : swept => e.time >= now - PeerAge}
             Exact == /\ \A e \in kept : \E f \in Entries' :
                            f.id = e.id /\ f.peer = e.peer /\ f.time \in {e.time, now}
                      /\ swept => Entries' = kept
  <1>1. ASSUME UNCHANGED <<storage, expire_stuff_time>> PROVE Exact
    BY <1>1, ListUnchanged
  <1>2. ASSUME IInv, Next, phase = "up", phase' = "up" PROVE Exact
    <2>0. /\ now \in 0 .. MaxTime /\ now \in Int /\ ListInv /\ sockets # {}
          /\ numstorage \in 0 .. MaxHashes /\ numstorage \in Nat /\ expire_stuff_time \in Nat
      BY <1>2, Sizes DEF IInv, LifeInv, TypeOK
    <2>1. ASSUME NEW fams \in (SUBSET {4, 6}) \ {{}}, dht_init(fams) PROVE Exact
      <3>1. Busy
        BY <2>0 DEF Busy
      <3>2. InitBusy
        BY <2>1, <3>1 DEF dht_init, InitFailsEarly, InitFailsLate, InitSucceeds
      <3> QED  BY <1>1, <3>2 DEF InitBusy, vars
    <2>2. ASSUME NEW dofree \in BOOLEAN, dht_uninit(dofree) PROVE Exact
      BY <1>2, <2>2 DEF dht_uninit
    <2>3. ASSUME NEW id \in Hash, NEW p \in Peer, storage_store(id, p) PROVE Exact
      <3>1. NothingLost
        BY <2>0, <2>3, StoreFacts
      <3>2. ~ swept
        BY <2>3 DEF storage_store, timers
      <3> QED  BY <3>1, <3>2 DEF NothingLost
    <2>4. ASSUME dht_periodic PROVE Exact
      <3>1. CASE UNCHANGED <<storage, expire_stuff_time>>
        BY <1>1, <3>1
      <3>2. CASE /\ now >= expire_stuff_time /\ expire_storage
                 /\ expire_stuff_time' \in {now + ExpireWait + r : r \in 0 .. ExpireSpan - 1}
        <4>1. Entries' = {e \in Entries : e.time >= now - PeerAge}
          BY <2>0, <3>2, ExpireFacts
        <4>2. swept
          BY <2>0, <3>2, Sizes
        <4>3. Entries' = kept
          BY <4>1, <4>2
        <4> QED  BY <4>3
      <3> HIDE DEF Exact
      <3> QED  BY <2>4, <3>1, <3>2 DEF dht_periodic, store
    <2>5. ASSUME StartSearch \/ Tick \/ \E p \in Peer : GiveToken(p) PROVE Exact
      BY <1>1, <2>5 DEF StartSearch, Tick, GiveToken, store, timers
    <2> HIDE DEF Exact
    <2> QED  BY <1>2, <2>1, <2>2, <2>3, <2>4, <2>5 DEF Next
  <1>3. IInv /\ [Next]_vars => [OldPeersGo]_vars
    BY <1>2 DEF OldPeersGo
  <1> QED  BY <1>3, Always, PTL DEF Spec, PeersExpireExactly
=============================================================================
