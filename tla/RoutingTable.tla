---------------------------- MODULE RoutingTable ----------------------------
(***************************************************************************)
(* The routing table of dht/dht.c, for one address family: the sorted list *)
(* of buckets, the nodes each holds and the candidate it caches.  The      *)
(* tables of IPv4 and IPv6 share nothing but myid and the clock.           *)
(*                                                                         *)
(* new_node calls itself after it has split a bucket.  Each turn of that   *)
(* tail call is a step: `call' holds the arguments while one is pending,   *)
(* and nothing else happens until it returns (the program is one thread).  *)
(***************************************************************************)
EXTENDS NodeIds, FiniteSets, Sequences

CONSTANTS
    MyId,           \* myid
    Peers,          \* the ids the network or the application may name
    Addr,           \* socket addresses
    Martians,       \* the addresses is_martian rejects
    NoAddr,         \* cached.ss_family = 0
    NoCall,         \* no call of new_node is pending
    K,              \* nodes in a full bucket (8)
    PingWait,       \* seconds a pinged node is given to answer (15)
    GrowAge,        \* neighbourhood maintenance runs this long after growth (150)
    StaleAge,       \* a bucket without a reply for this long is stale (600)
    ActiveAge,      \* a good node was heard from this recently (900)
    ReplyAge,       \* ... and replied this recently (7200)
    StartTime,      \* the clock at dht_init
    MaxTime,        \* bound on the clock
    AllocOutcomes   \* what calloc may do: {TRUE}, or BOOLEAN if it may fail

ASSUME IdsAssumption == MyId \in Id /\ Peers \subseteq Id

ASSUME AddrAssumption == Martians \subseteq Addr /\ NoAddr \notin Addr

ASSUME KAssumption == K \in Nat \ {0}

ASSUME TimesAssumption ==
    /\ {PingWait, GrowAge, StaleAge, ActiveAge, ReplyAge, StartTime, MaxTime} \subseteq Nat
    /\ \A age \in {PingWait, GrowAge, StaleAge, ActiveAge, ReplyAge} : age < StartTime
    /\ StartTime <= MaxTime

ASSUME AllocAssumption == AllocOutcomes \subseteq BOOLEAN /\ TRUE \in AllocOutcomes

VARIABLES
    buckets,     \* the list of buckets, in order
    grow_time,   \* mybucket_grow_time
    now,         \* now.tv_sec
    call         \* the pending call of new_node, or NoCall

vars == <<buckets, grow_time, now, call>>

Time == 0 .. MaxTime

(* The code compares pinged with 2, 3 and 4 only: it is counted up to 4. *)
MaxPinged == 4

Node == [id : Id, addr : Addr, time : Time, reply_time : Time,
         pinged : 0 .. MaxPinged, pinged_time : Time]

Bucket == [first : Id, count : Nat, time : Time,
           nodes : SUBSET Node, cached : Addr \cup {NoAddr}]

(* confirm: 0 the node was only named, 1 it sent a message, 2 it replied. *)
Call == [id : Id, addr : Addr, confirm : 0 .. 2]

ASSUME NoCallAssumption == NoCall \notin Call

-----------------------------------------------------------------------------
(* Finding a bucket *)

(* A bucket ranges up to the first id of the next one, exclusive. *)
Upper(bs, i) == IF i = Len(bs) THEN EndOfIds ELSE bs[i + 1].first

InBucket(bs, i, id) == bs[i].first <= id /\ id < Upper(bs, i)

(* The list is walked from its head. *)
FindBucket(bs, id) ==
    CHOOSE i \in DOMAIN bs :
        /\ id < Upper(bs, i)
        /\ \A j \in 1 .. i - 1 : Upper(bs, j) <= id

NodeGood(n) ==
    /\ n.pinged <= 2
    /\ n.reply_time >= now - ReplyAge
    /\ n.time >= now - ActiveAge

Ping(n) ==
    [n EXCEPT !.pinged = IF @ < MaxPinged THEN @ + 1 ELSE @, !.pinged_time = now]

Swap(nodes, n, m) == (nodes \ {n}) \cup {m}

(* A node just learnt: time stays 0 unless it sent us a message. *)
FreshNode(id, addr, confirm) ==
    [id |-> id, addr |-> addr,
     time |-> IF confirm > 0 THEN now ELSE 0,
     reply_time |-> IF confirm = 2 THEN now ELSE 0,
     pinged |-> 0, pinged_time |-> 0]

EmptyBucket(first, time) ==
    [first |-> first, count |-> 0, time |-> time, nodes |-> {}, cached |-> NoAddr]

-----------------------------------------------------------------------------
(* Splitting *)

(* bs with a new, empty bucket after the i-th. *)
WithBucketAfter(bs, i, new) ==
    [j \in 1 .. Len(bs) + 1 |->
        IF j <= i THEN bs[j] ELSE IF j = i + 1 THEN new ELSE bs[j - 1]]

(* insert_node on every node of the set, over the list of buckets. *)
InsertNodes(bs, nodes) ==
    [j \in DOMAIN bs |->
        LET mine == {n \in nodes : FindBucket(bs, n.id) = j}
        IN  [bs[j] EXCEPT !.nodes = @ \cup mine, !.count = @ + Cardinality(mine)]]

(* Mutants of SplitBucket: the nodes stay in the lower half, the count of the  *)
(* old bucket is not reset, the new bucket starts with time 0.                 *)
SplitKeepingNodes(bs, i) ==
    LET b == bs[i]
        mid == BucketMiddle(b.first, Upper(bs, i))
    IN  WithBucketAfter([bs EXCEPT ![i].cached = NoAddr], i, EmptyBucket(mid, b.time))

SplitKeepingCount(bs, i) ==
    LET b == bs[i]
        mid == BucketMiddle(b.first, Upper(bs, i))
        emptied == [bs EXCEPT ![i] = [EmptyBucket(b.first, b.time) EXCEPT !.count = b.count]]
    IN  InsertNodes(WithBucketAfter(emptied, i, EmptyBucket(mid, b.time)), b.nodes)

SplitForgettingTime(bs, i) ==
    LET b == bs[i]
        mid == BucketMiddle(b.first, Upper(bs, i))
        emptied == [bs EXCEPT ![i] = EmptyBucket(b.first, b.time)]
    IN  InsertNodes(WithBucketAfter(emptied, i, EmptyBucket(mid, 0)), b.nodes)

(* split_bucket: the candidate is pinged and forgotten, the new bucket     *)
(* inherits the time, and every node is inserted again.                    *)
SplitBucket(bs, i) ==
    LET b == bs[i]
        mid == BucketMiddle(b.first, Upper(bs, i))
        emptied == [bs EXCEPT ![i] = EmptyBucket(b.first, b.time)]
    IN  InsertNodes(WithBucketAfter(emptied, i, EmptyBucket(mid, b.time)), b.nodes)

-----------------------------------------------------------------------------
(* new_node *)

Return == call' = NoCall

(* The bucket of the id, whose time records a reply whoever sent it. *)
TargetBucket(i, confirm) ==
    IF confirm = 2 THEN [buckets[i] EXCEPT !.time = now] ELSE buckets[i]

PutBucket(i, b) == buckets' = [buckets EXCEPT ![i] = b]

Update(n, addr, confirm) ==
    CASE confirm = 2 -> FreshNode(n.id, addr, 2)
      [] confirm = 1 -> [n EXCEPT !.addr = addr, !.time = now]
      [] confirm = 0 /\ n.time < now - ActiveAge -> [n EXCEPT !.addr = addr]
      [] OTHER -> n

(* Known node.  Update stuff. *)
KnownNode(id, addr, confirm, i) ==
    LET b == TargetBucket(i, confirm)
    IN  /\ \E n \in b.nodes :
            /\ n.id = id
            /\ PutBucket(i, [b EXCEPT !.nodes = Swap(@, n, Update(n, addr, confirm))])
        /\ Return
        /\ UNCHANGED grow_time

Grow(i) == grow_time' = IF InBucket(buckets, i, MyId) THEN now ELSE grow_time

(* Mutant of NewTo: nodes that look dead are not compared. *)
NewToLiveNodes(i, id) == \A n \in buckets[i].nodes : n.id # id \/ n.pinged >= 3

NewTo(i, id) == \A n \in buckets[i].nodes : n.id # id

(* Mutant of Bad: one unanswered request too few. *)
BadTooEarly(n) == n.pinged >= 2 /\ n.pinged_time < now - PingWait

Bad(n) == n.pinged >= 3 /\ n.pinged_time < now - PingWait

(* First, try to get rid of a known-bad node: the first one of an unordered list. *)
ReplaceBad(id, addr, confirm, i) ==
    LET b == TargetBucket(i, confirm)
    IN  /\ \E n \in b.nodes :
            /\ Bad(n)
            /\ PutBucket(i, [b EXCEPT !.nodes = Swap(@, n, FreshNode(id, addr, confirm))])
        /\ Return
        /\ Grow(i)

(* Bucket full.  Ping a dubious node, one not pinged in the last 15 seconds. *)
DubiousPinged(nodes) ==
    LET waiting == {n \in nodes : ~ NodeGood(n) /\ n.pinged_time < now - PingWait}
    IN  IF waiting = {} THEN {nodes} ELSE {Swap(nodes, n, Ping(n)) : n \in waiting}

(* Mutant of WantSplit: any full bucket of good nodes is split. *)
WantSplitAnywhere(i) ==
    (\A n \in buckets[i].nodes : NodeGood(n)) \/ Len(buckets) = 1

(* Our own bucket is split when all its nodes are good, or when it is the only one. *)
WantSplit(i) ==
    /\ InBucket(buckets, i, MyId)
    /\ (\A n \in buckets[i].nodes : NodeGood(n)) \/ Len(buckets) = 1

(* The result of split_bucket is not looked at: new_node is called again.  *)
SplitAndRetry(id, addr, confirm, i) ==
    /\ WantSplit(i)
    /\ \E nodes \in DubiousPinged(buckets[i].nodes), ok \in AllocOutcomes :
        LET bs == [buckets EXCEPT ![i] = [TargetBucket(i, confirm) EXCEPT !.nodes = nodes]]
        IN  buckets' = IF ok /\ HasMiddle(bs[i].first, Upper(bs, i))
                           THEN SplitBucket(bs, i)
                           ELSE bs
    /\ call' = [id |-> id, addr |-> addr, confirm |-> confirm]
    /\ Grow(i)

(* No space for this node.  Cache it away for later. *)
CacheAway(id, addr, confirm, i) ==
    /\ ~ WantSplit(i)
    /\ \E nodes \in DubiousPinged(buckets[i].nodes) :
        PutBucket(i, [TargetBucket(i, confirm) EXCEPT
                        !.nodes = nodes,
                        !.cached = IF confirm > 0 \/ @ = NoAddr THEN addr ELSE @])
    /\ Return
    /\ Grow(i)

(* Create a new node, unless calloc fails. *)
AddNode(id, addr, confirm, i) ==
    LET b == TargetBucket(i, confirm)
    IN  /\ \E ok \in AllocOutcomes :
            PutBucket(i, IF ok THEN [b EXCEPT !.nodes = @ \cup {FreshNode(id, addr, confirm)},
                                             !.count = @ + 1]
                               ELSE b)
        /\ Return
        /\ Grow(i)

Refused(id, addr) ==
    /\ id = MyId \/ addr \in Martians
    /\ Return
    /\ UNCHANGED <<buckets, grow_time>>

(* One turn of new_node, up to its return or to its call of itself. *)
NewNodeTurn(id, addr, confirm) ==
    LET i == FindBucket(buckets, id)
        accepted == id # MyId /\ addr \notin Martians
        isNew == accepted /\ NewTo(i, id)
        noBad == \A n \in buckets[i].nodes : ~ Bad(n)
        full == buckets[i].count >= K
    IN  /\ \/ Refused(id, addr)
           \/ accepted /\ KnownNode(id, addr, confirm, i)
           \/ isNew /\ ReplaceBad(id, addr, confirm, i)
           \/ isNew /\ noBad /\ full /\ SplitAndRetry(id, addr, confirm, i)
           \/ isNew /\ noBad /\ full /\ CacheAway(id, addr, confirm, i)
           \/ isNew /\ noBad /\ ~ full /\ AddNode(id, addr, confirm, i)
        /\ UNCHANGED now

(* new_node called by _dht_handle_response (confirm 0, 1 or 2) and by      *)
(* dht_insert_node (confirm 0).                                            *)
NewNode ==
    /\ call = NoCall
    /\ \E id \in Peers, addr \in Addr, confirm \in 0 .. 2 : NewNodeTurn(id, addr, confirm)

(* The tail call. *)
NewNodeAgain ==
    /\ call # NoCall
    /\ NewNodeTurn(call.id, call.addr, call.confirm)

-----------------------------------------------------------------------------
(* Requests sent to nodes of the table, and what becomes of silent nodes *)

Idle == call = NoCall

(* pinged(n, b): the third unanswered request sends the candidate a ping, which forgets it. *)
PingedBucket(b, n) ==
    LET m == Ping(n)
    IN  [b EXCEPT !.nodes = Swap(@, n, m),
                  !.cached = IF m.pinged >= 3 THEN NoAddr ELSE @]

(* Where a query about bucket i may be sent: to the bucket itself, the next *)
(* one or a non-empty previous one; an empty bucket always looks further.   *)
Sources(i) ==
    LET count(j) == buckets[j].count
        firstChoice == IF i = Len(buckets) THEN {i}
                       ELSE IF count(i) = 0 THEN {i + 1} ELSE {i, i + 1}
        before == IF i > 1 /\ count(i - 1) > 0 THEN {i - 1} ELSE {}
    IN  UNION {IF count(q) = 0 /\ before # {} THEN before ELSE {q} \cup before :
                q \in firstChoice}

Stale(i) == buckets[i].time < now - StaleAge

(* A query is sent to a random node of a source; none is sent from an empty one. *)
QueryFor(i) ==
    \E q \in Sources(i) : \E n \in buckets[q].nodes : PutBucket(q, PingedBucket(buckets[q], n))

(* The walk of bucket_maintenance passes over bucket i. *)
PassedOver(i) == ~ Stale(i) \/ \E q \in Sources(i) : buckets[q].count = 0

(* bucket_maintenance sends at most one query, for the first stale bucket it can. *)
BucketMaintenance ==
    /\ Idle
    /\ \E i \in DOMAIN buckets :
        /\ Stale(i)
        /\ \A j \in 1 .. i - 1 : PassedOver(j)
        /\ QueryFor(i)
    /\ UNCHANGED <<grow_time, now, call>>

(* neighbourhood_maintenance, when bucket maintenance had nothing to send. *)
NeighbourhoodMaintenance ==
    /\ Idle
    /\ \A j \in DOMAIN buckets : PassedOver(j)
    /\ grow_time >= now - GrowAge
    /\ QueryFor(FindBucket(buckets, MyId))
    /\ UNCHANGED <<grow_time, now, call>>

(* A search sends a request to a node that happens to be in the table. *)
SearchPinged ==
    /\ Idle
    /\ \E i \in DOMAIN buckets : \E n \in buckets[i].nodes :
        PutBucket(i, PingedBucket(buckets[i], n))
    /\ UNCHANGED <<grow_time, now, call>>

(* broken_node: pinged is set to 3 and then counted once more. *)
BrokenNode ==
    /\ Idle
    /\ \E id \in Peers :
        LET i == FindBucket(buckets, id)
        IN  \E n \in buckets[i].nodes :
            /\ n.id = id
            /\ PutBucket(i, [buckets[i] EXCEPT
                    !.nodes = Swap(@, n, Ping([n EXCEPT !.pinged = 3])),
                    !.cached = NoAddr])
    /\ UNCHANGED <<grow_time, now, call>>

(* Mutants of Purged: the candidate is not pinged, a removed node is counted twice. *)
PurgedKeepingCandidate(b) ==
    LET dead == {n \in b.nodes : n.pinged >= 4}
    IN  [b EXCEPT !.nodes = @ \ dead, !.count = @ - Cardinality(dead)]

PurgedCountingTwice(b) ==
    LET dead == {n \in b.nodes : n.pinged >= 4}
    IN  IF dead = {} THEN b
        ELSE [b EXCEPT !.nodes = @ \ dead, !.count = @ - 2 * Cardinality(dead), !.cached = NoAddr]

(* Nodes that let 4 requests unanswered go; a bucket that lost one pings its candidate. *)
Purged(b) ==
    LET dead == {n \in b.nodes : n.pinged >= 4}
    IN  IF dead = {} THEN b
        ELSE [b EXCEPT !.nodes = @ \ dead, !.count = @ - Cardinality(dead), !.cached = NoAddr]

ExpireBuckets ==
    /\ Idle
    /\ buckets' = [i \in DOMAIN buckets |-> Purged(buckets[i])]
    /\ UNCHANGED <<grow_time, now, call>>

(* gettimeofday, at the start of dht_periodic. *)
Tick ==
    /\ Idle
    /\ now < MaxTime
    /\ now' = now + 1
    /\ UNCHANGED <<buckets, grow_time, call>>

-----------------------------------------------------------------------------
(* dht_init: one bucket, from calloc, for all ids. *)
Init ==
    /\ buckets = <<EmptyBucket(0, 0)>>
    /\ grow_time = StartTime
    /\ now = StartTime
    /\ call = NoCall

Next ==
    \/ NewNode
    \/ NewNodeAgain
    \/ BucketMaintenance
    \/ NeighbourhoodMaintenance
    \/ SearchPinged
    \/ BrokenNode
    \/ ExpireBuckets
    \/ Tick

Spec == Init /\ [][Next]_vars

(* A call of new_node runs until it returns. *)
FairSpec == Spec /\ WF_vars(NewNodeAgain)

-----------------------------------------------------------------------------
(* Properties *)

(* Every variable has its type; the list of buckets is never empty. *)
TypeOK ==
    /\ buckets \in Seq(Bucket) /\ buckets # <<>>
    /\ grow_time \in Time
    /\ now \in Time
    /\ call \in Call \cup {NoCall}

Size(bs, i) == Upper(bs, i) - bs[i].first

Tiles(bs) ==
    /\ bs[1].first = 0
    /\ \A i, j \in DOMAIN bs : i < j => bs[i].first < bs[j].first
    /\ \A i \in DOMAIN bs : \E p \in 0 .. IdBits :
        Size(bs, i) = Weight[p] /\ Aligned(bs[i].first, p)

(* However often buckets are split, they tile the whole id space in order, and  *)
(* each is all the ids that share some prefix (split_bucket: two equal parts).  *)
BucketsTile == Tiles(buckets)

(* find_bucket leads to every node the table holds: a split or a replacement    *)
(* never leaves a node in a bucket where find_node would not look for it.       *)
NodesWhereTheyBelong ==
    \A i \in DOMAIN buckets : \A n \in buckets[i].nodes :
        InBucket(buckets, i, n.id) /\ n.id # MyId

(* No bucket holds two nodes with the same id, whichever path put them there. *)
OneNodePerId ==
    \A i \in DOMAIN buckets : \A n, m \in buckets[i].nodes : n.id = m.id => n = m

(* count, kept by hand in four functions, is the length of the list and at most K. *)
CountExact ==
    \A i \in DOMAIN buckets :
        buckets[i].count = Cardinality(buckets[i].nodes) /\ buckets[i].count <= K

(* A candidate waits only in a full bucket: whatever makes room also pings it. *)
CandidateOnlyWhenFull ==
    \A i \in DOMAIN buckets : buckets[i].cached # NoAddr => buckets[i].count = K

(* new_node repeats itself after split_bucket without looking at its result; it *)
(* cannot loop for want of a middle id, since a bucket it splits always has one. *)
FullOwnBucketSplits ==
    \A i \in DOMAIN buckets :
        InBucket(buckets, i, MyId) /\ buckets[i].count = K
            => HasMiddle(buckets[i].first, Upper(buckets, i))

(* The range a bucket was split from contains our own id. *)
SplitAroundMe(bs, i) ==
    LET size == Size(bs, i)
        parent == bs[i].first - (bs[i].first % (2 * size))
    IN  size < EndOfIds => parent <= MyId /\ MyId < parent + 2 * size

(* Only the bucket of myid is ever split: the table is deep around our own id   *)
(* and nowhere else, so it never has more than one bucket per bit of an id.     *)
BucketsFollowMyId == \A i \in DOMAIN buckets : SplitAroundMe(buckets, i)

(* bucket_maintenance trusts b->time as the last reply of the bucket: no node   *)
(* of the bucket has replied later, also after a split copied the time.         *)
BucketTimeCoversReplies ==
    \A i \in DOMAIN buckets : \A n \in buckets[i].nodes : n.reply_time <= buckets[i].time

(* The id bucket_maintenance asks a stale bucket's neighbours for may be any id *)
(* of the bucket and no other: every part of a bucket can be refreshed.         *)
RandomIdsCoverBucket ==
    \A i \in DOMAIN buckets :
        BucketRandom(buckets[i].first, Upper(buckets, i)) = {id \in Id : InBucket(buckets, i, id)}

(* The nodes of the table, whatever the bucket. *)
Contacts(bs) == UNION {bs[i].nodes : i \in DOMAIN bs}

(* The abstract contact book the table implements. *)
Known == {n.id : n \in Contacts(buckets)}
Suspect == {n.id : n \in {m \in Contacts(buckets) : m.pinged >= 3}}

Book == INSTANCE ContactBook WITH
            Contact <- Id, Me <- MyId, known <- Known, suspect <- Suspect

(* The table forgets a contact only when it left three requests unanswered. *)
ImplementsContactBook == Book!BookSpec

(* Every call of new_node returns: the recursion through split_bucket ends. *)
CallReturns == (call # NoCall) ~> (call = NoCall)
=============================================================================
