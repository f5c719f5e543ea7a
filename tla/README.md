# TLA+ project for dnsp2p (ffff-dnsp2p)

dnsp2p resolves DNS names through a Kademlia DHT. Its own logic is a variant of the
mainline BitTorrent DHT library (`src/dht/dht.c`), driven by a libevent program
(`src/ffff.c`), plus a DNS front end whose operations start searches. This project
models the DHT, the program around it and the algorithms both are built on, checks them
with TLC on small instances, and proves with TLAPS, for every value of the constants, the
safety of the routing table, the searches, the receive path, the library's life and storage,
the engine, the red-black tree under its registry of operations, and the choice of the
closest nodes for a reply.

The program is one thread. What makes it hard to test is not parallelism but order: what
the network answers, when, how often and after what; how long nodes stay silent; when a
list, a ring or a counter is at its limit; and hand-kept redundancy (counts, times,
cached candidates) that several functions must keep in step.

## Inventory

| Part | State | Operations | Hard behaviours | Module |
|---|---|---|---|---|
| routing table (dht.c 135-155, 389-864, 1722-1837) | sorted list of buckets, nodes, candidates, `mybucket_grow_time` | `new_node`, `split_bucket`, `pinged`, `broken_node`, `expire_buckets`, bucket and neighbourhood maintenance | repeated splits, in-place replacement, failed `calloc`, tail recursion, ageing | `NodeIds`, `RoutingTable`, `ContactBook` |
| searches (866-1211, 1906-1977, 2298-2330) | list of searches and their nodes, `search_id`, `search_time` | `dht_search`, `search_step`, gp replies, `expire_searches` | late and duplicated replies, slot reuse, silent nodes, 16-bit ids | `Search` |
| event loop (ffff.c 231-317) | readiness of the DHT socket | `f4_cb_dht_read` | timers that nobody serves | `EventLoop` |
| receive path (1339-1368, 1847-1868, 2000-2104, 2889-3011) | blacklist ring, socket buffer | read, filters, dispatch | uninitialised `rc`, stale `errno`, ring at its limit | `Receive` |
| rate limiter (1704-1720) | tokens and their time | `token_bucket` | integer refill at the boundary of a second | `RateLimiter` |
| peer storage, announce tokens (1216-1337, 1370-1428) | peers per hash, two secrets | `storage_store`, `expire_storage`, `rotate_secrets`, `make_token`, `token_match` | limits, hand-kept counts, expiry while scanning | `DhtNode` |
| DHT lifecycle (1586-1702, 2298-2307) | sockets, tables, lists, timers | `dht_init`, `dht_uninit` | partial failure, restart | `DhtNode` |
| engine, command line, admin stub (ffff.c, stub.c, admin.c) | members of `f4_ctx`, resources | options, `f4_init`, `f4_start`, `f4_stop`, `f4_free`, `f4_cb_dht` | failure after any step | `Engine` |
| DNS resolver, get operations (dns.c, op_get.c) | operations, pending DNS requests | `_f4dns_cb_dnsserver`, `opget_dns_callback` | several questions, duplicate ids, requests never answered | `Engine` |
| operations registry, red-black tree (ops.c, rbtree.c) | linked and coloured nodes | `f4op_add`, `f4op_find`, `f4op_remove`, `f4op_free_ctx`, `rb_*` | erasing while walking, unbalanced use | `Registry`, `RbTree` |
| messages (dht.c 2476-2861, 2889-3026) | none | senders, parser | buffers of fixed size, undefined results | `Messages` |
| bencode (libbenc) | none | encoder, decoder, dictionaries | pointer arithmetic, malformed input | `Bencode` |
| table queries (1432-1462, 2370-2447, 2652-2757) | none | `dht_nodes`, `dht_get_nodes`, closest nodes | a full buffer, three buckets merged | `TableQueries` |
| properties, crypto, dumps, example | - | - | - | not modelled (see the end) |

Interaction: libevent calls `f4_cb_dht_read`, which calls `dht_periodic`; that reads one
datagram, filters it (`Receive`), hands a response to the routing table (`new_node`,
`broken_node`) and to the search it belongs to, then runs the timers (expiry, searches,
maintenance). A search sends requests, which count against the routing table's node of
the same id (`SearchPinged`). A DNS question calls `dht_search`.

**What this revision reaches.** `_dht_message_parse_impl` tests the length of the
transaction id where it means that of `y` (dht.c:2906). Only messages with a one-byte
transaction id are parsed, and a response among them is then blacklisted for that very
reason. So in the program as it stands no response gets past dht.c:1862 (`Receive` models
this as it is, and `receive_replies` shows it). The code behind that line (`new_node` with
confirm 1 and 2, the `gp` handler) is modelled from its own text, for the values its call
sites pass. That handler has further defects behind the gate which the model steps over:
it looks `nodes` up in `msg->a`, which is null in a response; `nodes_len` and `nodes6_len` are
unset when their key is missing; `state->callback` is never set, so values are never
reported.

## Modules

### NodeIds, RoutingTable, MCRoutingTable

An id is the number its 20 bytes spell, so `id_cmp` is `<` and the code's bit positions
become powers of two: `Weight[p]` is how many ids share their first `p` bits. `LowBit`,
`BucketMiddle`, `BucketRandom` give the results of the byte loops.

`RoutingTable` has `buckets` (a sequence of records with the fields of `struct bucket`),
`grow_time`, `now` and `call`. The tables of the two families share only `myid` and the
clock, so one is modelled. `new_node` is one action per outcome, all under `NewNodeTurn`:
`Refused`, `KnownNode`, `ReplaceBad`, `SplitAndRetry`, `CacheAway`, `AddNode`. Its tail call
after a split is a step of its own: `call` holds the arguments, and every other action
waits (`Idle`), since the program is one thread. The other actions are
`BucketMaintenance`, `NeighbourhoodMaintenance`, `SearchPinged` (from
`search_send_get_peers` and `search_step`), `BrokenNode`, `ExpireBuckets` and `Tick`.

Abstractions: the nodes of a bucket are a set, and where the code takes the first node of
the list that fits, the model takes any; `pinged` saturates at 4, the largest value it is
compared with; `AllocOutcomes` says whether `calloc` may fail.

`ContactBook` is the abstract specification: a set of known contacts, some suspect; a
contact is learnt in the place of at most one suspect, only suspects are forgotten, and
one contact at a time changes its standing. `RoutingTable` maps the table to it (`Book`:
the ids in any bucket, and those of nodes that left three requests unanswered).

### Search, MCSearch

`searches` is the list, each with its `nodes` in order; `wake` is the time left until
`search_time`; `net` the get_peers requests the network may still answer, any number of
times (a duplicated reply leaves the request in flight, a lost one is never answered);
`told` counts the completions reported per hash. Times are kept as ages that saturate at
`MaxAge`, which makes the clock unbounded and liveness checkable.

`dht_search` is called with a callback or without, as `op_get.c` does. The callback matters only in
the first step of the search, which `dht_search` makes itself; later steps are made by
`dht_periodic`, with the callback ffff.c gives to that. So a search that begins without a callback
and without a node to ask is done at once and nobody is told: `silent` holds the hashes for which
that happened last, `CompletionToldOnce` makes this exception and no other, and `CompletionsReported`,
what `src/dht/README` promises, is a finding.

`NodesSorted` is the order the code keeps and `search_step` relies on: the closest node first. The
comment above `insert_search_node` (dht.c:883) says the opposite; `NodesSortedAsCommented` states it,
and is a finding as well.

`DhtSearch` is `dht_search` whole: the slot found, reused or refused (`SearchAgain`,
`SearchAnew`, `SearchRefused`), the nodes the table offers, the first `search_step`, and
the timer. `Periodic` is the end of `dht_periodic`; `HandleReply` is `_dht_handle_response`
for `gp` followed by the same `Timers`, as one call of `dht_periodic` does both. The
routing table appears as the set of nodes it offers. A node that replies bears the id it
was asked under. Expiry runs or not, at any time: `expire_stuff_time` is random.

Where a loop unlinks members of a list or shifts an array over them, what is left is the
subsequence `At(s, I)` of the list at the positions that stay (`Subsequences`).

### EventLoop, MCEventLoop

`EventLoop` composes `Search` with ffff.c: `dht_periodic` runs only from `f4_cb_dht_read`,
and only when the socket is readable. There is no timeout event, and `tosleep` is dropped.

### RateLimiter, Receive

`RateLimiter` is `token_bucket`; `Receive` composes it with the read, the filters and the
dispatch. `rc` of `dht_periodic` is never assigned, so each call finds an arbitrary sign
in it; `errno` holds what an earlier call left, which is arbitrary as well. A message is a
query or a response with a transaction id of 1, 2 or 4 bytes, from us or not; it is well
formed otherwise. Messages of type `e` and unknown query names are not among the inputs:
the first reach `id_cmp` with a null id, the second an `assert(false)`.

### DhtNode, MCDhtNode

The life of the library: `sockets` and `tables` are the families whose socket is not -1 and
whose bucket list is not NULL; `searches` says whether that list is empty; `storage`,
`numstorage`, the two secrets and the two timers are the globals of those names. `phase` is
what the caller did last; it restricts the calls to those of a caller that uses the library
only while it is up, but calls `dht_init` and `dht_uninit` as it likes. `dht_init` is the
disjunction of its outcomes: `InitBusy`, `InitFailsEarly` (no memory, or a socket that cannot
be made non-blocking), `InitFailsLate` (`rotate_secrets`), `InitSucceeds`. `storage_store` and
`make_token` have no caller left in this revision (the query handlers are commented out); they
are modelled as calls that may come at any time. `expire_storage` and `rotate_secrets` come
from `dht_periodic`. A failed `dht_init` may leave a bucket list behind (the one of IPv4 when
there is no memory for the one of IPv6, the one of IPv6 when a later step fails), after which every
call answers EBUSY; the actions do this as the code does, and nothing claims the contrary.
`PeersLeaveInTime` is about the random time between two sweeps: a peer may just escape one, but
is gone with the next. The peer array is a sequence, which `Unexpired` scans as
`expire_storage` does, one `ScanStep` per turn of the inner loop, filling a hole from the end.

### Registry, RbTree

`Registry` is the abstract specification: a set of operations with at most one per id, where
adding a second one answers the first, and freeing all yields each once, in order. `RbTree` is
`rbtree.c` and `ops.c` on top of it, pointer by pointer (`parent`, `child`, `red`; the two
mirrored halves of each function are one, with the side as a parameter). ops.c links without
`rb_insert_color`, so its tree is never balanced; `balanced` is chosen at the start and says
which of the two users the tree has.

The loops are of two kinds. One that only moves a pointer is a `Way`, the nodes it comes by, and
the node where it ends (`Follow`): `rb_first`, `rb_last`, `rb_next`, `rb_prev`, the descents of
`f4op_add` and `f4op_find`. One that writes the tree is a recursive function over its turns
(`InsertTurn`, `EraseTurn`, `FreeTurn`), `MaxTurns` of them, where a turn whose loop condition is
false changes nothing. That this bound is never what ends a loop is part of what is checked
and proved: a loop cut short would leave a red node below a red one, or a node not freed.

### Engine

The program around the library. `Steps` lists what `f4_init` takes, in order, for which role, and
what each step may leave behind when it fails; `members` are the members of `f4_ctx` that
are set and `held` the resources the process has, so that `f4_free`, which goes by the members,
can be compared with what there is. `f4dns_cb_dnsserver` runs `Handle` over the questions of a
request (`HandleAll`); operations go into `Registry`; `searching` is what remains of `Search`. A failed
`assert` ends the process (`stage` = "aborted"): the callback of a get operation is one, so the
first event for a registered operation ends it.

### Bencode, Messages, TableQueries, MCAlgorithms

Pure algorithms. `Bencode` has the values of libbenc, its encoder, `repsize`, its decoder as a
function from a text and a position to a result and a position, and its dictionaries. Lengths,
integers and the sum of a pointer and a length wrap at `WordSize`; `Base` is the address of the text.
A length with which the sum wraps passes the test of `benc_bstr_decode` and ends in the use of a NULL,
as a length of 0 does (`Crashed`); `DecoderStaysInside` says that these are the only two, and that
every other length is accepted exactly when its bytes are there. `Messages`
has the senders, each as the value it spells and the size of its buffer (`Written`), and the
parser. Where C leaves the result open (bytes behind `strdup`'s copy, which a datagram with a zero
byte in one of its strings leads to, the head of an empty list,
a string of no bytes), the result is the set of all outcomes, or a crash. `TableQueries` has the
operators that only read the routing table, on ids of bytes with `xorcmp` as the code writes it;
C's `^` on bytes is its constant `ByteXor`, for which the run takes Bitwise's.
`MCAlgorithms` picks one input per behaviour and compares with a reference: the map a series of
dictionary operations means, the message that was sent, the xor distance on numbers.

## Runs

| Run | Expect | What it checks |
|---|---|---|
| `table_split` | pass | `BucketsTile`, `FullOwnBucketSplits`, `BucketsFollowMyId`, `RandomIdsCoverBucket` |
| `table_members` | pass | `NodesWhereTheyBelong`, `OneNodePerId`, `CountExact` |
| `table_aging` | pass | `TypeOK`, `CandidateOnlyWhenFull`, `BucketTimeCoversReplies`, `ImplementsContactBook`, `CallReturns` |
| `search_slots` | pass | `TypeOK`, `OneSearchPerTarget`, `TimerArmed`, `CompletionToldOnce`, `RepliesReachTheirSearch`, `UnfinishedKept` |
| `search_nodes` | pass | `NodesSorted`, `SearchEnds` |
| `receive` | pass | `TypeOK`, `BlacklistDistinct`, `RateHolds`, `RefusedOnlyAfterRefill` |
| `rbtree` | pass | `RedBlack`, `WalksAndFinds`, `ImplementsRegistry` |
| `dht_node` | pass | `TypeOK`, `StorageConsistent`, `TokenWindow`, `InitLosesNothing`, `PeersLeaveInTime`, `PeersExpireExactly` |
| `engine` | pass | `OperationsFindable`, `AnsweredOnce`, `FreesWhatItHolds` |
| `algorithms` | pass | `BencodeRoundTrips`, `DecoderStaysInside`, `SentMessagesReadBack`, `ClosestNodesFirst` |
| `event_loop` | violation | `TimerServed`: with a silent network an unfinished search that is due is never stepped |
| `receive_replies` | violation | `RepliesUnderstood`: replies to our own 4-byte ids are unparseable |

The two violations are findings of `PROJECT.json`, each against a sentence of `src/dht/README`.
The trace of `event_loop`: the only node of a search answered and was discarded, the search is
unfinished and due, and as no datagram comes, nothing steps it to its end.
Further findings have no run of their own: `UniqueTids` (Search: `search_id++` wraps onto a search
still in progress), `CompletionsReported` and `NodesSortedAsCommented` (Search, above), `AvailableIsRead` (Receive: an IPv6 socket is read only if an uninitialised
value is negative), `UninitFreesAll` (DhtNode) and `FreesEverything` (Engine) are stated in their
modules and violated by the code; any of them given to TLC for its module yields a counterexample
(`UniqueTids` once there are fewer transaction ids than calls of `dht_search`). The others
(`op_get.c:10`, `dht.c:3018`, `benc_bstr.c:95`, `benc_bstr.c:101`, `dht.c:2615`) are built into the models as the behaviour described there.

### Bounds, and why they are enough

- Table: ids of 3 bits, so that a bucket can be split down to a single id (our own), with
  `K` = 1 (`table_split`, the deepest tables) and `K` = 2 (`table_members`, where a split
  has nodes on both sides). These two have all ages 0, so that a node is good if it was
  heard from in this second and dubious if not. `table_split` holds the clock still: a node
  turns bad only when a second has passed since it was last pinged, so none is replaced there.
  `table_members` lets one second pass: three peers in the half of `myid` for two places, of which any
  may turn bad, be replaced in place and come back, before and after the splits. `table_aging` lets two
  seconds pass with ages of one second, so that good nodes turn dubious and buckets stale.
  `calloc` may fail in the first two; not in `table_aging`, because `new_node` repeats
  itself for as long as `split_bucket` finds no memory: `CallReturns` is a claim about an
  allocator that does not keep failing.
- Search: `search_slots` has three hashes for two slots, one peer, and as many
  transaction ids as calls, so that ids do not wrap: `RepliesReachTheirSearch` is a claim
  for replies no older than 65536 new searches. The hashes are interchangeable (one peer,
  all distances equal), which makes the symmetry sound; no liveness is checked there. Each
  call comes with a callback or without; a search may be stepped again at once and
  expires after one second without a step, so that slots are taken over in every way.
  `search_nodes` has three peers at xor distances 1, 2 and 3 for two places, and a random
  delay on the timer. Ages run one second past the limits.
- Receive: two slots of the blacklist for three senders and a martian; two tokens, one
  per second, over two seconds.
- DhtNode: two hashes for one record, three peers for two places in it, so that both limits
  are met; the array grows once (0 to 2), further doubling is not exercised. Four seconds and
  three secrets see two rotations and several expirations. One token is watched at a time.
  Hashes and peers are interchangeable, and no liveness is checked.
- RbTree: eight ids, one of them with two operations. All trees of up to eight
  nodes that some order of calls makes, balanced or not, are reached.
- Engine: two names, two requests of at most two questions: the same name twice in one
  request, in two, and a refused name before and after a valid one. It may stop: the process ends.
- Algorithms: dictionaries from all series of three operations over keys of which one is a
  prefix of another; all texts of up to four of the eleven bytes the decoder tells apart, the
  zero byte among them, and a longer text cut and damaged at two places; lengths and integers
  around the limits of a word of 20 bits, and lengths around the one with which the pointer
  wraps (of the width, only that numbers wrap and that texts lie in the lower half matters); the messages at their real sizes with 75 peers of
  mixed families around the limit of 50; tables of up to four buckets and five nodes over
  ids of two bytes of two bits. Each behaviour picks one input and stops.

### Fairness

- `RoutingTable!FairSpec`: a call of `new_node` in progress goes on (`WF(NewNodeAgain)`).
- `Search!FairSpec`: time passes and `dht_periodic` is called again and again. This is
  what `src/dht/README` asks of the caller; `EventLoop` shows that ffff.c does not do it.
  `SearchEnds` holds under the library's contract, for searches to which replies stop coming
  (`MaxReplies`, `MaxCalls`): a network that goes on naming closer nodes keeps a search busy.
- `EventLoop!LoopSpec`: a readable socket is delivered (`WF(CbDhtRead)`) and time passes.
  Nothing obliges the network to send.

## Proofs

Every theorem holds for all values of the constants that satisfy the named assumptions of
the component's module (`IdBitsAssumption`, `KAssumption`, `TimesAssumption`,
`DistAssumption`, `DhtNodeAssumption` and so on: numbers are naturals, finite sets are
finite, a limit that the code divides by or allocates is positive). TLC evaluates them on
every run. No theorem about a specification has a further hypothesis, except
`RepliesReachTheirSearchTheorem`; the two about the table queries are about tables of one bucket or
more, as `dht_init` makes them.

### Inductions: what the other proofs rest on

The library's induction theorems take an operator, which the provers cannot instantiate.
`Inductions` states induction and recursion with sets and functions instead, and derives
them from the well-foundedness of the naturals: the least number principle
(`LeastNatural`), induction up to a bound (`InductionUpTo`), the existence of the trace of
a loop (`LoopExists`: a recursive function whose body is given as a function is total and
does what it says) and of a fold over a finite set (`FoldExists`), induction over finite
sets (`SubsetInduction`). From these come the facts about subsequences (`RankFacts`,
`NthFacts`, `AtFacts`): `At(s, I)` has the length of `I`, keeps the order, and its members
are exactly those of `s` at `I`. So what a loop computes *is* proved for inputs of every
size, as long as the loop is written as a recursive function and not as a RECURSIVE operator.

### NodeIds and the routing table

`RoutingTableProofs` first proves what the bit arithmetic of `NodeIds` means: a range
`[lo, lo + Weight[p])` with `lo` aligned to `p` has `RangeBit` = `p`, hence a middle iff it is more than one id, and
the middle halves it (`RangeBitIs`, `HalvesOfRange`).

It then proves every invariant of the three table runs, for every `IdBits`,
`K`, set of peers and addresses, all ages and any behaviour of `calloc`. The inductive
invariant `IInv` is `GoodList` (the list is typed, non-empty and tiles the ids; every bucket
is a `GoodBucket` for its range; every range was split from one that held `myid`) with the
types of the other variables. It is stronger than the properties it implies: counts can only
be kept exact if the nodes are finite and their ids distinct; a split can only put each node
in the right half if it was in the right bucket, with the buckets in order; and a bucket's
time must not lie in the future. One lemma per outcome of `new_node` shows what it makes of
a good bucket; `SplitBucket` has its own. `FullOwnBucketAlwaysSplits` then needs the tiling
and the membership together: a range of one id that contains `myid` could hold no other node.
`RandomIdsAlwaysCoverBucket` follows from the tiling alone.

`TableImplementsContactBook` proves the refinement of `ContactBook`. Under `IInv` no two
nodes of the whole table have the same id (`ContactsApart`: each is where `FindBucket` leads),
so the table is a set of contacts (`Contacts`). Every action is one of four steps of that
set: it stays (`BookStutters`: a split only moves nodes, `ContactsSplit`), one node is exchanged
for one with the same id (`BookJudges`), one comes in the place of at most one suspect
(`BookLearns`), or suspects go (`BookForgets`). That a node is new to its own bucket makes it
new to the table (`NewToTable`), which is where a misplaced node would do harm.

### Receive

`ReceiveProofs` proves the type, the blacklist, the rate and the refusals for every number
of slots, rate and bucket size. `RateHolds` is not inductive: `RateInv` adds that what was
let through plus what is left is at most what had accrued when the bucket was last
refilled. `BlacklistDistinct` is inductive because a snubbed sender has just passed the
test of the whole ring.

### Search

`SearchProofs` proves every safety property of the two search runs, for any number of hashes,
peers, slots, places, transaction ids and all ages. `SearchInv` says of each search that its
list is sorted and no longer than its room (`GoodList`), of the list of searches that no hash
has two, of `told` that it agrees with `done` and `silent` (`Tally`), and of the timer that it is set as long as
something is unfinished. No one of them is inductive without the others: `told` is per hash, and
agrees with a slot only if the hash has no second slot; a reply may finish a search whose
timer others still need. Between the two halves of a step (the reply is taken, then the
timers run) less holds, which `Waiting` and `Ready` tell apart. A list stays sorted under the
insertion of any finite set of nodes in any order by induction over that set
(`InsertAllStays`), and under flushing, snubbing and expiry because `At` keeps the order.

Each action is brought down to one summary (`Outcome`): the invariant again, no unfinished
search without a slot, and either the same searches or one new search with the next
transaction id. `UnfinishedKeptTheorem`, the action property, is its second part.
`RepliesReachTheirSearchTheorem` follows from the third, with `TidInv`: the ids that the calls
still to come would draw are carried by no search and no request in flight. This needs
`MaxCalls <= Tids`, which is no artefact: `search_id` has 16 bits and wraps, and with one call
more than ids TLC finds a request answered to another search.

### DhtNode

`DhtNodeProofs` proves the six properties of `dht_node` for every number of hashes and peers,
all limits and waiting times. The core is the scan of `expire_storage`: `ScanInv` says what holds
after `n` turns (all before the index is fresh, nothing fresh was lost, nothing came in, and the
turns left are the peers still to be looked at), whence after as many turns as there were peers
the scan has ended and the array holds the fresh peers and no others. `StorageConsistent` needs it
because a record goes when its array is empty. `TokenWindow` needs that the two secrets are the
last two drawn and when they were drawn, with the rotation time between them. `PeersLeaveInTime` needs
`SweepInv`: the next sweep is less than the longest wait away, and comes before any
stored peer has outlived its age by that wait. `InitLosesNothing` needs
to know in which phases the lists can hold something.

### Engine

`EngineProofs` proves the three properties of `engine` for all names and requests and any number
of questions. `ContextInv` relates the members of the context to what the process holds, wherever
`f4_init` failed; `FreesWhatItHoldsTheorem` is an action property proved from it.
`AnsweredOnceTheorem` and `OperationsFindableTheorem` follow the loop over the questions by
induction over its turns: after an answer the loop has ended; the registry always holds what was
asked for, and one operation per id.

### The red-black tree

`RbTreeProofs` proves the three properties of `rbtree` for every finite set of ids, and with them
what the code of `rbtree.c` is trusted for. The inductive invariant says that the tree is
`Good`: there is a function `sub` from nodes to the sets of nodes below them for which the
pointers are a search tree of exactly the linked nodes (`Shape`: children point back to their
parents, subtrees split at the key of their node, the root has them all), and its colours are
those of a red-black tree (`Even`, `Reds`) or, for a user that does not rebalance, all red. The
latter is why the registry of ops.c can erase at all: no black node is ever missed, so
`__rb_erase_color` never runs on its unbalanced tree. Neither `sub` nor the black heights are
in the code; they are what the pointers mean, and every lemma says how a piece of pointer code
changes them.

1. The fields: what `SetDown`, `Rotate`, `Link`, `Splice` and `TakePlace` write and leave alone.
2. The shape: a rotation, a link at a free place, an only child in the place of its parent and a
   successor in the place of its predecessor leave a search tree (`RotateShape`, `LinkShape`,
   `SpliceShape`, `TakePlaceShape`).
3. Ways: a way on which a rank falls ends (`WayRule`), whence the walks and the descents come to
   the right node (`EndFacts`, `StepFacts`, `DescendFacts`); `TreeWalksAndFinds` collects them.
4. Insertion: while the loop runs, only the node at hand may be red below red (`Inserting`). Each
   of the three cases keeps that, and either ends or goes on at a node with a larger subtree,
   which bounds the turns (`InsertColorFacts`).
5. Removal: while the loop runs, one black node is missing at one place (`Erasing`). The red
   sibling, the black nephews, the near and the far red nephew have a lemma each
   (`LackRedSibling`, ...); again the subtree at hand grows (`EraseColorFacts`). `EraseGood`
   puts them behind the two ways to take a node out, where the parent of the missing place is
   the node itself if the successor was a child of the erased node.
6. `f4op_free_ctx`: the next node is the first of what is left after the erasure (`FreeTurnKeeps`),
   although the pointer was read before the erasure rotated the tree; so each node is freed
   once, in order (`FreeCtxFacts`), and the bound of the loop is the number of nodes.

`TreeRedBlack` then turns black heights into the counts of black nodes on the way from the root
(`DepthFacts`), and `TreeImplementsRegistry` shows every step to be one of `Registry`.

### The closest nodes

`TableQueriesProofs` proves what `send_closest_nodes` promises for ids of any number of bytes, a
reply of any size and every table (`RepliesWithClosest`). Of `^` it assumes only what
`QueriesAssumption` says: bytes are numbers, and no two bytes give the same with a third one. So
`xorcmp` is decided by the first byte that differs (`CloserFacts`) and is a strict total order
around an id. An insertion then keeps the closest of what the buffer was given (`InsertKeeps`),
whether it finds the node there already, has room, or drops the last; that it stops at the end of
a full buffer loses nothing because every node in it is closer. `BufferKeeps` follows the loop over
a bucket's list by induction, and the theorem puts the three buckets together. `BucketFound` says
that the bucket they lie around is the one whose range holds the id, as the first bucket of a table
starts at the id of zeros (`dht_init`).

### Only model-checked

- Liveness: `CallReturns`, `SearchEnds`. TLAPS does not do fairness.
- `BencodeRoundTrips`, `DecoderStaysInside`, `SentMessagesReadBack`: the codec is recursive over
  the nesting of values. `ClosestNodesFirst` is about the inputs of one run, with the numbers and
  Bitwise's `^^` as the reference; its central part, `ClosestOf`, is the statement of
  `RepliesWithClosest`. That the nodes of the id's own bucket come first, the nodes saved and the
  statistics are left to TLC.

## Plan

1. Prove of `dht_get_nodes` and `dht_nodes` what `ClosestNodesFirst` checks of them.
2. Compose the routing table with searches: the nodes `dht_search` takes from buckets, and the
   requests it counts against them. Today each module knows the other by what it is given.

## Not modelled

- `sendto` and its errors: the senders are modelled up to the bytes they hand over.
- `dht_dump_tables`: it only prints.
- A clock that is set back: `now` never decreases in the models. In the code a
  negative refill of the token bucket then lets all requests through for a while.
- Freeing in libbenc and of messages. Bytes above 127 in keys, whose sign `benc_bstr_compare` would
  see, are not among the inputs.
- `f4dns_is_valid`: a check of the syntax of a name, taken by its outcome. The hash of a name and
  the hash of a token are taken to be free of collisions.
- `properties.c`: one pass over the characters of the file of peers; its outcome is a step of
  `f4_init`.
- seccure and `crypto.c`: arithmetic on large integers. `dht-example.c`, the tests: not part of
  the program.
