------------------------------- MODULE Search -------------------------------
(***************************************************************************)
(* The searches of dht/dht.c, for one address family: the list of          *)
(* searches, the nodes each walks, the timer that steps them and the       *)
(* get_peers requests in flight.                                           *)
(*                                                                         *)
(* A time of the code is kept as its age, the seconds since then, up to    *)
(* MaxAge: a time of 0 is older than any limit.  Ages make the clock       *)
(* unbounded.  search_time lies in the future: it is kept as the seconds   *)
(* that are left.  The routing table appears as the nodes it can offer.    *)
(***************************************************************************)
EXTENDS Integers, Sequences, FiniteSets, FiniteSetsExt, Subsequences

CONSTANTS
    Targets,       \* the hashes the application searches for
    Peers,         \* the ids of the other nodes
    Dist,          \* Dist[t][p]: the xor distance of p to t (xorcmp)
    SearchNodes,   \* nodes a search keeps (SEARCH_NODES, 14)
    K,             \* live nodes that must have replied (8)
    Burst,         \* requests sent by a step (3)
    MaxSearches,   \* DHT_MAX_SEARCHES (1024)
    Tids,          \* how many transaction ids there are (65536)
    StepWait,      \* seconds between two steps of a search (5)
    RequestWait,   \* seconds a request is given to be answered (15)
    Jitter,        \* random seconds added to the timer (0 to 9)
    ReplyAge,      \* a reply is worth something for this long (7200)
    ExpireAge,     \* DHT_SEARCH_EXPIRE_TIME (3720)
    MaxAge,        \* bound on ages
    MaxCalls,      \* bound on the calls of dht_search
    MaxReplies,    \* bound on the replies received
    AllocOutcomes  \* what calloc may do: {TRUE}, or BOOLEAN if it may fail

ASSUME DistAssumption ==
    /\ IsFiniteSet(Peers)
    /\ Dist \in [Targets -> [Peers -> Nat]]
    /\ \A t \in Targets : \A p, q \in Peers : Dist[t][p] = Dist[t][q] => p = q

ASSUME SizesAssumption ==
    /\ {SearchNodes, K, Burst, MaxSearches, Tids} \subseteq Nat \ {0}
    /\ {MaxCalls, MaxReplies, Jitter} \subseteq Nat

ASSUME AgesAssumption ==
    /\ {StepWait, RequestWait, ReplyAge, ExpireAge, MaxAge} \subseteq Nat
    /\ StepWait <= RequestWait
    /\ \A age \in {StepWait, RequestWait, ReplyAge, ExpireAge} : age < MaxAge

VARIABLES
    searches,    \* the list of searches
    search_id,   \* the transaction id of the next search
    wake,        \* seconds until search_time, NoWake when search_time is 0
    net,         \* get_peers requests the network may still answer
    told,        \* per target, completions reported since dht_search was last called
    silent,      \* targets last searched for with no callback and no node to begin with
    calls,       \* calls of dht_search so far
    replies      \* replies received so far

svars == <<searches, search_id, wake, net, told, silent, calls, replies>>

Age == 0 .. MaxAge
Never == MaxAge
NoWake == -1
MaxRequests == 3

SearchNode == [id : Peers, request : Age, reply : Age, pinged : 0 .. MaxRequests,
               token : BOOLEAN, replied : BOOLEAN, acked : BOOLEAN]

SearchRec == [id : Targets, tid : 0 .. Tids - 1, step : Age, announce : BOOLEAN,
              done : BOOLEAN, nodes : Seq(SearchNode)]

Request == [tid : 0 .. Tids - 1, to : Peers, target : Targets]

-----------------------------------------------------------------------------
(* The nodes of a search *)

FreshSearchNode(id) ==
    [id |-> id, request |-> Never, reply |-> Never, pinged |-> 0,
     token |-> FALSE, replied |-> FALSE, acked |-> FALSE]

(* Mutant of Place: new nodes go to the end of the list. *)
PlaceAtEnd(sr, id) ==
    LET same == {i \in DOMAIN sr.nodes : sr.nodes[i].id = id}
    IN  IF same = {} THEN Len(sr.nodes) + 1 ELSE Min(same)

(* Where the loop of insert_search_node stops: at the id, or before a node farther away. *)
Place(sr, id) ==
    LET nodes == sr.nodes
        stops == {i \in DOMAIN nodes :
                    nodes[i].id = id \/ Dist[sr.id][id] < Dist[sr.id][nodes[i].id]}
    IN  IF stops = {} THEN Len(nodes) + 1 ELSE Min(stops)

(* Everything from i on moves up; the last of a full list falls off. *)
Shifted(nodes, i, n) ==
    [j \in 1 .. Min({Len(nodes) + 1, SearchNodes}) |->
        IF j < i THEN nodes[j] ELSE IF j = i THEN n ELSE nodes[j - 1]]

(* insert_search_node of a node that was only named. *)
InsertSearchNode(sr, id) ==
    LET i == Place(sr, id)
        found == i \in DOMAIN sr.nodes /\ sr.nodes[i].id = id
    IN  IF found \/ i > SearchNodes
            THEN sr
            ELSE [sr EXCEPT !.nodes = Shifted(@, i, FreshSearchNode(id))]

(* insert_search_bucket, or the nodes of a reply, whatever their order. *)
InsertAll(sr, ids) == FoldSet(LAMBDA id, s : InsertSearchNode(s, id), sr, ids)

(* insert_search_node of the node that replied.  A token of 40 bytes or more is not kept. *)
TokenKinds == {"empty", "usable", "overlong"}

MarkReplied(n, token) ==
    [n EXCEPT !.replied = TRUE, !.reply = 0, !.request = Never, !.pinged = 0,
              !.token = IF token = "overlong" THEN @ ELSE token = "usable"]

InsertReplied(sr, id, token) ==
    LET with == InsertSearchNode(sr, id)
    IN  [with EXCEPT !.nodes = [i \in DOMAIN @ |->
            IF @[i].id = id THEN MarkReplied(@[i], token) ELSE @[i]]]

(* flush_search_node, for the node with this id. *)
FlushSearchNode(sr, id) ==
    [sr EXCEPT !.nodes = At(@, {i \in DOMAIN @ : @[i].id # id})]

-----------------------------------------------------------------------------
(* Sending requests *)

Live(n) == n.pinged < MaxRequests

MayAsk(n) == Live(n) /\ ~ n.replied /\ n.request > RequestWait

(* The first n members of a set of positions. *)
FirstOf(S, n) == {i \in S : Cardinality({j \in S : j < i}) < n}

Sent(n) == [n EXCEPT !.pinged = @ + 1, !.request = 0]

Asked(sr, I) ==
    [sr EXCEPT !.nodes = [i \in DOMAIN @ |-> IF i \in I THEN Sent(@[i]) ELSE @[i]]]

RequestsTo(sr, I) == {[tid |-> sr.tid, to |-> sr.nodes[i].id, target |-> sr.id] : i \in I}

Askable(sr) == {i \in DOMAIN sr.nodes : MayAsk(sr.nodes[i])}

(* search_send_get_peers without a node: the loop has no break, the last one wins. *)
Pushed(sr) == IF Askable(sr) = {} THEN {} ELSE {Max(Askable(sr))}

-----------------------------------------------------------------------------
(* search_step *)

(* The first live nodes, the ones that must have replied. *)
Front(sr) == FirstOf({i \in DOMAIN sr.nodes : Live(sr.nodes[i])}, K)

AllDone(sr) == \A i \in Front(sr) : sr.nodes[i].replied

AllAcked(sr) == \A i \in Front(sr) : sr.nodes[i].acked \/ ~ sr.nodes[i].token

Completes(sr) == AllDone(sr) /\ (sr.announce => AllAcked(sr))

(* announce_peer goes to the front nodes that gave a token and did not acknowledge yet. *)
Announced(sr) ==
    [sr EXCEPT !.nodes = [i \in DOMAIN @ |->
        IF i \notin Front(sr) THEN @[i]
        ELSE IF ~ @[i].token THEN [@[i] EXCEPT !.acked = TRUE]
        ELSE IF @[i].acked THEN @[i] ELSE Sent(@[i])]]

(* The nodes a step sends get_peers to. *)
StepAsks(sr) ==
    IF AllDone(sr) \/ sr.step <= RequestWait THEN {} ELSE FirstOf(Askable(sr), Burst)

(* Mutant of SearchStep: requests are not counted. *)
SearchStepUncounted(sr) ==
    IF AllDone(sr)
        THEN [(IF sr.announce THEN Announced(sr) ELSE sr) EXCEPT
                !.done = Completes(sr), !.step = 0]
    ELSE IF sr.step <= RequestWait THEN sr
    ELSE [sr EXCEPT !.step = 0]

SearchStep(sr) ==
    IF AllDone(sr)
        THEN [(IF sr.announce THEN Announced(sr) ELSE sr) EXCEPT
                !.done = Completes(sr), !.step = 0]
    ELSE IF sr.step <= RequestWait THEN sr
    ELSE [Asked(sr, StepAsks(sr)) EXCEPT !.step = 0]

(* Completions reported so far, counted up to 2. *)
Report(n) == IF n < 2 THEN n + 1 ELSE n

-----------------------------------------------------------------------------
(* dht_search *)

(* A search reused for the same hash: doubtful nodes go, the others start again. *)
Reused(sr) ==
    LET nodes == sr.nodes
        kept == At(nodes, {i \in DOMAIN nodes : Live(nodes[i]) /\ nodes[i].reply <= ReplyAge})
    IN  [sr EXCEPT !.done = FALSE,
                   !.nodes = [i \in DOMAIN kept |->
                        [kept[i] EXCEPT !.pinged = 0, !.token = FALSE,
                                        !.replied = FALSE, !.acked = FALSE]]]

(* Mutant of NewRec: the transaction id is not advanced. *)
NewRecSameTid(t) ==
    [id |-> t, tid |-> 0, step |-> Never, announce |-> FALSE, done |-> FALSE, nodes |-> <<>>]

NewRec(t) ==
    [id |-> t, tid |-> search_id, step |-> Never, announce |-> FALSE,
     done |-> FALSE, nodes |-> <<>>]

(* Mutant of OldestDone: unfinished searches are not spared. *)
OldestOfAll ==
    {i \in DOMAIN searches :
        \A j \in DOMAIN searches : searches[j].step <= searches[i].step}

(* The finished searches stepped the longest ago. *)
OldestDone ==
    {i \in DOMAIN searches :
        /\ searches[i].done
        /\ \A j \in DOMAIN searches : searches[j].done => searches[j].step <= searches[i].step}

(* Mutant of NewSearch: one slot more than the limit. *)
NewSearchOneMore(t) ==
    UNION {IF ok /\ Len(searches) <= MaxSearches
                THEN {[list |-> <<NewRec(t)>> \o searches, at |-> 1]}
                ELSE {[list |-> [searches EXCEPT ![i] = NewRec(t)], at |-> i] : i \in OldestDone} :
            ok \in AllocOutcomes}

(* new_search: the lists of searches it may leave, with the slot to use at the i-th place. *)
NewSearch(t) ==
    LET expired == {i \in OldestDone : searches[i].step > ExpireAge}
        put(i) == [list |-> [searches EXCEPT ![i] = NewRec(t)], at |-> i]
        allocated == [list |-> <<NewRec(t)>> \o searches, at |-> 1]
    IN  IF expired # {} THEN {put(i) : i \in expired}
        ELSE UNION {IF ok /\ Len(searches) < MaxSearches
                        THEN {allocated}
                        ELSE {put(i) : i \in OldestDone} : ok \in AllocOutcomes}

(* Mutant of SlotOf: finished searches are not looked at. *)
SlotOfUnfinished(t) == {i \in DOMAIN searches : searches[i].id = t /\ ~ searches[i].done}

(* The search of a hash that is already in the list. *)
SlotOf(t) == {i \in DOMAIN searches : searches[i].id = t}

(* The rest of dht_search, once the slot is known: the nodes the routing   *)
(* table offers are inserted, and the search makes its first step, which   *)
(* reports a completion only if the caller gave a callback.                *)
StartSearch(t, slot, announce, seeds, callback) ==
    LET sr == InsertAll([slot.list[slot.at] EXCEPT !.announce = announce], seeds)
    IN  /\ searches' = [slot.list EXCEPT ![slot.at] = SearchStep(sr)]
        /\ net' = net \cup RequestsTo(sr, StepAsks(sr))
        /\ told' = [told EXCEPT ![t] = IF Completes(sr) /\ callback THEN 1 ELSE 0]
        /\ silent' = IF callback \/ sr.nodes # <<>> THEN silent \ {t} ELSE silent \cup {t}
        /\ wake' = 0

SearchAgain(t, announce, seeds, callback) ==
    /\ \E i \in SlotOf(t) :
        StartSearch(t, [list |-> [searches EXCEPT ![i] = Reused(searches[i])], at |-> i],
                    announce, seeds, callback)
    /\ UNCHANGED search_id

SearchAnew(t, announce, seeds, callback) ==
    /\ SlotOf(t) = {}
    /\ \E slot \in NewSearch(t) : StartSearch(t, slot, announce, seeds, callback)
    /\ search_id' = (search_id + 1) % Tids

(* ENOSPC *)
SearchRefused(t) ==
    /\ SlotOf(t) = {} /\ OldestDone = {}
    /\ Len(searches) = MaxSearches \/ FALSE \in AllocOutcomes
    /\ UNCHANGED <<searches, search_id, wake, net, told, silent>>

(* callback may be NULL, and is for the only caller in the program (op_get.c). *)
DhtSearch ==
    /\ calls < MaxCalls
    /\ calls' = calls + 1
    /\ \E t \in Targets, announce, callback \in BOOLEAN, seeds \in SUBSET Peers :
        \/ SearchAgain(t, announce, seeds, callback)
        \/ SearchAnew(t, announce, seeds, callback)
        \/ SearchRefused(t)
    /\ UNCHANGED replies

-----------------------------------------------------------------------------
(* dht_periodic *)

ExpireSearches(list) == At(list, {i \in DOMAIN list : list[i].step <= ExpireAge})

(* Mutant of Due: finished searches are stepped too. *)
DueAlways(sr) == sr.step >= StepWait

Due(sr) == ~ sr.done /\ sr.step >= StepWait

(* Mutant of NextWake: only the first search of the list counts. *)
NextWakeOfFirst(list) ==
    IF list = <<>> \/ list[1].done THEN {NoWake}
    ELSE {Max({0, RequestWait - list[1].step + r}) : r \in 0 .. Jitter}

(* search_time, once the searches are stepped: the earliest next step, plus a random delay. *)
NextWake(list) ==
    LET waiting == {i \in DOMAIN list : ~ list[i].done}
        left == {RequestWait - list[i].step : i \in waiting}
    IN  IF waiting = {} THEN {NoWake} ELSE {Max({0, Min(left) + r}) : r \in 0 .. Jitter}

(* The end of dht_periodic, over the list and the requests its beginning left. *)
Timers(list, requests) ==
    \E expire \in BOOLEAN :
        LET kept == IF expire THEN ExpireSearches(list) ELSE list
            due == {i \in DOMAIN kept : wake = 0 /\ Due(kept[i])}
            stepped == [i \in DOMAIN kept |-> IF i \in due THEN SearchStep(kept[i]) ELSE kept[i]]
        IN  /\ searches' = stepped
            /\ net' = requests \cup UNION {RequestsTo(kept[i], StepAsks(kept[i])) : i \in due}
            /\ told' = [t \in Targets |->
                            IF \E i \in due : kept[i].id = t /\ Completes(kept[i])
                                THEN Report(told[t]) ELSE told[t]]
            /\ wake' \in IF wake = 0 THEN NextWake(stepped) ELSE {wake}

(* dht_periodic, with no packet or with one that does not touch the searches.  Its *)
(* callback is always given (f4_cb_dht).                                           *)
Periodic ==
    /\ Timers(searches, net)
    /\ UNCHANGED <<search_id, silent, calls, replies>>

(* find_search: the first search with this transaction id. *)
FindSearch(tid) == FirstOf({i \in DOMAIN searches : searches[i].tid = tid}, 1)

(* broken_node, over the searches: the sender of a reply without nodes, with nodes *)
(* of an odd length or, for a known search, without a token is discarded.          *)
Snubbed(id) == [i \in DOMAIN searches |-> FlushSearchNode(searches[i], id)]

(* A reply with nodes and a token for the i-th search. *)
TakeReply(i, id, named, token) ==
    LET sr == InsertAll(searches[i], named)
    IN  [searches EXCEPT ![i] = InsertReplied(Asked(sr, Pushed(sr)), id, token)]

(* _dht_handle_response for "gp", past the tests of the message's form.  The *)
(* network may duplicate a reply: the request then stays in flight.          *)
HandleReply ==
    /\ replies < MaxReplies
    /\ replies' = replies + 1
    /\ \E r \in net, again \in BOOLEAN :
        LET left == IF again THEN net ELSE net \ {r}
        IN  \/ Timers(Snubbed(r.to), left)
            \/ FindSearch(r.tid) = {} /\ Timers(searches, left)
            \/ \E i \in FindSearch(r.tid), named \in SUBSET Peers, token \in TokenKinds :
                LET sr == InsertAll(searches[i], named)
                IN  Timers(TakeReply(i, r.to, named, token),
                           left \cup RequestsTo(sr, Pushed(sr)))
    /\ UNCHANGED <<search_id, silent, calls>>

(* Time passes. *)
Older(a) == IF a < MaxAge THEN a + 1 ELSE a

AgedNode(n) == [n EXCEPT !.request = Older(@), !.reply = Older(@)]

Tick ==
    /\ searches' = [i \in DOMAIN searches |->
            [searches[i] EXCEPT
                !.step = Older(@),
                !.nodes = [j \in DOMAIN @ |-> AgedNode(@[j])]]]
    /\ wake' = IF wake > 0 THEN wake - 1 ELSE wake
    /\ UNCHANGED <<search_id, net, told, silent, calls, replies>>

-----------------------------------------------------------------------------
(* dht_init; search_id is random. *)
Init ==
    /\ searches = <<>>
    /\ search_id \in 0 .. Tids - 1
    /\ wake = NoWake
    /\ net = {}
    /\ told = [t \in Targets |-> 0]
    /\ silent = {}
    /\ calls = 0
    /\ replies = 0

Next == DhtSearch \/ Periodic \/ HandleReply \/ Tick

Spec == Init /\ [][Next]_svars

(* dht_periodic is called again and again, as dht/README asks, and time passes. *)
FairSpec == Spec /\ WF_svars(Periodic) /\ WF_svars(Tick)

-----------------------------------------------------------------------------
(* Properties *)

(* Every variable has its type and no list is longer than its limit. *)
TypeOK ==
    /\ searches \in Seq(SearchRec) /\ Len(searches) <= MaxSearches
    /\ \A i \in DOMAIN searches : Len(searches[i].nodes) <= SearchNodes
    /\ search_id \in 0 .. Tids - 1
    /\ wake \in NoWake .. RequestWait + Jitter
    /\ net \subseteq Request
    /\ told \in [Targets -> 0 .. 2] /\ silent \subseteq Targets
    /\ calls \in 0 .. MaxCalls /\ replies \in 0 .. MaxReplies

(* The nodes of a search are sorted by strictly growing distance to its target, *)
(* whatever was inserted, shifted, flushed or reset: search_step takes the      *)
(* first live ones for the closest ones.  The comment of insert_search_node     *)
(* says the opposite order: see NodesSortedAsCommented.                         *)
NodesSorted ==
    \A s \in DOMAIN searches : \A i, j \in DOMAIN searches[s].nodes :
        i < j => Dist[searches[s].id][searches[s].nodes[i].id]
                    < Dist[searches[s].id][searches[s].nodes[j].id]

(* "A search contains a list of nodes, sorted by decreasing distance to the target" *)
(* (dht.c).  The code does the opposite: two nodes in a list are enough to refute   *)
(* it, and no run claims it.                                                        *)
NodesSortedAsCommented ==
    \A s \in DOMAIN searches : \A i, j \in DOMAIN searches[s].nodes :
        i < j => Dist[searches[s].id][searches[s].nodes[i].id]
                    > Dist[searches[s].id][searches[s].nodes[j].id]

(* Two calls of dht_search for one hash share one search. *)
OneSearchPerTarget ==
    \A i, j \in DOMAIN searches : searches[i].id = searches[j].id => i = j

(* As long as a search is unfinished, search_time is set: dht_periodic will step it. *)
TimerArmed == (\E i \in DOMAIN searches : ~ searches[i].done) => wake # NoWake

(* The completion of a search is reported exactly once per search, when it is done,   *)
(* with one exception: a search started without a callback and without a node to ask *)
(* is done at once and is never reported.                                             *)
CompletionToldOnce ==
    \A i \in DOMAIN searches :
        told[searches[i].id] =
            IF searches[i].done /\ searches[i].id \notin silent THEN 1 ELSE 0

(* "The callback function will additionally be called when the search is complete" *)
(* (dht/README).  The exception above refutes it, and no run claims it.            *)
CompletionsReported ==
    \A i \in DOMAIN searches : searches[i].done => told[searches[i].id] > 0

(* A reply still under way reaches the search that asked for it, or none: never *)
(* another search that took over its slot.                                      *)
RepliesReachTheirSearch ==
    \A r \in net : \A i \in FindSearch(r.tid) : searches[i].id = r.target

(* "A search in progress is identified by a unique transaction id" (dht.c). *)
UniqueTids ==
    \A i, j \in DOMAIN searches :
        ~ searches[i].done /\ ~ searches[j].done /\ searches[i].tid = searches[j].tid => i = j

(* The targets of unfinished searches that were stepped recently enough. *)
Unfinished == {searches[i].id : i \in {j \in DOMAIN searches :
                    ~ searches[j].done /\ searches[j].step <= ExpireAge}}

(* A step after which each of them still has its search. *)
UnfinishedStay == \A t \in Unfinished : \E i \in DOMAIN searches' : searches'[i].id = t

(* No slot is taken away from an unfinished search, neither by a new one nor by *)
(* expire_searches before its time.                                             *)
UnfinishedKept == [][UnfinishedStay]_svars

(* Once replies stop coming, every search is finished or dropped: silent nodes  *)
(* are asked three times and then no longer stand in its way.                   *)
SearchEnds ==
    \A t \in Targets :
        (\E i \in SlotOf(t) : ~ searches[i].done) ~> (\A i \in SlotOf(t) : searches[i].done)
=============================================================================
