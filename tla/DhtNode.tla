------------------------------ MODULE DhtNode ------------------------------
(***************************************************************************)
(* The life of the DHT library (dht/dht.c) from dht_init to dht_uninit,    *)
(* with what lives in between and is of no other module: the storage of    *)
(* announced peers and the tokens given out for announcing.  The routing   *)
(* table and the searches appear only as memory that is held or not;       *)
(* modules RoutingTable and Search show what is in them.                   *)
(*                                                                         *)
(* dht_periodic still rotates the secrets and expires the storage; the     *)
(* handlers that call make_token, token_match and storage_store are        *)
(* commented out in this revision, and the three are modelled as calls     *)
(* that may come at any time while the library is up.                      *)
(***************************************************************************)
EXTENDS Integers, Sequences, FiniteSets, Subsequences

CONSTANTS
    Hash,           \* info hashes
    Peer,           \* addresses with port, of either family
    MaxHashes,      \* DHT_MAX_HASHES (16384)
    MaxPeers,       \* DHT_MAX_PEERS (2048)
    PeerAge,        \* after which a stored peer expires (32 * 60)
    RotateWait,     \* shortest time between two rotations (900)
    RotateSpan,     \* and the random part on top of it (1800)
    ExpireWait,     \* shortest time between two expirations (120)
    ExpireSpan,     \* and the random part on top of it (240)
    MaxTime,        \* bound on the clock
    MaxDraws        \* bound on the secrets drawn

ASSUME DhtNodeAssumption ==
    /\ MaxHashes \in Nat \ {0} /\ MaxPeers \in Nat \ {0}
    /\ PeerAge \in Nat /\ RotateWait \in Nat \ {0} /\ ExpireWait \in Nat \ {0}
    /\ RotateSpan \in Nat \ {0} /\ ExpireSpan \in Nat \ {0}
    /\ MaxTime \in Nat /\ MaxDraws \in Nat \ {0}

VARIABLES
    now,                    \* the clock
    sockets,                \* families whose dht_socket is not -1
    tables,                 \* families whose bucket list is not NULL
    searches,               \* is the list of searches not empty?
    storage,                \* list of [id, peers, maxpeers], newest first
    numstorage,
    secret, oldsecret,      \* 0 for the zeroes of dht_init
    rotate_secrets_time,
    expire_stuff_time,
    phase,                  \* of the caller: "off", "up", "down" or "freed"
    drawn,                  \* secrets drawn so far
    issued                  \* the token last given out, with the time and the draw

timers == <<rotate_secrets_time, expire_stuff_time>>
store == <<storage, numstorage>>
secrets == <<secret, oldsecret, drawn>>
life == <<sockets, tables, phase>>
vars == <<now, sockets, tables, searches, storage, numstorage, secret, oldsecret,
          rotate_secrets_time, expire_stuff_time, phase, drawn, issued>>

Stored == [peer : Peer, time : 0 .. MaxTime]

------------------------------------------------------------------------------
(* Tokens *)

(* dht_hash over a secret and an address: taken to be free of collisions. *)
make_token(p, s) == [peer |-> p, secret |-> s]

token_match(token, p) ==
    token \in {make_token(p, secret), make_token(p, oldsecret)}

(* Mutant of Rotate: the old secret is not kept up. *)
RotateForgetsOld(current, ok) ==
    /\ rotate_secrets_time' \in {now + RotateWait + r : r \in 0 .. RotateSpan - 1}
    /\ oldsecret' = oldsecret
    /\ \/ drawn < MaxDraws /\ secret' = drawn + 1 /\ drawn' = drawn + 1
       \/ ~ ok /\ secret' = current /\ UNCHANGED drawn

(* rotate_secrets: when dht_random_bytes fails the secret stays as it was or is *)
(* overwritten in part.                                                         *)
Rotate(current, ok) ==
    /\ rotate_secrets_time' \in {now + RotateWait + r : r \in 0 .. RotateSpan - 1}
    /\ oldsecret' = current
    /\ \/ drawn < MaxDraws /\ secret' = drawn + 1 /\ drawn' = drawn + 1
       \/ ~ ok /\ secret' = current /\ UNCHANGED drawn

------------------------------------------------------------------------------
(* Stored peers *)

Places(id) == {i \in DOMAIN storage : storage[i].id = id}

(* find_storage: where in the list the hash is, 0 if it is not there. *)
find_storage(id) ==
    IF Places(id) = {} THEN 0
    ELSE CHOOSE i \in Places(id) : \A j \in Places(id) : i <= j

(* The array of a record doubles from 2 up to DHT_MAX_PEERS. *)
Grown(max) ==
    LET n == IF max = 0 THEN 2 ELSE 2 * max
    IN  IF n < MaxPeers THEN n ELSE MaxPeers

(* Mutant of AddPeer: the array grows without limit. *)
AddPeerUnlimited(st, p, canGrow) ==
    IF \E i \in DOMAIN st.peers : st.peers[i].peer = p THEN st
    ELSE [st EXCEPT !.peers = Append(@, [peer |-> p, time |-> now]),
                    !.maxpeers = IF Len(st.peers) < @ THEN @ ELSE @ + 2]

(* The second half of storage_store on one record: refresh, refuse, or append *)
(* to the array, growing it first if the allocator gives the memory.          *)
AddPeer(st, p, canGrow) ==
    LET at == {i \in DOMAIN st.peers : st.peers[i].peer = p}
        full == Len(st.peers) >= st.maxpeers
    IN  IF at # {}
        THEN [st EXCEPT !.peers = [i \in DOMAIN st.peers |->
                  IF i \in at THEN [st.peers[i] EXCEPT !.time = now] ELSE st.peers[i]]]
        ELSE IF full /\ (st.maxpeers >= MaxPeers \/ ~ canGrow) THEN st
        ELSE [st EXCEPT !.peers = Append(@, [peer |-> p, time |-> now]),
                        !.maxpeers = IF full THEN Grown(@) ELSE @]

(* storage_store: a new record is linked before its array is allocated. *)
storage_store(id, p) ==
    LET i == find_storage(id)
    IN  /\ phase = "up"
        /\ \E canAlloc, canGrow \in BOOLEAN :
              \/ /\ i # 0
                 /\ storage' = [storage EXCEPT ![i] = AddPeer(@, p, canGrow)]
                 /\ UNCHANGED numstorage
              \/ /\ i = 0
                 /\ numstorage < MaxHashes /\ canAlloc
                 /\ storage' = <<AddPeer([id |-> id, peers |-> <<>>, maxpeers |-> 0],
                                         p, canGrow)>> \o storage
                 /\ numstorage' = numstorage + 1
              \/ /\ i = 0
                 /\ numstorage >= MaxHashes \/ ~ canAlloc
                 /\ UNCHANGED store
        /\ UNCHANGED <<now, timers, secrets, life, searches, issued>>

(* The last peer fills the hole at i. *)
FillHole(s, i) == [k \in 1 .. Len(s) - 1 |-> IF k = i THEN s[Len(s)] ELSE s[k]]

(* Mutant of ScanStep: the scan moves on past the peer it has just moved. *)
ScanStepSkips(scan) ==
    IF scan.i > Len(scan.s) THEN scan
    ELSE IF scan.s[scan.i].time < now - PeerAge
    THEN [s |-> FillHole(scan.s, scan.i), i |-> scan.i + 1]
    ELSE [s |-> scan.s, i |-> scan.i + 1]

(* One turn of the inner loop of expire_storage, at the i-th of the peers s. *)
ScanStep(scan) ==
    IF scan.i > Len(scan.s) THEN scan
    ELSE IF scan.s[scan.i].time < now - PeerAge
    THEN [s |-> FillHole(scan.s, scan.i), i |-> scan.i]
    ELSE [s |-> scan.s, i |-> scan.i + 1]

(* The inner loop: every turn either drops a peer or moves on, so it ends *)
(* after as many turns as there are peers.                                *)
Unexpired(peers) ==
    LET scan[n \in 0 .. Len(peers)] ==
            IF n = 0 THEN [s |-> peers, i |-> 1] ELSE ScanStep(scan[n - 1])
    IN  scan[Len(peers)].s

(* The list, each record without the peers that are too old. *)
Scanned == [i \in DOMAIN storage |-> [storage[i] EXCEPT !.peers = Unexpired(@)]]

(* Mutant of expire_storage: the count is not taken down. *)
ExpireKeepsCount ==
    /\ storage' = At(Scanned, {i \in DOMAIN Scanned : Scanned[i].peers # <<>>})
    /\ UNCHANGED numstorage

(* expire_storage: a record without peers goes, and so do those that never got *)
(* any because their array could not be allocated.                             *)
expire_storage ==
    LET gone == {i \in DOMAIN Scanned : Scanned[i].peers = <<>>}
        left == numstorage - Cardinality(gone)
    IN  /\ storage' = At(Scanned, DOMAIN Scanned \ gone)
        /\ numstorage' = IF left < 0 THEN 0 ELSE left

------------------------------------------------------------------------------
(* The calls *)

Init ==
    /\ now = 0
    /\ sockets = {} /\ tables = {} /\ searches = FALSE
    /\ storage = <<>> /\ numstorage = 0
    /\ secret = 0 /\ oldsecret = 0 /\ drawn = 0
    /\ rotate_secrets_time = 0 /\ expire_stuff_time = 0
    /\ phase = "off"
    /\ issued = {}

(* The test at the head of dht_init. *)
Busy == sockets # {} \/ tables # {}

(* dht_init answers EBUSY. *)
InitBusy == Busy /\ UNCHANGED vars

(* The lists are emptied by setting their heads to NULL. *)
ForgetLists ==
    /\ searches' = FALSE
    /\ storage' = <<>> /\ numstorage' = 0

(* An error on the way: no memory for a bucket (return -1), or a socket that   *)
(* cannot be set non-blocking (fail).  The bucket list of IPv4 is made first,  *)
(* and fail frees that one only.                                               *)
InitFailsEarly(fams) ==
    /\ ~ Busy
    /\ ForgetLists
    /\ \/ 4 \in fams /\ UNCHANGED tables            \* no bucket, or IPv4 fails
       \/ 6 \in fams /\ tables' = fams \ {6}        \* no bucket for IPv6
       \/ 6 \in fams /\ tables' = {6}               \* IPv6 fails, IPv4 is freed
    /\ UNCHANGED <<now, sockets, phase, secrets, timers, issued>>

(* rotate_secrets fails: the secrets have changed all the same. *)
InitFailsLate(fams) ==
    /\ ~ Busy
    /\ ForgetLists
    /\ Rotate(0, FALSE)
    /\ tables' = fams \ {4}
    /\ UNCHANGED <<now, sockets, phase, expire_stuff_time, issued>>

InitSucceeds(fams) ==
    /\ ~ Busy
    /\ ForgetLists
    /\ Rotate(0, TRUE)
    /\ tables' = fams
    /\ sockets' = fams
    /\ expire_stuff_time' \in {now + ExpireWait + r : r \in 0 .. ExpireSpan - 1}
    /\ phase' = "up"
    /\ UNCHANGED <<now, issued>>

dht_init(fams) ==
    InitBusy \/ InitFailsEarly(fams) \/ InitFailsLate(fams) \/ InitSucceeds(fams)

(* Mutant of dht_uninit: the library is made ready for another dht_init before *)
(* dofree is looked at.                                                        *)
UninitKeepsLists(dofree) ==
    /\ phase # "off"
    /\ phase' = IF dofree THEN "freed" ELSE "down"
    /\ tables' = {} /\ sockets' = {}
    /\ UNCHANGED <<searches, store, now, timers, secrets, issued>>

(* dht_uninit: refused without an IPv4 socket; the sockets stay set, and the    *)
(* bucket list of IPv6 stays where it is.                                       *)
dht_uninit(dofree) ==
    /\ phase # "off"
    /\ phase' = IF dofree THEN "freed" ELSE "down"
    /\ \/ /\ 4 \notin sockets \/ ~ dofree
          /\ UNCHANGED <<tables, searches, store>>
       \/ /\ 4 \in sockets /\ dofree
          /\ tables' = tables \ {4}
          /\ searches' = FALSE
          /\ storage' = <<>>
          /\ UNCHANGED numstorage
    /\ UNCHANGED <<now, timers, secrets, sockets, issued>>

(* dht_search gets a record on the list of searches: see module Search. *)
StartSearch ==
    /\ phase = "up" /\ ~ searches
    /\ searches' = TRUE
    /\ UNCHANGED <<now, timers, store, secrets, life, issued>>

(* make_token for the sender of a request. *)
GiveToken(p) ==
    /\ phase = "up"
    /\ issued' = {[token |-> make_token(p, secret), time |-> now, draw |-> drawn]}
    /\ UNCHANGED <<now, timers, store, secrets, life, searches>>

(* dht_periodic after `dontread', as far as these variables go. *)
dht_periodic ==
    /\ phase = "up"
    /\ \/ /\ now >= rotate_secrets_time
          /\ \E ok \in BOOLEAN : Rotate(secret, ok)
       \/ /\ now < rotate_secrets_time
          /\ UNCHANGED <<secrets, rotate_secrets_time>>
    /\ \/ /\ now >= expire_stuff_time
          /\ expire_storage
          /\ expire_stuff_time' \in {now + ExpireWait + r : r \in 0 .. ExpireSpan - 1}
          /\ searches' \in {searches, FALSE}        \* expire_searches
       \/ /\ now < expire_stuff_time
          /\ UNCHANGED <<store, expire_stuff_time, searches>>
    /\ UNCHANGED <<now, life, issued>>

(* The clock is looked at only while the library is up. *)
Tick ==
    /\ phase = "up" /\ now < MaxTime
    /\ now' = now + 1
    /\ UNCHANGED <<timers, store, secrets, life, searches, issued>>

Next ==
    \/ \E fams \in (SUBSET {4, 6}) \ {{}} : dht_init(fams)
    \/ \E dofree \in BOOLEAN : dht_uninit(dofree)
    \/ \E id \in Hash, p \in Peer : storage_store(id, p)
    \/ \E p \in Peer : GiveToken(p)
    \/ StartSearch
    \/ dht_periodic
    \/ Tick

Spec == Init /\ [][Next]_vars

------------------------------------------------------------------------------
(* Properties *)

(* The globals of dht.c have their types. *)
TypeOK ==
    /\ now \in 0 .. MaxTime
    /\ sockets \subseteq {4, 6} /\ tables \subseteq {4, 6} /\ searches \in BOOLEAN
    /\ storage \in Seq([id : Hash, peers : Seq(Stored), maxpeers : 0 .. MaxPeers])
    /\ numstorage \in 0 .. MaxHashes
    /\ drawn \in Nat /\ secret \in 0 .. drawn /\ oldsecret \in 0 .. drawn
    /\ rotate_secrets_time \in Nat /\ expire_stuff_time \in Nat
    /\ phase \in {"off", "up", "down", "freed"}

(* numstorage, kept by hand in storage_store and expire_storage, is the number  *)
(* of records, failed allocations and expired records included; no hash has two *)
(* records, no peer is twice in one, and no array is fuller than its size.      *)
StorageConsistent ==
    /\ phase = "up" => numstorage = Len(storage)
    /\ \A i, j \in DOMAIN storage : i # j => storage[i].id # storage[j].id
    /\ \A i \in DOMAIN storage :
          LET st == storage[i]
          IN  /\ Len(st.peers) <= st.maxpeers /\ st.maxpeers <= MaxPeers
              /\ \A k, l \in DOMAIN st.peers :
                    k # l => st.peers[k].peer # st.peers[l].peer

(* The peers stored, as a set. *)
Entries ==
    UNION {{[id |-> storage[i].id, peer |-> storage[i].peers[k].peer,
             time |-> storage[i].peers[k].time] : k \in DOMAIN storage[i].peers}
           : i \in DOMAIN storage}

(* While the library is up, a step either expires peers or does not: the ones *)
(* that are not too old stay, with their time or refreshed, and no other ones  *)
(* are there after a sweep.                                                    *)
OldPeersGo ==
    phase = "up" /\ phase' = "up" =>
        LET swept == expire_stuff_time' # expire_stuff_time
            kept == {e \in Entries : swept => e.time >= now - PeerAge}
        IN  /\ \A e \in kept : \E f \in Entries' :
                  f.id = e.id /\ f.peer = e.peer /\ f.time \in {e.time, now}
            /\ swept => Entries' = kept

(* expire_storage, which fills holes from the end of the array while it scans   *)
(* it, drops every peer that is too old and nothing else; between expirations   *)
(* a stored peer is only ever refreshed.                                        *)
PeersExpireExactly == [][OldPeersGo]_vars

(* A stored peer is not kept, and given to those who ask, for much longer than  *)
(* its age: as long as dht_periodic is called when a sweep is due, it outlives  *)
(* its age by less than the longest time between two sweeps, wherever the       *)
(* random times of the sweeps fall and however often it just escapes one.       *)
PeersLeaveInTime ==
    phase = "up" /\ now <= expire_stuff_time =>
        \A e \in Entries : now - e.time < PeerAge + ExpireWait + ExpireSpan

(* A token is accepted at least for the shortest time between two rotations,    *)
(* however the rotations of dht_periodic fall and whether or not                *)
(* dht_random_bytes fails, since token_match also tries the secret before this  *)
(* one; and it is refused once two secrets have been drawn after it was given.  *)
TokenWindow ==
    phase = "up" => \A i \in issued :
        /\ now < i.time + RotateWait => token_match(i.token, i.token.peer)
        /\ drawn >= i.draw + 2 => ~ token_match(i.token, i.token.peer)

(* dht_init empties the lists of stored peers and searches by overwriting their *)
(* heads: whenever it may get past its test for EBUSY, after whatever calls of  *)
(* dht_init and dht_uninit before, those lists hold nothing.                    *)
InitLosesNothing == ~ Busy => storage = <<>> /\ ~ searches

(* dht_uninit with dofree frees all the memory allocated for the DHT. *)
UninitFreesAll == phase = "freed" => tables = {} /\ storage = <<>> /\ ~ searches
=============================================================================
