---------------------------- MODULE MCAlgorithms ----------------------------
(***************************************************************************)
(* The pure algorithms on small inputs.  Each behaviour picks one input;   *)
(* the invariants say what the algorithms compute for it.                  *)
(***************************************************************************)
EXTENDS Messages, TableQueries, FiniteSets, Bitwise

CONSTANTS
    MaxOps,       \* dictionary operations in a row
    MaxText       \* length of the texts the decoder is given

VARIABLE input    \* the input at hand, <<>> before it is picked

-----------------------------------------------------------------------------
(* Dictionaries, built from nothing by operations in every order *)

Keys == {<<5>>, <<5, 1>>, <<6>>, <<50, 58>>}

Values == <<bobj_int_new(0), bobj_int_new(LeastInt + 1), bobj_bstr_new(<<101, 58, 49>>),
            bobj_bstr_new(Bytes(10)),
            bobj_list_pop(bobj_list_push(bobj_list_push(bobj_list_new, bobj_int_new(109)),
                                         bobj_bstr_new(<<45>>)))>>

Ops == [op : {"insert"}, key : Keys, val : DOMAIN Values] \cup [op : {"remove"}, key : Keys]

Apply(dict, op) ==
    IF op.op = "insert" THEN bobj_dict_insert(dict, op.key, Values[op.val])
                        ELSE bobj_dict_remove(dict, op.key)

Built(ops) == FoldLeft(Apply, bobj_dict_new, ops)

(* The map the same operations make: the first value of a key stays. *)
Meant(ops, key) ==
    LET step(held, op) ==
            IF op.key # key THEN held
            ELSE IF op.op = "remove" THEN {}
            ELSE IF held = {} THEN {Values[op.val]} ELSE held
    IN  FoldLeft(step, {}, ops)

DictInputs == {<<"dict", ops>> : ops \in BoundedSeq(Ops, MaxOps)}

-----------------------------------------------------------------------------
(* Texts of every byte the decoder tells apart *)

Alphabet == {CharD, CharE, CharI, CharL, Minus, Colon, Zero, Zero + 1, Zero + 2, NUL, 1}

(* A value with everything in it, ... *)
Sample == bobj_encode(Dict(<<[key |-> <<1>>, val |-> List(<<bobj_int_new(-1), Str(Bytes(12))>>)],
                             [key |-> <<2, 1>>, val |-> bobj_int_new(21)]>>))

Changed(texts) == {ReplaceAt(text, i, c) : text \in texts, i \in 1 .. Len(Sample), c \in Alphabet}

(* ... two bytes of it changed, or cut short and one byte changed. *)
Damaged ==
    Changed(Changed({Sample}))
    \cup UNION {{ReplaceAt(text, i, c) : i \in DOMAIN text, c \in Alphabet} :
                    text \in Prefixes(Sample) \ {<<>>}}

(* Lengths and integers around the limits of a word, and lengths around the *)
(* one with which the sum of pointer and length wraps.                      *)
Limits ==
    {k * (WordSize \div 2) + d : k \in 1 .. 4, d \in -2 .. 2}
    \cup {WordSize - Base + d : d \in -12 .. 4}

Wide ==
    UNION {{Decimal(n) \o <<Colon>> \o Bytes(m),
            <<CharL>> \o Decimal(n) \o <<Colon>> \o Bytes(m) \o <<CharE>>,
            <<CharI>> \o Decimal(n) \o <<CharE>>,
            <<CharI, Minus>> \o Decimal(n) \o <<CharE>>} : n \in Limits, m \in 0 .. 2}

TextInputs == {<<"text", text>> : text \in BoundedSeq(Alphabet, MaxText) \cup Damaged \cup Wide}

-----------------------------------------------------------------------------
(* Messages.  Requests bear a transaction id of 4 bytes, replies the one of *)
(* the query: up to 16 bytes.                                               *)

Peers(n4, n6) == [k \in 1 .. n4 + n6 |-> [b \in 1 .. (IF k <= n4 THEN 4 ELSE 16) |-> k]]

TidInputs == {<<"message", kind, tid>> : kind \in {"ping", "pong", "announced"}, tid \in {1, 4, 16}}
WantInputs == {<<"message", kind, tid, want>> :
                    kind \in {"find_node", "get_peers"}, tid \in {1, 4}, want \in SUBSET {"n4", "n6"}}
AnnounceInputs == {<<"message", "announce", tid, port, token>> :
                    tid \in {1, 4}, port \in {1, 65535}, token \in {1, 8, 39}}
ErrorInputs == {<<"message", "error", tid, code>> : tid \in {1, 16}, code \in {203}}
NodesInputs == {<<"message", "nodes", tid, n, len, n4, j0, token>> :
                    tid \in {1, 16}, n \in {0, 1, 8}, len \in {4, 16}, n4 \in {1, 40, 75},
                    j0 \in {0, 20, 74}, token \in {0, 8}}

MessageInputs == TidInputs \cup WantInputs \cup AnnounceInputs \cup ErrorInputs \cup NodesInputs

Hash == Bytes(20)

(* The value an input stands for, the buffer of its sender, and its kind. *)
ValueOf(i) ==
    LET tid == Bytes(i[3])
    IN  CASE i[2] = "ping"      -> send_ping(tid)
          [] i[2] = "pong"      -> send_pong(tid)
          [] i[2] = "announced" -> send_peer_announced(tid)
          [] i[2] = "find_node" -> send_find_node(tid, Hash, i[4])
          [] i[2] = "get_peers" -> send_get_peers(tid, Hash, i[4])
          [] i[2] = "announce"  -> send_announce_peer(tid, Hash, i[4], Bytes(i[5]))
          [] i[2] = "error"     -> send_error(tid, i[4], Bytes(30))
          [] i[2] = "nodes"     -> send_nodes_peers(tid, Bytes(26 * i[4]), Bytes(38 * i[4]), i[5],
                                        Peers(i[6], 75 - i[6]), i[7], Bytes(i[8]))

SizeOf(i) == IF i[2] = "nodes" THEN 2048 ELSE 512

KindOf(i) ==
    CASE i[2] \in Queries -> i[2]
      [] i[2] = "announce" -> "announce_peer"
      [] i[2] = "error" -> "error"
      [] OTHER -> "response"

-----------------------------------------------------------------------------
(* Tables: ids of two bytes of two bits, buckets that follow our own id 0 *)

BitXor(a, b) == a ^^ b

IdOf(n) == <<n \div 4, n % 4>>
Number(id) == 4 * id[1] + id[2]

Tilings == {<<0>>, <<0, 8>>, <<0, 4, 8>>, <<0, 2, 4, 8>>}
Candidates == <<1, 5, 6, 9, 14>>

(* How each candidate is held: not at all, good, good and heard from since, or dubious. *)
Held == {"absent", "good", "later", "dubious"}

Table(tiling, held) ==
    [b \in DOMAIN tiling |->
        LET upper == IF b = Len(tiling) THEN 16 ELSE tiling[b + 1]
            mine == SelectSeq([k \in DOMAIN Candidates |-> k], LAMBDA k :
                        held[k] # "absent" /\ Candidates[k] \in tiling[b] .. upper - 1)
        IN  [first |-> IdOf(tiling[b]),
             nodes |-> [k \in DOMAIN mine |->
                            [id |-> IdOf(Candidates[mine[k]]),
                             good |-> held[mine[k]] # "dubious",
                             heard_later |-> held[mine[k]] = "later"]],
             has_candidate |-> b % 2 = 0]]

TableInputs == {<<"table", tiling, held, target>> :
                    tiling \in Tilings, held \in [DOMAIN Candidates -> Held], target \in {0, 5, 11}}

-----------------------------------------------------------------------------
Init == input = <<>>

Pick(inputs) == input = <<>> /\ input' \in inputs

PickDict == Pick(DictInputs)
PickText == Pick(TextInputs)
PickMessage == Pick(MessageInputs)
PickTable == Pick(TableInputs)

Next == PickDict \/ PickText \/ PickMessage \/ PickTable

Spec == Init /\ [][Next]_input

Is(kind) == input # <<>> /\ input[1] = kind

-----------------------------------------------------------------------------
(* Properties *)

(* What is put into a dictionary and taken out of it, in every order, is what the  *)
(* decoder makes of its encoding (bobj_dict_insert, bobj_encode, bdec_mem): each   *)
(* key leads to the value it was given, the keys are sorted, and the encoding      *)
(* fills exactly the buffer bobj_repsize asks for.  An empty dictionary is not     *)
(* decoded (WellDefined).                                                          *)
BencodeRoundTrips ==
    Is("dict") =>
        LET dict == Built(input[2])
            text == bobj_encode(dict)
            back == bdec_mem(text, 1)
        IN  /\ Len(text) = bobj_repsize(dict)
            /\ \A i \in 1 .. Len(dict.val) - 1 :
                    benc_bstr_compare(dict.val[i].key, dict.val[i + 1].key) < 0
            /\ WellDefined(dict) =>
                    /\ back = Done(dict, Len(text) + 1)
                    /\ \A key \in Keys : bobj_dict_lookup(back.obj, key) = Meant(input[2], key)

(* Where the digits that start at p end, and the number they spell, of any size. *)
RunEnd(text, p) == CHOOSE e \in p .. Len(text) + 1 :
                        ~ IsDigit(At(text, e)) /\ \A q \in p .. e - 1 : IsDigit(At(text, q))
Spelt(text, p) == FoldLeft(LAMBDA n, c : 10 * n + c - Zero, 0, SubSeq(text, p, RunEnd(text, p) - 1))

(* Whatever bytes it is given, the decoder does not move further than the zero     *)
(* byte behind them, and what it returns is encoded and decoded again to the same, *)
(* in no more bytes than it read if no number in them is too large for benc_int_t  *)
(* (bbuf_inc_ptr, benc_int_decode).  A string is returned exactly when all         *)
(* the bytes its length asks for are there, and refused when they are not, except  *)
(* for a length of 0 and for one with which b->ptr + len wraps (benc_bstr.c:95):   *)
(* only these two crash.  The bytes are those of a buffer as long as the decoder   *)
(* is told; dht_message_parse may hand it a shorter copy (LeavesCopy).             *)
DecoderStaysInside ==
    Is("text") =>
        LET text == input[2]
            back == bdec_mem(text, 1)
        IN  /\ back.ptr <= Len(text) + 1
            /\ \A p \in {q \in DOMAIN text : At(text, RunEnd(text, q)) = Colon} :
                LET from == RunEnd(text, p) + 1
                    wraps == Base + from - 1 + Spelt(text, p) >= WordSize
                    string == benc_bstr_decode(text, p)
                IN  /\ string.r = "crash" => Spelt(text, p) = 0 \/ wraps
                    /\ ~ wraps /\ Spelt(text, p) # 0 =>
                            (string.r = "ok" <=> from + Spelt(text, p) <= Len(text) + 1)
            /\ back.r = "ok" /\ WellDefined(back.obj) =>
                    /\ bdec_mem(bobj_encode(back.obj), 1).obj = back.obj
                    /\ (\A p \in DOMAIN text : Spelt(text, p) < WordSize \div 2) =>
                            bobj_repsize(back.obj) <= back.ptr - 1

(* Every message of the senders fits its buffer with room for the zero snprintf    *)
(* adds, is one bencoded value, and is read back as the kind it was written as if  *)
(* its transaction id has one byte, as nothing otherwise; a query may instead fail *)
(* the parser's assertion.                                                         *)
SentMessagesReadBack ==
    Is("message") =>
        LET obj == ValueOf(input)
            kind == KindOf(input)
        IN  /\ Written(obj, SizeOf(input)) = {bobj_encode(obj)}
            /\ WellDefined(obj) =>
                \A text \in Written(obj, SizeOf(input)) :
                    /\ bdec_mem(text, 1) = Done(obj, Len(text) + 1)
                    /\ IF input[3] = 1
                        THEN kind \in dht_message_parse(text)
                                /\ dht_message_parse(text) \subseteq {kind, "abort"}
                        ELSE dht_message_parse(text) = {"invalid"}

(* A reply carries the nodes closest to the id it was asked for, in order, among   *)
(* the good ones of the three buckets around it, and no node of another bucket     *)
(* before one of the id's own (send_closest_nodes); the nodes saved are good,      *)
(* different, as many as there are and room for, ours first (dht_get_nodes); and   *)
(* dht_nodes counts each node once.                                                *)
ClosestNodesFirst ==
    Is("table") =>
        LET table == Table(input[2], input[3])
            target == input[4]
            own == find_bucket(table, IdOf(target))
            good(B) == {n.id : n \in {m \in UNION {ToSet(table[b].nodes) : b \in B} : m.good}}
            distance(id) == Number(id) ^^ target
            reach == good({own - 1, own, own + 1} \cap DOMAIN table)
            reply == send_closest_nodes(table, IdOf(target))
            stats == dht_nodes(table)
            mine == find_bucket(table, IdOf(0))
        IN  /\ Len(reply) = (IF Cardinality(reach) < MaxClosest THEN Cardinality(reach) ELSE MaxClosest)
            /\ ToSet(reply) \subseteq reach
            /\ \A i, j \in DOMAIN reply : i < j => distance(reply[i]) < distance(reply[j])
            /\ \A id \in reach \ ToSet(reply), i \in DOMAIN reply : distance(reply[i]) < distance(id)
            /\ ClosestOf(reply, Reached(table, IdOf(target)), IdOf(target))
            /\ \A i, j \in DOMAIN reply : reply[j] \in good({own}) /\ i < j => reply[i] \in good({own})
            /\ \A num \in 0 .. 7 :
                LET saved == dht_get_nodes(table, IdOf(0), num)
                    all == good(DOMAIN table)
                IN  /\ Len(saved) = (IF Cardinality(all) < num THEN Cardinality(all) ELSE num)
                    /\ ToSet(saved) \subseteq all
                    /\ Cardinality(ToSet(saved)) = Len(saved)
                    /\ \A i, j \in DOMAIN saved :
                            saved[j] \in good({mine}) /\ i < j => saved[i] \in good({mine})
            /\ stats.good = Cardinality(good(DOMAIN table))
            /\ stats.good + stats.dubious = Cardinality({k \in DOMAIN Candidates : input[3][k] # "absent"})
            /\ stats.incoming <= stats.good /\ stats.cached <= Len(table)
=============================================================================
