------------------------------ MODULE Messages ------------------------------
(***************************************************************************)
(* The messages dht/dht.c writes (send_ping and its like) and reads back   *)
(* (dht_message_parse).                                                    *)
(*                                                                         *)
(* The senders print bencoded text piece by piece; a sender is given here  *)
(* as the value its pieces spell, entries in the order it prints them.     *)
(***************************************************************************)
EXTENDS Bencode

(* The bytes of the keys and the words of the protocol. *)
Word == [a |-> <<97>>, e |-> <<101>>, q |-> <<113>>, r |-> <<114>>, t |-> <<116>>,
         v |-> <<118>>, y |-> <<121>>, id |-> <<105, 100>>, n4 |-> <<110, 52>>, n6 |-> <<110, 54>>,
         port |-> <<112, 111, 114, 116>>, want |-> <<119, 97, 110, 116>>,
         nodes |-> <<110, 111, 100, 101, 115>>, nodes6 |-> <<110, 111, 100, 101, 115, 54>>,
         target |-> <<116, 97, 114, 103, 101, 116>>, token |-> <<116, 111, 107, 101, 110>>,
         values |-> <<118, 97, 108, 117, 101, 115>>,
         info_hash |-> <<105, 110, 102, 111, 95, 104, 97, 115, 104>>,
         ping |-> <<112, 105, 110, 103>>,
         find_node |-> <<102, 105, 110, 100, 95, 110, 111, 100, 101>>,
         get_peers |-> <<103, 101, 116, 95, 112, 101, 101, 114, 115>>,
         announce_peer |-> <<97, 110, 110, 111, 117, 110, 99, 101, 95, 112, 101, 101, 114>>]

Queries == {"ping", "find_node", "get_peers", "announce_peer"}

Str(bytes) == bobj_bstr_new(bytes)
List(elems) == [type |-> "list", val |-> elems]
Entry(key, obj) == <<[key |-> Word[key], val |-> obj]>>
Dict(entries) == [type |-> "dict", val |-> entries]

(* n bytes none of which is zero. *)
Bytes(n) == [k \in 1 .. n |-> 1]

MyId == Entry("id", Str(Bytes(20)))

my_v == Entry("v", Str(<<80, 50, 78, 83>>))   \* "P2NS", as f4_init_p2p passes it

(* The part of a message after its arguments: t, v and y. *)
Closing(tid, y) == Entry("t", Str(tid)) \o my_v \o Entry("y", Str(Word[y]))

Query(q, args, tid) ==
    Dict(Entry("a", Dict(args)) \o Entry("q", Str(Word[q])) \o Closing(tid, "q"))

Reply(args, tid) == Dict(Entry("r", Dict(args)) \o Closing(tid, "r"))

-----------------------------------------------------------------------------
(* The senders.  want is a set of "n4" and "n6". *)

Want(want) ==
    IF want = {} THEN <<>>
    ELSE Entry("want", List((IF "n4" \in want THEN <<Str(Word.n4)>> ELSE <<>>)
                            \o (IF "n6" \in want THEN <<Str(Word.n6)>> ELSE <<>>)))

send_ping(tid) == Query("ping", MyId, tid)

send_pong(tid) == Reply(MyId, tid)

send_find_node(tid, target, want) ==
    Query("find_node", MyId \o Entry("target", Str(target)) \o Want(want), tid)

send_get_peers(tid, infohash, want) ==
    Query("get_peers", MyId \o Entry("info_hash", Str(infohash)) \o Want(want), tid)

send_announce_peer(tid, infohash, port, token) ==
    Query("announce_peer", MyId \o Entry("info_hash", Str(infohash))
                           \o Entry("port", bobj_int_new(port)) \o Entry("token", Str(token)), tid)

send_peer_announced(tid) == Reply(MyId, tid)

send_error(tid, code, message) ==
    Dict(Entry("e", List(<<bobj_int_new(code), Str(message)>>)) \o Closing(tid, "e"))

MaxServed == 50

(* Mutant of Served: the slice has no limit. *)
ServedUnlimited(peers, len, j0) ==
    LET n == Len(peers)
        circle == [k \in 1 .. n |-> peers[((j0 + k - 1) % n) + 1]]
    IN  SelectSeq(circle, LAMBDA ip : Len(ip) = len)

(* The peers of the wanted family in the circular list, from place j0 on. *)
Served(peers, len, j0) ==
    LET n == Len(peers)
        circle == [k \in 1 .. n |-> peers[((j0 + k - 1) % n) + 1]]
        family == SelectSeq(circle, LAMBDA ip : Len(ip) = len)
    IN  SubSeq(family, 1, IF Len(family) < MaxServed THEN Len(family) ELSE MaxServed)

Port == <<26, 225>>

(* An empty string is left out; peers are ips of 4 or 16 bytes. *)
Optional(key, bytes) == IF bytes = <<>> THEN <<>> ELSE Entry(key, Str(bytes))

send_nodes_peers(tid, nodes, nodes6, len, peers, j0, token) ==
    LET served == Served(peers, len, j0)
        values == IF peers = <<>> THEN <<>>
                  ELSE Entry("values", List([k \in DOMAIN served |-> Str(served[k] \o Port)]))
    IN  Reply(MyId \o Optional("nodes", nodes) \o Optional("nodes6", nodes6)
              \o Optional("token", token) \o values, tid)

(* The bytes handed to sendto, none if the pieces do not fit.  CHECK lets   *)
(* the last piece end with the buffer, where snprintf puts its own zero.    *)
Written(obj, size) ==
    LET text == bobj_encode(obj)
    IN  IF Len(text) > size THEN {}
        ELSE IF Len(text) = size THEN {[text EXCEPT ![size] = NUL]}
        ELSE {text}

-----------------------------------------------------------------------------
(* The parser.  An outcome is the kind of message, "invalid", or one of the *)
(* ways the program ends: "abort" (an assertion) and "crash".               *)

Outcomes == Queries \cup {"response", "error", "invalid", "abort", "crash"}

IsString(found) == \E o \in found : o.type = "bstr"
IsDict(found) == \E o \in found : o.type = "dict"
The(found) == CHOOSE o \in found : TRUE

HasId(args) ==
    LET id == bobj_dict_lookup(args, Word.id)
    IN  IsString(id) /\ Len(The(id).val) = 20

(* q is compared with strcmp, but no zero byte ends it: it may not be equal *)
(* to the name it spells, and a name that is not known fails an assertion.  *)
QueryOutcomes(q) == {"abort"} \cup {name \in Queries : Word[name] = q}

ParseQuery(obj) ==
    LET args == bobj_dict_lookup(obj, Word.a)
        q == bobj_dict_lookup(obj, Word.q)
    IN  IF ~ IsDict(args) \/ ~ IsString(q) THEN {"invalid"}
        ELSE {IF name # "abort" /\ ~ HasId(The(args)) THEN "invalid" ELSE name :
                    name \in QueryOutcomes(The(q).val)}

ParseResponse(obj) ==
    LET args == bobj_dict_lookup(obj, Word.r)
    IN  IF IsDict(args) /\ HasId(The(args)) THEN {"response"} ELSE {"invalid"}

ParseError(obj) ==
    LET e == bobj_dict_lookup(obj, Word.e)
    IN  IF e = {} THEN {"crash"}
        ELSE IF The(e).type = "list" /\ Len(The(e).val) >= 2 THEN {"error"} ELSE {"invalid"}

(* Only the first byte of y is looked at. *)
ParseByType(obj, y) ==
    CASE y = Word.q[1] -> ParseQuery(obj)
      [] y = Word.r[1] -> ParseResponse(obj)
      [] y = Word.e[1] -> ParseError(obj)
      [] OTHER -> {"invalid"}

(* Where the length of y was meant, that of t is tested. *)
dht_message_parse_impl(obj) ==
    IF obj.type # "dict" THEN {"invalid"}
    ELSE LET t == bobj_dict_lookup(obj, Word.t)
             y == bobj_dict_lookup(obj, Word.y)
         IN  IF ~ IsString(t) \/ ~ IsString(y) \/ Len(The(t).val) # 1
                THEN {"invalid"}
                ELSE ParseByType(obj, The(y).val[1])

(* strdup stops at the first zero byte, at zero, but the decoder is told the *)
(* length of the datagram: a string with the zero in it takes it past the    *)
(* end of the copy.                                                          *)
LeavesCopy(text, decoded) ==
    LET zero == CHOOSE z \in 1 .. Len(text) + 1 :
                    At(text, z) = NUL /\ \A i \in 1 .. z - 1 : At(text, i) # NUL
    IN  decoded.ptr > zero + 1 \/ (decoded.ptr = zero + 1 /\ decoded.r # "ok")

(* What the decoder finds behind the copy is anything, as is what the head *)
(* of a list or dictionary without entries leads to.                       *)
dht_message_parse(text) ==
    LET decoded == bdec_mem(text, 1)
    IN  IF LeavesCopy(text, decoded) THEN Outcomes
        ELSE IF decoded.r = "crash" THEN {"crash"}
        ELSE IF decoded.r = "fail" THEN {"invalid"}
        ELSE IF ~ WellDefined(decoded.obj) THEN Outcomes
        ELSE dht_message_parse_impl(decoded.obj)
=============================================================================
