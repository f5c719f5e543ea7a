------------------------------- MODULE Engine -------------------------------
(***************************************************************************)
(* The program around the DHT: the engine (ffff.c, stub.c), the DNS        *)
(* resolver (dns.c) and its get operations (ops.c, op_get.c).  f4_init     *)
(* takes one thing after the other and may fail in between, f4_free gives  *)
(* back what the members of the context say it has.  While it runs, a DNS  *)
(* request is turned into operations of the registry and searches of the   *)
(* DHT, whose events are looked up in the registry again.                  *)
(*                                                                         *)
(* Registry is used by its abstract specification, which RbTree            *)
(* implements; of Search only the set of hashes searched for remains.      *)
(* An assert that fails ends the process.                                  *)
(***************************************************************************)
EXTENDS Integers, Sequences, FiniteSets

CONSTANTS
    Name,           \* valid names, identified with the hashes made of them
    Request,        \* DNS requests (struct evdns_server_request)
    MaxQuestions    \* bound on the questions of a request

ASSUME EngineAssumption == Name \subseteq Int /\ MaxQuestions \in Nat \ {0}

VARIABLES
    stage,          \* "new", "ready", "running", "failed", "stopped", "freed", "aborted"
    family,         \* of listen_p2p, 4 or 6
    roles,          \* options given: "publish", "peers", "admin", "dns"
    members,        \* members of f4_ctx that are set
    held,           \* resources the process has
    registered,     \* operations in the registry
    lost,           \* operations that f4op_add refused: nobody points to them
    searching,      \* hashes the DHT searches for on behalf of an operation
    asked,          \* names of the questions turned into operations, per request
    answers         \* how often a request was answered

context == <<family, roles, members, held>>
resolver == <<registered, lost, searching, asked, answers>>
vars == <<stage, family, roles, members, held, registered, lost, searching, asked, answers>>

Role == {"publish", "peers", "admin", "dns"}
Op == [req : Request, at : 1 .. MaxQuestions, id : Name]
IdOf(op) == op.id

Reg == INSTANCE Registry WITH answer <- <<>>

------------------------------------------------------------------------------
(* f4_init *)

(* One step: the role it is for ("all" for every node), what it takes, and the *)
(* sets of things it may leave taken when it fails, none if it cannot fail.    *)
Step(role, takes, leaves) == [role |-> role, takes |-> takes, leaves |-> leaves]

(* The steps in the order of f4_init, f4_init_p2p, f4admin_init and f4dns_init.  *)
(* listen() on a datagram socket fails, and that is what f4_init_p2p goes on at; *)
(* what a failed dht_init leaves is shown in DhtNode.                            *)
Steps ==
    << Step("all", {"cp"}, {}),
       Step("all", {"db"}, {{"db"}}),
       Step("publish", {"publish_db"}, {{"publish_db"}}),
       Step("all", {"op_ctx"}, {}),
       Step("peers", {"bootstraps"}, {{}, {"bootstraps"}}),
       Step("all", {"socket_p2p_dht"}, {{}}),
       Step("all", {}, {{}}),                                   \* bind()
       Step("all", {"dht"}, IF family = 6 THEN {{}, {"dht"}} ELSE {{}}),
       Step("all", {"dht_event"}, {}),
       Step("admin", {"admin_ctx", "http"}, {}),
       Step("dns", {"dns_ctx", "dns_base", "dns_sock"},
                   {{"dns_ctx", "dns_base", "dns_sock"}}),      \* bind()
       Step("dns", {"dns_server"}, {}) >>

Taken(n) == UNION {Steps[i].takes : i \in {j \in 1 .. n : Steps[j].role \in roles \cup {"all"}}}

(* Resources without a member of their own in f4_ctx. *)
Hidden == {"dht", "http", "dns_base", "dns_sock", "dns_server"}

(* Mutant of MembersFor: dht_done_init is set before dht_init is called. *)
MembersForEarlyDone(things) ==
    (things \ Hidden)
        \cup (IF "socket_p2p_dht" \in things THEN {"dht_done_init"} ELSE {})

(* dht_done_init is set once dht_init has succeeded, then the event is made. *)
MembersFor(things) ==
    (things \ Hidden) \cup (IF "dht_event" \in things THEN {"dht_done_init"} ELSE {})

f4_init ==
    /\ stage = "new" /\ "db_file" \in members
    /\ \/ /\ held' = held \cup Taken(Len(Steps))
          /\ stage' = "ready"
       \/ \E n \in {m \in DOMAIN Steps : Steps[m].role \in roles \cup {"all"}} :
             /\ \E left \in Steps[n].leaves : held' = held \cup Taken(n - 1) \cup left
             /\ stage' = "failed"
    /\ members' = members \cup MembersFor(held')
    /\ UNCHANGED <<family, roles, resolver>>

(* f4_start pings the bootstrap peers; a ping sent changes nothing here. *)
f4_start ==
    /\ stage = "ready"
    /\ stage' = "running"
    /\ UNCHANGED <<context, resolver>>

(* Whoever embeds the engine may call it; the loop of stub.c gets to it only    *)
(* when is_running was cleared before.                                          *)
f4_stop ==
    /\ stage = "running"
    /\ stage' = "stopped"
    /\ UNCHANGED <<context, resolver>>

------------------------------------------------------------------------------
(* f4_free *)

(* dht_uninit refuses a node without an IPv4 socket: see DhtNode. *)
Uninit == IF family = 4 THEN {"dht"} ELSE {}

(* What is freed, closed or unregistered, as the members say. *)
Freed ==
    (UNION {IF m = "admin_ctx" THEN {"admin_ctx", "http"} ELSE {m} :
            m \in members \cap {"admin_ctx", "cp", "socket_p2p_dht", "bootstraps",
                                "bootstrap_file", "db_file", "publish_db", "db"}})
      \cup (IF "dht_done_init" \in members THEN {"dht_event"} \cup Uninit ELSE {})

f4_free ==
    /\ stage \in {"new", "failed", "stopped"}
    /\ stage' = "freed"
    /\ held' = held \ Freed
    /\ members' = {}
    /\ UNCHANGED <<family, roles, resolver>>

------------------------------------------------------------------------------
(* The resolver *)

(* A question: a valid name, a name that f4dns_is_valid refuses or is too short *)
(* for it, and a type the switch knows or not.                                  *)
Question == [is : {"valid"}, name : Name, type : {"A", "AAAA", "other"}]
                \cup [is : {"invalid", "short"}, name : {0}, type : {"A"}]

(* An assert fails: the name is too short, or the switch does not know the type. *)
Asserts(q) == q.is = "short" \/ (q.is = "valid" /\ q.type = "other")

(* Mutant of NewOp: the new operation takes the place of the one already there. *)
NewOpInstead(st, r, i, q) ==
    LET op == [req |-> r, at |-> i, id |-> q.name]
    IN  [st EXCEPT !.asked = @ \cup {q.name}, !.registered = @ \cup {op}]

(* f4op_new, opget_dns_callback and f4op_add for one question. *)
NewOp(st, r, i, q) ==
    LET op == [req |-> r, at |-> i, id |-> q.name]
    IN  [st EXCEPT !.asked = @ \cup {q.name},
                   !.lost = IF Reg!Lookup(st.registered, q.name) # <<>>
                            THEN @ \cup {op} ELSE @,
                   !.registered = Reg!Added(@, op)]

(* Mutant of Handle: the loop goes on after a name that was refused. *)
HandleAllInvalid(st, r, i, q) ==
    IF st.end = "aborted" THEN st
    ELSE CASE Asserts(q) -> [st EXCEPT !.end = "aborted"]
           [] q.is = "invalid" -> [st EXCEPT !.answers = @ + 1]
           [] OTHER -> NewOp(st, r, i, q)

(* One turn of the loop of _f4dns_cb_dnsserver. *)
Handle(st, r, i, q) ==
    IF st.end # "no" THEN st
    ELSE CASE Asserts(q) -> [st EXCEPT !.end = "aborted"]
           [] q.is = "invalid" -> [st EXCEPT !.answers = @ + 1, !.end = "break"]
           [] OTHER -> NewOp(st, r, i, q)

(* The whole loop. *)
HandleAll(r, questions) ==
    LET after[i \in 0 .. Len(questions)] ==
            IF i = 0
                THEN [registered |-> registered, lost |-> lost, asked |-> {},
                      answers |-> 0, end |-> "no"]
                ELSE Handle(after[i - 1], r, i, questions[i])
    IN  after[Len(questions)]

(* _f4dns_cb_dnsserver.  dht_search is asked for AF_INET: it is refused without  *)
(* an IPv4 table, and by a full list or a failed allocation, and nobody looks.  *)
f4dns_cb_dnsserver(r, questions) ==
    LET st == HandleAll(r, questions)
    IN  /\ stage = "running" /\ "dns_server" \in held
        /\ asked[r] = {} /\ answers[r] = 0
        /\ registered' = st.registered
        /\ lost' = st.lost
        /\ asked' = [asked EXCEPT ![r] = st.asked]
        /\ answers' = [answers EXCEPT ![r] = st.answers]
        /\ \E started \in SUBSET st.asked :
              /\ family = 4 \/ started = {}
              /\ searching' = searching \cup started
        /\ stage' = IF st.end = "aborted" THEN "aborted" ELSE stage
        /\ UNCHANGED context

(* f4_cb_dht: the callback of a get operation is an assert(false).  The last    *)
(* event of a search says that it is done.                                      *)
f4_cb_dht(id, done) ==
    /\ stage = "running"
    /\ id \in searching
    /\ searching' = IF done THEN searching \ {id} ELSE searching
    /\ stage' = IF Reg!Lookup(registered, id) # <<>> THEN "aborted" ELSE stage
    /\ UNCHANGED <<context, registered, lost, asked, answers>>

------------------------------------------------------------------------------
(* The options (stub.c) and the specification *)

(* The defaults of main: IPv6, and the admin interface on. *)
Init ==
    /\ stage = "new"
    /\ family = 6
    /\ roles = {"admin"}
    /\ members = {} /\ held = {}
    /\ registered = {} /\ lost = {} /\ searching = {}
    /\ asked = [r \in Request |-> {}]
    /\ answers = [r \in Request |-> 0]

(* -D and -A: an address that cannot be parsed takes the role away. *)
f4_set_listen(role, ok) ==
    /\ stage = "new"
    /\ roles' = IF ok THEN roles \cup {role} ELSE roles \ {role}
    /\ UNCHANGED <<stage, family, members, held, resolver>>

(* -P *)
f4_set_listen_p2p(fam) ==
    /\ stage = "new"
    /\ family' = fam
    /\ UNCHANGED <<stage, roles, members, held, resolver>>

(* -s, -p and -b: a copy of the file name is kept. *)
f4_set_file(file) ==
    /\ stage = "new"
    /\ members' = members \cup {file} /\ held' = held \cup {file}
    /\ roles' = roles \cup (CASE file = "publish_file" -> {"publish"}
                              [] file = "bootstrap_file" -> {"peers"}
                              [] OTHER -> {})
    /\ UNCHANGED <<stage, family, resolver>>

(* The built-in peers, when no file of peers is given: getaddrinfo may know none. *)
f4_add_peer ==
    /\ stage = "new" /\ "bootstrap_file" \notin members
    /\ members' = members \cup {"bootstraps"} /\ held' = held \cup {"bootstraps"}
    /\ UNCHANGED <<stage, family, roles, resolver>>

Next ==
    \/ \E ok \in BOOLEAN, role \in {"dns", "admin"} : f4_set_listen(role, ok)
    \/ \E fam \in {4, 6} : f4_set_listen_p2p(fam)
    \/ \E file \in {"db_file", "publish_file", "bootstrap_file"} : f4_set_file(file)
    \/ f4_add_peer
    \/ f4_init
    \/ \E r \in Request, n \in 1 .. MaxQuestions :
          \E questions \in [1 .. n -> Question] : f4dns_cb_dnsserver(r, questions)
    \/ \E id \in Name, done \in BOOLEAN : f4_cb_dht(id, done)
    \/ f4_start
    \/ f4_stop
    \/ f4_free

Spec == Init /\ [][Next]_vars

------------------------------------------------------------------------------
(* Properties *)

(* Whatever is searched for on behalf of a question can be found when the event *)
(* comes (f4_cb_dht): every name asked for stays in the registry, under one     *)
(* operation, even after a request with the same name, in which case the        *)
(* operation of the later question is the one that is lost (f4op_add).          *)
OperationsFindable ==
    /\ searching \subseteq Reg!Ids(registered)
    /\ \A r \in Request : \A n \in asked[r] :
          /\ Cardinality({op \in registered : op.id = n}) = 1
          /\ \E op \in registered \cup lost : op.req = r /\ op.id = n
    /\ \A op \in lost : \E first \in registered : first.id = op.id /\ first # op

(* A request is answered at most once, though each of its questions may be a    *)
(* reason to: the second answer would be given to memory libevent has freed.    *)
AnsweredOnce == \A r \in Request : answers[r] <= 1

(* f4_free, which goes by the members of the context, frees, closes or          *)
(* unregisters only what f4_init had come to take, wherever it failed, and      *)
(* nothing twice; and it never frees the context while the DHT event that       *)
(* points to it is registered.                                                  *)
FreesWhatItHolds ==
    [][stage' = "freed" => Freed \subseteq held /\ "dht_event" \notin held']_vars

(* f4_free closes the sockets and frees the memory. *)
FreesEverything == stage = "freed" => held = {}
=============================================================================
