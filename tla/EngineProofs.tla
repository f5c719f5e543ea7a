---------------------------- MODULE EngineProofs ----------------------------
(***************************************************************************)
(* Proofs about the engine and the resolver, for every set of names and    *)
(* requests and any number of questions in a request.                      *)
(***************************************************************************)
EXTENDS Engine, Inductions, SequenceTheorems

-----------------------------------------------------------------------------
(* f4_init and f4_free *)

(* What a context that is not freed yet says about the process. *)
ContextInv ==
    /\ stage \in {"new", "ready", "running", "failed", "stopped", "freed", "aborted"}
    /\ stage = "new" => held \subseteq {"db_file", "publish_file", "bootstrap_file", "bootstraps"}
                          /\ members = held
    /\ stage # "freed" =>
          /\ members \ {"dht_done_init"} \subseteq held
          /\ "dht_done_init" \in members <=> "dht_event" \in held
          /\ "dht_event" \in held => "dht" \in held
          /\ "admin_ctx" \in held => "http" \in held

(* No step of f4_init that fails leaves the event of the DHT or the admin  *)
(* interface behind; the event is made after dht_init.                     *)
Sane(n) ==
    /\ "dht_event" \in Steps[n].takes => n = 9
    /\ "admin_ctx" \in Steps[n].takes => "http" \in Steps[n].takes
    /\ "dht_done_init" \notin Steps[n].takes
    /\ \A left \in Steps[n].leaves :
          left \cap {"dht_event", "admin_ctx", "dht_done_init"} = {}

LEMMA StepsFacts ==
    /\ \A n \in DOMAIN Steps : Sane(n)
    /\ Len(Steps) = 12 /\ DOMAIN Steps = 1 .. 12
    /\ Steps[8].role = "all" /\ "dht" \in Steps[8].takes
  <1>1. Len(Steps) = 12 /\ DOMAIN Steps = 1 .. 12
    BY DEF Steps
  <1>2. Sane(1) /\ Sane(2) /\ Sane(3)
    BY DEF Steps, Step, Sane
  <1>3. Sane(4) /\ Sane(5) /\ Sane(6)
    BY DEF Steps, Step, Sane
  <1>4. Sane(7) /\ Sane(8) /\ Sane(9)
    BY DEF Steps, Step, Sane
  <1>5. Sane(10) /\ Sane(11) /\ Sane(12)
    BY DEF Steps, Step, Sane
  <1>6. Steps[8].role = "all" /\ "dht" \in Steps[8].takes
    BY DEF Steps, Step
  <1>7. ASSUME NEW n \in 1 .. 12 PROVE Sane(n)
    <2>1. n \in 1 .. 3 \/ n \in 4 .. 6 \/ n \in 7 .. 9 \/ n \in 10 .. 12
      OBVIOUS
    <2>2. CASE n \in 1 .. 3
      <3>1. n = 1 \/ n = 2 \/ n = 3
        BY <2>2
      <3> QED  BY <3>1, <1>2
    <2>3. CASE n \in 4 .. 6
      <3>1. n = 4 \/ n = 5 \/ n = 6
        BY <2>3
      <3> QED  BY <3>1, <1>3
    <2>4. CASE n \in 7 .. 9
      <3>1. n = 7 \/ n = 8 \/ n = 9
        BY <2>4
      <3> QED  BY <3>1, <1>4
    <2>5. CASE n \in 10 .. 12
      <3>1. n = 10 \/ n = 11 \/ n = 12
        BY <2>5
      <3> QED  BY <3>1, <1>5
    <2> QED  BY <2>1, <2>2, <2>3, <2>4, <2>5
  <1> QED  BY <1>1, <1>6, <1>7

(* What the first n steps take: the event of the DHT never without the DHT, *)
(* the admin context never without its listener.                            *)
LEMMA TakenFacts ==
    ASSUME NEW n \in 0 .. 12
    PROVE  /\ "dht_event" \in Taken(n) => "dht" \in Taken(n)
           /\ "admin_ctx" \in Taken(n) => "http" \in Taken(n)
           /\ "dht_done_init" \notin Taken(n)
  <1> DEFINE J == {j \in 1 .. n : Steps[j].role \in roles \cup {"all"}}
  <1>1. Taken(n) = UNION {Steps[i].takes : i \in J}
    BY DEF Taken
  <1>2. \A x : x \in Taken(n) <=> \E i \in J : x \in Steps[i].takes
    BY <1>1
  <1>3. \A i \in J : i \in DOMAIN Steps /\ i <= n
    BY StepsFacts
  <1>4. n >= 9 => 8 \in J
    BY StepsFacts
  <1> HIDE DEF J
  <1>5. \A i \in J : Sane(i)
    BY <1>3, StepsFacts
  <1>6. "dht_event" \in Taken(n) => n >= 9
    BY <1>2, <1>3, <1>5 DEF Sane
  <1>7. "dht" \in Steps[8].takes
    BY StepsFacts
  <1> QED  BY <1>2, <1>4, <1>5, <1>6, <1>7 DEF Sane

(* The context says what the process holds, wherever f4_init failed. *)
LEMMA ContextInductive == ContextInv /\ [Next]_vars => ContextInv'
  <1> SUFFICES ASSUME ContextInv, [Next]_vars PROVE ContextInv'
    OBVIOUS
  <1>1. ASSUME NEW ok \in BOOLEAN, NEW role \in {"dns", "admin"}, f4_set_listen(role, ok)
        PROVE  ContextInv'
    BY <1>1 DEF ContextInv, f4_set_listen
  <1>2. ASSUME NEW fam \in {4, 6}, f4_set_listen_p2p(fam) PROVE ContextInv'
    BY <1>2 DEF ContextInv, f4_set_listen_p2p
  <1>3. ASSUME NEW file \in {"db_file", "publish_file", "bootstrap_file"}, f4_set_file(file)
        PROVE  ContextInv'
    BY <1>3 DEF ContextInv, f4_set_file
  <1>4. ASSUME f4_add_peer PROVE ContextInv'
    BY <1>4 DEF ContextInv, f4_add_peer
  <1>5. ASSUME f4_init PROVE ContextInv'
    <2>1. \E n \in 0 .. 12 : \E left :
             /\ held' = held \cup Taken(n) \cup left
             /\ left \cap {"dht_event", "admin_ctx", "dht_done_init"} = {}
      <3>1. CASE held' = held \cup Taken(Len(Steps))
        <4>1. 12 \in 0 .. 12 /\ held' = held \cup Taken(12) \cup {}
          BY <3>1, StepsFacts
        <4>2. {} \cap {"dht_event", "admin_ctx", "dht_done_init"} = {}
          OBVIOUS
        <4> QED  BY <4>1, <4>2, Zenon
      <3>2. CASE \E n \in {m \in DOMAIN Steps : Steps[m].role \in roles \cup {"all"}} :
                    \E left \in Steps[n].leaves : held' = held \cup Taken(n - 1) \cup left
        <4>1. PICK n \in DOMAIN Steps :
                    \E left \in Steps[n].leaves : held' = held \cup Taken(n - 1) \cup left
          BY <3>2
        <4>2. PICK left \in Steps[n].leaves : held' = held \cup Taken(n - 1) \cup left
          BY <4>1
        <4>3. n - 1 \in 0 .. 12
          BY StepsFacts
        <4>4. left \cap {"dht_event", "admin_ctx", "dht_done_init"} = {}
          BY StepsFacts DEF Sane
        <4> QED  BY <4>2, <4>3, <4>4
      <3> QED  BY <1>5, <3>1, <3>2 DEF f4_init
    <2>2. PICK n \in 0 .. 12 : \E left :
             /\ held' = held \cup Taken(n) \cup left
             /\ left \cap {"dht_event", "admin_ctx", "dht_done_init"} = {}
      BY <2>1
    <2>3. /\ "dht_event" \in Taken(n) => "dht" \in Taken(n)
          /\ "admin_ctx" \in Taken(n) => "http" \in Taken(n)
          /\ "dht_done_init" \notin Taken(n)
      BY TakenFacts
    <2>4. /\ stage = "new" /\ stage' \in {"ready", "failed"}
          /\ members' = members \cup MembersFor(held')
      BY <1>5 DEF f4_init
    <2>5. members = held /\ held \subseteq {"db_file", "publish_file", "bootstrap_file", "bootstraps"}
      BY <2>4 DEF ContextInv
    <2>6. /\ "dht_done_init" \notin held'
          /\ "dht_event" \in held' => "dht" \in held'
          /\ "admin_ctx" \in held' => "http" \in held'
          /\ held \subseteq held'
      BY <2>2, <2>3, <2>5
    <2>7. MembersFor(held') \ {"dht_done_init"} \subseteq held'
             /\ ("dht_done_init" \in MembersFor(held') <=> "dht_event" \in held')
      BY <2>6 DEF MembersFor, Hidden
    <2> QED  BY <2>4, <2>5, <2>6, <2>7 DEF ContextInv
  <1>6. ASSUME NEW r, NEW questions, f4dns_cb_dnsserver(r, questions) PROVE ContextInv'
    <2>1. stage = "running" /\ stage' \in {"running", "aborted"} /\ UNCHANGED <<members, held>>
      BY <1>6 DEF f4dns_cb_dnsserver, context
    <2> QED  BY <2>1 DEF ContextInv
  <1>7. ASSUME NEW id \in Name, NEW done \in BOOLEAN, f4_cb_dht(id, done) PROVE ContextInv'
    <2>1. stage = "running" /\ stage' \in {"running", "aborted"} /\ UNCHANGED <<members, held>>
      BY <1>7 DEF f4_cb_dht, context
    <2> QED  BY <2>1 DEF ContextInv
  <1>8. ASSUME f4_start PROVE ContextInv'
    BY <1>8 DEF ContextInv, f4_start, context
  <1>9. ASSUME f4_stop PROVE ContextInv'
    BY <1>9 DEF ContextInv, f4_stop, context
  <1>10. ASSUME f4_free PROVE ContextInv'
    BY <1>10 DEF ContextInv, f4_free
  <1>11. ASSUME UNCHANGED vars PROVE ContextInv'
    BY <1>11 DEF ContextInv, vars
  <1> QED  BY <1>1, <1>2, <1>3, <1>4, <1>5, <1>6, <1>7, <1>8, <1>9, <1>10, <1>11 DEF Next

(* f4_free frees, closes or unregisters only what the process holds, and never *)
(* frees the context while the DHT event that points to it is registered.      *)
THEOREM FreesWhatItHoldsTheorem == Spec => FreesWhatItHolds
  <1>1. Init => ContextInv
    BY DEF Init, ContextInv
  <1>2. ContextInv /\ [Next]_vars =>
           [stage' = "freed" => Freed \subseteq held /\ "dht_event" \notin held']_vars
    <2>1. SUFFICES ASSUME ContextInv, Next, stage' = "freed"
                   PROVE  Freed \subseteq held /\ "dht_event" \notin held'
      OBVIOUS
    <2>2. f4_free
      BY <2>1 DEF Next, f4_set_listen, f4_set_listen_p2p, f4_set_file, f4_add_peer, f4_init,
                  f4dns_cb_dnsserver, f4_cb_dht, f4_start, f4_stop
    <2>3. /\ members \ {"dht_done_init"} \subseteq held
          /\ "dht_done_init" \in members <=> "dht_event" \in held
          /\ "dht_event" \in held => "dht" \in held
          /\ "admin_ctx" \in held => "http" \in held
      BY <2>1, <2>2 DEF f4_free, ContextInv
    <2>4. Freed \subseteq held
      BY <2>3 DEF Freed, Uninit
    <2>5. "dht_event" \in held => "dht_event" \in Freed
      BY <2>3 DEF Freed
    <2>6. held' = held \ Freed
      BY <2>2 DEF f4_free
    <2> QED  BY <2>4, <2>5, <2>6
  <1> QED  BY <1>1, <1>2, ContextInductive, PTL DEF Spec, FreesWhatItHolds

-----------------------------------------------------------------------------
(* The resolver *)

(* f4op_find: NULL exactly when no operation of the set has the id. *)
LEMMA LookupFacts ==
    ASSUME NEW ops, NEW id
    PROVE  /\ Reg!Lookup(ops, id) = <<>> <=> ~ \E op \in ops : op.id = id
           /\ id \in Reg!Ids(ops) <=> \E op \in ops : op.id = id
  <1>1. id \in Reg!Ids(ops) <=> \E op \in ops : op.id = id
    BY DEF Reg!Ids, IdOf
  <1>2. \A x : <<x>> # <<>>
    OBVIOUS
  <1> QED  BY <1>1, <1>2 DEF Reg!Lookup

(* One operation per id. *)
OnePerId(ops) == \A a, b \in ops : a.id = b.id => a = b

(* Every operation refused left another one with its id in the registry. *)
LostHaveFirst(ops, gone) == \A op \in gone : \E first \in ops : first.id = op.id /\ first # op

(* What the resolver keeps between two calls.  That the operations of a request *)
(* are among the names asked for is what makes those of a new request new.      *)
ResolverInv ==
    /\ registered \subseteq Op /\ lost \subseteq Op
    /\ asked \in [Request -> SUBSET Name] /\ answers \in [Request -> Nat]
    /\ OnePerId(registered)
    /\ LostHaveFirst(registered, lost)
    /\ \A op \in registered \cup lost : op.id \in asked[op.req]
    /\ \A r \in Request : \A n \in asked[r] :
          /\ \E op \in registered : op.id = n
          /\ \E op \in registered \cup lost : op.req = r /\ op.id = n
    /\ \A n \in searching : \E op \in registered : op.id = n
    /\ \A r \in Request : answers[r] <= 1

(* The states of the loop over the questions. *)
LoopState ==
    [registered : SUBSET Op, lost : SUBSET Op, asked : SUBSET Name, answers : Nat,
     end : {"no", "aborted", "break"}]

(* What holds after the first i questions of request r. *)
LoopInv(s, r, i) ==
    /\ registered \subseteq s.registered /\ lost \subseteq s.lost
    /\ \A op \in (s.registered \ registered) \cup (s.lost \ lost) :
          op.req = r /\ op.at <= i /\ op.id \in s.asked
    /\ OnePerId(s.registered)
    /\ LostHaveFirst(s.registered, s.lost)
    /\ \A n \in s.asked :
          /\ \E op \in s.registered : op.id = n
          /\ \E op \in s.registered \cup s.lost : op.req = r /\ op.id = n
    /\ s.answers = IF s.end = "break" THEN 1 ELSE 0

(* The operation made for a question. *)
OpFor(r, i, q) == [req |-> r, at |-> i, id |-> q.name]

(* Is its id taken? *)
IdTaken(s, q) == \E o \in s.registered : o.id = q.name

(* A question adds one operation, to the registry or to the lost ones. *)
LEMMA NewOpFacts ==
    ASSUME NEW s \in LoopState, NEW r \in Request, NEW i \in 1 .. MaxQuestions,
           NEW q \in Question, q.is = "valid"
    PROVE  /\ OpFor(r, i, q) \in Op
           /\ NewOp(s, r, i, q) \in LoopState
           /\ NewOp(s, r, i, q).asked = s.asked \cup {q.name}
           /\ IdTaken(s, q) => /\ NewOp(s, r, i, q).lost = s.lost \cup {OpFor(r, i, q)}
                               /\ NewOp(s, r, i, q).registered = s.registered
           /\ ~ IdTaken(s, q) => /\ NewOp(s, r, i, q).lost = s.lost
                                 /\ NewOp(s, r, i, q).registered
                                       = s.registered \cup {OpFor(r, i, q)}
           /\ NewOp(s, r, i, q).answers = s.answers /\ NewOp(s, r, i, q).end = s.end
  <1> DEFINE op == OpFor(r, i, q)
  <1>1. op \in Op /\ op.id = q.name /\ q.name \in Name
    BY DEF Op, Question, OpFor
  <1>2. Reg!Lookup(s.registered, q.name) = <<>> <=> ~ IdTaken(s, q)
    BY LookupFacts DEF IdTaken
  <1>3. NewOp(s, r, i, q) =
                     [s EXCEPT !.asked = @ \cup {q.name},
                               !.lost = IF IdTaken(s, q) THEN @ \cup {op} ELSE @,
                               !.registered = IF IdTaken(s, q) THEN @ ELSE @ \cup {op}]
    BY <1>1, <1>2 DEF NewOp, Reg!Added, IdOf, OpFor
  <1> HIDE DEF op
  <1>4. /\ s.asked \cup {q.name} \in SUBSET Name
        /\ (IF IdTaken(s, q) THEN s.lost \cup {op} ELSE s.lost) \in SUBSET Op
        /\ (IF IdTaken(s, q) THEN s.registered ELSE s.registered \cup {op}) \in SUBSET Op
    BY <1>1 DEF LoopState
  <1>5. NewOp(s, r, i, q) \in LoopState
    BY <1>3, <1>4 DEF LoopState
  <1>6. /\ NewOp(s, r, i, q).asked = s.asked \cup {q.name}
        /\ IdTaken(s, q) => /\ NewOp(s, r, i, q).lost = s.lost \cup {op}
                            /\ NewOp(s, r, i, q).registered = s.registered
        /\ ~ IdTaken(s, q) => /\ NewOp(s, r, i, q).lost = s.lost
                              /\ NewOp(s, r, i, q).registered = s.registered \cup {op}
        /\ NewOp(s, r, i, q).answers = s.answers /\ NewOp(s, r, i, q).end = s.end
    BY <1>3 DEF LoopState
  <1> QED  BY <1>1, <1>5, <1>6 DEF op

(* A turn of the loop keeps the type of its state. *)
LEMMA HandleType ==
    ASSUME NEW s \in LoopState, NEW r \in Request, NEW i \in 1 .. MaxQuestions,
           NEW q \in Question
    PROVE  Handle(s, r, i, q) \in LoopState
  <1>1. q.is = "valid" => NewOp(s, r, i, q) \in LoopState
    BY NewOpFacts
  <1>2. q.is \in {"valid", "invalid", "short"}
    BY DEF Question
  <1>3. [s EXCEPT !.end = "aborted"] \in LoopState
    BY DEF LoopState
  <1>4. s.answers + 1 \in Nat
    BY DEF LoopState
  <1>5. [s EXCEPT !.answers = @ + 1, !.end = "break"] \in LoopState
    BY <1>4 DEF LoopState
  <1> QED  BY <1>1, <1>2, <1>3, <1>5 DEF Handle, Asserts

(* A turn of the loop keeps what holds after the turns before. *)
LEMMA HandleKeepsLoopInv ==
    ASSUME ResolverInv, NEW s \in LoopState, NEW r \in Request, asked[r] = {},
           NEW i \in 1 .. MaxQuestions, NEW q \in Question, LoopInv(s, r, i - 1)
    PROVE  LoopInv(Handle(s, r, i, q), r, i)
  <1>0. /\ q.is \in {"valid", "invalid", "short"} /\ i \in Int
        /\ \A op \in s.registered \cup s.lost : op.at \in Int
    BY DEF Question, LoopState, Op
  <1>1. ASSUME NEW t \in LoopState, t.registered = s.registered, t.lost = s.lost,
               t.asked = s.asked, t.answers = IF t.end = "break" THEN 1 ELSE 0
        PROVE  LoopInv(t, r, i)
    <2>1. ASSUME NEW op \in (s.registered \ registered) \cup (s.lost \ lost)
          PROVE  op.req = r /\ op.at <= i /\ op.id \in s.asked
      <3>1. op.req = r /\ op.at <= i - 1 /\ op.id \in s.asked
        BY DEF LoopInv
      <3>2. op.at \in Int
        BY <1>0
      <3> QED  BY <1>0, <3>1, <3>2
    <2> QED  BY <1>1, <2>1 DEF LoopInv
  <1>2. CASE s.end # "no"
    <2>1. Handle(s, r, i, q) = s
      BY <1>2 DEF Handle
    <2> QED  BY <1>1, <2>1 DEF LoopInv
  <1>3. CASE s.end = "no" /\ Asserts(q)
    <2>1. Handle(s, r, i, q) = [s EXCEPT !.end = "aborted"]
      BY <1>3 DEF Handle, Asserts
    <2>2. s.answers = 0
      BY <1>3 DEF LoopInv
    <2>3. Handle(s, r, i, q) \in LoopState
      BY HandleType
    <2>4. Handle(s, r, i, q).answers = IF Handle(s, r, i, q).end = "break" THEN 1 ELSE 0
      BY <2>1, <2>2 DEF LoopState
    <2> QED  BY <1>1, <2>1, <2>3, <2>4 DEF LoopState
  <1>4. CASE s.end = "no" /\ q.is = "invalid"
    <2>1. Handle(s, r, i, q) = [s EXCEPT !.answers = @ + 1, !.end = "break"]
      BY <1>4 DEF Handle, Asserts
    <2>2. s.answers = 0
      BY <1>4 DEF LoopInv
    <2>3. Handle(s, r, i, q) \in LoopState
      BY HandleType
    <2>4. Handle(s, r, i, q).answers = IF Handle(s, r, i, q).end = "break" THEN 1 ELSE 0
      BY <2>1, <2>2 DEF LoopState
    <2> QED  BY <1>1, <2>1, <2>3, <2>4 DEF LoopState
  <1>5. CASE s.end = "no" /\ q.is = "valid" /\ ~ Asserts(q)
    <2> DEFINE t == Handle(s, r, i, q)
               op == OpFor(r, i, q)
               taken == IdTaken(s, q)
    <2>1. t = NewOp(s, r, i, q)
      BY <1>5 DEF Handle, Asserts
    <2>2. /\ t.asked = s.asked \cup {q.name}
          /\ taken => t.lost = s.lost \cup {op} /\ t.registered = s.registered
          /\ ~ taken => t.lost = s.lost /\ t.registered = s.registered \cup {op}
          /\ t.answers = s.answers /\ t.end = s.end
      BY <1>5, <2>1, NewOpFacts
    <2>3. op.req = r /\ op.at = i /\ op.id = q.name
      BY DEF OpFor
    <2> HIDE DEF op, t, taken
    <2>5. ASSUME NEW o \in (t.registered \ registered) \cup (t.lost \ lost)
          PROVE  o.req = r /\ o.at <= i /\ o.id \in t.asked
      <3>1. CASE o = op
        BY <1>0, <2>3, <2>2, <3>1
      <3>2. CASE o # op
        <4>1. o \in (s.registered \ registered) \cup (s.lost \ lost)
          BY <2>2, <3>2
        <4>2. o.req = r /\ o.at <= i - 1 /\ o.id \in s.asked /\ o.at \in Int
          BY <1>0, <4>1 DEF LoopInv
        <4> QED  BY <1>0, <2>2, <4>2
      <3> QED  BY <3>1, <3>2
    <2>6. op \notin s.registered
      <3>1. op \notin registered
        BY <2>3 DEF ResolverInv
      <3>2. ASSUME op \in s.registered \ registered PROVE FALSE
        <4>1. op.at <= i - 1
          BY <3>2 DEF LoopInv
        <4> QED  BY <1>0, <2>3, <4>1
      <3> QED  BY <3>1, <3>2
    <2>7. OnePerId(t.registered)
      BY <2>3, <2>2 DEF LoopInv, OnePerId, taken, IdTaken
    <2>8. LostHaveFirst(t.registered, t.lost)
      <3>1. CASE taken
        <4>1. PICK o \in s.registered : o.id = op.id
          BY <2>3, <3>1 DEF taken, IdTaken
        <4>2. o # op
          BY <2>6
        <4> QED  BY <2>2, <3>1, <4>1, <4>2 DEF LoopInv, LostHaveFirst
      <3>2. CASE ~ taken
        BY <2>2, <3>2 DEF LoopInv, LostHaveFirst
      <3> QED  BY <3>1, <3>2
    <2>9. ASSUME NEW n \in t.asked
          PROVE  /\ \E o \in t.registered : o.id = n
                 /\ \E o \in t.registered \cup t.lost : o.req = r /\ o.id = n
      <3>1. CASE n \in s.asked
        BY <2>2, <3>1 DEF LoopInv
      <3>2. CASE n = q.name
        <4>1. \E o \in t.registered : o.id = n
          BY <2>3, <2>2, <3>2 DEF taken, IdTaken
        <4>2. op \in t.registered \cup t.lost
          BY <2>2
        <4> QED  BY <2>3, <3>2, <4>1, <4>2
      <3> QED  BY <2>2, <3>1, <3>2
    <2>10. registered \subseteq t.registered /\ lost \subseteq t.lost
      BY <2>2 DEF LoopInv
    <2>11. t.answers = IF t.end = "break" THEN 1 ELSE 0
      BY <2>2 DEF LoopInv
    <2>12. LoopInv(t, r, i)
      BY <2>5, <2>7, <2>8, <2>9, <2>10, <2>11 DEF LoopInv
    <2> QED  BY <2>12 DEF t
  <1> QED  BY <1>0, <1>2, <1>3, <1>4, <1>5 DEF Asserts

(* What holds after the loop. *)
LEMMA HandleAllFacts ==
    ASSUME ResolverInv, NEW r \in Request, asked[r] = {}, NEW n \in 1 .. MaxQuestions,
           NEW questions \in [1 .. n -> Question]
    PROVE  HandleAll(r, questions) \in LoopState /\ LoopInv(HandleAll(r, questions), r, n)
  <1> DEFINE start == [registered |-> registered, lost |-> lost, asked |-> {},
                       answers |-> 0, end |-> "no"]
             after[i \in 0 .. n] ==
                IF i = 0 THEN start ELSE Handle(after[i - 1], r, i, questions[i])
             turn == [i \in 1 .. n |-> [s \in LoopState |-> Handle(s, r, i, questions[i])]]
             S == {i \in 0 .. n : after[i] \in LoopState /\ LoopInv(after[i], r, i)}
  <1>1. n \in Nat /\ n <= MaxQuestions /\ MaxQuestions \in Nat
    BY EngineAssumption
  <1>2. Len(questions) = n
    <2>1. questions \in Seq(Question)
      BY <1>1, SeqDef
    <2>2. Len(questions) \in Nat /\ DOMAIN questions = 1 .. Len(questions) /\ DOMAIN questions = 1 .. n
      BY <2>1
    <2> QED  BY <1>1, <2>2
  <1>3. HandleAll(r, questions) = after[n]
    BY <1>2 DEF HandleAll
  <1>4. after = CHOOSE h : h = [i \in 0 .. n |->
                    IF i = 0 THEN start ELSE Handle(h[i - 1], r, i, questions[i])]
    OBVIOUS
  <1>5. start \in LoopState /\ LoopInv(start, r, 0)
    <2>1. start \in LoopState
      BY DEF ResolverInv, LoopState
    <2> QED  BY <2>1 DEF LoopInv, ResolverInv
  <1>6. turn \in Turns(n, LoopState)
    <2>1. ASSUME NEW i \in 1 .. n, NEW s \in LoopState
          PROVE  Handle(s, r, i, questions[i]) \in LoopState
      <3>1. i \in 1 .. MaxQuestions /\ questions[i] \in Question
        BY <1>1
      <3> QED  BY <3>1, HandleType
    <2> QED  BY <2>1 DEF Turns
  <1> HIDE DEF start, after
  <1>7. PICK g \in [0 .. n -> LoopState] :
              g[0] = start /\ \A i \in 1 .. n : g[i] = turn[i][g[i - 1]]
    <2> HIDE DEF turn
    <2>1. n \in Nat /\ start \in LoopState
      BY <1>1, <1>5
    <2>2. Traces(n, LoopState, start, turn) # {}
      BY <2>1, <1>6, LoopExists
    <2> QED  BY <2>2 DEF Traces
  <1>8. g = [i \in 0 .. n |-> IF i = 0 THEN start ELSE Handle(g[i - 1], r, i, questions[i])]
    <2>1. ASSUME NEW i \in 0 .. n
          PROVE  g[i] = IF i = 0 THEN start ELSE Handle(g[i - 1], r, i, questions[i])
      <3>1. CASE i = 0
        BY <1>7, <3>1
      <3>2. CASE i # 0
        <4>1. i \in 1 .. n /\ g[i - 1] \in LoopState
          BY <1>1, <1>7, <3>2
        <4> QED  BY <1>7, <3>2, <4>1
      <3> QED  BY <3>1, <3>2
    <2> QED  BY <1>7, <2>1
  <1>9. after = [i \in 0 .. n |->
                    IF i = 0 THEN start ELSE Handle(after[i - 1], r, i, questions[i])]
    BY <1>4, <1>8
  <1>10. 0 \in S
    <2>1. after[0] = start /\ 0 \in 0 .. n
      BY <1>1, <1>9
    <2> QED  BY <1>5, <2>1
  <1>11. ASSUME NEW i \in 1 .. n, i - 1 \in S PROVE i \in S
    <2>1. after[i] = Handle(after[i - 1], r, i, questions[i]) /\ i \in 0 .. n
      BY <1>1, <1>9
    <2>2. i \in 1 .. MaxQuestions /\ questions[i] \in Question
      BY <1>1
    <2>3. after[i - 1] \in LoopState /\ LoopInv(after[i - 1], r, i - 1)
      BY <1>11
    <2>4. after[i] \in LoopState
      BY <2>1, <2>2, <2>3, HandleType
    <2>5. LoopInv(after[i], r, i)
      BY <2>1, <2>2, <2>3, HandleKeepsLoopInv
    <2> QED  BY <2>1, <2>4, <2>5
  <1> HIDE DEF S
  <1>12. 0 .. n \subseteq S
    BY <1>1, <1>10, <1>11, InductionUpTo
  <1>13. n \in S
    BY <1>1, <1>12
  <1> QED  BY <1>3, <1>13 DEF S

(* The registry and the answers, kept by every step. *)
LEMMA ResolverInductive == ResolverInv /\ [Next]_vars => ResolverInv'
  <1> SUFFICES ASSUME ResolverInv, [Next]_vars PROVE ResolverInv'
    OBVIOUS
  <1> USE DEF ResolverInv, OnePerId, LostHaveFirst
  <1>1. ASSUME UNCHANGED resolver PROVE ResolverInv'
    BY <1>1 DEF resolver
  <1>2. ASSUME NEW r \in Request, NEW n \in 1 .. MaxQuestions,
               NEW questions \in [1 .. n -> Question], f4dns_cb_dnsserver(r, questions)
        PROVE  ResolverInv'
    <2> DEFINE st == HandleAll(r, questions)
    <2>1. /\ asked[r] = {} /\ registered' = st.registered /\ lost' = st.lost
          /\ asked' = [asked EXCEPT ![r] = st.asked]
          /\ answers' = [answers EXCEPT ![r] = st.answers]
          /\ \E started \in SUBSET st.asked : searching' = searching \cup started
      BY <1>2 DEF f4dns_cb_dnsserver
    <2>2. st \in LoopState /\ LoopInv(st, r, n)
      BY <2>1, HandleAllFacts
    <2> HIDE DEF st
    <2>3. /\ st.registered \subseteq Op /\ st.lost \subseteq Op /\ st.asked \subseteq Name
          /\ st.answers \in Nat /\ st.answers <= 1
      BY <2>2 DEF LoopState, LoopInv
    <2>4. registered' \subseteq Op /\ lost' \subseteq Op /\ OnePerId(registered')
            /\ LostHaveFirst(registered', lost')
      BY <2>1, <2>2, <2>3 DEF LoopInv
    <2>5. asked' \in [Request -> SUBSET Name] /\ answers' \in [Request -> Nat]
            /\ \A q \in Request : answers'[q] <= 1
      BY <2>1, <2>3
    <2>6. ASSUME NEW op \in registered' \cup lost' PROVE op.id \in asked'[op.req]
      <3>0. op.req \in Request
        BY <2>4 DEF Op
      <3>1. CASE op \in registered \cup lost
        <4>1. op.id \in asked[op.req] /\ op.req # r
          BY <2>1, <3>1
        <4> QED  BY <2>1, <3>0, <4>1
      <3>2. CASE op \notin registered \cup lost
        <4>1. op.req = r /\ op.id \in st.asked
          BY <2>1, <2>2, <3>2 DEF LoopInv
        <4> QED  BY <2>1, <4>1
      <3> QED  BY <3>1, <3>2
    <2>7. registered \subseteq registered' /\ lost \subseteq lost'
      BY <2>1, <2>2 DEF LoopInv
    <2>8. ASSUME NEW q \in Request, NEW m \in asked'[q]
          PROVE  /\ \E op \in registered' : op.id = m
                 /\ \E op \in registered' \cup lost' : op.req = q /\ op.id = m
      <3>1. CASE q = r
        BY <2>1, <2>2, <3>1 DEF LoopInv
      <3>2. CASE q # r
        BY <2>1, <2>7, <3>2
      <3> QED  BY <3>1, <3>2
    <2>9. ASSUME NEW m \in searching' PROVE \E op \in registered' : op.id = m
      <3>1. CASE m \in searching
        BY <2>7, <3>1
      <3>2. CASE m \notin searching
        <4>1. m \in st.asked
          BY <2>1, <3>2
        <4> QED  BY <2>1, <2>2, <4>1 DEF LoopInv
      <3> QED  BY <3>1, <3>2
    <2> QED  BY <2>4, <2>5, <2>6, <2>8, <2>9
  <1>3. ASSUME NEW id \in Name, NEW done \in BOOLEAN, f4_cb_dht(id, done) PROVE ResolverInv'
    BY <1>3 DEF f4_cb_dht
  <1>4. ASSUME UNCHANGED vars PROVE ResolverInv'
    BY <1>4 DEF vars
  <1> QED  BY <1>1, <1>2, <1>3, <1>4
           DEF Next, f4_set_listen, f4_set_listen_p2p, f4_set_file, f4_add_peer, f4_init,
               f4_start, f4_stop, f4_free

(* The registry and the answers, in every state. *)
LEMMA ResolverAlways == Spec => []ResolverInv
  <1>1. Init => ResolverInv
    BY DEF Init, ResolverInv, OnePerId, LostHaveFirst
  <1> QED  BY <1>1, ResolverInductive, PTL DEF Spec

(* A request is answered at most once, whatever its questions are. *)
THEOREM AnsweredOnceTheorem == Spec => []AnsweredOnce
  <1>1. ResolverInv => AnsweredOnce
    BY DEF ResolverInv, AnsweredOnce
  <1> QED  BY <1>1, ResolverAlways, PTL

(* Whatever is searched for is in the registry, under one operation, and the *)
(* operation that is lost is the later one.                                  *)
THEOREM OperationsFindableTheorem == Spec => []OperationsFindable
  <1>1. ResolverInv => OperationsFindable
    <2> SUFFICES ASSUME ResolverInv PROVE OperationsFindable
      OBVIOUS
    <2>1. searching \subseteq Reg!Ids(registered)
      BY LookupFacts DEF ResolverInv
    <2>2. ASSUME NEW r \in Request, NEW n \in asked[r]
          PROVE  Cardinality({op \in registered : op.id = n}) = 1
      <3>1. PICK op \in registered : op.id = n
        BY DEF ResolverInv
      <3>2. {o \in registered : o.id = n} = {op}
        BY <3>1 DEF ResolverInv, OnePerId
      <3> QED  BY <3>2, FS_Singleton
    <2> QED  BY <2>1, <2>2 DEF ResolverInv, OperationsFindable, LostHaveFirst
  <1> QED  BY <1>1, ResolverAlways, PTL
=============================================================================
