--------------------------- MODULE ReceiveProofs ---------------------------
(***************************************************************************)
(* The rate limiter keeps its promise and the blacklist wastes no slot,    *)
(* for any bucket size, rate, ring size and set of senders.                *)
(***************************************************************************)
EXTENDS Receive, TLAPS

(* What was let through and what is left in the bucket never exceed a full    *)
(* bucket and what had accrued when it was last refilled.  RateHolds alone is *)
(* not inductive: it says nothing of the tokens still to be spent.            *)
Accounted == accepted + tokens <= MaxTokens + Rate * (token_time - StartTime)

(* The inductive invariant of the rate limiter. *)
RateInv == RateTypeOK /\ Accounted

(* The inductive invariant. *)
IInv == RateInv /\ TypeOK /\ BlacklistDistinct

-----------------------------------------------------------------------------
(* Multiplying by the rate distributes over two spans of time, and keeps their order. *)
LEMMA RateSpans ==
    ASSUME NEW a \in Int, NEW b \in Int, NEW c \in Int, a <= b, b <= c
    PROVE  /\ Rate * (c - b) \in Nat
           /\ Rate * (b - a) \in Nat
           /\ Rate * (c - a) = Rate * (c - b) + Rate * (b - a)
           /\ c # b => Rate * (c - b) # 0
<1>1. Rate \in Nat \ {0}
  BY RateAssumption
<1>2. \A x, y \in Nat : Rate * x \in Nat /\ Rate * (x + y) = Rate * x + Rate * y
  BY <1>1, SMT
<1>3. c - b \in Nat /\ b - a \in Nat /\ c - a = (c - b) + (b - a)
  OBVIOUS
<1>4. c # b => c - b \in Nat \ {0}
  BY <1>3
<1>5. \A x \in Nat \ {0} : Rate * x # 0
  BY <1>1, SMT
<1> QED
  BY <1>2, <1>3, <1>4, <1>5

(* A refill lies between 0 and a full bucket, and is paid for by the time that passed. *)
LEMMA RefillBounds ==
    ASSUME RateTypeOK
    PROVE  /\ Refill \in 0 .. MaxTokens
           /\ tokens = 0 => Refill <= Rate * (now - token_time)
           /\ Refill = 0 => tokens = 0 /\ now = token_time
<1>1. /\ token_time \in Int /\ now \in Int /\ token_time <= now
      /\ MaxTokens \in Nat \ {0} /\ tokens \in 0 .. MaxTokens
  BY RateAssumption DEF RateTypeOK
<1>2. Rate * (now - token_time) \in Nat /\ (now # token_time => Rate * (now - token_time) # 0)
  BY <1>1, RateSpans
<1> DEFINE r == Rate * (now - token_time)
<1>3. r \in Nat /\ (now # token_time => r # 0)
  BY <1>2
<1>4. Refill = IF tokens = 0 THEN Least(MaxTokens, r) ELSE tokens
  BY DEF Refill
<1> HIDE DEF r
<1>5. /\ Refill \in 0 .. MaxTokens
      /\ tokens = 0 => Refill <= r
      /\ Refill = 0 => tokens = 0 /\ now = token_time
  BY <1>1, <1>3, <1>4 DEF Least
<1> QED
  BY <1>5 DEF r

(* token_bucket returning 1 keeps the account: a token is spent, or a refill and the *)
(* time it is paid with are booked together.                                          *)
LEMMA AdmitKeeps == ASSUME RateInv, Admit PROVE RateInv'
<1>1. /\ token_time \in Int /\ now \in Int /\ StartTime \in Int
      /\ StartTime <= token_time /\ token_time <= now
      /\ MaxTokens \in Nat \ {0} /\ tokens \in 0 .. MaxTokens /\ accepted \in 0 .. MaxAccepted
  BY RateAssumption DEF RateInv, RateTypeOK
<1>2. /\ Refill \in 0 .. MaxTokens
      /\ tokens = 0 => Refill <= Rate * (now - token_time)
  BY RefillBounds DEF RateInv
<1>3. /\ Refill # 0 /\ accepted < MaxAccepted /\ tokens' = Refill - 1
      /\ token_time' = IF tokens = 0 THEN now ELSE token_time
      /\ accepted' = accepted + 1 /\ now' = now
  BY DEF Admit
<1>4. MaxAccepted \in Nat /\ MaxTime \in Nat /\ now \in StartTime .. MaxTime
  BY RateAssumption DEF RateInv, RateTypeOK
<1>5. RateTypeOK'
  BY <1>1, <1>2, <1>3, <1>4 DEF RateTypeOK
<1>6. accepted + tokens <= MaxTokens + Rate * (token_time - StartTime)
  BY DEF RateInv, Accounted
<1>7. CASE tokens = 0
  <2>1. Rate * (now - StartTime) = Rate * (now - token_time) + Rate * (token_time - StartTime)
        /\ Rate * (now - token_time) \in Nat /\ Rate * (token_time - StartTime) \in Nat
    BY <1>1, RateSpans
  <2>2. token_time' = now /\ Refill <= Rate * (now - token_time)
    BY <1>2, <1>3, <1>7
  <2> DEFINE x == Rate * (now - token_time)
             y == Rate * (token_time - StartTime)
             z == Rate * (now - StartTime)
  <2>3. z = x + y /\ x \in Nat /\ y \in Nat /\ Refill <= x /\ accepted <= MaxTokens + y
    BY <2>1, <2>2, <1>1, <1>6, <1>7
  <2>4. Accounted' <=> (accepted + 1) + (Refill - 1) <= MaxTokens + z
    BY <1>3, <2>2 DEF Accounted
  <2> HIDE DEF x, y, z
  <2>5. (accepted + 1) + (Refill - 1) <= MaxTokens + z
    BY <2>3, <1>1, <1>2, <1>4
  <2> QED
    BY <2>4, <2>5, <1>5 DEF RateInv
<1>8. CASE tokens # 0
  <2>1. Refill = tokens /\ token_time' = token_time
    BY <1>3, <1>8 DEF Refill
  <2> DEFINE y == Rate * (token_time - StartTime)
  <2>2. y \in Nat /\ accepted + tokens <= MaxTokens + y
    BY <1>1, <1>6, RateSpans
  <2>3. Accounted' <=> (accepted + 1) + (tokens - 1) <= MaxTokens + y
    BY <1>3, <2>1 DEF Accounted
  <2> HIDE DEF y
  <2>4. (accepted + 1) + (tokens - 1) <= MaxTokens + y
    BY <2>2, <1>1, <1>4
  <2> QED
    BY <2>3, <2>4, <1>5 DEF RateInv
<1> QED
  BY <1>7, <1>8

(* A refusal changes nothing: the bucket is empty and was refilled in this second. *)
LEMMA RefuseIsIdle == ASSUME RateInv, Refuse PROVE UNCHANGED rvars /\ token_time = now
<1>1. tokens = 0 /\ now = token_time
  BY RefillBounds DEF RateInv, Refuse
<1> QED
  BY <1>1 DEF Refuse, rvars

(* Steps that leave the rate limiter alone keep its invariant. *)
LEMMA RateStutter == ASSUME RateInv, UNCHANGED rvars PROVE RateInv'
  BY DEF RateInv, RateTypeOK, Accounted, rvars

(* The clock only moves on. *)
LEMMA ClockKeeps == ASSUME RateInv, Clock PROVE RateInv'
<1>1. RateTypeOK'
  BY RateAssumption DEF RateInv, RateTypeOK, Clock
<1>2. Accounted'
  BY DEF RateInv, Accounted, Clock
<1> QED
  BY <1>1, <1>2 DEF RateInv

-----------------------------------------------------------------------------
(* A sender that is not on the blacklist can be snubbed without appearing twice. *)
LEMMA SnubKeepsDistinct ==
    ASSUME TypeOK, BlacklistDistinct, NEW a \in Addr, ~ Blacklisted(a), Snub(a)
    PROVE  /\ BlacklistDistinct'
           /\ blacklist' \in [0 .. Slots - 1 -> Addr \cup {NoAddr}]
           /\ next_blacklisted' \in 0 .. Slots - 1
<1>1. Slots \in Nat \ {0} /\ next_blacklisted \in 0 .. Slots - 1
  BY ReceiveAssumption DEF TypeOK
<1>2. blacklist \in [0 .. Slots - 1 -> Addr \cup {NoAddr}]
  BY DEF TypeOK
<1>3. blacklist' = [blacklist EXCEPT ![next_blacklisted] = a]
  BY DEF Snub
<1>4. next_blacklisted' = (next_blacklisted + 1) % Slots
  BY DEF Snub
<1>5. next_blacklisted' \in 0 .. Slots - 1
  BY <1>1, <1>4
<1>6. blacklist' \in [0 .. Slots - 1 -> Addr \cup {NoAddr}]
  BY <1>1, <1>2, <1>3
<1>7. BlacklistDistinct'
  <2> SUFFICES ASSUME NEW i \in 0 .. Slots - 1, NEW j \in 0 .. Slots - 1,
                      blacklist'[i] = blacklist'[j], blacklist'[i] # NoAddr
               PROVE  i = j
    BY DEF BlacklistDistinct
  <2>1. /\ blacklist'[i] = IF i = next_blacklisted THEN a ELSE blacklist[i]
        /\ blacklist'[j] = IF j = next_blacklisted THEN a ELSE blacklist[j]
    BY <1>2, <1>3
  <2>2. blacklist[i] # a /\ blacklist[j] # a
    BY DEF Blacklisted
  <2> QED
    BY <2>1, <2>2 DEF BlacklistDistinct
<1> QED
  BY <1>5, <1>6, <1>7

(* The initial state satisfies the invariant. *)
LEMMA InitIInv == Init => IInv
<1> SUFFICES ASSUME Init PROVE IInv
  OBVIOUS
<1>1. RateTypeOK
  BY RateAssumption DEF Init, RateInit, RateTypeOK
<1>2. Rate \in Nat /\ StartTime \in Nat /\ MaxTokens \in Nat
  BY RateAssumption
<1>3. StartTime - StartTime = 0 /\ Rate * 0 = 0
  BY <1>2
<1>4. Accounted
  BY <1>2, <1>3 DEF Init, RateInit, Accounted
<1>5. TypeOK
  BY <1>1, ReceiveAssumption DEF Init, TypeOK, Fates
<1>6. BlacklistDistinct
  BY DEF Init, BlacklistDistinct
<1> QED
  BY <1>1, <1>4, <1>5, <1>6 DEF IInv, RateInv

(* Every step of dht_periodic keeps the invariant. *)
LEMMA NextIInv == IInv /\ [Next]_vars => IInv'
<1> SUFFICES ASSUME IInv, [Next]_vars PROVE IInv'
  OBVIOUS
<1> USE DEF IInv
<1>1. CASE UNCHANGED vars
  BY <1>1, RateStutter DEF vars, rvars, TypeOK, RateTypeOK, BlacklistDistinct
<1>2. CASE Pass
  <2>1. RateInv'
    BY <1>2, ClockKeeps DEF Pass
  <2> QED
    BY <1>2, <2>1 DEF Pass, RateInv, TypeOK, BlacklistDistinct
<1>3. CASE Arrive
  <2>1. RateInv'
    BY <1>3, RateStutter DEF Arrive
  <2>2. inbox' \in Seq(Message) /\ Len(inbox') <= MaxInbox
    <3>1. PICK m \in Message : inbox' = Append(inbox, m)
      BY <1>3 DEF Arrive
    <3>2. inbox \in Seq(Message) /\ Len(inbox) < MaxInbox /\ MaxInbox \in Nat
      BY <1>3, ReceiveAssumption DEF Arrive, TypeOK
    <3> QED
      BY <3>1, <3>2
  <2> QED
    BY <1>3, <2>1, <2>2 DEF Arrive, RateInv, TypeOK, BlacklistDistinct
<1>4. CASE ReadOne
  <2> DEFINE m == Head(inbox)
  <2>1. inbox \in Seq(Message) /\ inbox # <<>> /\ m \in Message /\ m.from \in Addr
    <3>1. inbox \in Seq(Message) /\ inbox # <<>>
      BY <1>4 DEF ReadOne, TypeOK
    <3>2. m \in Message
      BY <3>1
    <3> HIDE DEF m
    <3>3. m.from \in Addr
      BY <3>2 DEF Message
    <3> QED
      BY <3>1, <3>2, <3>3
  <2>2. PICK rcNegative, errnoIsAgain \in BOOLEAN :
            IF Unread(rcNegative)
            THEN /\ Fate(m, "unread")
                 /\ KeepList
                 /\ UNCHANGED <<inbox, rvars>>
            ELSE /\ inbox' = Tail(inbox)
                 /\ IF Mistaken(rcNegative, errnoIsAgain)
                    THEN Fate(m, "lost") /\ KeepList /\ UNCHANGED rvars
                    ELSE \/ Drop(m)
                         \/ Passes(m) /\ TakeQuery(m)
                         \/ Passes(m) /\ TakeResponse(m)
    BY <1>4 DEF ReadOne
  <2>3. inbox' \in Seq(Message) /\ Len(inbox') <= MaxInbox
    <3>1. Len(inbox) <= MaxInbox /\ MaxInbox \in Nat
      BY ReceiveAssumption DEF TypeOK
    <3>2. inbox' = inbox \/ inbox' = Tail(inbox)
      BY <2>2
    <3> QED
      BY <2>1, <3>1, <3>2
  <2>4. /\ last'.fate \in Fates
        /\ \/ KeepList
           \/ ~ Blacklisted(m.from) /\ Snub(m.from)
        /\ UNCHANGED rvars \/ Admit \/ Refuse
    <3>1. CASE Unread(rcNegative) \/ Mistaken(rcNegative, errnoIsAgain)
      BY <2>2, <3>1 DEF Fate, Fates
    <3>2. CASE Drop(m)
      BY <3>2 DEF Drop, Fate, Fates
    <3>3. CASE Passes(m) /\ TakeQuery(m)
      BY <3>3 DEF TakeQuery, Fate, Fates
    <3>4. CASE Passes(m) /\ TakeResponse(m)
      BY <3>4 DEF Passes, TakeResponse, Fate, Fates
    <3> QED
      BY <2>2, <3>1, <3>2, <3>3, <3>4
  <2>5. RateInv'
    BY <2>4, AdmitKeeps, RefuseIsIdle, RateStutter
  <2>6. /\ BlacklistDistinct'
        /\ blacklist' \in [0 .. Slots - 1 -> Addr \cup {NoAddr}]
        /\ next_blacklisted' \in 0 .. Slots - 1
    <3>1. CASE KeepList
      BY <3>1 DEF KeepList, TypeOK, BlacklistDistinct
    <3>2. CASE ~ Blacklisted(m.from) /\ Snub(m.from)
      BY <3>2, <2>1, SnubKeepsDistinct
    <3> QED
      BY <2>4, <3>1, <3>2
  <2> QED
    BY <2>3, <2>4, <2>5, <2>6 DEF TypeOK, RateInv
<1> QED
  BY <1>1, <1>2, <1>3, <1>4 DEF Next

-----------------------------------------------------------------------------
(* The invariant holds in every reachable state. *)
THEOREM Invariant == Spec => []IInv
  BY InitIInv, NextIInv, PTL DEF Spec

(* Type correctness of the receive path: the token count of token_bucket stays   *)
(* between 0 and its maximum and the index of the blacklist inside the ring.     *)
THEOREM TypeCorrect == Spec => []TypeOK
<1>1. IInv => TypeOK
  BY DEF IInv
<1> QED
  BY Invariant, <1>1, PTL

(* broken_node never writes a sender into a second slot of the blacklist. *)
THEOREM BlacklistStaysDistinct == Spec => []BlacklistDistinct
<1>1. IInv => BlacklistDistinct
  BY DEF IInv
<1> QED
  BY Invariant, <1>1, PTL

(* token_bucket lets through at most a full bucket and what accrued since dht_init. *)
THEOREM RateAlwaysHolds == Spec => []RateHolds
<1>1. IInv => RateHolds
  <2> SUFFICES ASSUME IInv PROVE RateHolds
    OBVIOUS
  <2>1. /\ token_time \in Int /\ now \in Int /\ StartTime \in Int
        /\ StartTime <= token_time /\ token_time <= now
        /\ MaxTokens \in Nat /\ tokens \in 0 .. MaxTokens /\ accepted \in 0 .. MaxAccepted
        /\ MaxAccepted \in Nat
    BY RateAssumption DEF IInv, RateInv, RateTypeOK
  <2> DEFINE x == Rate * (now - token_time)
             y == Rate * (token_time - StartTime)
             z == Rate * (now - StartTime)
  <2>2. z = x + y /\ x \in Nat /\ y \in Nat
    BY <2>1, RateSpans
  <2>3. accepted + tokens <= MaxTokens + y
    BY DEF IInv, RateInv, Accounted
  <2>4. RateHolds <=> accepted <= MaxTokens + z
    BY DEF RateHolds
  <2> HIDE DEF x, y, z
  <2> QED
    BY <2>1, <2>2, <2>3, <2>4
<1> QED
  BY Invariant, <1>1, PTL

(* token_bucket refuses a request only in the second of its last refill. *)
THEOREM NoLateRefusal == Spec => RefusedOnlyAfterRefill
<1>1. IInv /\ [Next]_vars => [Refuse => token_time = now]_rvars
  BY RefuseIsIdle DEF IInv
<1> QED
  BY Invariant, <1>1, PTL DEF Spec, RefusedOnlyAfterRefill
=============================================================================
