---------------------------- MODULE RateLimiter ----------------------------
(* token_bucket of dht/dht.c: the rate control for the requests we receive. *)
EXTENDS Integers

CONSTANTS
    MaxTokens,    \* MAX_TOKEN_BUCKET_TOKENS (40)
    Rate,         \* tokens per second (4)
    StartTime,    \* the clock at dht_init
    MaxTime,      \* bound on the clock
    MaxAccepted   \* bound on the requests counted

ASSUME RateAssumption ==
    /\ MaxTokens \in Nat \ {0}
    /\ Rate \in Nat \ {0}
    /\ StartTime \in Nat /\ MaxTime \in Nat /\ StartTime <= MaxTime
    /\ MaxAccepted \in Nat

VARIABLES
    now,          \* now.tv_sec
    tokens,       \* token_bucket_tokens
    token_time,   \* token_bucket_time
    accepted      \* requests let through since dht_init

rvars == <<now, tokens, token_time, accepted>>

RateInit ==
    /\ now = StartTime
    /\ tokens = MaxTokens
    /\ token_time = StartTime
    /\ accepted = 0

Least(a, b) == IF a <= b THEN a ELSE b

(* Mutant of Refill: the bucket is never more than one refill behind. *)
RefillFull == IF tokens = 0 /\ now > token_time THEN MaxTokens ELSE tokens

(* Mutant of Refill: only whole pairs of seconds count. *)
RefillLate == IF tokens = 0 THEN Least(MaxTokens, Rate * ((now - token_time) \div 2)) ELSE tokens

(* An empty bucket is refilled by what accrued since it was last refilled. *)
Refill == IF tokens = 0 THEN Least(MaxTokens, Rate * (now - token_time)) ELSE tokens

(* token_bucket returns 1. *)
Admit ==
    /\ Refill # 0
    /\ accepted < MaxAccepted
    /\ tokens' = Refill - 1
    /\ token_time' = IF tokens = 0 THEN now ELSE token_time
    /\ accepted' = accepted + 1
    /\ UNCHANGED now

(* token_bucket returns 0. *)
Refuse ==
    /\ Refill = 0
    /\ tokens' = 0
    /\ token_time' = now
    /\ UNCHANGED <<now, accepted>>

(* gettimeofday, at the start of dht_periodic; the clock is taken not to be set back. *)
Clock ==
    /\ now < MaxTime
    /\ now' = now + 1
    /\ UNCHANGED <<tokens, token_time, accepted>>

RateNext == Admit \/ Refuse \/ Clock

RateSpec == RateInit /\ [][RateNext]_rvars

-----------------------------------------------------------------------------
(* Properties *)

(* The variables of the rate limiter have their types; tokens is never negative. *)
RateTypeOK ==
    /\ now \in StartTime .. MaxTime
    /\ token_time \in StartTime .. now
    /\ tokens \in 0 .. MaxTokens
    /\ accepted \in 0 .. MaxAccepted

(* From dht_init up to now, no more requests went through than a full bucket    *)
(* and what accrued since then: time the bucket did not need is never used twice. *)
RateHolds == accepted <= MaxTokens + Rate * (now - StartTime)

(* A request is refused only in the second in which the bucket was last refilled:   *)
(* whatever was refused before, a request that comes a second later goes through.   *)
RefusedOnlyAfterRefill == [][Refuse => token_time = now]_rvars
=============================================================================
