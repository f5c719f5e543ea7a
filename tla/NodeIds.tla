------------------------------ MODULE NodeIds ------------------------------
(***************************************************************************)
(* Node identifiers and the bit arithmetic dht/dht.c does on them.         *)
(*                                                                         *)
(* The code holds an id in 20 bytes, compares ids with memcmp (id_cmp) and *)
(* numbers bits from the most significant one.  Here an id is the number   *)
(* those bytes spell, so id_cmp is the order on numbers; the definitions   *)
(* give the results of the code's loops over bytes, not the loops.         *)
(***************************************************************************)
EXTENDS Integers

CONSTANTS
    IdBits,   \* bits in an id (160)
    Weight    \* Weight[p] is 2^(IdBits - p): how many ids share their first p bits

ASSUME IdBitsAssumption == IdBits \in Nat \ {0}

ASSUME WeightAssumption ==
    /\ Weight \in [0 .. IdBits -> Nat \ {0}]
    /\ Weight[IdBits] = 1
    /\ \A p \in 0 .. IdBits - 1 : Weight[p] = 2 * Weight[p + 1]

Id == 0 .. Weight[0] - 1

(* The end of the range of the last bucket, which has no next bucket. *)
EndOfIds == Weight[0]

(* x has no bit set at position p or after it. *)
Aligned(x, p) == x % Weight[p] = 0

(* The position of the lowest 1 bit of x, -1 when x is zero. *)
LowBit(x) ==
    IF \A p \in 0 .. IdBits - 1 : Aligned(x, p)
        THEN -1
        ELSE CHOOSE p \in 0 .. IdBits - 1 :
                /\ ~ Aligned(x, p)
                /\ \A q \in p + 1 .. IdBits - 1 : Aligned(x, q)

(* Mutant of RangeBit: the end of the range taken as inclusive. *)
RangeBitInclusive(lo, hi) ==
    LET bit1 == LowBit(lo)
        bit2 == LowBit(hi - 1)
    IN  (IF bit1 >= bit2 THEN bit1 ELSE bit2) + 1

(* How many leading bits every id of the range [lo, hi) shares, as far as  *)
(* bucket_middle and bucket_random can tell from the ends of the range.    *)
(* lowbit of the missing next bucket is -1, as is LowBit(EndOfIds).        *)
RangeBit(lo, hi) ==
    LET bit1 == LowBit(lo)
        bit2 == LowBit(hi)
    IN  (IF bit1 >= bit2 THEN bit1 ELSE bit2) + 1

(* bucket_middle answers rc < 0 when the range cannot be halved. *)
HasMiddle(lo, hi) == RangeBit(lo, hi) < IdBits

(* Mutant of BucketMiddle: the bit before the one that halves the range. *)
BucketMiddleBitEarly(lo, hi) == lo + Weight[RangeBit(lo, hi)]

(* Setting a bit that is clear in lo adds its weight. *)
BucketMiddle(lo, hi) == lo + Weight[RangeBit(lo, hi) + 1]

(* Mutant of BucketRandom: the bit that halves the range is kept too. *)
BucketRandomBitLate(lo, hi) ==
    IF HasMiddle(lo, hi)
        THEN lo .. lo + Weight[RangeBit(lo, hi) + 1] - 1
        ELSE {lo}

(* The ids bucket_random may return: the leading bits of lo, the others random. *)
BucketRandom(lo, hi) ==
    IF HasMiddle(lo, hi)
        THEN lo .. lo + Weight[RangeBit(lo, hi)] - 1
        ELSE {lo}
=============================================================================
