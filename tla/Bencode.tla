------------------------------ MODULE Bencode ------------------------------
(***************************************************************************)
(* libbenc: bencoded values, their encoder, their decoder and the          *)
(* dictionaries the message parser of dht/dht.c looks its keys up in.      *)
(*                                                                         *)
(* A text is a sequence of bytes.  The decoder reads it at the indices     *)
(* 1 .. Len(b) + 1: dht_message_parse copies a datagram with strdup, so    *)
(* that one zero byte follows it.  Lengths and addresses are size_t,       *)
(* integers benc_int_t: both wrap at the size of a word, the latter as     *)
(* two's complement, which is what builds make of the undefined overflow   *)
(* of a signed number.  Memory is not modelled, except for the results C   *)
(* leaves undefined: a string for which benc_bstr_new answers NULL, having *)
(* no bytes or more than malloc gives, and the head of a list or           *)
(* dictionary of no entries, which its decoder never sets.                 *)
(***************************************************************************)
EXTENDS Integers, SequencesExt

CONSTANTS
    WordSize,     \* how many values a size_t has: 2^64
    Base          \* the address of the text, b->base

(* malloc never hands out the upper half of the addresses; dht_periodic reads *)
(* datagrams of at most 1536 bytes.                                           *)
ASSUME AddressAssumption ==
    /\ WordSize \in Nat /\ WordSize % 2 = 0
    /\ Base \in 1 .. WordSize \div 2 - 1536

(* The value of benc_int_t with the bits of n, and the least there is. *)
Signed(n) == LET m == n % WordSize IN IF m < WordSize \div 2 THEN m ELSE m - WordSize
LeastInt == - (WordSize \div 2)

NUL == 0
Minus == 45
Zero == 48
Colon == 58
CharD == 100
CharE == 101
CharI == 105
CharL == 108

IsDigit(c) == c \in Zero .. Zero + 9

-----------------------------------------------------------------------------
(* Values.  A dictionary is the list of its entries, in the order of the   *)
(* linked list.                                                            *)

bobj_int_new(i)      == [type |-> "int", val |-> i]
bobj_bstr_new(bytes) == [type |-> "bstr", val |-> bytes]
bobj_list_new        == [type |-> "list", val |-> <<>>]
bobj_dict_new        == [type |-> "dict", val |-> <<>>]

(* What the head of an empty list or dictionary points to after decoding. *)
Unset == [type |-> "unset", val |-> 0]

(* Mutant of benc_bstr_compare: only the common part is compared. *)
CompareCommonPart(a, b) ==
    LET n == IF Len(a) < Len(b) THEN Len(a) ELSE Len(b)
        differ == {k \in 1 .. n : a[k] # b[k]}
    IN  IF differ = {} THEN 0
        ELSE LET k == CHOOSE k \in differ : \A m \in differ : k <= m IN a[k] - b[k]

benc_bstr_compare(a, b) ==
    LET n == IF Len(a) < Len(b) THEN Len(a) ELSE Len(b)
        differ == {k \in 1 .. n : a[k] # b[k]}
    IN  IF differ = {} THEN Len(a) - Len(b)
        ELSE LET k == CHOOSE k \in differ : \A m \in differ : k <= m IN a[k] - b[k]

(* The first entry whose key compares with `key' as Test asks, 0 if there is none. *)
FirstEntry(dict, key, Test(_)) ==
    SelectInSeq(dict, LAMBDA entry : Test(benc_bstr_compare(key, entry.key)))

IsSame(cmp) == cmp = 0
IsNotAfter(cmp) == cmp <= 0

(* NULL is the empty set, a value the set that holds it. *)
bobj_dict_lookup(obj, key) ==
    LET i == FirstEntry(obj.val, key, IsSame)
    IN  IF i = 0 THEN {} ELSE {obj.val[i].val}

(* Keeps the keys sorted; a key that is there already keeps its value. *)
bobj_dict_insert(obj, key, val) ==
    LET i == FirstEntry(obj.val, key, IsNotAfter)
        entry == [key |-> key, val |-> val]
    IN  IF i = 0 THEN [obj EXCEPT !.val = Append(@, entry)]
        ELSE IF IsSame(benc_bstr_compare(key, obj.val[i].key)) THEN obj
        ELSE [obj EXCEPT !.val = InsertAt(@, i, entry)]

bobj_dict_remove(obj, key) ==
    LET i == FirstEntry(obj.val, key, IsSame)
    IN  IF i = 0 THEN obj ELSE [obj EXCEPT !.val = RemoveAt(@, i)]

bobj_list_push(obj, elem) == [obj EXCEPT !.val = <<elem>> \o @]

bobj_list_pop(obj) == IF obj.val = <<>> THEN obj ELSE [obj EXCEPT !.val = Tail(@)]

-----------------------------------------------------------------------------
(* The encoder, and the size it is given a buffer of *)

(* The remainder of C, which has the sign of the number. *)
LastDigit(n) == IF n < 0 THEN - ((-n) % 10) ELSE n % 10

RECURSIVE Decimal(_)
Decimal(n) == (IF n < 10 THEN <<>> ELSE Decimal(n \div 10)) \o <<Zero + LastDigit(n)>>

RECURSIVE pseudo_log10(_)
pseudo_log10(n) == IF n < 10 THEN 1 ELSE 1 + pseudo_log10(n \div 10)

(* The least integer is its own negative: it is written as one character, no digit. *)
Magnitude(i) == IF i < 0 THEN Signed(-i) ELSE i

benc_int_repsize(i) == 2 + (IF i < 0 THEN 1 ELSE 0) + pseudo_log10(Magnitude(i))

benc_int_encode(i) ==
    <<CharI>> \o (IF i < 0 THEN <<Minus>> ELSE <<>>) \o Decimal(Magnitude(i)) \o <<CharE>>

benc_bstr_repsize(s) == 1 + pseudo_log10(Len(s)) + Len(s)

benc_bstr_encode(s) == Decimal(Len(s)) \o <<Colon>> \o s

RECURSIVE bobj_repsize(_)
bobj_repsize(o) ==
    CASE o.type = "int"  -> benc_int_repsize(o.val)
      [] o.type = "bstr" -> benc_bstr_repsize(o.val)
      [] o.type = "list" -> FoldLeft(LAMBDA n, e : n + bobj_repsize(e), 2, o.val)
      [] o.type = "dict" -> FoldLeft(LAMBDA n, e : n + benc_bstr_repsize(e.key)
                                                     + bobj_repsize(e.val), 2, o.val)

RECURSIVE bobj_encode(_)
bobj_encode(o) ==
    CASE o.type = "int"  -> benc_int_encode(o.val)
      [] o.type = "bstr" -> benc_bstr_encode(o.val)
      [] o.type = "list" -> FoldLeft(LAMBDA s, e : s \o bobj_encode(e), <<CharL>>, o.val) \o <<CharE>>
      [] o.type = "dict" -> FoldLeft(LAMBDA s, e : s \o benc_bstr_encode(e.key)
                                                     \o bobj_encode(e.val), <<CharD>>, o.val) \o <<CharE>>

-----------------------------------------------------------------------------
(* The decoder: each part takes the text and where it starts, and answers   *)
(* whether it succeeded, the value, and where it stopped.  "crash" is the   *)
(* use of the NULL that benc_bstr_new answered.                             *)

At(b, p) == IF p <= Len(b) THEN b[p] ELSE NUL

Done(o, p) == [r |-> "ok", obj |-> o, ptr |-> p]
Failed(p)  == [r |-> "fail", obj |-> Unset, ptr |-> p]
Crashed(p) == [r |-> "crash", obj |-> Unset, ptr |-> p]

RECURSIVE Digits(_, _, _)
(* The bits of the number that starts at p, continuing n, and where its digits end. *)
Digits(b, p, n) ==
    IF IsDigit(At(b, p))
        THEN Digits(b, p + 1, (10 * n + At(b, p) - Zero) % WordSize)
        ELSE <<n, p>>

benc_int_decode(b, start) ==
    LET signed == At(b, start + 1) = Minus
        from == IF signed THEN start + 2 ELSE start + 1
        n == Digits(b, from, 0)
    IN  IF ~ signed /\ ~ IsDigit(At(b, start + 1)) THEN Failed(start + 1)
        ELSE IF At(b, n[2]) # CharE THEN Failed(n[2])
        ELSE Done(bobj_int_new(Signed(IF signed THEN - n[1] ELSE n[1])), n[2] + 1)

(* b->ptr + len, for the pointer to p. *)
PtrPlus(p, len) == (Base + p - 1 + len) % WordSize

(* Mutant of benc_bstr_decode: one byte more than the text holds is let through. *)
BstrDecodeOneOver(b, start) ==
    LET n == Digits(b, start, 0)
        from == n[2] + 1
    IN  IF At(b, n[2]) # Colon THEN Failed(n[2])
        ELSE IF PtrPlus(from, n[1]) > Base + Len(b) + 1 THEN Failed(from)
        ELSE IF n[1] = 0 \/ n[1] >= WordSize \div 2 THEN Crashed(from)
        ELSE Done(bobj_bstr_new([k \in 1 .. n[1] |-> At(b, from + k - 1)]), from + n[1])

(* A length so large that the sum wraps passes the test; malloc has no room for it. *)
benc_bstr_decode(b, start) ==
    LET n == Digits(b, start, 0)
        from == n[2] + 1
    IN  IF At(b, n[2]) # Colon THEN Failed(n[2])
        ELSE IF PtrPlus(from, n[1]) > Base + Len(b) THEN Failed(from)
        ELSE IF n[1] = 0 \/ n[1] >= WordSize \div 2 THEN Crashed(from)
        ELSE Done(bobj_bstr_new(SubSeq(b, from, from + n[1] - 1)), from + n[1])

RECURSIVE bdec_mem(_, _), ListFrom(_, _, _), DictFrom(_, _, _)

ListFrom(b, p, elems) ==
    IF At(b, p) = CharE
        THEN Done([type |-> "list", val |-> IF elems = <<>> THEN <<Unset>> ELSE elems], p + 1)
        ELSE LET elem == bdec_mem(b, p)
             IN  IF elem.r # "ok" THEN elem ELSE ListFrom(b, elem.ptr, Append(elems, elem.obj))

(* Neither the order of the keys nor that they differ is looked at. *)
DictFrom(b, p, entries) ==
    IF At(b, p) = CharE
        THEN Done([type |-> "dict", val |-> IF entries = <<>> THEN <<Unset>> ELSE entries], p + 1)
        ELSE LET key == benc_bstr_decode(b, p)
                 val == bdec_mem(b, key.ptr)
             IN  IF key.r # "ok" THEN key
                 ELSE IF val.r # "ok" THEN val
                 ELSE DictFrom(b, val.ptr, Append(entries, [key |-> key.obj.val, val |-> val.obj]))

bdec_mem(b, p) ==
    CASE At(b, p) = CharI       -> benc_int_decode(b, p)
      [] At(b, p) = CharL       -> ListFrom(b, p + 1, <<>>)
      [] At(b, p) = CharD       -> DictFrom(b, p + 1, <<>>)
      [] IsDigit(At(b, p))  -> benc_bstr_decode(b, p)
      [] OTHER              -> Failed(p)

-----------------------------------------------------------------------------
RECURSIVE WellDefined(_)
(* No string, list or dictionary without content, which the decoder cannot return, *)
(* and no integer whose sign cannot be changed, which the encoder cannot write.    *)
WellDefined(o) ==
    CASE o.type = "int"   -> o.val # LeastInt
      [] o.type = "unset" -> FALSE
      [] o.type = "bstr"  -> o.val # <<>>
      [] o.type = "list"  -> o.val # <<>> /\ \A i \in DOMAIN o.val : WellDefined(o.val[i])
      [] o.type = "dict"  -> /\ o.val # <<>> /\ o.val # <<Unset>>
                             /\ \A i \in DOMAIN o.val :
                                    o.val[i].key # <<>> /\ WellDefined(o.val[i].val)
=============================================================================
