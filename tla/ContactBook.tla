---------------------------- MODULE ContactBook ----------------------------
(***************************************************************************)
(* What the routing table promises to the rest of the DHT, without buckets *)
(* or times: a set of known contacts, some of them suspect.  Contacts are  *)
(* learnt one at a time, and only a suspect is ever forgotten.             *)
(***************************************************************************)
EXTENDS Naturals

CONSTANTS
    Contact,   \* all the contacts there may be
    Me         \* ourselves, never a contact

VARIABLES
    known,     \* the contacts in the book
    suspect    \* the ones that let several requests unanswered

book == <<known, suspect>>

BookInit == known = {} /\ suspect = {}

(* A contact is added, in the place of at most one suspect. *)
Learn ==
    \E c \in Contact \ (known \cup {Me}), old \in SUBSET suspect :
        /\ \A x, y \in old : x = y
        /\ known' = (known \ old) \cup {c}
        /\ suspect' \subseteq suspect \ old

(* Suspects are thrown out. *)
Forget ==
    \E gone \in SUBSET suspect :
        /\ known' = known \ gone
        /\ suspect' = suspect \ gone

(* One contact answers, or fails to answer once too often. *)
Judge ==
    \E c \in known :
        /\ known' = known
        /\ suspect' \in {suspect \cup {c}, suspect \ {c}}

BookNext == Learn \/ Forget \/ Judge

BookSpec == BookInit /\ [][BookNext]_book
=============================================================================
