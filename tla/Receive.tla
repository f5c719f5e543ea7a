------------------------------ MODULE Receive ------------------------------
(***************************************************************************)
(* How dht_periodic of dht/dht.c takes one datagram in: the read, the      *)
(* filters (martians, blacklist, parser, self, rate limiter) and the       *)
(* dispatch.  f4_init_p2p (ffff.c) opens one socket, of one family, and    *)
(* libevent calls dht_periodic(1) while that socket is readable.           *)
(*                                                                         *)
(* `rc' of dht_periodic is tested but never assigned: each call finds in   *)
(* it some value, negative or not.  errno is only set by a failing call,   *)
(* so after a successful read it still holds what an earlier failure left. *)
(***************************************************************************)
EXTENDS RateLimiter, Sequences

CONSTANTS
    Family,      \* of the only socket: 4 or 6
    Addr,        \* the senders' addresses
    Martians,    \* the addresses is_martian rejects
    NoAddr,      \* an unused slot of the blacklist
    Slots,       \* DHT_MAX_BLACKLISTED (10)
    MaxInbox     \* bound on the datagrams the kernel holds

ASSUME ReceiveAssumption ==
    /\ Family \in {4, 6}
    /\ Martians \subseteq Addr /\ NoAddr \notin Addr
    /\ Slots \in Nat \ {0} /\ MaxInbox \in Nat \ {0}

VARIABLES
    inbox,              \* the datagrams waiting in the socket
    blacklist,          \* the ring of snubbed senders
    next_blacklisted,   \* where the next one goes
    last                \* the last datagram at hand, and what became of it

vars == <<now, tokens, token_time, accepted, inbox, blacklist, next_blacklisted, last>>

(* What a sender may put in a message, as far as the code looks: a query or a   *)
(* response, the length of the transaction id, and whether it bears our own id. *)
Message == [from : Addr, y : {"q", "r"}, t_len : {1, 2, 4}, self : BOOLEAN]

Fates == {"none", "unread", "lost", "martian", "blacklisted", "unparseable", "self",
          "limited", "query", "broken", "known"}

Fate(m, fate) == last' = [msg |-> m, fate |-> fate]

-----------------------------------------------------------------------------
(* The filters *)

(* Mutant of Blacklisted: the loop stops one slot early. *)
BlacklistedButLast(a) == \E i \in 0 .. Slots - 2 : blacklist[i] = a

Blacklisted(a) == \E i \in 0 .. Slots - 1 : blacklist[i] = a

(* _dht_message_parse_impl: where the length of y was meant, that of t is tested. *)
Parses(m) == m.t_len = 1

(* Mutant of Snub: the index does not wrap. *)
SnubWithoutWrap(a) ==
    /\ blacklist' = [blacklist EXCEPT ![next_blacklisted] = a]
    /\ next_blacklisted' = next_blacklisted + 1

(* broken_node: the sender takes the place of the one snubbed the longest ago. *)
Snub(a) ==
    /\ blacklist' = [blacklist EXCEPT ![next_blacklisted] = a]
    /\ next_blacklisted' = (next_blacklisted + 1) % Slots

KeepList == UNCHANGED <<blacklist, next_blacklisted>>

(* Dropped before the dispatch, without a trace. *)
Drop(m) ==
    /\ \/ m.from \in Martians /\ Fate(m, "martian")
       \/ m.from \notin Martians /\ Blacklisted(m.from) /\ Fate(m, "blacklisted")
       \/ /\ m.from \notin Martians /\ ~ Blacklisted(m.from)
          /\ \/ ~ Parses(m) /\ Fate(m, "unparseable")
             \/ Parses(m) /\ m.self /\ Fate(m, "self")
    /\ KeepList
    /\ UNCHANGED rvars

Passes(m) == m.from \notin Martians /\ ~ Blacklisted(m.from) /\ Parses(m) /\ ~ m.self

(* Requests pay a token; _dht_handle_query does nothing with them. *)
TakeQuery(m) ==
    /\ m.y = "q"
    /\ \/ Admit /\ Fate(m, "query")
       \/ Refuse /\ Fate(m, "limited")
    /\ KeepList

(* _dht_handle_response: the sender of a short transaction id is snubbed; the  *)
(* others reach new_node.                                                      *)
TakeResponse(m) ==
    /\ m.y = "r"
    /\ IF m.t_len # 4
            THEN Snub(m.from) /\ Fate(m, "broken")
            ELSE KeepList /\ Fate(m, "known")
    /\ UNCHANGED rvars

-----------------------------------------------------------------------------
(* dht_periodic(1), up to `dontread'. *)

(* The IPv6 socket is read only if rc happens to be negative. *)
Unread(rcNegative) == Family = 6 /\ ~ rcNegative

(* A datagram was read, but the tests of rc and errno take it for a failure. *)
Mistaken(rcNegative, errnoIsAgain) == rcNegative /\ ~ errnoIsAgain

ReadOne ==
    /\ inbox # <<>>
    /\ \E rcNegative, errnoIsAgain \in BOOLEAN :
        IF Unread(rcNegative)
        THEN /\ Fate(Head(inbox), "unread")
             /\ KeepList
             /\ UNCHANGED <<inbox, rvars>>
        ELSE /\ inbox' = Tail(inbox)
             /\ IF Mistaken(rcNegative, errnoIsAgain)
                THEN Fate(Head(inbox), "lost") /\ KeepList /\ UNCHANGED rvars
                ELSE \/ Drop(Head(inbox))
                     \/ Passes(Head(inbox)) /\ TakeQuery(Head(inbox))
                     \/ Passes(Head(inbox)) /\ TakeResponse(Head(inbox))

(* A datagram arrives; the network may also lose it. *)
Arrive ==
    /\ Len(inbox) < MaxInbox
    /\ \E m \in Message : inbox' = Append(inbox, m)
    /\ UNCHANGED <<rvars, blacklist, next_blacklisted, last>>

Pass ==
    /\ Clock
    /\ UNCHANGED <<inbox, blacklist, next_blacklisted, last>>

-----------------------------------------------------------------------------
Init ==
    /\ RateInit
    /\ inbox = <<>>
    /\ blacklist = [i \in 0 .. Slots - 1 |-> NoAddr]
    /\ next_blacklisted = 0
    /\ last = [msg |-> <<>>, fate |-> "none"]

Next == ReadOne \/ Arrive \/ Pass

Spec == Init /\ [][Next]_vars

-----------------------------------------------------------------------------
(* Properties *)

(* Every variable has its type. *)
TypeOK ==
    /\ RateTypeOK
    /\ inbox \in Seq(Message) /\ Len(inbox) <= MaxInbox
    /\ blacklist \in [0 .. Slots - 1 -> Addr \cup {NoAddr}]
    /\ next_blacklisted \in 0 .. Slots - 1
    /\ last.fate \in Fates

(* Nobody takes two slots of the blacklist: it always holds as many snubbed  *)
(* senders as it has room for, and they are the most recent ones.            *)
BlacklistDistinct ==
    \A i, j \in 0 .. Slots - 1 : blacklist[i] = blacklist[j] /\ blacklist[i] # NoAddr => i = j

(* "if it is 1, it will" try to read data (dht/README, on the parameter available). *)
AvailableIsRead == last.fate # "unread"

(* "If a node replies, and if there is space in the routing table, it will be       *)
(* inserted" (dht/README): a reply with one of our transaction ids is understood.   *)
RepliesUnderstood == last.fate = "unparseable" => ~ (last.msg.y = "r" /\ last.msg.t_len = 4)
=============================================================================
