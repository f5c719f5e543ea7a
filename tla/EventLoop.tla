----------------------------- MODULE EventLoop -----------------------------
(***************************************************************************)
(* The searches under the event loop of ffff.c: f4_cb_dht_read is the only *)
(* caller of dht_periodic, libevent calls it while the socket is readable, *)
(* the event has no timeout and tosleep is dropped.                        *)
(***************************************************************************)
EXTENDS Search

VARIABLE readable   \* a datagram waits in the DHT socket

loopVars == <<svars, readable>>

(* A datagram arrives, whatever it holds. *)
Arrive ==
    /\ ~ readable
    /\ readable' = TRUE
    /\ UNCHANGED svars

(* f4_cb_dht_read: dht_periodic takes one datagram. *)
CbDhtRead ==
    /\ readable
    /\ Periodic \/ HandleReply
    /\ readable' \in BOOLEAN

LoopInit == Init /\ readable = FALSE

LoopNext ==
    \/ (DhtSearch \/ Tick) /\ UNCHANGED readable
    \/ Arrive
    \/ CbDhtRead

(* libevent delivers a readable socket, and time passes; nothing says that datagrams come. *)
LoopSpec ==
    /\ LoopInit /\ [][LoopNext]_loopVars
    /\ WF_loopVars(CbDhtRead) /\ WF_loopVars(Tick /\ UNCHANGED readable)

(* search_time has come and an unfinished search is due: dht_periodic would step it. *)
SearchWaits == wake = 0 /\ \E i \in DOMAIN searches : Due(searches[i])

(* "The time after which dht_periodic should be called if no data is available is *)
(* returned in the parameter tosleep" (dht/README): when search_time comes and an *)
(* unfinished search is due, dht_periodic is called and steps it.                 *)
TimerServed == SearchWaits ~> ~ SearchWaits
=============================================================================
