----------------------------- MODULE SessionLease -----------------------------
(***************************************************************************)
(* What UdpServer promises of its sessions, whatever the threads do: a     *)
(* peer gets a session when a datagram of it is handled, and keeps it, its *)
(* user context included, until it has been silent for more than Timeout,  *)
(* or its datagrams wait unread in the socket.                             *)
(***************************************************************************)
EXTENDS Integers

CONSTANTS Peers, Timeout, Long   \* Long: silent for as long as matters

VARIABLES
  idle,    \* per peer, the time since its last datagram that was not dropped
  unread,  \* the peers with datagrams in the socket
  leased   \* the peers with a session

vars == <<idle, unread, leased>>

Init == /\ idle = [p \in Peers |-> Long]
        /\ unread = {} /\ leased = {}

Arrive(p) == /\ idle' = [idle EXCEPT ![p] = 0]
             /\ unread' = unread \cup {p}
             /\ UNCHANGED leased

\* The datagram is handled, or dropped because no callback wants it.
Handle(p) == /\ p \in unread /\ unread' \in {unread, unread \ {p}}
             /\ leased' = leased \cup {p}
             /\ UNCHANGED idle

Drop(p) == /\ p \in unread /\ unread' \in {unread, unread \ {p}}
           /\ idle' = [idle EXCEPT ![p] = Long]
           /\ UNCHANGED leased

Expire(S) == /\ \A p \in S : idle[p] > Timeout \/ p \in unread
             /\ leased' = leased \ S
             /\ UNCHANGED <<idle, unread>>

Tick == /\ idle' = [p \in Peers |-> IF idle[p] < Long THEN idle[p] + 1
                                                        ELSE Long]
        /\ UNCHANGED <<unread, leased>>

\* The server is destroyed, or its socket closed.
Close == /\ leased' \in {leased, {}} /\ unread' \in {unread, {}}
         /\ UNCHANGED idle

Next == \/ \E p \in Peers : Arrive(p) \/ Handle(p) \/ Drop(p)
        \/ \E S \in SUBSET leased : Expire(S)
        \/ Tick \/ Close

Spec == Init /\ [][Next]_vars
===============================================================================
