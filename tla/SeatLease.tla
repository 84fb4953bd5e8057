----------------------------- MODULE SeatLease ------------------------------
(***************************************************************************)
(* What the seat locks promise, without Redis, calls or batches.  A lease  *)
(* of a user on a seat is a number of ticks the user may still rely on.    *)
(* The promise is exclusive, with one exception the locks allow: extending *)
(* a lease may override another user's, and the user overridden is then    *)
(* recorded in "robbed" for as long as his own lease would have lasted.    *)
(***************************************************************************)
EXTENDS Naturals

CONSTANTS Seats, Users, LockTTL

VARIABLES lease, robbed

vars == <<lease, robbed>>

Live(s, u) == lease[s][u] > 0

\* The users who rely on a lease on s, u aside, and have not been robbed.
Rivals(s, u) == {v \in Users \ {u} : Live(s, v) /\ v \notin robbed[s]}

Init == /\ lease = [s \in Seats |-> [u \in Users |-> 0]]
        /\ robbed = [s \in Seats |-> {}]

\* A seat nobody else can count on is leased to u.
Grant(s, u) ==
    /\ Rivals(s, u) = {}
    /\ lease' = [lease EXCEPT ![s][u] = LockTTL]
    /\ robbed' = [robbed EXCEPT ![s] = @ \ {u}]

\* u extends: whoever had a claim on the seat is overridden.
Extend(s, u) ==
    /\ lease' = [lease EXCEPT ![s][u] = LockTTL]
    /\ robbed' = [robbed EXCEPT ![s] = (@ \ {u}) \cup Rivals(s, u)]

\* u gives the lease up, or it is withdrawn.
End(s, u) ==
    /\ lease' = [lease EXCEPT ![s][u] = 0]
    /\ robbed' = [robbed EXCEPT ![s] = @ \ {u}]

Tick ==
    /\ lease' = [s \in Seats |-> [u \in Users |->
                    IF lease[s][u] > 0 THEN lease[s][u] - 1 ELSE 0]]
    /\ robbed' = [s \in Seats |-> {u \in robbed[s] : lease[s][u] > 1}]

Next == \/ \E s \in Seats, u \in Users : Grant(s, u) \/ Extend(s, u) \/ End(s, u)
        \/ Tick

Spec == Init /\ [][Next]_vars
=============================================================================
