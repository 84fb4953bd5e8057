---------------------------- MODULE MCSeatEvents ----------------------------
(* A small instance of SeatEvents for TLC: two requests of two users, and faults. *)
EXTENDS SeatEvents, TLC

CONSTANTS s1, s2, u1, u2, r1, r2

TwoCallers == r1 :> u1 @@ r2 :> u2
TwoHolds ==
    r1 :> {[op |-> "hold", seats |-> <<s1, s2>>]}
    @@ r2 :> {[op |-> o, seats |-> <<s2>>] :
                 o \in {"hold", "release", "extend", "confirm", "free"}}
=============================================================================
