----------------------------- MODULE MCSeatHold -----------------------------
(* Small instances of SeatHold for TLC: who calls what. *)
EXTENDS SeatHold, TLC

CONSTANTS s1, s2, u1, u2, r1, r2, r3

Op(op, seats) == [op |-> op, seats |-> seats]

\* Three requests in any order: u1 holds two seats, u2 wants one of them or does
\* something else to both, maybe breaking off, and u1 comes back to that one, to hold,
\* extend or confirm it.
Callers == r1 :> u1 @@ r2 :> u2 @@ r3 :> u1
AnyRace == r1 :> {Op("hold", <<s2, s1>>)}
        @@ r2 :> {Op("hold", <<s1>>)}
                 \cup {Op(o, <<s1, s2>>) : o \in {"release", "confirm", "free", "map"}}
        @@ r3 :> {Op(o, <<s1>>) : o \in {"hold", "extend", "confirm"}}

\* One user holds a seat, then another one.
OneCaller == r1 :> u1 @@ r2 :> u1
HoldAgain == r1 :> {Op("hold", <<s1>>)} @@ r2 :> {Op("hold", <<s2>>)}

\* One user wants a seat the other is about to have paid for.
TwoCallers == r1 :> u1 @@ r2 :> u2
HoldAndSale == r1 :> {Op("hold", <<s1>>)} @@ r2 :> {Op("confirm", <<s1>>)}
=============================================================================
