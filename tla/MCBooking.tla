----------------------------- MODULE MCBooking ------------------------------
(* Small instances of Booking for TLC: who asks for what. *)
EXTENDS Booking, TLC

CONSTANTS s1, s2, u1, u2, h1, c1, p1, h2, c2, p2, x, y

Create(seats) == [op |-> "create", seats |-> seats]
Pay(b) == [op |-> "pay", of |-> b]
Cancel(b) == [op |-> "cancel", of |-> b]
Status(b, to) == [op |-> "status", of |-> b, to |-> to]
Hold(seats) == [op |-> "hold", seats |-> seats]
Release(seats) == [op |-> "release", seats |-> seats]
None == [r \in Requests |-> {}]

\* Two users each hold the seat, book it and pay, in any order.
Rivals == h1 :> u1 @@ c1 :> u1 @@ p1 :> u1 @@ h2 :> u2 @@ c2 :> u2 @@ p2 :> u2
RivalHolds == h1 :> {Hold(<<s1>>)} @@ h2 :> {Hold(<<s1>>)} @@ None
RivalDeals == c1 :> {Create(<<s1>>)} @@ p1 :> {Pay(c1)}
           @@ c2 :> {Create(<<s1>>)} @@ p2 :> {Pay(c2)} @@ None

\* A user holds one seat of two, books one or both and pays; another user books one of
\* them; then either booking is paid, cancelled or given a status.  Or nobody holds or
\* books any other seat, and the booking is paid and may be cancelled twice.
Buyers == [r \in Requests |-> IF r \in {c2, p2} THEN u2 ELSE u1]
LifeHolds == h1 :> {Hold(<<s2>>)} @@ None
LifeDeals == c1 :> {Create(<<s1, s2>>), Create(<<s1>>), Create(<<s1, s1>>)} @@ p1 :> {Pay(c1)}
          @@ c2 :> {Create(<<s2>>)}
          @@ x :> {Pay(c2), Cancel(c1)}
          @@ y :> {Cancel(c1), Status(c1, "CONFIRMED"), Status(c1, "COMPLETED")} @@ None
LifeCasts == {{h1, c1, p1, c2, x}, {c1, p1, x, y}}

Everybody == {Requests}

\* No seat is held: two users book the same seat, and one of them may cancel.
NoHolds == None
TwoSales == c1 :> {Create(<<s1>>)} @@ c2 :> {Create(<<s1>>)} @@ p1 :> {Pay(c1)}
         @@ p2 :> {Pay(c2)} @@ None
SaleAndCancel == c1 :> {Create(<<s1>>)} @@ c2 :> {Create(<<s1>>)} @@ p2 :> {Pay(c2)}
              @@ x :> {Cancel(c1)} @@ None
=============================================================================
