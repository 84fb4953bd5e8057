------------------------------ MODULE MCTrips -------------------------------
(* Small instances of Trips for TLC: who asks for what. *)
EXTENDS Trips, TLC

CONSTANTS n1, t1, t2, b1, p1, x1, x2, x3

NewRoute == [op |-> "createRoute"]
Create(x, published, rows, cols) ==
    [op |-> "createTrip", route |-> x, published |-> published, rows |-> rows, cols |-> cols]
Book1(t) == [op |-> "book", trip |-> t]
Of(op, b) == [op |-> op, of |-> b]
ToStatus(b, to) == [op |-> "setStatus", of |-> b, to |-> to]
Status(t, to) == [op |-> "status", trip |-> t, status |-> {to}, published |-> {}]
Update(t, status, published) ==
    [op |-> "update", trip |-> t, status |-> status, published |-> published]
Delete(t) == [op |-> "deleteTrip", trip |-> t]
ToRoute(x, to) == [op |-> "updateRoute", route |-> x, to |-> to]
NoRoute(x) == [op |-> "deleteRoute", route |-> x]

\* A route and one or two trips on it, a booking, its payment, its cancellation or its way
\* out of CONFIRMED and back, and requests that cancel or delete the trips and the route;
\* or the second trip is on a route of its own.
Everything ==
    n1 :> {NewRoute}
    @@ t1 :> {Create(n1, {TRUE}, 2, 3)}
    @@ t2 :> {Create(n1, {}, 3, 1), Create(x3, {}, 3, 1), Delete(t1), Of("cancel", b1),
              ToStatus(b1, "COMPLETED")}
    @@ b1 :> {Book1(t1)}
    @@ p1 :> {Of("pay", b1)}
    @@ x1 :> {Status(t1, "CANCELLED"), Update(t1, {"CANCELLED"}, {}),
              Update(t2, {"OPEN"}, {TRUE}), ToRoute(n1, {"INACTIVE"})}
    @@ x2 :> {NoRoute(n1), Delete(t1), Status(t1, "DELAYED"), Update(t1, {}, {FALSE})}
    @@ x3 :> {Of("cancel", b1), NoRoute(n1), NewRoute, ToStatus(b1, "CONFIRMED")}

\* A paid booking, and an update of the trip.
PaidThenUpdated ==
    n1 :> {NewRoute} @@ t1 :> {Create(n1, {TRUE}, 1, 1)} @@ b1 :> {Book1(t1)}
    @@ p1 :> {Of("pay", b1)} @@ x1 :> {Update(t1, {"CANCELLED"}, {})}
=============================================================================
