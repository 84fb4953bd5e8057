------------------------------- MODULE Trips --------------------------------
(***************************************************************************)
(* TripsService for one vendor: creating, updating and deleting routes and *)
(* trips, a trip with its seat plan, while bookings of the trips are made, *)
(* paid, cancelled and moved to another status.  The guards count rows     *)
(* first and act afterwards; every await of a database command is one      *)
(* step.  A route, a trip and a booking are named after the request that   *)
(* creates them.  What a booking does to seats and locks is Booking's      *)
(* subject.                                                                *)
(***************************************************************************)
EXTENDS Integers, SequencesExt

CONSTANTS Requests,
          Script,    \* what each request may ask for: records [op, ...]
          CanFail    \* requests whose commands may fail, or whose process may die

ASSUME CanFailAssumption == CanFail \subseteq Requests

VARIABLES route,     \* the routes' status, "NONE" where there is no route
          trip,      \* the trips [route, status, published, seats]
          booking,   \* the bookings [trip, status, pay]
          stage, ask,   \* where each request stands and what it asks for
          unseen     \* auxiliary: the paid bookings a request's count does not answer for

tables == <<route, trip, booking>>
vars == <<tables, stage, ask, unseen>>

RouteStatus == {"ACTIVE", "INACTIVE", "MAINTENANCE"}
TripStatus == {"SCHEDULED", "OPEN", "BOARDING", "DEPARTED", "COMPLETED", "CANCELLED", "DELAYED"}
BookingStatus == {"PENDING", "CONFIRMED", "CANCELLED", "COMPLETED", "NO_SHOW", "EXPIRED"}
NoTrip == [route |-> "none", status |-> "NONE", published |-> FALSE, seats |-> <<>>]
NoBooking == [trip |-> "none", status |-> "NONE", pay |-> "UNPAID"]
Nothing == [op |-> "none"]

TripExists(t) == trip[t] # NoTrip
RouteExists(x) == route[x] # "NONE"
TripsOn(x) == {t \in Requests : trip[t].route = x}
BookingsOf(t) == {b \in Requests : booking[b].trip = t}

Cells == [row : Nat, col : Nat, type : {"PREMIUM", "NORMAL"}, position : {"WINDOW", "AISLE"}]

\* A field that a request may leave out: the set of the value given, or none.
Optional(S) == {{}} \cup {{x} : x \in S}
Given(field, old) == IF field = {} THEN old ELSE CHOOSE x \in field : TRUE

\* What a request carries, as far as a step looks at it.
CreateTripDto == [op : {"createTrip"}, route : Requests, published : Optional(BOOLEAN),
                  rows : Nat \ {0}, cols : Nat \ {0}]
UpdateTripDto == [op : {"update"}, trip : Requests, status : Optional(TripStatus),
                  published : Optional(BOOLEAN)]
UpdateRouteDto == [op : {"updateRoute"}, route : Requests, to : Optional(RouteStatus)]

\* What a request may ask for.
Asked == CreateTripDto \cup UpdateTripDto \cup UpdateRouteDto
         \cup [op : {"status"}, trip : Requests, status : {{x} : x \in TripStatus},
               published : {{}}]
         \cup [op : {"deleteTrip", "book"}, trip : Requests]
         \cup [op : {"createRoute"}]
         \cup [op : {"deleteRoute"}, route : Requests]
         \cup [op : {"pay", "cancel"}, of : Requests]
         \cup [op : {"setStatus"}, of : Requests, to : BookingStatus]

ASSUME ScriptAssumption == \A r \in Requests : Script[r] \subseteq Asked

\* Types and ranges of the variables.
TypeOK ==
    /\ route \in [Requests -> RouteStatus \cup {"NONE"}]
    /\ trip \in [Requests -> [route : Requests, status : TripStatus, published : BOOLEAN,
                              seats : Seq(Cells)] \cup {NoTrip}]
    /\ booking \in [Requests -> [trip : Requests, status : BookingStatus,
                                 pay : {"UNPAID", "PAID", "REFUNDED"}] \cup {NoBooking}]
    /\ stage \in [Requests -> {"idle", "insertTrip", "generate", "writeTrip", "countPaid",
                               "countLive", "deleteTrip", "insertRoute", "writeRoute",
                               "countTrips", "deactivate", "deleteRoute", "insertBooking", "writePaid",
                               "writeRefund", "writeCancel", "writeStatus", "done", "refused", "failed"}]
    /\ \A r \in Requests : ask[r] \in Script[r] \cup {Nothing}
    /\ unseen \in [Requests -> SUBSET Requests]

Init ==
    /\ route = [x \in Requests |-> "NONE"]
    /\ trip = [t \in Requests |-> NoTrip]
    /\ booking = [b \in Requests |-> NoBooking]
    /\ stage = [r \in Requests |-> "idle"]
    /\ ask = [r \in Requests |-> Nothing]
    /\ unseen = [r \in Requests |-> {}]

On(r, where) == stage[r] = where
Move(r, where) == stage' = [stage EXCEPT ![r] = where]

\* The request arrives; its first command is a read, after which it goes on or gives up.
Asks(r, a, where) ==
    /\ On(r, "idle")
    /\ ask' = [ask EXCEPT ![r] = a]
    /\ Move(r, where)
    /\ UNCHANGED <<tables, unseen>>

IfFound(found, where) == IF found THEN where ELSE "refused"
-----------------------------------------------------------------------------
(* createTrip *)

CreateTrip(r, a) == a.op = "createTrip" /\ Asks(r, a, "insertTrip")

\* The trip's row refers to the route: without it the insert fails.
InsertTrip(r) ==
    /\ On(r, "insertTrip")
    /\ IF RouteExists(ask[r].route)
       THEN /\ trip' = [trip EXCEPT ![r] =
                           [route |-> ask[r].route,
                            status |-> IF ask[r].published = {TRUE} THEN "OPEN" ELSE "SCHEDULED",
                            published |-> Given(ask[r].published, FALSE), seats |-> <<>>]]
            /\ Move(r, "generate")
       ELSE Move(r, "failed") /\ UNCHANGED trip
    /\ UNCHANGED <<route, booking, ask, unseen>>

\* (slip) The right edge is taken from the number of rows.
IsWindowByRows(col, rows, cols) == col \in {1, rows}

IsWindow(col, rows, cols) == col \in {1, cols}

\* The seats row by row; a seat's number is its place in the list.
SeatPlan(rows, cols) ==
    FlattenSeq([row \in 1 .. rows |->
        [col \in 1 .. cols |->
            [row |-> row, col |-> col,
             type |-> IF row = 1 THEN "PREMIUM" ELSE "NORMAL",
             position |-> IF IsWindow(col, rows, cols) THEN "WINDOW" ELSE "AISLE"]]])

GenerateSeats(r) ==
    /\ On(r, "generate")
    /\ IF TripExists(r)
       THEN /\ trip' = [trip EXCEPT ![r].seats = SeatPlan(ask[r].rows, ask[r].cols)]
            /\ Move(r, "done")
       ELSE Move(r, "failed") /\ UNCHANGED trip
    /\ UNCHANGED <<route, booking, ask, unseen>>
-----------------------------------------------------------------------------
(* updateTrip, updateTripStatus *)

UpdateTrip(r, a) ==
    a.op = "update" /\ Asks(r, a, IfFound(TripExists(a.trip), "writeTrip"))

UpdateTripStatus(r, a) ==
    /\ a.op = "status"
    /\ Asks(r, a, IfFound(TripExists(a.trip),
                          IF a.status = {"CANCELLED"} THEN "countPaid" ELSE "writeTrip"))

\* (slip) Payments are looked for among the bookings that still wait for one.
PaidOnWaiting(t) == {b \in BookingsOf(t) : booking[b].pay = "PAID" /\ booking[b].status = "PENDING"}

PaidOn(t) == {b \in BookingsOf(t) : booking[b].pay = "PAID" /\ booking[b].status = "CONFIRMED"}

CountPaid(r) ==
    /\ On(r, "countPaid")
    /\ Move(r, IF PaidOn(ask[r].trip) = {} THEN "writeTrip" ELSE "refused")
    /\ unseen' = [unseen EXCEPT ![r] = {b \in BookingsOf(ask[r].trip) :
                                          booking[b].pay = "PAID" /\ booking[b].status # "CONFIRMED"}]
    /\ UNCHANGED <<tables, ask>>

\* The fields that are given, and no other.
Updated(row, a) == [row EXCEPT !.status = Given(a.status, @),
                               !.published = Given(a.published, @)]

\* The update fails if the trip has been deleted since.
WriteTrip(r) ==
    /\ On(r, "writeTrip")
    /\ IF TripExists(ask[r].trip)
       THEN /\ trip' = [trip EXCEPT ![ask[r].trip] = Updated(@, ask[r])]
            /\ Move(r, "done")
       ELSE Move(r, "failed") /\ UNCHANGED trip
    /\ UNCHANGED <<route, booking, ask, unseen>>
-----------------------------------------------------------------------------
(* deleteTrip *)

DeleteTrip(r, a) ==
    a.op = "deleteTrip" /\ Asks(r, a, IfFound(TripExists(a.trip), "countLive"))

CountLive(r) ==
    /\ On(r, "countLive")
    /\ Move(r, IF \E b \in BookingsOf(ask[r].trip) : booking[b].status \in {"CONFIRMED", "PENDING"}
               THEN "refused" ELSE "deleteTrip")
    /\ UNCHANGED <<tables, ask, unseen>>

\* (slip) The rows of the bookings do not restrict the deletion.
DeletableAlways(t) == TRUE

\* The schema restricts it: no booking, in whatever status, refers to the trip.
Deletable(t) == BookingsOf(t) = {}

\* (slip) The seats are left behind.
WithoutRow(t) == [trip EXCEPT ![t].status = "NONE"]

\* (slip) The seats go and the trip stays.
WithoutSeats(t) == [trip EXCEPT ![t].seats = <<>>]

\* The schema deletes the seats with the trip.
Without(t) == [trip EXCEPT ![t] = NoTrip]

RemoveTrip(r) ==
    /\ On(r, "deleteTrip")
    /\ IF TripExists(ask[r].trip) /\ Deletable(ask[r].trip)
       THEN trip' = Without(ask[r].trip) /\ Move(r, "done")
       ELSE Move(r, "failed") /\ UNCHANGED trip
    /\ UNCHANGED <<route, booking, ask, unseen>>
-----------------------------------------------------------------------------
(* createRoute, updateRoute, deleteRoute *)

CreateRoute(r, a) == a.op = "createRoute" /\ Asks(r, a, "insertRoute")

InsertRoute(r) ==
    /\ On(r, "insertRoute")
    /\ route' = [route EXCEPT ![r] = "ACTIVE"]
    /\ Move(r, "done")
    /\ UNCHANGED <<trip, booking, ask, unseen>>

UpdateRoute(r, a) ==
    a.op = "updateRoute" /\ Asks(r, a, IfFound(RouteExists(a.route), "writeRoute"))

\* The update fails if the route has been deleted since.
SetRoute(r, to) ==
    /\ IF RouteExists(ask[r].route)
       THEN route' = [route EXCEPT ![ask[r].route] = to] /\ Move(r, "done")
       ELSE Move(r, "failed") /\ UNCHANGED route
    /\ UNCHANGED <<trip, booking, ask, unseen>>

WriteRoute(r) ==
    On(r, "writeRoute") /\ SetRoute(r, Given(ask[r].to, route[ask[r].route]))

DeleteRoute(r, a) ==
    a.op = "deleteRoute" /\ Asks(r, a, IfFound(RouteExists(a.route), "countTrips"))

CountTrips(r) ==
    /\ On(r, "countTrips")
    /\ Move(r, IF TripsOn(ask[r].route) # {} THEN "deactivate" ELSE "deleteRoute")
    /\ UNCHANGED <<tables, ask, unseen>>

Deactivate(r) == On(r, "deactivate") /\ SetRoute(r, "INACTIVE")

\* (slip) The rows of the trips do not restrict the deletion.
RouteDeletableAlways(x) == RouteExists(x)

\* The schema restricts it: no trip refers to the route.
RouteDeletable(x) == RouteExists(x) /\ TripsOn(x) = {}

RemoveRoute(r) ==
    /\ On(r, "deleteRoute")
    /\ IF RouteDeletable(ask[r].route)
       THEN route' = [route EXCEPT ![ask[r].route] = "NONE"] /\ Move(r, "done")
       ELSE Move(r, "failed") /\ UNCHANGED route
    /\ UNCHANGED <<trip, booking, ask, unseen>>
-----------------------------------------------------------------------------
(* searchTrips *)

\* What a customer's search finds, the filters of his question aside.
Listed(t) == trip[t].published /\ trip[t].status \in {"OPEN", "SCHEDULED"}
-----------------------------------------------------------------------------
(* BookingsService.create, confirmAfterPayment, cancel and updateStatus, as far as trips go *)

\* A trip can be booked in any status, once it has the seats.
Book(r, a) ==
    a.op = "book" /\ Asks(r, a, IfFound(trip[a.trip].seats # <<>>, "insertBooking"))

InsertBooking(r) ==
    /\ On(r, "insertBooking")
    /\ IF TripExists(ask[r].trip)
       THEN /\ booking' = [booking EXCEPT ![r] = [trip |-> ask[r].trip, status |-> "PENDING",
                                                  pay |-> "UNPAID"]]
            /\ Move(r, "done")
       ELSE Move(r, "failed") /\ UNCHANGED booking
    /\ UNCHANGED <<route, trip, ask, unseen>>

Pay(r, a) ==
    a.op = "pay" /\ Asks(r, a, IfFound(booking[a.of] # NoBooking, "writePaid"))

WritePaid(r) ==
    /\ On(r, "writePaid")
    /\ booking' = [booking EXCEPT ![ask[r].of].status = "CONFIRMED", ![ask[r].of].pay = "PAID"]
    /\ unseen' = [q \in Requests |-> unseen[q] \cup {ask[r].of}]
    /\ Move(r, "done")
    /\ UNCHANGED <<route, trip, ask>>

\* What becomes of the payment is decided on what is read now: paid, it is refunded,
\* and what has been refunded already is written back as it was.  REFUNDED stands for
\* PARTIALLY_REFUNDED, too; the trip is one that has not departed, for times are left out.
CancelBooking(r, a) ==
    /\ a.op = "cancel"
    /\ Asks(r, a, IfFound(booking[a.of].status \notin {"NONE", "CANCELLED", "COMPLETED"},
                          IF booking[a.of].pay = "UNPAID" THEN "writeCancel" ELSE "writeRefund"))

WriteCancel(r) ==
    /\ stage[r] \in {"writeRefund", "writeCancel"}
    /\ booking' = [booking EXCEPT ![ask[r].of].status = "CANCELLED",
                                  ![ask[r].of].pay = IF On(r, "writeRefund") THEN "REFUNDED"
                                                                             ELSE "UNPAID"]
    /\ Move(r, "done")
    /\ UNCHANGED <<route, trip, ask, unseen>>

\* Any status may follow any other.
SetBookingStatus(r, a) ==
    a.op = "setStatus" /\ Asks(r, a, IfFound(booking[a.of] # NoBooking, "writeStatus"))

WriteStatus(r) ==
    /\ On(r, "writeStatus")
    /\ booking' = [booking EXCEPT ![ask[r].of].status = ask[r].to]
    /\ Move(r, "done")
    /\ UNCHANGED <<route, trip, ask, unseen>>
-----------------------------------------------------------------------------
Fail(r) ==
    /\ r \in CanFail
    /\ stage[r] \notin {"idle", "done", "refused", "failed"}
    /\ Move(r, "failed")
    /\ UNCHANGED <<tables, ask, unseen>>

Start(r, a) == \/ CreateTrip(r, a) \/ UpdateTrip(r, a) \/ UpdateTripStatus(r, a)
               \/ DeleteTrip(r, a)
               \/ CreateRoute(r, a) \/ UpdateRoute(r, a) \/ DeleteRoute(r, a)
               \/ Book(r, a) \/ Pay(r, a) \/ CancelBooking(r, a) \/ SetBookingStatus(r, a)

Step(r) == \/ InsertTrip(r) \/ GenerateSeats(r)
           \/ CountPaid(r) \/ WriteTrip(r)
           \/ CountLive(r) \/ RemoveTrip(r)
           \/ InsertRoute(r) \/ WriteRoute(r) \/ CountTrips(r) \/ Deactivate(r) \/ RemoveRoute(r)
           \/ InsertBooking(r) \/ WritePaid(r) \/ WriteCancel(r) \/ WriteStatus(r)
           \/ Fail(r)

Next == \E r \in Requests : Step(r) \/ \E a \in Script[r] : Start(r, a)

Spec == Init /\ [][Next]_vars
-----------------------------------------------------------------------------
(* Properties *)

\* However the counts of deleteTrip and a new booking interleave, a booking never
\* loses its trip or the seats it was made for.
BookingsKeepTheirTrip ==
    \A b \in Requests : booking[b] # NoBooking => trip[booking[b].trip].seats # <<>>

\* However the count of deleteRoute and a new trip interleave, a trip never loses its
\* route.
TripsKeepTheirRoute == \A t \in Requests : TripExists(t) => RouteExists(trip[t].route)

\* updateTripStatus cancels a trip over a booking that is confirmed and paid only if its
\* count could not see it: the payment came after the count, or the count found it paid
\* under another status, out of which updateStatus has moved it since.
OverlookedPaymentsUnseen ==
    [][\A r \in Requests :
          WriteTrip(r) /\ ask[r].op = "status" /\ ask[r].status = {"CANCELLED"}
              => {b \in BookingsOf(ask[r].trip) :
                     booking[b].status = "CONFIRMED" /\ booking[b].pay = "PAID"} \subseteq unseen[r]]_vars

\* A trip that the search shows without a seat to book is one whose creation is between
\* its two commands, or broke off there: no order of the other requests leads to it.
ListedTripsHaveSeats ==
    \A t \in Requests :
        Listed(t) /\ trip[t].seats = <<>> => stage[t] \in {"generate", "failed"}

\* A trip's seats are its grid, each cell once, row by row from the left; the first
\* row is the dear one and the seats at both sides are the windows.
SeatsAreTheGrid ==
    \A t \in Requests :
        LET seats == trip[t].seats
            rows  == ask[t].rows
            cols  == ask[t].cols
        IN  seats # <<>> =>
            /\ Len(seats) = rows * cols
            /\ \A n \in DOMAIN seats :
                  /\ n = (seats[n].row - 1) * cols + seats[n].col
                  /\ seats[n].col \in 1 .. cols
                  /\ seats[n].type = "PREMIUM" <=> n <= cols
                  /\ seats[n].position = "WINDOW" <=> (n % cols = 0 \/ (n - 1) % cols = 0)

\* BR-RT-005, in the comment at trips.service.ts:284 and in
\* 04-Route-Trip-Management-System.md:252: a trip with paid bookings is not cancelled.
PaidTripsStay ==
    [][\A t \in Requests :
          trip[t].status # "CANCELLED" /\ trip'[t].status = "CANCELLED"
              => ~\E b \in BookingsOf(t) :
                     booking[b].status = "CONFIRMED" /\ booking[b].pay = "PAID"]_vars
=============================================================================
