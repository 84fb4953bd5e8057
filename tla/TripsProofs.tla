---------------------------- MODULE TripsProofs -----------------------------
(***************************************************************************)
(* Proofs about Trips for every set of requests and whatever they ask: the *)
(* references between bookings, trips, seats and routes survive every      *)
(* interleaving of the counts and the deletions; a seat list is its grid,  *)
(* whatever the size; a cancellation overlooks only what its count could    *)
(* not see.                                                                *)
(***************************************************************************)
EXTENDS Trips, WellFoundedInduction, TLAPS

USE ScriptAssumption
-----------------------------------------------------------------------------
(* The inductive invariant.                                                *)

\* The seat lists a trip can have.
Plans == {<<>>} \cup {SeatPlan(rows, cols) : rows \in Nat \ {0}, cols \in Nat \ {0}}

TripRows == [route : Requests \cup {"none"}, status : TripStatus \cup {"NONE"}, published : BOOLEAN, seats : Plans]
BookingRows == [trip : Requests \cup {"none"},
                status : BookingStatus \cup {"NONE"},
                pay : {"UNPAID", "PAID", "REFUNDED"}]

Shapes ==
    /\ route \in [Requests -> RouteStatus \cup {"NONE"}]
    /\ trip \in [Requests -> TripRows]
    /\ booking \in [Requests -> BookingRows]
    /\ stage = [r \in Requests |-> stage[r]]
    /\ ask = [r \in Requests |-> ask[r]]

\* A request on its way asks for what it is allowed to, and one that is about to write
\* to a trip, a booking or a route knows which one.
Errands ==
    \A r \in Requests :
        /\ stage[r] \in {"insertTrip", "generate"}
              => /\ ask[r].route \in Requests
                 /\ ask[r].rows \in Nat \ {0} /\ ask[r].cols \in Nat \ {0}
                 /\ ask[r].published \in Optional(BOOLEAN)
        /\ stage[r] \in {"writeTrip", "countPaid", "countLive", "deleteTrip", "insertBooking"}
              => ask[r].trip \in Requests
        /\ stage[r] \in {"writeTrip", "countPaid"} 
              => ask[r].status \in Optional(TripStatus) /\ ask[r].published \in Optional(BOOLEAN)
        /\ stage[r] \in {"writeRoute", "countTrips", "deactivate", "deleteRoute"}
              => ask[r].route \in Requests
        /\ stage[r] = "writeRoute" => ask[r].to \in Optional(RouteStatus)
        /\ stage[r] \in {"writePaid", "writeRefund", "writeCancel", "writeStatus"}
              => ask[r].of \in Requests /\ booking[ask[r].of] # NoBooking
        /\ stage[r] = "writeStatus" => ask[r].to \in BookingStatus

\* The trip of a request that has not inserted it, or not generated its seats.
Early == {"idle", "insertTrip", "generate"}

Births == \A t \in Requests : stage[t] \in Early => trip[t].seats = <<>>

\* A request that has found the trip it books had seats never sees it without: either it
\* is gone, or the seats are there.
Found ==
    \A r \in Requests :
        stage[r] = "insertBooking" =>
            /\ stage[ask[r].trip] \notin Early
            /\ trip[ask[r].trip] = NoTrip \/ trip[ask[r].trip].seats # <<>>

Booked ==
    \A b \in Requests :
        booking[b] # NoBooking =>
            booking[b].trip \in Requests /\ trip[booking[b].trip].seats # <<>>

Routed ==
    \A t \in Requests :
        trip[t] # NoTrip => trip[t].route \in Requests /\ RouteExists(trip[t].route)

Inv == Shapes /\ Errands /\ Births /\ Found /\ Booked /\ Routed
-----------------------------------------------------------------------------
LEMMA InitInv == Init => Inv
  BY DEF Init, Inv, Shapes, Errands, Births, Found, Booked, Routed, NoTrip, NoBooking, Plans,
         TripRows, BookingRows

\* What a request carries, by what it asks for.
LEMMA Carried ==
    ASSUME NEW a \in Asked
    PROVE  /\ a.op = "createTrip" =>
                 /\ a.route \in Requests /\ a.rows \in Nat \ {0} /\ a.cols \in Nat \ {0}
                 /\ a.published \in Optional(BOOLEAN)
           /\ a.op \in {"update", "status"} =>
                 /\ a.trip \in Requests /\ a.status \in Optional(TripStatus)
                 /\ a.published \in Optional(BOOLEAN)
           /\ a.op \in {"deleteTrip", "book"} => a.trip \in Requests
           /\ a.op = "updateRoute" => a.route \in Requests /\ a.to \in Optional(RouteStatus)
           /\ a.op = "deleteRoute" => a.route \in Requests
           /\ a.op \in {"pay", "cancel", "setStatus"} => a.of \in Requests
           /\ a.op = "setStatus" => a.to \in BookingStatus
  <1>1. CASE a \in CreateTripDto
    BY <1>1 DEF CreateTripDto
  <1>2. CASE a \in UpdateTripDto
    BY <1>2 DEF UpdateTripDto
  <1>3. CASE a \in UpdateRouteDto
    BY <1>3 DEF UpdateRouteDto
  <1>4. CASE a \notin CreateTripDto \cup UpdateTripDto \cup UpdateRouteDto
    BY <1>4 DEF Asked, Optional
  <1> QED
    BY <1>1, <1>2, <1>3, <1>4

\* A request that arrives changes no table and stands where its question sends it.
LEMMA StartInv ==
    ASSUME Inv, NEW r \in Requests, NEW a \in Script[r], Start(r, a)
    PROVE  Inv'
  <1>1. a \in Asked
    OBVIOUS
  <1>2. PICK where : /\ Asks(r, a, where)
                     /\ \/ where \in {"refused", "insertRoute"}
                        \/ where = "countTrips" /\ a.route \in Requests
                        \/ /\ where = "insertTrip"
                           /\ a.route \in Requests
                           /\ a.rows \in Nat \ {0} /\ a.cols \in Nat \ {0}
                           /\ a.published \in Optional(BOOLEAN)
                        \/ where = "countLive" /\ a.trip \in Requests
                        \/ /\ where \in {"writeTrip", "countPaid"}
                           /\ a.trip \in Requests /\ a.status \in Optional(TripStatus)
                           /\ a.published \in Optional(BOOLEAN)
                        \/ /\ where = "writeRoute"
                           /\ a.route \in Requests /\ a.to \in Optional(RouteStatus)
                        \/ /\ where = "insertBooking" /\ a.trip \in Requests
                           /\ trip[a.trip].seats # <<>>
                        \/ /\ where \in {"writePaid", "writeRefund", "writeCancel"}
                           /\ a.of \in Requests /\ booking[a.of] # NoBooking
                        \/ /\ where = "writeStatus" /\ a.to \in BookingStatus
                           /\ a.of \in Requests /\ booking[a.of] # NoBooking
    <2>1. CASE CreateTrip(r, a) \/ CreateRoute(r, a) \/ DeleteRoute(r, a)
      BY <1>1, <2>1, Carried DEF CreateTrip, CreateRoute, DeleteRoute, IfFound
    <2>2. CASE UpdateTrip(r, a) \/ UpdateTripStatus(r, a) \/ DeleteTrip(r, a)
      BY <1>1, <2>2, Carried DEF UpdateTrip, UpdateTripStatus, DeleteTrip, IfFound
    <2>3. CASE UpdateRoute(r, a)
      BY <1>1, <2>3, Carried DEF UpdateRoute, IfFound
    <2>4. CASE Book(r, a)
      BY <1>1, <2>4, Carried DEF Book, IfFound
    <2>5. CASE Pay(r, a) \/ CancelBooking(r, a)
      BY <1>1, <2>5, Carried DEF Pay, CancelBooking, IfFound, NoBooking
    <2>6. CASE SetBookingStatus(r, a)
      BY <1>1, <2>6, Carried DEF SetBookingStatus, IfFound
    <2> QED
      BY <2>1, <2>2, <2>3, <2>4, <2>5, <2>6 DEF Start
  <1>3. /\ stage[r] = "idle"
        /\ stage' = [stage EXCEPT ![r] = where]
        /\ ask' = [ask EXCEPT ![r] = a]
        /\ UNCHANGED <<route, trip, booking>>
    BY <1>2 DEF Asks, On, Move, tables
  <1>4. Shapes' /\ Booked' /\ Routed'
    BY <1>3 DEF Inv, Shapes, Booked, Routed, RouteExists
  <1>5. Errands'
    BY <1>2, <1>3 DEF Inv, Shapes, Errands
  <1>6. Births' /\ Found'
    BY <1>2, <1>3 DEF Inv, Shapes, Births, Found, Errands, Early
  <1> QED
    BY <1>4, <1>5, <1>6 DEF Inv

\* A step that only moves the request on, to a place where it needs to know no more.
LEMMA MoveInv ==
    ASSUME Inv, NEW r \in Requests,
           NEW where \in {"writeTrip", "deleteTrip", "deactivate", "deleteRoute", "refused", "failed"},
           where \in {"writeTrip", "deleteTrip"} => ask[r].trip \in Requests,
           where \in {"deactivate", "deleteRoute"} => ask[r].route \in Requests,
           where = "writeTrip" => /\ ask[r].status \in Optional(TripStatus)
                                  /\ ask[r].published \in Optional(BOOLEAN),
           Move(r, where), UNCHANGED <<route, trip, booking, ask>>
    PROVE  Inv'
  <1>1. Shapes' /\ Booked' /\ Routed'
    BY DEF Inv, Shapes, Booked, Routed, RouteExists, Move
  <1>2. Errands'
    BY DEF Inv, Shapes, Errands, Move
  <1>3. Births' /\ Found'
    BY DEF Inv, Shapes, Births, Found, Errands, Early, Move
  <1> QED
    BY <1>1, <1>2, <1>3 DEF Inv
\* A command that fails.
LEMMA FailedInv ==
    ASSUME Inv, NEW r \in Requests, Move(r, "failed"), UNCHANGED <<route, trip, booking, ask>>
    PROVE  Inv'
  BY MoveInv
-----------------------------------------------------------------------------
(* The steps that write to a table.                                        *)

\* A field that may be left out keeps its old value then.
LEMMA GivenType ==
    ASSUME NEW S, NEW T, NEW field \in Optional(S), NEW old \in T
    PROVE  Given(field, old) \in S \cup T
  BY DEF Optional, Given

LEMMA InsertTripInv ==
    ASSUME Inv, NEW r \in Requests, InsertTrip(r)
    PROVE  Inv'
  <1>1. CASE ~RouteExists(ask[r].route)
    BY <1>1, FailedInv DEF InsertTrip
  <1>2. CASE RouteExists(ask[r].route)
    <2>1. PICK status \in TripStatus, published \in BOOLEAN :
          /\ stage[r] = "insertTrip"
          /\ stage' = [stage EXCEPT ![r] = "generate"]
          /\ trip' = [trip EXCEPT ![r] = [route |-> ask[r].route, status |-> status,
                                         published |-> published, seats |-> <<>>]]
          /\ UNCHANGED <<route, booking, ask>>
      <3>1. ask[r].published \in Optional(BOOLEAN)
        BY DEF InsertTrip, On, Inv, Errands
      <3>2. Given(ask[r].published, FALSE) \in BOOLEAN
        BY <3>1, GivenType
      <3> QED
        BY <1>2, <3>2 DEF InsertTrip, On, Move, TripStatus
    <2>2. /\ trip[r].seats = <<>>
          /\ \A q \in Requests : stage[q] = "insertBooking" => ask[q].trip # r
          /\ \A b \in Requests : booking[b] # NoBooking => booking[b].trip # r
      BY <2>1 DEF Inv, Births, Found, Booked, Early
    <2>3. Shapes' /\ Routed' /\ Errands'
      <3>1. ask[r].route \in Requests
        BY <2>1 DEF Inv, Errands
      <3>2. [route |-> ask[r].route, status |-> status, published |-> published,
             seats |-> <<>>] \in TripRows
        BY <3>1 DEF TripRows, Plans
      <3>3. trip' \in [Requests -> TripRows] /\ trip'[r].route = ask[r].route
        BY <2>1, <3>2 DEF Inv, Shapes
      <3>4. Shapes' /\ Errands'
        BY <2>1, <3>3 DEF Inv, Shapes, Errands
      <3>5. Routed'
        BY <1>2, <2>1, <3>1, <3>3 DEF Inv, Shapes, Routed, RouteExists
      <3> QED
        BY <3>4, <3>5
    <2>4. Births' /\ Found' /\ Booked'
      BY <2>1, <2>2 DEF Inv, Shapes, Births, Found, Booked, Errands, Early
    <2> QED
      BY <2>3, <2>4 DEF Inv
  <1> QED
    BY <1>1, <1>2

LEMMA GenerateSeatsInv ==
    ASSUME Inv, NEW r \in Requests, GenerateSeats(r)
    PROVE  Inv'
  <1>1. CASE ~TripExists(r)
    BY <1>1, FailedInv DEF GenerateSeats
  <1>2. CASE TripExists(r)
    <2> DEFINE plan == SeatPlan(ask[r].rows, ask[r].cols)
    <2>1. /\ stage[r] = "generate"
          /\ stage' = [stage EXCEPT ![r] = "done"]
          /\ trip' = [trip EXCEPT ![r].seats = plan]
          /\ UNCHANGED <<route, booking, ask>>
          /\ trip[r] # NoTrip
      BY <1>2 DEF GenerateSeats, On, Move, TripExists
    <2>2. plan \in Plans
      BY <2>1 DEF Inv, Errands, Plans
    <2> HIDE DEF plan
    <2>3. /\ \A q \in Requests : stage[q] = "insertBooking" => ask[q].trip # r
          /\ \A b \in Requests : booking[b] # NoBooking => booking[b].trip # r
      BY <2>1 DEF Inv, Births, Found, Booked, Early
    <2>4. \A q \in Requests : q # r => trip'[q] = trip[q]
      BY <2>1 DEF Inv, Shapes
    <2>5. trip' \in [Requests -> TripRows]
      <3>1. [trip[r] EXCEPT !.seats = plan] \in TripRows
        BY <2>2 DEF Inv, Shapes, TripRows
      <3> QED
        BY <2>1, <3>1 DEF Inv, Shapes
    <2>6. Shapes' /\ Errands'
      BY <2>1, <2>5 DEF Inv, Shapes, Errands
    <2>7. Routed'
      BY <2>1, <2>4 DEF Inv, Shapes, Routed, RouteExists
    <2>8. Births' /\ Found' /\ Booked'
      BY <2>1, <2>3, <2>4 DEF Inv, Shapes, Births, Found, Booked, Errands, Early
    <2> QED
      BY <2>6, <2>7, <2>8 DEF Inv
  <1> QED
    BY <1>1, <1>2

LEMMA WriteTripInv ==
    ASSUME Inv, NEW r \in Requests, WriteTrip(r)
    PROVE  Inv'
  <1>1. CASE ~TripExists(ask[r].trip)
    BY <1>1, FailedInv DEF WriteTrip
  <1>2. CASE TripExists(ask[r].trip)
    <2> DEFINE t == ask[r].trip
    <2>1. /\ stage[r] = "writeTrip"
          /\ stage' = [stage EXCEPT ![r] = "done"]
          /\ trip' = [trip EXCEPT ![t] = Updated(trip[t], ask[r])]
          /\ UNCHANGED <<route, booking, ask>>
          /\ trip[t] # NoTrip
      BY <1>2 DEF WriteTrip, On, Move, TripExists
    <2>2. t \in Requests
      BY <2>1 DEF Inv, Errands
    <2>3. /\ Updated(trip[t], ask[r]) \in TripRows
          /\ Updated(trip[t], ask[r]).seats = trip[t].seats
          /\ Updated(trip[t], ask[r]).route = trip[t].route
      <3>1. ask[r].status \in Optional(TripStatus) /\ ask[r].published \in Optional(BOOLEAN)
        BY <2>1 DEF Inv, Errands
      <3>2. trip[t] \in TripRows
        BY <2>2 DEF Inv, Shapes
      <3>3. Given(ask[r].status, trip[t].status) \in TripStatus \cup {"NONE"}
        <4>1. trip[t].status \in TripStatus \cup {"NONE"}
          BY <3>2 DEF TripRows
        <4> QED
          BY <3>1, <4>1, GivenType
      <3>4. Given(ask[r].published, trip[t].published) \in BOOLEAN
        <4>1. trip[t].published \in BOOLEAN
          BY <3>2 DEF TripRows
        <4> QED
          BY <3>1, <4>1, GivenType
      <3> QED
        BY <3>2, <3>3, <3>4 DEF TripRows, Updated
    <2>4. \A q \in Requests :
              /\ trip'[q].seats = trip[q].seats /\ trip'[q].route = trip[q].route
              /\ q # t => trip'[q] = trip[q]
      BY <2>1, <2>2, <2>3 DEF Inv, Shapes
    <2>5. trip' \in [Requests -> TripRows]
      BY <2>1, <2>2, <2>3 DEF Inv, Shapes
    <2>6. Shapes' /\ Errands'
      BY <2>1, <2>5 DEF Inv, Shapes, Errands
    <2>7. Routed'
      BY <2>1, <2>2, <2>4 DEF Inv, Routed, RouteExists
    <2>8. trip[t].seats # <<>> \/ \A q \in Requests : stage[q] = "insertBooking" => ask[q].trip # t
      BY <2>1, <2>2 DEF Inv, Found
    <2>9. Births' /\ Found' /\ Booked'
      BY <2>1, <2>2, <2>4, <2>8 DEF Inv, Shapes, Births, Found, Booked, Errands, Early
    <2> QED
      BY <2>6, <2>7, <2>9 DEF Inv
  <1> QED
    BY <1>1, <1>2

\* The schema's restriction makes up for whatever the count has missed.
LEMMA RemoveTripInv ==
    ASSUME Inv, NEW r \in Requests, RemoveTrip(r)
    PROVE  Inv'
  <1>1. CASE ~(TripExists(ask[r].trip) /\ Deletable(ask[r].trip))
    BY <1>1, FailedInv DEF RemoveTrip
  <1>2. CASE TripExists(ask[r].trip) /\ Deletable(ask[r].trip)
    <2> DEFINE t == ask[r].trip
    <2>1. /\ stage[r] = "deleteTrip"
          /\ stage' = [stage EXCEPT ![r] = "done"]
          /\ trip' = [trip EXCEPT ![t] = NoTrip]
          /\ UNCHANGED <<route, booking, ask>>
          /\ \A b \in Requests : booking[b].trip # t
      BY <1>2 DEF RemoveTrip, On, Move, TripExists, Deletable, BookingsOf, Without
    <2>2. t \in Requests
      BY <2>1 DEF Inv, Errands
    <2>3. Shapes' /\ Routed' /\ Errands'
      <3>1. NoTrip \in TripRows
        BY DEF NoTrip, TripRows, Plans
      <3> QED
        BY <2>1, <2>2, <3>1 DEF Inv, Shapes, Routed, Errands, RouteExists
    <2>4. Births' /\ Found' /\ Booked'
      BY <2>1, <2>2 DEF Inv, Shapes, Births, Found, Booked, Errands, Early, NoTrip
    <2> QED
      BY <2>3, <2>4 DEF Inv
  <1> QED
    BY <1>1, <1>2

\* Here too the count may have missed a trip, and the schema does not.
LEMMA RouteInv ==
    ASSUME Inv, NEW r \in Requests,
           InsertRoute(r) \/ WriteRoute(r) \/ Deactivate(r) \/ RemoveRoute(r)
    PROVE  Inv'
  <1>1. CASE Move(r, "failed") /\ UNCHANGED route
    BY <1>1, FailedInv DEF InsertRoute, WriteRoute, Deactivate, RemoveRoute, SetRoute
  <1>2. CASE ~(Move(r, "failed") /\ UNCHANGED route)
    <2>1. /\ stage' = [stage EXCEPT ![r] = "done"]
          /\ UNCHANGED <<trip, booking, ask>>
      BY <1>2 DEF InsertRoute, WriteRoute, Deactivate, RemoveRoute, SetRoute, Move
    <2>2. PICK x \in Requests, to \in RouteStatus \cup {"NONE"} :
              /\ route' = [route EXCEPT ![x] = to]
              /\ to = "NONE" => \A t \in Requests : trip[t].route # x
      <3>1. CASE InsertRoute(r)
        <4>1. "ACTIVE" \in RouteStatus \cup {"NONE"} /\ route' = [route EXCEPT ![r] = "ACTIVE"]
          BY <3>1 DEF InsertRoute, RouteStatus
        <4> QED
          BY <4>1
      <3>2. CASE WriteRoute(r)
        <4>1. /\ ask[r].route \in Requests /\ ask[r].to \in Optional(RouteStatus)
              /\ RouteExists(ask[r].route)
              /\ route' = [route EXCEPT ![ask[r].route] = Given(ask[r].to, route[ask[r].route])]
          BY <1>2, <3>2 DEF WriteRoute, SetRoute, On, Inv, Errands
        <4>2. route[ask[r].route] \in RouteStatus
          BY <4>1 DEF Inv, Shapes, RouteExists
        <4>3. Given(ask[r].to, route[ask[r].route]) \in RouteStatus
          BY <4>1, <4>2, GivenType
        <4>4. "NONE" \notin RouteStatus
          BY DEF RouteStatus
        <4> DEFINE x == ask[r].route
        <4> DEFINE new == Given(ask[r].to, route[x])
        <4> HIDE DEF x, new
        <4>5. x \in Requests /\ new \in RouteStatus /\ route' = [route EXCEPT ![x] = new]
          BY <4>1, <4>3 DEF x, new
        <4>6. new \in RouteStatus \cup {"NONE"} /\ new # "NONE"
          BY <4>4, <4>5
        <4> x \in Requests /\ new \in RouteStatus \cup {"NONE"}
          BY <4>5, <4>6
        <4> WITNESS x \in Requests, new \in RouteStatus \cup {"NONE"}
        <4> QED
          BY <4>5, <4>6
      <3>3. CASE Deactivate(r)
        <4>1. "INACTIVE" \in RouteStatus \cup {"NONE"}
          BY DEF RouteStatus
        <4> DEFINE x == ask[r].route
        <4>2. x \in Requests /\ route' = [route EXCEPT ![x] = "INACTIVE"]
          BY <1>2, <3>3 DEF Deactivate, SetRoute, On, Inv, Errands
        <4> HIDE DEF x
        <4> QED
          BY <4>1, <4>2
      <3>4. CASE RemoveRoute(r)
        BY <1>2, <3>4 DEF RemoveRoute, RouteDeletable, TripsOn, On, Inv, Errands
      <3> QED
        BY <3>1, <3>2, <3>3, <3>4
    <2>3. Shapes' /\ Errands' /\ Booked'
      BY <2>1, <2>2 DEF Inv, Shapes, Errands, Booked
    <2>4. Routed'
      BY <2>1, <2>2 DEF Inv, Shapes, Routed, RouteExists
    <2>5. Births' /\ Found'
      BY <2>1 DEF Inv, Shapes, Births, Found, Errands, Early
    <2> QED
      BY <2>3, <2>4, <2>5 DEF Inv
  <1> QED
    BY <1>1, <1>2

LEMMA InsertBookingInv ==
    ASSUME Inv, NEW r \in Requests, InsertBooking(r)
    PROVE  Inv'
  <1>1. CASE ~TripExists(ask[r].trip)
    BY <1>1, FailedInv DEF InsertBooking
  <1>2. CASE TripExists(ask[r].trip)
    <2> DEFINE t == ask[r].trip
    <2>1. /\ stage[r] = "insertBooking"
          /\ stage' = [stage EXCEPT ![r] = "done"]
          /\ booking' = [booking EXCEPT ![r] = [trip |-> t, status |-> "PENDING", pay |-> "UNPAID"]]
          /\ UNCHANGED <<route, trip, ask>>
          /\ trip[t] # NoTrip
      BY <1>2 DEF InsertBooking, On, Move, TripExists
    <2>2. t \in Requests /\ trip[t].seats # <<>>
      BY <2>1 DEF Inv, Errands, Found
    <2>3. Shapes' /\ Routed'
      BY <2>1, <2>2 DEF Inv, Shapes, Routed, RouteExists, BookingRows, BookingStatus
    <2>4. Errands'
      BY <2>1 DEF Inv, Shapes, Errands, NoBooking
    <2>5. Births' /\ Found' /\ Booked'
      BY <2>1, <2>2 DEF Inv, Shapes, Births, Found, Booked, Errands, Early
    <2> QED
      BY <2>3, <2>4, <2>5 DEF Inv
  <1> QED
    BY <1>1, <1>2

\* What paying, cancelling and moving a booking write to it.
LEMMA BookingWrites ==
    ASSUME Inv, NEW r \in Requests, WritePaid(r) \/ WriteCancel(r) \/ WriteStatus(r)
    PROVE  \E b \in Requests, status \in BookingStatus, pay \in {"UNPAID", "PAID", "REFUNDED"} :
              /\ b = ask[r].of /\ booking[b] # NoBooking
              /\ booking' = [booking EXCEPT ![b].status = status, ![b].pay = pay]
              /\ ~WritePaid(r) /\ pay = "PAID" => booking[b].pay = "PAID"
  <1> PICK b \in Requests : b = ask[r].of /\ booking[b] # NoBooking
    BY DEF WritePaid, WriteCancel, WriteStatus, On, Inv, Errands
  <1>1. CASE WritePaid(r)
    BY <1>1 DEF WritePaid, BookingStatus
  <1>2. CASE WriteCancel(r)
    BY <1>2 DEF WriteCancel, BookingStatus
  <1>3. CASE WriteStatus(r)
    <2>1. ask[r].to \in BookingStatus
      BY <1>3 DEF WriteStatus, On, Inv, Errands
    <2>2. booking[b] \in BookingRows
      BY DEF Inv, Shapes
    <2>3. booking' = [booking EXCEPT ![b].status = ask[r].to, ![b].pay = booking[b].pay]
      BY <1>3, <2>2 DEF WriteStatus, BookingRows, Inv, Shapes
    <2>4. booking[b].pay \in {"UNPAID", "PAID", "REFUNDED"}
      BY <2>2 DEF BookingRows
    <2> QED
      BY <2>1, <2>3, <2>4
  <1> QED
    BY <1>1, <1>2, <1>3

\* They leave the booking on its trip.
LEMMA WriteBookingInv ==
    ASSUME Inv, NEW r \in Requests, WritePaid(r) \/ WriteCancel(r) \/ WriteStatus(r)
    PROVE  Inv'
  <1> DEFINE b == ask[r].of
  <1>1. /\ stage[r] \in {"writePaid", "writeRefund", "writeCancel", "writeStatus"}
        /\ stage' = [stage EXCEPT ![r] = "done"]
        /\ UNCHANGED <<route, trip, ask>>
    BY DEF WritePaid, WriteCancel, WriteStatus, On, Move
  <1>2. b \in Requests /\ booking[b] # NoBooking
    BY <1>1 DEF Inv, Errands
  <1>3. PICK status \in BookingStatus, pay \in {"UNPAID", "PAID", "REFUNDED"} :
            booking' = [booking EXCEPT ![b].status = status, ![b].pay = pay]
    BY BookingWrites
  <1>4. \A c \in Requests :
            /\ booking'[c].trip = booking[c].trip
            /\ c # b => booking'[c] = booking[c]
    BY <1>2, <1>3 DEF Inv, Shapes
  <1>5. booking'[b] # NoBooking
    BY <1>2, <1>3 DEF Inv, Shapes, NoBooking, BookingStatus
  <1>6. Shapes'
    <2>1. booking[b] \in BookingRows
      BY <1>2 DEF Inv, Shapes
    <2>2. [booking[b] EXCEPT !.status = status, !.pay = pay] \in BookingRows
      BY <2>1 DEF BookingRows
    <2>3. booking' \in [Requests -> BookingRows]
      BY <1>2, <1>3, <2>2 DEF Inv, Shapes
    <2> QED
      BY <1>1, <2>3 DEF Inv, Shapes
  <1>7. Routed' /\ Births' /\ Found'
    BY <1>1 DEF Inv, Shapes, Routed, RouteExists, Births, Found, Errands, Early
  <1>8. Errands'
    BY <1>1, <1>2, <1>4, <1>5 DEF Inv, Shapes, Errands
  <1>9. Booked'
    BY <1>1, <1>2, <1>4 DEF Inv, Shapes, Booked
  <1> QED
    BY <1>6, <1>7, <1>8, <1>9 DEF Inv
-----------------------------------------------------------------------------
LEMMA NextInv == Inv /\ [Next]_vars => Inv'
  <1> SUFFICES ASSUME Inv, [Next]_vars PROVE Inv'
    OBVIOUS
  <1>1. CASE UNCHANGED vars
    BY <1>1 DEF vars, tables, Inv, Shapes, Errands, Births, Found, Booked, Routed, RouteExists
  <1>2. ASSUME NEW r \in Requests, NEW a \in Script[r], Start(r, a) PROVE Inv'
    BY <1>2, StartInv
  <1>3. ASSUME NEW r \in Requests, CountPaid(r) \/ CountLive(r) \/ CountTrips(r) \/ Fail(r)
        PROVE  Inv'
    <2>1. PICK where \in {"writeTrip", "deleteTrip", "deactivate", "deleteRoute", "refused", "failed"} :
              /\ Move(r, where)
              /\ UNCHANGED <<route, trip, booking, ask>>
              /\ where = "writeTrip" => stage[r] = "countPaid"
              /\ where = "deleteTrip" => stage[r] = "countLive"
              /\ where \in {"deactivate", "deleteRoute"} => stage[r] = "countTrips"
      BY <1>3 DEF CountPaid, CountLive, CountTrips, Fail, On, tables
    <2>2. /\ where \in {"writeTrip", "deleteTrip"} => ask[r].trip \in Requests
          /\ where \in {"deactivate", "deleteRoute"} => ask[r].route \in Requests
          /\ where = "writeTrip" => /\ ask[r].status \in Optional(TripStatus)
                                    /\ ask[r].published \in Optional(BOOLEAN)
      BY <2>1 DEF Inv, Errands
    <2> QED
      BY <2>1, <2>2, MoveInv
  <1>4. ASSUME NEW r \in Requests, Step(r) PROVE Inv'
    BY <1>3, <1>4, InsertTripInv, GenerateSeatsInv, WriteTripInv, RemoveTripInv, RouteInv,
       InsertBookingInv, WriteBookingInv DEF Step
  <1> QED
    BY <1>1, <1>2, <1>4 DEF Next

LEMMA Invariance == Spec => []Inv
  BY InitInv, NextInv, PTL DEF Spec

\* Whatever deleteTrip's count of the bookings misses, no booking is left without its
\* trip or the trip without the seats (trips.service.ts:303, Booking.trip in the schema).
THEOREM BookingsAreKept == Spec => []BookingsKeepTheirTrip
  <1>1. Inv => BookingsKeepTheirTrip
    BY DEF Inv, Booked, BookingsKeepTheirTrip
  <1> QED
    BY <1>1, Invariance, PTL

\* Whatever deleteRoute's count of the trips misses, no trip is left without its route
\* (trips.service.ts:85, Trip.route in the schema).
THEOREM RoutesAreKept == Spec => []TripsKeepTheirRoute
  <1>1. Inv => TripsKeepTheirRoute
    BY DEF Inv, Routed, TripExists, TripsKeepTheirRoute
  <1> QED
    BY <1>1, Invariance, PTL
-----------------------------------------------------------------------------
(* The seat plan.  What the library's FlattenSeq makes of equally long rows *)
(* is proved without an induction rule: if a solution of its recursion     *)
(* differed from the list of all cells, it would differ at a least row.    *)

\* A non-empty set of numbers has a least one.
LEMMA LeastNumber ==
    ASSUME NEW T, T \subseteq Nat, T # {}
    PROVE  \E n \in T : \A m \in T : n <= m
  <1> DEFINE Less == OpToRel(<, Nat)
  <1>1. PICK n \in T : \A m \in T : <<m, n>> \notin Less
    <2>1. IsWellFoundedOn(Less, Nat)
      BY NatLessThanWellFounded
    <2> HIDE DEF Less
    <2> QED
      BY <2>1, WFMin
  <1>2. \A m \in T : m < n => <<m, n>> \in Less
    BY DEF OpToRel
  <1> HIDE DEF Less
  <1>3. ASSUME NEW m \in T PROVE n <= m
    <2>1. ~(m < n) /\ m \in Nat /\ n \in Nat
      BY <1>1, <1>2
    <2> QED
      BY <2>1
  <1> QED
    BY <1>3

LEMMA Division ==
    ASSUME NEW a \in Nat, NEW b \in Nat \ {0}
    PROVE  a \div b \in Nat /\ a % b \in 0 .. b - 1 /\ a = b * (a \div b) + (a % b)
  <1>1. a \div b \in Int /\ a % b \in 0 .. b - 1
    OBVIOUS
  <1>2. a = b * (a \div b) + (a % b)
    OBVIOUS
  <1>3. a \div b >= 0
    OBVIOUS
  <1> QED
    BY <1>1, <1>2, <1>3

\* The row and the column of the n-th seat.
RowOf(n, cols) == ((n - 1) \div cols) + 1
ColOf(n, cols) == ((n - 1) % cols) + 1

\* The n-th seat's place tells its number.
LEMMA Coordinates ==
    ASSUME NEW cols \in Nat \ {0}, NEW n \in Nat \ {0}
    PROVE  /\ RowOf(n, cols) \in Nat \ {0}
           /\ ColOf(n, cols) \in 1 .. cols
           /\ n = (RowOf(n, cols) - 1) * cols + ColOf(n, cols)
           /\ RowOf(n, cols) = 1 <=> n <= cols
           /\ ColOf(n, cols) = 1 <=> (n - 1) % cols = 0
           /\ ColOf(n, cols) = cols <=> n % cols = 0
  <1> DEFINE d == (n - 1) \div cols
             c == (n - 1) % cols
             x == d * cols
  <1>1. d \in Nat /\ c \in 0 .. cols - 1 /\ n - 1 = cols * d + c
    BY Division
  <1>2. RowOf(n, cols) = d + 1 /\ ColOf(n, cols) = c + 1
    BY DEF RowOf, ColOf
  <1>3. c = (n - 1) % cols
    OBVIOUS
  <1> HIDE DEF d, c
  <1>4. x \in Nat /\ n = x + (c + 1) /\ (d + 1) - 1 = d
    BY <1>1
  <1>5. d = 0 <=> n <= cols
    <2>1. CASE d = 0
      BY <1>1, <1>4, <2>1
    <2>2. CASE d # 0
      <3>1. x >= cols
        BY <1>1, <2>2
      <3> HIDE DEF x
      <3> QED
        BY <1>1, <1>4, <2>2, <3>1
    <2> QED
      BY <2>1, <2>2
  <1>6. c + 1 = cols <=> n % cols = 0
    <2>1. ASSUME NEW q \in Nat, NEW a \in 0 .. cols - 1 PROVE (q * cols + a) % cols = a
      BY <2>1
    <2>2. CASE c + 1 = cols
      <3>1. d + 1 \in Nat /\ n = (d + 1) * cols + 0 /\ 0 \in 0 .. cols - 1
        BY <1>1, <1>4, <2>2
      <3> QED
        BY <2>1, <2>2, <3>1
    <2>3. CASE c + 1 # cols
      <3>1. c + 1 \in 0 .. cols - 1 /\ c + 1 # 0
        BY <1>1, <2>3
      <3> QED
        BY <1>1, <1>4, <2>1, <2>3, <3>1
    <2> QED
      BY <2>2, <2>3
  <1> QED
    BY <1>1, <1>2, <1>3, <1>4, <1>5, <1>6

\* It is a place in the grid.
LEMMA InGrid ==
    ASSUME NEW rows \in Nat \ {0}, NEW cols \in Nat \ {0}, NEW n \in 1 .. rows * cols
    PROVE  RowOf(n, cols) \in 1 .. rows /\ ColOf(n, cols) \in 1 .. cols
  <1> DEFINE row == RowOf(n, cols)
             col == ColOf(n, cols)
             x == (row - 1) * cols
             y == rows * cols
  <1>1. row \in Nat \ {0} /\ col \in 1 .. cols /\ n = x + col /\ n \in 1 .. y
    BY Coordinates
  <1> HIDE DEF row, col
  <1>2. CASE row > rows
    <2>1. x >= y /\ x \in Nat /\ y \in Nat
      BY <1>1, <1>2
    <2> HIDE DEF x, y
    <2> QED
      BY <1>1, <2>1
  <1>3. CASE ~(row > rows)
    BY <1>1, <1>3 DEF row, col
  <1> QED
    BY <1>2, <1>3

\* The seat in column c of the row after the first q rows.
LEMMA Places ==
    ASSUME NEW cols \in Nat \ {0}, NEW q \in Nat, NEW c \in 1 .. cols
    PROVE  RowOf(q * cols + c, cols) = q + 1 /\ ColOf(q * cols + c, cols) = c
  <1> DEFINE a == c - 1
  <1>1. a \in Nat /\ a < cols /\ (q * cols + c) - 1 = q * cols + a /\ a + 1 = c
    OBVIOUS
  <1> HIDE DEF a
  <1>2. (q * cols + a) % cols = a /\ (q * cols + a) \div cols = q
    BY <1>1
  <1> QED
    BY <1>1, <1>2 DEF RowOf, ColOf

\* A list that begins with one list and goes on with another.
LEMMA Appended ==
    ASSUME NEW S, NEW p \in Seq(S), NEW q \in Seq(S), NEW g,
           g \in Seq(S), Len(g) = Len(p) + Len(q),
           \A n \in 1 .. Len(p) : g[n] = p[n],
           \A n \in 1 .. Len(q) : g[Len(p) + n] = q[n]
    PROVE  g = p \o q
  <1> DEFINE o == p \o q
  <1>1. o \in Seq(S) /\ Len(o) = Len(p) + Len(q)
    OBVIOUS
  <1>2. \A n \in 1 .. Len(p) : o[n] = p[n]
    OBVIOUS
  <1>3. \A n \in 1 .. Len(q) : o[Len(p) + n] = q[n]
    OBVIOUS
  <1> HIDE DEF o
  <1>4. ASSUME NEW n \in 1 .. Len(p) + Len(q)
        PROVE  g[n] = o[n]
    <2>1. CASE n <= Len(p)
      BY <1>2, <2>1
    <2>2. CASE ~(n <= Len(p))
      <3>1. n - Len(p) \in 1 .. Len(q) /\ Len(p) + (n - Len(p)) = n
        BY <2>2
      <3> QED
        BY <1>3, <3>1
    <2> QED
      BY <2>1, <2>2
  <1>5. g = o
    BY <1>1, <1>4
  <1> QED
    BY <1>5 DEF o

\* Equally long rows of elements of S.
Rectangles(S, rows, cols) == [1 .. rows -> [1 .. cols -> S]]

\* The list holds the rows one after the other.
RowByRow(list, f, S, rows, cols) ==
    /\ list \in [1 .. rows * cols -> S]
    /\ \A n \in 1 .. rows * cols : list[n] = f[RowOf(n, cols)][ColOf(n, cols)]

\* The list of equally long rows one after the other.
LEMMA FlattenedRows ==
    ASSUME NEW S, NEW rows \in Nat \ {0}, NEW cols \in Nat \ {0},
           NEW f \in Rectangles(S, rows, cols)
    PROVE  RowByRow(FlattenSeq(f), f, S, rows, cols)
  <1> f \in [1 .. rows -> [1 .. cols -> S]]
    BY DEF Rectangles
  <1> DEFINE At(n) == f[RowOf(n, cols)][ColOf(n, cols)]
             G == [i \in 1 .. rows |-> [n \in 1 .. i * cols |-> At(n)]]
             Solves(h) == h = [i \in 1 .. Len(f) |-> IF i = 1 THEN f[i] ELSE h[i - 1] \o f[i]]
  <1>1. f \in Seq(Seq(S)) /\ Len(f) = rows
    OBVIOUS
  <1>2. ASSUME NEW i \in 1 .. rows, NEW n \in 1 .. i * cols
        PROVE  At(n) \in S
    <2>1. i \in Nat \ {0}
      OBVIOUS
    <2>2. RowOf(n, cols) \in 1 .. i /\ ColOf(n, cols) \in 1 .. cols
      BY <2>1, InGrid
    <2> QED
      BY <2>2
  <1>3. ASSUME NEW i \in 1 .. rows, i # 1
        PROVE  G[i] = G[i - 1] \o f[i]
    <2> DEFINE q == i - 1
               m == q * cols
    <2>1. q \in 1 .. rows /\ m \in Nat /\ i * cols = m + cols /\ q \in Nat
      BY <1>3
    <2>2. G[q] = [n \in 1 .. m |-> At(n)] /\ G[i] = [n \in 1 .. m + cols |-> At(n)]
      BY <2>1
    <2>3. G[q] \in [1 .. m -> S]
      BY <1>2, <2>1, <2>2
    <2>4. ASSUME NEW c \in 1 .. cols
          PROVE  At(m + c) = f[i][c]
      <3>1. RowOf(q * cols + c, cols) = q + 1 /\ ColOf(q * cols + c, cols) = c
        <4> HIDE DEF q
        <4> QED
          BY <2>1, Places
      <3>2. q + 1 = i
        BY <2>1
      <3> QED
        BY <3>1, <3>2
    <2>5. G[i] \in [1 .. m + cols -> S] /\ f[i] \in [1 .. cols -> S] /\ cols \in Nat
      BY <1>2, <2>1, <2>2
    <2>6. /\ \A n \in 1 .. m : G[i][n] = G[q][n]
          /\ \A c \in 1 .. cols : G[i][m + c] = f[i][c]
      <3> HIDE DEF G, At, m
      <3>1. \A n \in 1 .. m : n \in 1 .. m + cols
        BY <2>1
      <3>2. \A c \in 1 .. cols : m + c \in 1 .. m + cols
        BY <2>1
      <3> QED
        BY <2>2, <2>4, <3>1, <3>2
    <2> HIDE DEF G, m, q
    <2>7. G[i] = G[q] \o f[i]
      <3> DEFINE p == G[q]
                 l == f[i]
                 g == G[i]
      <3>1. /\ p \in Seq(S) /\ l \in Seq(S) /\ g \in Seq(S)
            /\ Len(p) = m /\ Len(l) = cols /\ Len(g) = m + cols
        <4>1. /\ p \in [1 .. m -> S] /\ l \in [1 .. cols -> S] /\ g \in [1 .. m + cols -> S]
              /\ m \in Nat /\ cols \in Nat /\ m + cols \in Nat
          BY <2>1, <2>3, <2>5
        <4> HIDE DEF p, l, g
        <4>2. p \in Seq(S) /\ Len(p) = m
          BY ONLY <4>1
        <4>3. l \in Seq(S) /\ Len(l) = cols
          BY ONLY <4>1
        <4>4. g \in Seq(S) /\ Len(g) = m + cols
          BY ONLY <4>1
        <4> QED
          BY <4>2, <4>3, <4>4
      <3> HIDE DEF p, l, g
      <3> SUFFICES g = p \o l
        BY DEF p, l, g
      <3>2. /\ \A n \in 1 .. m : g[n] = p[n]
            /\ \A c \in 1 .. cols : g[m + c] = l[c]
        BY <2>6 DEF p, l, g
      <3> QED
        BY <3>1, <3>2, Appended
    <2> QED
      BY <2>7 DEF q
  <1>4. G[1] = f[1]
    <2>1. 1 * cols = cols /\ 0 * cols = 0 /\ 1 \in 1 .. rows /\ 0 \in Nat
      OBVIOUS
    <2>2. ASSUME NEW n \in 1 .. cols PROVE At(n) = f[1][n]
      <3>1. RowOf(0 * cols + n, cols) = 0 + 1 /\ ColOf(0 * cols + n, cols) = n
        BY <2>1, Places
      <3>2. 0 * cols + n = n
        OBVIOUS
      <3> QED
        BY <3>1, <3>2
    <2>3. G[1] = [n \in 1 .. cols |-> At(n)] /\ f[1] = [n \in 1 .. cols |-> f[1][n]]
      BY <2>1
    <2> QED
      BY <2>2, <2>3
  <1>5. Solves(G)
    <2>1. G = [i \in 1 .. Len(f) |-> G[i]]
      BY <1>1
    <2> HIDE DEF G
    <2> QED
      BY <1>1, <1>3, <1>4, <2>1
  <1>6. ASSUME NEW h, Solves(h) PROVE h = G
    <2> DEFINE Wrong == {i \in 1 .. rows : h[i] # G[i]}
    <2>1. SUFFICES Wrong = {}
      <3>1. h = [i \in 1 .. rows |-> h[i]]
        BY <1>1, <1>6
      <3>2. G = [i \in 1 .. rows |-> G[i]]
        OBVIOUS
      <3> HIDE DEF G
      <3> QED
        BY <3>1, <3>2
    <2>2. CASE Wrong # {}
      <3>1. Wrong \subseteq Nat
        OBVIOUS
      <3> HIDE DEF Wrong
      <3>2. PICK i \in Wrong : \A j \in Wrong : i <= j
        BY <2>2, <3>1, LeastNumber
      <3> HIDE DEF G
      <3>3. i \in 1 .. rows /\ h[i] # G[i]
        BY <3>2 DEF Wrong
      <3>4. h[i] = IF i = 1 THEN f[i] ELSE h[i - 1] \o f[i]
        BY <1>1, <1>6, <3>3
      <3>5. i # 1
        BY <1>4, <3>3, <3>4
      <3>6. i - 1 \in 1 .. rows /\ ~(i <= i - 1)
        BY <3>3, <3>5
      <3>7. h[i - 1] = G[i - 1]
        BY <3>2, <3>6 DEF Wrong
      <3> QED
        BY <1>3, <3>3, <3>4, <3>5, <3>7
    <2> QED
      BY <2>2
  <1>7. FlattenSeq(f) = G[rows]
    <2> HIDE DEF G
    <2> DEFINE F == CHOOSE h : Solves(h)
    <2>1. FlattenSeq(f) = F[Len(f)]
      BY <1>1 DEF FlattenSeq
    <2>2. F = G
      <3> HIDE DEF Solves
      <3>1. Solves(F)
        BY <1>5
      <3> HIDE DEF F
      <3> QED
        BY <1>6, <3>1
    <2> QED
      BY <1>1, <2>1, <2>2
  <1> QED
    <2>1. rows \in 1 .. rows
      OBVIOUS
    <2>2. FlattenSeq(f) = [n \in 1 .. rows * cols |-> At(n)]
      BY <1>7, <2>1
    <2> HIDE DEF At
    <2>3. /\ FlattenSeq(f) \in [1 .. rows * cols -> S]
          /\ \A n \in 1 .. rows * cols : FlattenSeq(f)[n] = At(n)
      BY <1>2, <2>1, <2>2
    <2> QED
      BY <2>3 DEF At, RowByRow

\* The list is the grid: each cell once, row by row from the left.
IsGrid(plan, rows, cols) ==
    /\ Len(plan) = rows * cols
    /\ \A n \in DOMAIN plan :
          /\ n = (plan[n].row - 1) * cols + plan[n].col
          /\ plan[n].col \in 1 .. cols
          /\ plan[n].type = "PREMIUM" <=> n <= cols
          /\ plan[n].position = "WINDOW" <=> (n % cols = 0 \/ (n - 1) % cols = 0)

\* generateSeats: every cell of the grid once, in order.
LEMMA Grid ==
    ASSUME NEW rows \in Nat \ {0}, NEW cols \in Nat \ {0}, NEW plan,
           plan = SeatPlan(rows, cols)
    PROVE  plan \in Seq(Cells) /\ plan # <<>> /\ IsGrid(plan, rows, cols)
  <1> DEFINE Seat(row, col) == [row |-> row, col |-> col,
                                type |-> IF row = 1 THEN "PREMIUM" ELSE "NORMAL",
                                position |-> IF IsWindow(col, rows, cols) THEN "WINDOW" ELSE "AISLE"]
             f == [row \in 1 .. rows |-> [col \in 1 .. cols |-> Seat(row, col)]]
  <1>1. f \in Rectangles(Cells, rows, cols)
    <2>1. ASSUME NEW row \in 1 .. rows, NEW col \in 1 .. cols
          PROVE  Seat(row, col) \in Cells
      BY DEF Cells
    <2> HIDE DEF Seat
    <2> QED
      BY <2>1 DEF Rectangles
  <1>2. /\ plan \in [1 .. rows * cols -> Cells]
        /\ \A n \in 1 .. rows * cols : plan[n] = f[RowOf(n, cols)][ColOf(n, cols)]
    <2>1. plan = FlattenSeq(f)
      BY DEF SeatPlan
    <2> HIDE DEF f
    <2> QED
      <3>1. RowByRow(FlattenSeq(f), f, Cells, rows, cols)
        BY <1>1, FlattenedRows, Zenon
      <3> QED
        BY <2>1, <3>1 DEF RowByRow
  <1>3. ASSUME NEW n \in 1 .. rows * cols
        PROVE  plan[n] = Seat(RowOf(n, cols), ColOf(n, cols))
    <2>1. RowOf(n, cols) \in 1 .. rows /\ ColOf(n, cols) \in 1 .. cols
      BY InGrid
    <2>2. plan[n] = f[RowOf(n, cols)][ColOf(n, cols)]
      <3> HIDE DEF f
      <3> QED
        BY <1>2
    <2> HIDE DEF Seat
    <2> QED
      BY <2>1, <2>2
  <1>4. plan \in Seq(Cells) /\ Len(plan) = rows * cols /\ plan # <<>>
    <2>1. rows * cols \in Nat \ {0}
      OBVIOUS
    <2> QED
      BY <1>2, <2>1
  <1>5. ASSUME NEW n \in DOMAIN plan
        PROVE  /\ n = (plan[n].row - 1) * cols + plan[n].col
               /\ plan[n].col \in 1 .. cols
               /\ plan[n].type = "PREMIUM" <=> n <= cols
               /\ plan[n].position = "WINDOW" <=> (n % cols = 0 \/ (n - 1) % cols = 0)
    <2>1. n \in 1 .. rows * cols /\ n \in Nat \ {0}
      BY <1>2, <1>5
    <2>2. PICK row, col : row = RowOf(n, cols) /\ col = ColOf(n, cols)
      OBVIOUS
    <2>3. /\ col \in 1 .. cols /\ n = (row - 1) * cols + col
          /\ row = 1 <=> n <= cols
          /\ col = 1 <=> (n - 1) % cols = 0
          /\ col = cols <=> n % cols = 0
      BY <2>1, <2>2, Coordinates
    <2>4. plan[n] = Seat(row, col)
      BY <1>3, <2>1, <2>2
    <2>5. /\ plan[n].row = row /\ plan[n].col = col
          /\ plan[n].type = "PREMIUM" <=> row = 1
          /\ plan[n].position = "WINDOW" <=> (col = 1 \/ col = cols)
      BY <2>4 DEF IsWindow
    <2> QED
      BY <2>3, <2>5
  <1> QED
    BY <1>4, <1>5 DEF IsGrid
-----------------------------------------------------------------------------
(* What the rows, the requests and their accounts are, and when a trip has  *)
(* its seats.  Each part is inductive once Inv is known.                    *)

Stages == {"idle", "insertTrip", "generate", "writeTrip", "countPaid", "countLive", "deleteTrip",
           "insertRoute", "writeRoute", "countTrips", "deactivate", "deleteRoute", "insertBooking",
           "writePaid", "writeRefund", "writeCancel", "writeStatus", "done", "refused", "failed"}
Over == {"done", "refused", "failed"}

Typed ==
    /\ stage \in [Requests -> Stages]
    /\ ask = [r \in Requests |-> ask[r]]
    /\ \A r \in Requests : ask[r] \in Script[r] \cup {Nothing}
    /\ unseen \in [Requests -> SUBSET Requests]
    /\ \A b \in Requests : booking[b] # NoBooking => booking[b].status # "NONE"

\* A trip is without its seats only between the two commands that create it, or after the
\* second has failed; the seats it has are those its own request asked for.
SeatedBy(t) ==
    /\ trip[t] # NoTrip => trip[t].status \in TripStatus
    /\ trip[t] # NoTrip /\ trip[t].seats = <<>> => stage[t] \in {"generate", "failed"}
    /\ trip[t].seats # <<>> => /\ ask[t].rows \in Nat \ {0} /\ ask[t].cols \in Nat \ {0}
                               /\ trip[t].seats = SeatPlan(ask[t].rows, ask[t].cols)

Seated == \A t \in Requests : SeatedBy(t)

\* From the count to the update, every paid booking of the trip, in whatever status, is one
\* that the count does not answer for: it found none that was confirmed.
Cancelling(r) == On(r, "writeTrip") /\ ask[r].op = "status" /\ ask[r].status = {"CANCELLED"}

AllPaid(t) == {b \in BookingsOf(t) : booking[b].pay = "PAID"}

Overlooked == \A r \in Requests : Cancelling(r) => AllPaid(ask[r].trip) \subseteq unseen[r]

\* How a request that has arrived moves on.
LEMMA StepMoves ==
    ASSUME NEW r \in Requests, Step(r)
    PROVE  /\ stage[r] \notin Over \cup {"idle"}
           /\ UNCHANGED ask
           /\ \E where \in Stages \ {"idle"} : stage' = [stage EXCEPT ![r] = where]
  <1>1. CASE InsertTrip(r) \/ GenerateSeats(r)
    BY <1>1 DEF InsertTrip, GenerateSeats, On, Move, Stages, Over
  <1>2. CASE CountPaid(r) \/ WriteTrip(r) \/ CountLive(r) \/ RemoveTrip(r)
    BY <1>2 DEF CountPaid, WriteTrip, CountLive, RemoveTrip, On, Move, Stages, Over
  <1>3. CASE InsertRoute(r) \/ WriteRoute(r) \/ CountTrips(r) \/ Deactivate(r) \/ RemoveRoute(r)
    BY <1>3 DEF InsertRoute, WriteRoute, CountTrips, Deactivate, RemoveRoute, SetRoute, On, Move,
                Stages, Over
  <1>4. CASE InsertBooking(r) \/ WritePaid(r) \/ WriteCancel(r) \/ WriteStatus(r) \/ Fail(r)
    BY <1>4 DEF InsertBooking, WritePaid, WriteCancel, WriteStatus, Fail, On, Move, Stages, Over
  <1> QED
    BY <1>1, <1>2, <1>3, <1>4 DEF Step

\* How a request arrives: it changes no row, and cancels a trip only after a count.
LEMMA StartMoves ==
    ASSUME NEW r \in Requests, NEW a \in Script[r], Start(r, a)
    PROVE  /\ stage[r] = "idle"
           /\ UNCHANGED <<tables, unseen>>
           /\ ask' = [ask EXCEPT ![r] = a]
           /\ \E where \in Stages \ {"idle", "generate"} :
                 /\ stage' = [stage EXCEPT ![r] = where]
                 /\ where = "writeTrip" => ~(a.op = "status" /\ a.status = {"CANCELLED"})
  <1>1. CASE CreateTrip(r, a) \/ CreateRoute(r, a) \/ DeleteRoute(r, a) \/ DeleteTrip(r, a)
    BY <1>1 DEF CreateTrip, CreateRoute, DeleteRoute, DeleteTrip, Asks, IfFound, On, Move, Stages
  <1>2. CASE UpdateTrip(r, a) \/ UpdateTripStatus(r, a)
    BY <1>2 DEF UpdateTrip, UpdateTripStatus, Asks, IfFound, On, Move, Stages
  <1>3. CASE UpdateRoute(r, a) \/ Book(r, a) \/ Pay(r, a) \/ CancelBooking(r, a) \/ SetBookingStatus(r, a)
    BY <1>3 DEF UpdateRoute, Book, Pay, CancelBooking, SetBookingStatus, Asks, IfFound, On, Move, Stages
  <1> QED
    BY <1>1, <1>2, <1>3 DEF Start

LEMMA TypedInv ==
    ASSUME Inv, Typed, [Next]_vars
    PROVE  Typed'
  <1>1. CASE UNCHANGED vars
    BY <1>1 DEF vars, tables, Typed
  <1>2. ASSUME NEW r \in Requests, NEW a \in Script[r], Start(r, a) PROVE Typed'
    BY <1>2, StartMoves DEF Typed, tables
  <1>3. ASSUME NEW r \in Requests, Step(r) PROVE Typed'
    <2>1. stage' \in [Requests -> Stages] /\ UNCHANGED ask
      BY <1>3, StepMoves DEF Typed
    <2>2. unseen' \in [Requests -> SUBSET Requests]
      <3>1. CASE CountPaid(r)
        BY <3>1 DEF CountPaid, BookingsOf, Typed
      <3>2. CASE WritePaid(r)
        <4>1. ask[r].of \in Requests
          BY <3>2 DEF WritePaid, On, Inv, Errands
        <4> QED
          BY <3>2, <4>1 DEF WritePaid, Typed
      <3>3. CASE UNCHANGED unseen
        BY <3>3 DEF Typed
      <3> QED
        BY <1>3, <3>1, <3>2, <3>3
           DEF Step, InsertTrip, GenerateSeats, WriteTrip, CountLive, RemoveTrip, InsertRoute,
               WriteRoute, CountTrips, Deactivate, RemoveRoute, SetRoute, InsertBooking, WriteCancel,
               WriteStatus, Fail
    <2>3. \A b \in Requests : booking'[b] # NoBooking => booking'[b].status # "NONE"
      <3>1. CASE InsertBooking(r)
        BY <3>1 DEF InsertBooking, Inv, Shapes, Typed
      <3>2. CASE WritePaid(r) \/ WriteCancel(r) \/ WriteStatus(r)
        <4>1. PICK b \in Requests, status \in BookingStatus, pay \in {"UNPAID", "PAID", "REFUNDED"} :
                  booking' = [booking EXCEPT ![b].status = status, ![b].pay = pay]
          BY <3>2, BookingWrites
        <4> QED
          BY <4>1 DEF Inv, Shapes, Typed, BookingRows, BookingStatus
      <3>3. CASE UNCHANGED booking
        BY <3>3 DEF Typed
      <3> QED
        BY <1>3, <3>1, <3>2, <3>3
           DEF Step, InsertTrip, GenerateSeats, CountPaid, WriteTrip, CountLive, RemoveTrip, InsertRoute,
               WriteRoute, CountTrips, Deactivate, RemoveRoute, SetRoute, Fail, tables
    <2> QED
      BY <2>1, <2>2, <2>3 DEF Typed
  <1> QED
    BY <1>1, <1>2, <1>3 DEF Next

\* A trip that a step leaves alone stays as it was to its own request.
LEMMA SeatedFrame ==
    ASSUME Inv, Typed, Seated, NEW r \in Requests, NEW where \in Stages \ {"idle"}, NEW t \in Requests,
           stage' = [stage EXCEPT ![r] = where],
           stage[r] = "idle" \/ UNCHANGED ask,
           ask' = [ask EXCEPT ![r] = ask'[r]],
           stage[r] \notin Over,
           stage[r] = "generate" => where = "failed",
           trip'[t] = trip[t]
    PROVE  SeatedBy(t)'
  <1>1. CASE t # r
    BY <1>1 DEF Inv, Shapes, Typed, Seated, SeatedBy
  <1>2. CASE t = r
    BY <1>2 DEF Inv, Shapes, Births, Early, Typed, Seated, SeatedBy, Over
  <1> QED
    BY <1>1, <1>2

LEMMA SeatedInv ==
    ASSUME Inv, Typed, Seated, [Next]_vars
    PROVE  Seated'
  <1>1. CASE UNCHANGED vars
    BY <1>1 DEF vars, tables, Seated, SeatedBy
  <1>2. ASSUME NEW r \in Requests, NEW a \in Script[r], Start(r, a) PROVE Seated'
    <2>1. PICK where \in Stages \ {"idle", "generate"} : stage' = [stage EXCEPT ![r] = where]
      BY <1>2, StartMoves
    <2>2. stage[r] = "idle" /\ trip' = trip /\ ask' = [ask EXCEPT ![r] = ask'[r]]
      BY <1>2, StartMoves DEF tables, Inv, Shapes
    <2>3. ASSUME NEW t \in Requests PROVE SeatedBy(t)'
      BY <2>1, <2>2, SeatedFrame DEF Over
    <2> QED
      BY <2>3 DEF Seated
  <1>3. ASSUME NEW r \in Requests, Step(r) PROVE Seated'
    <2>1. PICK where \in Stages \ {"idle"} : stage' = [stage EXCEPT ![r] = where]
      BY <1>3, StepMoves
    <2>2. stage[r] \notin Over \cup {"idle"} /\ UNCHANGED ask /\ ask' = [ask EXCEPT ![r] = ask'[r]]
      BY <1>3, StepMoves DEF Inv, Shapes
    <2>3. ASSUME NEW t \in Requests, trip'[t] = trip[t], stage[r] = "generate" => where = "failed"
          PROVE  SeatedBy(t)'
      BY <2>1, <2>2, <2>3, SeatedFrame
    <2>4. CASE InsertTrip(r) /\ trip' # trip
      <3>1. PICK status \in TripStatus, published \in BOOLEAN :
                /\ stage[r] = "insertTrip"
                /\ stage' = [stage EXCEPT ![r] = "generate"]
                /\ trip' = [trip EXCEPT ![r] = [route |-> ask[r].route, status |-> status,
                                               published |-> published, seats |-> <<>>]]
        <4>1. ask[r].published \in Optional(BOOLEAN)
          BY <2>4 DEF InsertTrip, On, Inv, Errands
        <4>2. Given(ask[r].published, FALSE) \in BOOLEAN
          BY <4>1, GivenType
        <4> QED
          BY <2>4, <4>2 DEF InsertTrip, On, Move, TripStatus
      <3>2. SeatedBy(r)'
        BY <3>1 DEF Inv, Shapes, SeatedBy
      <3>3. ASSUME NEW t \in Requests, t # r PROVE SeatedBy(t)'
        BY <2>3, <3>1, <3>3 DEF Inv, Shapes
      <3> QED
        BY <3>2, <3>3 DEF Seated
    <2>5. CASE GenerateSeats(r) /\ trip' # trip
      <3>1. /\ stage[r] = "generate" /\ trip[r] # NoTrip
            /\ trip' = [trip EXCEPT ![r].seats = SeatPlan(ask[r].rows, ask[r].cols)]
        BY <2>5 DEF GenerateSeats, On, TripExists
      <3>2. ask[r].rows \in Nat \ {0} /\ ask[r].cols \in Nat \ {0}
        BY <3>1 DEF Inv, Errands
      <3> DEFINE plan == SeatPlan(ask[r].rows, ask[r].cols)
      <3>3. plan # <<>>
        BY <3>2, Grid
      <3>4. SeatedBy(r)'
        <4>1. trip'[r].seats = plan /\ trip'[r].status = trip[r].status
          BY <3>1 DEF Inv, Shapes, TripRows
        <4>2. trip[r].status \in TripStatus
          BY <3>1 DEF Seated, SeatedBy
        <4> HIDE DEF plan
        <4>3. trip'[r].seats # <<>> /\ trip'[r].status \in TripStatus
          BY <3>3, <4>1, <4>2
        <4> QED
          BY <2>2, <3>2, <4>1, <4>3 DEF SeatedBy, plan
      <3>5. ASSUME NEW t \in Requests, t # r PROVE SeatedBy(t)'
        <4>1. trip'[t] = trip[t] /\ stage'[t] = stage[t] /\ ask'[t] = ask[t]
          BY <2>1, <2>2, <3>1, <3>5 DEF Inv, Shapes
        <4> QED
          BY <4>1 DEF Seated, SeatedBy
      <3> QED
        BY <3>4, <3>5 DEF Seated
    <2>6. CASE WriteTrip(r) /\ trip' # trip
      <3>0. ask[r].trip \in Requests /\ ask[r].status \in Optional(TripStatus)
        BY <2>6 DEF WriteTrip, On, Inv, Errands
      <3> PICK u \in Requests : u = ask[r].trip
        BY <3>0
      <3>1. /\ stage[r] = "writeTrip" /\ trip[u] # NoTrip
            /\ trip' = [trip EXCEPT ![u] = Updated(trip[u], ask[r])]
        BY <2>6 DEF WriteTrip, On, TripExists
      <3>2. u \in Requests /\ ask[r].status \in Optional(TripStatus)
        BY <3>0
      <3>3. trip[u].status \in TripStatus
        BY <3>1, <3>2 DEF Seated, SeatedBy
      <3>4. Given(ask[r].status, trip[u].status) \in TripStatus
        BY <3>2, <3>3, GivenType
      <3>5. trip'[u].status \in TripStatus /\ trip'[u].seats = trip[u].seats
        BY <3>1, <3>2, <3>4 DEF Inv, Shapes, TripRows, Updated
      <3>6. u # r => SeatedBy(u)'
        BY <2>1, <2>2, <3>1, <3>2, <3>5 DEF Inv, Shapes, Typed, Seated, SeatedBy
      <3>7. u = r => SeatedBy(u)'
        BY <2>1, <2>2, <3>1, <3>2, <3>5 DEF Seated, SeatedBy
      <3>8. ASSUME NEW t \in Requests, t # u PROVE SeatedBy(t)'
        BY <2>3, <3>1, <3>8 DEF Inv, Shapes
      <3> QED
        BY <3>6, <3>7, <3>8 DEF Seated
    <2>7. CASE RemoveTrip(r) /\ trip' # trip
      <3>0. ask[r].trip \in Requests
        BY <2>7 DEF RemoveTrip, On, Inv, Errands
      <3> PICK u \in Requests : u = ask[r].trip
        BY <3>0
      <3>1. stage[r] = "deleteTrip" /\ trip' = [trip EXCEPT ![u] = NoTrip]
        BY <2>7 DEF RemoveTrip, On, Without
      <3>3. SeatedBy(u)'
        BY <3>1 DEF Inv, Shapes, SeatedBy, NoTrip
      <3>4. ASSUME NEW t \in Requests, t # u PROVE SeatedBy(t)'
        BY <2>3, <3>1, <3>4 DEF Inv, Shapes
      <3> QED
        BY <3>3, <3>4 DEF Seated
    <2>8. CASE trip' = trip
      <3>1. stage[r] = "generate" => where = "failed"
        <4>1. CASE stage[r] = "generate" /\ GenerateSeats(r)
          <5>1. CASE ~TripExists(r)
            BY <2>1, <4>1, <5>1 DEF GenerateSeats, Move, Inv, Shapes
          <5>2. CASE TripExists(r)
            <6>1. /\ trip' = [trip EXCEPT ![r].seats = SeatPlan(ask[r].rows, ask[r].cols)]
                  /\ trip[r].seats = <<>>
              BY <4>1, <5>2 DEF GenerateSeats, Inv, Births, Early
            <6>2. ask[r].rows \in Nat \ {0} /\ ask[r].cols \in Nat \ {0}
              BY <4>1 DEF Inv, Errands
            <6> DEFINE plan == SeatPlan(ask[r].rows, ask[r].cols)
            <6>3. plan # <<>>
              BY <6>2, Grid
            <6> HIDE DEF plan
            <6>4. trip'[r].seats = plan
              BY <6>1 DEF Inv, Shapes, TripRows, plan
            <6> QED
              BY <2>8, <6>1, <6>3, <6>4
          <5> QED
            BY <5>1, <5>2
        <4>2. CASE stage[r] = "generate" /\ ~GenerateSeats(r)
          <5>1. Fail(r)
            BY <1>3, <4>2 DEF Step, InsertTrip, CountPaid, WriteTrip, CountLive, RemoveTrip, InsertRoute,
                 WriteRoute, CountTrips, Deactivate, RemoveRoute, InsertBooking, WritePaid, WriteCancel,
                 WriteStatus, On
          <5> QED
            BY <2>1, <5>1 DEF Fail, Move, Inv, Shapes
        <4> QED
          BY <4>1, <4>2
      <3>2. ASSUME NEW t \in Requests PROVE SeatedBy(t)'
        BY <2>3, <2>8, <3>1
      <3> QED
        BY <3>2 DEF Seated
    <2> QED
      BY <1>3, <2>4, <2>5, <2>6, <2>7, <2>8
         DEF Step, CountPaid, CountLive, InsertRoute, WriteRoute, CountTrips, Deactivate, RemoveRoute,
             SetRoute, InsertBooking, WritePaid, WriteCancel, WriteStatus, Fail, tables
  <1> QED
    BY <1>1, <1>2, <1>3 DEF Next

\* CountPaid notes the paid bookings it does not answer for; only a payment adds to them.
LEMMA OverlookedInv ==
    ASSUME Inv, Typed, Overlooked, [Next]_vars
    PROVE  Overlooked'
  <1>1. CASE UNCHANGED vars
    BY <1>1 DEF vars, tables, Overlooked, Cancelling, On, AllPaid, BookingsOf
  <1>2. ASSUME NEW r \in Requests, NEW a \in Script[r], Start(r, a) PROVE Overlooked'
    <2>1. UNCHANGED <<booking, unseen>> /\ ask' = [ask EXCEPT ![r] = a]
      BY <1>2, StartMoves DEF tables
    <2>2. PICK where : /\ stage' = [stage EXCEPT ![r] = where]
                       /\ where = "writeTrip" => ~(a.op = "status" /\ a.status = {"CANCELLED"})
      BY <1>2, StartMoves
    <2>3. ASSUME NEW q \in Requests, Cancelling(q)'
          PROVE  Cancelling(q) /\ ask'[q] = ask[q]
      BY <2>1, <2>2, <2>3 DEF Cancelling, On, Typed
    <2> QED
      BY <2>1, <2>3 DEF Overlooked, AllPaid, BookingsOf
  <1>3. ASSUME NEW r \in Requests, Step(r) PROVE Overlooked'
    <2>1. UNCHANGED ask
      BY <1>3, StepMoves
    <2>2. PICK where : stage' = [stage EXCEPT ![r] = where]
      BY <1>3, StepMoves
    <2>3. CASE CountPaid(r)
      <3>1. ASSUME NEW q \in Requests, q # r, Cancelling(q)' PROVE Cancelling(q)
        BY <2>1, <2>2, <3>1 DEF Cancelling, On, Typed
      <3>2. /\ \A q \in Requests : q # r => unseen'[q] = unseen[q]
            /\ unseen'[r] = {b \in BookingsOf(ask[r].trip) :
                               booking[b].pay = "PAID" /\ booking[b].status # "CONFIRMED"}
            /\ UNCHANGED booking
        BY <2>3 DEF CountPaid, tables, Typed
      <3>3. Cancelling(r)' => PaidOn(ask[r].trip) = {}
        BY <2>3 DEF CountPaid, Cancelling, On, Move, Typed
      <3>4. Cancelling(r)' => AllPaid(ask[r].trip) \subseteq unseen'[r]
        BY <3>2, <3>3 DEF AllPaid, PaidOn
      <3> QED
        BY <2>1, <3>1, <3>2, <3>4 DEF Overlooked, AllPaid, BookingsOf
    <2>4. CASE ~CountPaid(r)
      <3>1. where # "writeTrip"
        BY <1>3, <2>2, <2>4
           DEF Step, InsertTrip, GenerateSeats, WriteTrip, CountLive, RemoveTrip, InsertRoute,
               WriteRoute, CountTrips, Deactivate, RemoveRoute, SetRoute, InsertBooking, WritePaid,
               WriteCancel, WriteStatus, Fail, Move, Typed
      <3>2. ASSUME NEW q \in Requests, Cancelling(q)' PROVE Cancelling(q)
        BY <2>1, <2>2, <3>1, <3>2 DEF Cancelling, On, Typed
      <3>3. CASE WritePaid(r)
        <4>1. PICK b \in Requests, status \in BookingStatus, pay \in {"UNPAID", "PAID", "REFUNDED"} :
                 /\ b = ask[r].of /\ booking[b] # NoBooking
                 /\ booking' = [booking EXCEPT ![b].status = status, ![b].pay = pay]
                 /\ ~WritePaid(r) /\ pay = "PAID" => booking[b].pay = "PAID"
          BY <3>3, BookingWrites
        <4>2. \A c \in Requests : c # b => booking'[c] = booking[c]
          BY <4>1 DEF Inv, Shapes
        <4>3. unseen' = [q \in Requests |-> unseen[q] \cup {b}]
          BY <3>3, <4>1 DEF WritePaid
        <4>4. ASSUME NEW q \in Requests, Cancelling(q)' PROVE AllPaid(ask[q].trip)' \subseteq unseen'[q]
          <5>1. AllPaid(ask[q].trip) \subseteq unseen[q]
            BY <3>2, <4>4 DEF Overlooked
          <5>2. AllPaid(ask[q].trip)' \subseteq AllPaid(ask[q].trip) \cup {b}
            BY <2>1, <4>2 DEF AllPaid, BookingsOf
          <5> QED
            BY <4>3, <5>1, <5>2
        <4> QED
          BY <4>4 DEF Overlooked
      <3>4. CASE ~WritePaid(r)
        <4>1. UNCHANGED unseen
          BY <1>3, <2>4, <3>4
             DEF Step, InsertTrip, GenerateSeats, WriteTrip, CountLive, RemoveTrip, InsertRoute,
                 WriteRoute, CountTrips, Deactivate, RemoveRoute, SetRoute, InsertBooking,
                 WriteCancel, WriteStatus, Fail
        <4>2. \A c \in Requests : booking'[c].pay = "PAID" =>
                 booking[c].pay = "PAID" /\ booking[c].trip = booking'[c].trip
          <5>1. CASE InsertBooking(r)
            BY <5>1 DEF InsertBooking, Inv, Shapes
          <5>2. CASE WriteCancel(r) \/ WriteStatus(r)
            <6>1. PICK b \in Requests, status \in BookingStatus, pay \in {"UNPAID", "PAID", "REFUNDED"} :
                     /\ b = ask[r].of /\ booking[b] # NoBooking
                     /\ booking' = [booking EXCEPT ![b].status = status, ![b].pay = pay]
                     /\ ~WritePaid(r) /\ pay = "PAID" => booking[b].pay = "PAID"
              BY <3>4, <5>2, BookingWrites
            <6> QED
              BY <3>4, <6>1 DEF Inv, Shapes, BookingRows
          <5>3. CASE UNCHANGED booking
            BY <5>3
          <5> QED
            BY <1>3, <3>4, <5>1, <5>2, <5>3
               DEF Step, InsertTrip, GenerateSeats, CountPaid, WriteTrip, CountLive, RemoveTrip,
                   InsertRoute, WriteRoute, CountTrips, Deactivate, RemoveRoute, SetRoute, Fail, tables
        <4>3. ASSUME NEW q \in Requests, Cancelling(q)' PROVE AllPaid(ask[q].trip)' \subseteq unseen'[q]
          <5>1. AllPaid(ask[q].trip) \subseteq unseen[q]
            BY <3>2, <4>3 DEF Overlooked
          <5>2. AllPaid(ask[q].trip)' \subseteq AllPaid(ask[q].trip)
            BY <2>1, <4>2 DEF AllPaid, BookingsOf
          <5> QED
            BY <4>1, <5>1, <5>2
        <4> QED
          BY <4>3 DEF Overlooked
      <3> QED
        BY <3>3, <3>4
    <2> QED
      BY <2>3, <2>4
  <1> QED
    BY <1>1, <1>2, <1>3 DEF Next

LEMMA FullInvariance == Spec => [](Inv /\ Typed /\ Seated /\ Overlooked)
  <1>1. Init => Inv /\ Typed /\ Seated /\ Overlooked
    <2> SUFFICES ASSUME Init PROVE Inv /\ Typed /\ Seated /\ Overlooked
      OBVIOUS
    <2>1. Typed
      <3>1. stage \in [Requests -> Stages] /\ unseen \in [Requests -> SUBSET Requests]
        BY DEF Init, Stages
      <3>2. \A r \in Requests : ask[r] = Nothing /\ booking[r] = NoBooking
        BY DEF Init
      <3>3. ask = [r \in Requests |-> ask[r]]
        BY DEF Init
      <3> QED
        BY <3>1, <3>2, <3>3 DEF Typed
    <2>2. Seated
      BY DEF Init, Seated, SeatedBy, NoTrip
    <2>3. Overlooked
      BY DEF Init, Overlooked, Cancelling, On
    <2> QED
      BY InitInv, <2>1, <2>2, <2>3
  <1>2. Inv /\ Typed /\ Seated /\ Overlooked /\ [Next]_vars => (Inv /\ Typed /\ Seated /\ Overlooked)'
    BY NextInv, TypedInv, SeatedInv, OverlookedInv
  <1> QED
    BY <1>1, <1>2, PTL DEF Spec

\* Whatever is asked, in whatever order, the rows keep to the schema's types
\* (schema.prisma, Route, Trip and Booking), and every seat has its place.
THEOREM TypeCorrect == Spec => []TypeOK
  <1>1. Inv /\ Typed /\ Seated => TypeOK
    <2> SUFFICES ASSUME Inv, Typed, Seated PROVE TypeOK
      OBVIOUS
    <2>1. ASSUME NEW t \in Requests, trip[t] # NoTrip
          PROVE  trip[t] \in [route : Requests, status : TripStatus, published : BOOLEAN, seats : Seq(Cells)]
      <3>1. /\ trip[t] \in TripRows /\ trip[t].route \in Requests /\ trip[t].status \in TripStatus
        BY <2>1 DEF Inv, Shapes, Routed, Seated, SeatedBy
      <3>2. trip[t].seats \in Seq(Cells)
        <4>1. CASE trip[t].seats = <<>>
          BY <4>1
        <4>2. CASE trip[t].seats # <<>>
          <5>1. PICK rows \in Nat \ {0}, cols \in Nat \ {0} : trip[t].seats = SeatPlan(rows, cols)
            BY <4>2 DEF Seated, SeatedBy
          <5>2. SeatPlan(rows, cols) \in Seq(Cells)
            BY <5>1, Grid
          <5> QED
            BY <5>1, <5>2
        <4> QED
          BY <4>1, <4>2
      <3> QED
        BY <3>1, <3>2 DEF TripRows
    <2>2. ASSUME NEW b \in Requests, booking[b] # NoBooking
          PROVE  booking[b] \in [trip : Requests, status : BookingStatus,
                                 pay : {"UNPAID", "PAID", "REFUNDED"}]
      BY <2>2 DEF Inv, Shapes, BookingRows, Booked, Typed
    <2> QED
      BY <2>1, <2>2 DEF Inv, Shapes, Typed, TypeOK, Stages
  <1> QED
    BY <1>1, FullInvariance, PTL

\* A trip that searchTrips shows without a seat to book is one whose creation stands
\* between the insert and the seats, or broke off there (trips.service.ts:124 and :142).
THEOREM NoSeatlessTrips == Spec => []ListedTripsHaveSeats
  <1>1. Seated => ListedTripsHaveSeats
    BY DEF Seated, SeatedBy, ListedTripsHaveSeats, Listed, NoTrip
  <1> QED
    BY <1>1, FullInvariance, PTL

\* Whatever rows and columns are asked for, generateSeatsForTrip makes each cell of the
\* grid once, in order, with the windows at its sides (seats.service.ts:67).
THEOREM SeatsFormTheGrid == Spec => []SeatsAreTheGrid
  <1>1. Seated => SeatsAreTheGrid
    <2>1. ASSUME Seated, NEW t \in Requests, trip[t].seats # <<>>
          PROVE  IsGrid(trip[t].seats, ask[t].rows, ask[t].cols)
      BY <2>1, Grid DEF Seated, SeatedBy
    <2> QED
      BY <2>1, Zenon DEF SeatsAreTheGrid, IsGrid
  <1> QED
    BY <1>1, FullInvariance, PTL

\* updateTripStatus cancels a trip over a paid booking only if its count could not see it:
\* paid after the count, or moved out of another status since (trips.service.ts:284 and
\* bookings.service.ts:277).  updateTrip, which cancels without a count, is not its subject.
THEOREM CountedPaymentsStopCancellation == Spec => OverlookedPaymentsUnseen
  <1>1. Overlooked /\ [Next]_vars =>
           [\A r \in Requests :
              WriteTrip(r) /\ ask[r].op = "status" /\ ask[r].status = {"CANCELLED"}
                  => {b \in BookingsOf(ask[r].trip) :
                         booking[b].status = "CONFIRMED" /\ booking[b].pay = "PAID"} \subseteq unseen[r]]_vars
    BY DEF Overlooked, Cancelling, WriteTrip, AllPaid
  <1> QED
    BY <1>1, FullInvariance, PTL DEF Spec, OverlookedPaymentsUnseen
=============================================================================
