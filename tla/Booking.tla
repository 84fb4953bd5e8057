------------------------------ MODULE Booking -------------------------------
(***************************************************************************)
(* BookingsService for one trip, on top of SeatHold: booking seats, paying *)
(* (the payment service is not in the repository: it is whatever calls     *)
(* confirmAfterPayment), cancelling and changing the status.  A booking is *)
(* named after the request that creates it.  Paying and cancelling end in  *)
(* confirmSeats and freeBookedSeats, which are SeatHold's own steps.       *)
(*                                                                         *)
(* "cover", "soldTo", "money" and "crossed" only observe: cover[b] is the set of seats whose   *)
(* lock the user has held without a break since booking b read their       *)
(* status, soldTo[s] the bookings s was sold to under such a lock since it *)
(* last was not BOOKED, money[b] the payments and half refunds of b.        *)
(***************************************************************************)
EXTENDS Integers, Sequences, FiniteSets

CONSTANTS Seats, Users, LockTTL, NoOne, MaxSeatsPerHold, Requests, Sweeps, HoldTTL,
          Caller, Script, CanFail,   \* as in SeatHold
          Casts,        \* bound: the sets of requests of which one takes part in a run
          Departures,   \* how near the departure may come, beyond "day"
          Deal   \* what a request may ask of BookingsService: a set of records
                 \* [op, seats] to create, [op, of] to pay or cancel, and
                 \* [op, of, to] to change the status

ASSUME TTLAssumption == HoldTTL \in Nat \ {0} /\ LockTTL \in Nat \ {0}
ASSUME MaxSeatsAssumption == MaxSeatsPerHold \in Nat
ASSUME NoOneAssumption == NoOne \notin Users \cup Requests \cup Sweeps
ASSUME FiniteAssumption == IsFiniteSet(Requests) /\ IsFiniteSet(Seats)
ASSUME RequestsAssumption == Requests \cap Sweeps = {} /\ CanFail \subseteq Requests \cup Sweeps
ASSUME CallerAssumption == Caller \in [Requests -> Users]
ASSUME DeparturesAssumption == Departures \subseteq {"hours", "gone"}

\* Seats are confirmed and freed by BookingsService alone, on the seats of a booking.
ASSUME ScriptAssumption ==
    Script \in [Requests -> SUBSET [op : {"hold", "release", "extend", "map"},
                                    seats : Seq(Seats) \ {<<>>}]]

VARIABLES lock, pc, user, batch, at, upto, saw, lease, robbed, seat, row, phase, todo,
          promise, available, shown, unread, overtaken, taken,   \* of SeatHold
          booking,     \* the bookings, NoBooking before their creation
          history,     \* BookingHistory: the entries [from, to] of each booking
          stage,       \* where each request stands, before its seat operation
          of,          \* the booking a request is about
          read,        \* the status it has read, the paymentStatus and refund it decided on
          unchecked,   \* the seats whose lock a creation has still to look at
          departure,   \* "day" (24 hours off or more), "hours" (less) or "gone"
          cover, soldTo, money,
          crossed      \* bookings written to between another request's read and write

seatVars == <<lock, pc, user, batch, at, upto, saw, lease, robbed,
              seat, row, phase, todo, promise, available, shown, unread, overtaken, taken>>
dealVars == <<booking, history, stage, of, read, unchecked>>
vars == <<seatVars, dealVars, departure, cover, soldTo, money, crossed>>

Seating == INSTANCE SeatHold

BookingStatus == {"PENDING", "CONFIRMED", "CANCELLED", "COMPLETED", "NO_SHOW", "EXPIRED"}
PaymentStatus == {"UNPAID", "PAID", "PARTIALLY_REFUNDED", "REFUNDED"}
NoBooking == [status |-> "NONE", pay |-> "UNPAID", seats |-> <<>>]
Exists(b) == booking[b] # NoBooking
SeatsIn(b) == {booking[b].seats[i] : i \in DOMAIN booking[b].seats}

\* A request asks BookingsService or SeatsService for one thing.
ASSUME DealAssumption ==
    \A r \in Requests :
        /\ Deal[r] = {} \/ Script[r] = {}
        /\ \A d \in Deal[r] : \/ d \in [op : {"create"}, seats : Seq(Seats) \ {<<>>}]
                              \/ d \in [op : {"pay", "cancel"}, of : Requests]
                              \/ d \in [op : {"status"}, of : Requests, to : BookingStatus]

BookingRow == [status : BookingStatus \cup {"NONE"}, pay : PaymentStatus, seats : Seq(Seats)]
HistoryEntry == [from : BookingStatus \cup {"NONE"}, to : BookingStatus]
Stages == {"idle", "readSeats", "checkLocks", "insert", "readPaid", "writePaid",
           "readCancel", "writeCancel", "readStatus", "writeStatus",
           "seats", "over", "refused", "failed"}

DealsOK ==
    /\ booking \in [Requests -> BookingRow]
    /\ history \in [Requests -> Seq(HistoryEntry)]
    /\ stage \in [Requests -> Stages]
    /\ of \in [Requests -> Requests]
    /\ read \in [Requests -> [status : BookingStatus \cup {"NONE"}, pay : PaymentStatus,
                             refund : 0 .. 2]]
    /\ unchecked \in [Requests -> SUBSET Seats]

ObserversOK ==
    /\ cover \in [Requests -> SUBSET Seats]
    /\ soldTo \in [Seats -> SUBSET Requests]
    /\ money \in [Requests -> [paid : Nat, back : Nat]]
    /\ crossed \subseteq Requests

\* Types and ranges of the variables.
TypeOK == /\ Seating!TypeOK /\ DealsOK /\ ObserversOK
          /\ departure \in {"day", "hours", "gone"}

Init ==
    /\ Seating!Init
    /\ booking = [b \in Requests |-> NoBooking]
    /\ history = [b \in Requests |-> <<>>]
    /\ stage = [r \in Requests |-> "idle"]
    /\ of = [r \in Requests |-> r]
    /\ read = [r \in Requests |-> [status |-> "NONE", pay |-> "UNPAID", refund |-> 0]]
    /\ unchecked = [r \in Requests |-> {}]
    /\ departure = "day"
    /\ cover = [b \in Requests |-> {}]
    /\ soldTo = [s \in Seats |-> {}]
    /\ money = [b \in Requests |-> [paid |-> 0, back |-> 0]]
    /\ crossed = {}

On(r, where) == stage[r] = where
Move(r, where) == stage' = [stage EXCEPT ![r] = where]

\* (slip) The two columns exchanged.
UpdateExchanged(r, status, pay) ==
    /\ booking' = [booking EXCEPT ![of[r]].status = pay, ![of[r]].pay = status]
    /\ history' = [history EXCEPT ![of[r]] =
                      Append(@, [from |-> read[r].status, to |-> status])]

\* One update of a booking: its columns and an entry of its history, in one statement
\* (Prisma's nested create); "from" is the status the request has read.
Update(r, status, pay) ==
    /\ booking' = [booking EXCEPT ![of[r]].status = status, ![of[r]].pay = pay]
    /\ history' = [history EXCEPT ![of[r]] =
                      Append(@, [from |-> read[r].status, to |-> status])]

\* The request goes on with a seat operation on the booking's seats, for its user.
SeatOperation(r, where) ==
    /\ Move(r, "seats")
    /\ phase' = [phase EXCEPT ![r] = where]
    /\ batch' = [batch EXCEPT ![r] = booking[of[r]].seats]
    /\ user' = [user EXCEPT ![r] = Caller[of[r]]]
    /\ UNCHANGED <<lock, pc, at, upto, saw, lease, robbed,
                   seat, row, todo, promise, available, shown, unread, overtaken, taken>>
-----------------------------------------------------------------------------
\* A request arrives.
Ask(r) ==
    /\ On(r, "idle")
    /\ \E d \in Deal[r] :
          IF d.op = "create"
          THEN /\ batch' = [batch EXCEPT ![r] = d.seats]
               /\ Move(r, "readSeats")
               /\ UNCHANGED of
          ELSE /\ of' = [of EXCEPT ![r] = d.of]
               /\ Move(r, CASE d.op = "pay" -> "readPaid"
                            [] d.op = "cancel" -> "readCancel"
                            [] d.op = "status" -> "readStatus")
               /\ UNCHANGED batch
    /\ UNCHANGED <<lock, pc, user, at, upto, saw, lease, robbed, seat, row, phase, todo,
                   promise, available, shown, unread, overtaken, taken>>
    /\ UNCHANGED <<booking, history, read, unchecked>>
-----------------------------------------------------------------------------
(* create *)

\* (slip) The status of the seats is not looked at.
SoldOutNever(r) == FALSE

SoldOut(r) == \E s \in Seating!SeatsOf(r) : seat[s] = "BOOKED"

CreateRead(r) ==
    /\ On(r, "readSeats")
    /\ IF SoldOut(r) THEN Move(r, "refused") /\ UNCHANGED unchecked
       ELSE /\ Move(r, "checkLocks")
            /\ unchecked' = [unchecked EXCEPT ![r] = Seating!SeatsOf(r)]
    /\ UNCHANGED <<seatVars, booking, history, of, read>>

\* Only another user's lock is an obstacle; no lock at all is none.
CheckLock(r) ==
    /\ On(r, "checkLocks")
    /\ \E s \in unchecked[r] :
          IF lock[s].holder \notin {NoOne, user[r]}
          THEN Move(r, "refused") /\ UNCHANGED unchecked
          ELSE /\ unchecked' = [unchecked EXCEPT ![r] = @ \ {s}]
               /\ IF unchecked[r] = {s} THEN Move(r, "insert") ELSE UNCHANGED stage
    /\ UNCHANGED <<seatVars, booking, history, of, read>>

\* A seat list with a duplicate has more passengers than seats: building the
\* transaction throws.
Repeats(r) == Cardinality(Seating!SeatsOf(r)) < Len(batch[r])

InsertThrows(r) ==
    /\ On(r, "insert")
    /\ Repeats(r)
    /\ Move(r, "failed")
    /\ UNCHANGED <<seatVars, booking, history, of, read, unchecked>>

\* (slip) All holds of the user on the trip are converted, as holdSeats drops them all.
TakenAll(r) == Seating!RowsOf(r)

\* The user's holds on the seats booked.
Taken(r) == {p \in Seating!RowsOf(r) : p[2] \in Seating!SeatsOf(r)}

\* The transaction: the booking with its history, and the user's holds converted.
Insert(r) ==
    /\ On(r, "insert")
    /\ ~Repeats(r)
    /\ booking' = [booking EXCEPT ![r] =
                      [status |-> "PENDING", pay |-> "UNPAID", seats |-> batch[r]]]
    /\ history' = [history EXCEPT ![r] = <<[from |-> "NONE", to |-> "PENDING"]>>]
    /\ Seating!Move(Taken(r), "CONVERTED")
    /\ Move(r, "over")
    /\ UNCHANGED <<lock, pc, user, batch, at, upto, saw, lease, robbed,
                   seat, phase, todo, promise, available, shown, unread, overtaken, taken>>
    /\ UNCHANGED <<of, read, unchecked>>
-----------------------------------------------------------------------------
(* confirmAfterPayment *)

Snapshot(r, pay, refund) ==
    read' = [read EXCEPT ![r] = [status |-> booking[of[r]].status, pay |-> pay,
                                 refund |-> refund]]

\* (slip) The seats are confirmed before the booking is updated.
ReadPaidSeatsFirst(r) ==
    /\ On(r, "readPaid")
    /\ Exists(of[r])
    /\ SeatOperation(r, "book")
    /\ UNCHANGED <<booking, history, of, read, unchecked>>

ReadPaid(r) ==
    /\ On(r, "readPaid")
    /\ IF Exists(of[r]) THEN Snapshot(r, booking[of[r]].pay, 0) /\ Move(r, "writePaid")
                        ELSE Move(r, "refused") /\ UNCHANGED read
    /\ UNCHANGED <<seatVars, booking, history, of, unchecked>>

\* Whatever the booking's status is.
WritePaid(r) ==
    /\ On(r, "writePaid")
    /\ Update(r, "CONFIRMED", "PAID")
    /\ SeatOperation(r, "book")
    /\ UNCHANGED <<of, read, unchecked>>
-----------------------------------------------------------------------------
(* cancel *)

\* (slip) What is refunded does not depend on what was paid.
RefundAlways(b) == IF departure = "day" THEN 2 ELSE 1

\* In halves of the price; none of it before it is paid.
Refund(b) == IF booking[b].pay # "PAID" THEN 0 ELSE IF departure = "day" THEN 2 ELSE 1

PayAfter(b) == IF booking[b].pay # "PAID" THEN booking[b].pay
               ELSE IF departure = "day" THEN "REFUNDED" ELSE "PARTIALLY_REFUNDED"

\* The guards and the refund are decided on what is read now.
ReadCancel(r) ==
    /\ On(r, "readCancel")
    /\ IF /\ Exists(of[r])
          /\ booking[of[r]].status \notin {"CANCELLED", "COMPLETED"}
          /\ departure # "gone"
       THEN Snapshot(r, PayAfter(of[r]), Refund(of[r])) /\ Move(r, "writeCancel")
       ELSE Move(r, "refused") /\ UNCHANGED read
    /\ UNCHANGED <<seatVars, booking, history, of, unchecked>>

WriteCancel(r) ==
    /\ On(r, "writeCancel")
    /\ Update(r, "CANCELLED", read[r].pay)
    /\ SeatOperation(r, "unbook")
    /\ UNCHANGED <<of, read, unchecked>>
-----------------------------------------------------------------------------
(* updateStatus *)

ReadStatus(r) ==
    /\ On(r, "readStatus")
    /\ IF Exists(of[r]) THEN Snapshot(r, booking[of[r]].pay, 0) /\ Move(r, "writeStatus")
                        ELSE Move(r, "refused") /\ UNCHANGED read
    /\ UNCHANGED <<seatVars, booking, history, of, unchecked>>

\* (slip) The row is written back as it was read.
KeptPayAsRead(r) == read[r].pay

\* The update leaves the paymentStatus out.
KeptPay(r) == booking[of[r]].pay

WriteStatus(r) ==
    /\ On(r, "writeStatus")
    /\ \E d \in Deal[r] : /\ d.op = "status"
                          /\ d.of = of[r]
                          /\ Update(r, d.to, KeptPay(r))
    /\ Move(r, "over")
    /\ UNCHANGED <<seatVars, of, read, unchecked>>
-----------------------------------------------------------------------------
\* The process dies, or a database command fails, between two steps.
Fail(r) ==
    /\ r \in CanFail
    /\ stage[r] \notin {"idle", "seats", "over", "refused", "failed"}
    /\ Move(r, "failed")
    /\ UNCHANGED <<seatVars, booking, history, of, read, unchecked>>

Deals(r) == \/ CreateRead(r) \/ CheckLock(r) \/ Insert(r) \/ InsertThrows(r)
            \/ ReadPaid(r) \/ WritePaid(r)
            \/ ReadCancel(r) \/ WriteCancel(r)
            \/ ReadStatus(r) \/ WriteStatus(r)

TimeToDeparture ==
    /\ \/ departure = "day" /\ departure' = "hours"
       \/ departure = "hours" /\ departure' = "gone"
    /\ departure' \in Departures
    /\ UNCHANGED <<seatVars, dealVars>>

Observe ==
    /\ cover' = [b \in Requests |->
                    LET held == {s \in Seats : lock'[s].holder = Caller[b]}
                    IN  IF stage[b] = "readSeats" /\ stage'[b] = "checkLocks"
                        THEN Seating!SeatsOf(b) \cap held
                        ELSE cover[b] \cap held]
    /\ soldTo' = [s \in Seats |->
                    IF seat'[s] # "BOOKED" THEN {}
                    ELSE soldTo[s] \cup
                         {of[r] : r \in {q \in Requests :
                             /\ phase[q] = "book" /\ phase'[q] = "convert"
                             /\ s \in Seating!SeatsOf(q) \cap cover[of[q]]}}]

Writes(r) == stage[r] \in {"writePaid", "writeCancel"} /\ stage'[r] = "seats"

ObserveMoney ==
    \/ /\ ~\E r \in Requests : Writes(r)
       /\ UNCHANGED <<money, crossed>>
    \/ \E r \in Requests :
          /\ Writes(r)
          /\ money' = IF On(r, "writePaid") THEN [money EXCEPT ![of[r]].paid = @ + 1]
                      ELSE [money EXCEPT ![of[r]].back = @ + read[r].refund]
          /\ crossed' = IF \E q \in Requests \ {r} :
                              of[q] = of[r] /\ stage[q] \in {"writePaid", "writeCancel"}
                        THEN crossed \cup {of[r]} ELSE crossed

\* Who has been called so far is of one cast.
OneCast == \E cast \in Casts : \A r \in Requests \ cast : On(r, "idle") /\ phase[r] = "idle"

Step(r) == Ask(r) \/ Deals(r) \/ Fail(r)

Next == /\ \/ (\E r \in Requests : Step(r)) /\ UNCHANGED departure
           \/ Seating!Next /\ UNCHANGED <<dealVars, departure>>
           \/ TimeToDeparture
        /\ OneCast'
        /\ Observe /\ ObserveMoney

Spec == Init /\ [][Next]_vars
-----------------------------------------------------------------------------
(* Properties *)

\* Two users are never both sold a seat, provided each kept the seat's lock without
\* a break from the status check of his booking to the update that books the seat,
\* and nothing un-booked the seat in between: holding first, booking and paying under
\* the lock is what makes a sale safe.
SaleUnderLockIsExclusive ==
    \A s \in Seats : \A b, c \in soldTo[s] : Caller[b] = Caller[c]

\* A BOOKED seat belongs to a booking whose confirmation is on record, wherever a
\* request has stopped, and whatever happened to the booking since.
SoldSeatHasPayer ==
    \A s \in Seats :
        seat[s] = "BOOKED" =>
            \E b \in Requests : /\ Exists(b) /\ s \in SeatsIn(b)
                                /\ \E i \in DOMAIN history[b] : history[b][i].to = "CONFIRMED"

\* A hold is CONVERTED, and so out of the sweep's reach, only if its user has a
\* booking of that very seat: no hold on another seat is lost by booking or paying.
ConvertedHasBooking ==
    \A r \in Requests, s \in Seats :
        row[r][s].status = "CONVERTED" =>
            \E b \in Requests : Exists(b) /\ Caller[b] = Caller[r] /\ s \in SeatsIn(b)

\* 07-Payment-Financial-System.md:258 (BR-PF-003): the cancellations of a booking never
\* promise back more than was paid for it, however often it is paid, cancelled or given
\* another status, unless one of them was decided before the other was written.
RefundsWithinPayments ==
    \A b \in Requests \ crossed : money[b].back <= 2 * money[b].paid

\* A booking that was paid does not come out as UNPAID, unless a cancellation that had
\* read it before wrote after the payment.
PaymentOnRecord ==
    \A b \in Requests \ crossed : booking[b].pay = "UNPAID" <=> money[b].paid = 0

\* 06-Booking-Management-System.md:272 (BR-BM-002): a booked seat cannot be booked;
\* so two confirmed bookings of different users never share a seat.
NoDoubleBooking ==
    \A b, c \in Requests :
        /\ booking[b].status = "CONFIRMED" /\ booking[c].status = "CONFIRMED"
        /\ SeatsIn(b) \cap SeatsIn(c) # {}
        => Caller[b] = Caller[c]

\* 05-Seat-Management-System.md:163 (NFR-SM-002-03): no booking is lost; so the
\* cancellation of one booking never frees a seat sold to another confirmed one.
CancelSparesOthers ==
    [][\A r \in Requests, s \in Seats :
          Seating!Unbook(r) /\ seat'[s] # seat[s]
              => \A b \in Requests \ {of[r]} : ~(booking[b].status = "CONFIRMED" /\ s \in SeatsIn(b))]_vars
=============================================================================
