------------------------------ MODULE SeatHold ------------------------------
(***************************************************************************)
(* SeatsService for one trip: temporary holds, their release, extension,   *)
(* confirmation and cancellation, and the cron sweep of expired holds, on  *)
(* top of the locks of SeatLock and of the seat and seat_hold tables.      *)
(*                                                                         *)
(* A request runs one operation; every await of a database command is one  *)
(* step, and its lock phase runs the steps of SeatLock.  Anything may run  *)
(* between two steps: other requests, sweeps, the clock.  Times are what   *)
(* is left of them, in ticks.                                              *)
(***************************************************************************)
EXTENDS Integers, Sequences, FiniteSets

CONSTANTS Seats, Users, LockTTL, NoOne, MaxSeatsPerHold,
          Requests,   \* one call of an operation each
          Sweeps,     \* processes that run the cron job, again and again
          HoldTTL,    \* holdTtlSeconds(), in ticks
          Caller,     \* the user of each request
          Script,     \* what each request may ask for: [op, seats] records
          CanFail     \* the requests and sweeps that a fault may hit

ASSUME TTLAssumption == HoldTTL \in Nat \ {0} /\ LockTTL \in Nat \ {0}
ASSUME MaxSeatsAssumption == MaxSeatsPerHold \in Nat
ASSUME NoOneAssumption == NoOne \notin Users \cup Requests \cup Sweeps
ASSUME FiniteAssumption == IsFiniteSet(Requests) /\ IsFiniteSet(Seats)
ASSUME RequestsAssumption == Requests \cap Sweeps = {} /\ CanFail \subseteq Requests \cup Sweeps
ASSUME CallerAssumption == Caller \in [Requests -> Users]
ASSUME ScriptAssumption ==
    Script \in [Requests -> SUBSET [op : {"hold", "release", "extend", "confirm", "free",
                                          "map"},
                                    seats : Seq(Seats) \ {<<>>}]]

VARIABLES lock, pc, user, batch, at, upto, saw, lease, robbed,   \* of SeatLock
          seat,        \* Seat.status
          row,         \* row[r][s]: the seat_hold record r created for s
          phase,       \* where each request and each sweep stands
          todo,        \* the inserts of a hold that have not reached the table
          promise,     \* the expiresAt a hold or an extension has computed
          available,   \* Trip.availableSeats
          shown,       \* the seats' status as a seat map shows it
          unread,      \* the seats whose lock a seat map has still to look at
          \* auxiliary:
          overtaken,   \* seats sold since the hold or the map read their status
          taken        \* seats out of reach ever since the map read their status

lockVars == <<lock, pc, user, batch, at, upto, saw, lease, robbed>>
mapVars == <<shown, unread, taken>>
vars == <<lockVars, seat, row, phase, todo, promise, available, overtaken, mapVars>>

Calls == Requests \cup Sweeps
Locks == INSTANCE SeatLock WITH Batches <- {}

SeatStatus == {"AVAILABLE", "HELD", "BOOKED"}
HoldStatus == {"ACTIVE", "RELEASED", "EXPIRED", "CONVERTED"}
NoRow == [status |-> "NONE", left |-> 0]
Holding == {"locking", "dropOld", "create", "mark"}
Ended == {"ok", "refused", "failed"}
Phases == {"idle", "readSeats", "undo", "unlock", "freeSeats", "extending", "extendRows",
           "book", "convert", "unlockBooked", "unbook", "countUp",
           "expire", "freeSwept", "sweeping", "readMap", "lookUp"} \cup Holding \cup Ended

\* Types and ranges of the variables.
TypeOK ==
    /\ Locks!TypeOK
    /\ seat \in [Seats -> SeatStatus]
    /\ row \in [Requests -> [Seats -> [status : HoldStatus \cup {"NONE"},
                                       left : 0 .. HoldTTL]]]
    /\ phase \in [Calls -> Phases]
    /\ todo \in [Requests -> SUBSET Seats]
    /\ promise \in [Requests -> 0 .. HoldTTL]
    /\ available \in Int
    /\ overtaken \in [Requests -> SUBSET Seats]
    /\ shown \in [Requests -> [Seats -> SeatStatus]]
    /\ unread \in [Requests -> SUBSET Seats]
    /\ taken \in [Requests -> SUBSET Seats]

Init ==
    /\ Locks!Init
    /\ user = [c \in Calls |-> IF c \in Requests THEN Caller[c]
                                                 ELSE CHOOSE u \in Users : TRUE]
    /\ seat = [s \in Seats |-> "AVAILABLE"]
    /\ row = [r \in Requests |-> [s \in Seats |-> NoRow]]
    /\ phase = [c \in Calls |-> "idle"]
    /\ todo = [r \in Requests |-> {}]
    /\ promise = [r \in Requests |-> 0]
    /\ available = Cardinality(Seats)
    /\ overtaken = [r \in Requests |-> {}]
    /\ shown = [r \in Requests |-> [s \in Seats |-> "AVAILABLE"]]
    /\ unread = [r \in Requests |-> {}]
    /\ taken = [r \in Requests |-> {}]
-----------------------------------------------------------------------------
(* Helpers *)

SeatsOf(c) == {batch[c][i] : i \in DOMAIN batch[c]}

Goto(c, where) == phase' = [phase EXCEPT ![c] = where]
At(c, where) == phase[c] = where

\* The call starts a lock operation of SeatLock, possibly not its first.
LockCall(c, b, where) ==
    /\ pc' = [pc EXCEPT ![c] = where]
    /\ batch' = [batch EXCEPT ![c] = b]
    /\ at' = [at EXCEPT ![c] = 1]
    /\ UNCHANGED <<lock, user, upto, saw, lease, robbed>>

\* The call breaks off: what it had in its variables is gone.
BreakOff(c) ==
    /\ pc' = [pc EXCEPT ![c] = "idle"]
    /\ batch' = [batch EXCEPT ![c] = <<>>]
    /\ at' = [at EXCEPT ![c] = 1]
    /\ upto' = [upto EXCEPT ![c] = 0]
    /\ saw' = [saw EXCEPT ![c] = NoOne]
    /\ UNCHANGED <<lock, user, lease, robbed>>

Active(r, s) == row[r][s].status = "ACTIVE"
Overdue(r, s) == Active(r, s) /\ row[r][s].left = 0

\* A hold that is refused, by the seats' status or by the locks.
RefusedHold(r) == At(r, "refused") \/ (At(r, "locking") /\ pc[r] = "refused")

\* The request has begun and has not returned yet.
Alive(r) == /\ phase[r] \notin Ended \cup {"idle"}
            /\ ~RefusedHold(r)
            /\ ~(At(r, "extending") /\ pc[r] = "lost")
            /\ ~(At(r, "undo") /\ pc[r] = "done")

\* (slip) The filter on status ACTIVE is missing.
EveryRowOf(r) ==
    {p \in Requests \X Seats : row[p[1]][p[2]] # NoRow /\ user[p[1]] = user[r]}

\* The ACTIVE rows of the user of r.
RowsOf(r) == {p \in Requests \X Seats : Active(p[1], p[2]) /\ user[p[1]] = user[r]}

\* seatHold.updateMany: the rows in the set get a new status.
Move(rows, status) ==
    row' = [r \in Requests |-> [s \in Seats |->
               IF <<r, s>> \in rows THEN [status |-> status, left |-> 0]
                                    ELSE row[r][s]]]

\* (slip) seat.updateMany without the filter on the status.
TurnAll(seats, from, to) ==
    seat' = [s \in Seats |-> IF s \in seats THEN to ELSE seat[s]]

\* seat.updateMany: those of the seats that have the first status get the second.
Turn(seats, from, to) ==
    seat' = [s \in Seats |-> IF s \in seats /\ seat[s] = from THEN to ELSE seat[s]]

\* The seat is sold, or another user than the caller has its lock.
LockedByOther(r, s) == lock[s].holder \notin {NoOne, user[r]}
OutOfReach(r, s) == seat[s] = "BOOKED" \/ LockedByOther(r, s)

\* The steps that change a lock, or a seat from or to BOOKED, observe this.
StillTaken == taken' = [r \in Requests |-> {s \in taken[r] : OutOfReach(r, s)'}]

\* The request needs neither its map any more nor what is observed of it.
ForgetMap(r) ==
    /\ shown' = [shown EXCEPT ![r] = [s \in Seats |-> "AVAILABLE"]]
    /\ unread' = [unread EXCEPT ![r] = {}]
    /\ taken' = [taken EXCEPT ![r] = {}]
    /\ overtaken' = [overtaken EXCEPT ![r] = {}]

\* Every order in which a query may list the rows.
Listings(rows) == {q \in [1 .. Cardinality(rows) -> rows] :
                      \A i, j \in DOMAIN q : q[i] = q[j] => i = j}
-----------------------------------------------------------------------------
(* A request arrives; what it does first depends on the operation.         *)

Arrive(r) ==
    /\ At(r, "idle")
    /\ \E a \in Script[r] :
          \/ /\ a.op \in {"hold", "confirm", "free", "map"}
             /\ batch' = [batch EXCEPT ![r] = a.seats]
             /\ Goto(r, CASE a.op = "hold" -> "readSeats"
                          [] a.op = "confirm" -> "book"
                          [] a.op = "free" -> "unbook"
                          [] a.op = "map" -> "readMap")
             /\ UNCHANGED <<lock, pc, user, at, upto, saw, lease, robbed>>
          \/ /\ a.op = "release"
             /\ LockCall(r, a.seats, "release")
             /\ Goto(r, "unlock")
          \/ /\ a.op = "extend"
             /\ LockCall(r, a.seats, "extendGet")
             /\ Goto(r, "extending")
    /\ UNCHANGED <<seat, row, todo, promise, available, overtaken, mapVars>>

\* One Redis command of a request or a sweep.
LockStep(c) ==
    /\ Locks!Step(c)
    /\ UNCHANGED <<seat, row, phase, todo, promise, available, overtaken, shown, unread>>
    /\ StillTaken
-----------------------------------------------------------------------------
(* holdSeats *)

\* (slip) The status of the seats is not looked at.
UnfitAnyStatus(r) == Cardinality(SeatsOf(r)) # Len(batch[r])

\* A seat list with a duplicate is refused, and so is one with a BOOKED seat; a
\* HELD seat is not.
Unfit(r) == \/ Cardinality(SeatsOf(r)) # Len(batch[r])
            \/ \E s \in SeatsOf(r) : seat[s] = "BOOKED"

\* The seats' status is read now; the locks are asked for only later.
HoldRead(r) ==
    /\ At(r, "readSeats")
    /\ IF Unfit(r)
       THEN Goto(r, "refused") /\ UNCHANGED lockVars
       ELSE /\ Goto(r, "locking")
            /\ LockCall(r, batch[r], IF Len(batch[r]) > MaxSeatsPerHold
                                     THEN "refused" ELSE "acquire")
    /\ UNCHANGED <<seat, row, todo, promise, available, overtaken, mapVars>>

\* The locks are granted (or, for extendHold, all extended): expiresAt is computed
\* now, not when the keys were written.
LocksGranted(r) ==
    /\ pc[r] = "granted"
    /\ \/ At(r, "locking") /\ Goto(r, "dropOld")
       \/ At(r, "extending") /\ Goto(r, "extendRows")
    /\ promise' = [promise EXCEPT ![r] = HoldTTL]
    /\ UNCHANGED <<lockVars, seat, row, todo, available, overtaken, mapVars>>

\* The user's older holds on the trip, on whatever seats, become RELEASED.
DropOld(r) ==
    /\ At(r, "dropOld")
    /\ Move(RowsOf(r), "RELEASED")
    /\ todo' = [todo EXCEPT ![r] = SeatsOf(r)]
    /\ Goto(r, "create")
    /\ UNCHANGED <<lockVars, seat, promise, available, overtaken, mapVars>>

\* One of the concurrent inserts reaches the table, maybe after the request failed.
CreateRow(r, s) ==
    /\ s \in todo[r]
    /\ row' = [row EXCEPT ![r][s] = [status |-> "ACTIVE", left |-> promise[r]]]
    /\ todo' = [todo EXCEPT ![r] = @ \ {s}]
    /\ IF At(r, "create") /\ todo[r] = {s} THEN Goto(r, "mark") ELSE UNCHANGED phase
    /\ UNCHANGED <<lockVars, seat, promise, available, overtaken, mapVars>>

\* The seats become HELD, whatever they are by now.
MarkHeld(r) ==
    /\ At(r, "mark")
    /\ seat' = [s \in Seats |-> IF s \in SeatsOf(r) THEN "HELD" ELSE seat[s]]
    /\ Goto(r, "ok")
    /\ promise' = [promise EXCEPT ![r] = 0]
    /\ UNCHANGED <<lockVars, row, todo, available, overtaken, shown, unread>>
    /\ StillTaken

\* (slip) The catch block releases only the first seat's lock.
ReleaseAfterFailureShort(r) == LockCall(r, SubSeq(batch[r], 1, 1), "release")

ReleaseAfterFailure(r) == LockCall(r, batch[r], "release")

\* A database command of the try block fails (for the inserts: one of them, while
\* the others stay on their way): the locks are released, nothing else is undone.
TryFails(r) ==
    /\ r \in CanFail
    /\ \/ At(r, "dropOld") /\ UNCHANGED todo
       \/ At(r, "mark") /\ UNCHANGED todo
       \/ At(r, "create") /\ \E s \in todo[r] : todo' = [todo EXCEPT ![r] = @ \ {s}]
    /\ ReleaseAfterFailure(r)
    /\ Goto(r, "undo")
    /\ UNCHANGED <<seat, row, promise, available, overtaken, mapVars>>
-----------------------------------------------------------------------------
(* releaseSeats *)

DropRows(r) ==
    /\ At(r, "unlock") /\ pc[r] = "done"
    /\ Move({p \in RowsOf(r) : p[2] \in SeatsOf(r)}, "RELEASED")
    /\ Goto(r, "freeSeats")
    /\ UNCHANGED <<lockVars, seat, todo, promise, available, overtaken, mapVars>>

\* The seats become AVAILABLE if they are HELD, by whomever.
FreeSeats(r) ==
    /\ At(r, "freeSeats")
    /\ Turn(SeatsOf(r), "HELD", "AVAILABLE")
    /\ Goto(r, "ok")
    /\ UNCHANGED <<lockVars, row, todo, promise, available, overtaken, mapVars>>
-----------------------------------------------------------------------------
(* extendHold: once the locks of the listed seats are extended, every ACTIVE *)
(* hold of the user on the trip gets the new expiresAt.                      *)

ExtendRows(r) ==
    /\ At(r, "extendRows")
    /\ row' = [q \in Requests |-> [s \in Seats |->
                  IF <<q, s>> \in RowsOf(r) THEN [row[q][s] EXCEPT !.left = promise[r]]
                                            ELSE row[q][s]]]
    /\ Goto(r, "ok")
    /\ promise' = [promise EXCEPT ![r] = 0]
    /\ UNCHANGED <<lockVars, seat, todo, available, overtaken, mapVars>>
-----------------------------------------------------------------------------
(* confirmSeats, called once a payment has succeeded *)

Book(r) ==
    /\ At(r, "book")
    /\ seat' = [s \in Seats |-> IF s \in SeatsOf(r) THEN "BOOKED" ELSE seat[s]]
    /\ Goto(r, "convert")
    /\ overtaken' = [h \in Requests |->
                        IF phase[h] \in Holding \cup {"lookUp"}
                        THEN overtaken[h] \cup SeatsOf(r) ELSE overtaken[h]]
    /\ UNCHANGED <<lockVars, row, todo, promise, available, shown, unread>>
    /\ StillTaken

Convert(r) ==
    /\ At(r, "convert")
    /\ Move({p \in RowsOf(r) : p[2] \in SeatsOf(r)}, "CONVERTED")
    /\ LockCall(r, batch[r], "release")
    /\ Goto(r, "unlockBooked")
    /\ UNCHANGED <<seat, todo, promise, available, overtaken, mapVars>>

CountDown(r) ==
    /\ At(r, "unlockBooked") /\ pc[r] = "done"
    /\ available' = available - Len(batch[r])
    /\ Goto(r, "ok")
    /\ UNCHANGED <<lockVars, seat, row, todo, promise, overtaken, mapVars>>
-----------------------------------------------------------------------------
(* freeBookedSeats, called by the cancellation of a booking *)

Unbook(r) ==
    /\ At(r, "unbook")
    /\ Turn(SeatsOf(r), "BOOKED", "AVAILABLE")
    /\ Goto(r, "countUp")
    /\ UNCHANGED <<lockVars, row, todo, promise, available, overtaken, shown, unread>>
    /\ StillTaken

CountUp(r) ==
    /\ At(r, "countUp")
    /\ available' = available + Len(batch[r])
    /\ Goto(r, "ok")
    /\ UNCHANGED <<lockVars, seat, row, todo, promise, overtaken, mapVars>>
-----------------------------------------------------------------------------
(* getSeatMap: one query for the seats, then one look at the lock of each    *)
(* AVAILABLE one; the numbers of the seats may give any order.               *)

ReadMap(r) ==
    /\ At(r, "readMap")
    /\ shown' = [shown EXCEPT ![r] = seat]
    /\ unread' = [unread EXCEPT ![r] = {s \in Seats : seat[s] = "AVAILABLE"}]
    /\ taken' = [taken EXCEPT ![r] = {s \in Seats : OutOfReach(r, s)}]
    /\ Goto(r, "lookUp")
    /\ UNCHANGED <<lockVars, seat, row, todo, promise, available, overtaken>>

\* (slip) The locks are not looked at.
SeenFromTable(r, s) == "AVAILABLE"

Seen(r, s) == IF LockedByOther(r, s) THEN "HELD" ELSE "AVAILABLE"

LookUp(r, s) ==
    /\ At(r, "lookUp") /\ s \in unread[r]
    /\ shown' = [shown EXCEPT ![r][s] = Seen(r, s)]
    /\ unread' = [unread EXCEPT ![r] = @ \ {s}]
    /\ taken' = [taken EXCEPT ![r] = @ \ {s}]
    /\ UNCHANGED <<lockVars, seat, row, phase, todo, promise, available, overtaken>>

ShowMap(r) ==
    /\ At(r, "lookUp") /\ unread[r] = {}
    /\ Goto(r, "ok")
    /\ ForgetMap(r)
    /\ UNCHANGED <<lockVars, seat, row, todo, promise, available>>
-----------------------------------------------------------------------------
\* The request's process dies, or a command outside holdSeats' try block fails: the
\* request ends where it stands.
Fail(r) ==
    /\ r \in CanFail /\ Alive(r)
    /\ Goto(r, "failed")
    /\ BreakOff(r)
    /\ ForgetMap(r)
    /\ UNCHANGED <<seat, row, todo, promise, available>>
-----------------------------------------------------------------------------
(* releaseExpiredHolds *)

AllOverdue == {p \in Requests \X Seats : Overdue(p[1], p[2])}

\* (slip) Only holds whose seat is HELD are looked for.
FoundHeld == {p \in AllOverdue : seat[p[2]] = "HELD"}

\* What a scan answers.
Found == AllOverdue

\* (slip) The update trusts the scan instead of looking at the time again.
ExpiredFound(w) == {p \in Requests \X Seats : Active(p[1], p[2]) /\ p[2] \in SeatsOf(w)}

\* What the update that follows the scan turns EXPIRED: whatever is overdue by now.
Expired(w) == AllOverdue

\* The scan: with no overdue hold there is nothing to do; else the seats of the
\* rows found are remembered, in the order of the answer.
Scan(w) ==
    /\ At(w, "idle") \/ (At(w, "sweeping") /\ pc[w] = "done")
    /\ Found # {}
    /\ \E q \in Listings(Found) :
          batch' = [batch EXCEPT ![w] = [i \in DOMAIN q |-> q[i][2]]]
    /\ pc' = [pc EXCEPT ![w] = "idle"]
    /\ at' = [at EXCEPT ![w] = 1]
    /\ Goto(w, "expire")
    /\ UNCHANGED <<lock, user, upto, saw, lease, robbed,
                   seat, row, todo, promise, available, overtaken, mapVars>>

Expire(w) ==
    /\ At(w, "expire")
    /\ Move(Expired(w), "EXPIRED")
    /\ Goto(w, "freeSwept")
    /\ UNCHANGED <<lockVars, seat, todo, promise, available, overtaken, mapVars>>

\* The seats the scan found become AVAILABLE if they are HELD; then their locks
\* are released one by one, whoever holds them.
FreeSwept(w) ==
    /\ At(w, "freeSwept")
    /\ Turn(SeatsOf(w), "HELD", "AVAILABLE")
    /\ LockCall(w, batch[w], "sweepGet")
    /\ Goto(w, "sweeping")
    /\ UNCHANGED <<row, todo, promise, available, overtaken, mapVars>>

\* A command of the sweep fails: the rest of it is left undone.
SweepFails(w) ==
    /\ w \in CanFail
    /\ At(w, "expire") \/ At(w, "freeSwept") \/ (At(w, "sweeping") /\ pc[w] # "done")
    /\ Goto(w, "idle")
    /\ BreakOff(w)
    /\ UNCHANGED <<seat, row, todo, promise, available, overtaken, mapVars>>
-----------------------------------------------------------------------------
Tick ==
    /\ Locks!Tick
    /\ row' = [r \in Requests |-> [s \in Seats |->
                  [row[r][s] EXCEPT !.left = IF @ > 0 THEN @ - 1 ELSE 0]]]
    /\ promise' = [r \in Requests |-> IF promise[r] > 0 THEN promise[r] - 1 ELSE 0]
    /\ UNCHANGED <<seat, phase, todo, available, overtaken, shown, unread>>
    /\ StillTaken

HoldSeats(r) == \/ HoldRead(r) \/ LocksGranted(r) \/ DropOld(r) \/ MarkHeld(r)
                \/ TryFails(r)
                \/ \E s \in Seats : CreateRow(r, s)
ReleaseSeats(r) == DropRows(r) \/ FreeSeats(r)
ConfirmSeats(r) == Book(r) \/ Convert(r) \/ CountDown(r)
FreeBookedSeats(r) == Unbook(r) \/ CountUp(r)
GetSeatMap(r) == ReadMap(r) \/ ShowMap(r) \/ \E s \in Seats : LookUp(r, s)
ReleaseExpiredHolds(w) == Scan(w) \/ Expire(w) \/ FreeSwept(w) \/ LockStep(w)

Request(r) == \/ LockStep(r)
              \/ HoldSeats(r) \/ ReleaseSeats(r) \/ ExtendRows(r)
              \/ ConfirmSeats(r) \/ FreeBookedSeats(r) \/ GetSeatMap(r)

Step == \/ \E r \in Requests : Arrive(r) \/ Request(r) \/ Fail(r)
        \/ \E w \in Sweeps : ReleaseExpiredHolds(w) \/ SweepFails(w)

Next == Step \/ Tick

Spec == Init /\ [][Next]_vars

\* Time passes, and the cron job runs and does not fail for ever; requests may stay
\* between two awaits for as long as they like.
Fairness == /\ WF_vars(Tick)
            /\ \A w \in Sweeps : /\ WF_vars(ReleaseExpiredHolds(w))
                                  /\ <>[][~SweepFails(w)]_vars

\* Requests that always return within the tick they arrived in; only the sweeps may
\* take longer.
PromptTick == Tick /\ \A r \in Requests : ~Alive(r)

PromptFairSpec == /\ Init /\ [][Step \/ PromptTick]_vars
                  /\ WF_vars(PromptTick)
                  /\ \A r \in Requests : WF_vars(Request(r))
                  /\ \A w \in Sweeps : WF_vars(ReleaseExpiredHolds(w))
-----------------------------------------------------------------------------
(* Properties *)

\* The seat operations, sweeps included, use the locks in a way that keeps the
\* contract of SeatLease.
ImplementsLease == Locks!Contract!Spec

\* A hold that is refused leaves no record and no key behind, and a hold whose try
\* block failed leaves no key once its locks are released: whatever the sweeps and
\* the user's other requests did to the same seats meanwhile.
RefusedHoldLeavesNoTrace ==
    \A r \in Requests :
        /\ RefusedHold(r) => /\ row[r] = [s \in Seats |-> NoRow]
                             /\ todo[r] = {}
        /\ RefusedHold(r) \/ (At(r, "undo") /\ pc[r] = "done")
              => \A s \in Seats : lock[s].by # r

\* A hold that was released, converted or expired stays so: a sweep that found it
\* ACTIVE, or a late extension, does not revive it or overwrite its end.
HoldEndsOnce ==
    [][\A r \in Requests, s \in Seats :
          row[r][s].status \in HoldStatus \ {"ACTIVE"} => row'[r][s] = row[r][s]]_vars

\* A hold becomes EXPIRED only when its time is up at that very moment, even when
\* an extension landed after the sweep's scan had found it overdue.
NeverExpiredEarly ==
    [][\A r \in Requests, s \in Seats :
          row[r][s].status # "EXPIRED" /\ row'[r][s].status = "EXPIRED"
              => Overdue(r, s)]_vars

\* A BOOKED seat stops being BOOKED only by a cancellation, or by a hold that read
\* the seat's status before the sale: no sweep, release or later hold does it.
SoldUnlessOvertaken ==
    [][\A s \in Seats :
          seat[s] = "BOOKED" /\ seat'[s] # "BOOKED"
              => \E r \in Requests : \/ Unbook(r)
                                     \/ MarkHeld(r) /\ s \in overtaken[r]]_vars

\* A seat that the map offers to a user was within his reach at some moment while the
\* map was read, or it was sold at that time: then the sale may have given back the
\* lock before the map looked at it.
OfferedWithinReach ==
    [][\A r \in Requests, s \in Seats :
          LookUp(r, s) /\ shown'[r][s] = "AVAILABLE" /\ s \in taken[r]
              => s \in overtaken[r]]_vars

\* Every hold comes to an end, even those of requests that failed half-way and
\* those whose insert reached the table after the failure.
HoldsEnd == \A r \in Requests, s \in Seats : Active(r, s) ~> ~Active(r, s)

\* A lock left behind by a request or a sweep that died, or that nobody releases, goes
\* away by itself: no seat stays locked for ever.
LocksExpire == \A s \in Seats : ~Locks!IsFree(s) ~> Locks!IsFree(s)

\* 05-Seat-Management-System.md:255 (BR-SM-001): a reserved seat cannot be
\* reserved; so a hold never takes the BOOKED status from a seat.
SoldStaysSold ==
    [][\A r \in Requests, s \in Seats :
          MarkHeld(r) /\ seat[s] = "BOOKED" => seat'[s] = "BOOKED"]_vars

\* 05-Seat-Management-System.md:256 (BR-SM-002): a temporary hold ends by itself; so
\* a seat does not stay HELD for ever.
HeldSeatsComeFree == \A s \in Seats : seat[s] = "HELD" ~> seat[s] # "HELD"
=============================================================================
