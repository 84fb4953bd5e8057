--------------------------- MODULE BookingProofs ----------------------------
(***************************************************************************)
(* What holds of Booking for any number of seats, users, requests and      *)
(* sweeps, and for seat lists and histories of any length.                 *)
(***************************************************************************)
EXTENDS Booking, TLAPS

\* The lemmas of SeatHoldProofs, about the same variables.
Holds == INSTANCE SeatHoldProofs
-----------------------------------------------------------------------------
(* The two instances say the same.                                         *)

\* SeatHold and its proofs each bring their own copy of what they take from FiniteSets.
LEMMA SameSizes ==
    \A S : /\ Cardinality(S) = Holds!Cardinality(S)
           /\ Seating!Cardinality(S) = Holds!Cardinality(S)
           /\ IsFiniteSet(S) <=> Holds!IsFiniteSet(S)
  BY DEF Cardinality, Seating!Cardinality, Holds!Cardinality, IsFiniteSet, Holds!IsFiniteSet

LEMMA SameLockSteps == \A c : Seating!Locks!Step(c) <=> Holds!Locks!Step(c)
  BY DEF Seating!Locks!SeatOf, Holds!Locks!SeatOf, Seating!Locks!Goto, Holds!Locks!Goto,
         Seating!Locks!NextSeat, Holds!Locks!NextSeat, Seating!Locks!LeaseEnds,
         Holds!Locks!LeaseEnds, Seating!Locks!LeasesUnchanged,
         Holds!Locks!LeasesUnchanged, Seating!Locks!callVars, Holds!Locks!callVars,
         Seating!Locks!IsFree, Holds!Locks!IsFree, Seating!Locks!Holder,
         Holds!Locks!Holder, Seating!Locks!SetEx, Holds!Locks!SetEx,
         Seating!Locks!Written, Holds!Locks!Written, Seating!Locks!DeleteIfHeldBy,
         Holds!Locks!DeleteIfHeldBy, Seating!Locks!Absent, Holds!Locks!Absent,
         Seating!Locks!SetNX, Holds!Locks!SetNX, Seating!Locks!AcquireNext,
         Holds!Locks!AcquireNext, Seating!Locks!AcquireRefused,
         Holds!Locks!AcquireRefused, Seating!Locks!AfterRefusal,
         Holds!Locks!AfterRefusal, Seating!Locks!Rollback, Holds!Locks!Rollback,
         Seating!Locks!LastTaken, Holds!Locks!LastTaken, Seating!Locks!Contract!End,
         Holds!Locks!Contract!End, Seating!Locks!ReleaseNext, Holds!Locks!ReleaseNext,
         Seating!Locks!ExtendGet, Holds!Locks!ExtendGet, Seating!Locks!ExtendSet,
         Holds!Locks!ExtendSet, Seating!Locks!SweepGet, Holds!Locks!SweepGet,
         Seating!Locks!NothingToRelease, Holds!Locks!NothingToRelease,
         Seating!Locks!SweepDel, Holds!Locks!SweepDel, Seating!Locks!Step,
         Holds!Locks!Step

LEMMA SameLockTick == Seating!Locks!Tick <=> Holds!Locks!Tick
  BY DEF Seating!Locks!Tick, Holds!Locks!Tick, Seating!Locks!ExpireKeys,
         Holds!Locks!ExpireKeys, Seating!Locks!Absent, Holds!Locks!Absent,
         Seating!Locks!Contract!Tick, Holds!Locks!Contract!Tick, Seating!Locks!callVars,
         Holds!Locks!callVars

LEMMA SameSeats == \A c : Seating!SeatsOf(c) = Holds!SeatsOf(c)
  BY DEF Seating!SeatsOf, Holds!SeatsOf

LEMMA SameRows == \A c : Seating!RowsOf(c) = Holds!RowsOf(c)
  BY DEF Seating!RowsOf, Holds!RowsOf, Seating!Active, Holds!Active

LEMMA SameArrivals == \A r : Seating!Arrive(r) <=> Holds!Arrive(r)
  BY DEF Seating!Arrive, Holds!Arrive, Seating!LockCall, Holds!LockCall,
         Seating!mapVars, Holds!mapVars, Seating!At, Holds!At, Seating!Goto, Holds!Goto

LEMMA SameLockMoves == \A c : Seating!LockStep(c) <=> Holds!LockStep(c)
  BY SameLockSteps DEF Seating!LockStep, Holds!LockStep, Seating!StillTaken,
                       Holds!StillTaken, Seating!OutOfReach, Holds!OutOfReach,
                       Seating!LockedByOther, Holds!LockedByOther

LEMMA SameHolding ==
    \A r : Seating!HoldSeats(r) <=> Holds!HoldSeats(r)
  <1> SUFFICES ASSUME NEW r PROVE Seating!HoldSeats(r) <=> Holds!HoldSeats(r)
    OBVIOUS
  <1> USE SameSeats, SameRows, SameSizes DEF Seating!At, Holds!At, Seating!Goto,
                                             Holds!Goto, Seating!LockCall,
                                             Holds!LockCall, Seating!lockVars,
                                             Holds!lockVars, Seating!mapVars,
                                             Holds!mapVars
  <1>1. Seating!Unfit(r) <=> Holds!Unfit(r)
    <2>1. Seating!SeatsOf(r) = Holds!SeatsOf(r)
      BY SameSeats
    <2>2. Seating!Cardinality(Seating!SeatsOf(r)) = Holds!Cardinality(Holds!SeatsOf(r))
      BY <2>1, SameSizes
    <2> QED
      BY <2>1, <2>2 DEF Seating!Unfit, Holds!Unfit
  <1>2. Seating!HoldRead(r) <=> Holds!HoldRead(r)
    BY <1>1 DEF Seating!HoldRead, Holds!HoldRead
  <1>3. Seating!LocksGranted(r) <=> Holds!LocksGranted(r)
    BY DEF Seating!LocksGranted, Holds!LocksGranted
  <1>4. Seating!DropOld(r) <=> Holds!DropOld(r)
    BY DEF Seating!DropOld, Holds!DropOld, Seating!Move, Holds!Move
  <1>5. Seating!MarkHeld(r) <=> Holds!MarkHeld(r)
    BY DEF Seating!MarkHeld, Holds!MarkHeld, Seating!StillTaken, Holds!StillTaken,
           Seating!OutOfReach, Holds!OutOfReach, Seating!LockedByOther,
           Holds!LockedByOther
  <1>6. Seating!TryFails(r) <=> Holds!TryFails(r)
    BY DEF Seating!TryFails, Holds!TryFails, Seating!ReleaseAfterFailure,
           Holds!ReleaseAfterFailure
  <1> QED
    BY <1>1, <1>2, <1>3, <1>4, <1>5, <1>6 DEF Seating!HoldSeats, Holds!HoldSeats,
                                              Seating!CreateRow, Holds!CreateRow

LEMMA SameOperations ==
    \A r : /\ Seating!ReleaseSeats(r) <=> Holds!ReleaseSeats(r)
           /\ Seating!ExtendRows(r) <=> Holds!ExtendRows(r)
           /\ Seating!ConfirmSeats(r) <=> Holds!ConfirmSeats(r)
           /\ Seating!FreeBookedSeats(r) <=> Holds!FreeBookedSeats(r)
           /\ Seating!GetSeatMap(r) <=> Holds!GetSeatMap(r)
           /\ Seating!Fail(r) <=> Holds!Fail(r)
  <1> SUFFICES ASSUME NEW r
               PROVE  /\ Seating!ReleaseSeats(r) <=> Holds!ReleaseSeats(r)
                      /\ Seating!ExtendRows(r) <=> Holds!ExtendRows(r)
                      /\ Seating!ConfirmSeats(r) <=> Holds!ConfirmSeats(r)
                      /\ Seating!FreeBookedSeats(r) <=> Holds!FreeBookedSeats(r)
                      /\ Seating!GetSeatMap(r) <=> Holds!GetSeatMap(r)
                      /\ Seating!Fail(r) <=> Holds!Fail(r)
    OBVIOUS
  <1> USE SameSeats, SameRows, SameSizes DEF Seating!At, Holds!At, Seating!Goto,
                                             Holds!Goto, Seating!LockCall,
                                             Holds!LockCall, Seating!lockVars,
                                             Holds!lockVars, Seating!mapVars,
                                             Holds!mapVars
  <1>1. Seating!ReleaseSeats(r) <=> Holds!ReleaseSeats(r)
    BY DEF Seating!ReleaseSeats, Holds!ReleaseSeats, Seating!DropRows, Holds!DropRows,
           Seating!FreeSeats, Holds!FreeSeats, Seating!Move, Holds!Move, Seating!Turn,
           Holds!Turn
  <1>2. Seating!ExtendRows(r) <=> Holds!ExtendRows(r)
    BY DEF Seating!ExtendRows, Holds!ExtendRows
  <1>3. Seating!Book(r) <=> Holds!Book(r)
    BY DEF Seating!Book, Holds!Book, Seating!Holding, Holds!Holding, Seating!StillTaken,
           Holds!StillTaken, Seating!OutOfReach, Holds!OutOfReach,
           Seating!LockedByOther, Holds!LockedByOther
  <1>4. Seating!Convert(r) <=> Holds!Convert(r)
    BY DEF Seating!Convert, Holds!Convert, Seating!Move, Holds!Move
  <1>5. Seating!FreeBookedSeats(r) <=> Holds!FreeBookedSeats(r)
    BY DEF Seating!FreeBookedSeats, Holds!FreeBookedSeats, Seating!Unbook, Holds!Unbook,
           Seating!CountUp, Holds!CountUp, Seating!Turn, Holds!Turn, Seating!StillTaken,
           Holds!StillTaken, Seating!OutOfReach, Holds!OutOfReach,
           Seating!LockedByOther, Holds!LockedByOther
  <1>6. Seating!GetSeatMap(r) <=> Holds!GetSeatMap(r)
    BY DEF Seating!GetSeatMap, Holds!GetSeatMap, Seating!ReadMap, Holds!ReadMap,
           Seating!LookUp, Holds!LookUp, Seating!Seen, Holds!Seen, Seating!ShowMap,
           Holds!ShowMap, Seating!ForgetMap, Holds!ForgetMap, Seating!OutOfReach,
           Holds!OutOfReach, Seating!LockedByOther, Holds!LockedByOther
  <1>7. Seating!Fail(r) <=> Holds!Fail(r)
    BY DEF Seating!Fail, Holds!Fail, Seating!Alive, Holds!Alive, Seating!Ended,
           Holds!Ended, Seating!RefusedHold, Holds!RefusedHold, Seating!BreakOff,
           Holds!BreakOff, Seating!ForgetMap, Holds!ForgetMap
  <1> QED
    BY <1>1, <1>2, <1>3, <1>4, <1>5, <1>6, <1>7 DEF Seating!ConfirmSeats,
                                                    Holds!ConfirmSeats,
                                                    Seating!CountDown, Holds!CountDown

LEMMA SameListings == \A rows : Seating!Listings(rows) = Holds!Listings(rows)
  BY SameSizes DEF Seating!Listings, Holds!Listings

LEMMA SameOverdue == Seating!AllOverdue = Holds!AllOverdue
  BY DEF Seating!AllOverdue, Holds!AllOverdue, Seating!Overdue, Holds!Overdue,
         Seating!Active, Holds!Active

LEMMA SameSweeps ==
    \A r : /\ Seating!ReleaseExpiredHolds(r) <=> Holds!ReleaseExpiredHolds(r)
           /\ Seating!SweepFails(r) <=> Holds!SweepFails(r)
  <1> SUFFICES ASSUME NEW r
               PROVE  /\ Seating!ReleaseExpiredHolds(r) <=> Holds!ReleaseExpiredHolds(r)
                      /\ Seating!SweepFails(r) <=> Holds!SweepFails(r)
    OBVIOUS
  <1> USE SameSeats, SameListings, SameOverdue DEF Seating!At, Holds!At, Seating!Goto,
                                             Holds!Goto, Seating!LockCall,
                                             Holds!LockCall, Seating!lockVars,
                                             Holds!lockVars, Seating!mapVars,
                                             Holds!mapVars
  <1>1. Seating!Scan(r) <=> Holds!Scan(r)
    BY DEF Seating!Scan, Holds!Scan, Seating!Found, Holds!Found
  <1>2. Seating!Expire(r) <=> Holds!Expire(r)
    BY DEF Seating!Expire, Holds!Expire, Seating!Expired, Holds!Expired, Seating!Move,
           Holds!Move
  <1>3. Seating!FreeSwept(r) <=> Holds!FreeSwept(r)
    BY DEF Seating!FreeSwept, Holds!FreeSwept, Seating!Turn, Holds!Turn
  <1>4. Seating!SweepFails(r) <=> Holds!SweepFails(r)
    BY DEF Seating!SweepFails, Holds!SweepFails, Seating!BreakOff, Holds!BreakOff
  <1> QED
    BY SameLockMoves, <1>1, <1>2, <1>3, <1>4 DEF Seating!ReleaseExpiredHolds, Holds!ReleaseExpiredHolds

LEMMA SameNext == Seating!Next <=> Holds!Next
  <1>1. Seating!Tick <=> Holds!Tick
    BY SameLockTick DEF Seating!Tick, Holds!Tick, Seating!StillTaken, Holds!StillTaken,
                        Seating!OutOfReach, Holds!OutOfReach, Seating!LockedByOther,
                        Holds!LockedByOther
  <1>2. ASSUME NEW r PROVE Seating!Request(r) <=> Holds!Request(r)
    BY SameLockMoves, SameHolding, SameOperations DEF Seating!Request, Holds!Request
  <1>3. Seating!Step <=> Holds!Step
    BY <1>2, SameArrivals, SameOperations, SameSweeps DEF Seating!Step, Holds!Step
  <1> QED
    BY <1>1, <1>3 DEF Seating!Next, Holds!Next

-----------------------------------------------------------------------------
(* The inductive invariant for the types, and for where a request stands.  *)

LEMMA HoldAssumptions ==
    /\ Holds!TTLAssumption /\ Holds!MaxSeatsAssumption /\ Holds!NoOneAssumption
    /\ Holds!FiniteAssumption /\ Holds!RequestsAssumption /\ Holds!CallerAssumption
    /\ Holds!ScriptAssumption
  <1>1. Holds!ScriptAssumption
    BY ScriptAssumption DEF Holds!ScriptAssumption
  <1> QED
    BY <1>1, SameSizes, TTLAssumption, MaxSeatsAssumption, NoOneAssumption, FiniteAssumption,
       RequestsAssumption, CallerAssumption
       DEF Holds!TTLAssumption, Holds!MaxSeatsAssumption, Holds!NoOneAssumption,
           Holds!FiniteAssumption, Holds!RequestsAssumption, Holds!CallerAssumption

LEMMA SameTypes == Seating!TypeOK <=> Holds!TypeOK
  <1>1. Seating!Locks!TypeOK <=> Holds!Locks!TypeOK
    BY DEF Seating!Locks!TypeOK, Seating!Locks!KeysOK, Seating!Locks!Key,
           Seating!Locks!Absent, Seating!Locks!CallsOK, Seating!Locks!LeasesOK,
           Seating!Locks!Working, Seating!Locks!Over, Seating!Calls,
           Holds!Locks!TypeOK, Holds!Locks!KeysOK, Holds!Locks!Key, Holds!Locks!Absent,
           Holds!Locks!CallsOK, Holds!Locks!LeasesOK, Holds!Locks!Working, Holds!Locks!Over,
           Holds!Calls
  <1> QED
    BY <1>1 DEF Seating!TypeOK, Seating!SeatStatus, Seating!HoldStatus, Seating!Phases,
                Seating!Holding, Seating!Ended, Seating!Calls,
                Holds!TypeOK, Holds!SeatStatus, Holds!HoldStatus, Holds!Phases, Holds!Holding,
                Holds!Ended, Holds!Calls

LEMMA SameInit == Seating!Init => Holds!Init
  <1>1. Seating!Locks!Init => Holds!Locks!Init
    BY DEF Seating!Locks!Init, Seating!Locks!NoKey, Seating!Locks!Absent,
           Seating!Locks!Contract!Init, Seating!Calls,
           Holds!Locks!Init, Holds!Locks!NoKey, Holds!Locks!Absent,
           Holds!Locks!Contract!Init, Holds!Calls
  <1> QED
    BY <1>1, SameSizes DEF Seating!Init, Seating!NoRow, Seating!Calls,
                           Holds!Init, Holds!NoRow, Holds!Calls

\* The invariants SeatHoldProofs has for the seats and the hold records.
SeatsInv == Holds!TypeInv /\ Holds!RowsInv

LEMMA SeatTypes ==
    SeatsInv => /\ Holds!TablesOK /\ Holds!Locks!TypeOK /\ Holds!Standing
                /\ batch \in [Holds!Calls -> Seq(Seats)] /\ user \in [Holds!Calls -> Users]
                /\ phase \in [Holds!Calls -> Holds!Phases]
                /\ Requests \subseteq Holds!Calls
  BY HoldAssumptions, Holds!TypeParts
     DEF SeatsInv, Holds!TypeInv, Holds!TablesOK, Holds!Locks!TypeOK, Holds!Locks!CallsOK,
         Holds!Calls

\* The booking's confirmation is on record.
Confirmed(b) == \E i \in DOMAIN history[b] : history[b][i].to = "CONFIRMED"

\* A request asks for seat operations or for bookings, not for both; one about a booking is
\* in SeatHold's hands only once it goes on with the booking's seats, for the booking's user.
Placed(r) ==
    /\ Script[r] # {} => stage[r] = "idle" /\ phase[r] \notin Holds!Selling
    /\ Script[r] = {} =>
          /\ todo[r] = {} /\ \A s \in Seats : row[r][s] = Holds!NoRow
          /\ phase[r] \in Holds!Selling \cup {"idle", "ok", "failed"}
          /\ stage[r] # "seats" <=> phase[r] = "idle"
    /\ user[r] = IF stage[r] = "seats" THEN Caller[of[r]] ELSE Caller[r]
    /\ stage[r] \in {"readSeats", "checkLocks", "insert"} => batch[r] # <<>>
    /\ stage[r] \in {"writePaid", "writeCancel", "writeStatus"} => Exists(of[r])
    /\ phase[r] \in {"book", "convert"} =>
          Exists(of[r]) /\ Confirmed(of[r]) /\ batch[r] = booking[of[r]].seats

\* A booking comes from a creation that is over, with seats; its history begins with it.
Recorded(b) ==
    /\ Exists(b) => /\ booking[b].status \in BookingStatus
                    /\ booking[b].seats # <<>>
                    /\ stage[b] = "over"
    /\ ~Exists(b) => history[b] = <<>>

PlacesInv == \A r \in Requests : Placed(r) /\ Recorded(r)

LEMMA NextCases ==
    ASSUME [Next]_vars
    PROVE  \/ (\E r \in Requests : Step(r)) /\ UNCHANGED departure
           \/ [Holds!Next]_(Holds!vars) /\ UNCHANGED <<dealVars, departure>>
           \/ TimeToDeparture
  BY SameNext DEF Next, vars, seatVars, Holds!vars, Holds!lockVars, Holds!mapVars

\* A request that has been idle for SeatHold gets its seats, its user and its first step.
LEMMA SeatsTakenOver ==
    ASSUME SeatsInv, NEW r \in Requests, phase[r] = "idle",
           NEW b \in Seq(Seats), NEW u \in Users, NEW where \in {"idle", "book", "unbook"},
           where = "book" => b # <<>>,
           batch' = [batch EXCEPT ![r] = b], user' = [user EXCEPT ![r] = u],
           phase' = [phase EXCEPT ![r] = where],
           UNCHANGED <<lock, pc, at, upto, saw, lease, robbed, seat, row, todo, promise,
                       available, shown, unread, overtaken, taken>>
    PROVE  SeatsInv'
  <1> /\ Holds!TablesOK /\ Holds!Locks!TypeOK /\ Holds!Standing /\ r \in Holds!Calls
    BY SeatTypes
  <1>1. pc[r] = "idle"
    BY DEF Holds!Standing, Holds!Stands
  <1>2. Holds!Locks!TypeOK'
    <2>1. Holds!Locks!KeysOK' /\ Holds!Locks!LeasesOK'
      BY DEF Holds!Locks!TypeOK, Holds!Locks!KeysOK, Holds!Locks!LeasesOK
    <2>2. Holds!Locks!CallsOK'
      BY <1>1 DEF Holds!Locks!TypeOK, Holds!Locks!CallsOK, Holds!Locks!Working
    <2> QED
      BY <2>1, <2>2 DEF Holds!Locks!TypeOK
  <1>3. Holds!TablesOK'
    BY DEF Holds!TablesOK, Holds!Phases
  <1>4. Holds!Standing'
    BY <1>1 DEF Holds!Standing, Holds!Stands, Holds!TablesOK, Holds!Locks!TypeOK,
                Holds!Locks!CallsOK, Holds!Holding, Holds!Ended
  <1>5. Holds!RowsInv'
    BY DEF SeatsInv, Holds!RowsInv, Holds!RowsStand, Holds!Inserting, Holds!TablesOK
  <1>6. Holds!TypeOK'
    BY <1>2, <1>3 DEF Holds!TypeOK, Holds!TablesOK, Holds!HoldRows
  <1> QED
    BY <1>4, <1>5, <1>6 DEF SeatsInv, Holds!TypeInv

\* The steps of a booking that leave the seats alone.
Aside(r) == \/ CreateRead(r) \/ CheckLock(r) \/ InsertThrows(r) \/ ReadPaid(r)
            \/ ReadCancel(r) \/ ReadStatus(r) \/ WriteStatus(r) \/ Fail(r)

LEMMA AsideSteps == \A r : Aside(r) => UNCHANGED seatVars
  BY DEF Aside, CreateRead, CheckLock, InsertThrows, ReadPaid, ReadCancel, ReadStatus,
         WriteStatus, Fail

LEMMA StepCases ==
    \A r : Step(r) => Ask(r) \/ Aside(r) \/ Insert(r) \/ WritePaid(r) \/ WriteCancel(r)
  BY DEF Step, Deals, Aside

LEMMA NextSeatsInv == SeatsInv /\ DealsOK /\ PlacesInv /\ [Next]_vars => SeatsInv'
  <1> SUFFICES ASSUME SeatsInv, DealsOK, PlacesInv, [Next]_vars PROVE SeatsInv'
    OBVIOUS
  <1> /\ Holds!TablesOK /\ batch \in [Holds!Calls -> Seq(Seats)]
      /\ user \in [Holds!Calls -> Users] /\ phase \in [Holds!Calls -> Holds!Phases]
      /\ Requests \subseteq Holds!Calls
    BY SeatTypes
  <1>1. ASSUME [Holds!Next]_(Holds!vars) PROVE SeatsInv'
    BY <1>1, HoldAssumptions, Holds!NextTypeInv, Holds!NextRowsInv DEF SeatsInv
  <1>2. ASSUME UNCHANGED seatVars PROVE SeatsInv'
    BY <1>1, <1>2 DEF seatVars, Holds!vars, Holds!lockVars, Holds!mapVars
  <1>3. ASSUME NEW r \in Requests, Ask(r) PROVE SeatsInv'
    <2>1. PICK d \in Deal[r] : /\ d.op = "create" => batch' = [batch EXCEPT ![r] = d.seats]
                               /\ d.op # "create" => batch' = batch
      BY <1>3 DEF Ask
    <2>2. phase[r] = "idle"
      BY <1>3, <2>1, DealAssumption DEF Ask, On, PlacesInv, Placed
    <2>3. \E b \in Seq(Seats) : batch' = [batch EXCEPT ![r] = b]
      <3>1. CASE d.op = "create"
        <4>1. d.seats \in Seq(Seats)
          BY <3>1, DealAssumption
        <4> QED
          BY <2>1, <3>1, <4>1
      <3>2. CASE d.op # "create"
        BY <2>1, <3>2
      <3> QED
        BY <3>1, <3>2
    <2>4. user' = [user EXCEPT ![r] = user[r]] /\ phase' = [phase EXCEPT ![r] = "idle"]
      BY <1>3, <2>2 DEF Ask
    <2>5. UNCHANGED <<lock, pc, at, upto, saw, lease, robbed, seat, row, todo, promise,
                      available, shown, unread, overtaken, taken>>
      BY <1>3 DEF Ask
    <2> QED
      BY <2>2, <2>3, <2>4, <2>5, SeatsTakenOver
  <1>4. ASSUME NEW r \in Requests, WritePaid(r) \/ WriteCancel(r) PROVE SeatsInv'
    <2>1. /\ of[r] \in Requests /\ Caller[of[r]] \in Users
          /\ booking[of[r]].seats \in Seq(Seats)
      BY CallerAssumption DEF DealsOK, BookingRow
    <2>2. Exists(of[r]) /\ stage[r] # "idle" /\ stage[r] # "seats"
      BY <1>4 DEF WritePaid, WriteCancel, On, PlacesInv, Placed
    <2>3. booking[of[r]].seats # <<>> /\ phase[r] = "idle"
      BY <2>1, <2>2 DEF PlacesInv, Placed, Recorded
    <2>4. SeatOperation(r, "book") \/ SeatOperation(r, "unbook")
      BY <1>4 DEF WritePaid, WriteCancel
    <2>5. CASE SeatOperation(r, "book")
      BY <2>1, <2>3, <2>5, SeatsTakenOver DEF SeatOperation
    <2>6. CASE SeatOperation(r, "unbook")
      BY <2>1, <2>3, <2>6, SeatsTakenOver DEF SeatOperation
    <2> QED
      BY <2>4, <2>5, <2>6
  <1>5. ASSUME NEW r \in Requests, Insert(r) PROVE SeatsInv'
    <2>1. UNCHANGED <<lock, pc, user, batch, at, upto, saw, lease, robbed,
                      seat, phase, todo, promise, available, shown, unread, overtaken, taken>>
      BY <1>5 DEF Insert
    <2>2. \A q \in Requests, s \in Seats :
             \/ row'[q][s] = row[q][s]
             \/ /\ row[q][s].status = "ACTIVE"
                /\ row'[q][s] = [status |-> "CONVERTED", left |-> 0]
      BY <1>5 DEF Insert, Seating!Move, Taken, Seating!RowsOf, Seating!Active
    <2>3. row' \in [Requests -> [Seats -> Holds!HoldRows]]
      <3>1. [status |-> "CONVERTED", left |-> 0] \in Holds!HoldRows
        BY TTLAssumption DEF Holds!HoldRows, Holds!HoldStatus
      <3> QED
        BY <1>5, <3>1 DEF Insert, Seating!Move, Holds!TablesOK
    <2>4. Holds!RowsInv'
      <3> SUFFICES ASSUME NEW q \in Requests PROVE Holds!RowsStand(q)'
        BY DEF Holds!RowsInv
      <3>1. Holds!RowsStand(q) /\ todo[q] \subseteq Seats
        BY DEF SeatsInv, Holds!RowsInv, Holds!TablesOK
      <3>2. \A s \in Seats : row[q][s] = Holds!NoRow => row'[q][s] = Holds!NoRow
        BY <2>2 DEF Holds!NoRow
      <3>3. \A s \in Seats : row'[q][s].status # "ACTIVE" => row'[q][s].left = 0
        <4> SUFFICES ASSUME NEW s \in Seats
                     PROVE  row'[q][s].status # "ACTIVE" => row'[q][s].left = 0
          OBVIOUS
        <4>1. row[q][s].status # "ACTIVE" => row[q][s].left = 0
          BY <3>1 DEF Holds!RowsStand
        <4>2. CASE row'[q][s] = row[q][s]
          BY <4>1, <4>2
        <4>3. CASE row'[q][s] = [status |-> "CONVERTED", left |-> 0]
          BY <4>3
        <4> QED
          BY <2>2, <4>2, <4>3
      <3> QED
        BY <2>1, <3>1, <3>2, <3>3 DEF Holds!RowsStand
    <2>5. Holds!Locks!TypeOK'
      BY <2>1, HoldAssumptions, Holds!SameLockTypes, SeatTypes DEF Holds!lockVars
    <2>6. Holds!TypeOK'
      BY <2>1, <2>3, <2>5 DEF Holds!TypeOK, Holds!TablesOK, Holds!HoldRows
    <2>7. Holds!Standing'
      BY <2>1, SeatTypes DEF Holds!Standing, Holds!Stands
    <2> QED
      BY <2>4, <2>6, <2>7 DEF SeatsInv, Holds!TypeInv
  <1> QED
    BY <1>1, <1>2, <1>3, <1>4, <1>5, NextCases, StepCases, AsideSteps DEF TimeToDeparture

\* An update changes the two columns of its booking, and nothing else.
LEMMA UpdatedRow ==
    ASSUME DealsOK, NEW r \in Requests, NEW status, NEW pay, Update(r, status, pay),
           NEW b \in Requests
    PROVE  /\ b # of[r] => booking'[b] = booking[b]
           /\ b = of[r] => booking'[b] = [status |-> status, pay |-> pay,
                                          seats |-> booking[b].seats]
  <1>1. booking \in [Requests -> BookingRow] /\ of[r] \in Requests
    BY DEF DealsOK
  <1>2. ASSUME NEW x \in BookingRow
        PROVE  [[x EXCEPT !.status = status] EXCEPT !.pay = pay]
                  = [status |-> status, pay |-> pay, seats |-> x.seats]
    <2> DEFINE y == [x EXCEPT !.status = status]
    <2>1. y = [status |-> status, pay |-> x.pay, seats |-> x.seats]
      BY DEF BookingRow
    <2> HIDE DEF y
    <2>2. [y EXCEPT !.pay = pay] = [status |-> status, pay |-> pay, seats |-> x.seats]
      BY <2>1
    <2> QED
      BY <2>2 DEF y
  <1>3. CASE b # of[r]
    BY <1>1, <1>3 DEF Update
  <1>4. CASE b = of[r]
    <2>1. booking'[b] = [[booking[b] EXCEPT !.status = status] EXCEPT !.pay = pay]
      BY <1>1, <1>4 DEF Update
    <2> QED
      BY <1>1, <1>2, <1>4, <2>1
  <1> QED
    BY <1>3, <1>4

LEMMA NextDeals == SeatsInv /\ DealsOK /\ PlacesInv /\ [Next]_vars => DealsOK'
  <1> SUFFICES ASSUME SeatsInv, DealsOK, PlacesInv, [Next]_vars PROVE DealsOK'
    OBVIOUS
  <1> /\ batch \in [Holds!Calls -> Seq(Seats)] /\ Requests \subseteq Holds!Calls
    BY SeatTypes
  <1> USE DEF DealsOK
  <1>1. ASSUME NEW r \in Requests, NEW where \in Stages, Move(r, where)
        PROVE  stage' \in [Requests -> Stages]
    BY <1>1 DEF Move
  <1>2. ASSUME NEW r \in Requests PROVE Seating!SeatsOf(r) \subseteq Seats
    BY DEF Seating!SeatsOf
  <1>3. ASSUME UNCHANGED dealVars PROVE DealsOK'
    BY <1>3 DEF dealVars
  <1>4. ASSUME NEW r \in Requests, Ask(r) PROVE DealsOK'
    <2>1. PICK d \in Deal[r] :
             \/ d.op = "create" /\ Move(r, "readSeats") /\ UNCHANGED of
             \/ /\ d.op \in {"pay", "cancel", "status"} /\ of' = [of EXCEPT ![r] = d.of]
                /\ \/ Move(r, "readPaid") \/ Move(r, "readCancel") \/ Move(r, "readStatus")
      BY <1>4, DealAssumption DEF Ask
    <2>2. d.op \in {"pay", "cancel", "status"} => d.of \in Requests
      BY DealAssumption
    <2>3. stage' \in [Requests -> Stages]
      BY <1>1, <2>1 DEF Stages
    <2> QED
      BY <1>4, <2>1, <2>2, <2>3 DEF Ask
  <1>5. ASSUME NEW r \in Requests, Aside(r) \/ Insert(r) \/ WritePaid(r) \/ WriteCancel(r)
        PROVE  stage' \in [Requests -> Stages] /\ UNCHANGED of
    <2>1. ASSUME NEW s \in Seats, CheckLock(r), stage' # stage
          PROVE  \E where \in Stages : Move(r, where)
      BY <2>1 DEF CheckLock, Stages
    <2>2. UNCHANGED stage \/ \E where \in Stages : Move(r, where)
      BY <1>5 DEF Aside, CreateRead, CheckLock, InsertThrows, ReadPaid, ReadCancel, ReadStatus,
                  WriteStatus, Fail, Insert, WritePaid, WriteCancel, SeatOperation, Stages
    <2>3. UNCHANGED of
      BY <1>5 DEF Aside, CreateRead, CheckLock, InsertThrows, ReadPaid, ReadCancel, ReadStatus,
                  WriteStatus, Fail, Insert, WritePaid, WriteCancel
    <2> QED
      BY <1>1, <2>2, <2>3
  <1>6. ASSUME NEW r \in Requests, NEW status \in BookingStatus, NEW pay \in PaymentStatus,
               Update(r, status, pay)
        PROVE  booking' \in [Requests -> BookingRow] /\ history' \in [Requests -> Seq(HistoryEntry)]
    <2>1. [from |-> read[r].status, to |-> status] \in HistoryEntry
      BY DEF HistoryEntry
    <2>2. history' \in [Requests -> Seq(HistoryEntry)]
      BY <1>6, <2>1 DEF Update
    <2>3. \A b \in Requests : booking'[b] \in BookingRow
      <3> SUFFICES ASSUME NEW b \in Requests PROVE booking'[b] \in BookingRow
        OBVIOUS
      <3>1. booking[b] \in BookingRow
        OBVIOUS
      <3>2. booking'[b] = booking[b]
            \/ booking'[b] = [status |-> status, pay |-> pay, seats |-> booking[b].seats]
        BY <1>6, UpdatedRow
      <3> QED
        BY <3>1, <3>2 DEF BookingRow
    <2> QED
      BY <1>6, <2>2, <2>3 DEF Update
  <1>7. ASSUME NEW r \in Requests, CreateRead(r) \/ CheckLock(r) \/ InsertThrows(r) \/ Fail(r)
        PROVE  DealsOK'
    <2>1. UNCHANGED <<booking, history, of, read>> /\ Aside(r)
      BY <1>7 DEF Aside, CreateRead, CheckLock, InsertThrows, Fail
    <2>2. unchecked' \in [Requests -> SUBSET Seats]
      <3>1. CASE CreateRead(r)
        <4>1. \/ unchecked' = unchecked
              \/ unchecked' = [unchecked EXCEPT ![r] = Seating!SeatsOf(r)]
          BY <3>1 DEF CreateRead
        <4>2. Seating!SeatsOf(r) \in SUBSET Seats
          BY <1>2
        <4> QED
          BY <4>1, <4>2
      <3>2. CASE CheckLock(r)
        <4>1. PICK s : \/ unchecked' = unchecked
                       \/ unchecked' = [unchecked EXCEPT ![r] = unchecked[r] \ {s}]
          BY <3>2 DEF CheckLock
        <4>2. unchecked[r] \ {s} \in SUBSET Seats
          OBVIOUS
        <4> QED
          BY <4>1, <4>2
      <3>3. CASE InsertThrows(r) \/ Fail(r)
        BY <3>3 DEF InsertThrows, Fail
      <3> QED
        BY <1>7, <3>1, <3>2, <3>3
    <2> QED
      BY <1>5, <2>1, <2>2
  <1>8. ASSUME NEW r \in Requests, ReadPaid(r) \/ ReadCancel(r) \/ ReadStatus(r) PROVE DealsOK'
    <2>1. /\ booking[of[r]].status \in BookingStatus \cup {"NONE"}
          /\ booking[of[r]].pay \in PaymentStatus
          /\ PayAfter(of[r]) \in PaymentStatus /\ Refund(of[r]) \in 0 .. 2
      BY DEF BookingRow, PayAfter, Refund, PaymentStatus
    <2>2. ASSUME NEW pay \in PaymentStatus, NEW refund \in 0 .. 2, Snapshot(r, pay, refund)
          PROVE  read' \in [Requests -> [status : BookingStatus \cup {"NONE"}, pay : PaymentStatus,
                                        refund : 0 .. 2]]
      BY <2>1, <2>2 DEF Snapshot
    <2>3. UNCHANGED read \/ \E pay \in PaymentStatus, refund \in 0 .. 2 : Snapshot(r, pay, refund)
      BY <1>8, <2>1 DEF ReadPaid, ReadCancel, ReadStatus
    <2>4. UNCHANGED <<booking, history, of, unchecked>> /\ Aside(r)
      BY <1>8 DEF Aside, ReadPaid, ReadCancel, ReadStatus
    <2> QED
      BY <1>5, <2>2, <2>3, <2>4
  <1>9. ASSUME NEW r \in Requests, Insert(r) PROVE DealsOK'
    <2>1. [status |-> "PENDING", pay |-> "UNPAID", seats |-> batch[r]] \in BookingRow
      BY DEF BookingRow, BookingStatus, PaymentStatus
    <2>2. <<[from |-> "NONE", to |-> "PENDING"]>> \in Seq(HistoryEntry)
      BY DEF HistoryEntry, BookingStatus
    <2> QED
      BY <1>5, <1>9, <2>1, <2>2 DEF Insert
  <1>10. ASSUME NEW r \in Requests, WritePaid(r) \/ WriteCancel(r) PROVE DealsOK'
    <2>1. PICK status \in BookingStatus, pay \in PaymentStatus : Update(r, status, pay)
      <3>1. read[r].pay \in PaymentStatus
        OBVIOUS
      <3> QED
        BY <1>10, <3>1 DEF WritePaid, WriteCancel, BookingStatus, PaymentStatus
    <2> QED
      BY <1>5, <1>6, <1>10, <2>1 DEF WritePaid, WriteCancel
  <1>11. ASSUME NEW r \in Requests, WriteStatus(r) PROVE DealsOK'
    <2>1. PICK d \in Deal[r] : d.op = "status" /\ Update(r, d.to, KeptPay(r))
      BY <1>11 DEF WriteStatus
    <2>2. d.to \in BookingStatus /\ KeptPay(r) \in PaymentStatus
      BY <2>1, DealAssumption DEF KeptPay, BookingRow
    <2> QED
      BY <1>5, <1>6, <1>11, <2>1, <2>2 DEF Aside, WriteStatus
  <1> QED
    BY <1>3, <1>4, <1>7, <1>8, <1>9, <1>10, <1>11, NextCases, StepCases DEF TimeToDeparture, Aside
-----------------------------------------------------------------------------
(* Where requests and bookings stand, from step to step.                   *)

\* A booking stays, with its seats, and so does the record of its confirmation.
Lasts(b) == /\ Exists(b) => Exists(b)' /\ booking'[b].seats = booking[b].seats
            /\ Confirmed(b) => Confirmed(b)'

LEMMA UpdatesLast ==
    ASSUME DealsOK, NEW r \in Requests, NEW status \in BookingStatus, NEW pay,
           Update(r, status, pay), NEW b \in Requests
    PROVE  Lasts(b)
  <1> /\ booking \in [Requests -> BookingRow] /\ of[r] \in Requests
      /\ history \in [Requests -> Seq(HistoryEntry)]
    BY DEF DealsOK
  <1>1. Exists(b) => Exists(b)' /\ booking'[b].seats = booking[b].seats
    <2>1. CASE b # of[r]
      BY <2>1, UpdatedRow DEF Exists
    <2>2. CASE b = of[r]
      <3>1. booking'[b] = [status |-> status, pay |-> pay, seats |-> booking[b].seats]
        BY <2>2, UpdatedRow
      <3> QED
        BY <3>1 DEF Exists, NoBooking, BookingStatus
    <2> QED
      BY <2>1, <2>2
  <1>2. ASSUME NEW i \in DOMAIN history[b]
        PROVE  i \in DOMAIN history'[b] /\ history'[b][i] = history[b][i]
    <2>1. history[b] \in Seq(HistoryEntry)
      OBVIOUS
    <2>2. history'[b] = history[b]
          \/ history'[b] = Append(history[b], [from |-> read[r].status, to |-> status])
      BY DEF Update
    <2>3. i \in 1 .. Len(history[b])
      BY <2>1
    <2> QED
      BY <2>1, <2>2, <2>3
  <1> QED
    BY <1>1, <1>2 DEF Lasts, Confirmed

LEMMA BookingsLast ==
    ASSUME DealsOK, PlacesInv, NEW r \in Requests, Step(r), NEW b \in Requests
    PROVE  Lasts(b)
  <1>1. CASE UNCHANGED <<booking, history>>
    BY <1>1 DEF Lasts, Exists, Confirmed
  <1>2. CASE Insert(r)
    <2>1. ~Exists(r) /\ history[r] = <<>>
      BY <1>2 DEF Insert, On, PlacesInv, Recorded
    <2>2. CASE b = r
      <3>1. ~Confirmed(b)
        BY <2>1, <2>2 DEF Confirmed
      <3> QED
        BY <2>1, <2>2, <3>1 DEF Lasts
    <2>3. CASE b # r
      BY <1>2, <2>3 DEF Insert, Lasts, Exists, Confirmed, DealsOK
    <2> QED
      BY <2>2, <2>3
  <1>3. CASE WritePaid(r) \/ WriteCancel(r)
    BY <1>3, UpdatesLast DEF WritePaid, WriteCancel, BookingStatus
  <1>4. CASE WriteStatus(r)
    <2>1. PICK d \in Deal[r] : d.op = "status" /\ Update(r, d.to, KeptPay(r))
      BY <1>4 DEF WriteStatus
    <2>2. d.to \in BookingStatus
      BY <2>1, DealAssumption
    <2> QED
      BY <2>1, <2>2, UpdatesLast
  <1> QED
    BY <1>1, <1>2, <1>3, <1>4 DEF Step, Deals, Ask, CreateRead, CheckLock, InsertThrows,
       ReadPaid, ReadCancel, ReadStatus, Fail

\* A step of one request leaves the others where they are.
LEMMA OthersStay ==
    ASSUME SeatsInv, DealsOK, NEW r \in Requests, Step(r)
    PROVE  /\ \A q \in Requests \ {r} :
                 /\ stage'[q] = stage[q] /\ of'[q] = of[q] /\ phase'[q] = phase[q]
                 /\ batch'[q] = batch[q] /\ user'[q] = user[q] /\ read'[q] = read[q]
           /\ UNCHANGED todo
           /\ \A q \in Requests, s \in Seats :
                 row[q][s].status # "ACTIVE" => row'[q][s] = row[q][s]
  <1> /\ phase \in [Holds!Calls -> Holds!Phases] /\ batch \in [Holds!Calls -> Seq(Seats)]
      /\ user \in [Holds!Calls -> Users] /\ Requests \subseteq Holds!Calls
    BY SeatTypes
  <1> USE DEF Move
  <1>1. CASE Ask(r)
    BY <1>1 DEF Ask, DealsOK
  <1>2. CASE Aside(r)
    <2>1. UNCHANGED <<phase, batch, user, todo, row>>
      BY <1>2, AsideSteps DEF seatVars
    <2>2. ASSUME NEW q \in Requests \ {r}
          PROVE  stage'[q] = stage[q] /\ of'[q] = of[q] /\ read'[q] = read[q]
      <3>1. UNCHANGED of
        BY <1>2 DEF Aside, CreateRead, CheckLock, InsertThrows, ReadPaid, ReadCancel,
                    ReadStatus, WriteStatus, Fail
      <3>2. UNCHANGED stage \/ \E where : stage' = [stage EXCEPT ![r] = where]
        BY <1>2 DEF Aside, CreateRead, CheckLock, InsertThrows, ReadPaid, ReadCancel,
                    ReadStatus, WriteStatus, Fail
      <3>3. UNCHANGED read \/ \E pay, refund : Snapshot(r, pay, refund)
        BY <1>2 DEF Aside, CreateRead, CheckLock, InsertThrows, ReadPaid, ReadCancel,
                    ReadStatus, WriteStatus, Fail
      <3> QED
        BY <3>1, <3>2, <3>3 DEF DealsOK, Snapshot
    <2> QED
      BY <2>1, <2>2
  <1>3. CASE Insert(r)
    BY <1>3 DEF Insert, Seating!Move, Taken, Seating!RowsOf, Seating!Active, DealsOK
  <1>4. CASE WritePaid(r) \/ WriteCancel(r)
    BY <1>4 DEF WritePaid, WriteCancel, SeatOperation, DealsOK
  <1> QED
    BY <1>1, <1>2, <1>3, <1>4, StepCases

\* Where a request stands after a step that leaves it alone, whatever happens to bookings.
LEMMA PlacedStays ==
    ASSUME DealsOK, NEW q \in Requests, Placed(q), \A b \in Requests : Lasts(b),
           stage'[q] = stage[q], of'[q] = of[q], phase'[q] = phase[q], batch'[q] = batch[q],
           user'[q] = user[q], UNCHANGED todo,
           \A s \in Seats : row[q][s].status # "ACTIVE" => row'[q][s] = row[q][s]
    PROVE  Placed(q)'
  <1>1. of[q] \in Requests /\ Lasts(of[q])
    BY DEF DealsOK
  <1>2. \A s \in Seats : row[q][s] = Holds!NoRow => row'[q][s] = Holds!NoRow
    BY DEF Holds!NoRow
  <1>3. /\ Exists(of[q]) => Exists(of[q])' /\ booking'[of[q]].seats = booking[of[q]].seats
        /\ Confirmed(of[q]) => Confirmed(of[q])'
    BY <1>1 DEF Lasts, Exists, Confirmed
  <1> QED
    BY <1>2, <1>3 DEF Placed, Exists, Confirmed

\* The step of a request about a booking puts the request where it belongs.
LEMMA StepPlaces ==
    ASSUME SeatsInv, DealsOK, PlacesInv, NEW r \in Requests, Step(r),
           \A b \in Requests : Lasts(b)
    PROVE  Placed(r)'
  <1> /\ phase \in [Holds!Calls -> Holds!Phases] /\ batch \in [Holds!Calls -> Seq(Seats)]
      /\ user \in [Holds!Calls -> Users] /\ Requests \subseteq Holds!Calls
    BY SeatTypes
  <1> /\ stage \in [Requests -> Stages] /\ of[r] \in Requests
      /\ of \in [Requests -> Requests]
    BY DEF DealsOK
  <1>1. Placed(r)
    BY DEF PlacesInv
  <1>2. Script[r] = {}
    <2>1. CASE stage[r] = "idle"
      <3>1. Ask(r)
        BY <2>1, StepCases DEF Step, Deals, CreateRead, CheckLock, Insert, InsertThrows,
           ReadPaid, WritePaid, ReadCancel, WriteCancel, ReadStatus, WriteStatus, Fail, On
      <3> QED
        BY <3>1, DealAssumption DEF Ask
    <2>2. CASE stage[r] # "idle"
      BY <1>1, <2>2 DEF Placed
    <2> QED
      BY <2>1, <2>2
  <1>3. UNCHANGED todo /\ \A s \in Seats : row'[r][s] = Holds!NoRow
    <2>1. \A s \in Seats : row[r][s] = Holds!NoRow /\ row[r][s].status # "ACTIVE"
      BY <1>1, <1>2 DEF Placed, Holds!NoRow
    <2> QED
      BY <2>1, OthersStay
  <1>4. stage[r] # "seats"
    BY DEF Step, Deals, Ask, CreateRead, CheckLock, Insert, InsertThrows,
           ReadPaid, WritePaid, ReadCancel, WriteCancel, ReadStatus, WriteStatus, Fail, On
  <1>5. phase[r] = "idle" /\ user[r] = Caller[r]
    BY <1>1, <1>2, <1>4 DEF Placed
  <1> DEFINE Waits == /\ phase'[r] = "idle" /\ user'[r] = Caller[r] /\ stage'[r] # "seats"
                      /\ stage'[r] \in {"readSeats", "checkLocks", "insert"} => batch'[r] # <<>>
                      /\ stage'[r] \in {"writePaid", "writeCancel", "writeStatus"}
                            => Exists(of[r])' /\ of'[r] = of[r]
  <1>6. Waits => Placed(r)'
    BY <1>1, <1>2, <1>3 DEF Placed, Exists, Holds!Selling
  <1>7. CASE Ask(r)
    <2>1. PICK d \in Deal[r] :
             \/ d.op = "create" /\ Move(r, "readSeats") /\ batch' = [batch EXCEPT ![r] = d.seats]
             \/ Move(r, "readPaid") \/ Move(r, "readCancel") \/ Move(r, "readStatus")
      BY <1>7, DealAssumption DEF Ask
    <2>2. d.op = "create" => d.seats # <<>>
      BY DealAssumption
    <2>3. UNCHANGED <<phase, user>>
      BY <1>7 DEF Ask
    <2> QED
      BY <1>5, <1>6, <2>1, <2>2, <2>3 DEF Move
  <1>8. CASE CreateRead(r) \/ CheckLock(r) \/ InsertThrows(r) \/ Fail(r)
    <2>1. UNCHANGED <<phase, user, batch>>
      BY <1>8 DEF CreateRead, CheckLock, InsertThrows, Fail, seatVars
    <2>2. stage'[r] \in {"refused", "failed"}
          \/ /\ stage[r] \in {"readSeats", "checkLocks", "insert"}
             /\ stage'[r] \in {"readSeats", "checkLocks", "insert"}
      BY <1>8 DEF CreateRead, CheckLock, InsertThrows, Fail, Move, On
    <2> QED
      BY <1>1, <1>5, <1>6, <2>1, <2>2 DEF Placed
  <1>9. CASE ReadPaid(r) \/ ReadCancel(r) \/ ReadStatus(r)
    <2>1. UNCHANGED <<phase, user, of, booking>>
      BY <1>9 DEF ReadPaid, ReadCancel, ReadStatus, seatVars
    <2>2. \/ stage'[r] = "refused"
          \/ stage'[r] \in {"writePaid", "writeCancel", "writeStatus"} /\ Exists(of[r])
      <3>1. \/ Move(r, "refused")
            \/ /\ Move(r, "writePaid") \/ Move(r, "writeCancel") \/ Move(r, "writeStatus")
               /\ Exists(of[r])
        BY <1>9 DEF ReadPaid, ReadCancel, ReadStatus
      <3> QED
        BY <3>1 DEF Move
    <2> QED
      BY <1>5, <1>6, <2>1, <2>2 DEF Exists
  <1>10. CASE WriteStatus(r) \/ Insert(r)
    <2>1. UNCHANGED <<phase, user>> /\ stage'[r] = "over"
      BY <1>10 DEF WriteStatus, Insert, Move, seatVars
    <2> QED
      BY <1>5, <1>6, <2>1
  <1>11. CASE WritePaid(r) \/ WriteCancel(r)
    <2>1. Exists(of[r]) /\ Lasts(of[r])
      BY <1>1, <1>11 DEF WritePaid, WriteCancel, On, Placed
    <2>2. /\ stage'[r] = "seats" /\ of'[r] = of[r]
          /\ user'[r] = Caller[of[r]] /\ batch'[r] = booking[of[r]].seats
          /\ \/ WritePaid(r) /\ phase'[r] = "book"
             \/ WriteCancel(r) /\ phase'[r] = "unbook"
      <3>1. UNCHANGED of /\ (SeatOperation(r, "book") \/ SeatOperation(r, "unbook"))
        BY <1>11 DEF WritePaid, WriteCancel
      <3>2. /\ stage'[r] = "seats" /\ user'[r] = Caller[of[r]]
            /\ batch'[r] = booking[of[r]].seats
        BY <3>1 DEF SeatOperation, Move
      <3>3. /\ WritePaid(r) => phase'[r] = "book"
            /\ WriteCancel(r) => phase'[r] = "unbook"
        BY DEF WritePaid, WriteCancel, SeatOperation
      <3> QED
        BY <1>11, <3>1, <3>2, <3>3
    <2>3. WritePaid(r) => Confirmed(of[r])'
      <3>1. SUFFICES ASSUME WritePaid(r) PROVE Confirmed(of[r])'
        OBVIOUS
      <3>2. history[of[r]] \in Seq(HistoryEntry)
        BY DEF DealsOK
      <3>3. history'[of[r]] = Append(history[of[r]], [from |-> read[r].status,
                                                     to |-> "CONFIRMED"])
        BY <3>1 DEF WritePaid, Update, DealsOK
      <3>4. /\ Len(history[of[r]]) + 1 \in DOMAIN history'[of[r]]
            /\ history'[of[r]][Len(history[of[r]]) + 1].to = "CONFIRMED"
        BY <3>2, <3>3
      <3> QED
        BY <2>2, <3>4 DEF Confirmed
    <2>4. Exists(of[r])' /\ booking'[of[r]].seats = booking[of[r]].seats
      BY <2>1, <2>2 DEF Lasts, Exists
    <2> QED
      BY <1>1, <1>2, <1>3, <2>2, <2>3, <2>4 DEF Placed, Holds!Selling
  <1> QED
    BY <1>7, <1>8, <1>9, <1>10, <1>11 DEF Step, Deals

LEMMA StepRecords ==
    ASSUME SeatsInv, DealsOK, PlacesInv, NEW r \in Requests, Step(r), NEW b \in Requests
    PROVE  Recorded(b)'
  <1> /\ stage \in [Requests -> Stages] /\ of[r] \in Requests
      /\ history \in [Requests -> Seq(HistoryEntry)]
    BY DEF DealsOK
  <1>1. Recorded(b) /\ Placed(r)
    BY DEF PlacesInv
  <1>2. stage[b] = "over" => stage'[b] = "over"
    <2>1. stage[r] # "over"
      BY DEF Step, Deals, Ask, CreateRead, CheckLock, Insert, InsertThrows,
             ReadPaid, WritePaid, ReadCancel, WriteCancel, ReadStatus, WriteStatus, Fail, On
    <2> QED
      BY <2>1, OthersStay
  <1>3. ASSUME NEW status \in BookingStatus, NEW pay, Update(r, status, pay), Exists(of[r])
        PROVE  Recorded(b)'
    <2>1. CASE b = of[r]
      <3>1. booking'[b] = [status |-> status, pay |-> pay, seats |-> booking[b].seats]
        BY <1>3, <2>1, UpdatedRow
      <3>2. Exists(b)'
        BY <3>1 DEF Exists, NoBooking, BookingStatus
      <3> QED
        BY <1>1, <1>2, <1>3, <2>1, <3>1, <3>2 DEF Recorded
    <2>2. CASE b # of[r]
      <3>1. booking'[b] = booking[b] /\ history'[b] = history[b]
        BY <1>3, <2>2, UpdatedRow DEF Update
      <3> QED
        BY <1>1, <1>2, <3>1 DEF Recorded, Exists
    <2> QED
      BY <2>1, <2>2
  <1>4. CASE UNCHANGED <<booking, history>>
    BY <1>1, <1>2, <1>4 DEF Recorded, Exists
  <1>5. CASE Insert(r)
    <2>1. CASE b = r
      <3>1. booking'[b] = [status |-> "PENDING", pay |-> "UNPAID", seats |-> batch[r]]
        BY <1>5, <2>1 DEF Insert, DealsOK
      <3>2. batch[r] # <<>> /\ stage'[b] = "over"
        BY <1>1, <1>5, <2>1 DEF Insert, Placed, On, Move
      <3> QED
        BY <3>1, <3>2 DEF Recorded, Exists, NoBooking, BookingStatus
    <2>2. CASE b # r
      <3>1. booking'[b] = booking[b] /\ history'[b] = history[b]
        BY <1>5, <2>2 DEF Insert, DealsOK
      <3> QED
        BY <1>1, <1>2, <3>1 DEF Recorded, Exists
    <2> QED
      BY <2>1, <2>2
  <1>6. CASE WritePaid(r) \/ WriteCancel(r)
    BY <1>1, <1>3, <1>6 DEF WritePaid, WriteCancel, BookingStatus, Placed, On
  <1>7. CASE WriteStatus(r)
    <2>1. PICK d \in Deal[r] : d.op = "status" /\ Update(r, d.to, KeptPay(r))
      BY <1>7 DEF WriteStatus
    <2>2. d.to \in BookingStatus
      BY <2>1, DealAssumption
    <2> QED
      BY <1>1, <1>3, <1>7, <2>1, <2>2 DEF WriteStatus, Placed, On
  <1> QED
    BY <1>4, <1>5, <1>6, <1>7 DEF Step, Deals, Ask, CreateRead, CheckLock, InsertThrows,
       ReadPaid, ReadCancel, ReadStatus, Fail

\* A seat operation moves on as SeatHold says, and no request about a booking has a hold.
LEMMA SeatsPlaced ==
    ASSUME SeatsInv, DealsOK, PlacesInv, [Holds!Next]_(Holds!vars), UNCHANGED dealVars,
           NEW r \in Requests
    PROVE  Placed(r)'
  <1> phase \in [Holds!Calls -> Holds!Phases] /\ Requests \subseteq Holds!Calls
    BY SeatTypes
  <1>1. Placed(r)
    BY DEF PlacesInv
  <1>2. UNCHANGED <<user, booking, history, stage, of>>
    BY HoldAssumptions, Holds!UserSteps DEF SeatsInv, dealVars
  <1>3. \/ phase'[r] = phase[r] /\ batch'[r] = batch[r]
        \/ /\ phase[r] = "idle"
           /\ \E a \in Script[r] : phase'[r] \in Holds!Selling => a.op \in {"confirm", "free"}
        \/ /\ phase[r] \in Holds!Selling
           /\ phase'[r] \in (Holds!Selling \ {"book"}) \cup {"ok", "failed"}
           /\ phase'[r] = "convert" => phase[r] = "book" /\ batch'[r] = batch[r]
        \/ /\ phase[r] \notin Holds!Selling \cup Holds!Ended \cup {"idle"}
           /\ phase'[r] \notin Holds!Selling \cup {"idle"}
    BY HoldAssumptions, Holds!OperationSteps DEF SeatsInv
  <1>4. CASE Script[r] # {}
    <2>1. \A a \in Script[r] : a.op \notin {"confirm", "free"}
      BY ScriptAssumption
    <2>2. stage[r] = "idle" /\ phase'[r] \notin Holds!Selling
      BY <1>1, <1>3, <1>4, <2>1 DEF Placed
    <2> QED
      BY <1>1, <1>2, <1>4, <2>2 DEF Placed, Holds!Selling
  <1>5. CASE Script[r] = {}
    <2>1. /\ todo[r] = {} /\ \A s \in Seats : row[r][s] = Holds!NoRow
          /\ phase[r] \in Holds!Selling \cup {"idle", "ok", "failed"}
      BY <1>1, <1>5 DEF Placed
    <2>2. todo'[r] = {}
      BY <2>1, HoldAssumptions, Holds!TodoSteps DEF SeatsInv, Holds!Selling
    <2>3. ASSUME NEW s \in Seats PROVE row'[r][s] = Holds!NoRow
      <3>1. row[r][s].status # "ACTIVE" /\ s \notin todo[r]
        BY <2>1 DEF Holds!NoRow
      <3>2. Holds!RowStep(r, s)
        BY HoldAssumptions, Holds!RowSteps DEF SeatsInv
      <3> QED
        BY <2>1, <3>1, <3>2 DEF Holds!RowStep
    <2>4. \/ phase'[r] = phase[r] /\ batch'[r] = batch[r]
          \/ /\ phase[r] \in Holds!Selling
             /\ phase'[r] \in (Holds!Selling \ {"book"}) \cup {"ok", "failed"}
             /\ phase'[r] = "convert" => phase[r] = "book" /\ batch'[r] = batch[r]
      BY <1>3, <1>5, <2>1 DEF Holds!Ended
    <2>5. stage[r] \in {"readSeats", "checkLocks", "insert"} => batch'[r] # <<>>
      BY <1>1, <1>5, <2>4 DEF Placed, Holds!Selling
    <2> QED
      BY <1>1, <1>2, <1>5, <2>2, <2>3, <2>4, <2>5 DEF Placed, Exists, Confirmed, Holds!Selling
  <1> QED
    BY <1>4, <1>5

LEMMA NextPlacesInv == SeatsInv /\ DealsOK /\ PlacesInv /\ [Next]_vars => PlacesInv'
  <1> SUFFICES ASSUME SeatsInv, DealsOK, PlacesInv, [Next]_vars,
                      NEW q \in Requests
               PROVE  Placed(q)' /\ Recorded(q)'
    BY DEF PlacesInv
  <1> Placed(q) /\ Recorded(q)
    BY DEF PlacesInv
  <1>1. ASSUME NEW r \in Requests, Step(r) PROVE Placed(q)' /\ Recorded(q)'
    <2>1. \A b \in Requests : Lasts(b)
      BY <1>1, BookingsLast
    <2>2. CASE q = r
      BY <1>1, <2>1, <2>2, StepPlaces, StepRecords
    <2>3. CASE q # r
      <3>1. Recorded(q)'
        BY <1>1, StepRecords
      <3>2. /\ stage'[q] = stage[q] /\ of'[q] = of[q] /\ phase'[q] = phase[q]
            /\ batch'[q] = batch[q] /\ user'[q] = user[q] /\ UNCHANGED todo
            /\ \A s \in Seats : row[q][s].status # "ACTIVE" => row'[q][s] = row[q][s]
        BY <1>1, <2>3, OthersStay
      <3> QED
        BY <2>1, <3>1, <3>2, PlacedStays
    <2> QED
      BY <2>2, <2>3
  <1>2. ASSUME [Holds!Next]_(Holds!vars), UNCHANGED dealVars PROVE Placed(q)' /\ Recorded(q)'
    BY <1>2, SeatsPlaced DEF dealVars, Recorded, Exists
  <1>3. ASSUME UNCHANGED seatVars, UNCHANGED dealVars PROVE Placed(q)' /\ Recorded(q)'
    BY <1>2, <1>3 DEF seatVars, Holds!vars, Holds!lockVars, Holds!mapVars
  <1> QED
    BY <1>1, <1>2, <1>3, NextCases DEF TimeToDeparture
-----------------------------------------------------------------------------
(* Types, and the inductive invariant all further proofs start from.       *)

BookingInv == /\ SeatsInv /\ DealsOK /\ PlacesInv /\ ObserversOK
              /\ departure \in {"day", "hours", "gone"}

LEMMA InitBookingInv == Init => BookingInv
  <1> SUFFICES ASSUME Init PROVE BookingInv
    OBVIOUS
  <1> USE DEF Init
  <1>1. SeatsInv
    BY HoldAssumptions, SameInit, Holds!InitTypeInv, Holds!InitRowsInv DEF SeatsInv
  <1>2. DealsOK
    BY DEF DealsOK, NoBooking, BookingRow, PaymentStatus, Stages
  <1>3. ObserversOK
    BY DEF ObserversOK
  <1>4. PlacesInv
    <2> SUFFICES ASSUME NEW r \in Requests PROVE Placed(r) /\ Recorded(r)
      BY DEF PlacesInv
    <2>1. /\ user[r] = Caller[r] /\ phase[r] = "idle" /\ todo[r] = {}
          /\ \A s \in Seats : row[r][s] = Holds!NoRow
      BY DEF Seating!Init, Seating!Calls, Seating!NoRow, Holds!NoRow
    <2> QED
      BY <2>1 DEF Placed, Recorded, Exists, Holds!Selling
  <1> QED
    BY <1>1, <1>2, <1>3, <1>4 DEF BookingInv

LEMMA NextObservers == DealsOK /\ ObserversOK /\ [Next]_vars => ObserversOK'
  <1> SUFFICES ASSUME DealsOK, ObserversOK, [Next]_vars PROVE ObserversOK'
    OBVIOUS
  <1> USE DEF ObserversOK
  <1>1. CASE UNCHANGED vars
    BY <1>1 DEF vars
  <1>2. CASE Next
    <2>1. cover' \in [Requests -> SUBSET Seats]
      BY <1>2 DEF Next, Observe
    <2>2. soldTo' \in [Seats -> SUBSET Requests]
      <3>1. \A r \in Requests : of[r] \in Requests
        BY DEF DealsOK
      <3>2. ASSUME NEW s \in Seats,
                   NEW sales, sales \subseteq Requests
            PROVE  soldTo[s] \cup {of[r] : r \in sales} \in SUBSET Requests
        BY <3>1, <3>2
      <3> QED
        BY <1>2, <3>1, <3>2 DEF Next, Observe
    <2>3. money' \in [Requests -> [paid : Nat, back : Nat]] /\ crossed' \subseteq Requests
      <3>1. CASE UNCHANGED <<money, crossed>>
        BY <3>1
      <3>2. ASSUME NEW r \in Requests,
                   \/ money' = [money EXCEPT ![of[r]].paid = @ + 1]
                   \/ money' = [money EXCEPT ![of[r]].back = @ + read[r].refund],
                   crossed' \subseteq crossed \cup {of[r]}
            PROVE  money' \in [Requests -> [paid : Nat, back : Nat]] /\ crossed' \subseteq Requests
        <4>1. of[r] \in Requests /\ read[r].refund \in Nat /\ money[of[r]].back \in Nat
          <5>1. of[r] \in Requests /\ money \in [Requests -> [paid : Nat, back : Nat]]
            BY DEF DealsOK
          <5>2. money[of[r]] \in [paid : Nat, back : Nat]
            BY <5>1
          <5>3. read[r].refund \in 0 .. 2
            BY DEF DealsOK
          <5> QED
            BY <5>1, <5>2, <5>3
        <4>2. CASE money' = [money EXCEPT ![of[r]].paid = @ + 1]
          BY <3>2, <4>1, <4>2
        <4>3. CASE money' = [money EXCEPT ![of[r]].back = @ + read[r].refund]
          <5>1. money[of[r]].back + read[r].refund \in Nat
            BY <4>1
          <5> QED
            BY <3>2, <4>1, <4>3, <5>1
        <4> QED
          BY <3>2, <4>2, <4>3
      <3> QED
        BY <1>2, <3>1, <3>2 DEF Next, ObserveMoney
    <2> QED
      BY <2>1, <2>2, <2>3
  <1> QED
    BY <1>1, <1>2

LEMMA NextBookingInv == BookingInv /\ [Next]_vars => BookingInv'
  <1>1. BookingInv /\ [Next]_vars => departure' \in {"day", "hours", "gone"}
    BY NextCases DEF BookingInv, Next, vars, TimeToDeparture
  <1> QED
    BY <1>1, NextSeatsInv, NextDeals, NextPlacesInv, NextObservers DEF BookingInv

LEMMA BookingInvariance == Spec => []BookingInv
  BY InitBookingInv, NextBookingInv, PTL DEF Spec

\* Bookings keep to the columns of the schema (schema.prisma:549 to 597), requests to what they
\* are about, and the seats, holds and locks beneath to theirs.
THEOREM TypeCorrect == Spec => []TypeOK
  <1>1. BookingInv => TypeOK
    BY SameTypes DEF BookingInv, TypeOK, SeatsInv, Holds!TypeInv
  <1> QED
    BY <1>1, BookingInvariance, PTL
-----------------------------------------------------------------------------
(* Sales and conversions.                                                  *)

\* Any step leaves the bookings made so far.
LEMMA NextLasts ==
    ASSUME BookingInv, [Next]_vars, NEW b \in Requests
    PROVE  Lasts(b)
  <1>1. CASE UNCHANGED dealVars
    BY <1>1 DEF dealVars, Lasts, Exists, Confirmed
  <1> QED
    BY <1>1, NextCases, BookingsLast DEF BookingInv, TimeToDeparture

\* The seats of the requests' steps are those of the booking.
LEMMA SoldSeats ==
    ASSUME BookingInv, NEW r \in Requests, phase[r] \in {"book", "convert"}
    PROVE  /\ of[r] \in Requests /\ Exists(of[r]) /\ Confirmed(of[r])
           /\ Holds!SeatsOf(r) = SeatsIn(of[r]) /\ user[r] = Caller[of[r]]
  <1>1. Placed(r) /\ of[r] \in Requests
    BY DEF BookingInv, PlacesInv, DealsOK
  <1>2. Script[r] = {} /\ stage[r] = "seats"
    BY <1>1 DEF Placed, Holds!Selling
  <1> QED
    BY <1>1, <1>2 DEF Placed, Holds!SeatsOf, SeatsIn

\* The steps of a booking leave the seats and their locks to the seat operations.
LEMMA SeatsUntouched ==
    ASSUME [Next]_vars, ~UNCHANGED <<seat, lock>>
    PROVE  [Holds!Next]_(Holds!vars) /\ UNCHANGED <<dealVars, departure>>
  <1>1. ASSUME NEW r \in Requests, Step(r) PROVE UNCHANGED <<seat, lock>>
    <2>1. CASE Aside(r)
      BY <2>1, AsideSteps DEF seatVars
    <2>2. CASE Ask(r) \/ Insert(r) \/ WritePaid(r) \/ WriteCancel(r)
      BY <2>2 DEF Ask, Insert, WritePaid, WriteCancel, SeatOperation
    <2> QED
      BY <1>1, <2>1, <2>2, StepCases
  <1> QED
    BY <1>1, NextCases DEF TimeToDeparture, seatVars

\* A seat is sold by a request that has come to confirmSeats, and to nobody else.
LEMMA NewSales ==
    ASSUME BookingInv, [Next]_vars, NEW s \in Seats, seat[s] # "BOOKED", seat'[s] = "BOOKED"
    PROVE  /\ UNCHANGED <<dealVars, departure>>
           /\ \E q \in Requests : Holds!Book(q) /\ s \in Holds!SeatsOf(q)
  <1>1. [Holds!Next]_(Holds!vars) /\ UNCHANGED <<dealVars, departure>>
    BY SeatsUntouched
  <1>2. \A q \in Requests : ~Holds!Unbook(q) /\ ~(Holds!MarkHeld(q) /\ s \in Holds!SeatsOf(q))
    BY DEF Holds!Unbook, Holds!Turn, Holds!MarkHeld
  <1> QED
    BY <1>1, <1>2, HoldAssumptions, Holds!SaleSteps DEF BookingInv, SeatsInv

\* A seat is BOOKED only after a booking of it was confirmed, since confirmAfterPayment writes
\* the booking before it confirms the seats (bookings.service.ts:309, 324).
THEOREM SoldSeatsHavePayers == Spec => []SoldSeatHasPayer
  <1> DEFINE Payer(s, b) == Exists(b) /\ s \in SeatsIn(b) /\ Confirmed(b)
  <1>1. Init => SoldSeatHasPayer
    BY DEF Init, Seating!Init, SoldSeatHasPayer
  <1>2. BookingInv /\ SoldSeatHasPayer /\ [Next]_vars => SoldSeatHasPayer'
    <2> SUFFICES ASSUME BookingInv, SoldSeatHasPayer, [Next]_vars,
                        NEW s \in Seats, seat'[s] = "BOOKED"
                 PROVE  \E b \in Requests : Payer(s, b)'
      BY DEF SoldSeatHasPayer, Confirmed
    <2>1. ASSUME NEW b \in Requests, Payer(s, b) PROVE Payer(s, b)'
      <3>1. Lasts(b)
        BY NextLasts
      <3> QED
        BY <2>1, <3>1 DEF Lasts, SeatsIn, Exists, Confirmed
    <2>2. CASE seat[s] = "BOOKED"
      <3>1. PICK b \in Requests : Payer(s, b)
        BY <2>2 DEF SoldSeatHasPayer, Confirmed
      <3> QED
        BY <2>1, <3>1
    <2>3. CASE seat[s] # "BOOKED"
      <3>1. PICK q \in Requests : Holds!Book(q) /\ s \in Holds!SeatsOf(q)
        BY <2>3, NewSales
      <3>2. of[q] \in Requests /\ Payer(s, of[q])
        BY <3>1, SoldSeats DEF Holds!Book, Holds!At
      <3> QED
        BY <2>1, <3>2
    <2> QED
      BY <2>2, <2>3
  <1> QED
    BY <1>1, <1>2, BookingInvariance, PTL DEF Spec

\* A hold becomes CONVERTED in the creation of its user's booking of the seat
\* (bookings.service.ts:115), or in the confirmation of one (seats.service.ts).
THEOREM ConversionsHaveBookings == Spec => []ConvertedHasBooking
  <1> DEFINE Booked(r, s, b) == Exists(b) /\ Caller[b] = Caller[r] /\ s \in SeatsIn(b)
  <1>1. Init => ConvertedHasBooking
    BY DEF Init, Seating!Init, Seating!NoRow, ConvertedHasBooking
  <1>2. BookingInv /\ ConvertedHasBooking /\ [Next]_vars => ConvertedHasBooking'
    <2> SUFFICES ASSUME BookingInv, ConvertedHasBooking, [Next]_vars,
                        NEW r \in Requests, NEW s \in Seats, row'[r][s].status = "CONVERTED"
                 PROVE  \E b \in Requests : Booked(r, s, b)'
      BY DEF ConvertedHasBooking
    <2>1. ASSUME NEW b \in Requests, Booked(r, s, b) PROVE Booked(r, s, b)'
      <3>1. Lasts(b)
        BY NextLasts
      <3> QED
        BY <2>1, <3>1 DEF Lasts, SeatsIn, Exists
    <2>2. CASE row[r][s].status = "CONVERTED"
      <3>1. PICK b \in Requests : Booked(r, s, b)
        BY <2>2 DEF ConvertedHasBooking
      <3> QED
        BY <2>1, <3>1
    <2>3. ASSUME row[r][s].status = "ACTIVE" PROVE user[r] = Caller[r]
      <3>1. Placed(r) /\ row[r][s] # Holds!NoRow
        BY <2>3 DEF BookingInv, PlacesInv, Holds!NoRow
      <3> QED
        BY <3>1 DEF Placed
    <2>4. CASE /\ row[r][s].status # "CONVERTED"
               /\ [Holds!Next]_(Holds!vars)
      <3>1. Holds!RowStep(r, s)
        BY <2>4, HoldAssumptions, Holds!RowSteps DEF BookingInv, SeatsInv
      <3>2. /\ row[r][s].status = "ACTIVE"
            /\ \E q \in Requests : /\ phase[q] = "convert" /\ user[r] = user[q]
                                   /\ s \in Holds!SeatsOf(q)
        BY <2>4, <3>1 DEF Holds!RowStep
      <3>3. PICK q \in Requests : /\ phase[q] = "convert" /\ user[r] = user[q]
                                  /\ s \in Holds!SeatsOf(q)
        BY <3>2
      <3>4. of[q] \in Requests /\ Booked(r, s, of[q])
        BY <2>3, <3>2, <3>3, SoldSeats
      <3> QED
        BY <2>1, <3>4
    <2>5. CASE /\ row[r][s].status # "CONVERTED"
               /\ \E b \in Requests : Step(b)
      <3>1. PICK b \in Requests : Step(b)
        BY <2>5
      <3>2. Insert(b)
        <4>1. row' # row
          BY <2>5
        <4>2. ~Aside(b)
          BY <4>1, AsideSteps DEF seatVars
        <4> QED
          BY <3>1, <4>1, <4>2, StepCases DEF Ask, WritePaid, WriteCancel, SeatOperation
      <3>3. row'[r][s] = IF <<r, s>> \in Taken(b) THEN [status |-> "CONVERTED", left |-> 0]
                                                  ELSE row[r][s]
        BY <3>2 DEF Insert, Seating!Move
      <3>4. <<r, s>> \in Taken(b)
        BY <2>5, <3>3
      <3>5. row[r][s].status = "ACTIVE" /\ user[r] = user[b] /\ s \in Holds!SeatsOf(b)
        BY <3>4, SameSeats DEF Taken, Seating!RowsOf, Seating!Active
      <3>6. Placed(b) /\ stage[b] = "insert" /\ batch[b] # <<>>
        BY <3>2 DEF BookingInv, PlacesInv, Placed, Insert, On
      <3>7. user[b] = Caller[b]
        BY <3>6 DEF Placed
      <3>8. booking'[b] = [status |-> "PENDING", pay |-> "UNPAID", seats |-> batch[b]]
        BY <3>2 DEF Insert, BookingInv, DealsOK
      <3>9. Exists(b)' /\ s \in SeatsIn(b)'
        BY <3>5, <3>8 DEF Exists, NoBooking, SeatsIn, Holds!SeatsOf
      <3> QED
        BY <2>3, <3>5, <3>7, <3>9
    <2>6. \/ \E b \in Requests : Step(b)
          \/ [Holds!Next]_(Holds!vars)
          \/ UNCHANGED row
      BY NextCases DEF TimeToDeparture, seatVars
    <2> QED
      BY <2>2, <2>4, <2>5, <2>6
  <1> QED
    BY <1>1, <1>2, BookingInvariance, PTL DEF Spec
-----------------------------------------------------------------------------
(* Money.  The inductive invariant: an unpaid booking has seen no money, a *)
(* PAID one has its last payment still to give back; and what a            *)
(* cancellation under way has decided fits the booking it decided on,      *)
(* unless another write came in between.                                   *)

Account(b) ==
    /\ booking[b].pay = "UNPAID" => money[b].paid = 0
    /\ booking[b].pay # "UNPAID" => money[b].paid > 0
    /\ money[b].back <= 2 * money[b].paid
    /\ booking[b].pay = "PAID" => money[b].back <= 2 * (money[b].paid - 1)

Decided(r) ==
    stage[r] = "writeCancel" =>
        IF booking[of[r]].pay = "PAID"
        THEN read[r].pay \in {"REFUNDED", "PARTIALLY_REFUNDED"}
        ELSE read[r].refund = 0 /\ read[r].pay = booking[of[r]].pay

MoneyInv == /\ \A b \in Requests \ crossed : Account(b)
            /\ \A r \in Requests : of[r] \notin crossed => Decided(r)

\* The observer of the money sees the writes of payments and cancellations, and only those.
LEMMA MoneySteps ==
    ASSUME BookingInv, [Next]_vars
    PROVE  \/ /\ UNCHANGED <<money, crossed>>
              /\ [\E r \in Requests : Step(r) /\ ~WritePaid(r) /\ ~WriteCancel(r)]_dealVars
           \/ \E r \in Requests :
                 /\ \/ /\ WritePaid(r)
                       /\ money' = [money EXCEPT ![of[r]].paid = @ + 1]
                    \/ /\ WriteCancel(r)
                       /\ money' = [money EXCEPT ![of[r]].back = @ + read[r].refund]
                 /\ crossed \subseteq crossed'
                 /\ \A q \in Requests \ {r} :
                       of[q] = of[r] /\ stage[q] \in {"writePaid", "writeCancel"}
                          => of[r] \in crossed'
  <1>1. CASE UNCHANGED vars
    BY <1>1 DEF vars
  <1>2. ASSUME Next, UNCHANGED stage PROVE UNCHANGED <<money, crossed>>
    BY <1>2 DEF Next, ObserveMoney, Writes
  <1>3. CASE Next /\ UNCHANGED dealVars
    BY <1>2, <1>3 DEF dealVars
  <1>4. ASSUME Next, NEW r \in Requests, Step(r)
        PROVE  \/ /\ UNCHANGED <<money, crossed>> /\ ~WritePaid(r) /\ ~WriteCancel(r)
               \/ /\ \/ /\ WritePaid(r)
                        /\ money' = [money EXCEPT ![of[r]].paid = @ + 1]
                     \/ /\ WriteCancel(r)
                        /\ money' = [money EXCEPT ![of[r]].back = @ + read[r].refund]
                  /\ crossed \subseteq crossed'
                  /\ \A q \in Requests \ {r} :
                        of[q] = of[r] /\ stage[q] \in {"writePaid", "writeCancel"}
                           => of[r] \in crossed'
    <2>1. \A q \in Requests : Writes(q) => q = r
      BY <1>4, OthersStay DEF Writes, BookingInv
    <2>2. Writes(r) <=> WritePaid(r) \/ WriteCancel(r)
      <3>1. stage \in [Requests -> Stages]
        BY DEF BookingInv, DealsOK
      <3>2. WritePaid(r) \/ WriteCancel(r) => Writes(r)
        BY <3>1 DEF WritePaid, WriteCancel, SeatOperation, Move, On, Writes
      <3>3. ASSUME Writes(r) PROVE WritePaid(r) \/ WriteCancel(r)
        BY <1>4, <3>1, <3>3
           DEF Writes, Step, Deals, Ask, CreateRead, CheckLock, Insert, InsertThrows, ReadPaid,
               ReadCancel, ReadStatus, WriteStatus, Fail, Move, On
      <3> QED
        BY <3>2, <3>3
    <2>3. CASE ~Writes(r)
      BY <1>4, <2>1, <2>2, <2>3 DEF Next, ObserveMoney
    <2>4. CASE Writes(r)
      <3>1. /\ money' = IF On(r, "writePaid") THEN [money EXCEPT ![of[r]].paid = @ + 1]
                        ELSE [money EXCEPT ![of[r]].back = @ + read[r].refund]
            /\ crossed' = IF \E q \in Requests \ {r} :
                              of[q] = of[r] /\ stage[q] \in {"writePaid", "writeCancel"}
                          THEN crossed \cup {of[r]} ELSE crossed
        BY <1>4, <2>1, <2>4 DEF Next, ObserveMoney
      <3>2. On(r, "writePaid") <=> WritePaid(r)
        BY <2>2, <2>4 DEF WritePaid, WriteCancel, On
      <3> QED
        BY <2>2, <2>4, <3>1, <3>2
    <2> QED
      BY <2>3, <2>4
  <1> QED
    BY <1>1, <1>3, <1>4, NextCases DEF Next, TimeToDeparture

\* No other step changes the paymentStatus of a booking.
LEMMA PayStays ==
    ASSUME BookingInv, NEW r \in Requests, Step(r), ~WritePaid(r), ~WriteCancel(r),
           NEW b \in Requests
    PROVE  booking'[b].pay = booking[b].pay
  <1> /\ booking \in [Requests -> BookingRow] /\ of[r] \in Requests
    BY DEF BookingInv, DealsOK
  <1>1. CASE Insert(r)
    <2>1. ~Exists(r)
      BY <1>1 DEF Insert, On, BookingInv, PlacesInv, Recorded
    <2>2. booking[r].pay = "UNPAID"
      BY <2>1 DEF Exists, NoBooking
    <2> QED
      BY <1>1, <2>2 DEF Insert
  <1>2. CASE WriteStatus(r)
    <2>1. PICK d \in Deal[r] : Update(r, d.to, KeptPay(r))
      BY <1>2 DEF WriteStatus
    <2>2. \/ booking'[b] = booking[b]
          \/ /\ b = of[r]
             /\ booking'[b] = [status |-> d.to, pay |-> KeptPay(r), seats |-> booking[b].seats]
      BY <2>1, UpdatedRow DEF BookingInv
    <2> QED
      BY <2>2 DEF KeptPay
  <1>3. CASE UNCHANGED booking
    BY <1>3
  <1> QED
    BY <1>1, <1>2, <1>3 DEF Step, Deals, Ask, CreateRead, CheckLock, InsertThrows,
       ReadPaid, ReadCancel, ReadStatus, Fail

LEMMA NextMoneyInv == BookingInv /\ MoneyInv /\ [Next]_vars => MoneyInv'
  <1> SUFFICES ASSUME BookingInv, MoneyInv, [Next]_vars PROVE MoneyInv'
    OBVIOUS
  <1> /\ of \in [Requests -> Requests] /\ stage \in [Requests -> Stages]
      /\ booking \in [Requests -> BookingRow]
      /\ money \in [Requests -> [paid : Nat, back : Nat]]
      /\ \A r \in Requests : read[r].refund \in 0 .. 2
    BY DEF BookingInv, DealsOK, ObserversOK
  <1>1. ASSUME UNCHANGED <<money, crossed>>, UNCHANGED dealVars PROVE MoneyInv'
    BY <1>1 DEF MoneyInv, Account, Decided, dealVars
  <1>2. ASSUME UNCHANGED <<money, crossed>>, NEW r \in Requests, Step(r), ~WritePaid(r),
               ~WriteCancel(r)
        PROVE  MoneyInv'
    <2>1. \A b \in Requests : booking'[b].pay = booking[b].pay
      BY <1>2, PayStays
    <2>2. \A b \in Requests \ crossed' : Account(b)'
      BY <1>2, <2>1 DEF MoneyInv, Account
    <2>3. ASSUME NEW q \in Requests, of'[q] \notin crossed', stage'[q] = "writeCancel"
          PROVE  Decided(q)'
      <3>1. CASE q # r
        <4>1. /\ of'[q] = of[q] /\ read'[q] = read[q] /\ stage'[q] = stage[q]
          BY <1>2, <3>1, OthersStay DEF BookingInv
        <4>2. Decided(q) /\ of[q] \in Requests
          BY <1>2, <2>3, <4>1 DEF MoneyInv
        <4> QED
          BY <2>1, <2>3, <4>1, <4>2 DEF Decided
      <3>2. CASE q = r
        <4>1. ReadCancel(r)
          <5>1. ~Ask(r)
            <6>1. Ask(r) => \/ Move(r, "readSeats") \/ Move(r, "readPaid")
                            \/ Move(r, "readCancel") \/ Move(r, "readStatus")
              BY DealAssumption DEF Ask
            <6> QED
              BY <2>3, <3>2, <6>1 DEF Move
          <5>2. ~CreateRead(r) /\ ~CheckLock(r) /\ ~Insert(r) /\ ~InsertThrows(r) /\ ~Fail(r)
            BY <2>3, <3>2 DEF CreateRead, CheckLock, Insert, InsertThrows, Fail, Move, On
          <5>3. ~ReadPaid(r) /\ ~ReadStatus(r) /\ ~WriteStatus(r)
            BY <2>3, <3>2 DEF ReadPaid, ReadStatus, WriteStatus, Move
          <5> QED
            BY <1>2, <5>1, <5>2, <5>3 DEF Step, Deals
        <4>2. /\ Snapshot(r, PayAfter(of[r]), Refund(of[r])) /\ UNCHANGED <<of, booking>>
          BY <2>3, <3>2, <4>1 DEF ReadCancel, Move
        <4>3. read'[r].pay = PayAfter(of[r]) /\ read'[r].refund = Refund(of[r])
          BY <4>2 DEF Snapshot, BookingInv, DealsOK
        <4>4. IF booking[of[r]].pay = "PAID"
              THEN PayAfter(of[r]) \in {"REFUNDED", "PARTIALLY_REFUNDED"}
              ELSE Refund(of[r]) = 0 /\ PayAfter(of[r]) = booking[of[r]].pay
          BY DEF PayAfter, Refund
        <4> QED
          BY <3>2, <4>2, <4>3, <4>4 DEF Decided
      <3> QED
        BY <3>1, <3>2
    <2> QED
      BY <2>2, <2>3 DEF MoneyInv, Decided
  <1>3. ASSUME NEW r \in Requests, WritePaid(r) \/ WriteCancel(r),
               \/ /\ WritePaid(r)
                  /\ money' = [money EXCEPT ![of[r]].paid = @ + 1]
               \/ /\ WriteCancel(r)
                  /\ money' = [money EXCEPT ![of[r]].back = @ + read[r].refund],
               crossed \subseteq crossed',
               \A q \in Requests \ {r} :
                  of[q] = of[r] /\ stage[q] \in {"writePaid", "writeCancel"} => of[r] \in crossed'
        PROVE  MoneyInv'
    <2>1. Step(r) /\ UNCHANGED <<of, read>> /\ stage'[r] = "seats" /\ of[r] \in Requests
      BY <1>3 DEF Step, Deals, WritePaid, WriteCancel, SeatOperation, Move
    <2>2. ASSUME NEW b \in Requests \ {of[r]}
          PROVE  booking'[b] = booking[b] /\ money'[b] = money[b]
      BY <1>3, <2>1, <2>2, UpdatedRow DEF WritePaid, WriteCancel, BookingInv
    <2>3. ASSUME of[r] \notin crossed' PROVE Account(of[r])'
      <3>1. /\ Account(of[r]) /\ Decided(r) /\ of'[r] = of[r]
            /\ money[of[r]] \in [paid : Nat, back : Nat] /\ read[r].refund \in 0 .. 2
        BY <1>3, <2>1, <2>3 DEF MoneyInv
      <3>2. CASE WritePaid(r)
        <4>1. booking'[of[r]].pay = "PAID"
          <5>1. Update(r, "CONFIRMED", "PAID") /\ DealsOK
            BY <3>2 DEF WritePaid, BookingInv
          <5>2. booking'[of[r]] = [status |-> "CONFIRMED", pay |-> "PAID",
                                   seats |-> booking[of[r]].seats]
            BY <2>1, <5>1, UpdatedRow
          <5> QED
            BY <5>2
        <4>2. money'[of[r]].paid = money[of[r]].paid + 1 /\ money'[of[r]].back = money[of[r]].back
          BY <1>3, <2>1, <3>1, <3>2 DEF WritePaid, WriteCancel, On
        <4> QED
          BY <3>1, <4>1, <4>2 DEF Account
      <3>3. CASE WriteCancel(r)
        <4>1. booking'[of[r]].pay = read[r].pay /\ stage[r] = "writeCancel"
          <5>1. Update(r, "CANCELLED", read[r].pay) /\ DealsOK /\ stage[r] = "writeCancel"
            BY <3>3 DEF WriteCancel, BookingInv, On
          <5>2. booking'[of[r]] = [status |-> "CANCELLED", pay |-> read[r].pay,
                                   seats |-> booking[of[r]].seats]
            BY <2>1, <5>1, UpdatedRow
          <5> QED
            BY <5>1, <5>2
        <4>2. /\ money'[of[r]].paid = money[of[r]].paid
              /\ money'[of[r]].back = money[of[r]].back + read[r].refund
          BY <1>3, <2>1, <3>1, <3>3 DEF WritePaid, WriteCancel, On
        <4> QED
          BY <3>1, <4>1, <4>2 DEF Account, Decided
      <3> QED
        BY <1>3, <3>2, <3>3
    <2>4. ASSUME NEW b \in Requests \ crossed' PROVE Account(b)'
      <3>1. CASE b = of[r]
        BY <2>1, <2>3, <2>4, <3>1 DEF Account
      <3>2. CASE b # of[r]
        <4>1. Account(b) /\ booking'[b] = booking[b] /\ money'[b] = money[b]
          BY <1>3, <2>2, <2>4, <3>2 DEF MoneyInv
        <4> QED
          BY <4>1 DEF Account
      <3> QED
        BY <3>1, <3>2
    <2>5. ASSUME NEW q \in Requests, of'[q] \notin crossed', stage'[q] = "writeCancel"
          PROVE  Decided(q)'
      <3>1. q # r /\ stage[q] = "writeCancel" /\ of'[q] = of[q] /\ of[q] \in Requests
        BY <2>1, <2>5, OthersStay DEF BookingInv
      <3>2. of[q] # of[r] /\ Decided(q)
        BY <1>3, <2>5, <3>1 DEF MoneyInv
      <3> QED
        BY <2>1, <2>2, <3>1, <3>2 DEF Decided
    <2> QED
      BY <2>4, <2>5 DEF MoneyInv, Decided
  <1> QED
    BY <1>1, <1>2, <1>3, MoneySteps

LEMMA MoneyInvariance == Spec => [](BookingInv /\ MoneyInv)
  <1>1. Init => MoneyInv
    BY DEF Init, MoneyInv, Account, Decided, NoBooking
  <1> QED
    BY <1>1, InitBookingInv, NextBookingInv, NextMoneyInv, PTL DEF Spec

\* BR-PF-003: no chain of payments, cancellations and status changes promises back more than
\* was paid (bookings.service.ts:228), as long as no two writes of a booking cross.
THEOREM RefundsStayWithinPayments == Spec => []RefundsWithinPayments
  <1>1. MoneyInv => RefundsWithinPayments
    BY DEF MoneyInv, Account, RefundsWithinPayments
  <1> QED
    BY <1>1, MoneyInvariance, PTL

\* Nor does any such chain lose or invent a payment, updateStatus included
\* (bookings.service.ts:277).
THEOREM PaymentsStayOnRecord == Spec => []PaymentOnRecord
  <1>1. BookingInv /\ MoneyInv => PaymentOnRecord
    <2>1. BookingInv => \A b \in Requests : money[b].paid \in Nat
      BY DEF BookingInv, ObserversOK
    <2> QED
      BY <2>1 DEF MoneyInv, Account, PaymentOnRecord
  <1> QED
    BY <1>1, MoneyInvariance, PTL
-----------------------------------------------------------------------------
(* Sales under the lock.  A booking that covers a seat has the seat's lock *)
(* and so no other user's booking covers it; and as long as a seat stays   *)
(* BOOKED nobody comes to cover it but by having read it before.           *)

CoverInv ==
    /\ \A b \in Requests : \A s \in cover[b] : lock[s].holder = Caller[b]
    /\ \A s \in Seats : seat[s] # "BOOKED" => soldTo[s] = {}
    /\ \A s \in Seats, b, c \in Requests :
          b \in soldTo[s] /\ s \in cover[c] => Caller[b] = Caller[c]

\* Only a Redis command or the clock changes a lock, and neither moves a request on.
LEMMA LocksApart ==
    ASSUME BookingInv, [Next]_vars, ~UNCHANGED lock
    PROVE  UNCHANGED phase
  <1>1. [Holds!Next]_(Holds!vars)
    BY SeatsUntouched
  <1>2. \/ Holds!Tick
        \/ \E c \in Holds!Calls : Holds!LockStep(c)
    BY <1>1, HoldAssumptions, Holds!StepsOfLocks
  <1> QED
    BY <1>2 DEF Holds!Tick, Holds!LockStep

\* A booking comes to cover a seat only by reading it while it is not BOOKED.
LEMMA CoverSteps ==
    ASSUME BookingInv, CoverInv, Next, NEW c \in Requests, NEW s \in cover'[c]
    PROVE  s \in Seats /\ (s \in cover[c] \/ seat[s] # "BOOKED")
  <1>1. /\ s \in Seats
        /\ \/ s \in cover[c]
           \/ stage[c] = "readSeats" /\ stage'[c] = "checkLocks" /\ s \in Seating!SeatsOf(c)
    BY DEF Next, Observe, BookingInv, ObserversOK
  <1>2. ASSUME stage[c] = "readSeats", stage'[c] = "checkLocks" PROVE CreateRead(c)
    <2>1. Step(c)
      <3>1. stage' # stage
        BY <1>2
      <3>2. PICK r \in Requests : Step(r)
        BY <3>1, NextCases DEF TimeToDeparture, dealVars
      <3>3. r = c
        BY <1>2, <3>2, OthersStay DEF BookingInv
      <3> QED
        BY <3>2, <3>3
    <2>2. ~Fail(c)
      BY <1>2 DEF Fail, Move, BookingInv, DealsOK
    <2> QED
      BY <1>2, <2>1, <2>2
         DEF Step, Deals, Ask, CheckLock, Insert, InsertThrows, ReadPaid, WritePaid, ReadCancel,
             WriteCancel, ReadStatus, WriteStatus, On
  <1>3. ASSUME stage'[c] = "checkLocks", CreateRead(c) PROVE ~SoldOut(c)
    BY <1>3 DEF CreateRead, Move, BookingInv, DealsOK
  <1> QED
    BY <1>1, <1>2, <1>3 DEF SoldOut

\* A booking to which a seat is sold either was sold it before, or covers it now, under the
\* lock that the seat still has after the step.
LEMMA SoldToSteps ==
    ASSUME BookingInv, CoverInv, Next, NEW s \in Seats, NEW b \in soldTo'[s]
    PROVE  /\ b \in Requests /\ seat'[s] = "BOOKED"
           /\ \/ b \in soldTo[s] /\ seat[s] = "BOOKED"
              \/ s \in cover[b] /\ lock'[s].holder = Caller[b]
  <1>1. /\ seat'[s] = "BOOKED"
        /\ \/ b \in soldTo[s]
           \/ \E q \in Requests : /\ b = of[q] /\ phase[q] = "book" /\ phase'[q] = "convert"
                                  /\ s \in cover[of[q]]
    BY DEF Next, Observe
  <1>2. CASE b \in soldTo[s]
    BY <1>1, <1>2 DEF CoverInv, BookingInv, ObserversOK
  <1>3. CASE b \notin soldTo[s]
    <2>1. PICK q \in Requests : /\ b = of[q] /\ phase[q] = "book" /\ phase'[q] = "convert"
                                /\ s \in cover[of[q]]
      BY <1>1, <1>3
    <2>2. UNCHANGED lock
      BY <2>1, LocksApart
    <2>3. b \in Requests
      BY <2>1 DEF BookingInv, DealsOK
    <2> QED
      BY <1>1, <2>1, <2>2, <2>3 DEF CoverInv
  <1> QED
    BY <1>2, <1>3

LEMMA NextCoverInv ==
    BookingInv /\ CoverInv /\ SaleUnderLockIsExclusive /\ [Next]_vars
        => CoverInv' /\ SaleUnderLockIsExclusive'
  <1> SUFFICES ASSUME BookingInv, CoverInv, SaleUnderLockIsExclusive, Next
               PROVE  CoverInv' /\ SaleUnderLockIsExclusive'
    BY DEF CoverInv, SaleUnderLockIsExclusive, vars, seatVars
  <1>1. \A b \in Requests : \A s \in cover'[b] : lock'[s].holder = Caller[b]
    BY DEF Next, Observe
  <1>2. \A s \in Seats : seat'[s] # "BOOKED" => soldTo'[s] = {}
    BY DEF Next, Observe
  <1>3. ASSUME NEW s \in Seats, NEW b \in soldTo'[s], NEW c \in Requests, s \in cover'[c]
        PROVE  Caller[b] = Caller[c]
    <2>1. lock'[s].holder = Caller[c] /\ (s \in cover[c] \/ seat[s] # "BOOKED")
      BY <1>1, <1>3, CoverSteps
    <2>2. \/ b \in soldTo[s] /\ seat[s] = "BOOKED" /\ b \in Requests
          \/ lock'[s].holder = Caller[b]
      BY <1>3, SoldToSteps
    <2> QED
      BY <1>3, <2>1, <2>2 DEF CoverInv
  <1>4. ASSUME NEW s \in Seats, NEW b \in soldTo'[s], NEW c \in soldTo'[s]
        PROVE  Caller[b] = Caller[c]
    <2>1. /\ b \in Requests
          /\ \/ b \in soldTo[s]
             \/ s \in cover[b] /\ lock'[s].holder = Caller[b]
      BY <1>4, SoldToSteps
    <2>2. /\ c \in Requests
          /\ \/ c \in soldTo[s]
             \/ s \in cover[c] /\ lock'[s].holder = Caller[c]
      BY <1>4, SoldToSteps
    <2>3. CASE b \in soldTo[s] /\ c \in soldTo[s]
      BY <2>3 DEF SaleUnderLockIsExclusive
    <2>4. CASE b \in soldTo[s] /\ s \in cover[c]
      BY <2>1, <2>2, <2>4 DEF CoverInv
    <2>5. CASE s \in cover[b] /\ c \in soldTo[s]
      BY <2>1, <2>2, <2>5 DEF CoverInv
    <2> QED
      BY <2>1, <2>2, <2>3, <2>4, <2>5
  <1>5. \A s \in Seats, b, c \in Requests :
           b \in soldTo'[s] /\ s \in cover'[c] => Caller[b] = Caller[c]
    BY <1>3
  <1> QED
    BY <1>1, <1>2, <1>4, <1>5 DEF CoverInv, SaleUnderLockIsExclusive

\* Two users who each kept the lock of a seat from the status check of their booking to the
\* sale are never both sold the seat, between two cancellations of it: whatever the sweeps,
\* the clock and the users' other requests do.
THEOREM SalesUnderLockAreExclusive == Spec => []SaleUnderLockIsExclusive
  <1>1. Init => CoverInv /\ SaleUnderLockIsExclusive
    BY DEF Init, CoverInv, SaleUnderLockIsExclusive
  <1> QED
    BY <1>1, NextCoverInv, BookingInvariance, PTL DEF Spec
=============================================================================
