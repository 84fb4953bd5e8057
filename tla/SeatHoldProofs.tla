--------------------------- MODULE SeatHoldProofs ---------------------------
(***************************************************************************)
(* What holds of SeatHold for any number of seats, users, requests and     *)
(* sweeps, for seat lists of any length and any times to live.  What the   *)
(* locks promise is taken from SeatLockProofs.                             *)
(***************************************************************************)
EXTENDS SeatHold, FiniteSetTheorems, TLAPS

LockService == INSTANCE SeatLockProofs WITH Batches <- {}
-----------------------------------------------------------------------------
(* What SeatLockProofs proves of the locks, in the words of SeatHold.      *)

LEMMA LockAssumptions ==
    /\ LockService!LockTTLAssumption /\ LockService!NoOneAssumption
    /\ LockService!MaxSeatsAssumption /\ LockService!BatchesAssumption
  BY TTLAssumption, MaxSeatsAssumption, NoOneAssumption
     DEF LockService!LockTTLAssumption, LockService!NoOneAssumption, Calls,
         LockService!MaxSeatsAssumption, LockService!BatchesAssumption

LEMMA SameTypes == Locks!TypeOK <=> LockService!TypeOK
  BY DEF Locks!TypeOK, Locks!KeysOK, Locks!Key, Locks!Absent, Locks!CallsOK,
         Locks!LeasesOK, Locks!Working, Locks!Over,
         LockService!TypeOK, LockService!KeysOK, LockService!Key, LockService!Absent,
         LockService!CallsOK, LockService!LeasesOK, LockService!Working, LockService!Over

LEMMA SameLeases == Locks!LeaseBacked <=> LockService!LeaseBacked
  BY DEF Locks!LeaseBacked, Locks!Holder, LockService!LeaseBacked, LockService!Holder

LEMMA SameSteps == \A c : Locks!Step(c) <=> LockService!Step(c)
  <1> SUFFICES ASSUME NEW c PROVE Locks!Step(c) <=> LockService!Step(c)
    OBVIOUS
  <1> USE DEF Locks!SeatOf, Locks!Goto, Locks!NextSeat, Locks!LeaseEnds, Locks!LeasesUnchanged,
              Locks!callVars, Locks!IsFree, Locks!Holder, Locks!SetEx, Locks!Written,
              Locks!DeleteIfHeldBy, Locks!Absent,
              LockService!SeatOf, LockService!Goto, LockService!NextSeat,
              LockService!LeaseEnds, LockService!LeasesUnchanged, LockService!callVars,
              LockService!IsFree, LockService!Holder, LockService!SetEx,
              LockService!Written, LockService!DeleteIfHeldBy, LockService!Absent
  <1>1. Locks!AcquireNext(c) <=> LockService!AcquireNext(c)
    BY DEF Locks!AcquireNext, Locks!SetNX, LockService!AcquireNext, LockService!SetNX
  <1>2. Locks!AcquireRefused(c) <=> LockService!AcquireRefused(c)
    BY DEF Locks!AcquireRefused, Locks!AfterRefusal,
           LockService!AcquireRefused, LockService!AfterRefusal
  <1>3. Locks!Rollback(c) <=> LockService!Rollback(c)
    BY DEF Locks!Rollback, Locks!LastTaken, Locks!Contract!End,
           LockService!Rollback, LockService!LastTaken, LockService!Contract!End
  <1>4. Locks!ReleaseNext(c) <=> LockService!ReleaseNext(c)
    BY DEF Locks!ReleaseNext, Locks!Contract!End,
           LockService!ReleaseNext, LockService!Contract!End
  <1>5. Locks!ExtendGet(c) <=> LockService!ExtendGet(c)
    BY DEF Locks!ExtendGet, LockService!ExtendGet
  <1>6. Locks!ExtendSet(c) <=> LockService!ExtendSet(c)
    BY DEF Locks!ExtendSet, LockService!ExtendSet
  <1>7. Locks!SweepGet(c) <=> LockService!SweepGet(c)
    BY DEF Locks!SweepGet, Locks!NothingToRelease,
           LockService!SweepGet, LockService!NothingToRelease
  <1>8. Locks!SweepDel(c) <=> LockService!SweepDel(c)
    BY DEF Locks!SweepDel, Locks!Contract!End,
           LockService!SweepDel, LockService!Contract!End
  <1> QED
    BY <1>1, <1>2, <1>3, <1>4, <1>5, <1>6, <1>7, <1>8 DEF Locks!Step, LockService!Step

LEMMA SameTick == Locks!Tick <=> LockService!Tick
  BY DEF Locks!Tick, Locks!ExpireKeys, Locks!Absent, Locks!Contract!Tick, Locks!callVars,
         LockService!Tick, LockService!ExpireKeys, LockService!Absent,
         LockService!Contract!Tick, LockService!callVars

\* A Redis command of a call, or the time.
LockMoves == Locks!Tick \/ \E c \in Calls : Locks!Step(c)

LEMMA LockMovesKeepTypes == Locks!TypeOK /\ LockMoves => Locks!TypeOK'
  <1>1. LockMoves => LockService!Next
    BY SameSteps, SameTick DEF LockMoves, LockService!Next
  <1>2. LockService!TypeOK /\ LockService!Next => LockService!TypeOK'
    BY LockAssumptions, LockService!NextTypeOK
  <1>3. Locks!TypeOK' <=> LockService!TypeOK'
    BY DEF Locks!TypeOK, Locks!KeysOK, Locks!Key, Locks!Absent, Locks!CallsOK,
         Locks!LeasesOK, Locks!Working, Locks!Over,
         LockService!TypeOK, LockService!KeysOK, LockService!Key, LockService!Absent,
         LockService!CallsOK, LockService!LeasesOK, LockService!Working, LockService!Over
  <1> QED
    BY <1>1, <1>2, <1>3, SameTypes

LEMMA LockMovesKeepLeases ==
    Locks!TypeOK /\ Locks!LeaseBacked /\ LockMoves => Locks!LeaseBacked'
  <1>1. LockMoves => LockService!Next
    BY SameSteps, SameTick DEF LockMoves, LockService!Next
  <1>2. /\ LockService!TypeOK /\ LockService!LeaseBacked /\ LockService!Next
        => LockService!LeaseBacked'
    BY LockAssumptions, LockService!NextLeaseBacked
  <1>3. Locks!LeaseBacked' <=> LockService!LeaseBacked'
    BY DEF Locks!LeaseBacked, Locks!Holder, LockService!LeaseBacked, LockService!Holder
  <1> QED
    BY <1>1, <1>2, <1>3, SameTypes, SameLeases

LEMMA LockMovesKeepContract ==
    Locks!TypeOK /\ Locks!LeaseBacked /\ LockMoves
        => Locks!Contract!Next \/ UNCHANGED <<lease, robbed>>
  <1>1. LockMoves => LockService!Next
    BY SameSteps, SameTick DEF LockMoves, LockService!Next
  <1>2. /\ LockService!TypeOK /\ LockService!LeaseBacked /\ LockService!Next
        => LockService!Contract!Next \/ UNCHANGED LockService!Contract!vars
    BY LockAssumptions, LockService!NextContract
  <1>3. LockService!Contract!Next => Locks!Contract!Next
    BY DEF LockService!Contract!Next, LockService!Contract!Grant, LockService!Contract!Extend,
           LockService!Contract!End, LockService!Contract!Tick, LockService!Contract!Rivals,
           LockService!Contract!Live,
           Locks!Contract!Next, Locks!Contract!Grant, Locks!Contract!Extend,
           Locks!Contract!End, Locks!Contract!Tick, Locks!Contract!Rivals,
           Locks!Contract!Live
  <1> QED
    BY <1>1, <1>2, <1>3, SameTypes, SameLeases DEF LockService!Contract!vars
-----------------------------------------------------------------------------
(* The inductive invariant for the types.                                  *)

HoldRows == [status : HoldStatus \cup {"NONE"}, left : 0 .. HoldTTL]

\* TypeOK without the locks.
TablesOK ==
    /\ seat \in [Seats -> SeatStatus]
    /\ row \in [Requests -> [Seats -> HoldRows]]
    /\ phase \in [Calls -> Phases]
    /\ todo \in [Requests -> SUBSET Seats]
    /\ promise \in [Requests -> 0 .. HoldTTL]
    /\ available \in Int
    /\ overtaken \in [Requests -> SUBSET Seats]
    /\ shown \in [Requests -> [Seats -> SeatStatus]]
    /\ unread \in [Requests -> SUBSET Seats]
    /\ taken \in [Requests -> SUBSET Seats]

\* Where a call stands among SeatHold's steps says where it may be among SeatLock's,
\* and that it has seats before it asks for a lock operation on them.
Stands(c) ==
    /\ phase[c] \in {"idle", "readSeats", "book", "convert", "unbook", "countUp",
                     "readMap", "lookUp", "expire", "freeSwept"} => pc[c] = "idle"
    /\ phase[c] = "locking" => pc[c] \in {"acquire", "rollback", "granted", "refused"}
    /\ phase[c] \in {"undo", "unlock", "unlockBooked"} => pc[c] \in {"release", "done"}
    /\ phase[c] = "extending" => pc[c] \in {"extendGet", "extendSet", "granted", "lost"}
    /\ phase[c] = "sweeping" => pc[c] \in {"sweepGet", "sweepDel", "done"}
    /\ phase[c] \in {"dropOld", "create", "mark", "extendRows", "freeSeats"} \cup Ended
          => pc[c] \in {"idle", "granted", "done"}
    /\ phase[c] \in {"readSeats", "book", "convert", "expire", "freeSwept"} \cup Holding
          => batch[c] # <<>>

Standing == \A c \in Calls : Stands(c)

TypeInv == TypeOK /\ Standing

LEMMA TypeParts == TypeOK <=> Locks!TypeOK /\ TablesOK
  BY DEF TypeOK, TablesOK, HoldRows

LEMMA InitTypeInv == Init => TypeInv
  <1> SUFFICES ASSUME Init PROVE TypeInv
    OBVIOUS
  <1>1. Locks!TypeOK
    <2>1. LockService!Init
      BY DEF Init, Locks!Init, LockService!Init, Locks!NoKey, Locks!Absent, LockService!NoKey,
             LockService!Absent, Locks!Contract!Init, LockService!Contract!Init
    <2> QED
      BY <2>1, LockAssumptions, LockService!InitTypeOK, SameTypes
  <1>2. TablesOK
    <2>1. Cardinality(Seats) \in Int
      BY FiniteAssumption, FS_CardinalityType
    <2> QED
      BY <2>1, TTLAssumption DEF Init, TablesOK, SeatStatus, HoldStatus, HoldRows, NoRow, Phases
  <1>3. Standing
    BY DEF Init, Locks!Init, Standing, Stands, Holding, Ended
  <1> QED
    BY <1>1, <1>2, <1>3, TypeParts DEF TypeInv
-----------------------------------------------------------------------------
(* The calls' variables of SeatLock under the steps of SeatHold.           *)

\* A Redis command moves its call on within its lock operation.
LEMMA LockStepMoves ==
    ASSUME Locks!TypeOK, NEW c \in Calls, Locks!Step(c)
    PROVE  /\ UNCHANGED <<user, batch>>
           /\ \A d \in Calls \ {c} : pc'[d] = pc[d]
           /\ \/ pc[c] = "acquire" /\ pc'[c] \in {"acquire", "granted", "rollback", "refused"}
              \/ pc[c] = "rollback" /\ pc'[c] \in {"rollback", "refused"}
              \/ pc[c] = "release" /\ pc'[c] \in {"release", "done"}
              \/ pc[c] = "extendGet" /\ pc'[c] \in {"extendSet", "lost"}
              \/ pc[c] = "extendSet" /\ pc'[c] \in {"extendGet", "granted"}
              \/ pc[c] = "sweepGet" /\ pc'[c] \in {"sweepGet", "sweepDel", "done"}
              \/ pc[c] = "sweepDel" /\ pc'[c] \in {"sweepGet", "done"}
  <1> USE DEF Locks!TypeOK, Locks!CallsOK, Locks!NextSeat, Locks!Goto, Locks!callVars
  <1>1. CASE Locks!AcquireNext(c)
    BY <1>1 DEF Locks!AcquireNext
  <1>2. CASE Locks!AcquireRefused(c)
    BY <1>2 DEF Locks!AcquireRefused, Locks!AfterRefusal
  <1>3. CASE Locks!Rollback(c)
    BY <1>3 DEF Locks!Rollback
  <1>4. CASE Locks!ReleaseNext(c)
    BY <1>4 DEF Locks!ReleaseNext
  <1>5. CASE Locks!ExtendGet(c)
    BY <1>5 DEF Locks!ExtendGet
  <1>6. CASE Locks!ExtendSet(c)
    BY <1>6 DEF Locks!ExtendSet
  <1>7. CASE Locks!SweepGet(c)
    BY <1>7 DEF Locks!SweepGet
  <1>8. CASE Locks!SweepDel(c)
    BY <1>8 DEF Locks!SweepDel
  <1> QED
    BY <1>1, <1>2, <1>3, <1>4, <1>5, <1>6, <1>7, <1>8 DEF Locks!Step

LEMMA LockCallTypes ==
    ASSUME Locks!TypeOK, NEW c \in Calls, NEW b \in Seq(Seats) \ {<<>>},
           NEW w \in {"acquire", "release", "extendGet", "sweepGet", "refused"},
           LockCall(c, b, w)
    PROVE  Locks!TypeOK'
  <1>1. Locks!KeysOK' /\ Locks!LeasesOK'
    BY DEF LockCall, Locks!TypeOK, Locks!KeysOK, Locks!LeasesOK
  <1>2. Locks!CallsOK'
    BY DEF LockCall, Locks!TypeOK, Locks!CallsOK, Locks!Working, Locks!Over
  <1> QED
    BY <1>1, <1>2 DEF Locks!TypeOK

LEMMA BreakOffTypes ==
    ASSUME Locks!TypeOK, NEW c \in Calls, BreakOff(c)
    PROVE  Locks!TypeOK'
  <1>1. Locks!KeysOK' /\ Locks!LeasesOK'
    BY DEF BreakOff, Locks!TypeOK, Locks!KeysOK, Locks!LeasesOK
  <1>2. Locks!CallsOK'
    BY DEF BreakOff, Locks!TypeOK, Locks!CallsOK, Locks!Working, Locks!Over
  <1> QED
    BY <1>1, <1>2 DEF Locks!TypeOK

\* A call that is in no lock operation gets other seats.
LEMMA BatchTypes ==
    ASSUME Locks!TypeOK, NEW c \in Calls, NEW b \in Seq(Seats),
           pc[c] \notin Locks!Working, batch' = [batch EXCEPT ![c] = b],
           UNCHANGED <<lock, pc, user, at, upto, saw, lease, robbed>>
    PROVE  Locks!TypeOK'
  <1>1. Locks!KeysOK' /\ Locks!LeasesOK'
    BY DEF Locks!TypeOK, Locks!KeysOK, Locks!LeasesOK
  <1>2. Locks!CallsOK'
    BY DEF Locks!TypeOK, Locks!CallsOK, Locks!Working
  <1> QED
    BY <1>1, <1>2 DEF Locks!TypeOK

LEMMA SameLockTypes == Locks!TypeOK /\ UNCHANGED lockVars => Locks!TypeOK'
  BY DEF lockVars, Locks!TypeOK, Locks!KeysOK, Locks!CallsOK, Locks!LeasesOK

-----------------------------------------------------------------------------
(* The tables and the requests' own variables keep their types.            *)

LEMMA GotoTypes ==
    ASSUME TablesOK, NEW c \in Calls, NEW where \in Phases, Goto(c, where)
    PROVE  phase' \in [Calls -> Phases]
  BY DEF TablesOK, Goto

LEMMA MoveTypes ==
    ASSUME TablesOK, NEW rows, NEW status \in HoldStatus, Move(rows, status)
    PROVE  row' \in [Requests -> [Seats -> HoldRows]]
  BY TTLAssumption DEF TablesOK, HoldRows, Move

\* A row gets another time to live.
LEMMA LeftTypes ==
    ASSUME NEW h \in HoldRows, NEW left \in 0 .. HoldTTL
    PROVE  [h EXCEPT !.left = left] \in HoldRows
  BY DEF HoldRows

LEMMA NextTables == TypeInv /\ [Next]_vars => TablesOK'
  <1> SUFFICES ASSUME TypeInv, [Next]_vars PROVE TablesOK'
    OBVIOUS
  <1> TablesOK
    BY TypeParts DEF TypeInv
  <1> Requests \subseteq Calls /\ Sweeps \subseteq Calls
    BY DEF Calls
  <1>1. ASSUME NEW r \in Requests, Arrive(r) PROVE TablesOK'
    <2>1. PICK where \in Phases : Goto(r, where)
      BY <1>1, ScriptAssumption DEF Arrive, Phases
    <2> QED
      BY <1>1, <2>1, GotoTypes DEF Arrive, TablesOK, mapVars
  <1>2. ASSUME NEW c \in Calls, LockStep(c) PROVE TablesOK'
    BY <1>2 DEF LockStep, TablesOK, StillTaken
  <1>3. ASSUME NEW r \in Requests, HoldRead(r) \/ LocksGranted(r) \/ MarkHeld(r)
        PROVE TablesOK'
    <2>1. PICK where \in Phases : Goto(r, where)
      BY <1>3 DEF HoldRead, LocksGranted, MarkHeld, Phases, Holding, Ended
    <2> QED
      BY <1>3, <2>1, GotoTypes, TTLAssumption
         DEF HoldRead, LocksGranted, MarkHeld, TablesOK, mapVars, SeatStatus, StillTaken
  <1>4. ASSUME NEW r \in Requests, DropOld(r) PROVE TablesOK'
    <2>1. SeatsOf(r) \subseteq Seats
      BY DEF TypeInv, TypeOK, Locks!TypeOK, Locks!CallsOK, SeatsOf
    <2>2. "create" \in Phases /\ "RELEASED" \in HoldStatus
      BY DEF Phases, Holding, HoldStatus
    <2> QED
      BY <1>4, <2>1, <2>2, GotoTypes, MoveTypes DEF DropOld, TablesOK, mapVars
  <1>5. ASSUME NEW r \in Requests, NEW s \in Seats, CreateRow(r, s) PROVE TablesOK'
    <2>1. "mark" \in Phases /\ "ACTIVE" \in HoldStatus
      BY DEF Phases, Holding, HoldStatus
    <2>2. phase' \in [Calls -> Phases]
      BY <1>5, <2>1, GotoTypes DEF CreateRow, TablesOK
    <2> QED
      BY <1>5, <2>1, <2>2 DEF CreateRow, TablesOK, HoldRows, mapVars
  <1>6. ASSUME NEW r \in Requests, TryFails(r) PROVE TablesOK'
    <2>1. "undo" \in Phases
      BY DEF Phases
    <2>2. todo' \in [Requests -> SUBSET Seats]
      BY <1>6 DEF TryFails, TablesOK
    <2> QED
      BY <1>6, <2>1, <2>2, GotoTypes DEF TryFails, TablesOK, mapVars
  <1>7. ASSUME NEW r \in Requests, ReleaseSeats(r) \/ ExtendRows(r) PROVE TablesOK'
    <2>1. "ok" \in Phases /\ "freeSeats" \in Phases /\ "RELEASED" \in HoldStatus
      BY DEF Phases, Ended, HoldStatus
    <2>2. CASE DropRows(r)
      BY <2>1, <2>2, GotoTypes, MoveTypes DEF DropRows, TablesOK, mapVars
    <2>3. CASE FreeSeats(r)
      BY <2>1, <2>3, GotoTypes DEF FreeSeats, Turn, TablesOK, mapVars, SeatStatus
    <2>4. CASE ExtendRows(r)
      <3>1. row' \in [Requests -> [Seats -> HoldRows]]
        BY <2>4, LeftTypes DEF ExtendRows, TablesOK
      <3>2. promise' \in [Requests -> 0 .. HoldTTL]
        BY <2>4, TTLAssumption DEF ExtendRows, TablesOK
      <3> QED
        BY <2>1, <2>4, <3>1, <3>2, GotoTypes DEF ExtendRows, TablesOK, mapVars
    <2> QED
      BY <1>7, <2>2, <2>3, <2>4 DEF ReleaseSeats
  <1>8. ASSUME NEW r \in Requests, ConfirmSeats(r) \/ FreeBookedSeats(r) PROVE TablesOK'
    <2>1. /\ {"ok", "convert", "unlockBooked", "countUp"} \subseteq Phases
          /\ "CONVERTED" \in HoldStatus
      BY DEF Phases, Ended, HoldStatus
    <2>2. SeatsOf(r) \subseteq Seats /\ Len(batch[r]) \in Int
      BY DEF TypeInv, TypeOK, Locks!TypeOK, Locks!CallsOK, SeatsOf
    <2>3. CASE Book(r)
      BY <2>1, <2>2, <2>3, GotoTypes DEF Book, TablesOK, SeatStatus, StillTaken
    <2>4. CASE Convert(r)
      BY <2>1, <2>4, GotoTypes, MoveTypes DEF Convert, TablesOK, mapVars
    <2>5. CASE CountDown(r) \/ CountUp(r)
      BY <2>1, <2>2, <2>5, GotoTypes DEF CountDown, CountUp, TablesOK, mapVars
    <2>6. CASE Unbook(r)
      BY <2>1, <2>6, GotoTypes DEF Unbook, Turn, TablesOK, SeatStatus, StillTaken
    <2> QED
      BY <1>8, <2>3, <2>4, <2>5, <2>6 DEF ConfirmSeats, FreeBookedSeats
  <1>9. ASSUME NEW r \in Requests, GetSeatMap(r) \/ Fail(r) PROVE TablesOK'
    <2>1. {"ok", "lookUp", "failed"} \subseteq Phases
      BY DEF Phases, Ended
    <2>2. CASE ReadMap(r)
      BY <2>1, <2>2, GotoTypes DEF ReadMap, TablesOK
    <2>3. ASSUME NEW s \in Seats, LookUp(r, s) PROVE TablesOK'
      BY <2>3 DEF LookUp, Seen, TablesOK, SeatStatus
    <2>4. CASE ShowMap(r) \/ Fail(r)
      <3>1. ForgetMap(r) /\ UNCHANGED <<seat, row, todo, promise, available>>
        BY <2>4 DEF ShowMap, Fail
      <3>2. phase' \in [Calls -> Phases]
        BY <2>1, <2>4, GotoTypes DEF ShowMap, Fail
      <3> QED
        BY <3>1, <3>2 DEF ForgetMap, TablesOK, SeatStatus
    <2> QED
      BY <1>9, <2>2, <2>3, <2>4 DEF GetSeatMap
  <1>10. ASSUME NEW w \in Sweeps, Scan(w) \/ Expire(w) \/ FreeSwept(w) \/ SweepFails(w)
         PROVE  TablesOK'
    <2>1. {"idle", "expire", "freeSwept", "sweeping"} \subseteq Phases /\ "EXPIRED" \in HoldStatus
      BY DEF Phases, HoldStatus
    <2>2. CASE Scan(w) \/ SweepFails(w)
      BY <2>1, <2>2, GotoTypes DEF Scan, SweepFails, TablesOK, mapVars
    <2>3. CASE Expire(w)
      BY <2>1, <2>3, GotoTypes, MoveTypes DEF Expire, TablesOK, mapVars
    <2>4. CASE FreeSwept(w)
      BY <2>1, <2>4, GotoTypes DEF FreeSwept, Turn, TablesOK, mapVars, SeatStatus
    <2> QED
      BY <1>10, <2>2, <2>3, <2>4
  <1>11. CASE Tick
    <2>1. row' \in [Requests -> [Seats -> HoldRows]]
      <3>1. ASSUME NEW h \in HoldRows
            PROVE  [h EXCEPT !.left = IF @ > 0 THEN @ - 1 ELSE 0] \in HoldRows
        BY TTLAssumption DEF HoldRows
      <3> QED
        BY <1>11, <3>1 DEF Tick, TablesOK
    <2>2. promise' \in [Requests -> 0 .. HoldTTL]
      BY <1>11, TTLAssumption DEF Tick, TablesOK
    <2>3. taken' \in [Requests -> SUBSET Seats]
      BY <1>11 DEF Tick, StillTaken, TablesOK
    <2> QED
      BY <1>11, <2>1, <2>2, <2>3 DEF Tick, TablesOK
  <1>12. CASE UNCHANGED vars
    BY <1>12 DEF vars, mapVars, TablesOK
  <1> QED
    BY <1>1, <1>2, <1>3, <1>4, <1>5, <1>6, <1>7, <1>8, <1>9, <1>10, <1>11, <1>12
       DEF Next, Step, Request, HoldSeats, ReleaseExpiredHolds
-----------------------------------------------------------------------------
(* What the scan answers.                                                  *)

LEMMA FoundIsFinite == IsFiniteSet(Found) /\ Found \subseteq Requests \X Seats
  <1>1. IsFiniteSet(Requests \X Seats)
    BY FiniteAssumption, FS_Product
  <1>2. Found \subseteq Requests \X Seats
    BY DEF Found, AllOverdue
  <1> QED
    BY <1>1, <1>2, FS_Subset

\* The seats of the rows that a query lists, in its order.
LEMMA ListingSeats ==
    ASSUME NEW rows, IsFiniteSet(rows), rows \subseteq Requests \X Seats,
           NEW q \in Listings(rows)
    PROVE  /\ [i \in DOMAIN q |-> q[i][2]] \in Seq(Seats)
           /\ rows # {} => [i \in DOMAIN q |-> q[i][2]] # <<>>
  <1>1. Cardinality(rows) \in Nat /\ (rows # {} => Cardinality(rows) # 0)
    BY FS_CardinalityType, FS_EmptySet
  <1>2. q \in [1 .. Cardinality(rows) -> rows]
    BY DEF Listings
  <1> DEFINE seats == [i \in DOMAIN q |-> q[i][2]]
  <1>3. seats \in [1 .. Cardinality(rows) -> Seats]
    BY <1>2
  <1>4. seats \in Seq(Seats) /\ Len(seats) = Cardinality(rows)
    BY <1>1, <1>3
  <1> QED
    BY <1>1, <1>4

\* The keys, and the calls' variables of SeatLock, keep their types.
LEMMA NextLocks == TypeInv /\ [Next]_vars => Locks!TypeOK'
  <1> SUFFICES ASSUME TypeInv, [Next]_vars PROVE Locks!TypeOK'
    OBVIOUS
  <1> Locks!TypeOK
    BY TypeParts DEF TypeInv
  <1> Requests \subseteq Calls /\ Sweeps \subseteq Calls
    BY DEF Calls
  <1>1. ASSUME LockMoves PROVE Locks!TypeOK'
    BY <1>1, LockMovesKeepTypes
  <1>2. ASSUME UNCHANGED lockVars PROVE Locks!TypeOK'
    BY <1>2, SameLockTypes
  <1>3. ASSUME NEW c \in Calls,
               phase[c] \in {"readSeats", "convert", "freeSwept"} \cup Holding
        PROVE  batch[c] \in Seq(Seats) \ {<<>>}
    BY <1>3 DEF TypeInv, Standing, Stands, Locks!TypeOK, Locks!CallsOK
  <1>4. ASSUME NEW r \in Requests, Arrive(r) PROVE Locks!TypeOK'
    <2>1. PICK a \in Script[r] :
             \/ /\ batch' = [batch EXCEPT ![r] = a.seats]
                /\ UNCHANGED <<lock, pc, user, at, upto, saw, lease, robbed>>
             \/ LockCall(r, a.seats, "release")
             \/ LockCall(r, a.seats, "extendGet")
      BY <1>4 DEF Arrive
    <2>2. a.seats \in Seq(Seats) \ {<<>>}
      BY ScriptAssumption
    <2>3. pc[r] \notin Locks!Working
      BY <1>4 DEF Arrive, At, TypeInv, Standing, Stands, Locks!Working
    <2> QED
      BY <2>1, <2>2, <2>3, BatchTypes, LockCallTypes
  <1>5. ASSUME NEW r \in Requests, HoldRead(r) \/ TryFails(r) \/ Convert(r) PROVE Locks!TypeOK'
    <2>1. CASE UNCHANGED lockVars
      BY <1>2, <2>1
    <2>2. CASE ~UNCHANGED lockVars
      <3>1. /\ phase[r] \in {"readSeats", "convert"} \cup Holding
            /\ \E w \in {"acquire", "release", "refused"} : LockCall(r, batch[r], w)
        BY <1>5, <2>2
           DEF HoldRead, TryFails, ReleaseAfterFailure, Convert, At, Holding
      <3> QED
        BY <1>3, <3>1, LockCallTypes
    <2> QED
      BY <2>1, <2>2
  <1>6. ASSUME NEW c \in Calls, BreakOff(c) PROVE Locks!TypeOK'
    BY <1>6, BreakOffTypes
  <1>7. ASSUME NEW w \in Sweeps, Scan(w) PROVE Locks!TypeOK'
    <2>1. PICK q \in Listings(Found) :
             /\ batch' = [batch EXCEPT ![w] = [i \in DOMAIN q |-> q[i][2]]]
             /\ pc' = [pc EXCEPT ![w] = "idle"]
             /\ at' = [at EXCEPT ![w] = 1]
             /\ UNCHANGED <<lock, user, upto, saw, lease, robbed>>
      BY <1>7 DEF Scan
    <2>2. [i \in DOMAIN q |-> q[i][2]] \in Seq(Seats)
      BY FoundIsFinite, ListingSeats, <2>1
    <2>3. Locks!KeysOK' /\ Locks!LeasesOK'
      BY <2>1 DEF Locks!TypeOK, Locks!KeysOK, Locks!LeasesOK
    <2>4. Locks!CallsOK'
      BY <2>1, <2>2 DEF Locks!TypeOK, Locks!CallsOK, Locks!Working
    <2> QED
      BY <2>3, <2>4 DEF Locks!TypeOK
  <1>8. ASSUME NEW w \in Sweeps, FreeSwept(w) PROVE Locks!TypeOK'
    BY <1>3, <1>8, LockCallTypes DEF FreeSwept, At
  <1>9. CASE UNCHANGED vars
    BY <1>2, <1>9 DEF vars, lockVars
  <1>10. ASSUME NEW r \in Requests, Request(r) PROVE Locks!TypeOK'
    <2>1. CASE LockStep(r)
      BY <1>1, <2>1 DEF LockStep, LockMoves
    <2>2. CASE HoldSeats(r)
      BY <1>2, <1>5, <2>2 DEF HoldSeats, LocksGranted, DropOld, CreateRow, MarkHeld
    <2>3. CASE ReleaseSeats(r) \/ ExtendRows(r) \/ ConfirmSeats(r) \/ FreeBookedSeats(r)
               \/ GetSeatMap(r)
      BY <1>2, <1>5, <2>3
         DEF ReleaseSeats, DropRows, FreeSeats, ExtendRows, ConfirmSeats, Book, CountDown,
             FreeBookedSeats, Unbook, CountUp, GetSeatMap, ReadMap, LookUp, ShowMap
    <2> QED
      BY <1>10, <2>1, <2>2, <2>3 DEF Request
  <1>11. ASSUME NEW r \in Requests, Fail(r) PROVE Locks!TypeOK'
    BY <1>6, <1>11 DEF Fail
  <1>12. ASSUME NEW w \in Sweeps, ReleaseExpiredHolds(w) \/ SweepFails(w)
         PROVE  Locks!TypeOK'
    BY <1>1, <1>2, <1>6, <1>7, <1>8, <1>12
       DEF ReleaseExpiredHolds, Expire, LockStep, LockMoves, SweepFails
  <1>13. CASE Tick
    BY <1>1, <1>13 DEF Tick, LockMoves
  <1> QED
    BY <1>4, <1>9, <1>10, <1>11, <1>12, <1>13 DEF Next, Step
-----------------------------------------------------------------------------
\* A step of one call leaves the others where they stand.
LEMMA OthersStand ==
    ASSUME Standing, NEW c \in Calls, Stands(c)',
           \A d \in Calls \ {c} : phase'[d] = phase[d] /\ pc'[d] = pc[d] /\ batch'[d] = batch[d]
    PROVE  Standing'
  BY DEF Standing, Stands

LEMMA NextStanding == TypeInv /\ [Next]_vars => Standing'
  <1> SUFFICES ASSUME TypeInv, [Next]_vars PROVE Standing'
    OBVIOUS
  <1> Standing /\ TablesOK /\ Locks!TypeOK
    BY TypeParts DEF TypeInv
  <1> Requests \subseteq Calls /\ Sweeps \subseteq Calls
    BY DEF Calls
  <1> USE DEF Locks!TypeOK, Locks!CallsOK, TablesOK, Goto, At, LockCall, BreakOff, lockVars
  <1>1. ASSUME NEW r \in Requests, Arrive(r) PROVE Standing'
    <2>1. PICK a \in Script[r] :
             \/ /\ a.op \in {"hold", "confirm", "free", "map"}
                /\ batch' = [batch EXCEPT ![r] = a.seats] /\ pc' = pc
                /\ phase' = [phase EXCEPT ![r] = CASE a.op = "hold" -> "readSeats"
                                                   [] a.op = "confirm" -> "book"
                                                   [] a.op = "free" -> "unbook"
                                                   [] a.op = "map" -> "readMap"]
             \/ /\ LockCall(r, a.seats, "release")
                /\ phase' = [phase EXCEPT ![r] = "unlock"]
             \/ /\ LockCall(r, a.seats, "extendGet")
                /\ phase' = [phase EXCEPT ![r] = "extending"]
      BY <1>1 DEF Arrive
    <2>2. a.seats # <<>> /\ pc[r] = "idle"
      BY <1>1, ScriptAssumption DEF Standing, Stands, Arrive
    <2>3. Stands(r)'
      BY <2>1, <2>2 DEF Stands, Holding, Ended
    <2> QED
      BY <2>1, <2>3, OthersStand
  <1>2. ASSUME NEW c \in Calls, LockStep(c) PROVE Standing'
    <2>1. Stands(c) /\ phase'[c] = phase[c] /\ batch'[c] = batch[c]
      BY <1>2, LockStepMoves DEF Standing, LockStep
    <2>2. phase[c] \in {"locking", "undo", "unlock", "unlockBooked", "extending", "sweeping"}
      <3>1. pc[c] \in {"acquire", "rollback", "release", "extendGet", "extendSet",
                       "sweepGet", "sweepDel"}
        BY <1>2, LockStepMoves DEF LockStep
      <3>2. phase[c] \in Phases
        OBVIOUS
      <3> QED
        BY <2>1, <3>1, <3>2 DEF Stands, Phases, Holding, Ended
    <2>3. Stands(c)'
      BY <1>2, <2>1, <2>2, LockStepMoves DEF LockStep, Stands, Holding, Ended
    <2> QED
      BY <1>2, <2>3, OthersStand, LockStepMoves DEF LockStep
  <1>3. ASSUME NEW r \in Requests, HoldRead(r) PROVE Standing'
    <2>1. Stands(r)'
      BY <1>3 DEF HoldRead, Standing, Stands, Holding, Ended
    <2> QED
      BY <1>3, <2>1, OthersStand DEF HoldRead
  <1>4. ASSUME NEW r \in Requests,
               LocksGranted(r) \/ DropOld(r) \/ MarkHeld(r) \/ DropRows(r) \/ FreeSeats(r)
               \/ ExtendRows(r) \/ Book(r) \/ CountDown(r) \/ Unbook(r) \/ CountUp(r)
               \/ ReadMap(r) \/ ShowMap(r)
        PROVE  Standing'
    <2>1. UNCHANGED <<pc, batch>> /\ \E where : Goto(r, where)
      BY <1>4 DEF LocksGranted, DropOld, MarkHeld, DropRows, FreeSeats, ExtendRows, Book,
                  CountDown, Unbook, CountUp, ReadMap, ShowMap
    <2>2. CASE LocksGranted(r) \/ DropOld(r) \/ MarkHeld(r)
      <3>1. Stands(r)
        BY DEF Standing
      <3>2. Stands(r)'
        BY <2>2, <3>1 DEF LocksGranted, DropOld, MarkHeld, Stands, Holding, Ended
      <3> QED
        BY <2>1, <3>2, OthersStand
    <2>3. CASE DropRows(r) \/ FreeSeats(r) \/ ExtendRows(r)
      BY <2>1, <2>3, OthersStand
         DEF DropRows, FreeSeats, ExtendRows, Standing, Stands, Holding, Ended
    <2>4. CASE Book(r) \/ CountDown(r) \/ Unbook(r) \/ CountUp(r)
      BY <2>1, <2>4, OthersStand
         DEF Book, CountDown, Unbook, CountUp, Standing, Stands, Holding, Ended
    <2>5. CASE ReadMap(r) \/ ShowMap(r)
      BY <2>1, <2>5, OthersStand DEF ReadMap, ShowMap, Standing, Stands, Holding, Ended
    <2> QED
      BY <1>4, <2>2, <2>3, <2>4, <2>5
  <1>5. ASSUME NEW r \in Requests, TryFails(r) \/ Convert(r) PROVE Standing'
    <2>1. LockCall(r, batch[r], "release") /\ \E where \in {"undo", "unlockBooked"} : Goto(r, where)
      BY <1>5 DEF TryFails, Convert, ReleaseAfterFailure
    <2>2. Stands(r)'
      BY <2>1 DEF Stands, Holding, Ended
    <2> QED
      BY <2>1, <2>2, OthersStand
  <1>6. ASSUME NEW r \in Requests, NEW s \in Seats, CreateRow(r, s) PROVE Standing'
    <2>1. Stands(r)'
      BY <1>6 DEF CreateRow, Standing, Stands, Holding, Ended
    <2> QED
      BY <1>6, <2>1, OthersStand DEF CreateRow
  <1>7. ASSUME NEW c \in Calls, BreakOff(c), Goto(c, "failed") \/ Goto(c, "idle") PROVE Standing'
    <2>1. Stands(c)'
      BY <1>7 DEF Stands, Holding, Ended
    <2> QED
      BY <1>7, <2>1, OthersStand
  <1>8. ASSUME NEW w \in Sweeps, Scan(w) PROVE Standing'
    <2>1. PICK q \in Listings(Found) :
             /\ batch' = [batch EXCEPT ![w] = [i \in DOMAIN q |-> q[i][2]]]
             /\ pc' = [pc EXCEPT ![w] = "idle"]
             /\ Goto(w, "expire")
      BY <1>8 DEF Scan
    <2>2. [i \in DOMAIN q |-> q[i][2]] # <<>>
      <3>1. Found # {}
        BY <1>8 DEF Scan
      <3> QED
        BY <3>1, FoundIsFinite, ListingSeats
    <2>3. Stands(w)'
      BY <2>1, <2>2 DEF Stands, Holding, Ended
    <2> QED
      BY <2>1, <2>3, OthersStand
  <1>9. ASSUME NEW w \in Sweeps, Expire(w) \/ FreeSwept(w) PROVE Standing'
    <2>1. Stands(w)'
      BY <1>9 DEF Expire, FreeSwept, Standing, Stands, Holding, Ended
    <2> QED
      BY <1>9, <2>1, OthersStand DEF Expire, FreeSwept
  <1>10. ASSUME UNCHANGED <<phase, pc, batch>> PROVE Standing'
    BY <1>10 DEF Standing, Stands
  <1>11. ASSUME NEW r \in Requests, Request(r) PROVE Standing'
    BY <1>2, <1>3, <1>4, <1>5, <1>6, <1>10, <1>11
       DEF Request, HoldSeats, ReleaseSeats, ConfirmSeats, FreeBookedSeats, GetSeatMap, LookUp
  <1>12. ASSUME NEW w \in Sweeps, ReleaseExpiredHolds(w) \/ SweepFails(w) PROVE Standing'
    BY <1>2, <1>7, <1>8, <1>9, <1>12 DEF ReleaseExpiredHolds, SweepFails
  <1>13. CASE Tick \/ UNCHANGED vars
    BY <1>10, <1>13 DEF Tick, Locks!Tick, Locks!callVars, vars
  <1> QED
    BY <1>1, <1>7, <1>11, <1>12, <1>13 DEF Next, Step, Fail

LEMMA NextTypeInv == TypeInv /\ [Next]_vars => TypeInv'
  <1>1. TypeOK' <=> Locks!TypeOK' /\ TablesOK'
    BY DEF TypeOK, TablesOK, HoldRows
  <1> QED
    BY <1>1, NextLocks, NextTables, NextStanding DEF TypeInv

\* The locks, the seats, the hold records and what every call stands for keep their types,
\* also while requests fail half-way and sweeps run (seats.service.ts).
THEOREM TypeCorrect == Spec => []TypeOK
  <1>1. TypeInv => TypeOK
    BY DEF TypeInv
  <1> QED
    BY <1>1, InitTypeInv, NextTypeInv, PTL DEF Spec
-----------------------------------------------------------------------------
(* The contract of the locks.  Only the Redis commands and the time touch  *)
(* keys and leases, and for those SeatLockProofs has shown it.             *)

LEMMA StepsOfLocks ==
    [Next]_vars => \/ Tick
                   \/ \E c \in Calls : LockStep(c)
                   \/ UNCHANGED <<lock, lease, robbed>>
  <1> SUFFICES ASSUME [Next]_vars, ~Tick, ~\E c \in Calls : LockStep(c)
               PROVE  UNCHANGED <<lock, lease, robbed>>
    OBVIOUS
  <1> USE DEF Calls, LockCall, BreakOff, lockVars
  <1>1. ASSUME NEW r \in Requests, Arrive(r) \/ HoldSeats(r) \/ ReleaseSeats(r)
        PROVE  UNCHANGED <<lock, lease, robbed>>
    BY <1>1 DEF Arrive, HoldSeats, HoldRead, LocksGranted, DropOld, MarkHeld, TryFails,
                ReleaseAfterFailure, CreateRow, ReleaseSeats, DropRows, FreeSeats
  <1>2. ASSUME NEW r \in Requests, ExtendRows(r) \/ ConfirmSeats(r) \/ FreeBookedSeats(r)
        PROVE  UNCHANGED <<lock, lease, robbed>>
    BY <1>2 DEF ExtendRows, ConfirmSeats, Book, Convert, CountDown, FreeBookedSeats, Unbook,
                CountUp
  <1>3. ASSUME NEW r \in Requests, GetSeatMap(r) \/ Fail(r)
        PROVE  UNCHANGED <<lock, lease, robbed>>
    BY <1>3 DEF GetSeatMap, ReadMap, LookUp, ShowMap, Fail
  <1>4. ASSUME NEW w \in Sweeps, Scan(w) \/ Expire(w) \/ FreeSwept(w) \/ SweepFails(w)
        PROVE  UNCHANGED <<lock, lease, robbed>>
    BY <1>4 DEF Scan, Expire, FreeSwept, SweepFails
  <1>5. CASE UNCHANGED vars
    BY <1>5 DEF vars
  <1> QED
    BY <1>1, <1>2, <1>3, <1>4, <1>5 DEF Next, Step, Request, ReleaseExpiredHolds

LEMMA NextLeases ==
    TypeInv /\ Locks!LeaseBacked /\ [Next]_vars
        => Locks!LeaseBacked' /\ (Locks!Contract!Next \/ UNCHANGED <<lease, robbed>>)
  <1> SUFFICES ASSUME TypeInv, Locks!LeaseBacked, [Next]_vars
               PROVE  /\ Locks!LeaseBacked'
                      /\ Locks!Contract!Next \/ UNCHANGED <<lease, robbed>>
    OBVIOUS
  <1>1. CASE LockMoves
    BY <1>1, TypeParts, LockMovesKeepLeases, LockMovesKeepContract DEF TypeInv
  <1>2. CASE UNCHANGED <<lock, lease, robbed>>
    BY <1>2 DEF Locks!LeaseBacked, Locks!Holder
  <1> QED
    BY <1>1, <1>2, StepsOfLocks DEF LockMoves, LockStep, Tick

\* Holding, releasing, extending, confirming and sweeping use the locks in a way that keeps
\* the contract of SeatLease: a seat is leased only while nobody else can count on it,
\* unless a late extension overrides him.
THEOREM HoldsImplementLease == Spec => ImplementsLease
  <1>1. Init => Locks!LeaseBacked /\ Locks!Contract!Init
    BY DEF Init, Locks!Init, Locks!LeaseBacked, Locks!NoKey, Locks!Absent, Locks!Holder,
           Locks!Contract!Init
  <1>2. UNCHANGED <<lease, robbed>> <=> UNCHANGED Locks!Contract!vars
    BY DEF Locks!Contract!vars
  <1> QED
    BY <1>1, <1>2, InitTypeInv, NextTypeInv, NextLeases, PTL
       DEF Spec, ImplementsLease, Locks!Contract!Spec
-----------------------------------------------------------------------------
(* The hold records.  A record exists from its insert on, which happens    *)
(* once, and every update of it asks for an ACTIVE one.                    *)

\* Where a request stands once its inserts are sent, and where others end as well.
Inserting == {"create", "mark", "undo", "ok", "failed"}

\* What the table and the inserts under way have of a request's holds.
RowsStand(r) ==
    /\ \A s \in Seats : row[r][s].status # "ACTIVE" => row[r][s].left = 0
    /\ \A s \in todo[r] : row[r][s] = NoRow
    /\ phase[r] \notin Inserting => todo[r] = {} /\ \A s \in Seats : row[r][s] = NoRow

RowsInv == \A r \in Requests : RowsStand(r)

\* What a step may do to a record: nothing, insert it, let it age or give it more time
\* while it is ACTIVE, or end it; it is converted by its user's confirmation of that seat.
RowStep(r, s) ==
    \/ row'[r][s] = row[r][s]
    \/ s \in todo[r] \ todo'[r] /\ row'[r][s].status = "ACTIVE"
    \/ /\ row[r][s].status = "ACTIVE"
       /\ \/ row'[r][s].status = "ACTIVE"
          \/ row'[r][s] = [status |-> "RELEASED", left |-> 0]
          \/ /\ row'[r][s] = [status |-> "CONVERTED", left |-> 0]
             /\ \E q \in Requests : /\ phase[q] = "convert" /\ user[r] = user[q]
                                    /\ s \in SeatsOf(q)
          \/ row[r][s].left = 0 /\ row'[r][s] = [status |-> "EXPIRED", left |-> 0]

LEMMA RowSteps ==
    ASSUME TypeInv, RowsInv, [Next]_vars, NEW r \in Requests, NEW s \in Seats
    PROVE  RowStep(r, s)
  <1> row \in [Requests -> [Seats -> HoldRows]]
    BY TypeParts DEF TypeInv, TablesOK
  <1>1. ASSUME row' = row PROVE RowStep(r, s)
    BY <1>1 DEF RowStep
  <1>2. ASSUME NEW rows, Move(rows, "RELEASED"), \A p \in rows : Active(p[1], p[2])
        PROVE  RowStep(r, s)
    BY <1>2 DEF Move, RowStep, Active
  <1>3. ASSUME NEW q \in Requests, Convert(q) PROVE RowStep(r, s)
    <2>1. <<r, s>> \in RowsOf(q) => row[r][s].status = "ACTIVE" /\ user[r] = user[q]
      BY DEF RowsOf, Active
    <2>2. CASE <<r, s>> \in RowsOf(q) /\ s \in SeatsOf(q)
      BY <1>3, <2>1, <2>2 DEF Convert, At, Move, RowStep
    <2>3. CASE ~(<<r, s>> \in RowsOf(q) /\ s \in SeatsOf(q))
      BY <1>3, <2>3 DEF Convert, Move, RowStep
    <2> QED
      BY <2>2, <2>3
  <1>4. ASSUME NEW q \in Requests, DropOld(q) \/ DropRows(q) \/ Convert(q) PROVE RowStep(r, s)
    <2>1. \A p \in RowsOf(q) : Active(p[1], p[2])
      BY DEF RowsOf
    <2> QED
      BY <1>2, <1>3, <1>4, <2>1 DEF DropOld, DropRows
  <1>5. ASSUME NEW q \in Requests, NEW t \in Seats, CreateRow(q, t) PROVE RowStep(r, s)
    <2>1. todo[q] \in SUBSET Seats /\ todo'[q] = todo[q] \ {t}
      BY <1>5, TypeParts DEF CreateRow, TypeInv, TablesOK
    <2> QED
      BY <1>5, <2>1 DEF CreateRow, RowStep
  <1>6. ASSUME NEW q \in Requests, ExtendRows(q) PROVE RowStep(r, s)
    <2>1. ASSUME NEW h \in HoldRows, NEW left PROVE [h EXCEPT !.left = left].status = h.status
      BY DEF HoldRows
    <2>2. row'[r][s] = row[r][s] \/ (/\ row[r][s].status = "ACTIVE"
                                     /\ row'[r][s] = [row[r][s] EXCEPT !.left = promise[q]])
      BY <1>6 DEF ExtendRows, RowsOf, Active
    <2>3. row[r][s] \in HoldRows
      OBVIOUS
    <2> QED
      BY <2>1, <2>2, <2>3 DEF RowStep
  <1>7. ASSUME NEW w \in Sweeps, Expire(w) PROVE RowStep(r, s)
    BY <1>7 DEF Expire, Expired, AllOverdue, Overdue, Active, Move, RowStep
  <1>8. CASE Tick
    <2>1. ASSUME NEW h \in HoldRows
          PROVE  LET aged == [h EXCEPT !.left = IF @ > 0 THEN @ - 1 ELSE 0]
                 IN  aged.status = h.status /\ (h.left = 0 => aged = h)
      BY DEF HoldRows
    <2>2. row[r][s] \in HoldRows /\ (row[r][s].status # "ACTIVE" => row[r][s].left = 0)
      BY DEF RowsInv, RowsStand
    <2> QED
      BY <1>8, <2>1, <2>2 DEF Tick, RowStep
  <1>9. ASSUME NEW q \in Requests, Request(q) PROVE RowStep(r, s)
    BY <1>1, <1>4, <1>5, <1>6, <1>9
       DEF Request, LockStep, HoldSeats, HoldRead, LocksGranted, MarkHeld, TryFails,
           ReleaseSeats, FreeSeats, ConfirmSeats, Book, CountDown, FreeBookedSeats, Unbook,
           CountUp, GetSeatMap, ReadMap, LookUp, ShowMap
  <1>10. ASSUME NEW w \in Sweeps, ReleaseExpiredHolds(w) \/ SweepFails(w) PROVE RowStep(r, s)
    BY <1>1, <1>7, <1>10 DEF ReleaseExpiredHolds, Scan, FreeSwept, LockStep, SweepFails
  <1>11. ASSUME NEW q \in Requests, Arrive(q) \/ Fail(q) PROVE RowStep(r, s)
    BY <1>1, <1>11 DEF Arrive, Fail
  <1>12. CASE UNCHANGED vars
    BY <1>1, <1>12 DEF vars
  <1> QED
    BY <1>8, <1>9, <1>10, <1>11, <1>12 DEF Next, Step

LEMMA TodoSteps ==
    ASSUME TypeInv, [Next]_vars, NEW r \in Requests
    PROVE  \/ /\ todo'[r] \subseteq todo[r]
              /\ phase'[r] \notin Inserting => phase[r] \notin Inserting
           \/ phase[r] = "dropOld" /\ phase'[r] = "create"
  <1> DEFINE Shrinks == /\ todo'[r] \subseteq todo[r]
                        /\ phase'[r] \notin Inserting => phase[r] \notin Inserting
  <1> /\ phase \in [Calls -> Phases] /\ todo \in [Requests -> SUBSET Seats]
      /\ Requests \subseteq Calls
    BY TypeParts DEF TypeInv, TablesOK, Calls
  <1>1. ASSUME UNCHANGED <<todo, phase>> PROVE Shrinks
    BY <1>1
  <1>2. ASSUME NEW c \in Calls, NEW where, Goto(c, where), UNCHANGED todo,
               phase[c] \notin Inserting \/ where \in Inserting \/ c # r
        PROVE  Shrinks
    BY <1>2 DEF Goto
  <1>3. ASSUME NEW q \in Requests, Arrive(q) PROVE Shrinks
    <2>1. (\E where : Goto(q, where)) /\ phase[q] = "idle" /\ UNCHANGED todo
      BY <1>3 DEF Arrive, At
    <2> QED
      BY <1>2, <2>1 DEF Inserting
  <1>4. ASSUME NEW q \in Requests,
               HoldRead(q) \/ LocksGranted(q) \/ MarkHeld(q) \/ ReleaseSeats(q) \/ ExtendRows(q)
        PROVE  Shrinks
    <2>1. /\ UNCHANGED todo
          /\ \E where : Goto(q, where) /\ (phase[q] \notin Inserting \/ where \in Inserting)
      BY <1>4 DEF HoldRead, LocksGranted, MarkHeld, ReleaseSeats, DropRows, FreeSeats,
                  ExtendRows, At, Inserting
    <2> QED
      BY <1>2, <2>1
  <1>5. ASSUME NEW q \in Requests, ConfirmSeats(q) \/ FreeBookedSeats(q) \/ ReadMap(q)
                                   \/ ShowMap(q) \/ Fail(q)
        PROVE  Shrinks
    <2>1. /\ UNCHANGED todo
          /\ \E where : Goto(q, where) /\ (phase[q] \notin Inserting \/ where \in Inserting)
      BY <1>5 DEF ConfirmSeats, Book, Convert, CountDown, FreeBookedSeats, Unbook, CountUp,
                  ReadMap, ShowMap, Fail, At, Inserting
    <2> QED
      BY <1>2, <2>1
  <1>6. ASSUME NEW q \in Requests, DropOld(q)
        PROVE  Shrinks \/ (phase[r] = "dropOld" /\ phase'[r] = "create")
    BY <1>6 DEF DropOld, At, Goto
  <1>7. ASSUME NEW q \in Requests, NEW s \in Seats, CreateRow(q, s) PROVE Shrinks
    BY <1>7 DEF CreateRow, Goto, At, Inserting
  <1>8. ASSUME NEW q \in Requests, TryFails(q) PROVE Shrinks
    <2>1. Goto(q, "undo") /\ todo'[r] \subseteq todo[r]
      BY <1>8 DEF TryFails
    <2> QED
      BY <2>1 DEF Goto, Inserting
  <1>9. ASSUME NEW w \in Sweeps, Scan(w) \/ Expire(w) \/ FreeSwept(w) \/ SweepFails(w)
        PROVE  Shrinks
    <2>1. w \in Calls /\ w # r
      BY RequestsAssumption DEF Calls
    <2> QED
      BY <1>2, <1>9, <2>1 DEF Scan, Expire, FreeSwept, SweepFails
  <1>10. ASSUME NEW q \in Requests, Request(q)
         PROVE  Shrinks \/ (phase[r] = "dropOld" /\ phase'[r] = "create")
    BY <1>1, <1>4, <1>5, <1>6, <1>7, <1>8, <1>10
       DEF Request, LockStep, HoldSeats, GetSeatMap, LookUp
  <1>11. ASSUME NEW w \in Sweeps, ReleaseExpiredHolds(w) \/ SweepFails(w) PROVE Shrinks
    BY <1>1, <1>9, <1>11 DEF ReleaseExpiredHolds, LockStep
  <1>12. CASE Tick \/ UNCHANGED vars
    BY <1>1, <1>12 DEF Tick, vars
  <1> QED
    BY <1>3, <1>5, <1>10, <1>11, <1>12 DEF Next, Step

LEMMA NextRowsInv == TypeInv /\ RowsInv /\ [Next]_vars => RowsInv'
  <1> SUFFICES ASSUME TypeInv, RowsInv, [Next]_vars, NEW r \in Requests PROVE RowsStand(r)'
    BY DEF RowsInv
  <1>1. RowsStand(r) /\ todo[r] \in SUBSET Seats
    BY TypeParts DEF RowsInv, TypeInv, TablesOK
  <1>2. \A s \in Seats : RowStep(r, s)
    BY RowSteps
  <1>3. ASSUME NEW s \in Seats PROVE row'[r][s].status # "ACTIVE" => row'[r][s].left = 0
    BY <1>1, <1>2 DEF RowsStand, RowStep
  <1>4. ASSUME NEW s \in Seats, row[r][s] = NoRow, s \notin todo[r] \/ s \in todo'[r]
        PROVE  row'[r][s] = NoRow
    BY <1>2, <1>4 DEF RowStep, NoRow
  <1>5. CASE /\ todo'[r] \subseteq todo[r]
             /\ phase'[r] \notin Inserting => phase[r] \notin Inserting
    BY <1>1, <1>3, <1>4, <1>5 DEF RowsStand
  <1>6. CASE phase[r] = "dropOld" /\ phase'[r] = "create"
    <2>1. todo'[r] \subseteq Seats
      BY NextTypeInv, TypeParts DEF TypeInv, TypeOK
    <2> QED
      BY <1>1, <1>3, <1>4, <1>6, <2>1 DEF RowsStand, Inserting
  <1> QED
    BY <1>5, <1>6, TodoSteps

LEMMA InitRowsInv == Init => RowsInv
  BY DEF Init, RowsInv, RowsStand, NoRow

LEMMA HoldsInvariance == Spec => [](TypeInv /\ RowsInv)
  BY InitTypeInv, InitRowsInv, NextTypeInv, NextRowsInv, PTL DEF Spec

\* No sweep, release, extension or confirmation touches a hold record that has ended, and no
\* late insert overwrites one.
THEOREM HoldsEndOnce == Spec => HoldEndsOnce
  <1>1. ASSUME TypeInv, RowsInv, [Next]_vars
        PROVE  \A r \in Requests, s \in Seats :
                  row[r][s].status \in HoldStatus \ {"ACTIVE"} => row'[r][s] = row[r][s]
    <2> SUFFICES ASSUME NEW r \in Requests, NEW s \in Seats,
                        row[r][s].status \in HoldStatus \ {"ACTIVE"}
                 PROVE  row'[r][s] = row[r][s]
      OBVIOUS
    <2>1. s \notin todo[r]
      BY <1>1 DEF RowsInv, RowsStand, NoRow, HoldStatus
    <2> QED
      BY <1>1, <2>1, RowSteps DEF RowStep
  <1> QED
    BY <1>1, HoldsInvariance, PTL DEF Spec, HoldEndsOnce

\* A record becomes EXPIRED only at a moment when its time is up, whatever extensions landed
\* between the sweep's scan and its update.
THEOREM NoneExpiresEarly == Spec => NeverExpiredEarly
  <1>1. ASSUME TypeInv, RowsInv, [Next]_vars
        PROVE  \A r \in Requests, s \in Seats :
                  row[r][s].status # "EXPIRED" /\ row'[r][s].status = "EXPIRED" => Overdue(r, s)
    BY <1>1, RowSteps DEF RowStep, Overdue, Active
  <1> QED
    BY <1>1, HoldsInvariance, PTL DEF Spec, NeverExpiredEarly
-----------------------------------------------------------------------------
(* All or nothing.  Every key that a call has written can be told from     *)
(* where the call stands; what remains to be undone is never passed over.  *)

\* Where a call must be that has left a key on seat s.
Traced(s, c) ==
    \/ /\ phase[c] = "locking"
       /\ \/ pc[c] = "acquire" /\ \E k \in 1 .. at[c] - 1 : batch[c][k] = s
          \/ pc[c] = "rollback" /\ \E k \in at[c] .. upto[c] - 1 : batch[c][k] = s
          \/ pc[c] = "granted" /\ s \in SeatsOf(c)
    \/ phase[c] \in {"dropOld", "create", "mark"} /\ s \in SeatsOf(c)
    \/ /\ phase[c] = "undo" /\ pc[c] = "release"
       /\ \E k \in at[c] .. Len(batch[c]) : batch[c][k] = s
    \/ phase[c] \in {"extending", "extendRows", "ok", "failed"}

KeysInv ==
    \A s \in Seats, c \in Calls :
        lock[s].by = c => lock[s].holder = user[c] /\ Traced(s, c)

\* A key that is there after a command was there before and has not been asked for, or the
\* command has written it.
LEMMA KeyAfterStep ==
    ASSUME Locks!TypeOK, NEW c \in Calls, Locks!Step(c),
           NEW s \in Seats, NEW d \in Calls, lock'[s].by = d
    PROVE  \/ /\ lock'[s] = lock[s]
              /\ pc[c] \in {"rollback", "release"} /\ batch[c][at[c]] = s
                    => lock[s].holder # user[c]
           \/ /\ d = c /\ lock'[s].holder = user[c]
              /\ pc[c] \in {"acquire", "extendSet"} /\ batch[c][at[c]] = s
  <1> USE NoOneAssumption
      DEF Calls, Locks!TypeOK, Locks!KeysOK, Locks!Key, Locks!SeatOf, Locks!Holder, Locks!Absent,
          Locks!SetEx, Locks!Written, Locks!DeleteIfHeldBy
  <1>1. CASE Locks!AcquireNext(c)
    BY <1>1 DEF Locks!AcquireNext, Locks!SetNX
  <1>2. CASE Locks!AcquireRefused(c)
    BY <1>2 DEF Locks!AcquireRefused
  <1>3. CASE Locks!Rollback(c)
    BY <1>3 DEF Locks!Rollback
  <1>4. CASE Locks!ReleaseNext(c)
    BY <1>4 DEF Locks!ReleaseNext
  <1>5. CASE Locks!ExtendGet(c)
    BY <1>5 DEF Locks!ExtendGet
  <1>6. CASE Locks!ExtendSet(c)
    BY <1>6 DEF Locks!ExtendSet
  <1>7. CASE Locks!SweepGet(c)
    BY <1>7 DEF Locks!SweepGet
  <1>8. CASE Locks!SweepDel(c)
    BY <1>8 DEF Locks!SweepDel
  <1> QED
    BY <1>1, <1>2, <1>3, <1>4, <1>5, <1>6, <1>7, <1>8 DEF Locks!Step

\* How far a command brings the loops that take and undo.
LEMMA LoopMoves ==
    ASSUME Locks!TypeOK, NEW c \in Calls, Locks!Step(c)
    PROVE  /\ \A d \in Calls \ {c} : at'[d] = at[d] /\ upto'[d] = upto[d]
           /\ pc[c] = "acquire" =>
                 \/ pc'[c] = "acquire" /\ at'[c] = at[c] + 1
                 \/ pc'[c] = "granted" /\ at[c] = Len(batch[c])
                 \/ pc'[c] = "rollback" /\ at'[c] = 1 /\ upto'[c] = at[c] /\ UNCHANGED lock
                 \/ pc'[c] = "refused" /\ at[c] = 1 /\ UNCHANGED lock
           /\ pc[c] = "rollback" =>
                 \/ pc'[c] = "rollback" /\ at'[c] = at[c] + 1 /\ upto'[c] = upto[c]
                 \/ pc'[c] = "refused" /\ at[c] = upto[c] - 1
           /\ pc[c] = "release" =>
                 \/ pc'[c] = "release" /\ at'[c] = at[c] + 1
                 \/ pc'[c] = "done" /\ at[c] = Len(batch[c])
  <1> USE DEF Locks!TypeOK, Locks!CallsOK, Locks!NextSeat, Locks!Goto, Locks!callVars
  <1>1. CASE Locks!AcquireNext(c)
    BY <1>1 DEF Locks!AcquireNext, Locks!Working
  <1>2. CASE Locks!AcquireRefused(c)
    BY <1>2 DEF Locks!AcquireRefused, Locks!AfterRefusal, Locks!Working
  <1>3. CASE Locks!Rollback(c)
    BY <1>3 DEF Locks!Rollback, Locks!LastTaken, Locks!Working
  <1>4. CASE Locks!ReleaseNext(c)
    BY <1>4 DEF Locks!ReleaseNext, Locks!Working
  <1>5. CASE Locks!ExtendGet(c) \/ Locks!ExtendSet(c)
    BY <1>5 DEF Locks!ExtendGet, Locks!ExtendSet
  <1>6. CASE Locks!SweepGet(c) \/ Locks!SweepDel(c)
    BY <1>6 DEF Locks!SweepGet, Locks!SweepDel
  <1> QED
    BY <1>1, <1>2, <1>3, <1>4, <1>5, <1>6 DEF Locks!Step

LEMMA LockStepKeys ==
    ASSUME TypeInv, KeysInv, NEW c \in Calls, LockStep(c)
    PROVE  KeysInv'
  <1> SUFFICES ASSUME NEW s \in Seats, NEW d \in Calls, lock'[s].by = d
               PROVE  lock'[s].holder = user'[d] /\ Traced(s, d)'
    BY DEF KeysInv
  <1>1. /\ Locks!TypeOK /\ Locks!Step(c) /\ UNCHANGED <<phase, user, batch>>
        /\ Stands(c) /\ phase[c] \in Phases
    BY TypeParts, LockStepMoves DEF TypeInv, LockStep, Standing, TablesOK
  <1>2. CASE d # c
    <2>1. lock'[s] = lock[s]
      BY <1>1, <1>2, KeyAfterStep
    <2>2. UNCHANGED <<pc[d], at[d], upto[d]>>
      BY <1>1, <1>2, LockStepMoves, LoopMoves
    <2> QED
      BY <1>1, <2>1, <2>2 DEF KeysInv, Traced, SeatsOf
  <1>3. CASE d = c /\ lock'[s] = lock[s]
    <2>1. lock[s].holder = user[c] /\ Traced(s, c)
      BY <1>3 DEF KeysInv
    <2>2. pc[c] \in {"rollback", "release"} => batch[c][at[c]] # s
      <3>1. SUFFICES ASSUME pc[c] \in {"rollback", "release"}, batch[c][at[c]] = s PROVE FALSE
        OBVIOUS
      <3> QED
        BY <1>1, <1>3, <2>1, <3>1, KeyAfterStep
    <2>3. at[c] \in Nat \ {0} /\ upto[c] \in Nat /\ Len(batch[c]) \in Nat /\ DOMAIN batch[c] = 1 .. Len(batch[c])
          /\ (pc[c] = "acquire" => at[c] <= Len(batch[c]))
      BY <1>1 DEF Locks!TypeOK, Locks!CallsOK, Locks!Working
    <2>4. CASE phase[c] = "locking" /\ pc[c] = "acquire"
      <3>1. PICK k \in 1 .. at[c] - 1 : batch[c][k] = s
        BY <2>1, <2>4 DEF Traced
      <3>2. k \in 1 .. (at[c] + 1) - 1 /\ at[c] # 1 /\ k \in DOMAIN batch[c]
        BY <2>3, <2>4, <3>1
      <3>3. \/ pc'[c] = "acquire" /\ at'[c] = at[c] + 1
            \/ pc'[c] = "granted"
            \/ pc'[c] = "rollback" /\ at'[c] = 1 /\ upto'[c] = at[c]
        BY <1>1, <2>4, <3>2, LoopMoves
      <3> QED
        BY <1>1, <1>3, <2>1, <2>4, <3>1, <3>2, <3>3 DEF Traced, SeatsOf
    <2>5. CASE phase[c] = "locking" /\ pc[c] = "rollback"
      <3>1. PICK k \in at[c] .. upto[c] - 1 : batch[c][k] = s
        BY <2>1, <2>5 DEF Traced
      <3>2. k # at[c] /\ k \in at[c] + 1 .. upto[c] - 1
        BY <2>2, <2>3, <2>5, <3>1
      <3>3. pc'[c] = "rollback" /\ at'[c] = at[c] + 1 /\ upto'[c] = upto[c]
        BY <1>1, <2>3, <2>5, <3>2, LoopMoves
      <3> QED
        BY <1>1, <1>3, <2>1, <2>5, <3>1, <3>2, <3>3 DEF Traced
    <2>6. CASE phase[c] = "undo" /\ pc[c] = "release"
      <3>1. PICK k \in at[c] .. Len(batch[c]) : batch[c][k] = s
        BY <2>1, <2>6 DEF Traced
      <3>2. k # at[c] /\ k \in at[c] + 1 .. Len(batch[c])
        BY <2>2, <2>3, <2>6, <3>1
      <3>3. pc'[c] = "release" /\ at'[c] = at[c] + 1
        BY <1>1, <2>3, <2>6, <3>2, LoopMoves
      <3> QED
        BY <1>1, <1>3, <2>1, <2>6, <3>1, <3>2, <3>3 DEF Traced
    <2>7. CASE phase[c] \in {"extending", "extendRows", "ok", "failed"}
      BY <1>1, <1>3, <2>1, <2>7 DEF Traced
    <2>8. CASE phase[c] \in {"dropOld", "create", "mark"}
               \/ (phase[c] = "locking" /\ pc[c] = "granted")
      BY <1>1, <2>8, LockStepMoves DEF Stands, Ended
    <2> QED
      BY <2>1, <2>4, <2>5, <2>6, <2>7, <2>8 DEF Traced
  <1>4. CASE d = c /\ lock'[s] # lock[s]
    <2>1. /\ lock'[s].holder = user[c]
          /\ pc[c] \in {"acquire", "extendSet"} /\ batch[c][at[c]] = s
      BY <1>1, <1>4, KeyAfterStep
    <2>2. /\ pc[c] = "acquire" => phase[c] = "locking"
          /\ pc[c] = "extendSet" => phase[c] = "extending"
      BY <1>1, <2>1 DEF Stands, Phases, Holding, Ended
    <2>3. CASE pc[c] = "extendSet"
      BY <1>1, <1>4, <2>1, <2>2, <2>3 DEF Traced
    <2>4. CASE pc[c] = "acquire"
      <3>1. \/ pc'[c] = "acquire" /\ at'[c] = at[c] + 1
            \/ pc'[c] = "granted"
        BY <1>1, <1>4, <2>4, LoopMoves
      <3>2. /\ at[c] \in 1 .. (at[c] + 1) - 1
            /\ at[c] \in DOMAIN batch[c]
        BY <1>1, <2>4 DEF Locks!TypeOK, Locks!CallsOK, Locks!Working
      <3> QED
        BY <1>1, <1>4, <2>1, <2>2, <2>4, <3>1, <3>2 DEF Traced, SeatsOf
    <2> QED
      BY <2>1, <2>3, <2>4
  <1> QED
    BY <1>2, <1>3, <1>4

\* A step that leaves the keys alone and moves one call on.
LEMMA OthersTraced ==
    ASSUME KeysInv, NEW c \in Calls, UNCHANGED <<lock, user>>,
           \A d \in Calls \ {c} : /\ phase'[d] = phase[d] /\ pc'[d] = pc[d]
                                  /\ batch'[d] = batch[d]
                                  /\ at'[d] = at[d] /\ upto'[d] = upto[d],
           \A s \in Seats : lock[s].by = c /\ Traced(s, c) => Traced(s, c)'
    PROVE  KeysInv'
  BY DEF KeysInv, Traced, SeatsOf

\* A step that moves no call on and writes no key.
LEMMA CallsStandStill ==
    ASSUME KeysInv, UNCHANGED <<user, phase, pc, batch, at, upto>>,
           \A s \in Seats, c \in Calls :
              lock'[s].by = c => lock[s].by = c /\ lock'[s].holder = lock[s].holder
    PROVE  KeysInv'
  <1>1. ASSUME NEW s \in Seats, NEW c \in Calls, Traced(s, c) PROVE Traced(s, c)'
    BY <1>1 DEF Traced, SeatsOf
  <1> QED
    BY <1>1 DEF KeysInv

LEMMA NextKeysInv == TypeInv /\ KeysInv /\ [Next]_vars => KeysInv'
  <1> SUFFICES ASSUME TypeInv, KeysInv, [Next]_vars PROVE KeysInv'
    OBVIOUS
  <1> TablesOK /\ Locks!TypeOK /\ Standing
    BY TypeParts DEF TypeInv
  <1> Requests \subseteq Calls /\ Sweeps \subseteq Calls
    BY DEF Calls
  <1> USE DEF TablesOK, Locks!TypeOK, Locks!CallsOK, Goto, At, LockCall, BreakOff, lockVars
  <1>1. ASSUME NEW c \in Calls, LockStep(c) PROVE KeysInv'
    BY <1>1, LockStepKeys
  <1>2. ASSUME UNCHANGED <<lock, user, phase, pc, batch, at, upto>> PROVE KeysInv'
    BY <1>2, CallsStandStill
  <1>3. ASSUME NEW r \in Requests, Arrive(r) PROVE KeysInv'
    <2>1. \A s \in Seats : ~Traced(s, r)
      BY <1>3 DEF Arrive, Traced
    <2> QED
      BY <1>3, <2>1, OthersTraced DEF Arrive
  <1>4. ASSUME NEW r \in Requests,
               HoldRead(r) \/ DropRows(r) \/ FreeSeats(r) \/ Book(r) \/ Convert(r) \/ CountDown(r)
               \/ Unbook(r) \/ CountUp(r) \/ ReadMap(r) \/ ShowMap(r)
        PROVE  KeysInv'
    <2>1. \A s \in Seats : ~Traced(s, r)
      BY <1>4 DEF HoldRead, DropRows, FreeSeats, Book, Convert, CountDown, Unbook, CountUp,
                  ReadMap, ShowMap, Traced
    <2> QED
      BY <1>4, <2>1, OthersTraced
         DEF HoldRead, DropRows, FreeSeats, Book, Convert, CountDown, Unbook, CountUp, ReadMap,
             ShowMap
  <1>5. ASSUME NEW r \in Requests, LocksGranted(r) \/ DropOld(r) \/ MarkHeld(r) \/ ExtendRows(r)
        PROVE  KeysInv'
    <2>1. \A s \in Seats : Traced(s, r) => Traced(s, r)'
      BY <1>5 DEF LocksGranted, DropOld, MarkHeld, ExtendRows, Traced, SeatsOf
    <2> QED
      BY <1>5, <2>1, OthersTraced DEF LocksGranted, DropOld, MarkHeld, ExtendRows
  <1>6. ASSUME NEW r \in Requests, NEW s \in Seats, CreateRow(r, s) PROVE KeysInv'
    <2>1. \A t \in Seats : Traced(t, r) => Traced(t, r)'
      BY <1>6 DEF CreateRow, Traced, SeatsOf
    <2> QED
      BY <1>6, <2>1, OthersTraced DEF CreateRow
  <1>7. ASSUME NEW r \in Requests, TryFails(r) PROVE KeysInv'
    <2>1. phase[r] \in {"dropOld", "create", "mark"} /\ LockCall(r, batch[r], "release")
          /\ phase' = [phase EXCEPT ![r] = "undo"]
      BY <1>7 DEF TryFails, ReleaseAfterFailure
    <2>2. ASSUME NEW s \in Seats, Traced(s, r) PROVE Traced(s, r)'
      <3>1. PICK k \in 1 .. Len(batch[r]) : batch[r][k] = s
        BY <2>1, <2>2 DEF Traced, SeatsOf
      <3> QED
        BY <2>1, <3>1 DEF Traced
    <2> QED
      BY <2>1, <2>2, OthersTraced
  <1>8. ASSUME NEW r \in Requests, Fail(r) PROVE KeysInv'
    <2>1. \A s \in Seats : Traced(s, r)'
      BY <1>8 DEF Fail, Traced
    <2> QED
      BY <1>8, <2>1, OthersTraced DEF Fail
  <1>9. ASSUME NEW w \in Sweeps, Scan(w) \/ Expire(w) \/ FreeSwept(w) \/ SweepFails(w)
        PROVE  KeysInv'
    <2>1. \A s \in Seats : ~Traced(s, w)
      BY <1>9 DEF Scan, Expire, FreeSwept, SweepFails, Traced
    <2> QED
      BY <1>9, <2>1, OthersTraced DEF Scan, Expire, FreeSwept, SweepFails
  <1>10. CASE Tick
    <2>1. \A s \in Seats, c \in Calls :
             lock'[s].by = c => lock[s].by = c /\ lock'[s].holder = lock[s].holder
      BY <1>10, NoOneAssumption
         DEF Tick, Locks!Tick, Locks!ExpireKeys, Locks!Absent, Locks!KeysOK, Locks!Key, Calls
    <2>2. UNCHANGED <<user, phase, pc, batch, at, upto>>
      BY <1>10 DEF Tick, Locks!Tick, Locks!callVars
    <2> QED
      BY <2>1, <2>2, CallsStandStill
  <1>11. CASE UNCHANGED vars
    BY <1>2, <1>11 DEF vars
  <1>12. ASSUME NEW r \in Requests, Request(r) PROVE KeysInv'
    BY <1>1, <1>2, <1>4, <1>5, <1>6, <1>7, <1>12
       DEF Request, HoldSeats, ReleaseSeats, ConfirmSeats, FreeBookedSeats, GetSeatMap, LookUp
  <1>13. ASSUME NEW w \in Sweeps, ReleaseExpiredHolds(w) \/ SweepFails(w) PROVE KeysInv'
    BY <1>1, <1>9, <1>13 DEF ReleaseExpiredHolds
  <1> QED
    BY <1>3, <1>8, <1>10, <1>11, <1>12, <1>13 DEF Next, Step

\* A hold that is refused has written no record and left no key, and a hold whose database
\* commands failed has left no key once its locks are released (seats.service.ts:168 to 260),
\* for seat lists of any length and whatever runs in between.
THEOREM RefusalsLeaveNoTrace == Spec => []RefusedHoldLeavesNoTrace
  <1>1. Init => KeysInv
    BY NoOneAssumption DEF Init, Locks!Init, Locks!NoKey, Locks!Absent, KeysInv, Calls
  <1>2. ASSUME TypeInv, RowsInv, KeysInv PROVE RefusedHoldLeavesNoTrace
    <2> SUFFICES ASSUME NEW r \in Requests
                 PROVE  /\ RefusedHold(r) => /\ row[r] = [s \in Seats |-> NoRow]
                                             /\ todo[r] = {}
                        /\ RefusedHold(r) \/ (At(r, "undo") /\ pc[r] = "done")
                              => \A s \in Seats : lock[s].by # r
      BY DEF RefusedHoldLeavesNoTrace
    <2>1. RefusedHold(r) => /\ row[r] = [s \in Seats |-> NoRow]
                            /\ todo[r] = {}
      <3>1. row \in [Requests -> [Seats -> HoldRows]]
        BY <1>2, TypeParts DEF TypeInv, TablesOK
      <3> QED
        BY <1>2, <3>1 DEF RefusedHold, At, RowsInv, RowsStand, Inserting
    <2>2. ASSUME RefusedHold(r) \/ (At(r, "undo") /\ pc[r] = "done"), NEW s \in Seats
          PROVE  lock[s].by # r
      BY <1>2, <2>2 DEF RefusedHold, At, KeysInv, Traced, Calls
    <2> QED
      BY <2>1, <2>2
  <1> QED
    BY <1>1, <1>2, HoldsInvariance, NextKeysInv, PTL DEF Spec
-----------------------------------------------------------------------------
(* Sold seats.  A hold has its seats' status from before it asked for the  *)
(* locks, and a seat map from before it looks at them: a sale in between   *)
(* is what each of the two can overlook, and the only thing.               *)

\* Where a request acts on a status it has read.
Watching == Holding \cup {"lookUp"}

Overlooks(r) ==
    /\ phase[r] \in Holding =>
          \A s \in SeatsOf(r) : seat[s] = "BOOKED" => s \in overtaken[r]
    /\ phase[r] = "lookUp" =>
          \A s \in unread[r] : seat[s] = "BOOKED" => s \in overtaken[r]
    /\ \A s \in taken[r] : OutOfReach(r, s)

SoldInv == \A r \in Requests : Overlooks(r)

\* Who sells a seat, and who takes a sale back.
LEMMA SaleSteps ==
    ASSUME TypeInv, [Next]_vars, NEW s \in Seats
    PROVE  \/ seat'[s] = "BOOKED" <=> seat[s] = "BOOKED"
           \/ \E q \in Requests : Book(q) /\ s \in SeatsOf(q) /\ seat'[s] = "BOOKED"
           \/ \E q \in Requests : Unbook(q) \/ (MarkHeld(q) /\ s \in SeatsOf(q))
  <1> DEFINE Same == seat'[s] = "BOOKED" <=> seat[s] = "BOOKED"
  <1> seat \in [Seats -> SeatStatus]
    BY TypeParts DEF TypeInv, TablesOK
  <1>1. ASSUME UNCHANGED seat PROVE Same
    BY <1>1
  <1>2. ASSUME NEW seats, Turn(seats, "HELD", "AVAILABLE") PROVE Same
    BY <1>2 DEF Turn
  <1>3. ASSUME NEW q \in Requests, MarkHeld(q) PROVE Same \/ s \in SeatsOf(q)
    BY <1>3 DEF MarkHeld
  <1>4. ASSUME NEW q \in Requests, Book(q)
        PROVE  Same \/ (s \in SeatsOf(q) /\ seat'[s] = "BOOKED")
    BY <1>4 DEF Book
  <1>5. ASSUME NEW q \in Requests, Request(q)
        PROVE  Same \/ Book(q) \/ Unbook(q) \/ MarkHeld(q)
    BY <1>1, <1>2, <1>5
       DEF Request, LockStep, HoldSeats, HoldRead, LocksGranted, DropOld, CreateRow, TryFails,
           ReleaseSeats, DropRows, FreeSeats, ExtendRows, ConfirmSeats, Convert, CountDown,
           FreeBookedSeats, CountUp, GetSeatMap, ReadMap, LookUp, ShowMap
  <1>6. ASSUME NEW w \in Sweeps, ReleaseExpiredHolds(w) \/ SweepFails(w) PROVE Same
    BY <1>1, <1>2, <1>6 DEF ReleaseExpiredHolds, Scan, Expire, FreeSwept, LockStep, SweepFails
  <1>7. ASSUME NEW q \in Requests, Arrive(q) \/ Fail(q) PROVE Same
    BY <1>1, <1>7 DEF Arrive, Fail
  <1>8. CASE Tick \/ UNCHANGED vars
    BY <1>1, <1>8 DEF Tick, vars
  <1> QED
    BY <1>3, <1>4, <1>5, <1>6, <1>7, <1>8 DEF Next, Step

\* What a request that acts on a status it has read keeps of it.
LEMMA WatchSteps ==
    ASSUME TypeInv, [Next]_vars, NEW r \in Requests, phase'[r] \in Watching
    PROVE  \/ /\ phase[r] \in Watching
              /\ phase[r] = "lookUp" <=> phase'[r] = "lookUp"
              /\ batch'[r] = batch[r]
              /\ overtaken[r] \subseteq overtaken'[r]
              /\ unread'[r] \subseteq unread[r]
           \/ /\ phase'[r] \in Holding /\ phase'[r] # "lookUp" /\ batch'[r] = batch[r]
              /\ ~Unfit(r) /\ UNCHANGED seat
           \/ /\ phase'[r] = "lookUp" /\ UNCHANGED seat
              /\ \A s \in unread'[r] : seat[s] = "AVAILABLE"
  <1> DEFINE Kept == /\ phase[r] \in Watching
                     /\ phase[r] = "lookUp" <=> phase'[r] = "lookUp"
                     /\ batch'[r] = batch[r]
                     /\ overtaken[r] \subseteq overtaken'[r]
                     /\ unread'[r] \subseteq unread[r]
             Read == \/ /\ phase'[r] \in Holding /\ phase'[r] # "lookUp" /\ batch'[r] = batch[r]
                        /\ ~Unfit(r) /\ UNCHANGED seat
                     \/ /\ phase'[r] = "lookUp" /\ UNCHANGED seat
                        /\ \A s \in unread'[r] : seat[s] = "AVAILABLE"
  <1> TablesOK /\ Locks!TypeOK /\ Requests \subseteq Calls /\ Sweeps \subseteq Calls
    BY TypeParts DEF TypeInv, Calls
  <1> USE DEF Watching, Holding
  <1>1. ASSUME UNCHANGED <<phase[r], batch[r], overtaken[r], unread[r]>> PROVE Kept
    BY <1>1
  <1>2. ASSUME NEW c \in Calls, LockStep(c) PROVE Kept
    BY <1>1, <1>2, LockStepMoves DEF LockStep
  <1>3. ASSUME NEW c \in Calls \ {r}, UNCHANGED <<overtaken, unread>>,
               \A d \in Calls \ {c} : phase'[d] = phase[d] /\ batch'[d] = batch[d]
        PROVE  Kept
    BY <1>1, <1>3
  <1>4. ASSUME NEW q \in Requests, Arrive(q) PROVE Kept
    <2>1. CASE q = r
      <3>1. PICK a \in Script[r] :
               \/ a.op = "hold" /\ Goto(r, "readSeats")
               \/ a.op = "confirm" /\ Goto(r, "book")
               \/ a.op = "free" /\ Goto(r, "unbook")
               \/ a.op = "map" /\ Goto(r, "readMap")
               \/ Goto(r, "unlock") \/ Goto(r, "extending")
        BY <1>4, <2>1 DEF Arrive
      <3>2. ASSUME NEW where, Goto(r, where) PROVE phase'[r] = where
        BY <3>2 DEF Goto, TablesOK
      <3>3. phase'[r] \in {"readSeats", "book", "unbook", "readMap", "unlock", "extending"}
        BY <3>1, <3>2
      <3> QED
        BY <3>3
    <2>2. CASE q # r
      <3>1. PICK where, b : Goto(q, where) /\ batch' = [batch EXCEPT ![q] = b]
        BY <1>4 DEF Arrive, LockCall
      <3>2. \A d \in Calls \ {q} : phase'[d] = phase[d] /\ batch'[d] = batch[d]
        BY <3>1 DEF Goto, TablesOK, Locks!TypeOK, Locks!CallsOK
      <3>3. UNCHANGED <<overtaken, unread>>
        BY <1>4 DEF Arrive, mapVars
      <3> QED
        BY <1>3, <2>2, <3>2, <3>3
    <2> QED
      BY <2>1, <2>2
  <1> USE DEF TablesOK, Locks!TypeOK, Locks!CallsOK, Goto, LockCall, BreakOff, lockVars, mapVars, At
  <1>5. ASSUME NEW q \in Requests, HoldRead(q) PROVE Kept \/ Read
    <2>1. CASE q = r
      BY <1>5, <2>1 DEF HoldRead
    <2>2. CASE q # r
      BY <1>3, <1>5, <2>2 DEF HoldRead
    <2> QED
      BY <2>1, <2>2
  <1>6. ASSUME NEW q \in Requests,
               LocksGranted(q) \/ DropOld(q) \/ MarkHeld(q) \/ TryFails(q) \/ ExtendRows(q)
        PROVE  Kept
    <2>1. CASE q = r
      BY <1>6, <2>1
         DEF LocksGranted, DropOld, MarkHeld, TryFails, ReleaseAfterFailure, ExtendRows
    <2>2. CASE q # r
      BY <1>3, <1>6, <2>2
         DEF LocksGranted, DropOld, MarkHeld, TryFails, ReleaseAfterFailure, ExtendRows
    <2> QED
      BY <2>1, <2>2
  <1>7. ASSUME NEW q \in Requests, NEW s \in Seats, CreateRow(q, s) PROVE Kept
    BY <1>7 DEF CreateRow
  <1>8. ASSUME NEW q \in Requests,
               DropRows(q) \/ FreeSeats(q) \/ Convert(q) \/ CountDown(q) \/ Unbook(q) \/ CountUp(q)
        PROVE  Kept
    <2>1. CASE q = r
      BY <1>8, <2>1 DEF DropRows, FreeSeats, Convert, CountDown, Unbook, CountUp
    <2>2. CASE q # r
      BY <1>3, <1>8, <2>2 DEF DropRows, FreeSeats, Convert, CountDown, Unbook, CountUp
    <2> QED
      BY <2>1, <2>2
  <1>9. ASSUME NEW q \in Requests, Book(q) PROVE Kept
    BY <1>9 DEF Book
  <1>10. ASSUME NEW q \in Requests, ReadMap(q) PROVE Kept \/ Read
    BY <1>10 DEF ReadMap
  <1>11. ASSUME NEW q \in Requests, NEW s \in Seats, LookUp(q, s) PROVE Kept
    BY <1>11 DEF LookUp
  <1>12. ASSUME NEW q \in Requests, ShowMap(q) \/ Fail(q) PROVE Kept
    BY <1>12 DEF ShowMap, Fail, ForgetMap
  <1>13. ASSUME NEW w \in Sweeps, Scan(w) \/ Expire(w) \/ FreeSwept(w) \/ SweepFails(w) PROVE Kept
    <2>1. w \in Calls \ {r}
      BY RequestsAssumption
    <2> QED
      BY <1>3, <1>13, <2>1 DEF Scan, Expire, FreeSwept, SweepFails
  <1>14. CASE Tick \/ UNCHANGED vars
    BY <1>1, <1>14 DEF Tick, Locks!Tick, Locks!callVars, vars
  <1>15. ASSUME NEW q \in Requests, Request(q) PROVE Kept \/ Read
    BY <1>2, <1>5, <1>6, <1>7, <1>8, <1>9, <1>10, <1>11, <1>12, <1>15
       DEF Request, HoldSeats, ReleaseSeats, ConfirmSeats, FreeBookedSeats, GetSeatMap
  <1>16. ASSUME NEW w \in Sweeps, ReleaseExpiredHolds(w) \/ SweepFails(w) PROVE Kept
    BY <1>2, <1>13, <1>16 DEF ReleaseExpiredHolds
  <1>17. Kept \/ Read
    BY <1>4, <1>12, <1>14, <1>15, <1>16 DEF Next, Step
  <1> QED
    BY <1>17

\* A step that takes a seat back into a user's reach strikes it off his list.
LEMMA TakenSteps ==
    ASSUME TypeInv, [Next]_vars, NEW r \in Requests, \A s \in taken[r] : OutOfReach(r, s)
    PROVE  \A s \in taken'[r] : OutOfReach(r, s)'
  <1> DEFINE Kept == \A s \in taken'[r] : OutOfReach(r, s)'
  <1> TablesOK /\ Locks!TypeOK /\ Requests \subseteq Calls /\ Sweeps \subseteq Calls
    BY TypeParts DEF TypeInv, Calls
  <1>1. ASSUME StillTaken PROVE Kept
    BY <1>1 DEF StillTaken
  <1>2. ASSUME UNCHANGED <<lock, user>>, taken'[r] \subseteq taken[r],
               \A s \in taken[r] : seat[s] = "BOOKED" => seat'[s] = "BOOKED"
        PROVE  Kept
    BY <1>2 DEF OutOfReach, LockedByOther
  <1> USE DEF lockVars, mapVars
  <1>3. ASSUME NEW q \in Requests,
               Arrive(q) \/ HoldRead(q) \/ LocksGranted(q) \/ DropOld(q) \/ TryFails(q)
               \/ DropRows(q) \/ ExtendRows(q) \/ Convert(q) \/ CountDown(q) \/ CountUp(q)
               \/ (\E s \in Seats : CreateRow(q, s))
        PROVE  Kept
    <2>1. UNCHANGED <<lock, user, taken, seat>>
      BY <1>3 DEF Arrive, HoldRead, LocksGranted, DropOld, TryFails, ReleaseAfterFailure,
                  DropRows, ExtendRows, Convert, CountDown, CountUp, CreateRow, LockCall
    <2> QED
      BY <1>2, <2>1
  <1>4. ASSUME NEW seats, Turn(seats, "HELD", "AVAILABLE")
        PROVE  \A s \in taken[r] : seat[s] = "BOOKED" => seat'[s] = "BOOKED"
    BY <1>4 DEF Turn, TablesOK
  <1>5. ASSUME NEW q \in Requests, FreeSeats(q) PROVE Kept
    BY <1>2, <1>4, <1>5 DEF FreeSeats
  <1>6. ASSUME NEW q \in Requests, NEW s \in Seats, LookUp(q, s) PROVE Kept
    BY <1>2, <1>6 DEF LookUp, TablesOK
  <1>7. ASSUME NEW q \in Requests, ReadMap(q) PROVE Kept
    BY <1>7 DEF ReadMap, TablesOK, OutOfReach, LockedByOther
  <1>8. ASSUME NEW q \in Requests, ShowMap(q) \/ Fail(q) PROVE Kept
    <2>1. UNCHANGED <<lock, user, seat>> /\ ForgetMap(q)
      BY <1>8 DEF ShowMap, Fail, BreakOff
    <2>2. taken'[r] \subseteq taken[r]
      BY <2>1 DEF ForgetMap, TablesOK
    <2> QED
      BY <1>2, <2>1, <2>2
  <1>9. ASSUME NEW w \in Sweeps, Scan(w) \/ Expire(w) \/ SweepFails(w) \/ FreeSwept(w) PROVE Kept
    <2>1. UNCHANGED <<lock, user, taken>> /\ (UNCHANGED seat \/ \E q : Turn(q, "HELD", "AVAILABLE"))
      BY <1>9 DEF Scan, Expire, SweepFails, FreeSwept, BreakOff, LockCall
    <2> QED
      BY <1>2, <1>4, <2>1
  <1>10. ASSUME NEW q \in Requests, Request(q) PROVE Kept
    BY <1>1, <1>3, <1>5, <1>6, <1>7, <1>8, <1>10
       DEF Request, LockStep, HoldSeats, MarkHeld, ReleaseSeats, ConfirmSeats, Book,
           FreeBookedSeats, Unbook, GetSeatMap
  <1>11. ASSUME NEW w \in Sweeps, ReleaseExpiredHolds(w) \/ SweepFails(w) PROVE Kept
    BY <1>1, <1>9, <1>11 DEF ReleaseExpiredHolds, LockStep
  <1>12. CASE UNCHANGED vars
    BY <1>2, <1>12 DEF vars
  <1> QED
    BY <1>1, <1>3, <1>8, <1>10, <1>11, <1>12 DEF Next, Step, Tick

LEMMA NextSoldInv == TypeInv /\ SoldInv /\ [Next]_vars => SoldInv'
  <1> SUFFICES ASSUME TypeInv, SoldInv, [Next]_vars, NEW r \in Requests PROVE Overlooks(r)'
    BY DEF SoldInv
  <1> TablesOK /\ Locks!TypeOK /\ Requests \subseteq Calls /\ Sweeps \subseteq Calls
    BY TypeParts DEF TypeInv, Calls
  <1>1. Overlooks(r)
    BY DEF SoldInv
  <1>2. SeatsOf(r) \subseteq Seats /\ unread[r] \subseteq Seats /\ taken[r] \subseteq Seats
    BY DEF TablesOK, Locks!TypeOK, Locks!CallsOK, SeatsOf
  \* A seat on which the request acts, and that becomes BOOKED, is overtaken.
  <1>3. ASSUME NEW s \in Seats, seat[s] = "BOOKED" => s \in overtaken[r],
               phase[r] \in Watching, overtaken[r] \subseteq overtaken'[r], seat'[s] = "BOOKED"
        PROVE  s \in overtaken'[r]
    <2>1. CASE seat[s] = "BOOKED"
      BY <1>3, <2>1
    <2>2. ASSUME NEW q \in Requests, Book(q), s \in SeatsOf(q) PROVE s \in overtaken'[r]
      BY <1>3, <2>2 DEF Book, Watching
    <2>3. ASSUME NEW q \in Requests, Unbook(q) PROVE seat[s] = "BOOKED"
      BY <1>3, <2>3 DEF Unbook, Turn
    <2>4. ASSUME NEW q \in Requests, MarkHeld(q), s \in SeatsOf(q) PROVE FALSE
      BY <1>3, <2>4 DEF MarkHeld, TablesOK
    <2> QED
      BY <1>3, <2>1, <2>2, <2>3, <2>4, SaleSteps
  <1>4. CASE phase'[r] \in Watching
    <2>1. phase'[r] \in Holding =>
             \A s \in SeatsOf(r)' : seat'[s] = "BOOKED" => s \in overtaken'[r]
      <3> SUFFICES ASSUME phase'[r] \in Holding, NEW s \in SeatsOf(r)', seat'[s] = "BOOKED"
                   PROVE  s \in overtaken'[r]
        OBVIOUS
      <3>1. phase'[r] # "lookUp"
        BY DEF Holding
      <3>2. CASE /\ phase[r] \in Watching /\ phase[r] # "lookUp" /\ batch'[r] = batch[r]
                 /\ overtaken[r] \subseteq overtaken'[r]
        <4>1. s \in SeatsOf(r)
          BY <3>2 DEF SeatsOf
        <4> QED
          BY <1>1, <1>2, <1>3, <3>2, <4>1 DEF Overlooks, Watching
      <3>3. CASE batch'[r] = batch[r] /\ ~Unfit(r) /\ UNCHANGED seat
        BY <3>3 DEF Unfit, SeatsOf
      <3> QED
        BY <1>4, <3>1, <3>2, <3>3, WatchSteps
    <2>2. phase'[r] = "lookUp" =>
             \A s \in unread'[r] : seat'[s] = "BOOKED" => s \in overtaken'[r]
      <3> SUFFICES ASSUME phase'[r] = "lookUp", NEW s \in unread'[r], seat'[s] = "BOOKED"
                   PROVE  s \in overtaken'[r]
        OBVIOUS
      <3>1. phase'[r] \notin Holding
        BY DEF Holding
      <3>2. CASE /\ phase[r] = "lookUp" /\ unread'[r] \subseteq unread[r]
                 /\ overtaken[r] \subseteq overtaken'[r]
        BY <1>1, <1>2, <1>3, <3>2 DEF Overlooks, Watching
      <3>3. CASE UNCHANGED seat /\ \A t \in unread'[r] : seat[t] = "AVAILABLE"
        BY <3>3
      <3> QED
        BY <1>4, <3>1, <3>2, <3>3, WatchSteps
    <2> QED
      BY <2>1, <2>2, TakenSteps, <1>1 DEF Overlooks
  <1>5. CASE phase'[r] \notin Watching
    BY <1>1, <1>5, TakenSteps DEF Overlooks, Watching
  <1> QED
    BY <1>4, <1>5

LEMMA SalesInvariance == Spec => [](TypeInv /\ SoldInv)
  <1>1. Init => SoldInv
    BY DEF Init, SoldInv, Overlooks, Holding, Calls
  <1> QED
    BY <1>1, InitTypeInv, NextTypeInv, NextSoldInv, PTL DEF Spec

\* A BOOKED seat is un-booked by a cancellation, or by a hold whose look at the seat's status
\* (seats.service.ts:183) is older than the sale; never by a sweep or a release, whose
\* updates ask for the status HELD (seats.service.ts:283, 424).
THEOREM SalesAreFinal == Spec => SoldUnlessOvertaken
  <1>1. ASSUME TypeInv, SoldInv, [Next]_vars
        PROVE  \A s \in Seats :
                  seat[s] = "BOOKED" /\ seat'[s] # "BOOKED"
                      => \E r \in Requests : \/ Unbook(r)
                                             \/ MarkHeld(r) /\ s \in overtaken[r]
    <2> SUFFICES ASSUME NEW s \in Seats, seat[s] = "BOOKED", seat'[s] # "BOOKED"
                 PROVE  \E r \in Requests : Unbook(r) \/ (MarkHeld(r) /\ s \in overtaken[r])
      OBVIOUS
    <2>1. ASSUME NEW r \in Requests, MarkHeld(r), s \in SeatsOf(r) PROVE s \in overtaken[r]
      BY <1>1, <2>1 DEF MarkHeld, At, SoldInv, Overlooks, Holding
    <2> QED
      BY <1>1, <2>1, SaleSteps
  <1> QED
    BY <1>1, SalesInvariance, PTL DEF Spec, SoldUnlessOvertaken

\* A seat map offers a seat that was out of the user's reach all along, by its status or by
\* another's lock, only if it was sold while the map was being read
\* (seats.service.ts:103 to 150).
THEOREM MapsOfferWithinReach == Spec => OfferedWithinReach
  <1>1. ASSUME TypeInv, SoldInv
        PROVE  \A r \in Requests, s \in Seats :
                  LookUp(r, s) /\ shown'[r][s] = "AVAILABLE" /\ s \in taken[r]
                      => s \in overtaken[r]
    <2> SUFFICES ASSUME NEW r \in Requests, NEW s \in Seats,
                        LookUp(r, s), shown'[r][s] = "AVAILABLE", s \in taken[r]
                 PROVE  s \in overtaken[r]
      OBVIOUS
    <2>1. ~LockedByOther(r, s)
      BY <1>1, TypeParts DEF LookUp, Seen, TypeInv, TablesOK
    <2>2. seat[s] = "BOOKED"
      BY <1>1, <2>1 DEF SoldInv, Overlooks, OutOfReach
    <2> QED
      BY <1>1, <2>2 DEF LookUp, At, SoldInv, Overlooks
  <1> QED
    BY <1>1, SalesInvariance, PTL DEF Spec, OfferedWithinReach
-----------------------------------------------------------------------------
(* What a module built on this one needs of the operations: the user of a  *)
(* call stays, and how a call comes to the steps that sell and free seats. *)

Selling == {"book", "convert", "unlockBooked", "unbook", "countUp"}

LEMMA UserSteps == TypeInv /\ [Next]_vars => UNCHANGED user
  <1> SUFFICES ASSUME TypeInv, [Next]_vars PROVE UNCHANGED user
    OBVIOUS
  <1> USE DEF lockVars, LockCall, BreakOff
  <1>1. ASSUME NEW c \in Calls, LockStep(c) PROVE UNCHANGED user
    BY <1>1, LockStepMoves, TypeParts DEF LockStep, TypeInv
  <1>2. ASSUME NEW r \in Requests, HoldSeats(r) PROVE UNCHANGED user
    BY <1>2 DEF HoldSeats, HoldRead, LocksGranted, DropOld, MarkHeld, TryFails,
                ReleaseAfterFailure, CreateRow
  <1>3. ASSUME NEW r \in Requests,
               ReleaseSeats(r) \/ ExtendRows(r) \/ ConfirmSeats(r) \/ FreeBookedSeats(r)
        PROVE  UNCHANGED user
    BY <1>3 DEF ReleaseSeats, DropRows, FreeSeats, ExtendRows, ConfirmSeats, Book, Convert,
                CountDown, FreeBookedSeats, Unbook, CountUp
  <1>4. ASSUME NEW r \in Requests, GetSeatMap(r) \/ Arrive(r) \/ Fail(r) PROVE UNCHANGED user
    BY <1>4 DEF GetSeatMap, ReadMap, LookUp, ShowMap, Arrive, Fail
  <1>5. ASSUME NEW w \in Sweeps, ReleaseExpiredHolds(w) \/ SweepFails(w) PROVE UNCHANGED user
    BY <1>1, <1>5 DEF ReleaseExpiredHolds, Scan, Expire, FreeSwept, SweepFails, Calls
  <1>6. CASE Tick \/ UNCHANGED vars
    BY <1>6 DEF Tick, Locks!Tick, Locks!callVars, vars
  <1> QED
    BY <1>1, <1>2, <1>3, <1>4, <1>5, <1>6 DEF Next, Step, Request, Calls

LEMMA OperationSteps ==
    ASSUME TypeInv, [Next]_vars, NEW r \in Requests
    PROVE  \/ phase'[r] = phase[r] /\ batch'[r] = batch[r]
           \/ /\ phase[r] = "idle"
              /\ \E a \in Script[r] : phase'[r] \in Selling => a.op \in {"confirm", "free"}
           \/ /\ phase[r] \in Selling /\ phase'[r] \in (Selling \ {"book"}) \cup {"ok", "failed"}
              /\ phase'[r] = "convert" => phase[r] = "book" /\ batch'[r] = batch[r]
           \/ /\ phase[r] \notin Selling \cup Ended \cup {"idle"}
              /\ phase'[r] \notin Selling \cup {"idle"}
  <1> DEFINE Stays == phase'[r] = phase[r] /\ batch'[r] = batch[r]
             Arrives == /\ phase[r] = "idle"
                        /\ \E a \in Script[r] :
                              phase'[r] \in Selling => a.op \in {"confirm", "free"}
             Sells == /\ phase[r] \in Selling
                      /\ phase'[r] \in (Selling \ {"book"}) \cup {"ok", "failed"}
                      /\ phase'[r] = "convert" => phase[r] = "book" /\ batch'[r] = batch[r]
             Else == /\ phase[r] \notin Selling \cup Ended \cup {"idle"}
                     /\ phase'[r] \notin Selling \cup {"idle"}
             Fine == Stays \/ Arrives \/ Sells \/ Else
  <1> TablesOK /\ Locks!TypeOK /\ Requests \subseteq Calls /\ Sweeps \subseteq Calls
    BY TypeParts DEF TypeInv, Calls
  <1>1. ASSUME NEW c \in Calls, LockStep(c) PROVE Stays
    BY <1>1, LockStepMoves DEF LockStep
  <1>2. ASSUME NEW c \in Calls \ {r},
               \A d \in Calls \ {c} : phase'[d] = phase[d] /\ batch'[d] = batch[d]
        PROVE  Stays
    BY <1>2
  <1>3. ASSUME NEW c \in Calls, NEW where, Goto(c, where),
               UNCHANGED batch \/ \E b : batch' = [batch EXCEPT ![c] = b]
        PROVE  /\ phase'[c] = where
               /\ c # r => Stays
    BY <1>2, <1>3 DEF Goto, TablesOK, Locks!TypeOK, Locks!CallsOK
  <1>4. ASSUME NEW q \in Requests, Arrive(q) PROVE Stays \/ Arrives
    <2>1. PICK a \in Script[q], where \in Phases :
             /\ Goto(q, where)
             /\ where \in Selling => a.op \in {"confirm", "free"}
             /\ \E b : batch' = [batch EXCEPT ![q] = b]
      <3>1. PICK a \in Script[q] :
               \/ a.op = "hold" /\ Goto(q, "readSeats")
               \/ a.op = "confirm" /\ Goto(q, "book")
               \/ a.op = "free" /\ Goto(q, "unbook")
               \/ a.op = "map" /\ Goto(q, "readMap")
               \/ Goto(q, "unlock") \/ Goto(q, "extending")
        BY <1>4 DEF Arrive
      <3>2. \E b : batch' = [batch EXCEPT ![q] = b]
        BY <1>4 DEF Arrive, LockCall
      <3> QED
        BY <3>1, <3>2 DEF Selling, Phases
    <2> QED
      BY <1>3, <1>4, <2>1 DEF Arrive, At
  <1> USE DEF At, LockCall, lockVars
  <1>5. ASSUME NEW q \in Requests,
               HoldRead(q) \/ LocksGranted(q) \/ DropOld(q) \/ MarkHeld(q) \/ TryFails(q)
               \/ DropRows(q) \/ FreeSeats(q) \/ ExtendRows(q)
        PROVE  Stays \/ Else
    <2>1. PICK where :
             /\ Goto(q, where)
             /\ UNCHANGED batch \/ \E b : batch' = [batch EXCEPT ![q] = b]
             /\ where \notin Selling \cup {"idle"}
             /\ phase[q] \notin Selling \cup Ended \cup {"idle"}
      BY <1>5 DEF HoldRead, LocksGranted, DropOld, MarkHeld, TryFails, ReleaseAfterFailure,
                  DropRows, FreeSeats, ExtendRows, Selling, Ended
    <2> QED
      BY <1>3, <2>1
  <1>6. ASSUME NEW q \in Requests, NEW s \in Seats, CreateRow(q, s) PROVE Stays \/ Else
    <2>1. CASE UNCHANGED phase
      BY <1>6, <2>1 DEF CreateRow
    <2>2. CASE phase[q] = "create" /\ Goto(q, "mark")
      BY <1>3, <1>6, <2>2 DEF CreateRow, Selling, Ended
    <2> QED
      BY <1>6, <2>1, <2>2 DEF CreateRow
  <1>7. ASSUME NEW q \in Requests, ConfirmSeats(q) \/ FreeBookedSeats(q) PROVE Stays \/ Sells
    <2>1. PICK where :
             /\ Goto(q, where)
             /\ UNCHANGED batch \/ batch' = [batch EXCEPT ![q] = batch[q]]
             /\ phase[q] \in Selling /\ where \in (Selling \ {"book"}) \cup {"ok"}
             /\ where = "convert" => phase[q] = "book"
      BY <1>7 DEF ConfirmSeats, Book, Convert, CountDown, FreeBookedSeats, Unbook, CountUp,
                  Selling
    <2>2. batch'[q] = batch[q]
      BY <2>1 DEF Locks!TypeOK, Locks!CallsOK
    <2> QED
      BY <1>3, <2>1, <2>2
  <1>8. ASSUME NEW q \in Requests, ReadMap(q) \/ ShowMap(q) PROVE Stays \/ Else
    <2>1. PICK where : /\ Goto(q, where) /\ UNCHANGED batch
                       /\ where \notin Selling \cup {"idle"}
                       /\ phase[q] \notin Selling \cup Ended \cup {"idle"}
      BY <1>8 DEF ReadMap, ShowMap, Selling, Ended
    <2> QED
      BY <1>3, <2>1
  <1>9. ASSUME NEW q \in Requests, Fail(q) PROVE Fine
    <2>1. /\ Goto(q, "failed") /\ \E b : batch' = [batch EXCEPT ![q] = b]
          /\ phase[q] \notin Ended \cup {"idle"}
      BY <1>9 DEF Fail, BreakOff, Alive
    <2> QED
      BY <1>3, <2>1 DEF Selling
  <1>10. ASSUME NEW w \in Sweeps, Scan(w) \/ Expire(w) \/ FreeSwept(w) \/ SweepFails(w) PROVE Stays
    <2>1. w \in Calls \ {r}
      BY RequestsAssumption
    <2>2. /\ \E where : Goto(w, where)
          /\ UNCHANGED batch \/ \E b : batch' = [batch EXCEPT ![w] = b]
      BY <1>10 DEF Scan, Expire, FreeSwept, SweepFails, BreakOff
    <2> QED
      BY <1>3, <2>1, <2>2
  <1>11. CASE Tick \/ UNCHANGED vars
    BY <1>11 DEF Tick, Locks!Tick, Locks!callVars, vars
  <1>12. ASSUME NEW q \in Requests, Request(q) PROVE Fine
    BY <1>1, <1>5, <1>6, <1>7, <1>8, <1>12
       DEF Request, HoldSeats, ReleaseSeats, GetSeatMap, LookUp
  <1>13. ASSUME NEW w \in Sweeps, ReleaseExpiredHolds(w) \/ SweepFails(w) PROVE Stays
    BY <1>1, <1>10, <1>13 DEF ReleaseExpiredHolds
  <1>14. Fine
    BY <1>4, <1>9, <1>11, <1>12, <1>13 DEF Next, Step
  <1> QED
    BY <1>14
=============================================================================
