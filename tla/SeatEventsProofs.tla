-------------------------- MODULE SeatEventsProofs --------------------------
(***************************************************************************)
(* What those who follow a trip may rely on, for any number of seats,      *)
(* users, requests and sweeps.  The types are taken from SeatHoldProofs.   *)
(***************************************************************************)
EXTENDS SeatEvents, SeatHoldProofs

LEMMA EventSteps == [EventNext]_eventVars => [Next]_vars
  BY DEF EventNext, SeatStep, Broadcast, NoBroadcast, eventVars, newsVars

LEMMA EventTypes == EventSpec => []TypeInv
  BY EventSteps, InitTypeInv, NextTypeInv, PTL DEF EventSpec, EventInit
-----------------------------------------------------------------------------
(* The inductive invariant.                                                *)

NewsOK ==
    /\ unsent \in [Calls -> SeatStatus \cup {Nothing}]
    /\ told \in [Seats -> SeatStatus]
    /\ author \in [Seats -> Calls \cup {NoOne}]
    /\ heard \in [Seats -> SUBSET Calls]

SweepPhases == {"expire", "freeSwept", "sweeping"}

\* Requests and sweeps keep to their own steps.
Apart == /\ \A r \in Requests : phase[r] \notin SweepPhases
         /\ \A w \in Sweeps : phase[w] \in SweepPhases \cup {"idle"}

Swept(c) == phase[c] = "sweeping" /\ pc[c] = "done"

\* Who has an event to broadcast is done with his commands.
Posts(c) == unsent[c] # Nothing => phase[c] = "ok" \/ (Swept(c) /\ unsent[c] = "AVAILABLE")

\* Where a request stands once it has changed a seat's status.
Telling == {"convert", "unlockBooked", "countUp", "ok"}

\* The call is about to broadcast what the seat is, or will be.
Owes(c, s) ==
    /\ s \in SeatsOf(c)
    /\ \/ unsent[c] = seat[s]
       \/ phase[c] \in {"convert", "unlockBooked"} /\ seat[s] = "BOOKED"
       \/ phase[c] = "countUp" /\ seat[s] = "AVAILABLE"
       \/ phase[c] = "sweeping" /\ pc[c] # "done" /\ seat[s] = "AVAILABLE"

\* What holds of a seat and the call that changed it last.
Follows(s, c) ==
    /\ c \in Requests => /\ phase[c] \in Telling
                         /\ c \in heard[s] => phase[c] = "ok" /\ unsent[c] = Nothing
    /\ c \in Sweeps => seat[s] = "AVAILABLE"
    /\ c \notin heard[s] => Owes(c, s)
    /\ heard[s] = {c} => told[s] = seat[s]

NewsInv ==
    /\ NewsOK
    /\ Apart
    /\ \A c \in Calls : Posts(c)
    /\ \A s \in Seats, c \in Calls : author[s] = c => Follows(s, c)
-----------------------------------------------------------------------------
(* How a step of SeatHold moves the calls.                                 *)

Quiet(c) == /\ phase'[c] = phase[c] /\ batch'[c] = batch[c]
            /\ pc[c] = "done" => pc'[c] = "done"

Quieted(c) == \A d \in Calls \ {c} : Quiet(d)

\* The call gives some of its seats this status, and touches no other.
Changes(c, status) ==
    /\ batch'[c] = batch[c]
    /\ \A s \in Seats : seat'[s] # seat[s] => s \in SeatsOf(c) /\ seat'[s] = status

\* On the way to a change, or without any.
Prepares(r) == /\ phase[r] \notin Telling \cup {"freeSeats"}
               /\ phase[r] = "mark" => phase'[r] # "ok"
               /\ phase'[r] \notin SweepPhases \cup {phase[r]}
               /\ UNCHANGED seat

RequestActs(r) ==
    \/ Prepares(r)
    \/ phase[r] \notin {"ok", "failed"} /\ phase'[r] = "failed" /\ UNCHANGED seat
    \/ phase[r] = "mark" /\ phase'[r] = "ok" /\ Changes(r, "HELD")
    \/ phase[r] = "freeSeats" /\ phase'[r] = "ok" /\ Changes(r, "AVAILABLE")
    \/ phase[r] = "book" /\ phase'[r] = "convert" /\ Changes(r, "BOOKED")
    \/ phase[r] = "unbook" /\ phase'[r] = "countUp" /\ Changes(r, "AVAILABLE")
    \/ /\ \/ phase[r] = "convert" /\ phase'[r] = "unlockBooked"
          \/ phase[r] \in {"unlockBooked", "countUp"} /\ phase'[r] = "ok"
       /\ batch'[r] = batch[r] /\ UNCHANGED seat

SweepActs(w) ==
    \/ /\ phase[w] = "idle" \/ Swept(w)
       /\ phase'[w] = "expire" /\ UNCHANGED seat
    \/ phase[w] = "expire" /\ phase'[w] = "freeSwept" /\ UNCHANGED seat
    \/ /\ phase[w] = "freeSwept" /\ phase'[w] = "sweeping" /\ pc'[w] # "done"
       /\ Changes(w, "AVAILABLE")
    \/ /\ phase[w] # "idle" /\ ~Swept(w) /\ phase'[w] = "idle" /\ pc'[w] # "done"
       /\ UNCHANGED seat

LEMMA Moves ==
    ASSUME TypeInv, Apart, Next
    PROVE  \/ UNCHANGED seat /\ \A c \in Calls : Quiet(c)
           \/ \E r \in Requests : RequestActs(r) /\ Quieted(r)
           \/ \E w \in Sweeps : SweepActs(w) /\ Quieted(w)
  <1> DEFINE Still == UNCHANGED seat /\ \A c \in Calls : Quiet(c)
             Requested == \E r \in Requests : RequestActs(r) /\ Quieted(r)
             Sweeping == \E w \in Sweeps : SweepActs(w) /\ Quieted(w)
  <1> TablesOK /\ Locks!TypeOK /\ Requests \subseteq Calls /\ Sweeps \subseteq Calls
    BY TypeParts DEF TypeInv, Calls
  <1>1. ASSUME NEW c \in Calls, LockStep(c) PROVE Still
    BY <1>1, LockStepMoves DEF LockStep, Quiet
  <1>2. ASSUME NEW c \in Calls, NEW where, Goto(c, where),
               UNCHANGED batch \/ \E b : batch' = [batch EXCEPT ![c] = b],
               UNCHANGED pc \/ \E p : pc' = [pc EXCEPT ![c] = p]
        PROVE  phase'[c] = where /\ Quieted(c)
    BY <1>2 DEF Goto, Quieted, Quiet, TablesOK, Locks!TypeOK, Locks!CallsOK
  <1> USE DEF At, LockCall, lockVars
  <1>3. ASSUME NEW r \in Requests, Arrive(r) PROVE Requested
    <2>1. PICK where : /\ Goto(r, where)
                       /\ where \notin SweepPhases \cup {"idle"}
                       /\ \E b : batch' = [batch EXCEPT ![r] = b]
                       /\ UNCHANGED pc \/ \E p : pc' = [pc EXCEPT ![r] = p]
      <3>1. PICK a \in Script[r] :
               \/ /\ a.op = "hold" /\ Goto(r, "readSeats")
                  /\ \E b : batch' = [batch EXCEPT ![r] = b]
                  /\ UNCHANGED pc
               \/ /\ a.op = "confirm" /\ Goto(r, "book")
                  /\ \E b : batch' = [batch EXCEPT ![r] = b]
                  /\ UNCHANGED pc
               \/ /\ a.op = "free" /\ Goto(r, "unbook")
                  /\ \E b : batch' = [batch EXCEPT ![r] = b]
                  /\ UNCHANGED pc
               \/ /\ a.op = "map" /\ Goto(r, "readMap")
                  /\ \E b : batch' = [batch EXCEPT ![r] = b]
                  /\ UNCHANGED pc
               \/ /\ Goto(r, "unlock") \/ Goto(r, "extending")
                  /\ \E b : batch' = [batch EXCEPT ![r] = b]
                  /\ \E p : pc' = [pc EXCEPT ![r] = p]
        BY <1>3 DEF Arrive
      <3> QED
        BY <3>1 DEF SweepPhases
    <2>2. phase'[r] = where /\ Quieted(r)
      BY <1>2, <2>1
    <2>3. phase[r] = "idle" /\ UNCHANGED seat
      BY <1>3 DEF Arrive
    <2> QED
      BY <2>1, <2>2, <2>3 DEF RequestActs, Prepares, Telling
  <1>4. ASSUME NEW r \in Requests,
               HoldRead(r) \/ LocksGranted(r) \/ DropOld(r) \/ TryFails(r) \/ DropRows(r)
               \/ ExtendRows(r) \/ ReadMap(r) \/ ShowMap(r)
        PROVE  Requested
    <2>1. PICK where :
             /\ Goto(r, where)
             /\ UNCHANGED batch \/ \E b : batch' = [batch EXCEPT ![r] = b]
             /\ UNCHANGED pc \/ \E p : pc' = [pc EXCEPT ![r] = p]
             /\ where \notin SweepPhases \cup {phase[r]}
             /\ phase[r] \notin Telling \cup {"freeSeats"}
             /\ phase[r] = "mark" => where # "ok"
             /\ UNCHANGED seat
      BY <1>4 DEF HoldRead, LocksGranted, DropOld, TryFails, ReleaseAfterFailure, DropRows,
                  ExtendRows, ReadMap, ShowMap, SweepPhases, Telling
    <2>2. phase'[r] = where /\ Quieted(r)
      BY <1>2, <2>1
    <2> QED
      BY <2>1, <2>2 DEF RequestActs, Prepares
  <1>5. ASSUME NEW r \in Requests, NEW s \in Seats, CreateRow(r, s) PROVE Still \/ Requested
    <2>1. CASE UNCHANGED phase
      BY <1>5, <2>1 DEF CreateRow, Quiet
    <2>2. CASE phase[r] = "create" /\ Goto(r, "mark")
      <3>1. phase'[r] = "mark" /\ Quieted(r)
        BY <1>2, <1>5, <2>2 DEF CreateRow
      <3> QED
        BY <1>5, <2>2, <3>1 DEF CreateRow, RequestActs, Prepares, SweepPhases, Telling
    <2> QED
      BY <1>5, <2>1, <2>2 DEF CreateRow
  <1>6. ASSUME NEW r \in Requests,
               MarkHeld(r) \/ FreeSeats(r) \/ Book(r) \/ Unbook(r)
        PROVE  Requested
    <2>1. PICK from, where, status :
             /\ phase[r] = from /\ Goto(r, where) /\ UNCHANGED <<batch, pc>>
             /\ \A s \in Seats : seat'[s] # seat[s] => s \in SeatsOf(r) /\ seat'[s] = status
             /\ \/ from = "mark" /\ where = "ok" /\ status = "HELD"
                \/ from = "freeSeats" /\ where = "ok" /\ status = "AVAILABLE"
                \/ from = "book" /\ where = "convert" /\ status = "BOOKED"
                \/ from = "unbook" /\ where = "countUp" /\ status = "AVAILABLE"
      BY <1>6 DEF MarkHeld, FreeSeats, Book, Unbook, Turn
    <2>2. phase'[r] = where /\ Quieted(r)
      BY <1>2, <2>1
    <2>3. Changes(r, status)
      BY <2>1 DEF Changes
    <2> QED
      BY <2>1, <2>2, <2>3 DEF RequestActs
  <1>7. ASSUME NEW r \in Requests, Convert(r) \/ CountDown(r) \/ CountUp(r) PROVE Requested
    <2>1. PICK where :
             /\ Goto(r, where)
             /\ UNCHANGED batch \/ batch' = [batch EXCEPT ![r] = batch[r]]
             /\ UNCHANGED pc \/ \E p : pc' = [pc EXCEPT ![r] = p]
             /\ \/ phase[r] = "convert" /\ where = "unlockBooked"
                \/ phase[r] \in {"unlockBooked", "countUp"} /\ where = "ok"
             /\ UNCHANGED seat
      BY <1>7 DEF Convert, CountDown, CountUp
    <2>2. batch'[r] = batch[r]
      BY <2>1 DEF Locks!TypeOK, Locks!CallsOK
    <2>3. phase'[r] = where /\ Quieted(r)
      BY <1>2, <2>1
    <2> QED
      BY <2>1, <2>2, <2>3 DEF RequestActs
  <1>8. ASSUME NEW r \in Requests, NEW s \in Seats, LookUp(r, s) PROVE Still
    BY <1>8 DEF LookUp, Quiet
  <1>9. ASSUME NEW r \in Requests, Fail(r) PROVE Requested
    <2>1. /\ Goto(r, "failed") /\ \E b : batch' = [batch EXCEPT ![r] = b]
          /\ \E p : pc' = [pc EXCEPT ![r] = p]
          /\ phase[r] \notin {"ok", "failed"} /\ UNCHANGED seat
      BY <1>9 DEF Fail, BreakOff, Alive, Ended
    <2>2. phase'[r] = "failed" /\ Quieted(r)
      BY <1>2, <2>1
    <2> QED
      BY <2>1, <2>2 DEF RequestActs
  <1>10. ASSUME NEW w \in Sweeps, Scan(w) \/ Expire(w) \/ SweepFails(w) PROVE Sweeping
    <2>1. PICK where :
             /\ Goto(w, where)
             /\ UNCHANGED batch \/ \E b : batch' = [batch EXCEPT ![w] = b]
             /\ UNCHANGED pc \/ pc' = [pc EXCEPT ![w] = "idle"]
             /\ \/ (phase[w] = "idle" \/ Swept(w)) /\ where = "expire"
                \/ phase[w] = "expire" /\ where = "freeSwept"
                \/ /\ phase[w] # "idle" /\ ~Swept(w) /\ where = "idle"
                   /\ pc' = [pc EXCEPT ![w] = "idle"]
             /\ UNCHANGED seat
      BY <1>10 DEF Scan, Expire, SweepFails, BreakOff, Swept
    <2>2. phase'[w] = where /\ Quieted(w)
      BY <1>2, <2>1
    <2>3. where = "idle" => pc'[w] # "done"
      BY <2>1 DEF Locks!TypeOK, Locks!CallsOK
    <2> QED
      BY <2>1, <2>2, <2>3 DEF SweepActs
  <1>11. ASSUME NEW w \in Sweeps, FreeSwept(w) PROVE Sweeping
    <2>1. /\ phase[w] = "freeSwept" /\ Goto(w, "sweeping")
          /\ batch' = [batch EXCEPT ![w] = batch[w]] /\ pc' = [pc EXCEPT ![w] = "sweepGet"]
          /\ \A s \in Seats :
                seat'[s] # seat[s] => s \in SeatsOf(w) /\ seat'[s] = "AVAILABLE"
      BY <1>11 DEF FreeSwept, Turn
    <2>2. phase'[w] = "sweeping" /\ Quieted(w)
      BY <1>2, <2>1
    <2>3. Changes(w, "AVAILABLE") /\ pc'[w] # "done"
      BY <2>1 DEF Changes, Locks!TypeOK, Locks!CallsOK
    <2> QED
      BY <2>1, <2>2, <2>3 DEF SweepActs
  <1>12. CASE Tick
    BY <1>12 DEF Tick, Locks!Tick, Locks!callVars, Quiet
  <1>13. ASSUME NEW r \in Requests, Request(r) PROVE Still \/ Requested
    BY <1>1, <1>4, <1>5, <1>6, <1>7, <1>8, <1>13
       DEF Request, HoldSeats, ReleaseSeats, ConfirmSeats, FreeBookedSeats, GetSeatMap
  <1>14. ASSUME NEW w \in Sweeps, ReleaseExpiredHolds(w) \/ SweepFails(w)
         PROVE  Still \/ Sweeping
    BY <1>1, <1>10, <1>11, <1>14 DEF ReleaseExpiredHolds
  <1>15. Still \/ Requested \/ Sweeping
    BY <1>3, <1>9, <1>12, <1>13, <1>14 DEF Next, Step
  <1> QED
    BY <1>15
-----------------------------------------------------------------------------
(* The invariant is kept, step by step.                                    *)

\* The call that the step belongs to, where it changes a seat.
LEMMA ChangerIsAuthor ==
    ASSUME TypeInv, Apart, SeatStep, NEW c \in Calls, Quieted(c), phase'[c] # phase[c],
           NEW s \in Seats
    PROVE  author'[s] = IF seat'[s] # seat[s] THEN c
                        ELSE IF author[s] = c /\ Fails(c) THEN NoOne ELSE author[s]
  <1>1. \A d \in Calls : phase'[d] # phase[d] <=> d = c
    BY DEF Quieted, Quiet
  <1>2. (CHOOSE d \in Calls : phase'[d] # phase[d]) = c
    BY <1>1
  <1>3. (\E d \in Calls : author[s] = d /\ Fails(d)) <=> author[s] = c /\ Fails(c)
    BY <1>1 DEF Fails
  <1>4. author'[s] = IF seat'[s] # seat[s] THEN CHOOSE d \in Calls : phase'[d] # phase[d]
                     ELSE IF \E d \in Calls : author[s] = d /\ Fails(d) THEN NoOne
                     ELSE author[s]
    BY Zenon DEF SeatStep
  <1> QED
    BY <1>2, <1>3, <1>4, Zenon

\* Who only waits, or goes on with his Redis commands, keeps what he owes.
LEMMA QuietFollows ==
    ASSUME TypeInv, NewsInv, SeatStep, NEW c \in Calls, Quiet(c)
    PROVE  /\ Posts(c)'
           /\ \A s \in Seats : Follows(s, c) /\ seat'[s] = seat[s] => Follows(s, c)'
  <1>1. unsent'[c] = IF Finishes(c) THEN Event(phase[c]) ELSE unsent[c]
    BY DEF SeatStep
  <1>2. ~RequestFinishes(c)
    BY DEF RequestFinishes, Quiet
  <1>3. Finishes(c) <=> phase[c] = "sweeping" /\ pc[c] # "done" /\ pc'[c] = "done"
    BY <1>2 DEF Finishes, At
  <1>4. Finishes(c) => unsent'[c] = "AVAILABLE" /\ Swept(c)'
    BY <1>1, <1>3 DEF Event, Swept, Quiet
  <1>5. Posts(c)'
    BY <1>1, <1>4 DEF Posts, Swept, Quiet, NewsInv
  <1>6. ASSUME NEW s \in Seats, Follows(s, c), seat'[s] = seat[s]
        PROVE  Follows(s, c)'
    <2>1. heard'[s] = heard[s] /\ told'[s] = told[s]
      BY <1>6 DEF SeatStep
    <2>2. Owes(c, s) => Owes(c, s)'
      <3>1. SeatsOf(c)' = SeatsOf(c)
        BY DEF SeatsOf, Quiet
      <3>2. CASE Finishes(c)
        <4>1. Owes(c, s) => unsent[c] = seat[s] \/ seat[s] = "AVAILABLE"
          BY <1>3, <3>2 DEF Owes
        <4>2. unsent[c] = Nothing
          BY <1>3, <3>2 DEF NewsInv, Posts, Swept
        <4>3. seat[s] # Nothing
          BY TypeParts DEF TypeInv, TablesOK, SeatStatus, Nothing
        <4> QED
          BY <1>4, <1>6, <3>1, <3>2, <4>1, <4>2, <4>3 DEF Owes
      <3>3. CASE ~Finishes(c)
        BY <1>1, <1>3, <1>6, <3>1, <3>3 DEF Owes, Quiet
      <3> QED
        BY <3>2, <3>3
    <2>3. c \in Requests => ~Finishes(c)
      BY <1>3 DEF NewsInv, Apart, SweepPhases
    <2> QED
      BY <1>1, <1>6, <2>1, <2>2, <2>3 DEF Follows, Quiet
  <1> QED
    BY <1>5, <1>6

\* The steps of a request that change something of it.
LEMMA ActsFollow ==
    ASSUME TypeInv, NewsInv, SeatStep, NEW r \in Requests, RequestActs(r), Quieted(r),
           phase'[r] # phase[r]
    PROVE  /\ Posts(r)' /\ phase'[r] \notin SweepPhases
           /\ \A s \in Seats : author'[s] = r => Follows(s, r)'
  <1> r \in Calls /\ r \notin Sweeps
    BY RequestsAssumption DEF Calls
  <1> TablesOK /\ NewsOK
    BY TypeParts DEF TypeInv, NewsInv
  <1>1. unsent[r] = Nothing /\ phase[r] \notin SweepPhases
    BY DEF SeatStep, NewsInv, Apart
  <1>2. Finishes(r) <=> RequestFinishes(r)
    BY <1>1 DEF Finishes, At, SweepPhases
  <1>3. unsent'[r] = IF RequestFinishes(r) THEN Event(phase[r]) ELSE Nothing
    BY <1>1, <1>2 DEF SeatStep
  <1>4. Posts(r)'
    BY <1>3 DEF Posts, RequestFinishes
  <1>5. phase'[r] \notin SweepPhases
    BY DEF RequestActs, Prepares, SweepPhases
  <1>6. ASSUME NEW s \in Seats, author'[s] = r PROVE Follows(s, r)'
    <2>1. CASE seat'[s] # seat[s]
      <3>1. heard'[s] = {}
        BY <2>1 DEF SeatStep
      <3>2. PICK status \in SeatStatus :
               /\ Changes(r, status)
               /\ \/ phase[r] = "mark" /\ phase'[r] = "ok" /\ status = "HELD"
                  \/ phase[r] = "freeSeats" /\ phase'[r] = "ok" /\ status = "AVAILABLE"
                  \/ phase[r] = "book" /\ phase'[r] = "convert" /\ status = "BOOKED"
                  \/ phase[r] = "unbook" /\ phase'[r] = "countUp" /\ status = "AVAILABLE"
        BY <2>1 DEF RequestActs, Prepares, SeatStatus
      <3>3. seat'[s] = status /\ s \in SeatsOf(r)'
        BY <2>1, <3>2 DEF Changes, SeatsOf
      <3>4. phase'[r] = "ok" => unsent'[r] = status
        BY <1>3, <3>2 DEF RequestFinishes, Event
      <3>5. Owes(r, s)'
        BY <3>2, <3>3, <3>4 DEF Owes
      <3>6. phase'[r] \in Telling
        BY <3>2 DEF Telling
      <3> QED
        BY <3>1, <3>5, <3>6 DEF Follows
    <2>2. CASE seat'[s] = seat[s]
      <3>1. author[s] = r /\ ~Fails(r)
        BY <1>6, <2>2, ChangerIsAuthor, NoOneAssumption DEF NewsInv
      <3>2. Follows(s, r)
        BY <3>1 DEF NewsInv
      <3>3. phase[r] \in {"convert", "unlockBooked", "countUp"} /\ r \notin heard[s]
        BY <3>1, <3>2 DEF Follows, Telling, RequestActs, Prepares, Fails
      <3>4. /\ \/ phase[r] = "convert" /\ phase'[r] = "unlockBooked"
               \/ phase[r] \in {"unlockBooked", "countUp"} /\ phase'[r] = "ok"
            /\ batch'[r] = batch[r]
        BY <3>1, <3>3 DEF RequestActs, Prepares, Fails, Telling
      <3>5. heard'[s] = heard[s]
        BY <2>2 DEF SeatStep
      <3>6. s \in SeatsOf(r) /\ SeatsOf(r)' = SeatsOf(r)
        BY <3>2, <3>3, <3>4 DEF Follows, Owes, SeatsOf
      <3>7. seat[s] # Nothing
        BY DEF TablesOK, SeatStatus, Nothing
      <3>8. seat[s] = IF phase[r] = "countUp" THEN "AVAILABLE" ELSE "BOOKED"
        BY <1>1, <3>2, <3>3, <3>7 DEF Follows, Owes
      <3>9. phase'[r] = "ok" => unsent'[r] = seat[s]
        BY <1>3, <3>3, <3>4, <3>8 DEF RequestFinishes, Event
      <3>10. Owes(r, s)'
        BY <2>2, <3>3, <3>4, <3>6, <3>8, <3>9 DEF Owes
      <3>11. phase'[r] \in Telling
        BY <3>4 DEF Telling
      <3> QED
        BY <3>3, <3>5, <3>10, <3>11 DEF Follows
    <2> QED
      BY <2>1, <2>2
  <1> QED
    BY <1>4, <1>5, <1>6

\* The steps of a sweep that change something of it.
LEMMA SweepsFollow ==
    ASSUME TypeInv, NewsInv, SeatStep, NEW w \in Sweeps, SweepActs(w), Quieted(w),
           phase'[w] # phase[w]
    PROVE  /\ Posts(w)' /\ phase'[w] \in SweepPhases \cup {"idle"}
           /\ \A s \in Seats : author'[s] = w => Follows(s, w)'
  <1> w \in Calls /\ w \notin Requests
    BY RequestsAssumption DEF Calls
  <1>1. unsent[w] = Nothing /\ phase[w] \in SweepPhases \cup {"idle"}
    BY DEF SeatStep, NewsInv, Apart
  <1>2. phase'[w] \in SweepPhases \cup {"idle"}
    BY DEF SweepActs, SweepPhases
  <1>3. ~Finishes(w)
    BY <1>1 DEF Finishes, RequestFinishes, SweepActs, SweepPhases, Swept, At
  <1>4. unsent'[w] = Nothing
    BY <1>1, <1>3 DEF SeatStep
  <1>5. ASSUME NEW s \in Seats, author'[s] = w PROVE Follows(s, w)'
    <2>1. CASE seat'[s] # seat[s]
      <3>1. heard'[s] = {}
        BY <2>1 DEF SeatStep
      <3>2. phase'[w] = "sweeping" /\ pc'[w] # "done" /\ Changes(w, "AVAILABLE")
        BY <2>1 DEF SweepActs
      <3>3. seat'[s] = "AVAILABLE" /\ s \in SeatsOf(w)'
        BY <2>1, <3>2 DEF Changes, SeatsOf
      <3> QED
        BY <3>1, <3>2, <3>3 DEF Follows, Owes
    <2>2. CASE seat'[s] = seat[s]
      <3>1. author[s] = w /\ ~Fails(w)
        BY <1>5, <2>2, ChangerIsAuthor, NoOneAssumption DEF NewsInv
      <3>2. Follows(s, w)
        BY <3>1 DEF NewsInv
      <3>3. phase[w] # "sweeping" \/ Swept(w)
        BY <3>1 DEF SweepActs, Fails
      <3>4. seat[s] # Nothing
        BY TypeParts DEF TypeInv, TablesOK, SeatStatus, Nothing
      <3>5. ~Owes(w, s)
        BY <1>1, <3>3, <3>4 DEF Owes, Swept, SweepPhases
      <3>6. heard'[s] = heard[s] /\ told'[s] = told[s]
        BY <2>2 DEF SeatStep
      <3> QED
        BY <2>2, <3>2, <3>5, <3>6 DEF Follows
    <2> QED
      BY <2>1, <2>2
  <1> QED
    BY <1>2, <1>4, <1>5 DEF Posts

LEMMA SeatStepNews == TypeInv /\ TypeInv' /\ NewsInv /\ SeatStep => NewsInv'
  <1> SUFFICES ASSUME TypeInv, TypeInv', NewsInv, SeatStep PROVE NewsInv'
    OBVIOUS
  <1> NewsOK /\ Apart
    BY DEF NewsInv
  <1>1. unsent' \in [Calls -> SeatStatus \cup {Nothing}]
    BY DEF SeatStep, NewsOK, Event, SeatStatus
  <1>2. told' \in [Seats -> SeatStatus] /\ heard' \in [Seats -> SUBSET Calls]
    BY DEF SeatStep, NewsOK
  <1>3. CASE UNCHANGED seat /\ \A c \in Calls : Quiet(c)
    <2>1. \A c \in Calls : ~Fails(c)
      BY <1>3 DEF Fails, Quiet
    <2>2. \A s \in Seats : author'[s] = author[s]
      BY <1>3, <2>1 DEF SeatStep
    <2>3. author' \in [Seats -> Calls \cup {NoOne}]
      <3>1. author' = author
        BY <2>2 DEF SeatStep, NewsOK
      <3> QED
        BY <3>1 DEF NewsOK
    <2>4. Apart'
      BY <1>3 DEF Apart, Quiet, Calls
    <2>5. \A s \in Seats, c \in Calls : author'[s] = c => Follows(s, c)'
      BY <1>3, <2>2, QuietFollows DEF NewsInv
    <2>6. \A c \in Calls : Posts(c)'
      BY <1>3, QuietFollows
    <2> QED
      BY <1>1, <1>2, <2>3, <2>4, <2>5, <2>6 DEF NewsInv, NewsOK
  <1>4. ASSUME NEW c \in Calls, Quieted(c), phase'[c] # phase[c],
               Posts(c)', \A s \in Seats : author'[s] = c => Follows(s, c)',
               c \in Requests => phase'[c] \notin SweepPhases,
               c \in Sweeps => phase'[c] \in SweepPhases \cup {"idle"}
        PROVE  NewsInv'
    <2>1. \A s \in Seats :
             author'[s] = IF seat'[s] # seat[s] THEN c
                          ELSE IF author[s] = c /\ Fails(c) THEN NoOne ELSE author[s]
      BY <1>4, ChangerIsAuthor
    <2>2. author' \in [Seats -> Calls \cup {NoOne}]
      <3>1. \A s \in Seats : author'[s] \in Calls \cup {NoOne}
        BY <2>1 DEF NewsOK
      <3>2. author' = [s \in Seats |-> author'[s]]
        BY DEF SeatStep
      <3> QED
        BY <3>1, <3>2
    <2>3. Apart'
      BY <1>4 DEF Apart, Quieted, Quiet, Calls
    <2>4. \A d \in Calls : Posts(d)'
      BY <1>4, QuietFollows DEF Quieted
    <2>5. ASSUME NEW s \in Seats, NEW d \in Calls, author'[s] = d PROVE Follows(s, d)'
      <3>1. CASE d = c
        BY <1>4, <2>5, <3>1
      <3>2. CASE d # c
        <4>1. seat'[s] = seat[s] /\ author[s] = d
          BY <2>1, <2>5, <3>2, NoOneAssumption DEF Calls
        <4>2. Follows(s, d) /\ Quiet(d)
          BY <1>4, <3>2, <4>1 DEF NewsInv, Quieted
        <4> QED
          BY <4>1, <4>2, QuietFollows
      <3> QED
        BY <3>1, <3>2
    <2> QED
      BY <1>1, <1>2, <2>2, <2>3, <2>4, <2>5 DEF NewsInv, NewsOK
  <1>5. ASSUME NEW r \in Requests, RequestActs(r), Quieted(r) PROVE NewsInv'
    <2>1. phase'[r] # phase[r]
      BY <1>5 DEF RequestActs, Prepares
    <2> QED
      BY <1>4, <1>5, <2>1, ActsFollow, RequestsAssumption DEF Calls
  <1>6. ASSUME NEW w \in Sweeps, SweepActs(w), Quieted(w) PROVE NewsInv'
    <2>1. phase'[w] # phase[w]
      BY <1>6 DEF SweepActs, Swept
    <2> QED
      BY <1>4, <1>6, <2>1, SweepsFollow, RequestsAssumption DEF Calls
  <1> QED
    BY <1>3, <1>5, <1>6, Moves DEF SeatStep

LEMMA BroadcastNews ==
    ASSUME TypeInv, NewsInv, NEW c \in Calls, Broadcast(c)
    PROVE  NewsInv'
  <1> NewsOK /\ Apart
    BY DEF NewsInv
  <1>1. UNCHANGED <<seat, phase, pc, batch, author>> /\ unsent[c] # Nothing
    BY DEF Broadcast, vars, lockVars
  <1>2. /\ unsent'[c] = Nothing
        /\ \A d \in Calls \ {c} : unsent'[d] = unsent[d]
    BY DEF Broadcast, NewsOK
  <1>3. NewsOK'
    BY <1>1 DEF Broadcast, NewsOK
  <1>4. Apart'
    BY <1>1 DEF Apart
  <1>5. \A d \in Calls : Posts(d)'
    BY <1>1, <1>2 DEF NewsInv, Posts, Swept
  <1>6. ASSUME NEW s \in Seats, NEW d \in Calls, author[s] = d, Follows(s, d)
        PROVE  Follows(s, d)'
    <2>1. SeatsOf(d)' = SeatsOf(d)
      BY <1>1 DEF SeatsOf
    <2>2. CASE d # c
      <3>1. /\ heard'[s] = heard[s] \/ heard'[s] = heard[s] \cup {c}
            /\ heard'[s] = heard[s] => c \in heard[s] \/ told'[s] = told[s]
        BY DEF Broadcast
      <3>2. Owes(d, s) => Owes(d, s)'
        BY <1>1, <1>2, <2>1, <2>2 DEF Owes
      <3> QED
        BY <1>1, <1>2, <1>6, <2>2, <3>1, <3>2 DEF Follows
    <2>3. CASE d = c /\ s \in SeatsOf(c)
      <3>1. heard'[s] = heard[s] \cup {c} /\ told'[s] = unsent[c]
        BY <2>3 DEF Broadcast
      <3>2. unsent[c] = seat[s]
        <4>1. CASE c \in Requests
          BY <1>1, <1>6, <2>3, <4>1 DEF Follows, Owes, NewsInv, Posts, Swept
        <4>2. CASE c \in Sweeps
          BY <1>1, <1>6, <2>3, <4>2 DEF Follows, NewsInv, Posts, Apart, SweepPhases
        <4> QED
          BY <4>1, <4>2 DEF Calls
      <3>3. c \in Requests => phase[c] = "ok"
        BY <1>1, RequestsAssumption DEF NewsInv, Posts, Swept, Apart, SweepPhases
      <3> QED
        BY <1>1, <1>2, <1>6, <2>3, <3>1, <3>2, <3>3 DEF Follows
    <2>4. CASE d = c /\ s \notin SeatsOf(c)
      <3>1. heard'[s] = heard[s] /\ told'[s] = told[s]
        BY <2>4 DEF Broadcast
      <3>2. c \in heard[s]
        BY <1>6, <2>4 DEF Follows, Owes
      <3> QED
        BY <1>1, <1>2, <1>6, <2>4, <3>1, <3>2 DEF Follows
    <2> QED
      BY <2>2, <2>3, <2>4
  <1>7. \A s \in Seats, d \in Calls : author'[s] = d => Follows(s, d)'
    BY <1>1, <1>6 DEF NewsInv
  <1> QED
    BY <1>3, <1>4, <1>5, <1>7 DEF NewsInv

LEMMA NoBroadcastNews ==
    ASSUME TypeInv, NewsInv, NEW c \in Calls, NoBroadcast(c)
    PROVE  NewsInv'
  <1> NewsOK /\ Apart
    BY DEF NewsInv
  <1>1. UNCHANGED <<seat, phase, pc, batch, told, heard>>
    BY DEF NoBroadcast, vars, lockVars
  <1>2. /\ unsent'[c] = Nothing
        /\ \A d \in Calls \ {c} : unsent'[d] = unsent[d]
    BY DEF NoBroadcast, NewsOK
  <1>3. NewsOK'
    BY <1>1 DEF NoBroadcast, NewsOK
  <1>4. Apart'
    BY <1>1 DEF Apart
  <1>5. \A d \in Calls : Posts(d)'
    BY <1>1, <1>2 DEF NewsInv, Posts, Swept
  <1>6. ASSUME NEW s \in Seats, NEW d \in Calls, author'[s] = d PROVE Follows(s, d)'
    <2>1. author[s] = d /\ d # c
      BY <1>6, NoOneAssumption DEF NoBroadcast, Calls
    <2>2. SeatsOf(d)' = SeatsOf(d)
      BY <1>1 DEF SeatsOf
    <2>3. Owes(d, s) => Owes(d, s)'
      BY <1>1, <1>2, <2>1, <2>2 DEF Owes
    <2> QED
      BY <1>1, <1>2, <2>1, <2>3 DEF NewsInv, Follows
  <1> QED
    BY <1>3, <1>4, <1>5, <1>6 DEF NewsInv

LEMMA InitNews == EventInit => NewsInv
  <1> SUFFICES ASSUME EventInit PROVE NewsInv
    OBVIOUS
  <1>1. NewsOK
    BY DEF EventInit, NewsOK, SeatStatus
  <1>2. Apart /\ \A c \in Calls : Posts(c)
    BY DEF EventInit, Init, Apart, SweepPhases, Calls, Posts
  <1> QED
    BY <1>1, <1>2, NoOneAssumption DEF EventInit, NewsInv, Calls

LEMMA NextNews == TypeInv /\ TypeInv' /\ NewsInv /\ [EventNext]_eventVars => NewsInv'
  <1> SUFFICES ASSUME TypeInv, TypeInv', NewsInv, [EventNext]_eventVars PROVE NewsInv'
    OBVIOUS
  <1>1. CASE UNCHANGED eventVars
    <2>1. UNCHANGED <<seat, phase, pc, batch, unsent, told, author, heard>>
      BY <1>1 DEF eventVars, newsVars, vars, lockVars
    <2> QED
      BY <2>1 DEF NewsInv, NewsOK, Apart, Posts, Swept, Follows, Owes, SeatsOf
  <1> QED
    BY <1>1, SeatStepNews, BroadcastNews, NoBroadcastNews DEF EventNext

\* What the room has heard of a seat last is what the seat is, whatever broadcasts cross
\* (seats.gateway.ts and the broadcasts that end every operation of seats.service.ts):
\* old news stays only where the call that changed the seat has still to speak, or failed,
\* or where others spoke of the seat after the change.
THEOREM ViewsFollow == EventSpec => []ViewFollows
  <1>1. TypeInv /\ NewsInv => ViewFollows
    <2> SUFFICES ASSUME TypeInv, NewsInv, NEW s \in Seats, NEW c \in Calls,
                        author[s] = c, told[s] # seat[s]
                 PROVE  IF c \in heard[s] THEN heard[s] # {c} ELSE Busy(c)
      BY DEF ViewFollows, NewsInv, NewsOK
    <2>1. Follows(s, c)
      BY DEF NewsInv
    <2>2. CASE c \in heard[s]
      BY <2>1, <2>2 DEF Follows
    <2>3. CASE c \notin heard[s]
      <3>1. Owes(c, s)
        BY <2>1, <2>3 DEF Follows
      <3>2. seat[s] # Nothing
        BY TypeParts DEF TypeInv, TablesOK, SeatStatus, Nothing
      <3>3. CASE unsent[c] = seat[s]
        BY <2>3, <3>2, <3>3 DEF Busy
      <3>4. CASE phase[c] \in {"convert", "unlockBooked", "countUp"}
        <4>1. c \in Requests
          BY <3>4 DEF Calls, NewsInv, Apart, SweepPhases
        <4> QED
          BY <2>3, <3>4, <4>1 DEF Busy, Alive, Ended, RefusedHold, At
      <3>5. CASE phase[c] = "sweeping" /\ pc[c] # "done"
        BY <2>3, <3>5 DEF Busy, At, Calls, NewsInv, Apart, SweepPhases
      <3> QED
        BY <3>1, <3>3, <3>4, <3>5 DEF Owes
    <2> QED
      BY <2>2, <2>3
  <1> QED
    BY <1>1, EventTypes, InitNews, NextNews, PTL DEF EventSpec
=============================================================================
