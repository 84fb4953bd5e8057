# Verification of the bus-ticket backend

TLA+ models, model-checking runs and machine-checked proofs for the services
under `src/backend/src`: seat locks, seat holds, bookings, trips and accounts.
Everything below is about what that code does; the requirement documents at the
root of the repository (`01-` … `07-…md`) are quoted only where the code does
something else.

## 1. The system

A NestJS backend over PostgreSQL (through Prisma) and Redis. Services are
stateless objects; a request runs one service method, and every `await` in it
lets other requests, the cron job and other Node processes run. What is shared is
in the database and in Redis. There is no payment service, no vendor service and
no controller but the one for accounts in the repository; `PaymentsService` is
known only as the caller of `confirmAfterPayment`.

| Component | State | Operations that change it | Talks to |
|---|---|---|---|
| `SeatLockService` + `RedisService` | one Redis key per trip and seat, its value a user, with a time to live | acquire (SET NX EX, one by one, with rollback), release (compare-and-delete script), extend (GET, then SET EX) | Redis |
| `SeatsService` | `Seat.status`, `SeatHold` rows, `Trip.availableSeats` | holdSeats, releaseSeats, extendHold, confirmSeats, freeBookedSeats, cron `releaseExpiredHolds`, generateSeatsForTrip; reads: getSeatMap | locks, database, gateway |
| `BookingsService` | `Booking`, its passengers, `BookingHistory` | create, confirmAfterPayment, cancel, updateStatus | SeatsService, locks, database |
| `TripsService` | `Route`, `Trip` | create, update, cancel, delete of trips; create, update, delete or deactivate of routes | SeatsService, database |
| `AuthService`, `OtpService` | `User`, `Verification`, `Session`; signed tokens, which only the client has | register, login with lock-out, codes, reset and change of the password, refresh, logout, ending of sessions | database |
| `SeatsGateway` | Socket.IO rooms | broadcasts after a change | clients |
| guards, filters, interceptors, configuration, DTOs | none | | |

What makes it hard:

* **Interleaving.** Nothing but the transaction in `BookingsService.create` spans
  two database commands. All services read a row, await, and write later.
* **Two stores.** The lock is in Redis, the hold and the seat in PostgreSQL, with
  separate clocks and separate failures. The lock's life is a setting, the hold's
  is 900 seconds.
* **Time.** Keys expire by themselves; holds expire only when the cron job finds
  them; both may happen between two awaits of a request that relies on them.
* **Failure.** Any command may fail and the process may die between two commands;
  only `holdSeats` undoes anything.

What makes each component correct:

* *locks*: a seat is never counted on by two users; a refused batch leaves nothing;
  every key goes away.
* *holds*: a sold seat stays sold; a hold ends once, not early, and always; a refused
  or failed hold leaves no trace that blocks others.
* *bookings*: no seat is sold twice; a sold seat has a payer; a hold is consumed only
  by a booking of its seat.
  A booking is not promised more money than was paid for it, and does not forget that it
  was paid.
* *seat map and events*: a user is offered seats that are within his reach, and whoever
  follows a trip hears what became of its seats.
* *trips*: no booking without its trip, no trip without its route, no cancellation over
  a payment, a seat plan that is the grid, no trip in the search that has no seats.
* *accounts*: wrong passwords and wrong codes are counted, a code works once, a change of
  password ends the sessions, and an ended session gives no new access.

## 2. Modules

    SeatKeys  <-EXTENDS-  SeatLock  <-INSTANCE-  SeatHold  <-INSTANCE-  Booking
                             |                      ^
                             |  implements          '--EXTENDS-  SeatEvents
                             v
                          SeatLease

    Sessions  <-EXTENDS-  Account  -implements->  Access             Trips

    SeatLockProofs  <-INSTANCE-  SeatHoldProofs  <-INSTANCE-  BookingProofs
                                       ^
                                       '--EXTENDS-  SeatEventsProofs
    AccessProofs EXTENDS AccountProofs EXTENDS Account        TripsProofs EXTENDS Trips

| Module | Models | Correspondence |
|---|---|---|
| `SeatKeys` | `redis.service.ts`, the keys | one operator per Redis command, each atomic. `by` is auxiliary: the call that wrote the value |
| `SeatLock` | `seat-lock.service.ts`, and the two loops of `SeatsService` that use it seat by seat | `pc`, `batch`, `at` are a call's position; one action per awaited command |
| `SeatLease` | the abstract contract of a lock | `lease[s][u]`: ticks `u` may still count on `s`; `robbed`: users overridden by a late extension |
| `SeatHold` | `seats.service.ts` | `seat`, `row`, `available` are the tables, `phase` is the position of a request; its lock phases are `SeatLock` steps through `INSTANCE`. A request that reads the seat map keeps what it shows in `shown` and the locks it has still to look at in `unread` |
| `SeatEvents` | `seats.gateway.ts` and the broadcasts of `seats.service.ts` | every step is one of `SeatHold`; a call whose last command is answered owes an event (`unsent`), and `told` is what the room heard last of each seat |
| `Booking` | `bookings.service.ts` | `booking`, `history` are the tables, `stage` the position; payment and cancellation continue as `SeatHold` requests. `money` only counts what was paid and promised back, in halves of the price |
| `Trips` | `trips.service.ts`, `generateSeatsForTrip` and the references in `schema.prisma` | counting guards and the write that follows are separate steps; bookings appear with their status and payment only, which pay, cancel and `updateStatus` change. A field of a request that may be left out is a set of at most one value (`Optional`) |
| `Sessions` | the sessions of `auth.service.ts`, their tokens, `jwt.strategy.ts` | `session` is the table, `token` what is left of the access and the refresh token signed for each row, which no table records |
| `Account` | `auth.service.ts`, `otp.service.ts` | one account; `pc` the position of a request, `read` and `target` what it remembers across an await |
| `Access` | the abstract contract of the sessions | a grant is none, open or, for good, ended; it owes access to those who asked while it was open, and gives no other |
| `MC…` | | who may ask for what in an instance: the constants of the runs |

Each `…Proofs` module extends the module whose name it carries and takes what is proved one
level below from the proof module of that level, so that nothing is proved twice.

Conventions. A request or call is a member of a constant set and runs one
operation, chosen among those its `Script` (or `Deal`) allows, and in `Account` all of
them by one of `Scripts`; `Casts` bounds which requests of `Booking` run together. The row it creates has its
name. Time is what is left of it, in ticks; `Tick` takes one from everything. A
fault is `Fail`, `Abort` or `TryFails`, allowed to the members of `CanFail`: one
covers an error of the database, an error of Redis and the death of the process,
which differ only where the code catches (`holdSeats`' try block, `TryFails`).
`createMany`, `updateMany` and a `$transaction` are one step. In `holdSeats`, the
inserts started together by `Promise.all` reach the table in any order, also after
one of them has failed (`CreateRow`, `todo`). `releaseBatchLocks` sends its scripts
together over one connection, which keeps their order.

A definition marked `(slip)` is not part of any model. It is the definition after
it with a plausible mistake, and shows that the property it is paired with in
`PROJECT.json` notices the mistake.

## 3. What the runs show

Bounds are given as *seats × users × concurrent requests*. They are the smallest at
which every step of the code can meet every other one it shares state with; the
states run from a few hundred thousand to one and a half million.

| Run | Bounds | Question and answer |
|---|---|---|
| `MCSeatLock` | 2 × 2 × 3, keys live 2 ticks, batches up to both seats in both orders | Any mix of acquiring, releasing, extending, sweeping, aborts and expiry keeps the lease contract (`ImplementsLease`, `LeaseBacked`, `Exclusive`), and a refused batch leaves no key (`RefusedLeavesNothing`, `OwnKeys`). Three calls let a third one step between the two commands of an extension or between two seats of a rollback |
| `MCSeatHold` | 2 × 2 × 3 and a sweep | A two-seat hold meets any operation of another user, who wants one of the seats, or sells, frees or reads the map of both, and a second request of the same user, interleaved with the cron sweep and expiry; the other user's request and the sweep may break off. `SoldUnlessOvertaken`, `HoldEndsOnce`, `NeverExpiredEarly`, `RefusedHoldLeavesNoTrace`, `OfferedWithinReach`, and the locks' contract again |
| `MCSeatHoldFaults` | 2 × 2 × 2 and a sweep | `SeatEvents`, with faults in a hold, in the sweep and before a broadcast: `RefusedHoldLeavesNoTrace`, `SoldUnlessOvertaken`, `ViewFollows`, and liveness: `HoldsEnd`, `LocksExpire` |
| `MCBookingLocked` | 1 × 2 × 6 | Each of two users holds, books and pays in any order, with expiring locks: `SaleUnderLockIsExclusive` |
| `MCBookingLife` | 2 × 2 × 5, or × 4 | Two bookings that share a seat, created, paid, cancelled and given a status, with a payment that may stop half-way and the departure approaching: `SoldSeatHasPayer`, `ConvertedHasBooking`; and, with one booking paid, cancelled, and cancelled again or given another status, `RefundsWithinPayments`, `PaymentOnRecord` |
| `MCTrips` | 8 requests, 2 trips, 1 or 2 routes | Creation, update, cancellation and deletion of trips and routes against a booking, its payment, its cancellation and its way out of CONFIRMED and back: `BookingsKeepTheirTrip`, `TripsKeepTheirRoute`, `OverlookedPaymentsUnseen`, `ListedTripsHaveSeats`, and `SeatsAreTheGrid` for a 2×3 and a 3×1 bus |
| `MCAccount` | 5 requests, 2 codes' attempts, limit 2 | From no account or an active one, either any five of registration, login, codes and passwords (`Everything`), or two sessions, one of them remembered, with a refresh, logouts and a change of password (`Bearers`): `GuessesCounted`, `CodeSpentOnce`, `LockedOnlyAtLimit`, `OldSessionsOverlap`, `OpenCodesOverlap`, `ListedIsRefreshable`, and the contract of the sessions, `ImplementsAccess` |

Several of these properties are the strongest true form of a rule that does not hold
without qualification; the qualification is the result. A sold seat loses its
status only to a hold that read it before the sale; two users are kept apart as long as
each kept the lock from the check to the sale; a payment is overlooked by a
cancellation that counts (`updateTripStatus`; `updateTrip` does not) only if it is confirmed after the
count, or if the booking stood under another status at the count and `updateStatus` has made it
CONFIRMED since; a session survives a change of
password only if its login was under way; two codes are open only if they were created
at once; the seat map offers a seat that was never within reach only if it was sold while
the map was read; the room is left with old news only by a teller who failed or was
overtaken; a booking is promised too much back, or forgets its payment, only if a
cancellation decided on what another request was about to change; a session in the list
cannot be refreshed only if it is a remembered one; an ended session gives access only to
who asked before its end.

Bounds in the models: `LockTTL`, `HoldTTL`, `LockTime`, `OtpTTL` and the lives of tokens
and sessions are one to three ticks, in the order the defaults have (access token,
refresh token as long as a session, remembered session) (one tick is enough for "before" and "after", two let a key be renewed and
outlive another); `MaxSeatsPerHold` is 2, or 1 so that two-seat lists are refused;
limits of attempts are 2. Requests are finite sets and run once, which bounds every
counter.

### Runs that refute a statement

Each checks one sentence of the documents or comments and finds a behaviour of the
code against it; the finding in `PROJECT.json` quotes the sentence.

| Run | What happens |
|---|---|
| `MCSoldStaysSold` | `holdSeats` reads a seat's status, waits for the lock, and writes HELD unconditionally over a sale made in between |
| `MCHeldSeatsComeFree` | holding another seat turns the first hold RELEASED and leaves its seat HELD with nothing to free it. Requests are assumed to return within a tick (`PromptFairSpec`), so that no slowness is needed |
| `MCNoDoubleBooking` | `create` needs no hold: two users book one free seat and both payments confirm |
| `MCCancelSparesOthers` | cancelling an unpaid booking frees the seat another user paid for |
| `MCPaidTripsStay` | `updateTrip` accepts the status CANCELLED without the count that `updateTripStatus` makes |

## 4. Fairness

Safety runs assume none. `SeatHold!Fairness`, which `SeatEvents!FairEventSpec` uses,
assumes that time passes (`WF(Tick)`), that the cron job, which is started every minute, goes on while it has work
(`WF(ReleaseExpiredHolds(w))`, and its broadcast, which it makes without waiting), and that
it does not fail for ever; nothing is assumed
of requests, which may stay between two awaits or die. `PromptFairSpec` additionally
lets every request finish before the clock moves, and is used only to refute: the
refutation then does not rest on a slow request.

## 5. Proofs

Checked by TLAPS for every value of the constants.

### Locks: `SeatLockProofs`, for any seats, users, calls, batches and times to live

* `TypeCorrect`: `TypeOK`, which includes what a call may rely on (the position
  is inside the batch, a rollback is below the refused seat, a sweep that deletes has
  seen a user).
* `LeasesAreBacked`: key and lease agree; inductive together with the types.
* `SeatsAreExclusive`: follows from it, since a key has one holder.
* `AllOrNothing`, `KeysAreTraced`: from `OwnKeys`, the inductive strengthening that says on
  which seats of its batch a call's keys can still be in each phase: below the current index
  while acquiring, from the current index to the refused one while rolling back.
* `LocksImplementLease`: initial states map to initial states; acquiring maps to
  `Grant` (`Rivals` is empty because a free key backs no lease), `ExtendSet` to `Extend`,
  releasing, rolling back and sweeping to `End`, and the rest stutters.

### Holds: `SeatHoldProofs`, for seat lists of any length and any mix of operations

The locks' facts come from `SeatLockProofs` by `INSTANCE`. A module cannot be told that its
own instance `Locks` and this one are the same, so the "Same…" lemmas show it once, for
types, leases and steps, and nothing about the locks is proved again.

* `TypeCorrect`: from `TypeInv`, which adds `Standing`: where a request stands among the
  steps of `SeatsService` says where it may be inside its lock operation, and that it has
  seats before it asks for one. `TypeOK` alone is not inductive, because a lock operation
  started with an empty list, or in the middle of another, has no position.
* `HoldsImplementLease`: only Redis commands and the clock touch keys and leases.
* `HoldsEndOnce`, `NoneExpiresEarly`: from `RowsInv`. A record exists from its insert on, which
  happens once: what is still on its way (`todo`) has no record, and only a request that has
  sent its inserts has anything on its way. Every later update asks for an ACTIVE record.
* `RefusalsLeaveNoTrace`: from `KeysInv` (`Traced`), which carries `OwnKeys` through the phases
  outside the lock operations; a hold whose try block failed is the case to mind, since its
  release begins at the first seat however far the hold had come.
* `SalesAreFinal`, `MapsOfferWithinReach`: from `SoldInv`: whoever acts on a status he read
  earlier either still sees the seats unsold or knows, in `overtaken`, which were sold since;
  and what a map counts as out of reach is out of reach.

### Events: `SeatEventsProofs`

Every step with broadcasts is one of `SeatHold` or leaves its variables alone (the lemma
`EventSteps`, by construction), so that everything above holds here.

* `ViewsFollow`: from `NewsInv`. For each seat, the call that changed it last either owes an
  event that says what the seat is (`Owes`), or has told it, and then nobody else has
  (`Follows`). It needs that who has an event to broadcast has no command left (`Posts`), and
  `Moves`, which sums up in one lemma what a step of `SeatHold` does to one call and leaves
  of the others.

### Bookings: `BookingProofs`, for any requests and users

`SeatHoldProofs` is used through `INSTANCE`, as above, for the seats, with the requests about
bookings among its requests. `BookingInv` adds to its invariants where a booking's request
stands (`Placed`: it asks for seat operations or for bookings, not for both, and is in
`SeatsService` only with the booking's seats and for the booking's user) and what is recorded
of bookings (`Recorded`). On it rest

* `TypeCorrect`, and `SoldSeatsHavePayers` and `ConversionsHaveBookings`, which follow because a
  booking, its seats and the record of its confirmation stay (`NextLasts`) and a request is
  at `book` or `convert` only with a confirmed booking behind it;
* `RefundsStayWithinPayments`, `PaymentsStayOnRecord`: from `MoneyInv`: the payment status agrees
  with the money (`Account`), and what a cancellation under way has decided still fits the
  booking (`Decided`); both for the bookings no other write has crossed. Without `Decided` the
  write of a cancellation could promise anything;
* `SalesUnderLockAreExclusive`: from `CoverInv`: a booking that covers a seat has the seat's lock,
  and nobody comes to cover a seat while it stays sold but by having read it before.

### Trips: `TripsProofs`, for any set of requests whatever they ask

* `BookingsAreKept`, `RoutesAreKept`, from one inductive invariant: a request knows the
  trip it works on (`Errands`); a trip whose creator has not generated the seats has
  none (`Births`); a request that found seats to book never sees the trip without
  (`Found`); bookings and routes refer to what is there (`Booked`, `Routed`). The
  invariant is needed because the property alone does not exclude that a trip is
  inserted anew, or loses its seats, between the read of a booking and its insert.
* `TypeCorrect`: `Typed`, which includes the plans of the seats.
* `NoSeatlessTrips`: `Seated`: a trip is without seats only between the two commands that
  create it, or when the second has failed.
* `CountedPaymentsStopCancellation`: `Overlooked`: from the count of `updateTripStatus` to its write,
  every paid booking of the trip is in `unseen`, in whatever status it is. The confirmed ones alone
  would not be inductive: `updateStatus` may add to them at any time, a payment only is noted.
* `SeatsFormTheGrid`: a list of rows and columns of any size has each pair of a row and a
  column once. `FlattenSeq` is defined by recursion over the rows, where no induction rule
  can be applied; instead, a list that differed from the row-by-row numbering would
  differ at a least row (`LeastNumber`, from the well-foundedness of `<` on the naturals), and
  the recursion refutes that row. The pairs are counted by division (`RowOf`, `ColOf`).

### Accounts: `AccountProofs`, for any requests, whatever they ask together, any limits

Everything rests on the types with `Stored` and `Errands` (the account is never gone
again, and a request's question has what its next steps use), `TypeCorrect`. An arrival of
any operation is summed up once (`Arrives`, `ArrivesAt`), so that each invariant below has
one case for arrivals and one per step that can disturb it:

* `LocksAtLimitOnly`: from `Failures`, which adds that a login about to write its failure
  has read no more failures than there were; without it a late write could count too high.
* `CodesAreSpentOnce`: from `Spending` (who presented a code rightly is about to mark it, or
  it is marked) and `Fresh` (who may still issue a code has not, so a code that was
  presented is never issued anew).
* `OpenCodesAreRivals`: from `Rivalry` (who is between retiring and inserting is a rival of
  every code of its type that is open all the same).
* `AllGuessesCounted`: from `Guesses` (who is about to count a guess has guessed, and
  finitely many have), with the library's facts about cardinalities.

`AccessProofs`, on top of it:

* `OldSessionsCrossed`: from `Late`, the same statement for logins that have compared the
  old password and not opened their session yet.
* `ListedSessionsRefresh`: assumes `ShortTTL <= RefreshTTL`, which the defaults satisfy with
  equality, and uses `Lives`: row and token grow old together.
* `AccountImplementsAccess`: opening a session maps to `Open`, signing to `Give`, the start of
  a refresh to `Ask`, revocations to `End`, the clock to `Pass`, the rest stutters. `Grants`
  is needed for it: a session opens once, and a refresh is under way only for a session
  that was opened.

### Assumptions

Those named in the modules, which TLC evaluates on every run: positive times to live; requests
and sweeps are different calls, and `NoOne` is neither a user nor a call; finitely many
requests and seats; a request has one user; seat lists are not empty, as the data transfer
objects require; in `Booking`, seats are confirmed and freed by `BookingsService` alone; `"none"` is
no password; requests ask for something well-formed.

### What the proofs changed in the models

Steps that did not go through showed places where a definition said less, or other, than the
code: `Book` in `SeatHold` now counts every seat it is asked for as overtaken, also one
that is sold already, since a cancellation may come between; `PayAfter` in `Booking`, whose cases
overlapped, asks one condition after the other; `BookingStatus` has all members of the enumeration,
because `updateStatus` may write any of them.

### Only model-checked

Liveness (`HoldsEnd`, `LocksExpire`): it rests on fairness, which this prover does not reason
about. Every other property of a passing run is a theorem.

## 6. Not modelled, and abstractions

* Reads that change nothing, but for the seat map, the list of the sessions and what the
  search shows: filters, lists, `findOne`, `getTrip`, `isLocked`,
  `getLockTtl`, and the extra reads of a refused lock.
* Prices, passengers' data, contact data, codes' digits, hashes and signatures. Prices survive
  as the payment status a cancellation writes and the halves of the price it promises back.
* Authorisation beyond the access token: `RolesGuard`, the permissions and the ownership
  checks decide on one request without state, and no module of the repository attaches
  the guards to a route. `lastUsedAt`, `LoginAttempt` and `ActivityLog` are written and never
  read; `updateProfile` is one upsert.
* Filters, interceptors, the controller, data transfer objects and configuration: they
  format, validate or hold values; the values are CONSTANTS.
* Vendors are constant: nothing in the repository changes one.
* `SeatStatus.DISABLED`, `UserStatus.SUSPENDED` and other members of the enumerations
  that no code sets.
* Who is in a trip's room and what Socket.IO loses on the way; `told` is what the room hears.
* Statements that would be about a counter or a list only: `availableSeats`, the seats of other
  users that `releaseSeats` frees, locks that a refused `extendHold` has extended. The steps
  are in the models.
* Redis' loss of keys on a restart or fail-over.

Observed while reading, and not the subject of a run:

* `trips.service.ts:72` lacks a closing brace; the file does not compile as it stands. The
  model takes the obvious reading.
* `holdTtlSeconds()` is 900 whatever `SEAT_HOLD_TTL_SECONDS` says (`seats.service.ts:449`).
* A crash, or a hold that falls due, between the scan and the updates of the sweep leaves a
  seat HELD without a record.
* `availableSeats` moves by the length of the list on every confirmation and cancellation,
  and starts at `totalSeats`, which need not be the number of seats generated.
* Two cancellations that read before either writes each answer with a full refund
  (BR-PF-003, `07-Payment-Financial-System.md:258`, has refunds bounded by the payment); a
  cancellation that read before the payment overwrites PAID with UNPAID; `updateStatus` to
  CANCELLED refunds nothing and frees no seat.
* Concurrent wrong passwords may be counted once, and a late one resets `lockedUntil`.
* Two concurrent `OtpService.create` leave two open codes.
* An access token outlives the end of its session by up to its own life: nothing looks at the
  session (`jwt.strategy.ts:29`). `sessionInactivityMinutes` is configured and never used.
* A remembered session's row lives 30 days and its refresh token 7 (`auth.service.ts:486`,
  `jwt.config.ts:10`).
* A broadcast names the seats that were asked for, not those that were changed: a release or a
  sweep announces seats as available that it did not free.
* A paid booking that `updateStatus` sets to COMPLETED, say, and back to CONFIRMED is not seen by a count
  in between: the trip is cancelled over a payment older than the count (against BR-RT-005, as in
  `MCPaidTripsStay`, here with the count).
* `updateTrip` compares no times: the arrival may precede the departure (BR-RT-002).

## 7. Plan

1. An abstract specification of a trip's seats (free, held, sold) that `SeatHold`
   implements up to the overtaken sales, as `SeatLease` is for the locks, with its refinement
   proved on top of `SoldInv`.
2. The counter `availableSeats` of a trip against its seats: how far the two drift apart, and
   that they agree as long as every sale and every cancellation changes its seats.
3. The locks and the records of one hold: what is known of one from the other when both live
   equally long.

## 8. Running

    tlc -workers 2 -config MCSeatLock.cfg MCSeatLock
    tlapm SeatLockProofs.tla

`PROJECT.json` lists the runs with their modules and configurations, the source lines of
every definition, the paired mistakes, the hazards and the theorems.
