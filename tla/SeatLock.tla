------------------------------ MODULE SeatLock ------------------------------
(***************************************************************************)
(* SeatLockService on top of RedisService: concurrent calls that lock a    *)
(* batch of seats, release a batch, extend the locks of a batch one by one *)
(* (the loop of SeatsService.extendHold), or read each lock's holder and   *)
(* release it in his name (the loop of the cron sweep).  Every await of a  *)
(* Redis command is one step; between two of them any other call may run,  *)
(* keys may expire, and the call itself may be cut off by a Redis error or *)
(* a crash.                                                                *)
(*                                                                         *)
(* "lease" and "robbed" only observe: lease[s][u] is what u may still      *)
(* count on for seat s since his last successful SET.                      *)
(***************************************************************************)
EXTENDS SeatKeys, Sequences

CONSTANTS MaxSeatsPerHold,   \* MAX_SEATS_PER_HOLD
          Batches            \* the non-empty seat lists calls are made with

ASSUME BatchesAssumption == Batches \subseteq Seq(Seats) \ {<<>>}
ASSUME MaxSeatsAssumption == MaxSeatsPerHold \in Nat

VARIABLES pc,      \* where each call stands
          user,    \* its holder argument
          batch,   \* its seatNumbers argument
          at,      \* index of the seat it works on
          upto,    \* rollback: index of the seat that was refused
          saw,     \* what its last GET answered
          lease, robbed

callVars == <<user, batch, upto>>
vars == <<lock, pc, user, batch, at, upto, saw, lease, robbed>>

Working == {"acquire", "rollback", "release", "extendGet", "extendSet",
            "sweepGet", "sweepDel"}
Over == {"granted", "refused", "lost", "done", "aborted"}

Contract == INSTANCE SeatLease

SeatOf(c) == batch[c][at[c]]

\* Types and ranges of the calls' variables, and what a call may rely on.
CallsOK ==
    /\ pc \in [Calls -> {"idle"} \cup Working \cup Over]
    /\ user \in [Calls -> Users]
    /\ batch \in [Calls -> Seq(Seats)]
    /\ at \in [Calls -> Nat \ {0}]
    /\ upto \in [Calls -> Nat]
    /\ saw \in [Calls -> Users \cup {NoOne}]
    /\ \A c \in Calls :
          /\ pc[c] = "idle" => at[c] = 1
          /\ pc[c] \in Working => at[c] <= Len(batch[c])
          /\ pc[c] = "rollback" => at[c] < upto[c] /\ upto[c] <= Len(batch[c])
          /\ pc[c] = "sweepDel" => saw[c] \in Users

LeasesOK == /\ lease \in [Seats -> [Users -> 0 .. LockTTL]]
            /\ robbed \in [Seats -> SUBSET Users]

TypeOK == KeysOK /\ CallsOK /\ LeasesOK

Init ==
    /\ NoKey
    /\ pc = [c \in Calls |-> "idle"]
    /\ user \in [Calls -> Users]
    /\ batch = [c \in Calls |-> <<>>]
    /\ at = [c \in Calls |-> 1]
    /\ upto = [c \in Calls |-> 0]
    /\ saw = [c \in Calls |-> NoOne]
    /\ Contract!Init

Goto(c, where) == pc' = [pc EXCEPT ![c] = where]

\* The loop goes on with the next seat of the batch, or is over after the last.
NextSeat(c, last, again, result) ==
    IF at[c] < last
    THEN at' = [at EXCEPT ![c] = @ + 1] /\ Goto(c, again)
    ELSE Goto(c, result) /\ UNCHANGED at

LeaseEnds(s, u) == Contract!End(s, u)
LeasesUnchanged == UNCHANGED <<lease, robbed>>
-----------------------------------------------------------------------------
(* Starting a call: its arguments become known, no command is sent yet.    *)

Call(c, b, where) ==
    /\ pc[c] = "idle"
    /\ batch' = [batch EXCEPT ![c] = b]
    /\ Goto(c, where)
    /\ UNCHANGED <<lock, user, at, upto, saw, lease, robbed>>

\* acquireBatchLocks refuses a batch that is too long before any command.
AcquireBatchLocks(c, b) ==
    Call(c, b, IF Len(b) > MaxSeatsPerHold THEN "refused" ELSE "acquire")

ReleaseBatchLocks(c, b) == Call(c, b, "release")
ExtendSeatLocks(c, b) == Call(c, b, "extendGet")
SweepSeatLocks(c, b) == Call(c, b, "sweepGet")
-----------------------------------------------------------------------------
(* acquireBatchLocks *)

AcquireNext(c) ==
    /\ pc[c] = "acquire"
    /\ SetNX(SeatOf(c), user[c], c)
    /\ lease' = [lease EXCEPT ![SeatOf(c)][user[c]] = LockTTL]
    /\ robbed' = [robbed EXCEPT ![SeatOf(c)] = @ \ {user[c]}]
    /\ NextSeat(c, Len(batch[c]), "acquire", "granted")
    /\ UNCHANGED <<callVars, saw>>

\* (slip) The seats taken before the refused one are forgotten.
AfterRefusalForget(c) == "refused"

\* Whether there are seats to undo.
AfterRefusal(c) == IF at[c] > 1 THEN "rollback" ELSE "refused"

\* The key exists, whoever set it: undo the seats before this one, if any.
AcquireRefused(c) ==
    /\ pc[c] = "acquire"
    /\ ~IsFree(SeatOf(c))
    /\ upto' = [upto EXCEPT ![c] = at[c]]
    /\ at' = [at EXCEPT ![c] = 1]
    /\ Goto(c, AfterRefusal(c))
    /\ LeasesUnchanged
    /\ UNCHANGED <<lock, user, batch, saw>>

LastTaken(c) == upto[c] - 1

Rollback(c) ==
    /\ pc[c] = "rollback"
    /\ DeleteIfHeldBy(SeatOf(c), user[c])
    /\ LeaseEnds(SeatOf(c), user[c])
    /\ NextSeat(c, LastTaken(c), "rollback", "refused")
    /\ UNCHANGED <<callVars, saw>>
-----------------------------------------------------------------------------
(* releaseBatchLocks: the scripts are sent together and run in list order. *)

ReleaseNext(c) ==
    /\ pc[c] = "release"
    /\ DeleteIfHeldBy(SeatOf(c), user[c])
    /\ LeaseEnds(SeatOf(c), user[c])
    /\ NextSeat(c, Len(batch[c]), "release", "done")
    /\ UNCHANGED <<callVars, saw>>
-----------------------------------------------------------------------------
(* extendSeatLock: GET, compare in the process, then a plain SET.          *)

ExtendGet(c) ==
    /\ pc[c] = "extendGet"
    /\ saw' = [saw EXCEPT ![c] = Holder(SeatOf(c))]
    /\ Goto(c, IF Holder(SeatOf(c)) = user[c] THEN "extendSet" ELSE "lost")
    /\ LeasesUnchanged
    /\ UNCHANGED <<lock, callVars, at>>

ExtendSet(c) ==
    /\ pc[c] = "extendSet"
    /\ SetEx(SeatOf(c), user[c], c)
    /\ lease' = [lease EXCEPT ![SeatOf(c)][user[c]] = LockTTL]
    /\ robbed' = [robbed EXCEPT ![SeatOf(c)] =
                    (@ \cup ({Holder(SeatOf(c))} \cap Users)) \ {user[c]}]
    /\ NextSeat(c, Len(batch[c]), "extendGet", "granted")
    /\ UNCHANGED <<callVars, saw>>
-----------------------------------------------------------------------------
(* The sweep's use of the service: getLockHolder, then releaseSeatLock in  *)
(* the name of whoever that was.                                           *)

\* (slip) The sweep does not check that there is a holder.
NothingToReleaseNever(c) == FALSE

NothingToRelease(c) == IsFree(SeatOf(c))

SweepGet(c) ==
    /\ pc[c] = "sweepGet"
    /\ saw' = [saw EXCEPT ![c] = Holder(SeatOf(c))]
    /\ IF NothingToRelease(c)
       THEN NextSeat(c, Len(batch[c]), "sweepGet", "done")
       ELSE Goto(c, "sweepDel") /\ UNCHANGED at
    /\ LeasesUnchanged
    /\ UNCHANGED <<lock, callVars>>

SweepDel(c) ==
    /\ pc[c] = "sweepDel"
    /\ DeleteIfHeldBy(SeatOf(c), saw[c])
    /\ IF Holder(SeatOf(c)) = saw[c] THEN LeaseEnds(SeatOf(c), saw[c])
                                     ELSE LeasesUnchanged
    /\ NextSeat(c, Len(batch[c]), "sweepGet", "done")
    /\ UNCHANGED <<callVars, saw>>
-----------------------------------------------------------------------------
\* Redis fails the next command, or the process dies: nothing is undone.
Abort(c) ==
    /\ pc[c] \in Working
    /\ Goto(c, "aborted")
    /\ LeasesUnchanged
    /\ UNCHANGED <<lock, callVars, at, saw>>

Tick ==
    /\ ExpireKeys
    /\ Contract!Tick
    /\ UNCHANGED <<pc, callVars, at, saw>>

Step(c) == \/ AcquireNext(c) \/ AcquireRefused(c) \/ Rollback(c)
           \/ ReleaseNext(c)
           \/ ExtendGet(c) \/ ExtendSet(c)
           \/ SweepGet(c) \/ SweepDel(c)

Started(c, b) == \/ AcquireBatchLocks(c, b) \/ ReleaseBatchLocks(c, b)
                 \/ ExtendSeatLocks(c, b) \/ SweepSeatLocks(c, b)

Next == \/ \E c \in Calls, b \in Batches : Started(c, b)
        \/ \E c \in Calls : Step(c) \/ Abort(c)
        \/ Tick

Spec == Init /\ [][Next]_vars

-----------------------------------------------------------------------------
(* Properties *)

\* A key and the lease it stands for are the same thing: the holder of a key
\* may count on exactly the key's time to live, and whoever still counts on a
\* seat holds its key, unless a late extension (ExtendSet) overwrote it.
LeaseBacked ==
    \A s \in Seats, u \in Users :
        /\ Holder(s) = u => lease[s][u] = lock[s].ttl /\ u \notin robbed[s]
        /\ lease[s][u] > 0 => Holder(s) = u \/ u \in robbed[s]

\* No two users count on one seat at the same time (the reason SET NX is used),
\* unless one of them was overwritten by the other's late extension.
Exclusive ==
    \A s \in Seats : \A u, v \in Users :
        u # v /\ lease[s][u] > 0 /\ lease[s][v] > 0
            => u \in robbed[s] \/ v \in robbed[s]

\* Where the keys written by a call can be: for an acquire call, on the seats it
\* has taken and not yet undone.
OwnKeys ==
    \A s \in Seats, c \in Calls :
        lock[s].by = c =>
            /\ Holder(s) = user[c]
            /\ \/ pc[c] = "acquire" /\ \E k \in 1 .. at[c] - 1 : batch[c][k] = s
               \/ pc[c] = "rollback" /\ \E k \in at[c] .. upto[c] - 1 : batch[c][k] = s
               \/ pc[c] \in {"extendGet", "extendSet", "lost", "granted", "aborted"}

\* acquireBatchLocks is all or nothing: once it has answered "refused", no key
\* it wrote is left, whatever the other calls did to the seats meanwhile.
RefusedLeavesNothing ==
    \A c \in Calls : pc[c] = "refused" => \A s \in Seats : lock[s].by # c

\* The locks implement the contract of SeatLease, step by step.
ImplementsLease == Contract!Spec
=============================================================================
