--------------------------- MODULE SeatLockProofs ---------------------------
(***************************************************************************)
(* Proofs about SeatLock for every set of seats, users, calls and batches, *)
(* every time to live and every batch limit.                               *)
(***************************************************************************)
EXTENDS SeatLock, TLAPS

USE LockTTLAssumption, NoOneAssumption
-----------------------------------------------------------------------------
(* What the Redis commands do to the keys.                                 *)

\* The plain SET leaves well-formed keys.
LEMMA SetExKeys ==
    ASSUME KeysOK, NEW s \in Seats, NEW u \in Users, NEW c \in Calls, SetEx(s, u, c)
    PROVE  KeysOK'
  BY DEF KeysOK, SetEx, Written, Key, Absent

\* The compare-and-delete script leaves well-formed keys.
LEMMA DeleteKeys ==
    ASSUME KeysOK, NEW s \in Seats, NEW u, DeleteIfHeldBy(s, u)
    PROVE  KeysOK'
  BY DEF KeysOK, DeleteIfHeldBy, Holder, Key, Absent

\* The passing of time leaves well-formed keys.
LEMMA ExpireKeysKeys ==
    ASSUME KeysOK, ExpireKeys
    PROVE  KeysOK'
  BY DEF KeysOK, ExpireKeys, Key, Absent
-----------------------------------------------------------------------------
(* Type correctness.                                                       *)

LEMMA InitTypeOK == Init => TypeOK
  BY DEF Init, TypeOK, KeysOK, CallsOK, LeasesOK, NoKey, Key, Absent,
         Contract!Init, Working, Over

\* The seat a working call works on is a seat.
LEMMA SeatOfType ==
    ASSUME CallsOK, NEW c \in Calls, pc[c] \in Working
    PROVE  SeatOf(c) \in Seats
  BY DEF CallsOK, SeatOf

\* Starting a call with a list of seats leaves the calls well-typed.
LEMMA CallTypes ==
    ASSUME CallsOK, NEW c \in Calls, NEW b \in Seq(Seats) \ {<<>>},
           NEW w \in {"acquire", "release", "extendGet", "sweepGet", "refused"},
           Call(c, b, w)
    PROVE  CallsOK'
  BY DEF Call, Goto, CallsOK, Working, Over

\* Moving on to the next seat, or ending after the last, leaves the calls well-typed.
LEMMA NextSeatTypes ==
    ASSUME CallsOK, NEW c \in Calls, NEW last \in Nat,
           NEW again \in Working \ {"sweepDel"},
           NEW result \in {"granted", "refused", "done"},
           pc[c] \in Working, last <= Len(batch[c]),
           again = "rollback" => last = upto[c] - 1 /\ upto[c] <= Len(batch[c]),
           NextSeat(c, last, again, result), UNCHANGED callVars,
           saw' \in [Calls -> Users \cup {NoOne}],
           \A d \in Calls \ {c} : saw'[d] = saw[d]
    PROVE  CallsOK'
  <1>1. Len(batch[c]) \in Nat
    BY DEF CallsOK
  <1>2. CASE at[c] < last
    <2>1. at' = [at EXCEPT ![c] = @ + 1] /\ pc' = [pc EXCEPT ![c] = again]
      BY <1>2 DEF NextSeat, Goto
    <2> QED
      BY <1>1, <1>2, <2>1 DEF CallsOK, callVars, Working
  <1>3. CASE ~(at[c] < last)
    <2>1. pc' = [pc EXCEPT ![c] = result] /\ at' = at
      BY <1>3 DEF NextSeat, Goto
    <2> QED
      BY <2>1 DEF CallsOK, callVars, Working, Over
  <1> QED
    BY <1>2, <1>3

\* Writing a lease, as AcquireNext and ExtendSet do, leaves the leases well-typed.
LEMMA LeaseSetTypes ==
    ASSUME LeasesOK, NEW s \in Seats, NEW u \in Users, NEW R, R \subseteq Users,
           lease' = [lease EXCEPT ![s][u] = LockTTL],
           robbed' = [robbed EXCEPT ![s] = R]
    PROVE  LeasesOK'
  BY DEF LeasesOK

\* Ending a lease leaves the leases well-typed.
LEMMA LeaseEndTypes ==
    ASSUME LeasesOK, NEW s \in Seats, NEW u \in Users, LeaseEnds(s, u)
    PROVE  LeasesOK'
  BY DEF LeasesOK, LeaseEnds, Contract!End

\* Every step keeps the keys, the calls and the leases well-typed.
LEMMA NextTypeOK == TypeOK /\ [Next]_vars => TypeOK'
  <1> SUFFICES ASSUME TypeOK, [Next]_vars PROVE TypeOK'
    OBVIOUS
  <1> USE DEF TypeOK
  <1>1. ASSUME NEW c \in Calls, NEW b \in Seq(Seats) \ {<<>>},
               NEW w \in {"acquire", "release", "extendGet", "sweepGet", "refused"},
               Call(c, b, w)
        PROVE  TypeOK'
    <2>1. CallsOK'
      BY <1>1, CallTypes
    <2> QED
      BY <1>1, <2>1 DEF Call, KeysOK, LeasesOK
  <1>2. ASSUME NEW c \in Calls, AcquireNext(c) PROVE TypeOK'
    <2>1. SeatOf(c) \in Seats /\ user[c] \in Users
      BY <1>2, SeatOfType DEF AcquireNext, CallsOK, Working
    <2>2. KeysOK'
      BY <1>2, <2>1, SetExKeys DEF AcquireNext, SetNX
    <2>3. CallsOK'
      <3>1. Len(batch[c]) \in Nat /\ Len(batch[c]) <= Len(batch[c])
        BY <1>2 DEF AcquireNext, CallsOK, Working
      <3> QED
        BY <1>2, <3>1, NextSeatTypes DEF AcquireNext, CallsOK, Working
    <2>4. LeasesOK'
      BY <1>2, <2>1 DEF AcquireNext, LeasesOK
    <2> QED
      BY <2>2, <2>3, <2>4
  <1>3. ASSUME NEW c \in Calls, AcquireRefused(c) PROVE TypeOK'
    <2>1. CallsOK'
      BY <1>3 DEF AcquireRefused, AfterRefusal, Goto, callVars, CallsOK, Working, Over
    <2> QED
      BY <1>3, <2>1 DEF AcquireRefused, AfterRefusal, LeasesUnchanged, KeysOK, LeasesOK
  <1>4. ASSUME NEW c \in Calls, Rollback(c) PROVE TypeOK'
    <2>1. SeatOf(c) \in Seats /\ user[c] \in Users
      BY <1>4, SeatOfType DEF Rollback, LastTaken, CallsOK, Working
    <2>2. KeysOK'
      BY <1>4, <2>1, DeleteKeys DEF Rollback
    <2>3. CallsOK'
      <3>1. upto[c] - 1 \in Nat /\ upto[c] - 1 <= Len(batch[c])
        BY <1>4 DEF Rollback, LastTaken, CallsOK, Working
      <3> QED
        BY <1>4, <3>1, NextSeatTypes DEF Rollback, LastTaken, CallsOK, Working
    <2>4. LeasesOK'
      BY <1>4, <2>1, LeaseEndTypes DEF Rollback
    <2> QED
      BY <2>2, <2>3, <2>4
  <1>5. ASSUME NEW c \in Calls, ReleaseNext(c) PROVE TypeOK'
    <2>1. SeatOf(c) \in Seats /\ user[c] \in Users
      BY <1>5, SeatOfType DEF ReleaseNext, CallsOK, Working
    <2>2. KeysOK'
      BY <1>5, <2>1, DeleteKeys DEF ReleaseNext
    <2>3. CallsOK'
      <3>1. Len(batch[c]) \in Nat /\ Len(batch[c]) <= Len(batch[c])
        BY <1>5 DEF ReleaseNext, CallsOK, Working
      <3> QED
        BY <1>5, <3>1, NextSeatTypes DEF ReleaseNext, CallsOK, Working
    <2>4. LeasesOK'
      BY <1>5, <2>1, LeaseEndTypes DEF ReleaseNext
    <2> QED
      BY <2>2, <2>3, <2>4
  <1>6. ASSUME NEW c \in Calls, ExtendGet(c) PROVE TypeOK'
    <2>1. SeatOf(c) \in Seats /\ Holder(SeatOf(c)) \in Users \cup {NoOne}
      BY <1>6, SeatOfType DEF ExtendGet, CallsOK, Working, KeysOK, Key, Holder
    <2>2. CallsOK'
      BY <1>6, <2>1 DEF ExtendGet, Goto, callVars, CallsOK, Working, Over
    <2> QED
      BY <1>6, <2>2 DEF ExtendGet, LeasesUnchanged, KeysOK, LeasesOK
  <1>7. ASSUME NEW c \in Calls, ExtendSet(c) PROVE TypeOK'
    <2>1. SeatOf(c) \in Seats /\ user[c] \in Users
      BY <1>7, SeatOfType DEF ExtendSet, CallsOK, Working
    <2>2. KeysOK'
      BY <1>7, <2>1, SetExKeys DEF ExtendSet
    <2>3. CallsOK'
      <3>1. Len(batch[c]) \in Nat /\ saw \in [Calls -> Users \cup {NoOne}]
        BY DEF CallsOK
      <3> QED
        BY <1>7, <3>1, NextSeatTypes DEF ExtendSet, Working
    <2>4. LeasesOK'
      BY <1>7, <2>1 DEF ExtendSet, LeasesOK
    <2> QED
      BY <2>2, <2>3, <2>4
  <1>8. ASSUME NEW c \in Calls, SweepGet(c) PROVE TypeOK'
    <2>1. SeatOf(c) \in Seats /\ Holder(SeatOf(c)) \in Users \cup {NoOne}
      BY <1>8, SeatOfType DEF SweepGet, CallsOK, Working, KeysOK, Key, Holder
    <2>2. CASE IsFree(SeatOf(c))
      <3>1. /\ Len(batch[c]) \in Nat
            /\ saw' \in [Calls -> Users \cup {NoOne}]
            /\ \A d \in Calls \ {c} : saw'[d] = saw[d]
        BY <1>8, <2>1 DEF SweepGet, CallsOK
      <3>2. CallsOK'
        BY <1>8, <2>2, <3>1, NextSeatTypes DEF SweepGet, NothingToRelease, callVars, Working
      <3> QED
        BY <1>8, <3>2 DEF SweepGet, LeasesUnchanged, KeysOK, LeasesOK
    <2>3. CASE ~IsFree(SeatOf(c))
      <3>1. CallsOK'
        BY <1>8, <2>1, <2>3
           DEF SweepGet, NothingToRelease, IsFree, Goto, callVars, CallsOK, Working, Over
      <3> QED
        BY <1>8, <3>1 DEF SweepGet, LeasesUnchanged, KeysOK, LeasesOK
    <2> QED
      BY <2>2, <2>3
  <1>9. ASSUME NEW c \in Calls, SweepDel(c) PROVE TypeOK'
    <2>1. SeatOf(c) \in Seats /\ saw[c] \in Users
      BY <1>9, SeatOfType DEF SweepDel, CallsOK, Working
    <2>2. KeysOK'
      BY <1>9, <2>1, DeleteKeys DEF SweepDel
    <2>3. CallsOK'
      <3>1. Len(batch[c]) \in Nat /\ saw \in [Calls -> Users \cup {NoOne}]
        BY DEF CallsOK
      <3> QED
        BY <1>9, <3>1, NextSeatTypes DEF SweepDel, Working
    <2>4. CASE LeaseEnds(SeatOf(c), saw[c])
      BY <2>1, <2>2, <2>3, <2>4, LeaseEndTypes
    <2>5. CASE LeasesUnchanged
      BY <2>2, <2>3, <2>5 DEF LeasesUnchanged, LeasesOK
    <2> QED
      BY <1>9, <2>4, <2>5 DEF SweepDel
  <1>10. ASSUME NEW c \in Calls, Abort(c) PROVE TypeOK'
    <2>1. CallsOK'
      BY <1>10 DEF Abort, Goto, callVars, CallsOK, Working, Over
    <2> QED
      BY <1>10, <2>1 DEF Abort, LeasesUnchanged, KeysOK, LeasesOK
  <1>11. CASE Tick
    <2>1. LeasesOK'
      BY <1>11 DEF Tick, Contract!Tick, LeasesOK
    <2> QED
      BY <1>11, <2>1, ExpireKeysKeys DEF Tick, callVars, CallsOK
  <1>12. CASE UNCHANGED vars
    BY <1>12 DEF vars, callVars, KeysOK, CallsOK, LeasesOK
  <1>13. ASSUME NEW c \in Calls, NEW b \in Batches, Started(c, b) PROVE TypeOK'
    BY <1>1, <1>13, BatchesAssumption
       DEF Started, AcquireBatchLocks, ReleaseBatchLocks, ExtendSeatLocks, SweepSeatLocks
  <1>14. ASSUME NEW c \in Calls, Step(c) PROVE TypeOK'
    BY <1>2, <1>3, <1>4, <1>5, <1>6, <1>7, <1>8, <1>9, <1>14 DEF Step
  <1> QED
    BY <1>10, <1>11, <1>12, <1>13, <1>14 DEF Next, Started

\* The keys, the calls and the leases keep their types (SeatLock's TypeOK).
THEOREM TypeCorrect == Spec => []TypeOK
  BY InitTypeOK, NextTypeOK, PTL DEF Spec
-----------------------------------------------------------------------------
(* Leases and keys.  LeaseBacked is inductive: Redis runs the commands one *)
(* at a time, and each observes on the lease what it does to the key.      *)

LEMMA InitLeaseBacked == Init => LeaseBacked
  BY DEF Init, LeaseBacked, NoKey, Absent, Holder, Contract!Init

\* A key written for u, on a seat where the overwritten holder counts as robbed,
\* keeps keys and leases in step.
LEMMA WriteBacked ==
    ASSUME TypeOK, LeaseBacked, NEW s \in Seats, NEW u \in Users, NEW c \in Calls,
           SetEx(s, u, c),
           lease' = [lease EXCEPT ![s][u] = LockTTL],
           robbed' = [robbed EXCEPT ![s] = (@ \cup ({Holder(s)} \cap Users)) \ {u}]
    PROVE  LeaseBacked'
  BY DEF TypeOK, KeysOK, LeasesOK, LeaseBacked, SetEx, Written, Holder

\* Deleting a key in the name of u, with u's lease, keeps keys and leases in step.
LEMMA DeleteBacked ==
    ASSUME TypeOK, LeaseBacked, NEW s \in Seats, NEW u \in Users,
           DeleteIfHeldBy(s, u), LeaseEnds(s, u)
    PROVE  LeaseBacked'
  BY DEF TypeOK, KeysOK, LeasesOK, LeaseBacked, DeleteIfHeldBy, Absent, Holder,
         LeaseEnds, Contract!End

\* Keys and leases age together.
LEMMA TickBacked ==
    ASSUME TypeOK, LeaseBacked, Tick
    PROVE  LeaseBacked'
  BY DEF TypeOK, KeysOK, Key, LeasesOK, LeaseBacked, Tick, ExpireKeys, Absent, Holder,
         Contract!Tick

LEMMA NextLeaseBacked == TypeOK /\ LeaseBacked /\ [Next]_vars => LeaseBacked'
  <1> SUFFICES ASSUME TypeOK, LeaseBacked, [Next]_vars PROVE LeaseBacked'
    OBVIOUS
  <1>1. ASSUME UNCHANGED <<lock, lease, robbed>> PROVE LeaseBacked'
    BY <1>1 DEF LeaseBacked, Holder
  <1>2. ASSUME NEW c \in Calls, NEW b, NEW w, Call(c, b, w) PROVE LeaseBacked'
    BY <1>1, <1>2 DEF Call
  <1>3. ASSUME NEW c \in Calls, pc[c] \in Working
        PROVE  SeatOf(c) \in Seats /\ user[c] \in Users
    BY <1>3, SeatOfType DEF TypeOK, CallsOK
  <1>4. ASSUME NEW c \in Calls, AcquireNext(c) PROVE LeaseBacked'
    <2>1. SeatOf(c) \in Seats /\ user[c] \in Users
      BY <1>3, <1>4 DEF AcquireNext, Working
    <2>2. {Holder(SeatOf(c))} \cap Users = {}
      BY <1>4 DEF AcquireNext, SetNX, IsFree
    <2> QED
      BY <1>4, <2>1, <2>2, WriteBacked DEF AcquireNext, SetNX
  <1>5. ASSUME NEW c \in Calls, Rollback(c) PROVE LeaseBacked'
    BY <1>3, <1>5, DeleteBacked DEF Rollback, LastTaken, Working
  <1>6. ASSUME NEW c \in Calls, ReleaseNext(c) PROVE LeaseBacked'
    BY <1>3, <1>6, DeleteBacked DEF ReleaseNext, Working
  <1>7. ASSUME NEW c \in Calls, ExtendSet(c) PROVE LeaseBacked'
    BY <1>3, <1>7, WriteBacked DEF ExtendSet, Working
  <1>8. ASSUME NEW c \in Calls, SweepDel(c) PROVE LeaseBacked'
    <2>1. SeatOf(c) \in Seats /\ saw[c] \in Users
      BY <1>3, <1>8 DEF SweepDel, Working, TypeOK, CallsOK
    <2>2. CASE Holder(SeatOf(c)) = saw[c]
      BY <1>8, <2>1, <2>2, DeleteBacked DEF SweepDel
    <2>3. CASE Holder(SeatOf(c)) # saw[c]
      BY <1>1, <1>8, <2>3 DEF SweepDel, DeleteIfHeldBy, LeasesUnchanged
    <2> QED
      BY <2>2, <2>3
  <1>9. ASSUME NEW c \in Calls,
               AcquireRefused(c) \/ ExtendGet(c) \/ SweepGet(c) \/ Abort(c)
        PROVE  LeaseBacked'
    BY <1>1, <1>9 DEF AcquireRefused, AfterRefusal, ExtendGet, SweepGet, Abort, LeasesUnchanged
  <1>10. CASE UNCHANGED vars
    BY <1>1, <1>10 DEF vars
  <1>11. ASSUME NEW c \in Calls, NEW b \in Batches, Started(c, b) PROVE LeaseBacked'
    BY <1>2, <1>11
       DEF Started, AcquireBatchLocks, ReleaseBatchLocks, ExtendSeatLocks, SweepSeatLocks
  <1>12. ASSUME NEW c \in Calls, Step(c) PROVE LeaseBacked'
    BY <1>4, <1>5, <1>6, <1>7, <1>8, <1>9, <1>12 DEF Step
  <1>13. CASE Tick
    BY <1>13, TickBacked
  <1> QED
    BY <1>9, <1>10, <1>11, <1>12, <1>13 DEF Next, Started

\* Every lease that was not overwritten by a late extension is backed by a key
\* with exactly as long to live, and every key backs its holder's lease.
THEOREM LeasesAreBacked == Spec => []LeaseBacked
  <1>1. Init => TypeOK /\ LeaseBacked
    BY InitTypeOK, InitLeaseBacked
  <1>2. TypeOK /\ LeaseBacked /\ [Next]_vars => (TypeOK /\ LeaseBacked)'
    BY NextTypeOK, NextLeaseBacked
  <1> QED
    BY <1>1, <1>2, PTL DEF Spec

\* A key has one holder, so keys that back leases make them exclusive.
LEMMA BackedIsExclusive == LeaseBacked => Exclusive
  BY DEF LeaseBacked, Exclusive

\* Two users never count on the same seat, unless one overwrote the other by a
\* late extension: SET NX EX does prevent a double hold.
THEOREM SeatsAreExclusive == Spec => []Exclusive
  BY LeasesAreBacked, BackedIsExclusive, PTL
-----------------------------------------------------------------------------
(* All or nothing.  OwnKeys says where the keys of one acquire call can be *)
(* while it runs; the undoing loop passes over each of them before the     *)
(* call answers "refused".                                                 *)

LEMMA InitOwnKeys == Init => OwnKeys
  BY DEF Init, OwnKeys, NoKey, Absent

\* A step that writes no key and leaves the callers' positions alone, or moves a
\* call to a place where it may still own keys, preserves OwnKeys.
LEMMA DeleteOwnKeys ==
    ASSUME TypeOK, OwnKeys, NEW s \in Seats, NEW u, DeleteIfHeldBy(s, u),
           UNCHANGED <<user, batch>>
    PROVE  \A t \in Seats, d \in Calls :
              lock'[t].by = d => /\ lock[t].by = d /\ lock'[t] = lock[t]
                                 /\ (t = s => lock[s].holder # u)
  BY DEF TypeOK, KeysOK, Key, DeleteIfHeldBy, Absent, Holder

LEMMA NextOwnKeys == TypeOK /\ OwnKeys /\ [Next]_vars => OwnKeys'
  <1> SUFFICES ASSUME TypeOK, OwnKeys, [Next]_vars,
                      NEW s \in Seats, NEW d \in Calls, lock'[s].by = d
               PROVE  /\ lock'[s].holder = user'[d]
                      /\ \/ /\ pc'[d] = "acquire"
                            /\ \E k \in 1 .. at'[d] - 1 : batch'[d][k] = s
                         \/ /\ pc'[d] = "rollback"
                            /\ \E k \in at'[d] .. upto'[d] - 1 : batch'[d][k] = s
                         \/ pc'[d] \in {"extendGet", "extendSet", "lost", "granted", "aborted"}
    BY DEF OwnKeys, Holder
  <1> DEFINE Placed == /\ lock'[s].holder = user'[d]
                       /\ \/ /\ pc'[d] = "acquire"
                             /\ \E k \in 1 .. at'[d] - 1 : batch'[d][k] = s
                          \/ /\ pc'[d] = "rollback"
                             /\ \E k \in at'[d] .. upto'[d] - 1 : batch'[d][k] = s
                          \/ pc'[d] \in {"extendGet", "extendSet", "lost", "granted", "aborted"}
             Old == lock[s].by = d /\ lock'[s].holder = lock[s].holder
             Still == /\ user'[d] = user[d] /\ batch'[d] = batch[d]
                      /\ at'[d] = at[d] /\ upto'[d] = upto[d]
                      /\ pc'[d] = pc[d]
  <1>1. Old /\ Still => Placed
    BY DEF OwnKeys, Holder
  <1>2. ASSUME NEW c \in Calls, NEW b, NEW w, Call(c, b, w) PROVE Placed
    <2>1. Old /\ d # c
      BY <1>2 DEF Call, OwnKeys
    <2>2. Still
      BY <1>2, <2>1 DEF Call, Goto, TypeOK, CallsOK
    <2> QED
      BY <1>1, <2>1, <2>2
  <1>3. ASSUME NEW c \in Calls, AcquireNext(c) PROVE Placed
    <2>1. CASE SeatOf(c) = s
      <3>1. d = c /\ lock'[s].holder = user[c]
        BY <1>3, <2>1 DEF AcquireNext, SetNX, SetEx, Written, TypeOK, KeysOK
      <3>2. \/ pc'[c] = "acquire" /\ at'[c] = at[c] + 1
            \/ pc'[c] = "granted"
        BY <1>3 DEF AcquireNext, NextSeat, Goto, TypeOK, CallsOK
      <3>3. at[c] \in 1 .. (at[c] + 1) - 1 /\ batch[c][at[c]] = s
        BY <2>1 DEF SeatOf, TypeOK, CallsOK
      <3> QED
        BY <1>3, <3>1, <3>2, <3>3 DEF AcquireNext, callVars
    <2>2. CASE SeatOf(c) # s
      <3>1. Old
        BY <1>3, <2>2 DEF AcquireNext, SetNX, SetEx, TypeOK, KeysOK
      <3>2. CASE d # c
        <4>1. Still
          BY <1>3, <3>2 DEF AcquireNext, NextSeat, Goto, callVars, TypeOK, CallsOK
        <4> QED
          BY <1>1, <3>1, <4>1
      <3>3. CASE d = c
        <4>1. PICK k \in 1 .. at[c] - 1 : batch[c][k] = s
          BY <1>3, <3>1, <3>3 DEF AcquireNext, OwnKeys
        <4>2. \/ pc'[c] = "acquire" /\ at'[c] = at[c] + 1
              \/ pc'[c] = "granted"
          BY <1>3 DEF AcquireNext, NextSeat, Goto, TypeOK, CallsOK
        <4>3. k \in 1 .. (at[c] + 1) - 1
          BY <4>1 DEF TypeOK, CallsOK
        <4> QED
          BY <1>3, <3>1, <3>3, <4>1, <4>2, <4>3
             DEF AcquireNext, callVars, OwnKeys, Holder
      <3> QED
        BY <3>2, <3>3
    <2> QED
      BY <2>1, <2>2
  <1>4. ASSUME NEW c \in Calls, AcquireRefused(c) PROVE Placed
    <2>1. Old
      BY <1>4 DEF AcquireRefused
    <2>2. CASE d # c
      <3>1. Still
        BY <1>4, <2>2 DEF AcquireRefused, AfterRefusal, Goto, TypeOK, CallsOK
      <3> QED
        BY <1>1, <2>1, <3>1
    <2>3. CASE d = c
      <3>1. PICK k \in 1 .. at[c] - 1 : batch[c][k] = s
        BY <1>4, <2>1, <2>3 DEF AcquireRefused, AfterRefusal, OwnKeys
      <3>2. at[c] > 1 /\ at'[c] = 1 /\ upto'[c] = at[c] /\ pc'[c] = "rollback"
        BY <1>4, <3>1 DEF AcquireRefused, AfterRefusal, Goto, TypeOK, CallsOK
      <3> QED
        BY <1>4, <2>1, <2>3, <3>1, <3>2 DEF AcquireRefused, AfterRefusal, OwnKeys, Holder
    <2> QED
      BY <2>2, <2>3
  <1>5. ASSUME NEW c \in Calls, Rollback(c) PROVE Placed
    <2>1. SeatOf(c) \in Seats
      BY <1>5, SeatOfType DEF Rollback, LastTaken, Working, TypeOK
    <2>2. Old /\ (s = SeatOf(c) => lock[s].holder # user[c])
      BY <1>5, <2>1, DeleteOwnKeys DEF Rollback, LastTaken, callVars
    <2>3. CASE d # c
      <3>1. Still
        BY <1>5, <2>3 DEF Rollback, LastTaken, NextSeat, Goto, callVars, TypeOK, CallsOK
      <3> QED
        BY <1>1, <2>2, <3>1
    <2>4. CASE d = c
      <3>1. PICK k \in at[c] .. upto[c] - 1 : batch[c][k] = s
        BY <1>5, <2>2, <2>4 DEF Rollback, LastTaken, OwnKeys
      <3>2. lock[s].holder = user[c]
        BY <2>2, <2>4 DEF OwnKeys, Holder
      <3>3. k # at[c]
        BY <2>2, <3>1, <3>2 DEF SeatOf
      <3>4. at[c] < upto[c] - 1 /\ k \in at[c] + 1 .. upto[c] - 1
        BY <3>1, <3>3 DEF TypeOK, CallsOK
      <3>5. pc'[c] = "rollback" /\ at'[c] = at[c] + 1
        BY <1>5, <3>4 DEF Rollback, LastTaken, NextSeat, Goto, TypeOK, CallsOK
      <3> QED
        BY <1>5, <2>2, <2>4, <3>1, <3>2, <3>4, <3>5 DEF Rollback, LastTaken, callVars
    <2> QED
      BY <2>3, <2>4
  <1>6. ASSUME NEW c \in Calls, ReleaseNext(c) PROVE Placed
    <2>1. SeatOf(c) \in Seats
      BY <1>6, SeatOfType DEF ReleaseNext, Working, TypeOK
    <2>2. Old
      BY <1>6, <2>1, DeleteOwnKeys DEF ReleaseNext, callVars
    <2>3. d # c
      BY <1>6, <2>2 DEF ReleaseNext, OwnKeys
    <2>4. Still
      BY <1>6, <2>3 DEF ReleaseNext, NextSeat, Goto, callVars, TypeOK, CallsOK
    <2> QED
      BY <1>1, <2>2, <2>4
  <1>7. ASSUME NEW c \in Calls, ExtendSet(c) PROVE Placed
    <2>1. CASE SeatOf(c) = s
      <3>1. d = c /\ lock'[s].holder = user[c]
        BY <1>7, <2>1 DEF ExtendSet, SetEx, Written, TypeOK, KeysOK
      <3>2. pc'[c] \in {"extendGet", "granted"}
        BY <1>7 DEF ExtendSet, NextSeat, Goto, TypeOK, CallsOK
      <3> QED
        BY <1>7, <3>1, <3>2 DEF ExtendSet, callVars
    <2>2. CASE SeatOf(c) # s
      <3>1. Old
        BY <1>7, <2>2 DEF ExtendSet, SetEx, TypeOK, KeysOK
      <3>2. CASE d = c
        <4>1. pc'[c] \in {"extendGet", "granted"}
          BY <1>7 DEF ExtendSet, NextSeat, Goto, TypeOK, CallsOK
        <4> QED
          BY <1>7, <3>1, <3>2, <4>1 DEF ExtendSet, callVars, OwnKeys, Holder
      <3>3. CASE d # c
        <4>1. Still
          BY <1>7, <3>3 DEF ExtendSet, NextSeat, Goto, callVars, TypeOK, CallsOK
        <4> QED
          BY <1>1, <3>1, <4>1
      <3> QED
        BY <3>2, <3>3
    <2> QED
      BY <2>1, <2>2
  <1>8. ASSUME NEW c \in Calls, SweepGet(c) \/ SweepDel(c) PROVE Placed
    <2>1. Old
      <3>1. SeatOf(c) \in Seats
        BY <1>8, SeatOfType DEF SweepGet, SweepDel, Working, TypeOK
      <3> QED
        BY <1>8, <3>1, DeleteOwnKeys DEF SweepGet, SweepDel, callVars
    <2>2. d # c
      BY <1>8, <2>1 DEF SweepGet, SweepDel, OwnKeys
    <2>3. Still
      BY <1>8, <2>2 DEF SweepGet, SweepDel, NextSeat, Goto, callVars, TypeOK, CallsOK
    <2> QED
      BY <1>1, <2>1, <2>3
  <1>9. ASSUME NEW c \in Calls, ExtendGet(c) PROVE Placed
    <2>1. Old
      BY <1>9 DEF ExtendGet
    <2>2. CASE d = c
      BY <1>9, <2>1, <2>2
         DEF ExtendGet, Goto, callVars, OwnKeys, Holder, TypeOK, CallsOK
    <2>3. CASE d # c
      <3>1. Still
        BY <1>9, <2>3 DEF ExtendGet, Goto, callVars, TypeOK, CallsOK
      <3> QED
        BY <1>1, <2>1, <3>1
    <2> QED
      BY <2>2, <2>3
  <1>10. ASSUME NEW c \in Calls, Abort(c) PROVE Placed
    <2>1. Old
      BY <1>10 DEF Abort
    <2>2. CASE d = c
      BY <1>10, <2>1, <2>2 DEF Abort, Goto, callVars, OwnKeys, Holder, TypeOK, CallsOK
    <2>3. CASE d # c
      <3>1. Still
        BY <1>10, <2>3 DEF Abort, Goto, callVars, TypeOK, CallsOK
      <3> QED
        BY <1>1, <2>1, <3>1
    <2> QED
      BY <2>2, <2>3
  <1>11. CASE Tick
    <2>1. Old
      BY <1>11 DEF Tick, ExpireKeys, Absent, TypeOK, KeysOK, Key
    <2> QED
      BY <1>1, <1>11, <2>1 DEF Tick, callVars
  <1>12. CASE UNCHANGED vars
    BY <1>1, <1>12 DEF vars
  <1>13. ASSUME NEW c \in Calls, NEW b \in Batches, Started(c, b) PROVE Placed
    BY <1>2, <1>13
       DEF Started, AcquireBatchLocks, ReleaseBatchLocks, ExtendSeatLocks, SweepSeatLocks
  <1>14. ASSUME NEW c \in Calls, Step(c) PROVE Placed
    BY <1>3, <1>4, <1>5, <1>6, <1>7, <1>8, <1>9, <1>14 DEF Step
  <1> QED
    BY <1>10, <1>11, <1>12, <1>13, <1>14 DEF Next, Started

\* Every key a call has written is either still within what its loop has taken and not undone,
\* or belongs to a batch it was granted or extended, or was left behind when it broke off:
\* the loops of acquireBatchLocks (seat-lock.service.ts:61 to 83) lose sight of none.
THEOREM KeysAreTraced == Spec => []OwnKeys
  BY InitTypeOK, InitOwnKeys, NextTypeOK, NextOwnKeys, PTL DEF Spec

\* acquireBatchLocks is all or nothing: an acquire call that answered "refused"
\* has left no key of its own behind, whatever ran in between.
THEOREM AllOrNothing == Spec => []RefusedLeavesNothing
  <1>1. Init => TypeOK /\ OwnKeys
    BY InitTypeOK, InitOwnKeys
  <1>2. TypeOK /\ OwnKeys /\ [Next]_vars => (TypeOK /\ OwnKeys)'
    BY NextTypeOK, NextOwnKeys
  <1>3. OwnKeys => RefusedLeavesNothing
    BY DEF OwnKeys, RefusedLeavesNothing
  <1> QED
    BY <1>1, <1>2, <1>3, PTL DEF Spec
-----------------------------------------------------------------------------
(* The contract.  Every step of the lock service is a step of SeatLease on *)
(* the leases, or leaves them alone.                                       *)

\* Writing a free key grants a lease nobody else can count on.
LEMMA AcquireGrants ==
    ASSUME TypeOK, LeaseBacked, NEW s \in Seats, NEW u \in Users, IsFree(s),
           lease' = [lease EXCEPT ![s][u] = LockTTL],
           robbed' = [robbed EXCEPT ![s] = @ \ {u}]
    PROVE  Contract!Grant(s, u)
  <1>1. Contract!Rivals(s, u) = {}
    BY DEF Contract!Rivals, Contract!Live, LeaseBacked, IsFree
  <1> QED
    BY <1>1 DEF Contract!Grant

\* Overwriting a key overrides exactly the user the key belonged to.
LEMMA ExtendOverrides ==
    ASSUME TypeOK, LeaseBacked, NEW s \in Seats, NEW u \in Users,
           lease' = [lease EXCEPT ![s][u] = LockTTL],
           robbed' = [robbed EXCEPT ![s] = (@ \cup ({Holder(s)} \cap Users)) \ {u}]
    PROVE  Contract!Extend(s, u)
  <1>1. ASSUME NEW v \in Users \ {u}
        PROVE  v \in Contract!Rivals(s, u) <=> v = Holder(s)
    BY <1>1 DEF Contract!Rivals, Contract!Live, LeaseBacked, Holder,
                TypeOK, KeysOK, Key, LeasesOK
  <1>2. Contract!Rivals(s, u) \subseteq Users \ {u}
    BY DEF Contract!Rivals
  <1>3. (robbed[s] \cup ({Holder(s)} \cap Users)) \ {u}
            = (robbed[s] \ {u}) \cup Contract!Rivals(s, u)
    BY <1>1, <1>2
  <1> QED
    BY <1>3 DEF Contract!Extend, TypeOK, LeasesOK

LEMMA NextContract ==
    TypeOK /\ LeaseBacked /\ [Next]_vars => [Contract!Next]_(Contract!vars)
  <1> SUFFICES ASSUME TypeOK, LeaseBacked, [Next]_vars
               PROVE  Contract!Next \/ UNCHANGED Contract!vars
    OBVIOUS
  <1>1. ASSUME LeasesUnchanged PROVE UNCHANGED Contract!vars
    BY <1>1 DEF LeasesUnchanged, Contract!vars
  <1>2. ASSUME NEW c \in Calls, pc[c] \in Working
        PROVE  SeatOf(c) \in Seats /\ user[c] \in Users
    BY <1>2, SeatOfType DEF TypeOK, CallsOK
  <1>3. ASSUME NEW c \in Calls, NEW b, NEW w, Call(c, b, w)
        PROVE  UNCHANGED Contract!vars
    BY <1>3 DEF Call, Contract!vars
  <1>4. ASSUME NEW c \in Calls, AcquireNext(c) PROVE Contract!Next
    BY <1>2, <1>4, AcquireGrants DEF AcquireNext, SetNX, Working, Contract!Next
  <1>5. ASSUME NEW c \in Calls, Rollback(c) \/ ReleaseNext(c) PROVE Contract!Next
    BY <1>2, <1>5 DEF Rollback, LastTaken, ReleaseNext, LeaseEnds, Working, Contract!Next
  <1>6. ASSUME NEW c \in Calls, ExtendSet(c) PROVE Contract!Next
    BY <1>2, <1>6, ExtendOverrides DEF ExtendSet, Working, Contract!Next
  <1>7. ASSUME NEW c \in Calls, SweepDel(c)
        PROVE  Contract!Next \/ UNCHANGED Contract!vars
    <2>1. SeatOf(c) \in Seats /\ saw[c] \in Users
      BY <1>2, <1>7 DEF SweepDel, Working, TypeOK, CallsOK
    <2> QED
      BY <1>1, <1>7, <2>1 DEF SweepDel, LeaseEnds, Contract!Next
  <1>8. ASSUME NEW c \in Calls,
               AcquireRefused(c) \/ ExtendGet(c) \/ SweepGet(c) \/ Abort(c)
        PROVE  UNCHANGED Contract!vars
    BY <1>1, <1>8 DEF AcquireRefused, AfterRefusal, ExtendGet, SweepGet, Abort
  <1>9. CASE Tick
    BY <1>9 DEF Tick, Contract!Next
  <1>10. CASE UNCHANGED vars
    BY <1>10 DEF vars, Contract!vars
  <1>11. ASSUME NEW c \in Calls, NEW b \in Batches, Started(c, b)
         PROVE  UNCHANGED Contract!vars
    BY <1>3, <1>11
       DEF Started, AcquireBatchLocks, ReleaseBatchLocks, ExtendSeatLocks, SweepSeatLocks
  <1>12. ASSUME NEW c \in Calls, Step(c)
         PROVE  Contract!Next \/ UNCHANGED Contract!vars
    BY <1>4, <1>5, <1>6, <1>7, <1>8, <1>12 DEF Step
  <1> QED
    BY <1>8, <1>9, <1>10, <1>11, <1>12 DEF Next, Started

\* The lock service implements SeatLease: a lease is granted only on a seat nobody
\* else can count on, ends only through time or the users' own calls and sweeps,
\* and is overridden only by an extension.
THEOREM LocksImplementLease == Spec => ImplementsLease
  <1>1. Init => Contract!Init
    BY DEF Init
  <1> QED
    BY <1>1, TypeCorrect, LeasesAreBacked, NextContract, PTL
       DEF Spec, ImplementsLease, Contract!Spec
=============================================================================
