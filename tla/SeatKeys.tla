------------------------------ MODULE SeatKeys ------------------------------
(***************************************************************************)
(* The Redis keys seat_lock:{trip}:{seat} of one trip and the commands     *)
(* RedisService sends for them.  Redis executes one command at a time, so  *)
(* each operator below is one atomic step.  A key's value is the user that *)
(* set it; "by" is an auxiliary field, absent from Redis, that names the   *)
(* call whose command wrote the value.  Time is relative: "ttl" counts the *)
(* ticks the key has left.                                                 *)
(*                                                                         *)
(* In this and the other modules a definition marked (slip) is no part of  *)
(* the model: it is the next definition with a plausible mistake in it,    *)
(* which a property is there to notice.                                    *)
(***************************************************************************)
EXTENDS Naturals

CONSTANTS Seats,     \* seat numbers of the trip
          Users,     \* the user ids used as lock values
          Calls,     \* names of the calls that write keys (auxiliary)
          LockTTL,   \* SEAT_HOLD_TTL_SECONDS, in ticks
          NoOne      \* the reply nil of GET

ASSUME LockTTLAssumption == LockTTL \in Nat \ {0}
ASSUME NoOneAssumption == NoOne \notin Users /\ NoOne \notin Calls

VARIABLE lock

Absent == [holder |-> NoOne, ttl |-> 0, by |-> NoOne]

Key == [holder : Users \cup {NoOne},
        ttl    : 0 .. LockTTL,
        by     : Calls \cup {NoOne}]

\* An absent key has nothing left to live, a present one has something.
KeysOK == /\ lock \in [Seats -> Key]
          /\ \A s \in Seats : (lock[s].holder = NoOne) <=> (lock[s] = Absent)
          /\ \A s \in Seats : (lock[s].holder \in Users) => lock[s].ttl > 0

Holder(s) == lock[s].holder                                  \* GET
IsFree(s) == Holder(s) = NoOne                               \* nil: what NX asks for

Written(u, c) == [holder |-> u, ttl |-> LockTTL, by |-> c]

NoKey == lock = [s \in Seats |-> Absent]

\* SET key u EX ttl; what stood there before is overwritten.
SetEx(s, u, c) == lock' = [lock EXCEPT ![s] = Written(u, c)]

\* (slip) SET without NX.
SetAlways(s, u, c) == SetEx(s, u, c)

\* SET key u EX ttl NX, when it answers OK.
SetNX(s, u, c) == IsFree(s) /\ SetEx(s, u, c)

\* (slip) DEL in place of the script.
DeleteAlways(s, u) == lock' = [lock EXCEPT ![s] = Absent]

\* The compare-and-delete script.
DeleteIfHeldBy(s, u) ==
    lock' = IF Holder(s) = u THEN [lock EXCEPT ![s] = Absent] ELSE lock

\* (slip) SET without EX.
KeepKeys == UNCHANGED lock

\* One tick passes: keys at the end of their time to live disappear.
ExpireKeys ==
    lock' = [s \in Seats |-> IF lock[s].ttl <= 1
                             THEN Absent
                             ELSE [lock[s] EXCEPT !.ttl = @ - 1]]
=============================================================================
