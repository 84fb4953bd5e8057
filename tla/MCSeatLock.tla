----------------------------- MODULE MCSeatLock -----------------------------
(* A small instance of SeatLock for TLC. *)
EXTENDS SeatLock, FiniteSets, TLC

\* Every list of distinct seats, in every order.
AllBatches ==
    {b \in UNION {[1 .. n -> Seats] : n \in 1 .. Cardinality(Seats)} :
        \A i, j \in DOMAIN b : b[i] = b[j] => i = j}

Symmetric == Permutations(Seats) \cup Permutations(Users) \cup Permutations(Calls)
=============================================================================
