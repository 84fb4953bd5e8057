CONSTANTS
    Seats = {s1, s2}
    Users = {u1, u2}
    Calls = {c1, c2, c3}
    NoOne = NoOne
    LockTTL = 2
    MaxSeatsPerHold = 2
    Batches <- AllBatches
SPECIFICATION Spec
SYMMETRY Symmetric
INVARIANTS TypeOK LeaseBacked Exclusive OwnKeys RefusedLeavesNothing
PROPERTY ImplementsLease
