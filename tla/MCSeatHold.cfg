CONSTANTS
    s1 = s1  s2 = s2  u1 = u1  u2 = u2  r1 = r1  r2 = r2  r3 = r3
    Seats = {s1, s2}
    Users = {u1, u2}
    Requests = {r1, r2, r3}
    Sweeps = {w1}
    NoOne = NoOne
    LockTTL = 1
    HoldTTL = 1
    MaxSeatsPerHold = 2
    Caller <- Callers
    Script <- AnyRace
    CanFail = {r2, w1}
SPECIFICATION Spec
INVARIANTS TypeOK RefusedHoldLeavesNoTrace
PROPERTIES ImplementsLease HoldEndsOnce NeverExpiredEarly SoldUnlessOvertaken
    OfferedWithinReach
