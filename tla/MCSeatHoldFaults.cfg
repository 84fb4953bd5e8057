CONSTANTS
    s1 = s1  s2 = s2  u1 = u1  u2 = u2  r1 = r1  r2 = r2
    Seats = {s1, s2}
    Users = {u1, u2}
    Requests = {r1, r2}
    Sweeps = {w1}
    NoOne = NoOne
    LockTTL = 1
    HoldTTL = 1
    MaxSeatsPerHold = 2
    Caller <- TwoCallers
    Script <- TwoHolds
    CanFail = {r1, w1}
SPECIFICATION FairEventSpec
INVARIANTS RefusedHoldLeavesNoTrace ViewFollows
PROPERTIES SoldUnlessOvertaken HoldsEnd LocksExpire
