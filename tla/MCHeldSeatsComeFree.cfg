CONSTANTS
    s1 = s1  s2 = s2  u1 = u1  u2 = u2  r1 = r1  r2 = r2  r3 = r3
    Seats = {s1, s2}
    Users = {u1, u2}
    Requests = {r1, r2}
    Sweeps = {w1}
    NoOne = NoOne
    LockTTL = 2
    HoldTTL = 2
    MaxSeatsPerHold = 2
    Caller <- OneCaller
    Script <- HoldAgain
    CanFail = {}
SPECIFICATION PromptFairSpec
PROPERTY HeldSeatsComeFree
