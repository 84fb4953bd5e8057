CONSTANTS
    s1 = s1  s2 = s2  u1 = u1  u2 = u2
    h1 = h1  c1 = c1  p1 = p1  h2 = h2  c2 = c2  p2 = p2  x = x  y = y
    Seats = {s1}
    Users = {u1, u2}
    Requests = {c1, p1, c2, p2}
    Sweeps = {}
    Casts <- Everybody
    Departures = {}
    NoOne = NoOne
    LockTTL = 1
    HoldTTL = 1
    MaxSeatsPerHold = 1
    Caller <- Buyers
    Script <- NoHolds
    Deal <- TwoSales
    CanFail = {}
SPECIFICATION Spec
INVARIANT NoDoubleBooking
