CONSTANTS
    n1 = n1  t1 = t1  t2 = t2  b1 = b1  p1 = p1  x1 = x1  x2 = x2  x3 = x3
    Requests = {n1, t1, b1, p1, x1}
    Script <- PaidThenUpdated
    CanFail = {}
SPECIFICATION Spec
PROPERTY PaidTripsStay
CHECK_DEADLOCK FALSE
