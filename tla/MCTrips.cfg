CONSTANTS
    n1 = n1  t1 = t1  t2 = t2  b1 = b1  p1 = p1  x1 = x1  x2 = x2  x3 = x3
    Requests = {n1, t1, t2, b1, p1, x1, x2, x3}
    Script <- Everything
    CanFail = {t1, x1}
SPECIFICATION Spec
INVARIANTS TypeOK BookingsKeepTheirTrip TripsKeepTheirRoute SeatsAreTheGrid ListedTripsHaveSeats
PROPERTY OverlookedPaymentsUnseen
CHECK_DEADLOCK FALSE
