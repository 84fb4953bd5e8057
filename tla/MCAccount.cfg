CONSTANTS
    r1 = r1  r2 = r2  r3 = r3  r4 = r4  r5 = r5
    Requests = {r1, r2, r3, r4, r5}
    Passwords = {"old", "new", "bad"}
    Scripts <- Both
    Accounts <- Starts
    MaxLoginAttempts = 2
    LockTime = 1
    OtpMaxAttempts = 2
    OtpTTL = 1
    AccessTTL = 1
    RefreshTTL = 2
    ShortTTL = 2
    LongTTL = 3
    WrongCode = WrongCode
SPECIFICATION Spec
INVARIANTS TypeOK GuessesCounted LockedOnlyAtLimit OldSessionsOverlap
    OpenCodesOverlap ListedIsRefreshable
PROPERTIES CodeSpentOnce ImplementsAccess
