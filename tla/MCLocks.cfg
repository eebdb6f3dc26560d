\* Three threads wait, with and without a time-out.
CONSTANTS
    t1 = t1  t2 = t2  t3 = t3
    Waiters = {t1, t2, t3}
    MaxPermits = 3
    CsMaxPermits = 2
    MaxTickets = 5
\* Threads need not go on calling wait and release.
CHECK_DEADLOCK FALSE
SPECIFICATION LocksSpec
INVARIANT TypeOK
PROPERTIES
    ImplementsLock
    ReleaseIsDelivered
    CsImplementsLock
    CsReleaseIsDelivered
