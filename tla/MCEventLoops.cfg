\* A thread's loop with two one-time events, promises and two regular events; a main
\* loop with two events that add, stop and delay each other, one of them blocking.
CONSTANTS
    r1 = r1  r2 = r2  r3 = r3  r4 = r4  r5 = r5  r6 = r6  r7 = r7
    e1 = e1  e2 = e2  m1 = m1  m2 = m2
    NoEvent = NoEvent
    Regular = {r1, r2}
    Event = {e1, e2}
    interval <- EveryTick
    CancelTwice = FALSE
    MaxPromised = 1
    MaxTime = 1
    MainRegular = {r1, r2, r3, r4, r5, r6, r7}
    MainEvent = {m1, m2}
    Blocking = {m1}
\* A loop may end.
CHECK_DEADLOCK FALSE
SPECIFICATION LoopsSpec
INVARIANTS
    Consistent
    EndsWhenDone
    PendingIsScheduled
PROPERTIES
    OwedEventsRun
    RegularEventsRun
    PendingEventsRun
    ExitsAfterOneAdd
