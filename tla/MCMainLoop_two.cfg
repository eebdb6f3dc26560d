\* Two events.
CONSTANTS
    r1 = r1  r2 = r2  r3 = r3  r4 = r4  r5 = r5  r6 = r6  r7 = r7
    m1 = m1  m2 = m2
    NoEvent = NoEvent
    Regular = {r1, r2, r3, r4, r5, r6}
    MainEvent = {m1, m2}
    Blocking = {m1, m2}
\* The loop may end.
CHECK_DEADLOCK FALSE
SPECIFICATION Spec
PROPERTY ExitsWhenStopped
