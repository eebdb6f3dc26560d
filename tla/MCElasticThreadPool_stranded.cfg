\* No task throws.
CONSTANTS
    h1 = h1  h2 = h2  h3 = h3  a = a  b = b  c = c
    k1 = k1  NoTask = NoTask  NoThread = NoThread
    maxThreadsCount = 2
    Task = {a, b, c}
    Throwing = {}
    Closer = {k1}
    Thread = {h1, h2, h3}
\* The pool comes to rest once it is shut down.
CHECK_DEADLOCK FALSE
SPECIFICATION Spec
PROPERTY EveryTaskRuns
