\* Three tasks for two workers.  The elastic pool has three threads, and one task
\* throws; the fixed one is shut down by two threads, and two tasks throw.
CONSTANTS
    h1 = h1  h2 = h2  h3 = h3  a = a  b = b  c = c
    w1 = w1  w2 = w2  k1 = k1  k2 = k2
    NoTask = NoTask  NoThread = NoThread  ShutdownTask = ShutdownTask
    maxThreadsCount = 2
    Task = {a, b, c}
    Throwing = {a}
    Thread = {h1, h2, h3}
    FixedWorker = {w1, w2}
    FixedThrowing = {a, b}
    Closer = {k1, k2}
\* A pool comes to rest once it is shut down.
CHECK_DEADLOCK FALSE
SPECIFICATION PoolsSpec
INVARIANT PoolsConsistent
PROPERTIES
    ImplementsThreadPool
    HandedTaskRuns
    ShutdownEndsThreads
    FixedImplementsThreadPool
    SubmittedTasksRun
    ShutdownEndsWorkers
