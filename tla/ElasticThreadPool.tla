-------------------------- MODULE ElasticThreadPool --------------------------
(***************************************************************************)
(* sys.thread.ElasticThreadPool: run hands a task to an idle worker, starts  *)
(* a worker, or queues the task when maxThreadsCount workers are busy.       *)
(* Workers look into the queue after a task, and die when they have had      *)
(* nothing to do for some time.  run and shutdown hold the pool's mutex;     *)
(* the workers do not.                                                      *)
(***************************************************************************)
EXTENDS Naturals, Sequences, FiniteSets

CONSTANTS
    maxThreadsCount,
    Task,           \* every task is submitted once, by a thread of its own
    Throwing,       \* tasks that end with an exception
    Closer,         \* threads that call shutdown
    Thread,         \* bound: threads that exist at the same time
    NoTask,         \* null
    NoThread

ASSUME TasksAssumption ==
    Throwing \subseteq Task /\ NoTask \notin Task \cup Closer /\ Closer \cap Task = {}
ASSUME ThreadsAssumption == maxThreadsCount \in Nat \ {0} /\ NoThread \notin Thread

Worker == 1 .. maxThreadsCount

VARIABLES
    _isShutdown,
    pool,           \* number of workers in the pool
    queue,
    mutex,          \* task being submitted, closer, or NoTask: who holds the mutex
    scan,           \* the worker the holder looks at next
    status,         \* per task, as in ThreadPool
    submitting,     \* tasks that run has accepted and not yet handed over
    stopping,       \* closers in shutdown, past its early return
    task, dead, isShutdown, waiter,     \* per worker; waiter counts its Lock's releases
    worker, pc, fn, \* per thread: whose loop it runs, where, and the task it calls
    late            \* history: calls of run that were under way at the last shutdown

clientVars == <<_isShutdown, pool, queue, mutex, scan, submitting, stopping>>
workerVars == <<task, dead, isShutdown, waiter>>
threadVars == <<worker, pc, fn>>
vars == <<clientVars, status, workerVars, threadVars, late>>

P == INSTANCE ThreadPool WITH isShutdown <- _isShutdown

PC == {"none", "wait", "switch", "call", "drain", "idle", "dying", "catch", "restart"}

TypeOK ==
    /\ _isShutdown \in BOOLEAN
    /\ pool \in 0 .. maxThreadsCount
    /\ queue \in Seq(Task)
    /\ mutex \in Task \cup Closer \cup {NoTask}
    /\ scan \in 1 .. maxThreadsCount + 1
    /\ status \in [Task -> P!Status]
    /\ submitting \subseteq {t \in Task : status[t] = "accepted"} /\ stopping \subseteq Closer
    /\ task \in [Worker -> Task \cup {NoTask}] /\ dead \in [Worker -> BOOLEAN]
    /\ isShutdown \in [Worker -> BOOLEAN] /\ waiter \in [Worker -> Nat]
    /\ worker \in [Thread -> Worker] /\ pc \in [Thread -> PC]
    /\ fn \in [Thread -> Task \cup {NoTask}] /\ late \subseteq Task

Init == /\ _isShutdown = FALSE /\ pool = 0 /\ queue = <<>>
        /\ mutex = NoTask /\ scan = 1
        /\ status = [t \in Task |-> "new"] /\ submitting = {} /\ stopping = {}
        /\ task = [i \in Worker |-> NoTask] /\ dead = [i \in Worker |-> FALSE]
        /\ isShutdown = [i \in Worker |-> FALSE] /\ waiter = [i \in Worker |-> 0]
        /\ worker = [h \in Thread |-> 1] /\ pc = [h \in Thread |-> "none"]
        /\ fn = [h \in Thread |-> NoTask] /\ late = {}

-----------------------------------------------------------------------------
(* Worker.start and wakeup.                                                 *)

\* Thread.create(loop), by a thread that itself continues at `next`.
Start(i, me, next) ==
    \E h \in Thread :
        /\ pc[h] = "none"
        /\ worker' = [worker EXCEPT ![h] = i]
        /\ pc' = [g \in Thread |-> IF g = h THEN "wait" ELSE IF g = me THEN next ELSE pc[g]]

\* Mutant: start does not look whether the worker is dead.
Wakeup_Starts(i, t, created) ==
    /\ Start(i, NoThread, "none") /\ dead' = [dead EXCEPT ![i] = FALSE]
    /\ task' = [task EXCEPT ![i] = t]
    /\ waiter' = [waiter EXCEPT ![i] = @ + 1]
    /\ UNCHANGED <<isShutdown, fn>>

\* Mutant: start leaves dead as it is.
Wakeup_StaysDead(i, t, created) ==
    /\ IF dead[i] \/ created THEN Start(i, NoThread, "none") ELSE UNCHANGED <<worker, pc>>
    /\ task' = [task EXCEPT ![i] = t]
    /\ waiter' = [waiter EXCEPT ![i] = @ + 1]
    /\ UNCHANGED <<dead, isShutdown, fn>>

\* Under deathMutex.  created: the worker is new, its constructor starts it.
Wakeup(i, t, created) ==
    /\ IF dead[i] \/ created
         THEN Start(i, NoThread, "none") /\ dead' = [dead EXCEPT ![i] = FALSE]
         ELSE UNCHANGED <<worker, pc, dead>>
    /\ task' = [task EXCEPT ![i] = t]
    /\ waiter' = [waiter EXCEPT ![i] = @ + 1]
    /\ UNCHANGED <<isShutdown, fn>>

-----------------------------------------------------------------------------
(* Callers of run and of shutdown.                                          *)

RunCheck(t) ==
    /\ status[t] = "new"
    /\ status' = [status EXCEPT ![t] = IF _isShutdown THEN "rejected" ELSE "accepted"]
    /\ submitting' = IF _isShutdown THEN submitting ELSE submitting \cup {t}
    /\ UNCHANGED <<_isShutdown, pool, queue, mutex, scan, stopping, workerVars, threadVars,
                   late>>

RunAcquire(t) ==
    /\ t \in submitting /\ mutex = NoTask
    /\ mutex' = t /\ scan' = 1
    /\ UNCHANGED <<_isShutdown, pool, queue, status, submitting, stopping, workerVars,
                   threadVars, late>>

\* A busy worker is passed over.  run would remember a dead one and wake it up if
\* it finds no worker without a task; but a dead worker has none (DeadHasNoTask),
\* so that branch is never taken.
RunScan ==
    /\ mutex \in Task /\ scan <= pool /\ task[scan] # NoTask
    /\ scan' = scan + 1
    /\ UNCHANGED <<_isShutdown, pool, queue, mutex, status, submitting, stopping, workerVars,
                   threadVars, late>>

RunReturns == mutex' = NoTask /\ submitting' = submitting \ {mutex}

\* A worker without a task, waiting or dead, gets this one.
RunWakeup ==
    /\ mutex \in Task /\ scan <= pool /\ task[scan] = NoTask
    /\ Wakeup(scan, mutex, FALSE)
    /\ RunReturns
    /\ UNCHANGED <<_isShutdown, pool, queue, scan, stopping, status, late>>

RunCreate ==
    /\ mutex \in Task /\ scan > pool /\ pool < maxThreadsCount
    /\ pool' = pool + 1
    /\ Wakeup(pool + 1, mutex, TRUE)
    /\ RunReturns
    /\ UNCHANGED <<_isShutdown, queue, scan, stopping, status, late>>

RunQueue ==
    /\ mutex \in Task /\ scan > pool /\ pool = maxThreadsCount
    /\ queue' = Append(queue, mutex)
    /\ RunReturns
    /\ UNCHANGED <<_isShutdown, pool, scan, stopping, status, workerVars, threadVars, late>>

\* shutdown up to its early return, which looks at the flag without the mutex.
ShutdownCheck(c) ==
    /\ ~_isShutdown /\ c \notin stopping
    /\ stopping' = stopping \cup {c}
    /\ UNCHANGED <<_isShutdown, pool, queue, mutex, scan, status, submitting, workerVars,
                   threadVars, late>>

\* Another call may have shut the pool down meanwhile; this one does it again.
ShutdownAcquire(c) ==
    /\ c \in stopping /\ mutex = NoTask
    /\ _isShutdown' = TRUE /\ late' = submitting
    /\ mutex' = c /\ stopping' = stopping \ {c} /\ scan' = 1
    /\ UNCHANGED <<pool, queue, status, submitting, workerVars, threadVars>>

\* Mutant: a waiting worker is not woken.
ShutdownWorker_NoRelease ==
    /\ mutex \in Closer /\ scan <= pool
    /\ isShutdown' = [isShutdown EXCEPT ![scan] = TRUE]
    /\ scan' = scan + 1
    /\ UNCHANGED <<_isShutdown, pool, queue, mutex, status, submitting, stopping,
                   task, dead, waiter, threadVars, late>>

ShutdownWorker ==
    /\ mutex \in Closer /\ scan <= pool
    /\ isShutdown' = [isShutdown EXCEPT ![scan] = TRUE]
    /\ waiter' = [waiter EXCEPT ![scan] = @ + 1]
    /\ scan' = scan + 1
    /\ UNCHANGED <<_isShutdown, pool, queue, mutex, status, submitting, stopping,
                   task, dead, threadVars, late>>

ShutdownReturns ==
    /\ mutex \in Closer /\ scan > pool
    /\ mutex' = NoTask
    /\ UNCHANGED <<_isShutdown, pool, queue, scan, status, submitting, stopping,
                   workerVars, threadVars, late>>

-----------------------------------------------------------------------------
(* Worker.loop, run by thread h.                                            *)

At(h, label) == pc[h] = label
Goto(h, label) == pc' = [pc EXCEPT ![h] = label] /\ UNCHANGED worker

Wait(h) ==
    /\ At(h, "wait") /\ waiter[worker[h]] > 0
    /\ waiter' = [waiter EXCEPT ![worker[h]] = @ - 1]
    /\ Goto(h, "switch")
    /\ UNCHANGED <<clientVars, status, task, dead, isShutdown, fn, late>>

\* waiter.wait(timeout) returns false.
TimeOut(h) ==
    /\ At(h, "wait") /\ waiter[worker[h]] = 0
    /\ Goto(h, "dying")
    /\ UNCHANGED <<clientVars, status, workerVars, fn, late>>

\* The thread h calls t.
Call(h, t) == /\ Goto(h, "call")
              /\ fn' = [fn EXCEPT ![h] = t]
              /\ status' = [status EXCEPT ![t] = "running"]

Switch(h) ==
    LET i == worker[h] IN
    /\ At(h, "switch")
    /\ IF task[i] # NoTask THEN Call(h, task[i])
       ELSE Goto(h, IF isShutdown[i] THEN "dying" ELSE "wait") /\ UNCHANGED <<status, fn>>
    /\ UNCHANGED <<clientVars, workerVars, late>>

\* A task is over, normally or with an exception.
Return(h) ==
    /\ At(h, "call")
    /\ status' = [status EXCEPT ![fn[h]] = "done"]
    /\ fn' = [fn EXCEPT ![h] = NoTask]
    /\ Goto(h, IF fn[h] \in Throwing THEN "catch" ELSE "drain")
    /\ UNCHANGED <<clientVars, workerVars, late>>

\* queue.pop(false).
Drain(h) ==
    /\ At(h, "drain")
    /\ IF queue = <<>> THEN Goto(h, "idle") /\ UNCHANGED <<queue, status, fn>>
       ELSE Call(h, Head(queue)) /\ queue' = Tail(queue)
    /\ UNCHANGED <<_isShutdown, pool, mutex, scan, submitting, stopping, workerVars, late>>

\* task = null.
Idle(h) ==
    /\ At(h, "idle")
    /\ task' = [task EXCEPT ![worker[h]] = NoTask]
    /\ Goto(h, "wait")
    /\ UNCHANGED <<clientVars, status, dead, isShutdown, waiter, fn, late>>

\* Mutant: a task submitted after the time-out is not looked for.
Die_NoLook(h) ==
    /\ At(h, "dying")
    /\ Goto(h, "none") /\ dead' = [dead EXCEPT ![worker[h]] = TRUE]
    /\ UNCHANGED <<clientVars, status, task, isShutdown, waiter, fn, late>>

\* Under deathMutex.
Die(h) ==
    LET i == worker[h] IN
    /\ At(h, "dying")
    /\ IF task[i] # NoTask
         THEN Start(i, h, "none") /\ dead' = [dead EXCEPT ![i] = FALSE]
         ELSE Goto(h, "none") /\ dead' = [dead EXCEPT ![i] = TRUE]
    /\ UNCHANGED <<clientVars, status, task, isShutdown, waiter, fn, late>>

\* Mutant: the task stays in its slot.
Catch_KeepsTask(h) ==
    /\ At(h, "catch")
    /\ Goto(h, "restart")
    /\ UNCHANGED <<clientVars, status, workerVars, fn, late>>

Catch(h) ==
    /\ At(h, "catch")
    /\ task' = [task EXCEPT ![worker[h]] = NoTask]
    /\ Goto(h, "restart")
    /\ UNCHANGED <<clientVars, status, dead, isShutdown, waiter, fn, late>>

\* start, and the exception ends this thread.
Restart(h) ==
    /\ At(h, "restart")
    /\ Start(worker[h], h, "none")
    /\ dead' = [dead EXCEPT ![worker[h]] = FALSE]
    /\ UNCHANGED <<clientVars, status, task, isShutdown, waiter, fn, late>>

-----------------------------------------------------------------------------
Run == \/ \E t \in Task : RunCheck(t) \/ RunAcquire(t)
       \/ RunScan \/ RunWakeup \/ RunCreate \/ RunQueue

Close == \/ \E c \in Closer : ShutdownCheck(c) \/ ShutdownAcquire(c)
         \/ ShutdownWorker \/ ShutdownReturns

Loop(h) == Wait(h) \/ Switch(h) \/ Return(h) \/ Drain(h) \/ Idle(h)
           \/ Die(h) \/ Catch(h) \/ Restart(h)

Next == Run \/ Close \/ \E h \in Thread : Loop(h) \/ TimeOut(h)

\* Calls that have begun go on, and so do threads; a worker may wait as long as
\* threadTimeout says, which may be longer than anything else takes.
Fairness ==
    /\ \A t \in Task : WF_vars(RunAcquire(t))
    /\ WF_vars(RunScan \/ RunWakeup \/ RunCreate \/ RunQueue)
    /\ \A c \in Closer : WF_vars(ShutdownAcquire(c))
    /\ WF_vars(ShutdownWorker \/ ShutdownReturns)
    /\ \A h \in Thread : WF_vars(Loop(h))

Spec == Init /\ [][Next]_vars /\ Fairness

-----------------------------------------------------------------------------
(* Properties.                                                              *)

\* Workers take tasks from their own slot and from the queue, and are restarted
\* after exceptions and after dying: still a task runs at most once, and only if
\* run has accepted it.
ImplementsThreadPool == P!Spec

\* Never two threads in the loop of one worker: they would both call its task.
OneLoopPerWorker ==
    \A g, h \in Thread : g # h /\ worker[g] = worker[h] => pc[g] = "none" \/ pc[h] = "none"

\* A worker that run takes to be alive has a thread, and a dead one has none.
DeadHasNoThread ==
    \A i \in 1 .. pool : dead[i] <=> \A h \in Thread : pc[h] = "none" \/ worker[h] # i

\* The worker run would wake up last never exists: dying and being handed a task
\* exclude each other.
DeadHasNoTask == \A i \in Worker : dead[i] => task[i] = NoTask

\* What the workers' flags, slots and threads say of each other, all the time.
Consistent == TypeOK /\ OneLoopPerWorker /\ DeadHasNoThread /\ DeadHasNoTask

\* A task handed to a worker is run although the worker may be timing out.
HandedTaskRuns ==
    \A i \in Worker, t \in Task : task[i] = t ~> status[t] = "done"

\* Accepted tasks are executed.
EveryTaskRuns == P!EveryTaskRuns

\* After shutdown every thread ends without waiting for its time-out, unless a call
\* of run has overlapped with the last call of it.
ShutdownEndsThreads == (_isShutdown /\ late = {}) ~> \A h \in Thread : pc[h] = "none"
=============================================================================
