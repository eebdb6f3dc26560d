---------------------------- MODULE MCThreadPools ----------------------------
(* The two pools of sys.thread for TLC.  kind says which one the program has *)
(* made; nothing is ever done with the other one.                            *)
EXTENDS ElasticThreadPool

CONSTANTS h1, h2, h3, a, b, c, w1, w2, k1, k2,
          FixedWorker, FixedThrowing, ShutdownTask

VARIABLES kind,     \* in Elastic, or "fixed"
          fixedIsShutdown, fixedQueue, fixedStatus, fixedSubmitting, closing, fixedTask

Elastic == {"elastic", "closed"}

fixedVars == <<fixedIsShutdown, fixedQueue, fixedStatus, fixedSubmitting, closing, fixedTask>>

Fixed == INSTANCE FixedThreadPool WITH
    Worker <- FixedWorker, Throwing <- FixedThrowing,
    _isShutdown <- fixedIsShutdown, queue <- fixedQueue, status <- fixedStatus,
    submitting <- fixedSubmitting, task <- fixedTask

ASSUME FixedAssumption == Fixed!ConstantsFit

PoolsInit == Init /\ Fixed!Init /\ kind \in {"elastic", "closed", "fixed"}

\* Bound: three tasks and one call of shutdown, or two of each.  Of two that are
\* alike, b and c and the closers, it does not matter which comes first.
Within ==
    /\ kind = "elastic" => k2 \notin stopping' /\ (status'[c] # "new" => status[b] # "new")
    /\ kind = "closed" => status'[c] = "new" /\ (k2 \in stopping' \ stopping => k1 \in stopping)

PoolsNext == /\ UNCHANGED kind
             /\ \/ kind \in Elastic /\ Next /\ Within /\ UNCHANGED fixedVars
                \/ kind = "fixed" /\ Fixed!Next /\ UNCHANGED vars

\* As in each module, for the pool that is there.
PoolsFairness ==
    /\ \A t \in Task : WF_vars(kind \in Elastic /\ RunAcquire(t))
    /\ WF_vars(kind \in Elastic /\ (RunScan \/ RunWakeup \/ RunCreate \/ RunQueue))
    /\ \A k \in Closer : WF_vars(kind \in Elastic /\ ShutdownAcquire(k))
    /\ WF_vars(kind \in Elastic /\ (ShutdownWorker \/ ShutdownReturns))
    /\ \A h \in Thread : WF_vars(kind \in Elastic /\ Loop(h))
    /\ WF_fixedVars(kind = "fixed" /\ Fixed!Calls)
    /\ \A w \in FixedWorker : WF_fixedVars(kind = "fixed" /\ Fixed!Work(w))

PoolsSpec == PoolsInit /\ [][PoolsNext]_<<kind, vars, fixedVars>> /\ PoolsFairness

-----------------------------------------------------------------------------
\* The bookkeeping of either pool is in order whatever its threads do.
PoolsConsistent == Consistent /\ Fixed!TypeOK

\* What FixedThreadPool says of the workers that share one Deque.
FixedImplementsThreadPool == Fixed!ImplementsThreadPool

SubmittedTasksRun == Fixed!SubmittedTasksRun

ShutdownEndsWorkers == Fixed!ShutdownEndsWorkers
=============================================================================
