----------------------------- MODULE ThreadPool -----------------------------
(***************************************************************************)
(* What sys.thread.IThreadPool promises: a submitted task is run, once, by  *)
(* some thread of the pool, and nothing is accepted once the pool is shut   *)
(* down.                                                                    *)
(***************************************************************************)
CONSTANTS Task

VARIABLES
    status,         \* per task
    isShutdown

vars == <<status, isShutdown>>

Status == {"new", "accepted", "running", "done", "rejected"}

Init == status = [t \in Task |-> "new"] /\ isShutdown = FALSE

Become(t, from, to) == status[t] = from /\ status' = [status EXCEPT ![t] = to]

\* run either accepts the task or throws.
Run(t) == /\ Become(t, "new", IF isShutdown THEN "rejected" ELSE "accepted")
          /\ UNCHANGED isShutdown

Start(t)  == Become(t, "accepted", "running") /\ UNCHANGED isShutdown
Finish(t) == Become(t, "running", "done") /\ UNCHANGED isShutdown
Shutdown  == isShutdown' = TRUE /\ UNCHANGED status

Next == Shutdown \/ \E t \in Task : Run(t) \/ Start(t) \/ Finish(t)

Spec == Init /\ [][Next]_vars

\* Accepted tasks are executed, whatever happens to the pool afterwards.
EveryTaskRuns == \A t \in Task : status[t] = "accepted" ~> status[t] = "done"
=============================================================================
