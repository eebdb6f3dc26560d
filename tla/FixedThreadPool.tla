--------------------------- MODULE FixedThreadPool ---------------------------
(***************************************************************************)
(* sys.thread.FixedThreadPool: workers that pop tasks from one Deque.  The   *)
(* pool is shut down by one throwing task per worker.  A worker whose task   *)
(* throws anything else starts a new thread in its place.                    *)
(***************************************************************************)
EXTENDS Naturals, Sequences, FiniteSets

CONSTANTS
    Worker,
    Task,           \* every task is submitted once, by a thread of its own
    Throwing,       \* tasks that end with an exception
    Closer,         \* threads that call shutdown
    ShutdownTask    \* the task shutdown adds

\* Assumed by the modules that make a pool.
ConstantsFit == /\ Throwing \subseteq Task /\ ShutdownTask \notin Task
                /\ {"pop", "exited"} \cap (Task \cup {ShutdownTask}) = {}
                /\ IsFiniteSet(Worker) /\ Worker # {}

VARIABLES
    _isShutdown,
    queue,
    status,         \* per task, as in ThreadPool
    submitting,     \* tasks that run has accepted and not yet added to the queue
    closing,        \* per closer: shutdown tasks it has still to add
    task            \* per worker: the task it has popped, or where its loop is

vars == <<_isShutdown, queue, status, submitting, closing, task>>

P == INSTANCE ThreadPool WITH isShutdown <- _isShutdown

Checked == 1 + Cardinality(Worker)      \* in shutdown, past its early return

TypeOK == /\ _isShutdown \in BOOLEAN
          /\ queue \in Seq(Task \cup {ShutdownTask})
          /\ status \in [Task -> P!Status]
          /\ submitting \subseteq {t \in Task : status[t] = "accepted"}
          /\ closing \in [Closer -> 0 .. Checked]
          /\ task \in [Worker -> Task \cup {"pop", "exited", ShutdownTask}]

Init == /\ _isShutdown = FALSE
        /\ queue = <<>>
        /\ status = [t \in Task |-> "new"]
        /\ submitting = {}
        /\ closing = [c \in Closer |-> 0]
        /\ task = [w \in Worker |-> "pop"]

\* Mutant: the exception is missing, a rejected task is queued all the same.
RunCheck_NoThrow(t) ==
    /\ status[t] = "new"
    /\ status' = [status EXCEPT ![t] = IF _isShutdown THEN "rejected" ELSE "accepted"]
    /\ submitting' = submitting \cup {t}
    /\ UNCHANGED <<_isShutdown, queue, closing, task>>

\* run up to its check of _isShutdown.
RunCheck(t) ==
    /\ status[t] = "new"
    /\ status' = [status EXCEPT ![t] = IF _isShutdown THEN "rejected" ELSE "accepted"]
    /\ submitting' = IF _isShutdown THEN submitting ELSE submitting \cup {t}
    /\ UNCHANGED <<_isShutdown, queue, closing, task>>

RunAdd(t) ==
    /\ t \in submitting
    /\ submitting' = submitting \ {t}
    /\ queue' = Append(queue, t)
    /\ UNCHANGED <<_isShutdown, status, closing, task>>

ShutdownCheck(c) ==
    /\ closing[c] = 0 /\ ~_isShutdown
    /\ closing' = [closing EXCEPT ![c] = Checked]
    /\ UNCHANGED <<_isShutdown, queue, status, submitting, task>>

\* Mutant: one shutdown task for the whole pool.
ShutdownSet_One(c) ==
    /\ closing[c] = Checked
    /\ _isShutdown' = TRUE
    /\ closing' = [closing EXCEPT ![c] = 1]
    /\ UNCHANGED <<queue, status, submitting, task>>

ShutdownSet(c) ==
    /\ closing[c] = Checked
    /\ _isShutdown' = TRUE
    /\ closing' = [closing EXCEPT ![c] = Checked - 1]
    /\ UNCHANGED <<queue, status, submitting, task>>

\* Mutant: the shutdown tasks overtake the tasks in the queue.
ShutdownAdd_Push(c) ==
    /\ closing[c] \in 1 .. Checked - 1
    /\ closing' = [closing EXCEPT ![c] = @ - 1]
    /\ queue' = <<ShutdownTask>> \o queue
    /\ UNCHANGED <<_isShutdown, status, submitting, task>>

ShutdownAdd(c) ==
    /\ closing[c] \in 1 .. Checked - 1
    /\ closing' = [closing EXCEPT ![c] = @ - 1]
    /\ queue' = Append(queue, ShutdownTask)
    /\ UNCHANGED <<_isShutdown, status, submitting, task>>

\* queue.pop(true), and the task is called.
Pop(w) ==
    /\ task[w] = "pop" /\ queue # <<>>
    /\ task' = [task EXCEPT ![w] = Head(queue)]
    /\ queue' = Tail(queue)
    /\ status' = [t \in Task |-> IF t = Head(queue) THEN "running" ELSE status[t]]
    /\ UNCHANGED <<_isShutdown, submitting, closing>>

TaskEnds(w, next) ==
    /\ task[w] \in Task
    /\ status' = [status EXCEPT ![task[w]] = "done"]
    /\ task' = [task EXCEPT ![w] = next]
    /\ UNCHANGED <<_isShutdown, queue, submitting, closing>>

Return(w) == task[w] \notin Throwing /\ TaskEnds(w, "pop")

\* Mutant: the new thread starts with the task that has thrown.
Catch_Retry(w) ==
    /\ task[w] \in Throwing
    /\ status' = [status EXCEPT ![task[w]] = "done"]
    /\ queue' = <<task[w]>> \o queue
    /\ task' = [task EXCEPT ![w] = "pop"]
    /\ UNCHANGED <<_isShutdown, submitting, closing>>

\* catch(e): a new thread goes on with the loop.
Catch(w) == task[w] \in Throwing /\ TaskEnds(w, "pop")

Exit(w) ==
    /\ task[w] = ShutdownTask
    /\ task' = [task EXCEPT ![w] = "exited"]
    /\ UNCHANGED <<_isShutdown, queue, status, submitting, closing>>

Calls == \/ \E t \in Task : RunAdd(t)
         \/ \E c \in Closer : ShutdownSet(c) \/ ShutdownAdd(c)

Work(w) == Pop(w) \/ Return(w) \/ Catch(w) \/ Exit(w)

Next == \/ Calls
        \/ \E t \in Task : RunCheck(t)
        \/ \E c \in Closer : ShutdownCheck(c)
        \/ \E w \in Worker : Work(w)

\* A call that has begun ends, tasks end, and a worker that can go on does.
Fairness == WF_vars(Calls) /\ \A w \in Worker : WF_vars(Work(w))

Spec == Init /\ [][Next]_vars /\ Fairness

-----------------------------------------------------------------------------
(* Properties.                                                              *)

\* Whatever the workers, callers of run and of shutdown do at the same time, a
\* task runs at most once, and none starts that run has not accepted.
ImplementsThreadPool == P!Spec

\* Tasks that are in the queue when shutdown is called are executed: the shutdown
\* tasks do not overtake them, and exceptions of other tasks do not use the workers
\* up.
SubmittedTasksRun ==
    \A t \in Task :
        (status[t] = "accepted" /\ t \notin submitting /\ ~_isShutdown) ~> status[t] = "done"

\* shutdown ends every worker, however many threads call it and whatever throws.
ShutdownEndsWorkers == _isShutdown ~> \A w \in Worker : task[w] = "exited"
=============================================================================
