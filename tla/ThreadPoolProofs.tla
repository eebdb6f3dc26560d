-------------------------- MODULE ThreadPoolProofs --------------------------
(***************************************************************************)
(* Theorems about the pools of MCThreadPools: for any number of workers,     *)
(* tasks, threads and callers of shutdown, and whatever tasks throw, no task *)
(* runs twice or without having been accepted.                              *)
(***************************************************************************)
EXTENDS MCThreadPools, SequenceTheorems, FiniteSetTheorems, TLAPS

-----------------------------------------------------------------------------
(* ElasticThreadPool: the invariant.                                        *)

Busy == {"call", "drain", "idle", "catch"}

Runs(h, i) == pc[h] # "none" /\ worker[h] = i

\* A task that has been accepted is in one place.
PlacesInv ==
    /\ mutex \in Task => mutex \in submitting
    /\ \A i \in Worker : task[i] # NoTask => task[i] \notin submitting
    /\ \A i, j \in Worker : i # j /\ task[i] # NoTask => task[i] # task[j]
    /\ \A k \in 1 .. Len(queue) :
          /\ queue[k] \notin submitting /\ status[queue[k]] = "accepted"
          /\ \A i \in Worker : task[i] # queue[k]
          /\ \A l \in 1 .. Len(queue) : l # k => queue[l] # queue[k]

\* Workers and the threads in their loops.
LoopInv ==
    /\ OneLoopPerWorker /\ DeadHasNoTask
    /\ \A i \in Worker : dead[i] => \A h \in Thread : ~Runs(h, i)
    /\ \A i \in 1 .. pool : ~dead[i] => \E h \in Thread : Runs(h, i)
    /\ \A h \in Thread : pc[h] # "none" => worker[h] <= pool
    /\ \A i \in Worker : i > pool => task[i] = NoTask /\ ~dead[i]

\* A worker's slot keeps its task until the thread that called it empties it.
StatusInv ==
    /\ \A h \in Thread : pc[h] \in Busy =>
          task[worker[h]] # NoTask /\ status[task[worker[h]]] \in {"running", "done"}
    /\ \A i \in Worker : task[i] # NoTask /\ (\A h \in Thread : worker[h] = i => pc[h] \notin Busy)
          => status[task[i]] = "accepted"
    /\ \A h \in Thread : pc[h] = "call" => fn[h] \in Task /\ status[fn[h]] = "running"
    /\ \A g, h \in Thread : g # h /\ pc[g] = "call" /\ pc[h] = "call" => fn[g] # fn[h]

ElasticInv == TypeOK /\ PlacesInv /\ LoopInv /\ StatusInv

-----------------------------------------------------------------------------
(* ElasticThreadPool: types.                                                *)

\* The frame conditions of the actions of a pool's callers and threads.
LEMMA StartType ==
    ASSUME TypeOK, NEW i \in Worker, NEW me, NEW next \in PC, Start(i, me, next)
    PROVE  worker' \in [Thread -> Worker] /\ pc' \in [Thread -> PC]
BY DEF Start, TypeOK, PC

\* A worker that is woken with a task is well typed.
LEMMA WakeupType ==
    ASSUME TypeOK, NEW i \in Worker, NEW t \in Task, NEW created, Wakeup(i, t, created)
    PROVE  /\ worker' \in [Thread -> Worker] /\ pc' \in [Thread -> PC]
           /\ task' \in [Worker -> Task \cup {NoTask}] /\ dead' \in [Worker -> BOOLEAN]
           /\ waiter' \in [Worker -> Nat]
<1>1. "none" \in PC
  BY DEF PC
<1>2. worker' \in [Thread -> Worker] /\ pc' \in [Thread -> PC]
  BY <1>1, StartType DEF Wakeup, TypeOK
<1>3. task' \in [Worker -> Task \cup {NoTask}] /\ dead' \in [Worker -> BOOLEAN]
  BY DEF Wakeup, TypeOK
<1>4. waiter' \in [Worker -> Nat]
  BY DEF Wakeup, TypeOK
<1>. QED BY <1>2, <1>3, <1>4

\* A task that is called is remembered in fn, and its status is known.
LEMMA CallType ==
    ASSUME TypeOK, NEW h \in Thread, NEW t \in Task, Call(h, t)
    PROVE  /\ worker' \in [Thread -> Worker] /\ pc' \in [Thread -> PC]
           /\ fn' \in [Thread -> Task \cup {NoTask}] /\ status' \in [Task -> P!Status]
BY DEF Call, Goto, TypeOK, PC, P!Status

\* Who holds the mutex to submit a task holds it for one that has been accepted.
LEMMA HeldTask ==
    ASSUME ElasticInv, mutex \in Task
    PROVE  /\ mutex \in submitting /\ status[mutex] = "accepted"
           /\ mutex \notin Closer /\ mutex # NoTask
BY TasksAssumption DEF ElasticInv, TypeOK, PlacesInv

\* What a thread is about to call has been accepted, and is nowhere else.
LEMMA SlotTask ==
    ASSUME ElasticInv, NEW h \in Thread, pc[h] = "switch", task[worker[h]] # NoTask
    PROVE  /\ task[worker[h]] \in Task /\ task[worker[h]] \notin submitting
           /\ status[task[worker[h]]] = "accepted"
<1>1. worker[h] \in Worker /\ task[worker[h]] \in Task
  BY DEF ElasticInv, TypeOK
<1>2. \A g \in Thread : worker[g] = worker[h] => pc[g] \notin Busy
  BY DEF ElasticInv, LoopInv, OneLoopPerWorker, Busy
<1>. QED BY <1>1, <1>2 DEF ElasticInv, PlacesInv, StatusInv

\* The first task of the queue has been accepted, and is nowhere else.
LEMMA HeadTask ==
    ASSUME ElasticInv, queue # <<>>
    PROVE  /\ Head(queue) \in Task /\ Head(queue) \notin submitting
           /\ status[Head(queue)] = "accepted"
           /\ \A i \in Worker : task[i] # Head(queue)
           /\ Tail(queue) \in Seq(Task) /\ Len(Tail(queue)) = Len(queue) - 1
           /\ \A k \in 1 .. Len(queue) - 1 : /\ Tail(queue)[k] = queue[k + 1]
                                             /\ k + 1 \in 1 .. Len(queue)
                                             /\ queue[k + 1] # Head(queue)
<1>1. /\ queue \in Seq(Task) /\ Head(queue) \in Task /\ Tail(queue) \in Seq(Task)
      /\ Len(Tail(queue)) = Len(queue) - 1
      /\ \A k \in 1 .. Len(Tail(queue)) : Tail(queue)[k] = queue[k + 1]
  BY HeadTailProperties DEF ElasticInv, TypeOK
<1>2. Head(queue) = queue[1] /\ Len(queue) \in Nat /\ Len(queue) # 0
  BY <1>1
<1>3. 1 \in 1 .. Len(queue)
  BY <1>2
<1>4. \A k \in 1 .. Len(queue) - 1 : k + 1 \in 1 .. Len(queue) /\ k + 1 # 1
  BY <1>2
<1>. QED BY <1>1, <1>2, <1>3, <1>4 DEF ElasticInv, PlacesInv

\* The types are kept: a task that starts has left submitting.
LEMMA ElasticType == ElasticInv /\ [Next]_vars => TypeOK'
<1>. SUFFICES ASSUME ElasticInv, [Next]_vars PROVE TypeOK'
  OBVIOUS
<1>. USE DEF clientVars, workerVars, threadVars
<1>0. TypeOK /\ maxThreadsCount \in Nat \ {0}
  BY ThreadsAssumption DEF ElasticInv
<1>1. ASSUME NEW t \in Task, RunCheck(t) PROVE TypeOK'
  BY <1>0, <1>1 DEF RunCheck, TypeOK, P!Status
<1>2. ASSUME NEW t \in Task, RunAcquire(t) PROVE TypeOK'
  BY <1>0, <1>2 DEF RunAcquire, TypeOK
<1>3. RunScan => TypeOK'
  BY <1>0 DEF RunScan, TypeOK
<1>4. ASSUME RunReturns
      PROVE  mutex' \in Task \cup Closer \cup {NoTask} /\ submitting' \subseteq submitting
  BY <1>4 DEF RunReturns
<1>5. CASE RunWakeup
  <2>1. mutex \in Task /\ scan \in Worker
    BY <1>0, <1>5 DEF RunWakeup, TypeOK, Worker
  <2>2. /\ worker' \in [Thread -> Worker] /\ pc' \in [Thread -> PC]
        /\ task' \in [Worker -> Task \cup {NoTask}] /\ dead' \in [Worker -> BOOLEAN]
        /\ waiter' \in [Worker -> Nat]
    BY <1>0, <1>5, <2>1, WakeupType DEF RunWakeup
  <2>3. UNCHANGED <<isShutdown, fn>>
    BY <1>5 DEF RunWakeup, Wakeup
  <2>. QED BY <1>0, <1>4, <1>5, <2>2, <2>3 DEF RunWakeup, TypeOK
<1>6. CASE RunCreate
  <2>1. mutex \in Task /\ pool + 1 \in Worker /\ pool' \in 0 .. maxThreadsCount
    BY <1>0, <1>6 DEF RunCreate, TypeOK, Worker
  <2>2. /\ worker' \in [Thread -> Worker] /\ pc' \in [Thread -> PC]
        /\ task' \in [Worker -> Task \cup {NoTask}] /\ dead' \in [Worker -> BOOLEAN]
        /\ waiter' \in [Worker -> Nat]
    BY <1>0, <1>6, <2>1, WakeupType DEF RunCreate
  <2>3. UNCHANGED <<isShutdown, fn>>
    BY <1>6 DEF RunCreate, Wakeup
  <2>. QED BY <1>0, <1>4, <1>6, <2>1, <2>2, <2>3 DEF RunCreate, TypeOK
<1>7. CASE RunQueue
  <2>1. queue' \in Seq(Task)
    BY <1>0, <1>7, AppendProperties DEF RunQueue, TypeOK
  <2>. QED BY <1>0, <1>4, <1>7, <2>1 DEF RunQueue, TypeOK
<1>8. ASSUME NEW k \in Closer, ShutdownCheck(k) \/ ShutdownAcquire(k) PROVE TypeOK'
  <2>1. CASE ShutdownCheck(k)
    BY <1>0, <1>8, <2>1 DEF ShutdownCheck, TypeOK
  <2>2. CASE ShutdownAcquire(k)
    <3>1. late' \subseteq Task /\ scan' \in 1 .. maxThreadsCount + 1
      BY <1>0, <2>2 DEF ShutdownAcquire, TypeOK
    <3>2. mutex' \in Task \cup Closer \cup {NoTask} /\ stopping' \subseteq Closer
      BY <1>0, <1>8, <2>2 DEF ShutdownAcquire, TypeOK
    <3>. QED BY <1>0, <2>2, <3>1, <3>2 DEF ShutdownAcquire, TypeOK
  <2>. QED BY <1>8, <2>1, <2>2
<1>23. ShutdownReturns => TypeOK'
  BY <1>0 DEF ShutdownReturns, TypeOK
<1>9. CASE ShutdownWorker
  <2>1. scan \in Worker /\ scan' \in 1 .. maxThreadsCount + 1
    BY <1>0, <1>9 DEF ShutdownWorker, TypeOK, Worker
  <2>2. waiter' \in [Worker -> Nat]
    <3>1. waiter \in [Worker -> Nat] /\ waiter' = [waiter EXCEPT ![scan] = @ + 1]
      BY <1>0, <1>9 DEF ShutdownWorker, TypeOK
    <3>. QED BY <2>1, <3>1
  <2>3. isShutdown' \in [Worker -> BOOLEAN]
    BY <1>0, <1>9 DEF ShutdownWorker, TypeOK
  <2>. QED BY <1>0, <1>9, <2>1, <2>2, <2>3 DEF ShutdownWorker, TypeOK
<1>. SUFFICES ASSUME NEW h \in Thread, Loop(h) \/ TimeOut(h) PROVE TypeOK'
  <2>1. UNCHANGED vars => TypeOK'
    BY <1>0 DEF vars, TypeOK
  <2>. QED BY <1>1, <1>2, <1>3, <1>5, <1>6, <1>7, <1>8, <1>9, <1>23, <2>1 DEF Next, Run, Close
<1>10. worker[h] \in Worker
  BY <1>0 DEF TypeOK
<1>11. ASSUME NEW t \in Task, t \notin submitting, Call(h, t)
       PROVE  /\ worker' \in [Thread -> Worker] /\ pc' \in [Thread -> PC]
              /\ fn' \in [Thread -> Task \cup {NoTask}] /\ status' \in [Task -> P!Status]
              /\ submitting \subseteq {u \in Task : status'[u] = "accepted"}
  <2>1. submitting \subseteq {u \in Task : status'[u] = "accepted"}
    BY <1>0, <1>11 DEF Call, TypeOK
  <2>. QED BY <1>0, <1>11, <2>1, CallType
<1>12. ASSUME NEW label \in PC, Goto(h, label)
       PROVE  worker' \in [Thread -> Worker] /\ pc' \in [Thread -> PC]
  BY <1>0, <1>12 DEF Goto, TypeOK
<1>13. {"none", "wait", "switch", "dying", "catch", "drain", "idle", "restart"} \subseteq PC
  BY DEF PC
<1>14. Wait(h) => TypeOK'
  <2>. SUFFICES ASSUME Wait(h) PROVE TypeOK'
    OBVIOUS
  <2>1. waiter' \in [Worker -> Nat]
    BY <1>0, <1>10 DEF Wait, TypeOK
  <2>. QED BY <1>0, <1>12, <1>13, <2>1 DEF Wait, TypeOK
<1>15. TimeOut(h) => TypeOK'
  BY <1>0, <1>12, <1>13 DEF TimeOut, TypeOK
<1>16. CASE Switch(h)
  <2>1. CASE task[worker[h]] # NoTask
    <3>1. task[worker[h]] \in Task /\ task[worker[h]] \notin submitting
      BY <1>16, <2>1, SlotTask DEF Switch, At
    <3>2. Call(h, task[worker[h]])
      BY <1>16, <2>1 DEF Switch
    <3>. QED BY <1>0, <1>11, <1>16, <3>1, <3>2 DEF Switch, TypeOK
  <2>2. CASE task[worker[h]] = NoTask
    BY <1>0, <1>12, <1>13, <1>16, <2>2 DEF Switch, TypeOK
  <2>. QED BY <2>1, <2>2
<1>17. CASE Return(h)
  <2>1. fn[h] \in Task /\ status[fn[h]] = "running"
    BY <1>17 DEF Return, At, ElasticInv, StatusInv
  <2>2. status' \in [Task -> P!Status] /\ fn' \in [Thread -> Task \cup {NoTask}]
        /\ submitting \subseteq {u \in Task : status'[u] = "accepted"}
    BY <1>0, <1>17, <2>1 DEF Return, TypeOK, P!Status
  <2>. QED BY <1>0, <1>12, <1>13, <1>17, <2>2 DEF Return, TypeOK
<1>18. CASE Drain(h)
  <2>1. CASE queue = <<>>
    BY <1>0, <1>12, <1>13, <1>18, <2>1 DEF Drain, TypeOK
  <2>2. CASE queue # <<>>
    <3>1. Head(queue) \in Task /\ Head(queue) \notin submitting /\ Tail(queue) \in Seq(Task)
      BY <2>2, HeadTask
    <3>2. Call(h, Head(queue)) /\ queue' = Tail(queue)
      BY <1>18, <2>2 DEF Drain
    <3>. QED BY <1>0, <1>11, <1>18, <3>1, <3>2 DEF Drain, TypeOK
  <2>. QED BY <2>1, <2>2
<1>19. Idle(h) \/ Catch(h) => TypeOK'
  <2>1. task' = [task EXCEPT ![worker[h]] = NoTask] => task' \in [Worker -> Task \cup {NoTask}]
    BY <1>0, <1>10 DEF TypeOK
  <2>2. Idle(h) => TypeOK'
    BY <1>0, <1>12, <1>13, <2>1 DEF Idle, TypeOK
  <2>3. Catch(h) => TypeOK'
    BY <1>0, <1>12, <1>13, <2>1 DEF Catch, TypeOK
  <2>. QED BY <2>2, <2>3
<1>20. ASSUME Start(worker[h], h, "none")
       PROVE  worker' \in [Thread -> Worker] /\ pc' \in [Thread -> PC]
  BY <1>0, <1>10, <1>13, <1>20, StartType
<1>21. CASE Die(h)
  <2>1. worker' \in [Thread -> Worker] /\ pc' \in [Thread -> PC]
    BY <1>12, <1>13, <1>20, <1>21 DEF Die
  <2>2. dead' \in [Worker -> BOOLEAN]
    BY <1>0, <1>10, <1>21 DEF Die, TypeOK
  <2>. QED BY <1>0, <1>21, <2>1, <2>2 DEF Die, TypeOK
<1>22. CASE Restart(h)
  <2>1. dead' \in [Worker -> BOOLEAN]
    BY <1>0, <1>10, <1>22 DEF Restart, TypeOK
  <2>. QED BY <1>0, <1>20, <1>22, <2>1 DEF Restart, TypeOK
<1>. QED BY <1>14, <1>15, <1>16, <1>17, <1>18, <1>19, <1>21, <1>22 DEF Loop

-----------------------------------------------------------------------------
(* ElasticThreadPool: workers and threads.                                  *)

\* Starting a thread: who was running runs on, but for me; the new one runs i.
LEMMA Started ==
    ASSUME TypeOK, NEW i \in Worker, NEW me, NEW next \in PC, Start(i, me, next)
    PROVE  \E h \in Thread :
              /\ pc[h] = "none" /\ worker'[h] = i /\ pc'[h] = "wait"
              /\ \A g \in Thread : g # h => /\ worker'[g] = worker[g]
                                            /\ pc'[g] = IF g = me THEN next ELSE pc[g]
<1>1. PICK h \in Thread :
         /\ pc[h] = "none"
         /\ worker' = [worker EXCEPT ![h] = i]
         /\ pc' = [g \in Thread |-> IF g = h THEN "wait" ELSE IF g = me THEN next ELSE pc[g]]
  BY DEF Start
<1>2. worker'[h] = i /\ \A g \in Thread : g # h => worker'[g] = worker[g]
  BY <1>1 DEF TypeOK
<1>. QED BY <1>1, <1>2

\* A thread that goes on within the loop.
LEMMA LoopGoesOn ==
    ASSUME TypeOK, LoopInv, NEW h \in Thread, pc[h] # "none",
           NEW label \in PC, label # "none", Goto(h, label),
           UNCHANGED <<pool, dead>>,
           \A i \in Worker : task'[i] # NoTask => task[i] # NoTask
    PROVE  LoopInv'
<1>1. /\ UNCHANGED worker
      /\ \A g \in Thread : (pc'[g] # "none" <=> pc[g] # "none")
  BY DEF Goto, TypeOK
<1>2. OneLoopPerWorker' /\ DeadHasNoTask'
  BY <1>1 DEF LoopInv, OneLoopPerWorker, DeadHasNoTask
<1>. QED BY <1>1, <1>2 DEF LoopInv, Runs

\* A thread that is started, in place of another of the same worker or because the
\* worker has none.
LEMMA LoopStarts ==
    ASSUME TypeOK, LoopInv, NEW i \in Worker, i <= pool', pool <= pool',
           pool' \in {pool, pool + 1}, pool' # pool => i = pool',
           NEW me, Start(i, me, "none"), me \in Thread => Runs(me, i),
           \A h \in Thread : Runs(h, i) => h = me,
           dead' = [dead EXCEPT ![i] = FALSE],
           \A j \in Worker : j # i => task'[j] = task[j]
    PROVE  LoopInv'
<1>1. "none" \in PC /\ pool \in Nat /\ pool' \in Nat /\ Worker \subseteq Nat
  BY ThreadsAssumption DEF PC, TypeOK, Worker
<1>2. PICK h \in Thread :
         /\ pc[h] = "none" /\ worker'[h] = i /\ pc'[h] = "wait"
         /\ \A g \in Thread : g # h => /\ worker'[g] = worker[g]
                                       /\ pc'[g] = IF g = me THEN "none" ELSE pc[g]
  BY <1>1, Started
<1>3. \A g \in Thread : g # h => (pc'[g] # "none" <=> pc[g] # "none" /\ g # me)
  BY <1>2
<1>4. dead'[i] = FALSE /\ \A j \in Worker : j # i => dead'[j] = dead[j]
  BY DEF TypeOK
<1>5. \A g \in Thread : g # h /\ pc'[g] # "none" => worker'[g] = worker[g] /\ worker[g] # i
  BY <1>2, <1>3 DEF Runs
<1>6. OneLoopPerWorker'
  BY <1>2, <1>3, <1>5 DEF LoopInv, OneLoopPerWorker
<1>7. DeadHasNoTask'
  BY <1>4 DEF LoopInv, DeadHasNoTask
<1>8. \A j \in Worker : dead'[j] => \A g \in Thread : ~(pc'[g] # "none" /\ worker'[g] = j)
  BY <1>2, <1>3, <1>4 DEF LoopInv, Runs
<1>9. ASSUME NEW j \in 1 .. pool', ~dead'[j]
      PROVE  \E g \in Thread : pc'[g] # "none" /\ worker'[g] = j
  <2>1. CASE j = i
    BY <1>2, <2>1
  <2>2. CASE j # i
    <3>0. pool \in Nat /\ maxThreadsCount \in Nat /\ pool <= maxThreadsCount
      BY ThreadsAssumption DEF TypeOK
    <3>1. j \in 1 .. pool /\ j \in Worker
      <4>1. j \in Nat /\ 1 <= j /\ j <= pool' /\ j # i
        BY <1>1, <1>9, <2>2
      <4>2. j <= pool
        BY <3>0, <4>1
      <4>. QED BY <3>0, <4>1, <4>2 DEF Worker
    <3>2. PICK g \in Thread : pc[g] # "none" /\ worker[g] = j
      BY <1>4, <1>9, <2>2, <3>1 DEF LoopInv, Runs
    <3>3. g # h /\ g # me
      BY <1>2, <2>2, <3>2 DEF Runs
    <3>. QED BY <1>2, <1>3, <3>2, <3>3
  <2>. QED BY <2>1, <2>2
<1>10. \A g \in Thread : pc'[g] # "none" => worker'[g] <= pool'
  <2>1. ASSUME NEW g \in Thread, pc'[g] # "none", g # h PROVE worker'[g] <= pool'
    <3>1. worker'[g] = worker[g] /\ worker[g] <= pool /\ worker[g] \in Nat
      BY <1>1, <1>2, <1>3, <2>1 DEF LoopInv, TypeOK
    <3>. QED BY <1>1, <3>1
  <2>. QED BY <1>2, <2>1
<1>11. \A j \in Worker : j > pool' => task'[j] = NoTask /\ ~dead'[j]
  <2>1. ASSUME NEW j \in Worker, j > pool' PROVE task'[j] = NoTask /\ ~dead'[j]
    <3>1. j > pool /\ j # i
      BY <1>1, <2>1
    <3>. QED BY <1>4, <3>1 DEF LoopInv
  <2>. QED BY <2>1
<1>. QED BY <1>6, <1>7, <1>8, <1>9, <1>10, <1>11 DEF LoopInv, Runs

\* Threads keep running the loops of the workers that live, each at most one of them.
LEMMA LoopStep == ElasticInv /\ [Next]_vars => LoopInv'
<1>. SUFFICES ASSUME ElasticInv, [Next]_vars PROVE LoopInv'
  OBVIOUS
<1>. USE DEF clientVars, workerVars, threadVars
<1>0. /\ TypeOK /\ LoopInv /\ maxThreadsCount \in Nat \ {0} /\ NoThread \notin Thread
      /\ pool \in Nat /\ pool <= maxThreadsCount /\ scan \in Nat /\ scan >= 1
  BY ThreadsAssumption DEF ElasticInv, TypeOK
<1>1. ASSUME UNCHANGED <<pool, task, dead, worker, pc>> PROVE LoopInv'
  BY <1>0, <1>1 DEF LoopInv, OneLoopPerWorker, DeadHasNoTask, Runs
<1>2. ASSUME NEW t \in Task, RunCheck(t) \/ RunAcquire(t) PROVE LoopInv'
  BY <1>1, <1>2 DEF RunCheck, RunAcquire
<1>3. RunScan \/ RunQueue => LoopInv'
  BY <1>1 DEF RunScan, RunQueue
<1>4. Close => LoopInv'
  BY <1>1 DEF Close, ShutdownCheck, ShutdownAcquire, ShutdownWorker, ShutdownReturns
<1>5. CASE RunWakeup
  <2>0. scan <= pool /\ pool' = pool /\ Wakeup(scan, mutex, FALSE)
    BY <1>5 DEF RunWakeup
  <2>1. scan \in Worker
    BY <1>0, <2>0 DEF Worker
  <2>2. \A j \in Worker : j # scan => task'[j] = task[j]
    BY <1>0, <2>0, <2>1 DEF Wakeup, TypeOK
  <2>3. CASE dead[scan]
    <3>1. Start(scan, NoThread, "none") /\ dead' = [dead EXCEPT ![scan] = FALSE]
      BY <2>0, <2>3 DEF Wakeup
    <3>2. \A h \in Thread : ~Runs(h, scan)
      BY <1>0, <2>1, <2>3 DEF LoopInv
    <3>3. /\ scan <= pool' /\ pool <= pool' /\ pool' \in {pool, pool + 1}
          /\ (pool' # pool => scan = pool')
      BY <1>0, <2>0
    <3>4. /\ NoThread \in Thread => Runs(NoThread, scan)
          /\ \A h \in Thread : Runs(h, scan) => h = NoThread
      BY <1>0, <3>2
    <3>. QED BY <1>0, <2>1, <2>2, <3>1, <3>3, <3>4, LoopStarts
  <2>4. CASE ~dead[scan]
    <3>1. UNCHANGED <<worker, pc, dead>>
      BY <2>0, <2>4 DEF Wakeup
    <3>2. \A j \in Worker : j > pool => j # scan
      BY <1>0, <2>0, <2>1 DEF Worker
    <3>. QED BY <1>0, <2>0, <2>1, <2>2, <2>4, <3>1, <3>2
             DEF LoopInv, OneLoopPerWorker, DeadHasNoTask, Runs
  <2>. QED BY <2>3, <2>4
<1>6. CASE RunCreate
  <2>0. pool < maxThreadsCount /\ pool' = pool + 1 /\ Wakeup(pool + 1, mutex, TRUE)
    BY <1>6 DEF RunCreate
  <2>1. pool + 1 \in Worker /\ pool + 1 > pool
    BY <1>0, <2>0 DEF Worker
  <2>2. \A j \in Worker : j # pool + 1 => task'[j] = task[j]
    BY <1>0, <2>0, <2>1 DEF Wakeup, TypeOK
  <2>3. Start(pool + 1, NoThread, "none")
    BY <2>0 DEF Wakeup
  <2>4. \A h \in Thread : ~Runs(h, pool + 1)
    BY <1>0, <2>1 DEF LoopInv, Runs
  <2>5. dead' = [dead EXCEPT ![pool + 1] = FALSE]
    BY <2>0 DEF Wakeup
  <2>6. /\ pool + 1 <= pool' /\ pool <= pool' /\ pool' \in {pool, pool + 1}
        /\ (pool' # pool => pool + 1 = pool')
    BY <1>0, <2>0
  <2>7. /\ NoThread \in Thread => Runs(NoThread, pool + 1)
        /\ \A h \in Thread : Runs(h, pool + 1) => h = NoThread
    BY <1>0, <2>4
  <2>. QED BY <1>0, <2>1, <2>2, <2>3, <2>5, <2>6, <2>7, LoopStarts
<1>. SUFFICES ASSUME NEW h \in Thread, Loop(h) \/ TimeOut(h) PROVE LoopInv'
  <2>1. UNCHANGED vars => LoopInv'
    BY <1>1 DEF vars
  <2>. QED BY <1>2, <1>3, <1>4, <1>5, <1>6, <2>1 DEF Next, Run
<1>7. ASSUME NEW label \in PC \ {"none"}, Goto(h, label), pc[h] # "none", UNCHANGED <<pool, dead>>,
             \A i \in Worker : task'[i] # NoTask => task[i] # NoTask
      PROVE  LoopInv'
  BY <1>0, <1>7, LoopGoesOn
<1>8. {"wait", "switch", "call", "dying", "catch", "drain", "idle", "restart"} \subseteq PC \ {"none"}
  BY DEF PC
<1>9. Wait(h) \/ TimeOut(h) => LoopInv'
  BY <1>7, <1>8 DEF Wait, TimeOut, At
<1>10. Switch(h) => LoopInv'
  BY <1>7, <1>8 DEF Switch, Call, At
<1>11. Return(h) \/ Drain(h) => LoopInv'
  BY <1>7, <1>8 DEF Return, Drain, Call, At
<1>12. Idle(h) \/ Catch(h) => LoopInv'
  <2>. SUFFICES ASSUME Idle(h) \/ Catch(h) PROVE LoopInv'
    OBVIOUS
  <2>1. \A i \in Worker : task'[i] # NoTask => task[i] # NoTask
    BY <1>0 DEF Idle, Catch, TypeOK
  <2>. QED BY <1>7, <1>8, <2>1 DEF Idle, Catch, At
\* A thread of worker i that starts another in its place.
<1>13. ASSUME pc[h] # "none", Start(worker[h], h, "none"),
              dead' = [dead EXCEPT ![worker[h]] = FALSE], UNCHANGED <<pool, task>>
       PROVE  LoopInv'
  <2>1. worker[h] \in Worker /\ worker[h] <= pool /\ Runs(h, worker[h])
    BY <1>0, <1>13 DEF TypeOK, LoopInv, Runs
  <2>2. \A g \in Thread : Runs(g, worker[h]) => g = h
    BY <1>0, <1>13 DEF LoopInv, OneLoopPerWorker, Runs
  <2>3. /\ worker[h] <= pool' /\ pool <= pool' /\ pool' \in {pool, pool + 1}
        /\ (pool' # pool => worker[h] = pool')
    BY <1>0, <1>13, <2>1
  <2>4. \A j \in Worker : j # worker[h] => task'[j] = task[j]
    BY <1>13
  <2>. QED BY <1>0, <1>13, <2>1, <2>2, <2>3, <2>4, LoopStarts
<1>14. CASE Die(h)
  <2>1. pc[h] = "dying" /\ UNCHANGED <<pool, task>>
    BY <1>14 DEF Die, At
  <2>2. CASE task[worker[h]] # NoTask
    BY <1>13, <1>14, <2>1, <2>2 DEF Die
  <2>3. CASE task[worker[h]] = NoTask
    <3>. DEFINE i == worker[h]
    <3>1. Goto(h, "none") /\ dead' = [dead EXCEPT ![i] = TRUE]
      BY <1>14, <2>3 DEF Die
    <3>2. i \in Worker /\ i <= pool
      BY <1>0, <2>1 DEF TypeOK, LoopInv
    <3>3. UNCHANGED worker /\ pc'[h] = "none" /\ \A g \in Thread : g # h => pc'[g] = pc[g]
      BY <1>0, <3>1 DEF Goto, TypeOK
    <3>4. dead'[i] /\ \A j \in Worker : j # i => dead'[j] = dead[j]
      BY <1>0, <3>1, <3>2 DEF TypeOK
    <3>5. \A g \in Thread : g # h /\ worker[g] = i => pc[g] = "none"
      BY <1>0, <2>1 DEF LoopInv, OneLoopPerWorker
    <3>6. OneLoopPerWorker'
      BY <1>0, <3>3 DEF LoopInv, OneLoopPerWorker
    <3>7. DeadHasNoTask'
      BY <1>0, <2>1, <2>3, <3>2, <3>4 DEF LoopInv, DeadHasNoTask
    <3>8. \A j \in Worker : dead'[j] => \A g \in Thread : ~Runs(g, j)'
      BY <1>0, <3>3, <3>4, <3>5 DEF LoopInv, Runs
    <3>9. ASSUME NEW j \in 1 .. pool, ~dead'[j] PROVE \E g \in Thread : Runs(g, j)'
      <4>1. j # i /\ j \in Worker
        BY <1>0, <3>4, <3>9 DEF Worker
      <4>2. PICK g \in Thread : Runs(g, j)
        BY <1>0, <3>4, <3>9, <4>1 DEF LoopInv
      <4>3. g # h
        BY <4>1, <4>2 DEF Runs
      <4>. QED BY <3>3, <4>2, <4>3 DEF Runs
    <3>10. \A g \in Thread : pc'[g] # "none" => worker'[g] <= pool
      BY <1>0, <3>3 DEF LoopInv
    <3>11. \A j \in Worker : j > pool => task'[j] = NoTask /\ ~dead'[j]
      <4>1. \A j \in Worker : j > pool => j # i
        BY <1>0, <3>2 DEF Worker
      <4>. QED BY <1>0, <2>1, <3>4, <4>1 DEF LoopInv
    <3>. QED BY <2>1, <3>6, <3>7, <3>8, <3>9, <3>10, <3>11 DEF LoopInv
  <2>. QED BY <2>2, <2>3
<1>15. Restart(h) => LoopInv'
  BY <1>13 DEF Restart, At
<1>. QED BY <1>9, <1>10, <1>11, <1>12, <1>14, <1>15 DEF Loop

-----------------------------------------------------------------------------
(* ElasticThreadPool: where tasks are.                                      *)

\* A task in a worker's slot has been accepted at some time.
LEMMA SlotStatus ==
    ASSUME ElasticInv, NEW i \in Worker, task[i] # NoTask
    PROVE  task[i] \in Task /\ status[task[i]] \in {"accepted", "running", "done"}
<1>1. task[i] \in Task
  BY DEF ElasticInv, TypeOK
<1>2. CASE \A h \in Thread : worker[h] = i => pc[h] \notin Busy
  BY <1>1, <1>2 DEF ElasticInv, StatusInv
<1>3. CASE \E h \in Thread : worker[h] = i /\ pc[h] \in Busy
  BY <1>1, <1>3 DEF ElasticInv, StatusInv
<1>. QED BY <1>2, <1>3

\* run hands the task it holds over to a worker.
LEMMA SlotFilled ==
    ASSUME ElasticInv, mutex \in Task, NEW i \in Worker, task' = [task EXCEPT ![i] = mutex],
           RunReturns, UNCHANGED <<queue, status>>
    PROVE  PlacesInv'
<1>1. mutex' \notin Task /\ submitting' = submitting \ {mutex} /\ mutex \in submitting
  BY HeldTask, TasksAssumption DEF RunReturns, ElasticInv, TypeOK
<1>2. task'[i] = mutex /\ \A j \in Worker : j # i => task'[j] = task[j]
  BY DEF ElasticInv, TypeOK
<1>3. \A j \in Worker : task[j] # mutex
  BY <1>1, HeldTask DEF ElasticInv, PlacesInv
<1>4. \A k \in 1 .. Len(queue) : queue[k] # mutex
  BY <1>1 DEF ElasticInv, PlacesInv
<1>5. \A j \in Worker : task'[j] # NoTask => task'[j] \notin submitting'
  BY <1>1, <1>2 DEF ElasticInv, PlacesInv
<1>6. \A j, k \in Worker : j # k /\ task'[j] # NoTask => task'[j] # task'[k]
  BY <1>2, <1>3 DEF ElasticInv, PlacesInv
<1>7. \A k \in 1 .. Len(queue) : \A j \in Worker : task'[j] # queue[k]
  BY <1>2, <1>4 DEF ElasticInv, PlacesInv
<1>. QED BY <1>1, <1>5, <1>6, <1>7 DEF ElasticInv, PlacesInv

\* A thread calls a task that is no longer in the queue.
LEMMA PlacesCall ==
    ASSUME ElasticInv, NEW h \in Thread, NEW t \in Task, Call(h, t),
           UNCHANGED <<mutex, submitting, task, queue>>, \A k \in 1 .. Len(queue) : queue[k] # t
    PROVE  PlacesInv'
<1>1. \A u \in Task : u # t => status'[u] = status[u]
  BY DEF Call, ElasticInv, TypeOK
<1>2. \A k \in 1 .. Len(queue) : queue[k] \in Task
  BY DEF ElasticInv, TypeOK
<1>. QED BY <1>1, <1>2 DEF ElasticInv, PlacesInv

\* No step puts a task in two places.
LEMMA PlacesStep == ElasticInv /\ [Next]_vars => PlacesInv'
<1>. SUFFICES ASSUME ElasticInv, [Next]_vars PROVE PlacesInv'
  OBVIOUS
<1>. USE DEF clientVars, workerVars, threadVars
<1>0. /\ TypeOK /\ PlacesInv /\ StatusInv /\ NoTask \notin Task
      /\ maxThreadsCount \in Nat \ {0} /\ Len(queue) \in Nat
      /\ \A k \in 1 .. Len(queue) : queue[k] \in Task
  BY ThreadsAssumption, TasksAssumption, LenProperties DEF ElasticInv, TypeOK
<1>1. ASSUME UNCHANGED <<submitting, task, queue, status>>, mutex' \in Task => mutex' \in submitting
      PROVE  PlacesInv'
  BY <1>0, <1>1 DEF PlacesInv
<1>2. ASSUME NEW t \in Task, RunCheck(t) PROVE PlacesInv'
  <2>1. /\ status[t] = "new" /\ submitting \subseteq submitting' /\ submitting' \subseteq submitting \cup {t}
        /\ \A u \in Task : u # t => status'[u] = status[u]
        /\ UNCHANGED <<mutex, task, queue>>
    BY <1>0, <1>2 DEF RunCheck, TypeOK
  <2>2. \A i \in Worker : task[i] # NoTask => task[i] # t
    BY <2>1, SlotStatus
  <2>3. \A k \in 1 .. Len(queue) : queue[k] # t
    BY <1>0, <2>1 DEF PlacesInv
  <2>4. \A k \in 1 .. Len(queue) : queue[k] \notin submitting' /\ status'[queue[k]] = "accepted"
    BY <1>0, <2>1, <2>3 DEF PlacesInv
  <2>. QED BY <1>0, <2>1, <2>2, <2>4 DEF PlacesInv
<1>3. ASSUME NEW t \in Task, RunAcquire(t) PROVE PlacesInv'
  BY <1>1, <1>3 DEF RunAcquire
<1>4. RunScan => PlacesInv'
  BY <1>0, <1>1 DEF RunScan, PlacesInv
<1>5. CASE RunWakeup
  <2>1. scan \in Worker /\ task' = [task EXCEPT ![scan] = mutex]
    BY <1>0, <1>5 DEF RunWakeup, Wakeup, TypeOK, Worker
  <2>. QED BY <1>5, <2>1, SlotFilled DEF RunWakeup
<1>6. CASE RunCreate
  <2>1. pool + 1 \in Worker /\ task' = [task EXCEPT ![pool + 1] = mutex]
    BY <1>0, <1>6 DEF RunCreate, Wakeup, TypeOK, Worker
  <2>. QED BY <1>6, <2>1, SlotFilled DEF RunCreate
<1>7. CASE RunQueue
  <2>1. /\ mutex \in Task /\ mutex' \notin Task /\ submitting' = submitting \ {mutex}
        /\ queue' = Append(queue, mutex) /\ UNCHANGED <<task, status>>
    BY <1>0, <1>7 DEF RunQueue, RunReturns
  <2>2. mutex \in submitting /\ status[mutex] = "accepted" /\ \A i \in Worker : task[i] # mutex
    BY <1>0, <2>1, HeldTask DEF PlacesInv
  <2>3. /\ Len(queue') = Len(queue) + 1 /\ queue'[Len(queue) + 1] = mutex
        /\ \A k \in 1 .. Len(queue) : queue'[k] = queue[k]
    BY <1>0, <2>1, AppendProperties DEF TypeOK
  <2>4. \A k \in 1 .. Len(queue') : k \in 1 .. Len(queue) \/ k = Len(queue) + 1
    BY <1>0, <2>3
  <2>5. \A k \in 1 .. Len(queue) : queue[k] # mutex
    BY <1>0, <2>2 DEF PlacesInv
  <2>6. ASSUME NEW k \in 1 .. Len(queue')
        PROVE  /\ queue'[k] \notin submitting' /\ status[queue'[k]] = "accepted"
               /\ \A i \in Worker : task[i] # queue'[k]
               /\ \A l \in 1 .. Len(queue') : l # k => queue'[l] # queue'[k]
    <3>1. CASE k \in 1 .. Len(queue)
      BY <1>0, <2>1, <2>3, <2>4, <2>5, <3>1 DEF PlacesInv
    <3>2. CASE k = Len(queue) + 1
      BY <2>1, <2>2, <2>3, <2>4, <2>5, <3>2
    <3>. QED BY <2>4, <3>1, <3>2
  <2>. QED BY <1>0, <2>1, <2>6 DEF PlacesInv
<1>8. CASE Close
  <2>1. UNCHANGED <<submitting, task, queue, status>>
    BY <1>8 DEF Close, ShutdownCheck, ShutdownAcquire, ShutdownWorker, ShutdownReturns
  <2>2. mutex' \in Task => mutex' \in submitting
    BY <1>0, <1>8, TasksAssumption
    DEF Close, ShutdownCheck, ShutdownAcquire, ShutdownWorker, ShutdownReturns, PlacesInv
  <2>. QED BY <1>1, <2>1, <2>2
<1>9. ASSUME UNCHANGED <<mutex, submitting, task, queue, status>> PROVE PlacesInv'
  BY <1>0, <1>1, <1>9 DEF PlacesInv
<1>. SUFFICES ASSUME NEW h \in Thread, Loop(h) \/ TimeOut(h) PROVE PlacesInv'
  <2>1. UNCHANGED vars => PlacesInv'
    BY <1>9 DEF vars
  <2>. QED BY <1>2, <1>3, <1>4, <1>5, <1>6, <1>7, <1>8, <2>1 DEF Next, Run
<1>10. Wait(h) \/ TimeOut(h) \/ Die(h) \/ Restart(h) => PlacesInv'
  BY <1>9 DEF Wait, TimeOut, Die, Restart
<1>11. CASE Switch(h)
  <2>1. CASE task[worker[h]] # NoTask
    <3>1. task[worker[h]] \in Task /\ worker[h] \in Worker
      BY <1>0, <1>11, <2>1, SlotTask DEF Switch, At, TypeOK
    <3>2. Call(h, task[worker[h]])
      BY <1>11, <2>1 DEF Switch
    <3>3. \A k \in 1 .. Len(queue) : queue[k] # task[worker[h]]
      BY <1>0, <3>1 DEF PlacesInv
    <3>. QED BY <1>11, <3>1, <3>2, <3>3, PlacesCall DEF Switch
  <2>2. CASE task[worker[h]] = NoTask
    BY <1>9, <1>11, <2>2 DEF Switch
  <2>. QED BY <2>1, <2>2
<1>12. CASE Drain(h)
  <2>1. CASE queue = <<>>
    BY <1>9, <1>12, <2>1 DEF Drain
  <2>2. CASE queue # <<>>
    <3>. DEFINE t == Head(queue)
    <3>1. Call(h, t) /\ queue' = Tail(queue) /\ UNCHANGED <<mutex, submitting, task>>
      BY <1>12, <2>2 DEF Drain
    <3>2. /\ t \in Task /\ Len(queue') = Len(queue) - 1
          /\ \A k \in 1 .. Len(queue) - 1 : /\ queue'[k] = queue[k + 1] /\ k + 1 \in 1 .. Len(queue)
                                            /\ queue[k + 1] # t
      BY <2>2, <3>1, HeadTask
    <3>3. \A u \in Task : u # t => status'[u] = status[u]
      BY <1>0, <3>1 DEF Call, TypeOK
    <3>4. \A k, l \in 1 .. Len(queue) - 1 : l # k => l + 1 # k + 1
      BY <1>0
    <3>5. ASSUME NEW k \in 1 .. Len(queue')
          PROVE  /\ queue'[k] \notin submitting /\ status'[queue'[k]] = "accepted"
                 /\ \A i \in Worker : task[i] # queue'[k]
                 /\ \A l \in 1 .. Len(queue') : l # k => queue'[l] # queue'[k]
      <4>1. k \in 1 .. Len(queue) - 1 /\ queue'[k] = queue[k + 1] /\ k + 1 \in 1 .. Len(queue)
        BY <3>2
      <4>2. queue[k + 1] # t /\ queue[k + 1] \in Task
        BY <1>0, <3>2, <4>1
      <4>3. \A l \in 1 .. Len(queue') : l # k => queue'[l] # queue'[k]
        BY <1>0, <3>2, <3>4, <4>1 DEF PlacesInv
      <4>. QED BY <1>0, <3>3, <4>1, <4>2, <4>3 DEF PlacesInv
    <3>. QED BY <1>0, <3>1, <3>5 DEF PlacesInv
  <2>. QED BY <2>1, <2>2
<1>13. CASE Return(h)
  <2>1. status[fn[h]] = "running" /\ UNCHANGED <<mutex, submitting, task, queue>>
    BY <1>0, <1>13 DEF Return, At, StatusInv
  <2>2. \A u \in Task : status[u] = "accepted" => status'[u] = "accepted"
    BY <1>0, <1>13, <2>1 DEF Return, TypeOK
  <2>. QED BY <1>0, <2>1, <2>2 DEF PlacesInv
<1>14. CASE Idle(h) \/ Catch(h)
  <2>1. /\ UNCHANGED <<mutex, submitting, queue, status>>
        /\ \A i \in Worker : task'[i] \in {task[i], NoTask}
    BY <1>0, <1>14 DEF Idle, Catch, TypeOK
  <2>. QED BY <1>0, <2>1 DEF PlacesInv
<1>. QED BY <1>10, <1>11, <1>12, <1>13, <1>14 DEF Loop

-----------------------------------------------------------------------------
(* ElasticThreadPool: what happens to tasks.                                *)

\* Steps that leave the busy threads alone: a slot they fill was empty, and its task
\* has been accepted.
LEMMA StatusKept ==
    ASSUME ElasticInv, UNCHANGED fn,
           \A h \in Thread : /\ pc'[h] \in Busy <=> pc[h] \in Busy
                             /\ pc'[h] = "call" <=> pc[h] = "call"
                             /\ pc[h] \in Busy => worker'[h] = worker[h],
           \A t \in Task : status[t] # "new" => status'[t] = status[t],
           \A i \in Worker : \/ task'[i] = task[i]
                             \/ task[i] = NoTask /\ status'[task'[i]] = "accepted"
    PROVE  StatusInv'
<1>1. \A h \in Thread : worker[h] \in Worker
  BY DEF ElasticInv, TypeOK
<1>2. ASSUME NEW h \in Thread, pc'[h] \in Busy
      PROVE  task'[worker'[h]] # NoTask /\ status'[task'[worker'[h]]] \in {"running", "done"}
  <2>1. /\ pc[h] \in Busy /\ worker'[h] = worker[h] /\ task[worker[h]] # NoTask
        /\ status[task[worker[h]]] \in {"running", "done"}
    BY <1>2 DEF ElasticInv, StatusInv
  <2>2. task'[worker[h]] = task[worker[h]] /\ task[worker[h]] \in Task
    BY <1>1, <2>1, SlotStatus
  <2>. QED BY <2>1, <2>2
<1>3. ASSUME NEW i \in Worker, task'[i] # NoTask, \A h \in Thread : worker'[h] = i => pc'[h] \notin Busy
      PROVE  status'[task'[i]] = "accepted"
  <2>1. CASE task'[i] = task[i]
    <3>1. \A h \in Thread : worker[h] = i => pc[h] \notin Busy
      BY <1>3
    <3>2. task[i] \in Task /\ status[task[i]] = "accepted"
      BY <1>3, <2>1, <3>1, SlotStatus DEF ElasticInv, StatusInv
    <3>. QED BY <2>1, <3>2
  <2>. QED BY <2>1
<1>4. \A h \in Thread : pc'[h] = "call" => fn'[h] \in Task /\ status'[fn'[h]] = "running"
  BY DEF ElasticInv, StatusInv
<1>5. \A g, h \in Thread : g # h /\ pc'[g] = "call" /\ pc'[h] = "call" => fn'[g] # fn'[h]
  BY DEF ElasticInv, StatusInv
<1>. QED BY <1>2, <1>3, <1>4, <1>5 DEF StatusInv

\* A thread that goes on at `label`, busy or not as before.
LEMMA StatusGoto ==
    ASSUME ElasticInv, NEW h \in Thread, NEW label, Goto(h, label), UNCHANGED <<fn, task, status>>,
           pc[h] # "call", label # "call", label \in Busy <=> pc[h] \in Busy
    PROVE  StatusInv'
<1>1. UNCHANGED worker /\ pc'[h] = label /\ \A g \in Thread : g # h => pc'[g] = pc[g]
  BY DEF Goto, ElasticInv, TypeOK
<1>2. \A g \in Thread : /\ pc'[g] \in Busy <=> pc[g] \in Busy
                        /\ pc'[g] = "call" <=> pc[g] = "call"
                        /\ pc[g] \in Busy => worker'[g] = worker[g]
  BY <1>1
<1>3. \A i \in Worker : task'[i] = task[i]
  OBVIOUS
<1>. QED BY <1>2, <1>3, StatusKept

\* A thread that is started, by one that is not busy and ends, or by no thread.
LEMMA StatusStart ==
    ASSUME ElasticInv, NEW i \in Worker, NEW me, Start(i, me, "none"), UNCHANGED <<fn, status>>,
           me \in Thread => pc[me] \notin Busy,
           \A j \in Worker : \/ task'[j] = task[j]
                             \/ task[j] = NoTask /\ status[task'[j]] = "accepted"
    PROVE  StatusInv'
<1>1. "none" \in PC /\ "none" \notin Busy /\ "wait" \notin Busy /\ "call" \in Busy
  BY DEF PC, Busy
<1>2. PICK h \in Thread :
         /\ pc[h] = "none" /\ worker'[h] = i /\ pc'[h] = "wait"
         /\ \A g \in Thread : g # h => /\ worker'[g] = worker[g]
                                       /\ pc'[g] = IF g = me THEN "none" ELSE pc[g]
  BY <1>1, Started DEF ElasticInv
<1>3. \A g \in Thread : /\ pc'[g] \in Busy <=> pc[g] \in Busy
                        /\ pc'[g] = "call" <=> pc[g] = "call"
                        /\ pc[g] \in Busy => worker'[g] = worker[g]
  <2>. TAKE g \in Thread
  <2>1. CASE g = h
    BY <1>1, <1>2, <2>1
  <2>2. CASE g # h
    BY <1>1, <1>2, <2>2
  <2>. QED BY <2>1, <2>2
<1>4. \A j \in Worker : \/ task'[j] = task[j]
                        \/ task[j] = NoTask /\ status'[task'[j]] = "accepted"
  OBVIOUS
<1>. QED BY <1>3, <1>4, StatusKept

\* A thread calls the task of its worker, or, after a task, one from the queue.
LEMMA StatusCall ==
    ASSUME ElasticInv, NEW h \in Thread, NEW t \in Task, Call(h, t), UNCHANGED task,
           status[t] = "accepted", pc[h] # "none",
           \/ pc[h] \in Busy /\ \A i \in Worker : task[i] # t
           \/ task[worker[h]] = t
    PROVE  StatusInv'
<1>1. /\ UNCHANGED worker /\ pc'[h] = "call" /\ fn'[h] = t /\ worker[h] \in Worker
      /\ \A g \in Thread : g # h => pc'[g] = pc[g] /\ fn'[g] = fn[g]
      /\ status'[t] = "running" /\ \A u \in Task : u # t => status'[u] = status[u]
      /\ \A g \in Thread : worker[g] \in Worker
  BY DEF Call, Goto, ElasticInv, TypeOK
<1>2. \A i \in Worker : i # worker[h] /\ task[i] # NoTask => task[i] # t
  BY <1>1 DEF ElasticInv, PlacesInv
<1>3. t # NoTask /\ "call" \in Busy
  BY TasksAssumption DEF Busy
<1>4. ASSUME NEW g \in Thread, pc'[g] \in Busy
      PROVE  task[worker[g]] # NoTask /\ status'[task[worker[g]]] \in {"running", "done"}
  <2>1. CASE g = h /\ task[worker[h]] = t
    BY <1>1, <1>3, <2>1
  <2>2. CASE ~(g = h /\ task[worker[h]] = t)
    <3>1. pc[g] \in Busy
      BY <1>1, <1>4, <2>2
    <3>2. task[worker[g]] # NoTask /\ status[task[worker[g]]] \in {"running", "done"}
      BY <3>1 DEF ElasticInv, StatusInv
    <3>3. task[worker[g]] \in Task
      BY <1>1, <3>2, SlotStatus
    <3>. QED BY <1>1, <3>2, <3>3
  <2>. QED BY <2>1, <2>2
<1>5. ASSUME NEW i \in Worker, task[i] # NoTask, \A g \in Thread : worker[g] = i => pc'[g] \notin Busy
      PROVE  status'[task[i]] = "accepted"
  <2>1. i # worker[h]
    BY <1>1, <1>3, <1>5
  <2>2. \A g \in Thread : worker[g] = i => pc[g] \notin Busy
    BY <1>1, <1>5, <2>1
  <2>3. task[i] # t /\ task[i] \in Task /\ status[task[i]] = "accepted"
    BY <1>2, <1>5, <2>1, <2>2, SlotStatus DEF ElasticInv, StatusInv
  <2>. QED BY <1>1, <2>3
<1>6. ASSUME NEW g \in Thread, pc'[g] = "call", g # h
      PROVE  fn'[g] = fn[g] /\ pc[g] = "call" /\ fn[g] \in Task /\ fn[g] # t
             /\ status'[fn[g]] = "running"
  BY <1>1, <1>6 DEF ElasticInv, StatusInv
<1>7. \A g, k \in Thread : g # k /\ pc'[g] = "call" /\ pc'[k] = "call" => fn'[g] # fn'[k]
  BY <1>1, <1>6 DEF ElasticInv, StatusInv
<1>8. \A g \in Thread : pc'[g] = "call" => fn'[g] \in Task /\ status'[fn'[g]] = "running"
  BY <1>1, <1>6
<1>. QED BY <1>1, <1>4, <1>5, <1>7, <1>8 DEF StatusInv

\* What is kept to be run has been accepted and has not run.
LEMMA StatusStep == ElasticInv /\ [Next]_vars => StatusInv'
<1>. SUFFICES ASSUME ElasticInv, [Next]_vars PROVE StatusInv'
  OBVIOUS
<1>. USE DEF clientVars, workerVars, threadVars
<1>0. /\ TypeOK /\ PlacesInv /\ StatusInv /\ LoopInv /\ NoTask \notin Task /\ NoThread \notin Thread
      /\ maxThreadsCount \in Nat \ {0} /\ pool \in Nat /\ scan \in Nat /\ scan >= 1
      /\ pool <= maxThreadsCount
  BY ThreadsAssumption, TasksAssumption DEF ElasticInv, TypeOK
<1>1. ASSUME UNCHANGED <<threadVars, task>>,
             \A t \in Task : status[t] # "new" => status'[t] = status[t]
      PROVE  StatusInv'
  <2>1. \A h \in Thread : /\ pc'[h] \in Busy <=> pc[h] \in Busy
                          /\ pc'[h] = "call" <=> pc[h] = "call"
                          /\ pc[h] \in Busy => worker'[h] = worker[h]
    BY <1>1
  <2>2. \A i \in Worker : task'[i] = task[i]
    BY <1>1
  <2>. QED BY <1>1, <2>1, <2>2, StatusKept
<1>2. ASSUME NEW t \in Task, RunCheck(t) PROVE StatusInv'
  <2>1. \A u \in Task : status[u] # "new" => status'[u] = status[u]
    BY <1>0, <1>2 DEF RunCheck, TypeOK
  <2>. QED BY <1>1, <1>2, <2>1 DEF RunCheck
<1>3. ASSUME NEW t \in Task, RunAcquire(t) PROVE StatusInv'
  BY <1>1, <1>3 DEF RunAcquire
<1>4. RunScan \/ RunQueue => StatusInv'
  BY <1>1 DEF RunScan, RunQueue
<1>5. ASSUME NEW i \in Worker, mutex \in Task, task[i] = NoTask, NEW created,
             Wakeup(i, mutex, created), UNCHANGED status
      PROVE  StatusInv'
  <2>1. \A j \in Worker : \/ task'[j] = task[j]
                          \/ task[j] = NoTask /\ status[task'[j]] = "accepted"
    BY <1>0, <1>5, HeldTask DEF Wakeup, TypeOK
  <2>2. CASE Start(i, NoThread, "none")
    <3>1. UNCHANGED fn /\ (NoThread \in Thread => pc[NoThread] \notin Busy)
      BY <1>0, <1>5 DEF Wakeup
    <3>. QED BY <1>5, <2>1, <2>2, <3>1, StatusStart
  <2>3. CASE UNCHANGED <<worker, pc>>
    <3>1. \A h \in Thread : /\ pc'[h] \in Busy <=> pc[h] \in Busy
                            /\ pc'[h] = "call" <=> pc[h] = "call"
                            /\ pc[h] \in Busy => worker'[h] = worker[h]
      BY <2>3
    <3>2. UNCHANGED fn
      BY <1>5 DEF Wakeup
    <3>3. \A t \in Task : status[t] # "new" => status'[t] = status[t]
      BY <1>5
    <3>4. \A j \in Worker : \/ task'[j] = task[j]
                            \/ task[j] = NoTask /\ status'[task'[j]] = "accepted"
      BY <1>5, <2>1
    <3>. QED BY <3>1, <3>2, <3>3, <3>4, StatusKept
  <2>. QED BY <1>5, <2>2, <2>3 DEF Wakeup
<1>6. CASE RunWakeup
  <2>1. scan \in Worker
    BY <1>0, <1>6 DEF RunWakeup, Worker
  <2>. QED BY <1>5, <1>6, <2>1 DEF RunWakeup
<1>7. CASE RunCreate
  <2>1. pool + 1 \in Worker /\ pool + 1 > pool
    BY <1>0, <1>7 DEF RunCreate, Worker
  <2>2. task[pool + 1] = NoTask
    BY <1>0, <2>1 DEF LoopInv
  <2>. QED BY <1>5, <1>7, <2>1, <2>2 DEF RunCreate
<1>8. Close => StatusInv'
  BY <1>1 DEF Close, ShutdownCheck, ShutdownAcquire, ShutdownWorker, ShutdownReturns
<1>. SUFFICES ASSUME NEW h \in Thread, Loop(h) \/ TimeOut(h) PROVE StatusInv'
  <2>1. UNCHANGED vars => StatusInv'
    BY <1>1 DEF vars
  <2>. QED BY <1>2, <1>3, <1>4, <1>6, <1>7, <1>8, <2>1 DEF Next, Run
<1>9. "call" \in Busy /\ "drain" \in Busy /\ "idle" \in Busy /\ "catch" \in Busy
      /\ {"wait", "switch", "dying", "restart", "none"} \cap Busy = {}
  BY DEF Busy
<1>10. Wait(h) \/ TimeOut(h) => StatusInv'
  BY <1>9, StatusGoto DEF Wait, TimeOut, At
<1>11. CASE Switch(h)
  <2>1. CASE task[worker[h]] # NoTask
    <3>1. pc[h] = "switch" /\ Call(h, task[worker[h]]) /\ UNCHANGED task
      BY <1>11, <2>1 DEF Switch, At
    <3>2. task[worker[h]] \in Task /\ status[task[worker[h]]] = "accepted"
      BY <2>1, <3>1, SlotTask
    <3>. QED BY <3>1, <3>2, StatusCall
  <2>2. CASE task[worker[h]] = NoTask
    BY <1>9, <1>11, <2>2, StatusGoto DEF Switch, At
  <2>. QED BY <2>1, <2>2
<1>12. CASE Drain(h)
  <2>1. CASE queue = <<>>
    BY <1>9, <1>12, <2>1, StatusGoto DEF Drain, At
  <2>2. CASE queue # <<>>
    <3>1. pc[h] = "drain" /\ Call(h, Head(queue)) /\ UNCHANGED task
      BY <1>12, <2>2 DEF Drain, At
    <3>2. /\ Head(queue) \in Task /\ status[Head(queue)] = "accepted"
          /\ \A i \in Worker : task[i] # Head(queue)
      BY <2>2, HeadTask
    <3>. QED BY <1>9, <3>1, <3>2, StatusCall
  <2>. QED BY <2>1, <2>2
<1>13. CASE Return(h)
  <2>1. /\ pc[h] = "call" /\ fn[h] \in Task /\ status[fn[h]] = "running" /\ UNCHANGED <<worker, task>>
        /\ pc'[h] \in {"catch", "drain"} /\ \A g \in Thread : g # h => pc'[g] = pc[g] /\ fn'[g] = fn[g]
    <3>1. At(h, "call") /\ UNCHANGED task /\ fn' = [fn EXCEPT ![h] = NoTask]
          /\ Goto(h, IF fn[h] \in Throwing THEN "catch" ELSE "drain")
      BY <1>13 DEF Return, workerVars
    <3>2. pc[h] = "call" /\ fn[h] \in Task /\ status[fn[h]] = "running"
      BY <1>0, <3>1 DEF At, StatusInv
    <3>3. pc \in [Thread -> PC] /\ fn \in [Thread -> Task \cup {NoTask}]
      BY <1>0 DEF TypeOK
    <3>4. \A g \in Thread : g # h => fn'[g] = fn[g]
      BY <3>1, <3>3
    <3>5. UNCHANGED worker /\ pc' = [pc EXCEPT ![h] = IF fn[h] \in Throwing THEN "catch" ELSE "drain"]
      BY <3>1 DEF Goto
    <3>6. pc'[h] \in {"catch", "drain"} /\ \A g \in Thread : g # h => pc'[g] = pc[g]
      BY <3>3, <3>5
    <3>. QED BY <3>1, <3>2, <3>4, <3>5, <3>6 DEF At
  <2>2. status'[fn[h]] = "done" /\ \A t \in Task : t # fn[h] => status'[t] = status[t]
    BY <1>0, <1>13, <2>1 DEF Return, TypeOK
  <2>3. \A g \in Thread : (pc'[g] \in Busy <=> pc[g] \in Busy) /\ worker[g] \in Worker
    <3>1. \A g \in Thread : worker[g] \in Worker
      BY <1>0 DEF TypeOK
    <3>2. pc[h] \in Busy /\ pc'[h] \in Busy
      BY <1>9, <2>1
    <3>. QED BY <2>1, <3>1, <3>2
  <2>4. \A i \in Worker : task[i] # NoTask => task[i] \in Task
    BY SlotStatus
  <2>5. \A g \in Thread : pc'[g] \in Busy =>
           task[worker[g]] # NoTask /\ status'[task[worker[g]]] \in {"running", "done"}
    BY <1>0, <2>2, <2>3, <2>4 DEF StatusInv
  <2>6. \A i \in Worker : task[i] # NoTask /\ (\A g \in Thread : worker[g] = i => pc'[g] \notin Busy)
           => status'[task[i]] = "accepted"
    BY <1>0, <2>1, <2>2, <2>3, <2>4 DEF StatusInv
  <2>7. \A g \in Thread : pc'[g] = "call" =>
           g # h /\ pc[g] = "call" /\ fn'[g] = fn[g] /\ fn[g] \in Task /\ status'[fn[g]] = "running"
    BY <1>0, <2>1, <2>2 DEF StatusInv
  <2>8. \A g, k \in Thread : g # k /\ pc'[g] = "call" /\ pc'[k] = "call" => fn'[g] # fn'[k]
    BY <1>0, <2>7 DEF StatusInv
  <2>. QED BY <2>1, <2>5, <2>6, <2>7, <2>8 DEF StatusInv
<1>14. CASE Idle(h) \/ Catch(h)
  <2>1. /\ pc[h] \in Busy /\ pc[h] # "call" /\ pc'[h] \in {"wait", "restart"} /\ worker[h] \in Worker
        /\ UNCHANGED <<worker, fn, status>> /\ \A g \in Thread : g # h => pc'[g] = pc[g]
    BY <1>0, <1>9, <1>14 DEF Idle, Catch, At, Goto, TypeOK
  <2>2. task'[worker[h]] = NoTask /\ \A i \in Worker : i # worker[h] => task'[i] = task[i]
    BY <1>0, <1>14, <2>1 DEF Idle, Catch, TypeOK
  <2>3. \A g \in Thread : pc'[g] \in Busy => g # h /\ pc[g] \in Busy /\ pc[g] # "none"
    BY <1>9, <2>1
  <2>4. \A g \in Thread : pc'[g] \in Busy => worker[g] # worker[h] /\ worker[g] \in Worker
    BY <1>0, <1>9, <2>1, <2>3 DEF LoopInv, OneLoopPerWorker, TypeOK
  <2>5. \A g \in Thread : pc'[g] \in Busy =>
           task'[worker[g]] # NoTask /\ status[task'[worker[g]]] \in {"running", "done"}
    BY <1>0, <2>2, <2>3, <2>4 DEF StatusInv
  <2>6. \A i \in Worker : task'[i] # NoTask /\ (\A g \in Thread : worker[g] = i => pc'[g] \notin Busy)
           => status[task'[i]] = "accepted"
    BY <1>0, <2>1, <2>2 DEF StatusInv
  <2>7. \A g \in Thread : pc'[g] = "call" => pc[g] = "call"
    BY <2>1
  <2>. QED BY <1>0, <2>1, <2>5, <2>6, <2>7 DEF StatusInv
\* A thread that is not busy starts another and ends.
<1>15. ASSUME Start(worker[h], h, "none"), pc[h] \notin Busy, UNCHANGED <<fn, status, task>>
       PROVE  StatusInv'
  <2>1. worker[h] \in Worker /\ \A j \in Worker : task'[j] = task[j]
    BY <1>0, <1>15 DEF TypeOK
  <2>. QED BY <1>15, <2>1, StatusStart
<1>16. CASE Die(h)
  <2>1. pc[h] = "dying" /\ UNCHANGED <<fn, status, task>>
    BY <1>16 DEF Die, At
  <2>2. CASE task[worker[h]] # NoTask
    BY <1>9, <1>15, <1>16, <2>1, <2>2 DEF Die
  <2>3. CASE task[worker[h]] = NoTask
    BY <1>9, <1>16, <2>1, <2>3, StatusGoto DEF Die
  <2>. QED BY <2>2, <2>3
<1>17. Restart(h) => StatusInv'
  BY <1>9, <1>15 DEF Restart, At
<1>. QED BY <1>10, <1>11, <1>12, <1>13, <1>14, <1>16, <1>17 DEF Loop

-----------------------------------------------------------------------------
(* ElasticThreadPool: the invariant holds, and what follows.                *)

\* A new pool has no workers and no tasks.
LEMMA ElasticInit == Init => ElasticInv
<1>. SUFFICES ASSUME Init PROVE ElasticInv
  OBVIOUS
<1>1. /\ NoTask \notin Task /\ 1 \in Worker /\ maxThreadsCount \in Nat \ {0}
      /\ queue \in Seq(Task) /\ Len(queue) = 0
  BY ThreadsAssumption, TasksAssumption, EmptySeq DEF Init, Worker
<1>2. TypeOK
  <2>1. /\ pool \in 0 .. maxThreadsCount /\ scan \in 1 .. maxThreadsCount + 1
    BY <1>1 DEF Init
  <2>2. status \in [Task -> P!Status] /\ submitting \subseteq {t \in Task : status[t] = "accepted"}
    BY DEF Init, P!Status
  <2>3. pc \in [Thread -> PC] /\ worker \in [Thread -> Worker] /\ waiter \in [Worker -> Nat]
    BY <1>1 DEF Init, PC
  <2>. QED BY <1>1, <2>1, <2>2, <2>3 DEF Init, TypeOK
<1>3. PlacesInv
  BY <1>1 DEF Init, PlacesInv
<1>4. LoopInv
  BY <1>1 DEF Init, LoopInv, OneLoopPerWorker, DeadHasNoTask, Runs
<1>5. StatusInv
  BY <1>1 DEF Init, StatusInv, Busy
<1>. QED BY <1>2, <1>3, <1>4, <1>5 DEF ElasticInv

\* Every step of the elastic pool keeps its invariant.
LEMMA ElasticStep == ElasticInv /\ [Next]_vars => ElasticInv'
BY ElasticType, PlacesStep, LoopStep, StatusStep DEF ElasticInv

\* The invariant of the elastic pool holds in all its states.
LEMMA ElasticAlways == Init /\ [][Next]_vars => []ElasticInv
BY ElasticInit, ElasticStep, PTL

\* The invariant implies what the runs check of the bookkeeping.
LEMMA ElasticConsistent == ElasticInv => Consistent
<1>. SUFFICES ASSUME ElasticInv PROVE DeadHasNoThread
  BY DEF ElasticInv, LoopInv, Consistent
<1>1. 1 .. pool \subseteq Worker
  BY ThreadsAssumption DEF ElasticInv, TypeOK, Worker
<1>. QED BY <1>1 DEF ElasticInv, LoopInv, Runs, DeadHasNoThread

\* Every step of the pool is one the interface allows, or none.
LEMMA ElasticSimulates == ElasticInv /\ [Next]_vars => [P!Next]_(P!vars)
<1>. SUFFICES ASSUME ElasticInv, [Next]_vars PROVE [P!Next]_(P!vars)
  OBVIOUS
<1>. USE DEF clientVars, workerVars, threadVars
<1>1. ASSUME UNCHANGED <<status, _isShutdown>> PROVE [P!Next]_(P!vars)
  BY <1>1 DEF P!vars
<1>2. ASSUME NEW t \in Task, RunCheck(t) PROVE P!Next
  BY <1>2 DEF RunCheck, P!Next, P!Run, P!Become
<1>3. ASSUME NEW t \in Task, RunAcquire(t) PROVE [P!Next]_(P!vars)
  BY <1>1, <1>3 DEF RunAcquire
<1>4. RunScan \/ RunWakeup \/ RunCreate \/ RunQueue => [P!Next]_(P!vars)
  BY <1>1 DEF RunScan, RunWakeup, RunCreate, RunQueue
<1>5. ASSUME NEW k \in Closer, ShutdownAcquire(k) PROVE P!Next
  BY <1>5 DEF ShutdownAcquire, P!Next, P!Shutdown
<1>6. ASSUME NEW k \in Closer, ShutdownCheck(k) PROVE [P!Next]_(P!vars)
  BY <1>1, <1>6 DEF ShutdownCheck
<1>12. ShutdownWorker \/ ShutdownReturns => [P!Next]_(P!vars)
  BY <1>1 DEF ShutdownWorker, ShutdownReturns
<1>. SUFFICES ASSUME NEW h \in Thread, Loop(h) \/ TimeOut(h) PROVE [P!Next]_(P!vars)
  <2>1. UNCHANGED vars => [P!Next]_(P!vars)
    BY <1>1 DEF vars
  <2>. QED BY <1>2, <1>3, <1>4, <1>5, <1>6, <1>12, <2>1 DEF Next, Run, Close
<1>7. ASSUME NEW t \in Task, status[t] = "accepted", Call(h, t), UNCHANGED _isShutdown PROVE P!Next
  BY <1>7 DEF Call, P!Next, P!Start, P!Become
<1>8. CASE Switch(h)
  <2>1. CASE task[worker[h]] # NoTask
    <3>1. pc[h] = "switch" /\ Call(h, task[worker[h]]) /\ UNCHANGED _isShutdown
      BY <1>8, <2>1 DEF Switch, At
    <3>2. task[worker[h]] \in Task /\ status[task[worker[h]]] = "accepted"
      BY <2>1, <3>1, SlotTask
    <3>. QED BY <1>7, <3>1, <3>2
  <2>2. CASE task[worker[h]] = NoTask
    BY <1>1, <1>8, <2>2 DEF Switch
  <2>. QED BY <2>1, <2>2
<1>9. CASE Drain(h)
  <2>1. CASE queue = <<>>
    BY <1>1, <1>9, <2>1 DEF Drain
  <2>2. CASE queue # <<>>
    BY <1>7, <1>9, <2>2, HeadTask DEF Drain
  <2>. QED BY <2>1, <2>2
<1>10. CASE Return(h)
  <2>1. fn[h] \in Task /\ status[fn[h]] = "running"
    BY <1>10 DEF Return, At, ElasticInv, StatusInv
  <2>. QED BY <1>10, <2>1 DEF Return, P!Next, P!Finish, P!Become
<1>11. Wait(h) \/ TimeOut(h) \/ Idle(h) \/ Die(h) \/ Catch(h) \/ Restart(h) => [P!Next]_(P!vars)
  BY <1>1 DEF Wait, TimeOut, Idle, Die, Catch, Restart
<1>. QED BY <1>8, <1>9, <1>10, <1>11 DEF Loop

\* Worker's loop, run and shutdown: the flags, slots and threads agree, whatever is
\* interleaved.
THEOREM ElasticBookkeeping == Spec => []Consistent
BY ElasticAlways, ElasticConsistent, PTL DEF Spec

\* ElasticThreadPool implements IThreadPool: a task that sits in a worker's slot or in
\* the queue is taken by one thread, whoever dies, throws or is started meanwhile.
THEOREM ElasticRefines == Spec => ImplementsThreadPool
<1>1. Init => P!Init
  BY DEF Init, P!Init
<1>. QED BY <1>1, ElasticAlways, ElasticSimulates, PTL DEF Spec, ImplementsThreadPool, P!Spec

-----------------------------------------------------------------------------
(* FixedThreadPool: the invariant.                                          *)

\* A task in the queue has been accepted, and is there once.
QueueInv ==
    \A k \in 1 .. Len(fixedQueue) : fixedQueue[k] \in Task =>
        /\ fixedQueue[k] \notin fixedSubmitting /\ fixedStatus[fixedQueue[k]] = "accepted"
        /\ \A l \in 1 .. Len(fixedQueue) : l # k => fixedQueue[l] # fixedQueue[k]

\* No two workers have popped one task.
PoppedInv ==
    /\ \A w \in FixedWorker : fixedTask[w] \in Task => fixedStatus[fixedTask[w]] = "running"
    /\ \A v, w \in FixedWorker : v # w /\ fixedTask[v] \in Task => fixedTask[v] # fixedTask[w]

FixedInv == Fixed!TypeOK /\ QueueInv /\ PoppedInv

\* The composition gives the fixed pool constants that fit.
LEMMA FixedConstants ==
    /\ ShutdownTask \notin Task /\ "pop" \notin Task /\ "exited" \notin Task
    /\ Fixed!Checked \in Nat /\ Fixed!Checked >= 1
<1>1. /\ ShutdownTask \notin Task /\ "pop" \notin Task /\ "exited" \notin Task
      /\ Fixed!IsFiniteSet(FixedWorker)
  BY FixedAssumption DEF Fixed!ConstantsFit
<1>2. /\ Fixed!IsFiniteSet(FixedWorker) <=> IsFiniteSet(FixedWorker)
      /\ Fixed!Cardinality(FixedWorker) = Cardinality(FixedWorker)
  BY DEF Fixed!IsFiniteSet, IsFiniteSet, Fixed!Cardinality, Cardinality
<1>3. Fixed!Cardinality(FixedWorker) \in Nat
  BY <1>1, <1>2, FS_CardinalityType
<1>. QED BY <1>1, <1>3 DEF Fixed!Checked

\* A new fixed pool has started its workers and has no tasks.
LEMMA FixedInit == Fixed!Init => FixedInv
<1>. SUFFICES ASSUME Fixed!Init PROVE FixedInv
  OBVIOUS
<1>1. /\ fixedQueue \in Seq(Task \cup {ShutdownTask}) /\ Len(fixedQueue) = 0
  BY EmptySeq DEF Fixed!Init
<1>2. Fixed!TypeOK
  <2>1. closing \in [Closer -> 0 .. Fixed!Checked]
    BY FixedConstants DEF Fixed!Init
  <2>2. /\ fixedStatus \in [Task -> Fixed!P!Status]
        /\ fixedSubmitting \subseteq {t \in Task : fixedStatus[t] = "accepted"}
    BY DEF Fixed!Init, Fixed!P!Status
  <2>3. fixedTask \in [FixedWorker -> Task \cup {"pop", "exited", ShutdownTask}]
    BY DEF Fixed!Init
  <2>. QED BY <1>1, <2>1, <2>2, <2>3 DEF Fixed!Init, Fixed!TypeOK
<1>3. QueueInv
  BY <1>1 DEF QueueInv
<1>4. PoppedInv
  BY FixedConstants DEF Fixed!Init, PoppedInv
<1>. QED BY <1>2, <1>3, <1>4 DEF FixedInv

\* What run and shutdown add to the queue.
LEMMA FixedAppend ==
    ASSUME FixedInv, NEW t, fixedQueue' = Append(fixedQueue, t), UNCHANGED fixedStatus,
           \/ t = ShutdownTask /\ UNCHANGED fixedSubmitting
           \/ t \in fixedSubmitting /\ fixedSubmitting' = fixedSubmitting \ {t}
    PROVE  QueueInv' /\ fixedQueue' \in Seq(Task \cup {ShutdownTask})
<1>1. /\ fixedQueue \in Seq(Task \cup {ShutdownTask}) /\ Len(fixedQueue) \in Nat
      /\ t \in Task \cup {ShutdownTask} /\ ShutdownTask \notin Task
      /\ t \in Task => t \in fixedSubmitting /\ fixedStatus[t] = "accepted" /\ t \notin fixedSubmitting'
      /\ fixedSubmitting' \subseteq fixedSubmitting
  BY LenProperties, FixedConstants DEF FixedInv, Fixed!TypeOK
<1>2. /\ Len(fixedQueue') = Len(fixedQueue) + 1 /\ fixedQueue'[Len(fixedQueue) + 1] = t
      /\ \A k \in 1 .. Len(fixedQueue) : fixedQueue'[k] = fixedQueue[k]
      /\ fixedQueue' \in Seq(Task \cup {ShutdownTask})
  BY <1>1, AppendProperties
<1>3. \A k \in 1 .. Len(fixedQueue') : k \in 1 .. Len(fixedQueue) \/ k = Len(fixedQueue) + 1
  BY <1>1, <1>2
<1>4. \A k \in 1 .. Len(fixedQueue) : t \in Task => fixedQueue[k] # t
  BY <1>1 DEF FixedInv, QueueInv
<1>5. ASSUME NEW k \in 1 .. Len(fixedQueue'), fixedQueue'[k] \in Task
      PROVE  /\ fixedQueue'[k] \notin fixedSubmitting' /\ fixedStatus[fixedQueue'[k]] = "accepted"
             /\ \A l \in 1 .. Len(fixedQueue') : l # k => fixedQueue'[l] # fixedQueue'[k]
  <2>1. CASE k \in 1 .. Len(fixedQueue)
    BY <1>1, <1>2, <1>3, <1>4, <1>5, <2>1 DEF FixedInv, QueueInv
  <2>2. CASE k = Len(fixedQueue) + 1
    BY <1>1, <1>2, <1>3, <1>4, <1>5, <2>2
  <2>. QED BY <1>3, <2>1, <2>2
<1>. QED BY <1>2, <1>5 DEF QueueInv

\* What a worker pops.
LEMMA FixedHead ==
    ASSUME FixedInv, fixedQueue # <<>>
    PROVE  /\ Head(fixedQueue) \in Task \cup {ShutdownTask}
           /\ Tail(fixedQueue) \in Seq(Task \cup {ShutdownTask})
           /\ Len(Tail(fixedQueue)) = Len(fixedQueue) - 1
           /\ \A k \in 1 .. Len(fixedQueue) - 1 :
                 /\ Tail(fixedQueue)[k] = fixedQueue[k + 1] /\ k + 1 \in 1 .. Len(fixedQueue)
                 /\ fixedQueue[k + 1] \in Task => fixedQueue[k + 1] # Head(fixedQueue)
           /\ Head(fixedQueue) \in Task => /\ Head(fixedQueue) \notin fixedSubmitting
                                           /\ fixedStatus[Head(fixedQueue)] = "accepted"
<1>1. /\ fixedQueue \in Seq(Task \cup {ShutdownTask})
      /\ Head(fixedQueue) \in Task \cup {ShutdownTask}
      /\ Tail(fixedQueue) \in Seq(Task \cup {ShutdownTask})
      /\ Len(Tail(fixedQueue)) = Len(fixedQueue) - 1
      /\ \A k \in 1 .. Len(Tail(fixedQueue)) : Tail(fixedQueue)[k] = fixedQueue[k + 1]
  BY HeadTailProperties DEF FixedInv, Fixed!TypeOK
<1>2. Head(fixedQueue) = fixedQueue[1] /\ Len(fixedQueue) \in Nat /\ Len(fixedQueue) # 0
  BY <1>1
<1>3. 1 \in 1 .. Len(fixedQueue)
  BY <1>2
<1>4. \A k \in 1 .. Len(fixedQueue) - 1 : k + 1 \in 1 .. Len(fixedQueue) /\ k + 1 # 1
  BY <1>2
<1>. QED BY <1>1, <1>2, <1>3, <1>4 DEF FixedInv, QueueInv

\* Every step of the fixed pool keeps its invariant.
LEMMA FixedStep == FixedInv /\ [Fixed!Next]_(Fixed!vars) => FixedInv'
<1>. SUFFICES ASSUME FixedInv, [Fixed!Next]_(Fixed!vars) PROVE FixedInv'
  OBVIOUS
<1>0. /\ Fixed!TypeOK /\ QueueInv /\ PoppedInv
      /\ \A w \in FixedWorker : fixedTask[w] \in Task => fixedStatus[fixedTask[w]] = "running"
      /\ \A k \in 1 .. Len(fixedQueue) : fixedQueue[k] \in Task \cup {ShutdownTask}
  BY DEF FixedInv, PoppedInv, Fixed!TypeOK
<1>1. ASSUME UNCHANGED Fixed!vars PROVE FixedInv'
  BY <1>0, <1>1 DEF Fixed!vars, FixedInv, Fixed!TypeOK, QueueInv, PoppedInv
<1>2. ASSUME NEW t \in Task, Fixed!RunCheck(t) PROVE FixedInv'
  <2>1. /\ fixedStatus[t] = "new" /\ UNCHANGED <<fixedIsShutdown, fixedQueue, closing, fixedTask>>
        /\ \A u \in Task : u # t => fixedStatus'[u] = fixedStatus[u]
        /\ fixedSubmitting' \subseteq fixedSubmitting \cup {t}
    BY <1>0, <1>2 DEF Fixed!RunCheck, Fixed!TypeOK
  <2>2. Fixed!TypeOK'
    BY <1>0, <1>2 DEF Fixed!RunCheck, Fixed!TypeOK, Fixed!P!Status
  <2>3. QueueInv'
    BY <1>0, <2>1 DEF QueueInv
  <2>4. PoppedInv'
    BY <1>0, <2>1 DEF PoppedInv
  <2>. QED BY <2>2, <2>3, <2>4 DEF FixedInv
<1>3. ASSUME NEW t \in Task, Fixed!RunAdd(t) PROVE FixedInv'
  <2>1. QueueInv' /\ fixedQueue' \in Seq(Task \cup {ShutdownTask})
    BY <1>3, FixedAppend DEF Fixed!RunAdd
  <2>. QED BY <1>0, <1>3, <2>1 DEF Fixed!RunAdd, FixedInv, Fixed!TypeOK, PoppedInv
<1>4. ASSUME NEW k \in Closer, Fixed!ShutdownCheck(k) \/ Fixed!ShutdownSet(k) PROVE FixedInv'
  <2>0. Fixed!Checked \in 0 .. Fixed!Checked /\ Fixed!Checked - 1 \in 0 .. Fixed!Checked
    BY FixedConstants
  <2>1. closing' \in [Closer -> 0 .. Fixed!Checked] /\ fixedIsShutdown' \in BOOLEAN
    <3>1. closing \in [Closer -> 0 .. Fixed!Checked] /\ fixedIsShutdown \in BOOLEAN
      BY <1>0 DEF Fixed!TypeOK
    <3>2. Fixed!ShutdownCheck(k) => closing' \in [Closer -> 0 .. Fixed!Checked]
      BY <2>0, <3>1 DEF Fixed!ShutdownCheck
    <3>3. Fixed!ShutdownSet(k) => closing' \in [Closer -> 0 .. Fixed!Checked]
      BY <2>0, <3>1 DEF Fixed!ShutdownSet
    <3>4. fixedIsShutdown' \in BOOLEAN
      BY <1>4, <3>1 DEF Fixed!ShutdownCheck, Fixed!ShutdownSet
    <3>. QED BY <1>4, <3>2, <3>3, <3>4
  <2>2. UNCHANGED <<fixedQueue, fixedStatus, fixedSubmitting, fixedTask>>
    BY <1>4 DEF Fixed!ShutdownCheck, Fixed!ShutdownSet
  <2>. QED BY <1>0, <2>1, <2>2 DEF FixedInv, Fixed!TypeOK, QueueInv, PoppedInv
<1>5. ASSUME NEW k \in Closer, Fixed!ShutdownAdd(k) PROVE FixedInv'
  <2>1. QueueInv' /\ fixedQueue' \in Seq(Task \cup {ShutdownTask})
    BY <1>5, FixedAppend DEF Fixed!ShutdownAdd
  <2>2. closing[k] - 1 \in 0 .. Fixed!Checked
    BY <1>5, FixedConstants DEF Fixed!ShutdownAdd
  <2>3. closing' \in [Closer -> 0 .. Fixed!Checked]
    BY <1>0, <1>5, <2>2 DEF Fixed!ShutdownAdd, Fixed!TypeOK
  <2>. QED BY <1>0, <1>5, <2>1, <2>3 DEF Fixed!ShutdownAdd, FixedInv, Fixed!TypeOK, PoppedInv
<1>6. ASSUME NEW w \in FixedWorker, Fixed!Pop(w) PROVE FixedInv'
  <2>. DEFINE t == Head(fixedQueue)
  <2>1. /\ fixedTask[w] = "pop" /\ fixedQueue # <<>> /\ fixedQueue' = Tail(fixedQueue)
        /\ fixedTask' = [fixedTask EXCEPT ![w] = t]
        /\ fixedStatus' = [u \in Task |-> IF u = t THEN "running" ELSE fixedStatus[u]]
        /\ UNCHANGED <<fixedIsShutdown, fixedSubmitting, closing>>
    BY <1>6 DEF Fixed!Pop
  <2>2. /\ t \in Task \cup {ShutdownTask} /\ fixedQueue' \in Seq(Task \cup {ShutdownTask})
        /\ t \in Task => t \notin fixedSubmitting /\ fixedStatus[t] = "accepted"
    BY <2>1, FixedHead
  <2>3. Fixed!TypeOK'
    <3>1. fixedStatus' \in [Task -> Fixed!P!Status]
      BY <1>0, <2>1 DEF Fixed!TypeOK, Fixed!P!Status
    <3>2. fixedSubmitting \subseteq {u \in Task : fixedStatus'[u] = "accepted"}
      BY <1>0, <2>1, <2>2 DEF Fixed!TypeOK
    <3>. QED BY <1>0, <2>1, <2>2, <3>1, <3>2 DEF Fixed!TypeOK
  <2>4. QueueInv'
    <3>0. Len(fixedQueue) \in Nat
      BY <1>0, LenProperties DEF Fixed!TypeOK
    <3>1. /\ Len(fixedQueue') = Len(fixedQueue) - 1
          /\ \A k \in 1 .. Len(fixedQueue) - 1 :
                /\ fixedQueue'[k] = fixedQueue[k + 1] /\ k + 1 \in 1 .. Len(fixedQueue)
                /\ fixedQueue[k + 1] \in Task => fixedQueue[k + 1] # t
      BY <2>1, FixedHead
    <3>2. \A k, l \in 1 .. Len(fixedQueue) - 1 : l # k => l + 1 # k + 1
      BY <3>0
    <3>3. \A u \in Task : u # t => fixedStatus'[u] = fixedStatus[u]
      BY <2>1
    <3>. QED BY <1>0, <2>1, <3>1, <3>2, <3>3 DEF QueueInv
  <2>5. PoppedInv'
    <3>1. fixedTask'[w] = t /\ \A v \in FixedWorker : v # w => fixedTask'[v] = fixedTask[v]
      BY <1>0, <2>1 DEF Fixed!TypeOK
    <3>2. \A v \in FixedWorker : fixedTask[v] \in Task => fixedTask[v] # t
      BY <1>0, <2>2
    <3>. QED BY <1>0, <2>1, <3>1, <3>2 DEF PoppedInv
  <2>. QED BY <2>3, <2>4, <2>5 DEF FixedInv
<1>7. ASSUME NEW w \in FixedWorker, Fixed!TaskEnds(w, "pop") PROVE FixedInv'
  <2>1. /\ fixedTask[w] \in Task /\ fixedStatus[fixedTask[w]] = "running"
        /\ fixedStatus' = [fixedStatus EXCEPT ![fixedTask[w]] = "done"]
        /\ fixedTask' = [fixedTask EXCEPT ![w] = "pop"]
        /\ UNCHANGED <<fixedIsShutdown, fixedQueue, fixedSubmitting, closing>>
    BY <1>0, <1>7 DEF Fixed!TaskEnds
  <2>2. \A u \in Task : u # fixedTask[w] => fixedStatus'[u] = fixedStatus[u]
    BY <1>0, <2>1 DEF Fixed!TypeOK
  <2>3. Fixed!TypeOK'
    BY <1>0, <2>1 DEF Fixed!TypeOK, Fixed!P!Status
  <2>4. QueueInv'
    BY <1>0, <2>1, <2>2 DEF QueueInv
  <2>5. PoppedInv'
    <3>1. fixedTask'[w] = "pop" /\ \A v \in FixedWorker : v # w => fixedTask'[v] = fixedTask[v]
      BY <1>0, <2>1 DEF Fixed!TypeOK
    <3>. QED BY <1>0, <2>1, <2>2, <3>1, FixedConstants DEF PoppedInv
  <2>. QED BY <2>3, <2>4, <2>5 DEF FixedInv
<1>8. ASSUME NEW w \in FixedWorker, Fixed!Exit(w) PROVE FixedInv'
  <2>1. /\ fixedTask' = [fixedTask EXCEPT ![w] = "exited"]
        /\ UNCHANGED <<fixedIsShutdown, fixedQueue, fixedStatus, fixedSubmitting, closing>>
    BY <1>8 DEF Fixed!Exit
  <2>2. fixedTask'[w] = "exited" /\ \A v \in FixedWorker : v # w => fixedTask'[v] = fixedTask[v]
    BY <1>0, <2>1 DEF Fixed!TypeOK
  <2>3. PoppedInv'
    BY <1>0, <2>1, <2>2, FixedConstants DEF PoppedInv
  <2>. QED BY <1>0, <2>1, <2>3 DEF FixedInv, Fixed!TypeOK, QueueInv
<1>9. ASSUME NEW w \in FixedWorker, Fixed!Work(w) PROVE FixedInv'
  BY <1>6, <1>7, <1>8, <1>9 DEF Fixed!Work, Fixed!Return, Fixed!Catch
<1>. QED BY <1>1, <1>2, <1>3, <1>4, <1>5, <1>9 DEF Fixed!Next, Fixed!Calls

\* The invariant of the fixed pool holds in all its states.
LEMMA FixedAlways == Fixed!Init /\ [][Fixed!Next]_(Fixed!vars) => []FixedInv
BY FixedInit, FixedStep, PTL

\* Every step of the fixed pool is a step of the abstract pool or invisible in it.
LEMMA FixedSimulates == FixedInv /\ [Fixed!Next]_(Fixed!vars) => [Fixed!P!Next]_(Fixed!P!vars)
<1>. SUFFICES ASSUME FixedInv, [Fixed!Next]_(Fixed!vars) PROVE [Fixed!P!Next]_(Fixed!P!vars)
  OBVIOUS
<1>1. ASSUME UNCHANGED <<fixedStatus, fixedIsShutdown>> PROVE [Fixed!P!Next]_(Fixed!P!vars)
  BY <1>1 DEF Fixed!P!vars
<1>2. ASSUME NEW t \in Task, Fixed!RunCheck(t) PROVE Fixed!P!Next
  BY <1>2 DEF Fixed!RunCheck, Fixed!P!Next, Fixed!P!Run, Fixed!P!Become
<1>3. ASSUME NEW t \in Task, Fixed!RunAdd(t) PROVE [Fixed!P!Next]_(Fixed!P!vars)
  BY <1>1, <1>3 DEF Fixed!RunAdd
<1>4. ASSUME NEW k \in Closer, Fixed!ShutdownCheck(k) \/ Fixed!ShutdownAdd(k)
      PROVE  [Fixed!P!Next]_(Fixed!P!vars)
  BY <1>1, <1>4 DEF Fixed!ShutdownCheck, Fixed!ShutdownAdd
<1>5. ASSUME NEW k \in Closer, Fixed!ShutdownSet(k) PROVE Fixed!P!Next
  BY <1>5 DEF Fixed!ShutdownSet, Fixed!P!Next, Fixed!P!Shutdown
<1>6. ASSUME NEW w \in FixedWorker, Fixed!Pop(w) PROVE [Fixed!P!Next]_(Fixed!P!vars)
  <2>. DEFINE t == Head(fixedQueue)
  <2>1. /\ t \in Task => fixedStatus[t] = "accepted"
        /\ fixedStatus' = [u \in Task |-> IF u = t THEN "running" ELSE fixedStatus[u]]
        /\ UNCHANGED fixedIsShutdown /\ fixedStatus \in [Task -> Fixed!P!Status]
    BY <1>6, FixedHead DEF Fixed!Pop, FixedInv, Fixed!TypeOK
  <2>2. CASE t \in Task
    <3>1. fixedStatus' = [fixedStatus EXCEPT ![t] = "running"]
      BY <2>1
    <3>. QED BY <2>1, <2>2, <3>1 DEF Fixed!P!Next, Fixed!P!Start, Fixed!P!Become
  <2>3. CASE t \notin Task
    <3>1. fixedStatus' = fixedStatus
      BY <2>1, <2>3
    <3>. QED BY <1>1, <2>1, <3>1
  <2>. QED BY <2>2, <2>3
<1>7. ASSUME NEW w \in FixedWorker, Fixed!TaskEnds(w, "pop") PROVE Fixed!P!Next
  <2>1. fixedTask[w] \in Task /\ fixedStatus[fixedTask[w]] = "running"
    BY <1>7 DEF Fixed!TaskEnds, FixedInv, PoppedInv
  <2>. QED BY <1>7, <2>1 DEF Fixed!TaskEnds, Fixed!P!Next, Fixed!P!Finish, Fixed!P!Become
<1>8. ASSUME NEW w \in FixedWorker, Fixed!Exit(w) PROVE [Fixed!P!Next]_(Fixed!P!vars)
  BY <1>1, <1>8 DEF Fixed!Exit
<1>9. ASSUME NEW w \in FixedWorker, Fixed!Work(w) PROVE [Fixed!P!Next]_(Fixed!P!vars)
  BY <1>6, <1>7, <1>8, <1>9 DEF Fixed!Work, Fixed!Return, Fixed!Catch
<1>10. UNCHANGED Fixed!vars => [Fixed!P!Next]_(Fixed!P!vars)
  BY <1>1 DEF Fixed!vars
<1>. QED BY <1>2, <1>3, <1>4, <1>5, <1>9, <1>10 DEF Fixed!Next, Fixed!Calls

\* FixedThreadPool implements IThreadPool: the workers that share a Deque, the calls of
\* run and the shutdown tasks never make a task run twice, or one that was rejected.
THEOREM FixedRefines == Fixed!Spec => FixedImplementsThreadPool
<1>1. Fixed!Init => Fixed!P!Init
  BY DEF Fixed!Init, Fixed!P!Init
<1>. QED BY <1>1, FixedAlways, FixedSimulates, PTL
         DEF Fixed!Spec, FixedImplementsThreadPool, Fixed!ImplementsThreadPool, Fixed!P!Spec

\* The bookkeeping of the two pools, of which the program has one.
THEOREM PoolsBookkeeping == PoolsSpec => []PoolsConsistent
<1>1. PoolsInit => ElasticInv /\ FixedInv
  BY ElasticInit, FixedInit DEF PoolsInit
<1>2. ElasticInv /\ FixedInv /\ [PoolsNext]_<<kind, vars, fixedVars>> => (ElasticInv /\ FixedInv)'
  <2>1. [PoolsNext]_<<kind, vars, fixedVars>> => [Next]_vars /\ [Fixed!Next]_(Fixed!vars)
    BY DEF PoolsNext, Fixed!vars, fixedVars
  <2>. QED BY <2>1, ElasticStep, FixedStep
<1>3. ElasticInv /\ FixedInv => PoolsConsistent
  BY ElasticConsistent DEF FixedInv, PoolsConsistent
<1>. QED BY <1>1, <1>2, <1>3, PTL DEF PoolsSpec
=============================================================================
