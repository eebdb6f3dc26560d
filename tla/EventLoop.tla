------------------------------ MODULE EventLoop ------------------------------
(***************************************************************************)
(* sys.thread.EventLoop: the event loop of a thread.  Any thread, and the    *)
(* events themselves, add one-time and regular events, cancel regular ones   *)
(* and promise events to come; the thread runs loop, which ends when nothing *)
(* more is expected.  Every method but loop is one critical section.         *)
(***************************************************************************)
EXTENDS RegularEvents, Integers

CONSTANTS
    Event,          \* one-time events, each is posted once
    interval,       \* per regular event, in ticks
    CancelTwice,    \* TRUE: cancel may be called again for the same handler
    MaxPromised,    \* bound: promises not yet kept
    MaxTime         \* bound: ticks of Sys.time

ASSUME RegularAssumption == IsFiniteSet(Regular)
ASSUME IntervalAssumption == interval \in [Regular -> Nat]
ASSUME NoEventAssumption == NoEvent \notin Regular \cup Event
ASSUME BoundsAssumption == MaxPromised \in Nat /\ MaxTime \in Nat /\ CancelTwice \in BOOLEAN

VARIABLES
    time,
    regularEvents, nextRunTime,
    oneTimeEvents, oneTimeEventsIdx,    \* an array that is reused, and how much of it
    promisedEventsCount,
    waitLock,       \* releases of the lock
    pc,             \* where loop is
    now,            \* __progress: the time it was called with
    batch,          \* events to run, in this order
    nextEventAt,    \* a time, Never or Now
    anyTime,
    created, cancelled,     \* history: regular events
    posted, ran,            \* history: one-time events, in order
    owed,                   \* history: those posted before loop has looked for the last time
    late                    \* history: how many promises were made after that

apiVars  == <<regularEvents, nextRunTime, oneTimeEvents, oneTimeEventsIdx,
              promisedEventsCount, waitLock>>
loopVars == <<pc, now, batch, nextEventAt, anyTime>>
history  == <<created, cancelled, posted, ran, owed, late>>
vars == <<time, apiVars, loopVars, history>>

PC == {"job", "progress", "collect", "regular", "once", "decide", "wait", "sleep", "ended"}
Never == -1
Now == -2

\* The walk over oneTimeEvents stops at the first null.
Filled  == {i \in DOMAIN oneTimeEvents : \A j \in 1 .. i : oneTimeEvents[j] # NoEvent}
Pending == SubSeq(oneTimeEvents, 1, Cardinality(Filled))

TypeOK ==
    /\ time \in Nat /\ now \in Nat
    /\ regularEvents \in List(Regular) /\ nextRunTime \in [Regular -> Nat]
    /\ oneTimeEvents \in Seq(Event \cup {NoEvent})
    /\ oneTimeEventsIdx \in 0 .. Len(oneTimeEvents) /\ oneTimeEventsIdx = Cardinality(Filled)
    /\ promisedEventsCount \in Nat /\ waitLock \in Nat
    /\ pc \in PC /\ batch \in Seq(Regular \cup Event)
    /\ nextEventAt \in Nat \cup {Never, Now} /\ anyTime \in BOOLEAN
    /\ cancelled \subseteq created /\ created \subseteq Regular
    /\ posted \in Seq(Event) /\ ran \in Seq(Event) /\ owed \subseteq Event /\ late \in Nat

Init == /\ time = 0
        /\ regularEvents = EmptyList(Regular) /\ nextRunTime = [r \in Regular |-> 0]
        /\ oneTimeEvents = <<>> /\ oneTimeEventsIdx = 0
        /\ promisedEventsCount = 0 /\ waitLock = 0
        /\ pc = "job" /\ now = 0 /\ batch = <<>>
        /\ nextEventAt = Never /\ anyTime = FALSE
        /\ created = {} /\ cancelled = {} /\ posted = <<>> /\ ran = <<>> /\ owed = {}
        /\ late = 0

Tick == /\ time < MaxTime /\ time' = time + 1
        /\ UNCHANGED <<apiVars, loopVars, history>>

-----------------------------------------------------------------------------
(* Methods for any thread.                                                  *)

\* loop has found nothing to run, nothing to wait for and no promise: it does not look
\* again, only its thread has not noticed yet, or has ended.
Leaving == \/ pc = "once" /\ batch = <<>> /\ nextEventAt = Never /\ ~anyTime
           \/ pc = "ended"

Repeat(r) ==
    /\ r \notin created
    /\ regularEvents' = Prepend(regularEvents, r)
    /\ nextRunTime' = [nextRunTime EXCEPT ![r] = time + interval[r]]
    /\ waitLock' = waitLock + 1
    /\ created' = created \cup {r}
    /\ UNCHANGED <<time, oneTimeEvents, oneTimeEventsIdx, promisedEventsCount, loopVars,
                   cancelled, posted, ran, owed, late>>

Cancel(r) ==
    /\ r \in created /\ (CancelTwice \/ r \notin cancelled)
    /\ regularEvents' = Unlink(regularEvents, r)
    /\ cancelled' = cancelled \cup {r}
    /\ UNCHANGED <<time, nextRunTime, oneTimeEvents, oneTimeEventsIdx, promisedEventsCount,
                   waitLock, loopVars, created, posted, ran, owed, late>>

Promise ==
    /\ promisedEventsCount < MaxPromised
    /\ promisedEventsCount' = promisedEventsCount + 1
    /\ late' = IF Leaving THEN late + 1 ELSE late
    /\ UNCHANGED <<time, regularEvents, nextRunTime, oneTimeEvents, oneTimeEventsIdx,
                   waitLock, loopVars, created, cancelled, posted, ran, owed>>

\* Mutant: the array is taken to be as long as it is used.
Add_Append(e) ==
    /\ oneTimeEvents' = Append(oneTimeEvents, e)
    /\ oneTimeEventsIdx' = oneTimeEventsIdx + 1
    /\ posted' = Append(posted, e)
    /\ owed' = IF Leaving THEN owed ELSE owed \cup {e}

Add(e) ==
    /\ oneTimeEvents' = IF oneTimeEventsIdx < Len(oneTimeEvents)
                          THEN [oneTimeEvents EXCEPT ![oneTimeEventsIdx + 1] = e]
                          ELSE Append(oneTimeEvents, e)
    /\ oneTimeEventsIdx' = oneTimeEventsIdx + 1
    /\ posted' = Append(posted, e)
    /\ owed' = IF Leaving THEN owed ELSE owed \cup {e}

New(e) == \A i \in DOMAIN posted : posted[i] # e

\* Mutant: the loop is not woken.
Run_NoRelease(e) ==
    /\ New(e) /\ Add(e)
    /\ UNCHANGED <<time, regularEvents, nextRunTime, promisedEventsCount, waitLock, loopVars,
                   created, cancelled, ran, late>>

Run(e) ==
    /\ New(e) /\ Add(e)
    /\ waitLock' = waitLock + 1
    /\ UNCHANGED <<time, regularEvents, nextRunTime, promisedEventsCount, loopVars,
                   created, cancelled, ran, late>>

RunPromised(e) ==
    /\ New(e) /\ promisedEventsCount > 0
    /\ Add(e)
    /\ promisedEventsCount' = promisedEventsCount - 1
    /\ waitLock' = waitLock + 1
    /\ UNCHANGED <<time, regularEvents, nextRunTime, loopVars, created, cancelled, ran, late>>

-----------------------------------------------------------------------------
(* loop and __progress, in the thread of the loop.                          *)

\* The thread's job is done, or loop comes round: Sys.time().
Progress ==
    /\ pc \in {"job", "progress"}
    /\ now' = time
    /\ pc' = "collect"
    /\ UNCHANGED <<time, apiVars, batch, nextEventAt, anyTime, history>>

Due(r) == nextRunTime[r] <= now

\* The mutex is held for the walk.
CollectRegular ==
    LET Listed == Members(regularEvents)
        Later  == {nextRunTime[r] : r \in {s \in Listed : ~Due(s)}} IN
    /\ pc = "collect" /\ Ends(regularEvents)
    /\ waitLock' = 0
    /\ batch' = Kept(Chain(regularEvents), {r \in Regular : Due(r)})
    /\ nextRunTime' = [r \in Regular |-> IF r \in Listed /\ Due(r)
                                           THEN nextRunTime[r] + interval[r] ELSE nextRunTime[r]]
    /\ nextEventAt' = IF \E r \in Listed : Due(r) THEN Now
                      ELSE IF Later = {} THEN Never
                      ELSE CHOOSE t \in Later : \A u \in Later : t <= u
    /\ pc' = "regular"
    /\ UNCHANGED <<time, regularEvents, oneTimeEvents, oneTimeEventsIdx, promisedEventsCount,
                   now, anyTime, history>>

\* A regular event of the batch returns.
RunRegular ==
    /\ pc = "regular" /\ batch # <<>>
    /\ batch' = Tail(batch)
    /\ UNCHANGED <<time, apiVars, pc, now, nextEventAt, anyTime, history>>

Nulled  == [i \in DOMAIN oneTimeEvents |-> IF i \in Filled THEN NoEvent ELSE oneTimeEvents[i]]

\* Mutant: loop does not look again after one-time events.
CollectOnce_NoAgain ==
    /\ pc = "regular" /\ batch = <<>>
    /\ batch' = Pending
    /\ oneTimeEvents' = Nulled
    /\ oneTimeEventsIdx' = 0
    /\ anyTime' = (promisedEventsCount > 0)
    /\ pc' = "once"
    /\ UNCHANGED <<time, regularEvents, nextRunTime, promisedEventsCount, waitLock, now,
                   nextEventAt, history>>

\* Mutant: eventsToRunIdx is not advanced, the last event takes the place of all.
CollectOnce_Last ==
    /\ pc = "regular" /\ batch = <<>>
    /\ batch' = IF Pending = <<>> THEN <<>> ELSE <<Pending[Len(Pending)]>>
    /\ oneTimeEvents' = Nulled
    /\ oneTimeEventsIdx' = 0
    /\ anyTime' = (promisedEventsCount > 0)
    /\ nextEventAt' = IF batch' # <<>> THEN Now ELSE nextEventAt
    /\ pc' = "once"
    /\ UNCHANGED <<time, regularEvents, nextRunTime, promisedEventsCount, waitLock, now,
                   history>>

\* Pending one-time events and the promises, under the mutex.
CollectOnce ==
    /\ pc = "regular" /\ batch = <<>>
    /\ batch' = Pending
    /\ oneTimeEvents' = Nulled
    /\ oneTimeEventsIdx' = 0
    /\ anyTime' = (promisedEventsCount > 0)
    /\ nextEventAt' = IF batch' # <<>> THEN Now ELSE nextEventAt
    /\ pc' = "once"
    /\ UNCHANGED <<time, regularEvents, nextRunTime, promisedEventsCount, waitLock, now,
                   history>>

RunOnce ==
    /\ pc = "once" /\ batch # <<>>
    /\ ran' = Append(ran, Head(batch))
    /\ batch' = Tail(batch)
    /\ UNCHANGED <<time, apiVars, pc, now, nextEventAt, anyTime, created, cancelled,
                   posted, owed, late>>

\* Mutant: the time of the next regular event is no timeout for the wait.
Decide_NoTimeout ==
    /\ pc = "once" /\ batch = <<>>
    /\ pc' = IF nextEventAt = Now THEN "progress"
             ELSE IF nextEventAt # Never \/ anyTime THEN "wait" ELSE "ended"
    /\ UNCHANGED <<time, apiVars, now, batch, nextEventAt, anyTime, history>>

\* What loop does with the answer of __progress.
Decide ==
    /\ pc = "once" /\ batch = <<>>
    /\ pc' = IF nextEventAt = Now THEN "progress"
             ELSE IF nextEventAt # Never THEN "sleep"
             ELSE IF anyTime THEN "wait" ELSE "ended"
    /\ UNCHANGED <<time, apiVars, now, batch, nextEventAt, anyTime, history>>

\* waitLock.wait, without or with a timeout.
Wait ==
    /\ pc \in {"wait", "sleep"} /\ waitLock > 0
    /\ waitLock' = waitLock - 1
    /\ pc' = "progress"
    /\ UNCHANGED <<time, regularEvents, nextRunTime, oneTimeEvents, oneTimeEventsIdx,
                   promisedEventsCount, now, batch, nextEventAt, anyTime, history>>

TimeOut ==
    /\ pc = "sleep" /\ waitLock = 0 /\ time >= nextEventAt
    /\ pc' = "progress"
    /\ UNCHANGED <<time, apiVars, now, batch, nextEventAt, anyTime, history>>

Loop == \/ Progress \/ CollectRegular \/ RunRegular \/ CollectOnce \/ RunOnce
        \/ Decide \/ Wait \/ TimeOut

Others == \/ \E r \in Regular : Repeat(r) \/ Cancel(r)
          \/ \E e \in Event : Run(e) \/ RunPromised(e)
          \/ Promise

Next == Loop \/ Others \/ Tick

\* The loop's thread runs, events return, and time goes by.  Whoever promised an
\* event is not obliged to deliver it.
Fairness == WF_vars(Loop) /\ WF_vars(Tick)

Spec == Init /\ [][Next]_vars /\ Fairness

-----------------------------------------------------------------------------
(* Properties.                                                              *)

\* The list holds exactly the events that are not cancelled, and its links fit.
\* A second cancel of the same handler, by links that are out of date, can break this.
ListIsScheduled ==
    ~CancelTwice =>
    /\ Ends(regularEvents)
    /\ Members(regularEvents) = created \ cancelled
    /\ BackLinksFit(regularEvents)

\* One-time events run in the order they were posted, none twice, none skipped.
InOrder == posted = ran \o (IF pc = "once" THEN batch ELSE <<>>) \o Pending

\* The loop's lists and lock are in order, whoever adds and cancels at the same time.
Consistent == TypeOK /\ ListIsScheduled /\ InOrder

\* loop ends under no promise and with no event in the queue, but for what came after it
\* had looked for the last time.
EndsWhenDone ==
    pc = "ended" => /\ promisedEventsCount <= late
                    /\ owed \subseteq {ran[i] : i \in DOMAIN ran}

\* One-time events posted before loop has looked for the last time run.
OwedEventsRun == \A e \in Event : e \in owed ~> \E i \in DOMAIN ran : ran[i] = e

\* A regular event is run again and again until it is cancelled.
RegularEventsRun ==
    \A r \in Regular : \A t \in 0 .. MaxTime :
        (r \in created /\ nextRunTime[r] = t) ~> (nextRunTime[r] # t \/ r \in cancelled
                                                   \/ pc = "ended")
=============================================================================
