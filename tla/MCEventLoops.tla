----------------------------- MODULE MCEventLoops -----------------------------
(* The event loop of a thread and the main loop for TLC.  kind says which of  *)
(* the two is looked at; the other one stays as it was created.               *)
EXTENDS EventLoop

CONSTANTS r1, r2, r3, r4, r5, r6, r7, e1, e2, m1, m2, MainRegular, MainEvent, Blocking

VARIABLES kind,     \* "thread" or "main"
          pending, due, added, mainEvents, mainInterval, ready, eventLoopHandler,
          mainPc, mainBatch, visit, mainWait

mainVars == <<pending, due, added, mainEvents, mainInterval, ready, eventLoopHandler,
              mainPc, mainBatch, visit, mainWait>>

Main == INSTANCE MainLoop WITH
    Regular <- MainRegular, regularEvents <- mainEvents, interval <- mainInterval,
    pc <- mainPc, batch <- mainBatch, wait <- mainWait

EveryTick == [r \in Regular |-> 1]

ASSUME MainAssumption == Main!ConstantsFit

LoopsInit == Init /\ Main!Init /\ kind \in {"thread", "main"}

LoopsNext == /\ UNCHANGED kind
             /\ \/ kind = "thread" /\ Next /\ UNCHANGED mainVars
                \/ kind = "main" /\ Main!Next /\ UNCHANGED vars

\* As in each module, for the loop that is there.
LoopsFairness ==
    /\ WF_vars(kind = "thread" /\ Loop) /\ WF_vars(kind = "thread" /\ Tick)
    /\ WF_mainVars(kind = "main" /\ Main!Loop)
    /\ WF_mainVars(kind = "main" /\ Main!UserReturns)
    /\ WF_mainVars(kind = "main" /\ Main!TimePasses)

LoopsSpec == LoopsInit /\ [][LoopsNext]_<<kind, vars, mainVars>> /\ LoopsFairness

-----------------------------------------------------------------------------
\* What MainLoop says: its bookkeeping, the loop lives while an event needs it, and its
\* list of regular events is in order although it cancels handlers twice.
PendingIsScheduled == Main!TypeOK /\ Main!PendingIsScheduled /\ Main!HandlersStayLinked

PendingEventsRun == Main!PendingEventsRun

ExitsAfterOneAdd == kind = "main" => Main!ExitsAfterOneAdd
=============================================================================
