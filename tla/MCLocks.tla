------------------------------- MODULE MCLocks -------------------------------
(* The locks of two targets for TLC.  A program has one of them: impl says   *)
(* which, and the other one stays as it was created.                         *)
EXTENDS JavaLock

CONSTANTS t1, t2, t3, CsMaxPermits, MaxTickets

VARIABLES
    impl,           \* the target, "java" or "cs"
    waitCount, releaseCount, releaseEvent, csCall, myTicket, pc, overtaken

csVars == <<waitCount, releaseCount, releaseEvent, csCall, myTicket, pc, overtaken>>

Cs == INSTANCE CsLock WITH MaxPermits <- CsMaxPermits, call <- csCall

ASSUME CsAssumption == Cs!ConstantsFit

LocksInit == Init /\ Cs!Init /\ impl \in {"java", "cs"}

LocksNext == /\ UNCHANGED impl
             /\ \/ impl = "java" /\ Next /\ UNCHANGED csVars
                \/ impl = "cs" /\ Cs!Next /\ UNCHANGED vars

\* As in each module, for the one that is there.
LocksFairness ==
    \A t \in Waiters : /\ WF_vars(impl = "java" /\ WakeUp(t))
                       /\ WF_csVars(impl = "cs" /\ (Cs!WaitOne(t) \/ Cs!Check(t)))

LocksSpec == LocksInit /\ [][LocksNext]_<<impl, vars, csVars>> /\ LocksFairness

-----------------------------------------------------------------------------
\* What CsLock says of the implementation by tickets and an event.
CsImplementsLock == Cs!ImplementsLock

CsReleaseIsDelivered == Cs!ReleaseIsDelivered
=============================================================================
