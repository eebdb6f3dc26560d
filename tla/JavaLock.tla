------------------------------ MODULE JavaLock ------------------------------
(***************************************************************************)
(* sys.thread.Lock of the java target (std/java/_std/sys/thread/Lock.hx): a *)
(* counter guarded by the object's monitor.  A wait takes one off before it *)
(* blocks, so the counter is negative while threads wait.                   *)
(***************************************************************************)
EXTENDS Integers, FiniteSets

CONSTANTS
    Waiters,        \* threads that call wait
    MaxPermits      \* bound: releases nobody has waited for yet

ASSUME WaitersAssumption == IsFiniteSet(Waiters)
ASSUME MaxPermitsAssumption == MaxPermits \in Nat

VARIABLES
    releasedCount,
    call,           \* per thread: the wait it is in, or what its last one returned
    blocked         \* threads in Object.wait; the other callers are waking up

vars == <<releasedCount, call, blocked>>

Result == {"true", "false"}
InCall == {t \in Waiters : call[t] \in {"untimed", "timed"}}

TypeOK == /\ releasedCount \in Int
          /\ call \in [Waiters -> {"none", "untimed", "timed"} \cup Result]
          /\ blocked \subseteq InCall

Init == /\ releasedCount = 0
        /\ call = [t \in Waiters |-> "none"]
        /\ blocked = {}

\* Mutant: a call that timed out keeps its place.
Return_KeepsPlace(t, count) ==
    /\ call' = [call EXCEPT ![t] = IF count >= 0 THEN "true" ELSE "false"]
    /\ releasedCount' = count

\* Returning from wait: a call that timed out gives its place back.
Return(t, count) ==
    /\ call' = [call EXCEPT ![t] = IF count >= 0 THEN "true" ELSE "false"]
    /\ releasedCount' = IF count >= 0 THEN count ELSE count + 1

\* wait up to its first Object.wait, which gives up the monitor.
Wait(t, kind) ==
    /\ t \notin InCall
    /\ IF releasedCount - 1 < 0
         THEN /\ releasedCount' = releasedCount - 1
              /\ call' = [call EXCEPT ![t] = kind]
              /\ blocked' = blocked \cup {t}
         ELSE /\ Return(t, releasedCount - 1)
              /\ UNCHANGED blocked

\* A notified thread has the monitor again and looks at the counter.
WakeUp(t) ==
    /\ t \in InCall \ blocked
    /\ IF releasedCount < 0
         THEN blocked' = blocked \cup {t} /\ UNCHANGED <<releasedCount, call>>
         ELSE Return(t, releasedCount) /\ UNCHANGED blocked

\* Mutant: the thread that timed out is still taken to be blocked.
TimeOut_StaysBlocked(t) ==
    /\ call[t] = "timed"
    /\ Return(t, releasedCount)
    /\ UNCHANGED blocked

\* The time of a timed wait is up, whether or not it was notified as well.
TimeOut(t) ==
    /\ call[t] = "timed"
    /\ Return(t, releasedCount)
    /\ blocked' = blocked \ {t}

\* notify wakes one of the blocked threads, any of them.
Notify == IF blocked = {} THEN UNCHANGED blocked
          ELSE \E t \in blocked : blocked' = blocked \ {t}

\* Mutant: no notification when the counter only comes back to zero.
Release_Above ==
    /\ releasedCount + Cardinality(InCall) < MaxPermits
    /\ releasedCount' = releasedCount + 1
    /\ IF releasedCount + 1 > 0 THEN Notify ELSE UNCHANGED blocked
    /\ UNCHANGED call

Release ==
    /\ releasedCount + Cardinality(InCall) < MaxPermits
    /\ releasedCount' = releasedCount + 1
    /\ IF releasedCount + 1 >= 0 THEN Notify ELSE UNCHANGED blocked
    /\ UNCHANGED call

Next == \/ Release
        \/ \E t \in Waiters : \/ \E kind \in {"untimed", "timed"} : Wait(t, kind)
                              \/ WakeUp(t) \/ TimeOut(t)

\* A notified thread gets the monitor in the end; a timed wait may be as long as
\* the caller likes, and nobody has to call wait or release.
Fairness == \A t \in Waiters : WF_vars(WakeUp(t))

Spec == Init /\ [][Next]_vars /\ Fairness

-----------------------------------------------------------------------------
(* Properties.                                                              *)

L == INSTANCE LockSpec WITH permits <- releasedCount + Cardinality(InCall)

\* One thread waits at a time, as for an EventLoop or a pool's worker.
Alone == Cardinality(InCall) <= 1

\* Waits return true only against a release of their own, and time-outs give
\* nothing away and use nothing up, although counting happens before blocking.
ImplementsLock == L!Spec

\* As long as threads do not wait at the same time, no release stays unused while
\* one waits, however releases, time-outs and notifications overlap.
ReleaseIsDelivered == []Alone => L!Delivers
=============================================================================
