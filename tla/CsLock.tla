------------------------------- MODULE CsLock -------------------------------
(***************************************************************************)
(* sys.thread.Lock of the cs target (std/cs/_std/sys/thread/Lock.hx): each  *)
(* wait draws a ticket, release counts up the tickets that are let through, *)
(* and a ManualResetEvent wakes the threads so that they compare.           *)
(***************************************************************************)
EXTENDS Integers, FiniteSets

CONSTANTS
    Waiters,        \* threads that call wait
    MaxPermits,     \* bound: releases nobody has waited for yet
    MaxTickets      \* bound: calls of wait

\* Assumed by the modules that make a lock.
ConstantsFit == IsFiniteSet(Waiters) /\ MaxPermits \in Nat /\ MaxTickets \in Nat

VARIABLES
    waitCount, releaseCount,
    releaseEvent,   \* the event is set
    call,           \* per thread: the wait it is in, or what its last one returned
    myTicket,
    pc,             \* "loop", "blocked" in WaitOne or "check"; "out" of wait
    overtaken       \* history: a ticket was given back behind one still waiting

vars == <<waitCount, releaseCount, releaseEvent, call, myTicket, pc, overtaken>>

InCall == {t \in Waiters : pc[t] # "out"}

TypeOK == /\ waitCount \in Nat /\ releaseCount \in Nat
          /\ releaseEvent \in BOOLEAN
          /\ call \in [Waiters -> {"none", "untimed", "timed", "true", "false"}]
          /\ myTicket \in [Waiters -> Nat]
          /\ pc \in [Waiters -> {"out", "loop", "blocked", "check"}]
          /\ overtaken \in BOOLEAN
          /\ \A t \in Waiters : pc[t] = "out" <=> call[t] \notin {"untimed", "timed"}

\* Tickets that have come back, all of them paid for by a release.
Used == waitCount - 1 - Cardinality(InCall)

Init == /\ waitCount = 1 /\ releaseCount = 0
        /\ releaseEvent = FALSE
        /\ call = [t \in Waiters |-> "none"]
        /\ myTicket = [t \in Waiters |-> 0]
        /\ pc = [t \in Waiters |-> "out"]
        /\ overtaken = FALSE

\* The ticket is drawn, and the event reset, under lockObj.
Wait(t, kind) ==
    /\ pc[t] = "out" /\ waitCount <= MaxTickets
    /\ myTicket' = [myTicket EXCEPT ![t] = waitCount]
    /\ waitCount' = waitCount + 1
    /\ IF waitCount <= releaseCount
         THEN /\ call' = [call EXCEPT ![t] = "true"]
              /\ UNCHANGED <<releaseEvent, pc>>
         ELSE /\ releaseEvent' = FALSE
              /\ call' = [call EXCEPT ![t] = kind]
              /\ pc' = [pc EXCEPT ![t] = "loop"]
    /\ UNCHANGED <<releaseCount, overtaken>>

WaitOne(t) ==
    /\ pc[t] = "loop"
    /\ pc' = [pc EXCEPT ![t] = IF releaseEvent THEN "check" ELSE "blocked"]
    /\ UNCHANGED <<waitCount, releaseCount, releaseEvent, call, myTicket, overtaken>>

Check(t) ==
    /\ pc[t] = "check"
    /\ IF myTicket[t] <= releaseCount
         THEN pc' = [pc EXCEPT ![t] = "out"] /\ call' = [call EXCEPT ![t] = "true"]
         ELSE pc' = [pc EXCEPT ![t] = "loop"] /\ UNCHANGED call
    /\ UNCHANGED <<waitCount, releaseCount, releaseEvent, myTicket, overtaken>>

\* Set lets go of every thread that is blocked in WaitOne.
Set(pcs) == /\ releaseEvent' = TRUE
            /\ pc' = [t \in Waiters |-> IF pcs[t] = "blocked" THEN "check" ELSE pcs[t]]

\* Mutant: the place in the queue stays taken.
TimeOut_KeepsTicket(t) ==
    /\ call[t] = "timed" /\ pc[t] \in {"loop", "blocked"}
    /\ call' = [call EXCEPT ![t] = "false"]
    /\ pc' = [pc EXCEPT ![t] = "out"]
    /\ UNCHANGED <<waitCount, releaseCount, releaseEvent, myTicket, overtaken>>

\* No time left, or WaitOne has timed out: release gives the ticket back.
TimeOut(t) ==
    /\ call[t] = "timed" /\ pc[t] \in {"loop", "blocked"}
    /\ call' = [call EXCEPT ![t] = "false"]
    /\ releaseCount' = releaseCount + 1
    /\ Set([pc EXCEPT ![t] = "out"])
    /\ overtaken' = (overtaken \/ \E u \in InCall : releaseCount < myTicket[u]
                                                    /\ myTicket[u] < myTicket[t])
    /\ UNCHANGED <<waitCount, myTicket>>

\* Mutant: nobody is woken.
Release_NoSet ==
    /\ releaseCount - Used < MaxPermits
    /\ releaseCount' = releaseCount + 1
    /\ UNCHANGED <<waitCount, releaseEvent, call, myTicket, pc, overtaken>>

Release ==
    /\ releaseCount - Used < MaxPermits
    /\ releaseCount' = releaseCount + 1
    /\ Set(pc)
    /\ UNCHANGED <<waitCount, call, myTicket, overtaken>>

Next == \/ Release
        \/ \E t \in Waiters : \/ \E kind \in {"untimed", "timed"} : Wait(t, kind)
                              \/ WaitOne(t) \/ Check(t) \/ TimeOut(t)

\* A thread that is not blocked runs.
Fairness == \A t \in Waiters : WF_vars(WaitOne(t) \/ Check(t))

Spec == Init /\ [][Next]_vars /\ Fairness

-----------------------------------------------------------------------------
(* Properties.                                                              *)

L == INSTANCE LockSpec WITH permits <- releaseCount - Used

\* Waits return true only against a release of their own, and time-outs give
\* nothing away and use nothing up, as long as no thread gives up its place while
\* one in front of it still waits.
ImplementsLock == L!Init /\ [][~overtaken' => L!Next]_(L!vars)

\* One thread waits at a time, as for an EventLoop or a pool's worker.
Alone == Cardinality(InCall) <= 1

\* As long as threads do not wait at the same time, no release stays unused while
\* one waits.
ReleaseIsDelivered == []Alone => L!Delivers
=============================================================================
