------------------------------ MODULE LockSpec ------------------------------
(***************************************************************************)
(* What sys.thread.Lock promises (std/sys/thread/Lock.hx): a Lock keeps     *)
(* track of how often release has been called, and every release lets       *)
(* exactly one call of wait through, whichever of the two comes first.      *)
(***************************************************************************)
EXTENDS Integers

CONSTANTS
    Waiters,        \* threads that call wait
    MaxPermits      \* bound: releases nobody has waited for yet

VARIABLES
    permits,        \* releases not yet used by a wait
    call            \* per thread: the wait it is in, or what its last one returned

vars == <<permits, call>>

Waiting == {t \in Waiters : call[t] \in {"untimed", "timed"}}

Init == permits = 0 /\ call = [t \in Waiters |-> "none"]

Call(t, kind) == /\ t \notin Waiting
                 /\ call' = [call EXCEPT ![t] = kind]
                 /\ UNCHANGED permits

Release == /\ permits < MaxPermits
           /\ permits' = permits + 1
           /\ UNCHANGED call

Grant(t) == /\ t \in Waiting /\ permits > 0
            /\ permits' = permits - 1
            /\ call' = [call EXCEPT ![t] = "true"]

\* wait on a lock that is released already returns at once.
Pass(t) == /\ t \notin Waiting /\ permits > 0
           /\ permits' = permits - 1
           /\ call' = [call EXCEPT ![t] = "true"]

Expire(t) == /\ call[t] = "timed"
             /\ call' = [call EXCEPT ![t] = "false"]
             /\ UNCHANGED permits

Next == \/ Release
        \/ \E t \in Waiters :
              \/ \E kind \in {"untimed", "timed"} : Call(t, kind)
              \/ Grant(t) \/ Pass(t) \/ Expire(t)

Spec == Init /\ [][Next]_vars

\* A release and a waiting thread do not stay together for ever.
Delivers == []<>(permits = 0 \/ Waiting = {})
=============================================================================
