----------------------------- MODULE LockProofs -----------------------------
(***************************************************************************)
(* The locks of the java and of the cs target keep the promise of            *)
(* sys.thread.Lock, for any finite number of threads and any number of       *)
(* releases and waits.  The variables of the lock of cs are those MCLocks    *)
(* gives it, and Cs!A is what CsLock calls A.                                *)
(***************************************************************************)
EXTENDS MCLocks, FiniteSetTheorems, TLAPS

-----------------------------------------------------------------------------
(* The lock of the java target.                                             *)

Kind == {"untimed", "timed"}

\* A new lock is well typed.
LEMMA InitType == Init => TypeOK
BY DEF Init, TypeOK, InCall

\* The number of threads in wait, before and after a call begins or ends.
LEMMA Callers ==
    /\ InCall \subseteq Waiters
    /\ IsFiniteSet(InCall) /\ Cardinality(InCall) \in Nat
    /\ \A t \in InCall : /\ Cardinality(InCall) >= 1
                         /\ Cardinality(InCall \ {t}) = Cardinality(InCall) - 1
    /\ \A t \in Waiters \ InCall :
          Cardinality(InCall \cup {t}) = Cardinality(InCall) + 1
<1>1. InCall \subseteq Waiters
  BY DEF InCall
<1>2. IsFiniteSet(InCall) /\ Cardinality(InCall) \in Nat
  BY <1>1, WaitersAssumption, FS_Subset, FS_CardinalityType
<1>3. ASSUME NEW t \in InCall
      PROVE  /\ Cardinality(InCall) >= 1
             /\ Cardinality(InCall \ {t}) = Cardinality(InCall) - 1
  <2>1. IsFiniteSet(InCall \ {t}) /\ Cardinality(InCall \ {t}) = Cardinality(InCall) - 1
    BY <1>2, FS_RemoveElement
  <2>2. Cardinality(InCall \ {t}) \in Nat
    BY <2>1, FS_CardinalityType
  <2>. QED
    BY <1>2, <2>1, <2>2
<1>4. ASSUME NEW t \in Waiters \ InCall
      PROVE  Cardinality(InCall \cup {t}) = Cardinality(InCall) + 1
  BY <1>2, FS_AddElement
<1>. QED
  BY <1>1, <1>2, <1>3, <1>4

\* A thread leaves wait with a result, or enters it.
LEMMA CallerLeaves ==
    ASSUME TypeOK, NEW t \in Waiters, NEW r \in Result, call' = [call EXCEPT ![t] = r]
    PROVE  InCall' = InCall \ {t}
BY DEF TypeOK, InCall, Result

\* A thread that blocks in wait is one more in a call.
LEMMA CallerEnters ==
    ASSUME TypeOK, NEW t \in Waiters, NEW k \in Kind, call' = [call EXCEPT ![t] = k]
    PROVE  InCall' = InCall \cup {t}
BY DEF TypeOK, InCall, Kind

\* Return is all or nothing: with a count that is not negative the call takes one
\* release, otherwise it leaves their number alone.
LEMMA ReturnTakesOne ==
    ASSUME TypeOK, NEW t \in Waiters, NEW count \in Int, Return(t, count)
    PROVE  /\ InCall' = InCall \ {t}
           /\ releasedCount' \in Int
           /\ call' \in [Waiters -> {"none", "untimed", "timed"} \cup Result]
           /\ \/ count >= 0 /\ call' = [call EXCEPT ![t] = "true"] /\ releasedCount' = count
              \/ count < 0 /\ call' = [call EXCEPT ![t] = "false"] /\ releasedCount' = count + 1
<1>1. PICK r \in Result : call' = [call EXCEPT ![t] = r]
  BY DEF Return, Result
<1>2. InCall' = InCall \ {t}
  BY <1>1, CallerLeaves
<1>3. count >= 0 \/ count < 0
  OBVIOUS
<1>4. CASE count >= 0
  BY <1>1, <1>2, <1>4 DEF Return, TypeOK, Result
<1>5. CASE count < 0
  <2>1. ~(count >= 0) /\ count + 1 \in Int
    BY <1>5
  <2>2. call' = [call EXCEPT ![t] = "false"] /\ releasedCount' = count + 1
    BY <2>1 DEF Return
  <2>3. call' \in [Waiters -> {"none", "untimed", "timed"} \cup Result]
    BY <2>2 DEF TypeOK, Result
  <2>. QED
    BY <1>2, <1>5, <2>1, <2>2, <2>3
<1>. QED
  BY <1>3, <1>4, <1>5

-----------------------------------------------------------------------------
\* Every call, timeout and release keeps the types.
LEMMA NextType == TypeOK /\ [Next]_vars => TypeOK'
<1>. SUFFICES ASSUME TypeOK, [Next]_vars PROVE TypeOK'
  OBVIOUS
<1>1. CASE Release
  <2>1. UNCHANGED call /\ InCall' = InCall
    BY <1>1 DEF Release, InCall
  <2>2. blocked' \subseteq blocked
    BY <1>1 DEF Release, Notify
  <2>. QED
    BY <1>1, <2>1, <2>2 DEF Release, TypeOK
<1>2. ASSUME NEW t \in Waiters, NEW kind \in Kind, Wait(t, kind) PROVE TypeOK'
  <2>1. CASE releasedCount - 1 < 0
    <3>1. call' = [call EXCEPT ![t] = kind] /\ blocked' = blocked \cup {t}
          /\ releasedCount' = releasedCount - 1
      BY <1>2, <2>1 DEF Wait
    <3>2. InCall' = InCall \cup {t}
      BY <3>1, CallerEnters
    <3>. QED
      BY <3>1, <3>2 DEF TypeOK, Kind
  <2>2. CASE ~(releasedCount - 1 < 0)
    <3>1. t \notin InCall /\ Return(t, releasedCount - 1) /\ UNCHANGED blocked
      BY <1>2, <2>2 DEF Wait
    <3>2. releasedCount - 1 \in Int
      BY DEF TypeOK
    <3>. QED
      BY <3>1, <3>2, ReturnTakesOne DEF TypeOK
  <2>. QED
    BY <2>1, <2>2
<1>3. ASSUME NEW t \in Waiters, WakeUp(t) PROVE TypeOK'
  <2>1. CASE releasedCount < 0
    BY <1>3, <2>1 DEF WakeUp, TypeOK, InCall
  <2>2. CASE ~(releasedCount < 0)
    BY <1>3, <2>2, ReturnTakesOne DEF WakeUp, TypeOK
  <2>. QED
    BY <2>1, <2>2
<1>4. ASSUME NEW t \in Waiters, TimeOut(t) PROVE TypeOK'
  BY <1>4, ReturnTakesOne DEF TimeOut, TypeOK
<1>5. CASE UNCHANGED vars
  BY <1>5 DEF vars, TypeOK, InCall
<1>. QED
  BY <1>1, <1>2, <1>3, <1>4, <1>5 DEF Next, Kind

\* wait and release keep the types: in particular every thread that is blocked in
\* Object.wait is in a call of wait that has not returned.
THEOREM LockTyping == Spec => []TypeOK
BY InitType, NextType, PTL DEF Spec

-----------------------------------------------------------------------------
(* Refinement.                                                              *)

Permits == releasedCount + Cardinality(InCall)

\* A new lock is a new semaphore.
LEMMA InitImplements == Init => L!Init
<1>. SUFFICES ASSUME Init PROVE L!Init
  OBVIOUS
<1>1. InCall = {}
  BY DEF Init, InCall
<1>2. Cardinality({}) = 0
  BY FS_EmptySet
<1>. QED
  BY <1>1, <1>2 DEF Init, L!Init

\* Ending a wait without a release uses none up; ending it with one uses up one.
LEMMA ReturnImplements ==
    ASSUME TypeOK, NEW t \in InCall, Return(t, releasedCount),
           releasedCount >= 0 \/ call[t] = "timed"
    PROVE  L!Grant(t) \/ L!Expire(t)
<1>1. t \in Waiters /\ t \in L!Waiting
  BY Callers DEF InCall, L!Waiting
<1>2. /\ Cardinality(InCall) \in Nat /\ Cardinality(InCall) >= 1
      /\ Cardinality(InCall \ {t}) = Cardinality(InCall) - 1
  BY Callers
<1>3. releasedCount \in Int
  BY DEF TypeOK
<1>4. /\ InCall' = InCall \ {t}
      /\ \/ releasedCount >= 0 /\ call' = [call EXCEPT ![t] = "true"]
                               /\ releasedCount' = releasedCount
         \/ releasedCount < 0 /\ call' = [call EXCEPT ![t] = "false"]
                              /\ releasedCount' = releasedCount + 1
  BY <1>1, <1>3, ReturnTakesOne
<1>5. CASE releasedCount >= 0
  <2>1. Permits > 0 /\ Permits' = Permits - 1
    BY <1>2, <1>3, <1>4, <1>5 DEF Permits
  <2>. QED
    BY <1>1, <1>4, <1>5, <1>3, <2>1 DEF L!Grant, Permits
<1>6. CASE releasedCount < 0
  <2>1. Permits' = Permits
    BY <1>2, <1>3, <1>4, <1>6 DEF Permits
  <2>. QED
    BY <1>4, <1>6, <1>3, <2>1 DEF L!Expire, Permits
<1>. QED
  BY <1>3, <1>5, <1>6

\* wait takes a permit at once or begins to block, as the semaphore's callers do.
LEMMA WaitImplements ==
    ASSUME TypeOK, NEW t \in Waiters, NEW kind \in Kind, Wait(t, kind)
    PROVE  L!Call(t, kind) \/ L!Pass(t)
<1>1. t \notin InCall /\ t \notin L!Waiting
  BY DEF Wait, InCall, L!Waiting
<1>2. Cardinality(InCall) \in Nat /\ Cardinality(InCall \cup {t}) = Cardinality(InCall) + 1
  BY <1>1, Callers
<1>3. releasedCount \in Int /\ releasedCount - 1 \in Int
  BY DEF TypeOK
<1>4. CASE releasedCount - 1 < 0
  <2>1. call' = [call EXCEPT ![t] = kind] /\ releasedCount' = releasedCount - 1
    BY <1>4 DEF Wait
  <2>2. InCall' = InCall \cup {t}
    BY <2>1, CallerEnters
  <2>3. Permits' = Permits
    BY <1>2, <1>3, <2>1, <2>2 DEF Permits
  <2>. QED
    BY <1>1, <2>1, <2>3 DEF L!Call, Permits
<1>5. CASE ~(releasedCount - 1 < 0)
  <2>1. Return(t, releasedCount - 1)
    BY <1>5 DEF Wait
  <2>2. /\ InCall' = InCall \ {t} /\ call' = [call EXCEPT ![t] = "true"]
        /\ releasedCount' = releasedCount - 1
    BY <1>3, <1>5, <2>1, ReturnTakesOne
  <2>3. InCall' = InCall
    BY <1>1, <2>2
  <2>4. Permits > 0 /\ Permits' = Permits - 1
    <3>1. releasedCount >= 1 /\ releasedCount' = releasedCount - 1
      BY <1>3, <1>5, <2>2
    <3>. QED
      BY <1>2, <1>3, <2>3, <3>1 DEF Permits
  <2>. QED
    BY <1>1, <2>2, <2>4 DEF L!Pass, Permits
<1>. QED
  BY <1>4, <1>5

\* Every step of the lock is a step of the semaphore or invisible in it.
LEMMA NextImplements == TypeOK /\ [Next]_vars => [L!Next]_(L!vars)
<1>. SUFFICES ASSUME TypeOK, [Next]_vars PROVE [L!Next]_(L!vars)
  OBVIOUS
<1>1. CASE Release
  <2>1. UNCHANGED call /\ InCall' = InCall /\ releasedCount' = releasedCount + 1
    BY <1>1 DEF Release, InCall
  <2>2. Permits' = Permits + 1 /\ Permits < MaxPermits
    BY <1>1, <2>1, Callers DEF Permits, Release, TypeOK
  <2>. QED
    BY <2>1, <2>2 DEF L!Next, L!Release, Permits
<1>2. ASSUME NEW t \in Waiters, NEW kind \in Kind, Wait(t, kind) PROVE L!Next
  BY <1>2, WaitImplements DEF L!Next, Kind
<1>3. ASSUME NEW t \in Waiters, WakeUp(t) PROVE [L!Next]_(L!vars)
  <2>1. CASE releasedCount < 0
    BY <1>3, <2>1 DEF WakeUp, L!vars, InCall
  <2>2. CASE ~(releasedCount < 0)
    <3>1. t \in InCall /\ Return(t, releasedCount) /\ releasedCount >= 0
      BY <1>3, <2>2 DEF WakeUp, TypeOK
    <3>. QED
      BY <3>1, ReturnImplements DEF L!Next
  <2>. QED
    BY <2>1, <2>2
<1>4. ASSUME NEW t \in Waiters, TimeOut(t) PROVE L!Next
  <2>1. t \in InCall /\ call[t] = "timed" /\ Return(t, releasedCount)
    BY <1>4 DEF TimeOut, InCall
  <2>. QED
    BY <2>1, ReturnImplements DEF L!Next
<1>5. CASE UNCHANGED vars
  BY <1>5 DEF vars, L!vars, InCall
<1>. QED
  BY <1>1, <1>2, <1>3, <1>4, <1>5 DEF Next, Kind

\* Whatever threads wait, time out, are notified and release: each wait that returns
\* true has used up one release, each that returns false none, and none else is used.
THEOREM LockIsImplemented == Spec => ImplementsLock
<1>1. Spec => []TypeOK
  BY LockTyping
<1>2. Init => L!Init
  BY InitImplements
<1>3. TypeOK /\ [Next]_vars => [L!Next]_(L!vars)
  BY NextImplements
<1>. QED
  BY <1>1, <1>2, <1>3, PTL DEF Spec, L!Spec, ImplementsLock

-----------------------------------------------------------------------------
(* The lock of the cs target.                                               *)

\* The library's notions are those of the module that CsLock is an instance in.
LEMMA CsFinite == \A S : (Cs!IsFiniteSet(S) <=> IsFiniteSet(S)) /\ Cs!Cardinality(S) = Cardinality(S)
BY DEF Cs!IsFiniteSet, IsFiniteSet, Cs!Cardinality, Cardinality

\* The number of threads in wait, before and after a call begins or ends.
LEMMA CsCallers ==
    /\ Cs!InCall \subseteq Waiters
    /\ IsFiniteSet(Cs!InCall) /\ Cs!Cardinality(Cs!InCall) \in Nat
    /\ \A t \in Cs!InCall : /\ Cs!Cardinality(Cs!InCall) >= 1
                            /\ Cs!Cardinality(Cs!InCall \ {t}) = Cs!Cardinality(Cs!InCall) - 1
    /\ \A t \in Waiters \ Cs!InCall :
          Cs!Cardinality(Cs!InCall \cup {t}) = Cs!Cardinality(Cs!InCall) + 1
<1>1. Cs!InCall \subseteq Waiters
  BY DEF Cs!InCall
<1>2. IsFiniteSet(Cs!InCall) /\ Cardinality(Cs!InCall) \in Nat
  BY <1>1, WaitersAssumption, FS_Subset, FS_CardinalityType
<1>3. ASSUME NEW t \in Cs!InCall
      PROVE  /\ Cardinality(Cs!InCall) >= 1
             /\ Cardinality(Cs!InCall \ {t}) = Cardinality(Cs!InCall) - 1
  <2>1. IsFiniteSet(Cs!InCall \ {t})
        /\ Cardinality(Cs!InCall \ {t}) = Cardinality(Cs!InCall) - 1
    BY <1>2, FS_RemoveElement
  <2>2. Cardinality(Cs!InCall \ {t}) \in Nat
    BY <2>1, FS_CardinalityType
  <2>. QED
    BY <1>2, <2>1, <2>2
<1>4. ASSUME NEW t \in Waiters \ Cs!InCall
      PROVE  Cardinality(Cs!InCall \cup {t}) = Cardinality(Cs!InCall) + 1
  BY <1>2, FS_AddElement
<1>. QED
  BY <1>1, <1>2, <1>3, <1>4, CsFinite

\* Tickets are drawn in order, and as long as none has been given back behind a thread that
\* waits, a ticket that no release has reached is in the hands of a thread.
Drawn == waitCount >= 1 /\ \A t \in Cs!InCall : myTicket[t] < waitCount
Held == ~overtaken => \A k \in releaseCount + 1 .. waitCount - 1 :
                         \E t \in Cs!InCall : myTicket[t] = k
TicketInv == Cs!TypeOK /\ Drawn /\ Held

\* A new lock has no ticket.
LEMMA CsInitTickets == Cs!Init => TicketInv
<1>. SUFFICES ASSUME Cs!Init PROVE TicketInv
  OBVIOUS
<1>1. Cs!TypeOK
  BY DEF Cs!Init, Cs!TypeOK
<1>2. Cs!InCall = {} /\ 1 .. 0 = {}
  BY DEF Cs!Init, Cs!InCall
<1>. QED
  BY <1>1, <1>2 DEF Cs!Init, TicketInv, Drawn, Held

\* A call that does not find its release has a new ticket, and one that does has had it reached.
LEMMA CsWaitTickets ==
    ASSUME TicketInv, NEW t \in Waiters, NEW kind \in Kind, Cs!Wait(t, kind)
    PROVE  TicketInv'
<1>. USE DEF TicketInv
<1>1. t \notin Cs!InCall /\ pc[t] = "out" /\ waitCount \in Nat /\ releaseCount \in Nat
  BY DEF Cs!Wait, Cs!InCall, Cs!TypeOK
<1>2. /\ waitCount' = waitCount + 1 /\ releaseCount' = releaseCount /\ overtaken' = overtaken
      /\ myTicket' = [myTicket EXCEPT ![t] = waitCount]
      /\ myTicket'[t] = waitCount
      /\ \A u \in Cs!InCall : myTicket'[u] = myTicket[u] /\ myTicket[u] \in Nat
  BY <1>1 DEF Cs!Wait, Cs!TypeOK, Cs!InCall
<1>3. Cs!TypeOK'
  <2>1. /\ waitCount' \in Nat /\ releaseCount' \in Nat /\ overtaken' \in BOOLEAN
        /\ releaseEvent' \in BOOLEAN /\ myTicket' \in [Waiters -> Nat]
    <3>1. releaseEvent' = releaseEvent \/ releaseEvent' = FALSE
      BY DEF Cs!Wait
    <3>2. releaseEvent \in BOOLEAN /\ overtaken \in BOOLEAN /\ myTicket \in [Waiters -> Nat]
      BY DEF Cs!TypeOK
    <3>3. myTicket' \in [Waiters -> Nat]
      BY <1>1, <1>2, <3>2
    <3>4. overtaken' \in BOOLEAN /\ releaseEvent' \in BOOLEAN
      BY <1>2, <3>1, <3>2
    <3>. QED
      BY <1>1, <1>2, <3>3, <3>4
  <2>2. CASE waitCount <= releaseCount
    <3>1. csCall' = [csCall EXCEPT ![t] = "true"] /\ pc' = pc
      BY <2>2 DEF Cs!Wait
    <3>. QED
      BY <1>1, <2>1, <3>1 DEF Cs!TypeOK
  <2>3. CASE ~(waitCount <= releaseCount)
    <3>1. csCall' = [csCall EXCEPT ![t] = kind] /\ pc' = [pc EXCEPT ![t] = "loop"]
      BY <2>3 DEF Cs!Wait
    <3>. QED
      BY <2>1, <3>1 DEF Cs!TypeOK, Kind
  <2>. QED
    BY <2>2, <2>3
<1>4. CASE waitCount <= releaseCount
  <2>1. Cs!InCall' = Cs!InCall
    BY <1>4 DEF Cs!Wait, Cs!InCall
  <2>2. Drawn'
    BY <1>1, <1>2, <2>1 DEF Drawn
  <2>3. releaseCount' + 1 .. waitCount' - 1 = {}
    BY <1>1, <1>2, <1>4
  <2>. QED
    BY <1>3, <2>2, <2>3 DEF Held
<1>5. CASE ~(waitCount <= releaseCount)
  <2>1. Cs!InCall' = Cs!InCall \cup {t}
    BY <1>5 DEF Cs!Wait, Cs!InCall, Cs!TypeOK
  <2>2. Drawn'
    BY <1>1, <1>2, <2>1 DEF Drawn
  <2>3. ASSUME ~overtaken, NEW k \in releaseCount' + 1 .. waitCount' - 1
        PROVE  \E u \in Cs!InCall' : myTicket'[u] = k
    <3>1. k = waitCount \/ k \in releaseCount + 1 .. waitCount - 1
      BY <1>1, <1>2
    <3>. QED
      BY <1>2, <2>1, <2>3, <3>1 DEF Held
  <2>. QED
    BY <1>2, <1>3, <2>2, <2>3 DEF Held
<1>. QED
  BY <1>4, <1>5

\* A thread leaves with a ticket that has been reached; the others keep theirs.
LEMMA CsCheckTickets ==
    ASSUME TicketInv, NEW t \in Waiters, Cs!Check(t)
    PROVE  TicketInv'
<1>. USE DEF TicketInv
<1>1. waitCount' = waitCount /\ releaseCount' = releaseCount /\ overtaken' = overtaken
      /\ myTicket' = myTicket
  BY DEF Cs!Check
<1>2. Cs!TypeOK'
  BY <1>1 DEF Cs!Check, Cs!TypeOK
<1>3. Cs!InCall' \subseteq Cs!InCall
  BY DEF Cs!Check, Cs!InCall, Cs!TypeOK
<1>4. \A u \in Cs!InCall \ Cs!InCall' : myTicket[u] <= releaseCount
  BY DEF Cs!Check, Cs!InCall, Cs!TypeOK
<1>5. Drawn'
  BY <1>1, <1>3 DEF Drawn
<1>6. ASSUME ~overtaken, NEW k \in releaseCount + 1 .. waitCount - 1
      PROVE  \E u \in Cs!InCall' : myTicket[u] = k
  <2>1. PICK u \in Cs!InCall : myTicket[u] = k
    BY <1>6 DEF Held
  <2>2. ~(k <= releaseCount)
    BY DEF Cs!TypeOK
  <2>. QED
    BY <1>4, <2>1, <2>2
<1>. QED
  BY <1>1, <1>2, <1>5, <1>6 DEF Held

\* A thread that gives its ticket back has the first one that was not reached, or overtakes
\* the thread that has it.
LEMMA CsTimeOutTickets ==
    ASSUME TicketInv, NEW t \in Waiters, Cs!TimeOut(t)
    PROVE  TicketInv' /\ t \in Cs!InCall /\ Cs!InCall' = Cs!InCall \ {t}
<1>. USE DEF TicketInv
<1>1. /\ waitCount' = waitCount /\ releaseCount' = releaseCount + 1 /\ myTicket' = myTicket
      /\ waitCount \in Nat /\ releaseCount \in Nat /\ myTicket \in [Waiters -> Nat]
  BY DEF Cs!TimeOut, Cs!TypeOK
<1>2. Cs!TypeOK'
  BY DEF Cs!TimeOut, Cs!TypeOK, Cs!Set
<1>3. t \in Cs!InCall /\ Cs!InCall' = Cs!InCall \ {t}
  BY DEF Cs!TimeOut, Cs!TypeOK, Cs!Set, Cs!InCall
<1>4. Drawn'
  BY <1>1, <1>3 DEF Drawn
<1>5. ASSUME ~overtaken', NEW k \in releaseCount + 2 .. waitCount - 1
      PROVE  \E u \in Cs!InCall' : myTicket[u] = k
  <2>1. ~overtaken /\ ~ \E u \in Cs!InCall : releaseCount < myTicket[u] /\ myTicket[u] < myTicket[t]
    BY <1>5 DEF Cs!TimeOut
  <2>2. myTicket[t] <= releaseCount + 1
    <3>. SUFFICES ASSUME myTicket[t] > releaseCount + 1 PROVE FALSE
      BY <1>1, <1>3 DEF Cs!InCall
    <3>1. releaseCount + 1 \in releaseCount + 1 .. waitCount - 1
      BY <1>1, <1>3 DEF Drawn, Cs!InCall
    <3>2. PICK u \in Cs!InCall : myTicket[u] = releaseCount + 1
      BY <2>1, <3>1 DEF Held
    <3>. QED
      BY <1>1, <2>1, <3>2
  <2>3. k \in releaseCount + 1 .. waitCount - 1 /\ ~(k <= releaseCount + 1)
    BY <1>1
  <2>4. PICK u \in Cs!InCall : myTicket[u] = k
    BY <2>1, <2>3 DEF Held
  <2>. QED
    BY <1>3, <2>2, <2>3, <2>4
<1>6. Held'
  <2>1. releaseCount' + 1 = releaseCount + 2
    BY <1>1
  <2>. QED
    BY <1>1, <1>5, <2>1 DEF Held
<1>. QED
  BY <1>2, <1>3, <1>4, <1>6

\* A release reaches one ticket more and sends nobody out of wait.
LEMMA CsReleaseTickets ==
    ASSUME TicketInv, Cs!Release
    PROVE  TicketInv' /\ Cs!InCall' = Cs!InCall
<1>. USE DEF TicketInv
<1>1. /\ waitCount' = waitCount /\ releaseCount' = releaseCount + 1 /\ myTicket' = myTicket
      /\ overtaken' = overtaken /\ waitCount \in Nat /\ releaseCount \in Nat
  BY DEF Cs!Release, Cs!TypeOK
<1>2. Cs!TypeOK'
  BY DEF Cs!Release, Cs!TypeOK, Cs!Set
<1>3. Cs!InCall' = Cs!InCall
  BY DEF Cs!Release, Cs!TypeOK, Cs!Set, Cs!InCall
<1>4. releaseCount' + 1 .. waitCount' - 1 \subseteq releaseCount + 1 .. waitCount - 1
  BY <1>1
<1>. QED
  BY <1>1, <1>2, <1>3, <1>4 DEF Drawn, Held

\* A thread that looks at the event keeps its ticket.
LEMMA CsWaitOneTickets ==
    ASSUME TicketInv, NEW t \in Waiters, Cs!WaitOne(t)
    PROVE  TicketInv' /\ Cs!InCall' = Cs!InCall
<1>. USE DEF TicketInv
<1>1. Cs!TypeOK'
  BY DEF Cs!WaitOne, Cs!TypeOK
<1>2. Cs!InCall' = Cs!InCall
  BY DEF Cs!WaitOne, Cs!TypeOK, Cs!InCall
<1>. QED
  BY <1>1, <1>2 DEF Cs!WaitOne, Drawn, Held

\* Every step keeps the order of the tickets.
LEMMA CsStepTickets == TicketInv /\ [Cs!Next]_(Cs!vars) => TicketInv'
<1>. SUFFICES ASSUME TicketInv, [Cs!Next]_(Cs!vars) PROVE TicketInv'
  OBVIOUS
<1>1. CASE UNCHANGED Cs!vars
  BY <1>1 DEF Cs!vars, TicketInv, Cs!TypeOK, Cs!InCall, Drawn, Held
<1>. QED
  BY <1>1, CsWaitTickets, CsCheckTickets, CsTimeOutTickets, CsReleaseTickets, CsWaitOneTickets
     DEF Cs!Next, Kind

\* What the lock counts as released and not used, as its promise has it.
CsPermits == releaseCount - Cs!Used

\* A thread whose ticket has been reached has a release of its own, unless it was overtaken:
\* those whose tickets have not are all there, so fewer tickets have come back.
LEMMA ReachedHasPermit ==
    ASSUME TicketInv, ~overtaken, NEW t \in Cs!InCall, myTicket[t] <= releaseCount
    PROVE  CsPermits > 0
<1>. USE DEF TicketInv
<1>. DEFINE n == waitCount - 1
            callers == Cardinality(Cs!InCall)
            ahead == releaseCount + 1 .. n
            drawn == {myTicket[u] : u \in Cs!InCall}
<1>1. /\ n \in Nat /\ releaseCount \in Nat /\ callers \in Nat /\ callers >= 1
      /\ IsFiniteSet(Cs!InCall) /\ CsPermits = releaseCount - (n - callers)
  <2>1. callers = Cs!Cardinality(Cs!InCall)
    BY CsFinite
  <2>2. callers \in Nat /\ callers >= 1 /\ IsFiniteSet(Cs!InCall)
    BY <2>1, CsCallers
  <2>3. n \in Nat /\ releaseCount \in Nat
    BY DEF Drawn, Cs!TypeOK
  <2>. QED
    BY <2>1, <2>2, <2>3 DEF CsPermits, Cs!Used
<1>2. CASE n <= releaseCount
  BY <1>1, <1>2
<1>3. CASE n > releaseCount
  <2>1. IsFiniteSet(ahead) /\ Cardinality(ahead) = n - releaseCount
    BY <1>1, <1>3, FS_Interval
  <2>2. myTicket[t] \notin ahead
    BY <1>1 DEF Cs!TypeOK
  <2>3. IsFiniteSet(ahead \cup {myTicket[t]})
        /\ Cardinality(ahead \cup {myTicket[t]}) = n - releaseCount + 1
    BY <2>1, <2>2, FS_AddElement
  <2>4. ahead \cup {myTicket[t]} \subseteq drawn
    BY DEF Held
  <2>5. IsFiniteSet(drawn) /\ Cardinality(drawn) <= callers
    <3>. DEFINE ticket == [u \in Cs!InCall |-> myTicket[u]]
    <3>1. ticket \in Surjection(Cs!InCall, drawn)
      BY DEF Surjection
    <3>. QED
      BY <1>1, <3>1, FS_Surjection
  <2>6. Cardinality(ahead \cup {myTicket[t]}) <= Cardinality(drawn)
    BY <2>4, <2>5, FS_Subset
  <2>7. Cardinality(drawn) \in Nat
    BY <2>5, FS_CardinalityType
  <2>. HIDE DEF n, callers, drawn, ahead
  <2>. QED
    BY <1>1, <2>3, <2>5, <2>6, <2>7
<1>. QED
  BY <1>1, <1>2, <1>3

\* A new lock of cs is a new lock.
LEMMA CsInitImplements == Cs!Init => Cs!L!Init
<1>. SUFFICES ASSUME Cs!Init PROVE Cs!L!Init
  OBVIOUS
<1>1. Cs!InCall = {}
  BY DEF Cs!Init, Cs!InCall
<1>2. Cs!Cardinality(Cs!InCall) = 0
  BY <1>1, CsFinite, FS_EmptySet
<1>. QED
  BY <1>2 DEF Cs!Init, Cs!L!Init, Cs!Used

\* Every step of the lock of cs that overtakes nobody is a step of the promise or invisible
\* in it.
LEMMA CsStepImplements ==
    TicketInv /\ [Cs!Next]_(Cs!vars) => [~overtaken' => Cs!L!Next]_(Cs!L!vars)
<1>. SUFFICES ASSUME TicketInv, [Cs!Next]_(Cs!vars), ~overtaken'
              PROVE  Cs!L!Next \/ UNCHANGED Cs!L!vars
  OBVIOUS
<1>. USE DEF TicketInv
<1>. DEFINE callers == Cs!Cardinality(Cs!InCall)
<1>1. /\ CsPermits = releaseCount - (waitCount - 1 - callers) /\ callers \in Nat
      /\ CsPermits \in Int /\ releaseCount \in Nat /\ waitCount \in Nat
  BY CsCallers DEF CsPermits, Cs!Used, Cs!TypeOK
<1>2. CsPermits' = releaseCount' - (waitCount' - 1 - callers')
  BY DEF CsPermits, Cs!Used
<1>3. \A t \in Waiters : t \in Cs!L!Waiting <=> t \in Cs!InCall
  BY DEF Cs!L!Waiting, Cs!InCall, Cs!TypeOK
<1>. HIDE DEF callers
<1>4. CASE Cs!Release
  <2>1. /\ releaseCount' = releaseCount + 1 /\ waitCount' = waitCount /\ csCall' = csCall
        /\ CsPermits < CsMaxPermits
    BY <1>4 DEF Cs!Release, CsPermits
  <2>2. callers' = callers
    BY <1>4, CsReleaseTickets DEF callers
  <2>3. CsPermits' = CsPermits + 1
    BY <1>1, <1>2, <2>1, <2>2
  <2>. QED
    BY <2>1, <2>3 DEF CsPermits, Cs!L!Next, Cs!L!Release
<1>5. ASSUME NEW t \in Waiters, NEW kind \in Kind, Cs!Wait(t, kind)
      PROVE  Cs!L!Next
  <2>1. t \in Waiters \ Cs!InCall /\ t \notin Cs!L!Waiting
        /\ releaseCount' = releaseCount /\ waitCount' = waitCount + 1
    BY <1>3, <1>5 DEF Cs!Wait, Cs!InCall
  <2>2. CASE waitCount <= releaseCount
    <3>1. Cs!InCall' = Cs!InCall /\ csCall' = [csCall EXCEPT ![t] = "true"]
      BY <1>5, <2>2 DEF Cs!Wait, Cs!InCall
    <3>2. callers' = callers
      BY <3>1 DEF callers
    <3>3. CsPermits > 0 /\ CsPermits' = CsPermits - 1
      BY <1>1, <1>2, <2>1, <2>2, <3>2
    <3>4. Cs!L!Pass(t)
      BY <2>1, <3>1, <3>3 DEF CsPermits, Cs!L!Pass
    <3>. QED
      BY <3>4 DEF Cs!L!Next
  <2>3. CASE ~(waitCount <= releaseCount)
    <3>1. Cs!InCall' = Cs!InCall \cup {t} /\ csCall' = [csCall EXCEPT ![t] = kind]
      BY <1>5, <2>3 DEF Cs!Wait, Cs!InCall, Cs!TypeOK
    <3>2. callers' = callers + 1
      BY <2>1, <3>1, CsCallers DEF callers
    <3>3. CsPermits' = CsPermits
      BY <1>1, <1>2, <2>1, <3>2
    <3>4. Cs!L!Call(t, kind)
      BY <2>1, <3>1, <3>3 DEF CsPermits, Cs!L!Call
    <3>. QED
      BY <3>4 DEF Cs!L!Next, Kind
  <2>. QED
    BY <2>2, <2>3
<1>6. ASSUME NEW t \in Waiters, Cs!WaitOne(t)
      PROVE  UNCHANGED Cs!L!vars
  <2>1. Cs!InCall' = Cs!InCall
    BY <1>6, CsWaitOneTickets
  <2>. QED
    BY <1>6, <2>1 DEF Cs!WaitOne, Cs!L!vars, Cs!Used
<1>7. ASSUME NEW t \in Waiters, Cs!Check(t)
      PROVE  Cs!L!Next \/ UNCHANGED Cs!L!vars
  <2>1. /\ releaseCount' = releaseCount /\ waitCount' = waitCount /\ ~overtaken
        /\ t \in Cs!InCall
    BY <1>7 DEF Cs!Check, Cs!InCall
  <2>2. CASE myTicket[t] <= releaseCount
    <3>1. Cs!InCall' = Cs!InCall \ {t} /\ csCall' = [csCall EXCEPT ![t] = "true"]
      BY <1>7, <2>2 DEF Cs!Check, Cs!InCall, Cs!TypeOK
    <3>2. callers' = callers - 1
      BY <2>1, <3>1, CsCallers DEF callers
    <3>3. CsPermits > 0
      BY <2>1, <2>2, ReachedHasPermit
    <3>4. CsPermits' = CsPermits - 1
      BY <1>1, <1>2, <2>1, <3>2
    <3>5. Cs!L!Grant(t)
      BY <1>3, <2>1, <3>1, <3>3, <3>4 DEF CsPermits, Cs!L!Grant
    <3>. QED
      BY <3>5 DEF Cs!L!Next
  <2>3. CASE ~(myTicket[t] <= releaseCount)
    <3>1. csCall' = csCall /\ Cs!InCall' = Cs!InCall
      BY <1>7, <2>3 DEF Cs!Check, Cs!InCall, Cs!TypeOK
    <3>. QED
      BY <2>1, <3>1 DEF Cs!L!vars, Cs!Used
  <2>. QED
    BY <2>2, <2>3
<1>8. ASSUME NEW t \in Waiters, Cs!TimeOut(t)
      PROVE  Cs!L!Next
  <2>1. /\ releaseCount' = releaseCount + 1 /\ waitCount' = waitCount
        /\ csCall[t] = "timed" /\ csCall' = [csCall EXCEPT ![t] = "false"]
    BY <1>8 DEF Cs!TimeOut
  <2>2. t \in Cs!InCall /\ Cs!InCall' = Cs!InCall \ {t}
    BY <1>8, CsTimeOutTickets
  <2>3. callers' = callers - 1
    BY <2>2, CsCallers DEF callers
  <2>4. CsPermits' = CsPermits
    BY <1>1, <1>2, <2>1, <2>3
  <2>5. Cs!L!Expire(t)
    BY <2>1, <2>4 DEF CsPermits, Cs!L!Expire
  <2>. QED
    BY <2>5 DEF Cs!L!Next
<1>9. CASE UNCHANGED Cs!vars
  BY <1>9 DEF Cs!vars, Cs!L!vars, Cs!Used, Cs!InCall
<1>. QED
  BY <1>4, <1>5, <1>6, <1>7, <1>8, <1>9 DEF Cs!Next, Kind

\* Whatever threads draw tickets, look at the event, time out and release: until one gives
\* back its ticket behind another that waits, each wait that returns true has used up one
\* release, each that returns false none, and none else is used.
THEOREM CsLockIsImplemented == Cs!Spec => CsImplementsLock
<1>1. Cs!Init => TicketInv /\ Cs!L!Init
  BY CsInitTickets, CsInitImplements
<1>2. TicketInv /\ [Cs!Next]_(Cs!vars) => TicketInv'
  BY CsStepTickets
<1>3. TicketInv /\ [Cs!Next]_(Cs!vars) => [~overtaken' => Cs!L!Next]_(Cs!L!vars)
  BY CsStepImplements
<1>. QED
  BY <1>1, <1>2, <1>3, PTL DEF Cs!Spec, CsImplementsLock, Cs!ImplementsLock
=============================================================================
