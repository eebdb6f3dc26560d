--------------------------- MODULE EventLoopProofs ---------------------------
(***************************************************************************)
(* Theorems about the event loop of a thread, for any events, intervals and  *)
(* numbers of promises.                                                      *)
(***************************************************************************)
EXTENDS MCEventLoops, RegularEventsProofs

-----------------------------------------------------------------------------
(* One-time events.                                                         *)

\* The array is filled up to its index, and null after it.
ArrayInv ==
    /\ oneTimeEvents \in Seq(Event \cup {NoEvent})
    /\ oneTimeEventsIdx \in 0 .. Len(oneTimeEvents)
    /\ \A i \in 1 .. Len(oneTimeEvents) : oneTimeEvents[i] # NoEvent <=> i <= oneTimeEventsIdx

\* The one-time events that loop is about to run.
Running == IF pc = "once" THEN batch ELSE <<>>

HistoryInv ==
    /\ promisedEventsCount \in Nat /\ posted \in Seq(Event) /\ ran \in Seq(Event)
    /\ Running \in Seq(Event)
    /\ late \in Nat
    /\ \A e \in owed : e \in Event /\ \E i \in 1 .. Len(posted) : posted[i] = e

OwedRan == \A e \in owed : \E i \in 1 .. Len(ran) : ran[i] = e

\* When loop does not look again it has run all it owes, and every promise is a late one.
DoneInv ==
    /\ pc = "once" /\ nextEventAt # Now => batch = <<>>
    /\ Leaving => promisedEventsCount <= late /\ OwedRan

OnceInv == ArrayInv /\ HistoryInv /\ InOrder /\ DoneInv

\* The walk of __progress over the array stops where the index says.
PendingFits ==
    /\ Filled = 1 .. oneTimeEventsIdx /\ Cardinality(Filled) = oneTimeEventsIdx
    /\ Pending \in Seq(Event) /\ Len(Pending) = oneTimeEventsIdx
    /\ \A i \in 1 .. oneTimeEventsIdx : Pending[i] = oneTimeEvents[i]

\* What is pending is what the array is filled with.
LEMMA PendingEvents == ArrayInv => PendingFits
<1>. SUFFICES ASSUME ArrayInv PROVE PendingFits
  OBVIOUS
<1>1. /\ Len(oneTimeEvents) \in Nat /\ DOMAIN oneTimeEvents = 1 .. Len(oneTimeEvents)
      /\ oneTimeEventsIdx \in 0 .. Len(oneTimeEvents)
      /\ \A i \in 1 .. Len(oneTimeEvents) : oneTimeEvents[i] \in Event \cup {NoEvent}
  BY LenProperties DEF ArrayInv
<1>2. Filled = 1 .. oneTimeEventsIdx
  <2>1. \A i \in DOMAIN oneTimeEvents : i \in Filled <=> \A j \in 1 .. i : oneTimeEvents[j] # NoEvent
    BY DEF Filled
  <2>2. ASSUME NEW i \in 1 .. Len(oneTimeEvents) PROVE i \in Filled <=> i <= oneTimeEventsIdx
    <3>1. i \in 1 .. i /\ \A j \in 1 .. i : j \in 1 .. Len(oneTimeEvents) /\ j <= i
      BY <1>1
    <3>. QED BY <1>1, <2>1, <3>1 DEF ArrayInv
  <2>3. Filled \subseteq 1 .. Len(oneTimeEvents)
    BY <1>1 DEF Filled
  <2>4. \A i : i \in Filled <=> i \in 1 .. Len(oneTimeEvents) /\ i <= oneTimeEventsIdx
    BY <2>2, <2>3
  <2>5. \A i : i \in 1 .. oneTimeEventsIdx <=> i \in 1 .. Len(oneTimeEvents) /\ i <= oneTimeEventsIdx
    BY <1>1
  <2>. QED BY <2>4, <2>5
<1>3. Cardinality(Filled) = oneTimeEventsIdx
  BY <1>1, <1>2, FS_Interval
<1>4. \A i \in 1 .. oneTimeEventsIdx : oneTimeEvents[i] \in Event
  BY <1>1 DEF ArrayInv
<1>5. Pending = SubSeq(oneTimeEvents, 1, oneTimeEventsIdx)
  BY <1>3 DEF Pending
<1>6. /\ Pending \in Seq(Event) /\ Len(Pending) = oneTimeEventsIdx
      /\ \A i \in 1 .. oneTimeEventsIdx : Pending[i] = oneTimeEvents[i]
  <2>1. 1 \in Int /\ oneTimeEventsIdx \in Int
    BY <1>1
  <2>2. /\ SubSeq(oneTimeEvents, 1, oneTimeEventsIdx) \in Seq(Event)
        /\ Len(SubSeq(oneTimeEvents, 1, oneTimeEventsIdx))
             = (IF 1 <= oneTimeEventsIdx THEN oneTimeEventsIdx - 1 + 1 ELSE 0)
        /\ \A i \in 1 .. oneTimeEventsIdx - 1 + 1 :
              SubSeq(oneTimeEvents, 1, oneTimeEventsIdx)[i] = oneTimeEvents[1 + i - 1]
    BY <1>4, <2>1, SubSeqProperties
  <2>. QED BY <1>1, <1>5, <2>2
<1>. QED BY <1>2, <1>3, <1>6 DEF PendingFits

\* Sequences of events are put together in any grouping.
LEMMA Regrouped == \A a, b, c \in Seq(Event) : (a \o b) \o c = a \o (b \o c)
BY ConcatAssociative

\* An event that is added is the last one that is pending, whether the array has room or not.
LEMMA AddEffects ==
    ASSUME ArrayInv, NEW e \in Event, Add(e)
    PROVE  ArrayInv' /\ Pending' = Append(Pending, e)
<1>. DEFINE n == Len(oneTimeEvents)
<1>1. /\ n \in Nat /\ oneTimeEventsIdx \in 0 .. n /\ oneTimeEventsIdx' = oneTimeEventsIdx + 1
      /\ oneTimeEvents \in Seq(Event \cup {NoEvent}) /\ e # NoEvent
      /\ \A i \in 1 .. n : oneTimeEvents[i] # NoEvent <=> i <= oneTimeEventsIdx
  BY LenProperties, NoEventAssumption DEF ArrayInv, Add
<1>2. /\ oneTimeEvents' \in Seq(Event \cup {NoEvent}) /\ Len(oneTimeEvents') \in Nat
      /\ oneTimeEventsIdx + 1 \in 1 .. Len(oneTimeEvents')
      /\ \A i \in 1 .. Len(oneTimeEvents') : \/ i = oneTimeEventsIdx + 1 /\ oneTimeEvents'[i] = e
                                             \/ /\ i # oneTimeEventsIdx + 1 /\ i \in 1 .. n
                                                /\ oneTimeEvents'[i] = oneTimeEvents[i]
  <2>1. CASE oneTimeEventsIdx < n
    <3>1. oneTimeEvents' = [oneTimeEvents EXCEPT ![oneTimeEventsIdx + 1] = e]
      BY <2>1 DEF Add
    <3>2. oneTimeEventsIdx + 1 \in 1 .. n
      BY <1>1, <2>1
    <3>3. /\ oneTimeEvents' \in Seq(Event \cup {NoEvent}) /\ Len(oneTimeEvents') = n
          /\ \A i \in 1 .. n : oneTimeEvents'[i] = IF i = oneTimeEventsIdx + 1 THEN e
                                                   ELSE oneTimeEvents[i]
      BY <1>1, <3>1, <3>2, ExceptSeq
    <3>. QED BY <1>1, <3>2, <3>3
  <2>2. CASE ~(oneTimeEventsIdx < n)
    <3>1. oneTimeEvents' = Append(oneTimeEvents, e) /\ oneTimeEventsIdx = n
      BY <1>1, <2>2 DEF Add
    <3>2. /\ oneTimeEvents' \in Seq(Event \cup {NoEvent}) /\ Len(oneTimeEvents') = n + 1
          /\ \A i \in 1 .. n : oneTimeEvents'[i] = oneTimeEvents[i]
          /\ oneTimeEvents'[n + 1] = e
      BY <1>1, <3>1, AppendProperties
    <3>. QED BY <1>1, <3>1, <3>2
  <2>. QED BY <2>1, <2>2
<1>3. ArrayInv'
  BY <1>1, <1>2 DEF ArrayInv
<1>4. /\ Pending \in Seq(Event) /\ Len(Pending) = oneTimeEventsIdx
      /\ \A i \in 1 .. oneTimeEventsIdx : Pending[i] = oneTimeEvents[i]
  BY PendingEvents DEF PendingFits
<1>a. PendingFits'
  BY <1>3, PendingEvents, PTL
<1>5. /\ Pending' \in Seq(Event) /\ Len(Pending') = oneTimeEventsIdx + 1
      /\ \A i \in 1 .. oneTimeEventsIdx + 1 : Pending'[i] = oneTimeEvents'[i]
  BY <1>1, <1>a DEF PendingFits
<1>6. /\ Append(Pending, e) \in Seq(Event) /\ Len(Append(Pending, e)) = oneTimeEventsIdx + 1
      /\ \A i \in 1 .. oneTimeEventsIdx : Append(Pending, e)[i] = Pending[i]
      /\ Append(Pending, e)[oneTimeEventsIdx + 1] = e
  BY <1>4, AppendProperties
<1>7. ASSUME NEW i \in 1 .. oneTimeEventsIdx + 1 PROVE Pending'[i] = Append(Pending, e)[i]
  <2>1. Pending'[i] = oneTimeEvents'[i]
    BY <1>5
  <2>2. i \in 1 .. Len(oneTimeEvents')
    BY <1>1, <1>2
  <2>3. CASE i = oneTimeEventsIdx + 1
    BY <1>2, <1>6, <2>1, <2>2, <2>3
  <2>4. CASE i # oneTimeEventsIdx + 1
    <3>1. oneTimeEvents'[i] = oneTimeEvents[i]
      BY <1>2, <2>2, <2>4
    <3>2. i \in 1 .. oneTimeEventsIdx
      BY <1>1, <2>4
    <3>. QED BY <1>4, <1>6, <2>1, <3>1, <3>2
  <2>. QED BY <2>3, <2>4
<1>. QED BY <1>3, <1>5, <1>6, <1>7, SeqEqual

\* __progress takes all pending events and leaves an array it can use again.
LEMMA CollectEffects ==
    ASSUME ArrayInv, oneTimeEvents' = Nulled, oneTimeEventsIdx' = 0
    PROVE  ArrayInv' /\ Pending' = <<>>
<1>1. /\ Len(oneTimeEvents) \in Nat /\ DOMAIN oneTimeEvents = 1 .. Len(oneTimeEvents)
      /\ \A i \in 1 .. Len(oneTimeEvents) : oneTimeEvents[i] \in Event \cup {NoEvent}
      /\ Filled = 1 .. oneTimeEventsIdx
  BY LenProperties, PendingEvents DEF ArrayInv, PendingFits
<1>2. oneTimeEvents' = [i \in 1 .. Len(oneTimeEvents) |->
                          IF i \in Filled THEN NoEvent ELSE oneTimeEvents[i]]
  BY <1>1 DEF Nulled
<1>3. \A i \in 1 .. Len(oneTimeEvents) : oneTimeEvents'[i] = NoEvent
  BY <1>1, <1>2 DEF ArrayInv
<1>4. oneTimeEvents' \in Seq(Event \cup {NoEvent}) /\ Len(oneTimeEvents') = Len(oneTimeEvents)
  BY <1>1, <1>2
<1>5. ArrayInv'
  BY <1>1, <1>3, <1>4 DEF ArrayInv
<1>6. PendingFits'
  BY <1>5, PendingEvents, PTL
<1>7. Pending' \in Seq(Event) /\ Len(Pending') = 0
  BY <1>6 DEF PendingFits
<1>. QED BY <1>5, <1>7, EmptySeq

\* What leaves the array, the history and loop alone keeps the invariant.
LEMMA OnceFrame ==
    ASSUME OnceInv, UNCHANGED <<oneTimeEvents, oneTimeEventsIdx, posted, ran, owed>>,
           promisedEventsCount' \in Nat, late' \in Nat, Running' = Running, DoneInv'
    PROVE  OnceInv'
<1>1. ArrayInv' /\ Pending' = Pending
  BY DEF OnceInv, ArrayInv, Pending, Filled
<1>2. InOrder' /\ HistoryInv'
  BY <1>1 DEF OnceInv, InOrder, HistoryInv, Running
<1>. QED BY <1>1, <1>2 DEF OnceInv

\* run and runPromised: the new event is the last one of all, and of those that are owed
\* only if loop is going to look again.
LEMMA AddStep ==
    ASSUME OnceInv, NEW e \in Event, Add(e), UNCHANGED <<ran, pc, batch, nextEventAt, anyTime, late>>,
           promisedEventsCount' \in Nat, promisedEventsCount' <= promisedEventsCount
    PROVE  OnceInv'
<1>1. ArrayInv' /\ Pending' = Append(Pending, e) /\ Running' = Running
  BY AddEffects DEF OnceInv, Running
<1>2. /\ posted \in Seq(Event) /\ ran \in Seq(Event) /\ Running \in Seq(Event) /\ Pending \in Seq(Event)
      /\ posted = ran \o Running \o Pending /\ promisedEventsCount \in Nat /\ late \in Nat
  BY PendingEvents DEF OnceInv, HistoryInv, InOrder, Running, PendingFits
<1>3. posted' = Append(posted, e) /\ owed' = IF Leaving THEN owed ELSE owed \cup {e}
  BY DEF Add
<1>4. posted' = ran \o Running \o Append(Pending, e)
  <2>1. ran \o Running \in Seq(Event)
    BY <1>2, ConcatProperties
  <2>2. posted' = (ran \o Running \o Pending) \o <<e>>
    BY <1>2, <1>3, AppendIsConcat
  <2>3. <<e>> \in Seq(Event) /\ Append(Pending, e) = Pending \o <<e>>
    BY <1>2, AppendIsConcat
  <2>4. Pending \in Seq(Event)
    BY <1>2
  <2>5. (ran \o Running \o Pending) \o <<e>> = ran \o Running \o (Pending \o <<e>>)
    BY <2>1, <2>3, <2>4, Regrouped
  <2>. QED BY <2>2, <2>3, <2>5
<1>5. HistoryInv'
  <2>1. posted' \in Seq(Event) /\ Len(posted') = Len(posted) + 1
        /\ (\A i \in 1 .. Len(posted) : posted'[i] = posted[i]) /\ posted'[Len(posted) + 1] = e
    BY <1>2, <1>3, AppendProperties
  <2>2. Len(posted) \in Nat
    BY <1>2, LenProperties
  <2>3. ASSUME NEW f \in owed' PROVE f \in Event /\ \E i \in 1 .. Len(posted') : posted'[i] = f
    <3>1. CASE f \in owed
      <4>1. PICK i \in 1 .. Len(posted) : posted[i] = f
        BY <3>1 DEF OnceInv, HistoryInv
      <4>2. i \in 1 .. Len(posted') /\ posted'[i] = f
        BY <2>1, <2>2, <4>1
      <4>. QED BY <3>1, <4>2 DEF OnceInv, HistoryInv
    <3>2. CASE f = e
      <4>1. Len(posted) + 1 \in 1 .. Len(posted')
        BY <2>1, <2>2
      <4>. QED BY <2>1, <3>2, <4>1
    <3>. QED BY <1>3, <3>1, <3>2
  <2>. QED BY <1>1, <1>2, <2>1, <2>3 DEF HistoryInv
<1>6. InOrder'
  BY <1>1, <1>4 DEF InOrder, Running
<1>7. DoneInv'
  <2>1. Leaving' = Leaving
    BY DEF Leaving
  <2>2. Leaving /\ OwedRan => OwedRan'
    BY <1>3 DEF OwedRan
  <2>. QED BY <1>2, <2>1, <2>2 DEF OnceInv, DoneInv
<1>. QED BY <1>1, <1>5, <1>6, <1>7 DEF OnceInv

\* A loop that is new has no one-time events, and has run none.
LEMMA OnceInit == Init => OnceInv
<1>. SUFFICES ASSUME Init PROVE OnceInv
  OBVIOUS
<1>1. /\ oneTimeEvents = <<>> /\ oneTimeEventsIdx = 0 /\ promisedEventsCount = 0 /\ pc = "job"
      /\ posted = <<>> /\ ran = <<>> /\ owed = {} /\ late = 0
  BY DEF Init
<1>2. <<>> \in Seq(Event) /\ <<>> \in Seq(Event \cup {NoEvent}) /\ Len(<<>>) = 0
  BY EmptySeq
<1>3. ArrayInv
  BY <1>1, <1>2 DEF ArrayInv
<1>4. Pending \in Seq(Event) /\ Len(Pending) = 0
  BY <1>1, <1>3, PendingEvents DEF PendingFits
<1>5. Pending = <<>>
  BY <1>4, EmptySeq
<1>6. <<>> \o <<>> \o <<>> = <<>>
  BY <1>2, ConcatEmptySeq
<1>7. InOrder
  BY <1>1, <1>5, <1>6 DEF InOrder
<1>8. HistoryInv /\ DoneInv
  BY <1>1, <1>2 DEF HistoryInv, Running, DoneInv, Leaving
<1>. QED BY <1>3, <1>7, <1>8 DEF OnceInv

\* The steps of the loop's thread.
LEMMA LoopOnce == OnceInv /\ Loop => OnceInv'
<1>. SUFFICES ASSUME OnceInv, Loop PROVE OnceInv'
  OBVIOUS
<1>. USE DEF apiVars, history
<1>0. /\ posted \in Seq(Event) /\ ran \in Seq(Event) /\ Running \in Seq(Event) /\ Pending \in Seq(Event)
      /\ posted = ran \o Running \o Pending /\ promisedEventsCount \in Nat /\ late \in Nat
  BY PendingEvents DEF OnceInv, HistoryInv, InOrder, Running, PendingFits
<1>1. CASE Progress \/ CollectRegular \/ RunRegular \/ Wait \/ TimeOut
  <2>1. UNCHANGED <<oneTimeEvents, oneTimeEventsIdx, promisedEventsCount, posted, ran, owed, late>>
    BY <1>1 DEF Progress, CollectRegular, RunRegular, Wait, TimeOut
  <2>2. pc # "once" /\ pc' \notin {"once", "ended"}
    BY <1>1 DEF Progress, CollectRegular, RunRegular, Wait, TimeOut
  <2>3. Running' = Running /\ DoneInv'
    BY <2>2 DEF Running, DoneInv, Leaving
  <2>. QED BY <1>0, <2>1, <2>3, OnceFrame
<1>2. CASE CollectOnce
  <2>1. /\ pc = "regular" /\ pc' = "once" /\ batch' = Pending /\ Running = <<>> /\ Running' = Pending
        /\ oneTimeEvents' = Nulled /\ oneTimeEventsIdx' = 0
        /\ anyTime' = (promisedEventsCount > 0)
        /\ nextEventAt' = IF Pending # <<>> THEN Now ELSE nextEventAt
        /\ UNCHANGED <<promisedEventsCount, posted, ran, owed, late>>
    BY <1>2 DEF CollectOnce, Running
  <2>2. ArrayInv' /\ Pending' = <<>>
    BY <2>1, CollectEffects DEF OnceInv
  <2>3. /\ ran \o <<>> = ran /\ ran \o Pending \in Seq(Event)
        /\ (ran \o Pending) \o <<>> = ran \o Pending
    BY <1>0, ConcatEmptySeq, ConcatProperties
  <2>4. posted = ran \o Pending
    BY <1>0, <2>1, <2>3
  <2>5. InOrder'
    BY <2>1, <2>2, <2>3, <2>4 DEF InOrder, Running
  <2>6. HistoryInv'
    BY <1>0, <2>1 DEF OnceInv, HistoryInv
  \* Without a pending event everything that was posted has run.
  <2>7. Pending = <<>> => OwedRan'
    <3>1. Pending = <<>> => posted = ran
      BY <2>3, <2>4
    <3>. QED BY <2>1, <3>1 DEF OnceInv, HistoryInv, OwedRan
  <2>8. DoneInv'
    <3>1. ~(promisedEventsCount > 0) => promisedEventsCount = 0
      BY <1>0
    <3>2. Leaving' => Pending = <<>> /\ promisedEventsCount = 0
      BY <2>1, <3>1 DEF Leaving, Never, Now
    <3>. QED BY <1>0, <2>1, <2>7, <3>2 DEF DoneInv
  <2>. QED BY <2>2, <2>5, <2>6, <2>8 DEF OnceInv
<1>3. CASE RunOnce
  <2>1. /\ pc = "once" /\ pc' = "once" /\ batch # <<>> /\ batch' = Tail(batch)
        /\ ran' = Append(ran, Head(batch)) /\ Running = batch /\ Running' = Tail(batch)
        /\ UNCHANGED <<oneTimeEvents, oneTimeEventsIdx, promisedEventsCount, nextEventAt, anyTime,
                      posted, owed, late>>
    BY <1>3 DEF RunOnce, Running
  <2>2. batch \in Seq(Event) /\ Head(batch) \in Event /\ Tail(batch) \in Seq(Event)
        /\ batch = <<Head(batch)>> \o Tail(batch) /\ <<Head(batch)>> \in Seq(Event)
    <3>1. batch \in Seq(Event) /\ Len(batch) \in Nat \ {0}
      BY <1>0, <2>1, EmptySeq
    <3>2. Head(batch) \in Event /\ Tail(batch) \in Seq(Event) /\ Tail(batch) = SubSeq(batch, 2, Len(batch))
      BY <2>1, <3>1, HeadTailProperties, TailIsSubSeq
    <3>3. 1 \in 1 .. Len(batch) /\ Len(batch) \in 1 .. Len(batch)
      BY <3>1
    <3>4. SubSeq(batch, 1, Len(batch)) = <<batch[1]>> \o SubSeq(batch, 1 + 1, Len(batch))
      BY <3>1, <3>3, SubSeqRecursiveFirst
    <3>5. SubSeq(batch, 1, Len(batch)) = batch
      BY <3>1, SubSeqFull
    <3>6. Head(batch) = batch[1]
      BY <2>1, <3>1
    <3>. QED BY <3>1, <3>2, <3>4, <3>5, <3>6
  <2>3. ran' = ran \o <<Head(batch)>> /\ ran' \in Seq(Event) /\ Len(ran') = Len(ran) + 1
        /\ \A i \in 1 .. Len(ran) : ran'[i] = ran[i]
    BY <1>0, <2>1, <2>2, AppendIsConcat, AppendProperties
  <2>4. ran \o batch = ran' \o Tail(batch)
    <3>1. ran \in Seq(Event) /\ <<Head(batch)>> \in Seq(Event) /\ Tail(batch) \in Seq(Event)
      BY <1>0, <2>2
    <3>2. (ran \o <<Head(batch)>>) \o Tail(batch) = ran \o (<<Head(batch)>> \o Tail(batch))
      BY <3>1, Regrouped
    <3>. QED BY <2>2, <2>3, <3>2
  <2>5. ArrayInv' /\ Pending' = Pending
    BY <2>1 DEF OnceInv, ArrayInv, Pending, Filled
  <2>6. InOrder'
    BY <1>0, <2>1, <2>4, <2>5 DEF InOrder, Running
  <2>7. HistoryInv'
    BY <1>0, <2>1, <2>2, <2>3 DEF OnceInv, HistoryInv
  <2>8. DoneInv'
    BY <2>1 DEF OnceInv, DoneInv, Leaving, Never, Now
  <2>. QED BY <2>5, <2>6, <2>7, <2>8 DEF OnceInv
<1>4. CASE Decide
  <2>1. /\ pc = "once" /\ batch = <<>> /\ pc' # "once"
        /\ pc' = "ended" => nextEventAt = Never /\ ~anyTime
        /\ UNCHANGED <<oneTimeEvents, oneTimeEventsIdx, promisedEventsCount, posted, ran, owed, late>>
    BY <1>4 DEF Decide
  <2>2. Running' = Running
    BY <2>1 DEF Running
  <2>3. DoneInv'
    BY <2>1 DEF OnceInv, DoneInv, OwedRan, Leaving, Never, Now
  <2>. QED BY <1>0, <2>1, <2>2, <2>3, OnceFrame
<1>. QED BY <1>1, <1>2, <1>3, <1>4 DEF Loop

\* The steps of any thread.
LEMMA OthersOnce == OnceInv /\ [Others \/ Tick]_vars => OnceInv'
<1>. SUFFICES ASSUME OnceInv, [Others \/ Tick]_vars PROVE OnceInv'
  OBVIOUS
<1>. USE DEF apiVars, loopVars, history
<1>0. promisedEventsCount \in Nat /\ late \in Nat
  BY DEF OnceInv, HistoryInv
<1>1. CASE Tick \/ UNCHANGED vars \/ \E r \in Regular : Repeat(r) \/ Cancel(r)
  <2>1. UNCHANGED <<oneTimeEvents, oneTimeEventsIdx, promisedEventsCount, pc, batch, nextEventAt,
                   anyTime, posted, ran, owed, late>>
    BY <1>1 DEF Tick, vars, Repeat, Cancel
  <2>2. Running' = Running /\ DoneInv'
    BY <2>1 DEF OnceInv, Running, DoneInv, OwedRan, Leaving
  <2>. QED BY <1>0, <2>1, <2>2, OnceFrame
<1>2. CASE Promise
  <2>1. /\ UNCHANGED <<oneTimeEvents, oneTimeEventsIdx, pc, batch, nextEventAt, anyTime,
                      posted, ran, owed>>
        /\ promisedEventsCount' = promisedEventsCount + 1
        /\ late' = IF Leaving THEN late + 1 ELSE late
    BY <1>2 DEF Promise
  <2>2. Running' = Running
    BY <2>1 DEF Running
  \* A promise that loop does not see is counted as late.
  <2>3. Leaving' = Leaving /\ OwedRan' = OwedRan
    BY <2>1 DEF Leaving, OwedRan
  <2>4. DoneInv'
    BY <1>0, <2>1, <2>3 DEF OnceInv, DoneInv
  <2>. QED BY <1>0, <2>1, <2>2, <2>4, OnceFrame
<1>3. ASSUME NEW e \in Event, Run(e) \/ RunPromised(e) PROVE OnceInv'
  <2>1. /\ Add(e) /\ UNCHANGED <<ran, pc, batch, nextEventAt, anyTime, late>>
        /\ \/ promisedEventsCount' = promisedEventsCount
           \/ promisedEventsCount > 0 /\ promisedEventsCount' = promisedEventsCount - 1
    BY <1>3 DEF Run, RunPromised
  <2>2. promisedEventsCount' \in Nat /\ promisedEventsCount' <= promisedEventsCount
    BY <1>0, <2>1
  <2>. QED BY <2>1, <2>2, AddStep
<1>. QED BY <1>1, <1>2, <1>3 DEF Others

\* The invariant of one-time events holds in every state of the loop.
LEMMA OnceAlways == Spec => []OnceInv
<1>1. OnceInv /\ [Next]_vars => OnceInv'
  BY LoopOnce, OthersOnce DEF Next
<1>. QED BY <1>1, OnceInit, PTL DEF Spec

\* EventLoop.loop: it ends under no promise, and not before it has run every one-time event
\* of the queue, but for promises and events that come after it has looked for the last time.
THEOREM LoopEndsWhenDone == Spec => []EndsWhenDone
<1>1. OnceInv => EndsWhenDone
  <2>. SUFFICES ASSUME OnceInv, pc = "ended"
                PROVE  promisedEventsCount <= late /\ owed \subseteq {ran[i] : i \in DOMAIN ran}
    BY DEF EndsWhenDone
  <2>1. DOMAIN ran = 1 .. Len(ran)
    BY LenProperties DEF OnceInv, HistoryInv
  <2>2. Leaving
    BY DEF Leaving
  <2>. QED BY <2>1, <2>2 DEF OnceInv, DoneInv, OwedRan
<1>. QED BY <1>1, OnceAlways, PTL

\* The times of the events that are due later have a least one.
LEMMA LeastTime ==
    ASSUME NEW T, T \subseteq Nat, T # {}
    PROVE  (CHOOSE t \in T : \A u \in T : t <= u) \in Nat
<1>. DEFINE Less == {ss \in Nat \X Nat : ss[1] < ss[2]}
<1>1. IsWellFoundedOn(Less, Nat)
  BY NatLessThanWellFounded DEF OpToRel
<1>2. PICK t \in T : \A u \in T : ~(<<u, t>> \in Less)
  BY <1>1, WFMin
<1>3. t \in Nat /\ \A u \in T : t <= u
  <2>. SUFFICES ASSUME NEW u \in T PROVE t <= u
    OBVIOUS
  <2>1. t \in Nat /\ u \in Nat /\ ~(u < t)
    BY <1>2
  <2>. QED BY <2>1
<1>. QED BY <1>3

-----------------------------------------------------------------------------
(* The types, and the list of regular events in every state.                *)

\* The events of a thread's loop are as the lemmas on lists want them.
LEMMA EventsFit == RegularFit
BY RegularAssumption, NoEventAssumption DEF RegularFit

TypeInv ==
    /\ time \in Nat /\ now \in Nat /\ nextRunTime \in [Regular -> Nat] /\ waitLock \in Nat
    /\ pc \in PC /\ batch \in Seq(Regular \cup Event)
    /\ nextEventAt \in Nat \cup {Never, Now} /\ anyTime \in BOOLEAN
    /\ owed \subseteq Event

\* As long as none is cancelled twice, some order of the events that are not cancelled
\* is that of the list, and an object that is not used yet has no link back.
Scheduled ==
    /\ \E s \in Seq(Regular) : /\ Linked(regularEvents, s)
                               /\ {s[i] : i \in 1 .. Len(s)} = created \ cancelled
    /\ \A r \in Regular \ created : regularEvents.previous[r] = NoEvent

ListInv ==
    /\ regularEvents \in List(Regular) /\ cancelled \subseteq created /\ created \subseteq Regular
    /\ ~CancelTwice => Scheduled

\* repeat keeps the list, with the new event in front.
LEMMA RepeatList ==
    ASSUME ListInv, NEW r \in Regular, Repeat(r)
    PROVE  ListInv'
<1>1. /\ regularEvents' = Prepend(regularEvents, r) /\ r \notin created
      /\ created' = created \cup {r} /\ cancelled' = cancelled
  BY DEF Repeat
<1>2. regularEvents' \in List(Regular) /\ cancelled' \subseteq created' /\ created' \subseteq Regular
  BY <1>1, ListsOfRegular DEF ListInv
<1>3. ASSUME ~CancelTwice PROVE Scheduled'
  <2>1. PICK s \in Seq(Regular) : /\ Linked(regularEvents, s)
                                  /\ {s[i] : i \in 1 .. Len(s)} = created \ cancelled
    BY <1>3 DEF ListInv, Scheduled
  <2>2. /\ regularEvents \in List(Regular) /\ regularEvents.previous[r] = NoEvent
        /\ \A i \in 1 .. Len(s) : s[i] # r
        /\ \A x \in Regular \ created : regularEvents.previous[x] = NoEvent
    BY <1>1, <1>3, <2>1 DEF ListInv, Scheduled
  <2>. DEFINE t == <<r>> \o s
  <2>3. /\ t \in Seq(Regular) /\ Linked(regularEvents', t)
        /\ {t[i] : i \in 1 .. Len(t)} = {s[i] : i \in 1 .. Len(s)} \cup {r}
    <3>1. /\ t \in Seq(Regular) /\ Linked(Prepend(regularEvents, r), t)
          /\ {t[i] : i \in 1 .. Len(t)} = {s[i] : i \in 1 .. Len(s)} \cup {r}
      <4>1. Linked(regularEvents, s) /\ regularEvents \in List(Regular)
        BY <2>1, <2>2
      <4>2. regularEvents.previous[r] = NoEvent /\ \A i \in 1 .. Len(s) : s[i] # r
        BY <2>2
      <4>. QED BY <4>1, <4>2, EventsFit, PrependLinks
    <3>. QED BY <1>1, <3>1
  <2>. HIDE DEF t
  <2>4. {t[i] : i \in 1 .. Len(t)} = created' \ cancelled'
    BY <1>1, <2>1, <2>3 DEF ListInv
  <2>5. ASSUME NEW x \in Regular \ created' PROVE regularEvents'.previous[x] = NoEvent
    <3>1. regularEvents'.previous[x] = IF x = regularEvents.head THEN r ELSE regularEvents.previous[x]
      BY <1>1 DEF Prepend
    <3>2. x # regularEvents.head
      <4>1. CASE Len(s) = 0
        BY <2>1, <4>1, NoEventAssumption DEF Linked
      <4>2. CASE Len(s) # 0
        <5>1. 1 \in 1 .. Len(s) /\ regularEvents.head = s[1]
          BY <2>1, <4>2, LenProperties DEF Linked
        <5>2. s[1] \in created
          BY <2>1, <5>1
        <5>. QED BY <1>1, <5>1, <5>2
      <4>. QED BY <4>1, <4>2
    <3>. QED BY <1>1, <2>2, <3>1, <3>2
  <2>. QED BY <2>3, <2>4, <2>5 DEF Scheduled
<1>. QED BY <1>2, <1>3 DEF ListInv

\* cancel keeps the list, without the event that is cancelled.
LEMMA CancelList ==
    ASSUME ListInv, NEW r \in Regular, Cancel(r)
    PROVE  ListInv'
<1>1. /\ regularEvents' = Unlink(regularEvents, r) /\ r \in created
      /\ CancelTwice \/ r \notin cancelled
      /\ created' = created /\ cancelled' = cancelled \cup {r}
  BY DEF Cancel
<1>2. regularEvents' \in List(Regular) /\ cancelled' \subseteq created' /\ created' \subseteq Regular
  BY <1>1, ListsOfRegular DEF ListInv
<1>3. ASSUME ~CancelTwice PROVE Scheduled'
  <2>1. PICK s \in Seq(Regular) : /\ Linked(regularEvents, s)
                                  /\ {s[i] : i \in 1 .. Len(s)} = created \ cancelled
    BY <1>3 DEF ListInv, Scheduled
  <2>2. PICK k \in 1 .. Len(s) : s[k] = r
    BY <1>1, <1>3, <2>1
  <2>3. /\ regularEvents \in List(Regular)
        /\ \A x \in Regular \ created : regularEvents.previous[x] = NoEvent
    BY <1>3 DEF ListInv, Scheduled
  <2>. DEFINE t == Without(s, k)
  <2>4. t \in Seq(Regular)
    BY WithoutSeq
  <2>5. /\ Linked(regularEvents', t)
        /\ {t[i] : i \in 1 .. Len(t)} = {s[i] : i \in 1 .. Len(s)} \ {r}
    BY <1>1, <2>1, <2>2, <2>3, EventsFit, UnlinkLinks
  <2>. HIDE DEF t
  <2>6. {t[i] : i \in 1 .. Len(t)} = created' \ cancelled'
    BY <1>1, <2>1, <2>5
  <2>7. ASSUME NEW x \in Regular \ created' PROVE regularEvents'.previous[x] = NoEvent
    <3>1. regularEvents'.previous[x] = IF x = regularEvents.next[r] THEN regularEvents.previous[r]
                                       ELSE regularEvents.previous[x]
      BY <1>1 DEF Unlink
    <3>2. x # regularEvents.next[r]
      <4>1. regularEvents.next[r] = IF k = Len(s) THEN NoEvent ELSE s[k + 1]
        BY <2>1, <2>2 DEF Linked
      <4>2. k # Len(s) => k + 1 \in 1 .. Len(s)
        BY LenProperties
      <4>3. k # Len(s) => s[k + 1] \in created
        BY <2>1, <4>2
      <4>. QED BY <1>1, <4>1, <4>3, NoEventAssumption
    <3>. QED BY <1>1, <2>3, <3>1, <3>2
  <2>. QED BY <2>4, <2>5, <2>6, <2>7 DEF Scheduled
<1>. QED BY <1>2, <1>3 DEF ListInv

ConsistentInv == TypeInv /\ ListInv

\* A loop that is new has the empty list.
LEMMA ConsistentInit == Init => ConsistentInv
<1>. SUFFICES ASSUME Init PROVE ConsistentInv
  OBVIOUS
<1>1. TypeInv
  <2>1. <<>> \in Seq(Regular \cup Event)
    BY EmptySeq
  <2>. QED BY <2>1 DEF Init, TypeInv, PC, Never
<1>2. regularEvents = EmptyList(Regular) /\ created = {} /\ cancelled = {}
  BY DEF Init
<1>3. Scheduled
  <2>1. <<>> \in Seq(Regular) /\ Len(<<>>) = 0
    BY EmptySeq
  <2>2. Linked(regularEvents, <<>>)
    BY <1>2, <2>1 DEF Linked, EmptyList
  <2>3. {<<>>[i] : i \in 1 .. Len(<<>>)} = created \ cancelled
    BY <1>2, <2>1
  <2>4. \A r \in Regular : regularEvents.previous[r] = NoEvent
    BY <1>2 DEF EmptyList
  <2>. QED BY <2>1, <2>2, <2>3, <2>4 DEF Scheduled
<1>4. ListInv
  BY <1>2, <1>3 DEF ListInv, EmptyList, List
<1>. QED BY <1>1, <1>4 DEF ConsistentInv

\* What a pass over the regular events finds: a batch of them, and a time to wait for.
LEMMA CollectTypes ==
    ASSUME TypeInv, ListInv, CollectRegular
    PROVE  TypeInv'
<1>. DEFINE Listed == Members(regularEvents)
            Later  == {nextRunTime[r] : r \in {s \in Listed : ~Due(s)}}
            Ready  == {r \in Regular : Due(r)}
<1>1. /\ nextRunTime \in [Regular -> Nat] /\ regularEvents \in List(Regular)
      /\ interval \in [Regular -> Nat]
  BY IntervalAssumption DEF TypeInv, ListInv
<1>2. /\ Listed \subseteq Regular /\ Chain(regularEvents) \in Seq(Regular)
      /\ Len(Chain(regularEvents)) \in Nat
  BY <1>1, EventsFit, ListedAreRegular
<1>3. batch' \in Seq(Regular \cup Event)
  <2>1. Filtered(Chain(regularEvents), Ready)
    BY <1>2, KeptValues
  <2>2. batch' = Kept(Chain(regularEvents), Ready)
    BY DEF CollectRegular
  <2>. HIDE DEF Ready
  <2>3. batch' \in Seq(Ready)
    BY <1>2, <2>1, <2>2 DEF Filtered
  <2>4. Ready \subseteq Regular \cup Event
    BY DEF Ready
  <2>. QED BY <2>3, <2>4, SeqMonotonic
<1>4. nextRunTime' \in [Regular -> Nat]
  <2>1. nextRunTime' = [r \in Regular |-> IF r \in Listed /\ Due(r)
                                            THEN nextRunTime[r] + interval[r] ELSE nextRunTime[r]]
    BY DEF CollectRegular
  <2>2. \A r \in Regular : nextRunTime[r] \in Nat /\ nextRunTime[r] + interval[r] \in Nat
    BY <1>1
  <2>. HIDE DEF Listed
  <2>. QED BY <2>1, <2>2
<1>5. nextEventAt' \in Nat \cup {Never, Now}
  <2>1. nextEventAt' = IF \E r \in Listed : Due(r) THEN Now
                       ELSE IF Later = {} THEN Never
                       ELSE CHOOSE t \in Later : \A u \in Later : t <= u
    BY DEF CollectRegular
  <2>2. Later \subseteq Nat
    BY <1>1, <1>2
  <2>. HIDE DEF Later, Listed
  <2>3. Later # {} => (CHOOSE t \in Later : \A u \in Later : t <= u) \in Nat
    BY <2>2, LeastTime
  <2>. QED BY <2>1, <2>3
<1>6. /\ waitLock' = 0 /\ pc' = "regular" /\ UNCHANGED <<time, now, anyTime, owed>>
  BY DEF CollectRegular, history
<1>. QED BY <1>3, <1>4, <1>5, <1>6 DEF TypeInv, PC

\* A one-time event does not touch the regular ones.
LEMMA OnceConsistent ==
    ASSUME ConsistentInv, OnceInv, OnceInv',
           CollectOnce \/ RunOnce \/ \E e \in Event : Run(e) \/ RunPromised(e)
    PROVE  ConsistentInv'
<1>. USE DEF apiVars, loopVars, history
<1>1. ListInv'
  <2>1. UNCHANGED <<regularEvents, created, cancelled>>
    BY DEF CollectOnce, RunOnce, Run, RunPromised
  <2>. QED BY <2>1 DEF ConsistentInv, ListInv, Scheduled
<1>2. TypeInv
  BY DEF ConsistentInv
<1>3. CASE CollectOnce
  <2>1. /\ batch' = Pending /\ nextEventAt' \in {Now, nextEventAt} /\ anyTime' \in BOOLEAN
        /\ pc' = "once" /\ UNCHANGED <<time, now, nextRunTime, waitLock, owed>>
    BY <1>3 DEF CollectOnce
  <2>2. Pending \in Seq(Event)
    BY PendingEvents DEF OnceInv, PendingFits
  <2>3. Pending \in Seq(Regular \cup Event)
    BY <2>2, SeqMonotonic
  <2>4. nextEventAt' \in Nat \cup {Never, Now}
    BY <1>2, <2>1 DEF TypeInv
  <2>5. TypeInv'
    BY <1>2, <2>1, <2>3, <2>4 DEF TypeInv, PC
  <2>. QED BY <1>1, <2>5 DEF ConsistentInv
<1>4. CASE RunOnce
  <2>1. batch # <<>> /\ batch' = Tail(batch)
        /\ UNCHANGED <<time, now, nextRunTime, waitLock, pc, nextEventAt, anyTime, owed>>
    BY <1>4 DEF RunOnce
  <2>2. batch' \in Seq(Regular \cup Event)
    BY <1>2, <2>1, HeadTailProperties DEF TypeInv
  <2>3. TypeInv'
    BY <1>2, <2>1, <2>2 DEF TypeInv
  <2>. QED BY <1>1, <2>3 DEF ConsistentInv
<1>5. ASSUME NEW e \in Event, Run(e) \/ RunPromised(e) PROVE ConsistentInv'
  <2>1. /\ waitLock' = waitLock + 1 /\ owed' \subseteq owed \cup {e}
        /\ UNCHANGED <<time, now, nextRunTime, pc, batch, nextEventAt, anyTime>>
    BY <1>5 DEF Run, RunPromised, Add
  <2>2. waitLock' \in Nat
    BY <1>2, <2>1 DEF TypeInv
  <2>3. TypeInv'
    BY <1>2, <2>1, <2>2 DEF TypeInv
  <2>. QED BY <1>1, <2>3 DEF ConsistentInv
<1>. QED BY <1>3, <1>4, <1>5

\* Every step of the loop and of other threads keeps the types and the list.
LEMMA ConsistentStep == ConsistentInv /\ OnceInv /\ OnceInv' /\ [Next]_vars => ConsistentInv'
<1>. SUFFICES ASSUME ConsistentInv, OnceInv, OnceInv', [Next]_vars PROVE ConsistentInv'
  OBVIOUS
<1>. USE DEF apiVars, loopVars, history
<1>1. TypeInv /\ ListInv
  BY DEF ConsistentInv
<1>2. ASSUME UNCHANGED <<regularEvents, created, cancelled>> PROVE ListInv'
  BY <1>1, <1>2 DEF ListInv, Scheduled
<1>3. CASE Progress
  <2>1. now' = time /\ pc' = "collect" /\ UNCHANGED <<regularEvents, created, cancelled>>
        /\ UNCHANGED <<time, nextRunTime, waitLock, batch, nextEventAt, anyTime, owed>>
    BY <1>3 DEF Progress
  <2>2. TypeInv'
    BY <1>1, <2>1 DEF TypeInv, PC
  <2>. QED BY <1>2, <2>1, <2>2 DEF ConsistentInv
<1>4. CASE CollectRegular
  <2>1. UNCHANGED <<regularEvents, created, cancelled>>
    BY <1>4 DEF CollectRegular
  <2>. QED BY <1>1, <1>2, <1>4, <2>1, CollectTypes DEF ConsistentInv
<1>5. CASE RunRegular
  <2>1. /\ batch # <<>> /\ batch' = Tail(batch) /\ UNCHANGED <<regularEvents, created, cancelled>>
        /\ UNCHANGED <<time, now, nextRunTime, waitLock, pc, nextEventAt, anyTime, owed>>
    BY <1>5 DEF RunRegular
  <2>2. batch' \in Seq(Regular \cup Event)
    BY <1>1, <2>1, HeadTailProperties DEF TypeInv
  <2>3. TypeInv'
    BY <1>1, <2>1, <2>2 DEF TypeInv
  <2>. QED BY <1>2, <2>1, <2>3 DEF ConsistentInv
<1>6. CASE Decide
  <2>1. /\ pc' \in {"progress", "sleep", "wait", "ended"} /\ UNCHANGED <<regularEvents, created, cancelled>>
        /\ UNCHANGED <<time, now, nextRunTime, waitLock, batch, nextEventAt, anyTime, owed>>
    BY <1>6 DEF Decide
  <2>2. TypeInv'
    BY <1>1, <2>1 DEF TypeInv, PC
  <2>. QED BY <1>2, <2>1, <2>2 DEF ConsistentInv
<1>7. CASE Wait \/ TimeOut
  <2>1. /\ pc' = "progress" /\ UNCHANGED <<regularEvents, created, cancelled>>
        /\ waitLock' = waitLock \/ (waitLock > 0 /\ waitLock' = waitLock - 1)
        /\ UNCHANGED <<time, now, nextRunTime, batch, nextEventAt, anyTime, owed>>
    BY <1>7 DEF Wait, TimeOut
  <2>2. waitLock' \in Nat
    BY <1>1, <2>1 DEF TypeInv
  <2>3. TypeInv'
    BY <1>1, <2>1, <2>2 DEF TypeInv, PC
  <2>. QED BY <1>2, <2>1, <2>3 DEF ConsistentInv
<1>8. CASE CollectOnce \/ RunOnce \/ \E e \in Event : Run(e) \/ RunPromised(e)
  BY <1>8, OnceConsistent
<1>9. ASSUME NEW r \in Regular, Repeat(r) PROVE ConsistentInv'
  <2>1. /\ nextRunTime' = [nextRunTime EXCEPT ![r] = time + interval[r]] /\ waitLock' = waitLock + 1
        /\ UNCHANGED <<time, now, pc, batch, nextEventAt, anyTime, owed>>
    BY <1>9 DEF Repeat
  <2>2. time + interval[r] \in Nat /\ waitLock' \in Nat
    <3>1. time \in Nat /\ waitLock \in Nat /\ interval[r] \in Nat
      BY <1>1, IntervalAssumption DEF TypeInv
    <3>. QED BY <2>1, <3>1
  <2>3. nextRunTime' \in [Regular -> Nat]
    BY <1>1, <2>1, <2>2 DEF TypeInv
  <2>4. TypeInv'
    BY <1>1, <2>1, <2>2, <2>3 DEF TypeInv
  <2>. QED BY <1>1, <1>9, <2>4, RepeatList DEF ConsistentInv
<1>10. ASSUME NEW r \in Regular, Cancel(r) PROVE ConsistentInv'
  <2>1. UNCHANGED <<time, now, nextRunTime, waitLock, pc, batch, nextEventAt, anyTime, owed>>
    BY <1>10 DEF Cancel
  <2>2. TypeInv'
    BY <1>1, <2>1 DEF TypeInv
  <2>. QED BY <1>1, <1>10, <2>2, CancelList DEF ConsistentInv
<1>11. CASE Promise \/ Tick \/ UNCHANGED vars
  <2>1. /\ UNCHANGED <<regularEvents, created, cancelled>> /\ time' \in {time, time + 1}
        /\ UNCHANGED <<now, nextRunTime, waitLock, pc, batch, nextEventAt, anyTime, owed>>
    BY <1>11 DEF Promise, Tick, vars
  <2>2. time' \in Nat
    BY <1>1, <2>1 DEF TypeInv
  <2>3. TypeInv'
    BY <1>1, <2>1, <2>2 DEF TypeInv
  <2>. QED BY <1>2, <2>1, <2>3 DEF ConsistentInv
<1>. QED BY <1>3, <1>4, <1>5, <1>6, <1>7, <1>8, <1>9, <1>10, <1>11 DEF Next, Loop, Others

\* sys.thread.EventLoop: whoever adds and cancels events while the loop runs, its lists keep
\* their types, and one-time events run in the order they came.  As long as no handler is
\* cancelled twice, the linked list has every regular event that is not cancelled, once.
THEOREM ListsAreConsistent == Spec => []Consistent
<1>1. ConsistentInv /\ OnceInv => Consistent
  <2>. SUFFICES ASSUME ConsistentInv, OnceInv PROVE Consistent
    OBVIOUS
  <2>1. PendingFits /\ ArrayInv /\ HistoryInv /\ InOrder /\ TypeInv /\ ListInv
    BY PendingEvents DEF OnceInv, ConsistentInv
  <2>2. TypeOK
    BY <2>1 DEF TypeOK, PendingFits, ArrayInv, HistoryInv, TypeInv, ListInv
  <2>3. ListIsScheduled
    <3>. SUFFICES ASSUME ~CancelTwice
                  PROVE  /\ Ends(regularEvents) /\ Members(regularEvents) = created \ cancelled
                         /\ BackLinksFit(regularEvents)
      BY DEF ListIsScheduled
    <3>1. PICK s \in Seq(Regular) : /\ Linked(regularEvents, s)
                                    /\ {s[i] : i \in 1 .. Len(s)} = created \ cancelled
      BY <2>1 DEF ListInv, Scheduled
    <3>2. regularEvents \in List(Regular) /\ Linked(regularEvents, s)
      BY <2>1, <3>1 DEF ListInv
    <3>. QED BY <3>1, <3>2, EventsFit, LinkedChain
  <2>. QED BY <2>1, <2>2, <2>3 DEF Consistent
<1>2. ConsistentInv /\ OnceInv /\ OnceInv' /\ [Next]_vars => ConsistentInv'
  BY ConsistentStep
<1>. QED BY <1>1, <1>2, ConsistentInit, OnceAlways, PTL DEF Spec

-----------------------------------------------------------------------------
(* The main loop, for any events: the lemmas on lists, for its list.        *)

MainLists == INSTANCE RegularEventsProofs WITH Regular <- MainRegular

LEMMA MainFit == MainLists!RegularFit
BY MainAssumption DEF MainLists!RegularFit, MainLists!IsFiniteSet,
                      Main!ConstantsFit, Main!IsFiniteSet

\* The two modules have the same definitions of the list, by way of RegularEvents.
LEMMA SameLists ==
    /\ \A objects : /\ Main!List(objects) = MainLists!List(objects)
                    /\ Main!EmptyList(objects) = MainLists!EmptyList(objects)
    /\ \A list, r : /\ Main!Prepend(list, r) = MainLists!Prepend(list, r)
                    /\ Main!Unlink(list, r) = MainLists!Unlink(list, r)
BY DEF Main!List, MainLists!List, Main!EmptyList, MainLists!EmptyList,
       Main!Prepend, MainLists!Prepend, Main!Unlink, MainLists!Unlink

LEMMA SameSize == \A set : Main!Cardinality(set) = MainLists!Cardinality(set)
BY DEF Main!Cardinality, MainLists!Cardinality

LEMMA SameWalks ==
    \A list : /\ Main!Visited(list) = MainLists!Visited(list)
              /\ Main!Members(list) = MainLists!Members(list)
              /\ Main!Ends(list) = MainLists!Ends(list)
<1>1. \A list : Main!Visited(list) = MainLists!Visited(list)
  BY SameSize, Zenon DEF Main!Visited, MainLists!Visited, Main!After, MainLists!After
<1>. QED BY <1>1, SameSize DEF Main!Members, MainLists!Members, Main!Ends, MainLists!Ends

LEMMA SameChains ==
    \A list : /\ \A set : Main!Kept(Main!Chain(list), set) = MainLists!Kept(MainLists!Chain(list), set)
              /\ Main!BackLinksFit(list) = MainLists!BackLinksFit(list)
<1>1. \A seq, set : Main!Kept(seq, set) = MainLists!Kept(seq, set)
  BY DEF Main!Kept, MainLists!Kept
<1>2. \A list : Main!Chain(list) = MainLists!Chain(list)
  BY <1>1, SameSize, SameWalks DEF Main!Chain, MainLists!Chain
<1>. QED BY <1>1, <1>2 DEF Main!BackLinksFit, MainLists!BackLinksFit

-----------------------------------------------------------------------------
(* The main loop: its handler, which it cancels without knowing whether it is in the
   list, and which it has to inject again while an event needs it.          *)

\* The handler is the newest event of the list, or has been cancelled since.
HandlerInv ==
    \E s \in Seq(MainRegular) :
       /\ MainLists!Linked(mainEvents, s)
       /\ eventLoopHandler # NoEvent => MainLists!FirstOrGone(mainEvents, s, eventLoopHandler)

\* But for the time between the handler's cancelling itself and its end, the list is not
\* empty while a blocking event is pending.
AwakeInv ==
    mainPc \in {"main", "collect", "batch", "ended"} /\ Main!hasEvents => mainEvents.head # NoEvent

MainInv == Main!TypeOK /\ HandlerInv /\ AwakeInv

\* A new object is one that nothing refers to.
LEMMA NewIsOutOfUse ==
    ASSUME Main!New \in MainRegular
    PROVE  Main!New \notin Main!Members(mainEvents) /\ Main!New # eventLoopHandler
<1>1. \E r \in MainRegular \cup {NoEvent} :
         r \in MainRegular \ Main!InUse \/ (MainRegular \subseteq Main!InUse /\ r = NoEvent)
  OBVIOUS
<1>2. \/ Main!New \in MainRegular \ Main!InUse
      \/ MainRegular \subseteq Main!InUse /\ Main!New = NoEvent
  BY <1>1 DEF Main!New
<1>3. NoEvent \notin MainRegular
  BY MainFit DEF MainLists!RegularFit
<1>4. Main!New \notin Main!InUse
  BY <1>2, <1>3
<1>. QED BY <1>4 DEF Main!InUse

\* injectIntoEventLoop makes a new handler the first event of the list.
LEMMA InjectKeepsList ==
    ASSUME Main!TypeOK, HandlerInv, NEW waitTime \in {0, 1}, Main!Inject(waitTime)
    PROVE  /\ HandlerInv' /\ mainEvents' \in Main!List(MainRegular) /\ mainEvents'.head # NoEvent
           /\ mainInterval' \in [MainRegular -> {0, 1}] /\ ready' \subseteq MainRegular
           /\ eventLoopHandler' \in MainRegular
<1>. DEFINE r == Main!New
<1>1. /\ r \in MainRegular /\ eventLoopHandler' = r
      /\ mainEvents' = MainLists!Prepend([mainEvents EXCEPT !.previous[r] = NoEvent], r)
      /\ mainInterval' = [mainInterval EXCEPT ![r] = waitTime]
      /\ ready' = IF waitTime = 0 THEN ready \cup {r} ELSE ready \ {r}
  BY SameLists DEF Main!Inject
<1>2. /\ mainEvents \in MainLists!List(MainRegular)
      /\ mainInterval \in [MainRegular -> {0, 1}] /\ ready \subseteq MainRegular
  BY SameLists DEF Main!TypeOK
<1>3. PICK s \in Seq(MainRegular) : MainLists!Linked(mainEvents, s)
  BY DEF HandlerInv
<1>4. \A i \in 1 .. Len(s) : s[i] # r
  <2>1. r \notin MainLists!Members(mainEvents)
    BY <1>1, NewIsOutOfUse, SameWalks
  <2>2. MainLists!Members(mainEvents) = {s[i] : i \in 1 .. Len(s)}
    BY <1>2, <1>3, MainFit, MainLists!LinkedChain
  <2>. QED BY <2>1, <2>2
<1>. HIDE DEF r
<1>5. /\ mainEvents' \in MainLists!List(MainRegular) /\ mainEvents'.head = r
      /\ \E t \in Seq(MainRegular) : MainLists!Linked(mainEvents', t)
                                     /\ MainLists!FirstOrGone(mainEvents', t, r)
  BY <1>1, <1>2, <1>3, <1>4, MainFit, MainLists!PrependAgain
<1>6. HandlerInv'
  BY <1>1, <1>5 DEF HandlerInv
<1>7. mainEvents' \in Main!List(MainRegular) /\ mainEvents'.head # NoEvent
  BY <1>1, <1>5, MainFit, SameLists DEF MainLists!RegularFit
<1>. QED BY <1>1, <1>2, <1>6, <1>7

\* The injected function cancels the handler once more than it is in the list.
LEMMA CallKeepsList ==
    ASSUME Main!TypeOK, HandlerInv, Main!Call
    PROVE  HandlerInv' /\ mainEvents' \in Main!List(MainRegular)
<1>1. /\ mainEvents \in MainLists!List(MainRegular) /\ eventLoopHandler \in MainRegular \cup {NoEvent}
      /\ eventLoopHandler' = eventLoopHandler
      /\ mainEvents' = IF eventLoopHandler = NoEvent THEN mainEvents
                       ELSE MainLists!Unlink(mainEvents, eventLoopHandler)
  BY SameLists DEF Main!TypeOK, Main!Call
<1>2. CASE eventLoopHandler = NoEvent
  BY <1>1, <1>2, SameLists DEF HandlerInv
<1>3. CASE eventLoopHandler # NoEvent
  <2>1. PICK s \in Seq(MainRegular) : /\ MainLists!Linked(mainEvents, s)
                                      /\ MainLists!FirstOrGone(mainEvents, s, eventLoopHandler)
    BY <1>3 DEF HandlerInv
  <2>2. eventLoopHandler \in MainRegular
    BY <1>1, <1>3
  <2>3. /\ mainEvents' \in MainLists!List(MainRegular)
        /\ \E t \in Seq(MainRegular) : MainLists!Linked(mainEvents', t)
                                       /\ MainLists!FirstOrGone(mainEvents', t, eventLoopHandler)
    BY <1>1, <1>3, <2>1, <2>2, MainFit, MainLists!UnlinkAgain
  <2>. QED BY <1>1, <2>3, SameLists DEF HandlerInv
<1>. QED BY <1>2, <1>3

LEMMA MainInit == Main!Init => MainInv
<1>. SUFFICES ASSUME Main!Init PROVE MainInv
  OBVIOUS
<1>1. mainEvents = MainLists!EmptyList(MainRegular) /\ eventLoopHandler = NoEvent /\ pending = {}
  BY SameLists DEF Main!Init
<1>2. <<>> \in Seq(MainRegular) /\ Len(<<>>) = 0
  BY EmptySeq
<1>3. Main!TypeOK
  <2>1. mainEvents \in Main!List(MainRegular)
    BY <1>1, SameLists DEF MainLists!List, MainLists!EmptyList
  <2>. QED BY <1>2, <2>1 DEF Main!Init, Main!TypeOK
<1>4. HandlerInv
  <2>1. MainLists!Linked(mainEvents, <<>>)
    BY <1>1, <1>2 DEF MainLists!Linked, MainLists!EmptyList
  <2>. QED BY <1>1, <1>2, <2>1 DEF HandlerInv
<1>5. AwakeInv
  BY <1>1 DEF AwakeInv, Main!hasEvents
<1>. QED BY <1>3, <1>4, <1>5 DEF MainInv

\* Every step of the program, of the loop and of its injected function keeps this.
LEMMA MainStep == MainInv /\ [Main!Next]_Main!vars => MainInv'
<1>. SUFFICES ASSUME MainInv, [Main!Next]_Main!vars PROVE MainInv'
  OBVIOUS
<1>. USE DEF Main!eventVars, Main!loopVars
<1>1. Main!TypeOK /\ HandlerInv /\ AwakeInv
  BY DEF MainInv
<1>2. ASSUME UNCHANGED <<mainEvents, eventLoopHandler>> PROVE HandlerInv'
  BY <1>1, <1>2 DEF HandlerInv
<1>3. ASSUME NEW e \in MainEvent, Main!Add(e) PROVE MainInv'
  <2>1. /\ added' = added \cup {e} /\ pending' = pending \cup {e} /\ due' = due \cup {e}
        /\ Main!Inject(0) /\ UNCHANGED <<mainPc, mainBatch, visit, mainWait>>
    BY <1>3 DEF Main!Add
  <2>2. /\ HandlerInv' /\ mainEvents' \in Main!List(MainRegular) /\ mainEvents'.head # NoEvent
        /\ mainInterval' \in [MainRegular -> {0, 1}] /\ ready' \subseteq MainRegular
        /\ eventLoopHandler' \in MainRegular
    BY <1>1, <2>1, InjectKeepsList
  <2>3. Main!TypeOK'
    BY <1>1, <2>1, <2>2 DEF Main!TypeOK
  <2>. QED BY <2>2, <2>3 DEF MainInv, AwakeInv
<1>4. ASSUME NEW e \in MainEvent, Main!Stop(e) \/ Main!Delay(e) PROVE MainInv'
  <2>1. /\ pending' \subseteq pending /\ due' \subseteq due /\ due' \subseteq pending' /\ added' = added
        /\ UNCHANGED <<mainEvents, mainInterval, ready, eventLoopHandler, mainPc, mainBatch, visit,
                       mainWait>>
    BY <1>1, <1>4 DEF Main!Stop, Main!Delay, Main!TypeOK
  <2>2. Main!TypeOK'
    BY <1>1, <2>1 DEF Main!TypeOK
  <2>3. AwakeInv'
    BY <1>1, <2>1 DEF AwakeInv, Main!hasEvents
  <2>. QED BY <1>2, <2>1, <2>2, <2>3 DEF MainInv
<1>5. CASE Main!UserReturns
  <2>1. /\ mainPc' \in {"collect", "tick"} /\ (mainPc' = "collect" => mainPc = "main")
        /\ UNCHANGED <<pending, due, added, mainEvents, mainInterval, ready, eventLoopHandler,
                       mainBatch, visit, mainWait>>
    BY <1>5 DEF Main!UserReturns
  <2>2. Main!TypeOK'
    BY <1>1, <2>1 DEF Main!TypeOK
  <2>3. AwakeInv'
    BY <1>1, <2>1 DEF AwakeInv, Main!hasEvents
  <2>. QED BY <1>2, <2>1, <2>2, <2>3 DEF MainInv
<1>6. CASE Main!Collect
  <2>1. /\ mainPc = "collect" /\ mainPc' = "batch" /\ ready' \subseteq ready
        /\ mainBatch' = MainLists!Kept(MainLists!Chain(mainEvents), ready)
        /\ UNCHANGED <<pending, due, added, mainEvents, mainInterval, eventLoopHandler, visit, mainWait>>
    BY <1>6, SameChains DEF Main!Collect
  <2>2. mainBatch' \in Seq(MainRegular)
    <3>1. mainEvents \in MainLists!List(MainRegular) /\ ready \subseteq MainRegular
      BY <1>1, SameLists DEF Main!TypeOK
    <3>2. mainBatch' \in Seq(ready)
      BY <2>1, <3>1, MainFit, MainLists!KeptOfChain
    <3>. QED BY <3>1, <3>2, SeqMonotonic
  <2>3. Main!TypeOK'
    BY <1>1, <2>1, <2>2 DEF Main!TypeOK
  <2>4. AwakeInv'
    BY <1>1, <2>1 DEF AwakeInv, Main!hasEvents
  <2>. QED BY <1>2, <2>1, <2>3, <2>4 DEF MainInv
<1>7. CASE Main!End \/ Main!BatchEnds
  <2>1. /\ mainPc \in {"collect", "batch"} /\ mainPc' \in {"collect", "ended"}
        /\ UNCHANGED <<pending, due, added, mainEvents, mainInterval, ready, eventLoopHandler,
                       mainBatch, visit, mainWait>>
    BY <1>7 DEF Main!End, Main!BatchEnds
  <2>2. Main!TypeOK'
    BY <1>1, <2>1 DEF Main!TypeOK
  <2>3. AwakeInv'
    BY <1>1, <2>1 DEF AwakeInv, Main!hasEvents
  <2>. QED BY <1>2, <2>1, <2>2, <2>3 DEF MainInv
<1>8. CASE Main!Call
  <2>1. /\ mainBatch # <<>> /\ mainBatch' = Tail(mainBatch) /\ visit' = pending /\ mainWait' = 1
        /\ mainPc' = "tick"
        /\ UNCHANGED <<pending, due, added, mainInterval, ready, eventLoopHandler>>
    BY <1>8 DEF Main!Call
  <2>2. HandlerInv' /\ mainEvents' \in Main!List(MainRegular)
    BY <1>1, <1>8, CallKeepsList
  <2>3. mainBatch' \in Seq(MainRegular)
    BY <1>1, <2>1, HeadTailProperties DEF Main!TypeOK
  <2>4. Main!TypeOK'
    BY <1>1, <2>1, <2>2, <2>3 DEF Main!TypeOK
  <2>. QED BY <2>1, <2>2, <2>4 DEF MainInv, AwakeInv
<1>9. ASSUME NEW e \in MainEvent, Main!Tick(e) PROVE MainInv'
  <2>1. /\ mainPc' \in {"tick", "call"} /\ visit' \subseteq visit /\ mainWait' \in {0, mainWait}
        /\ UNCHANGED <<pending, due, added, mainEvents, mainInterval, ready, eventLoopHandler,
                       mainBatch>>
    BY <1>9 DEF Main!Tick
  <2>2. Main!TypeOK'
    BY <1>1, <2>1 DEF Main!TypeOK
  <2>. QED BY <1>2, <2>1, <2>2 DEF MainInv, AwakeInv
<1>10. CASE Main!TickEnds
  <2>1. /\ mainPc' = "batch" /\ UNCHANGED <<pending, due, added, mainBatch, visit, mainWait>>
    BY <1>10 DEF Main!TickEnds
  <2>2. CASE Main!hasEvents
    <3>1. Main!Inject(mainWait) /\ mainWait \in {0, 1}
      BY <1>1, <1>10, <2>2 DEF Main!TickEnds, Main!TypeOK
    <3>2. /\ HandlerInv' /\ mainEvents' \in Main!List(MainRegular) /\ mainEvents'.head # NoEvent
          /\ mainInterval' \in [MainRegular -> {0, 1}] /\ ready' \subseteq MainRegular
          /\ eventLoopHandler' \in MainRegular
      BY <1>1, <3>1, InjectKeepsList
    <3>3. Main!TypeOK'
      BY <1>1, <2>1, <3>2 DEF Main!TypeOK
    <3>. QED BY <3>2, <3>3 DEF MainInv, AwakeInv
  <2>3. CASE ~Main!hasEvents
    <3>1. UNCHANGED <<mainEvents, mainInterval, ready, eventLoopHandler>>
      BY <1>10, <2>3 DEF Main!TickEnds
    <3>2. Main!TypeOK'
      BY <1>1, <2>1, <3>1 DEF Main!TypeOK
    <3>3. AwakeInv'
      BY <2>1, <2>3 DEF AwakeInv, Main!hasEvents
    <3>. QED BY <1>2, <3>1, <3>2, <3>3 DEF MainInv
  <2>. QED BY <2>2, <2>3
<1>11. CASE Main!TimePasses
  <2>1. /\ due' = pending /\ ready' = Main!Members(mainEvents)
        /\ UNCHANGED <<pending, added, mainEvents, mainInterval, eventLoopHandler, mainPc,
                       mainBatch, visit, mainWait>>
    BY <1>11 DEF Main!TimePasses
  <2>2. ready' \subseteq MainRegular
    <3>1. mainEvents \in MainLists!List(MainRegular)
      BY <1>1, SameLists DEF Main!TypeOK
    <3>2. MainLists!Members(mainEvents) \subseteq MainRegular
      BY <3>1, MainFit, MainLists!ListedAreRegular
    <3>. QED BY <2>1, <3>2, SameWalks
  <2>3. Main!TypeOK'
    BY <1>1, <2>1, <2>2 DEF Main!TypeOK
  <2>4. AwakeInv'
    BY <1>1, <2>1 DEF AwakeInv, Main!hasEvents
  <2>. QED BY <1>2, <2>1, <2>3, <2>4 DEF MainInv
<1>12. CASE UNCHANGED Main!vars
  <2>1. UNCHANGED <<pending, due, added, mainEvents, mainInterval, ready, eventLoopHandler,
                    mainPc, mainBatch, visit, mainWait>>
    BY <1>12 DEF Main!vars
  <2>2. Main!TypeOK'
    BY <1>1, <2>1 DEF Main!TypeOK
  <2>3. AwakeInv'
    BY <1>1, <2>1 DEF AwakeInv, Main!hasEvents
  <2>. QED BY <1>2, <2>1, <2>2, <2>3 DEF MainInv
<1>. QED BY <1>3, <1>4, <1>5, <1>6, <1>7, <1>8, <1>9, <1>10, <1>11, <1>12
         DEF Main!Next, Main!Program, Main!Loop

\* haxe.MainLoop: whatever the events do to each other, the loop is not over, and is not
\* without a regular event when it looks for one, while a blocking event is pending; and its
\* list of regular events stays in order although handlers are cancelled again.
THEOREM MainLoopIsScheduled == Main!Spec => []PendingIsScheduled
<1>1. MainInv => PendingIsScheduled
  <2>. SUFFICES ASSUME MainInv PROVE PendingIsScheduled
    OBVIOUS
  <2>1. Main!TypeOK /\ HandlerInv /\ AwakeInv /\ mainEvents \in MainLists!List(MainRegular)
    BY SameLists DEF MainInv, Main!TypeOK
  <2>2. Main!PendingIsScheduled
    <3>. SUFFICES ASSUME mainPc \in {"collect", "ended"}, Main!hasEvents
                  PROVE  Main!Members(mainEvents) # {}
      BY DEF Main!PendingIsScheduled
    <3>1. mainEvents.head # NoEvent
      BY <2>1 DEF AwakeInv
    <3>2. mainEvents.head \in MainLists!Members(mainEvents)
      BY <2>1, <3>1, MainFit, MainLists!HeadIsListed
    <3>. QED BY <3>2, SameWalks
  <2>3. Main!HandlersStayLinked
    <3>1. PICK s \in Seq(MainRegular) :
             /\ MainLists!Linked(mainEvents, s)
             /\ eventLoopHandler # NoEvent =>
                   MainLists!FirstOrGone(mainEvents, s, eventLoopHandler)
      BY <2>1 DEF HandlerInv
    <3>2. /\ MainLists!Ends(mainEvents) /\ MainLists!BackLinksFit(mainEvents)
          /\ MainLists!Members(mainEvents) = {s[i] : i \in 1 .. Len(s)}
      BY <2>1, <3>1, MainFit, MainLists!LinkedChain
    <3>3. ASSUME eventLoopHandler \in {s[i] : i \in 1 .. Len(s)}
          PROVE  eventLoopHandler = mainEvents.head
      <4>1. eventLoopHandler # NoEvent
        <5>1. \A i \in 1 .. Len(s) : s[i] \in MainRegular
          BY <3>1, LenProperties
        <5>. QED BY <3>3, <5>1, MainFit DEF MainLists!RegularFit
      <4>2. Len(s) # 0 /\ s[1] = eventLoopHandler
        BY <3>1, <3>3, <4>1 DEF MainLists!FirstOrGone
      <4>. QED BY <3>1, <4>2 DEF MainLists!Linked
    <3>4. /\ Main!Ends(mainEvents) /\ Main!BackLinksFit(mainEvents)
          /\ Main!Members(mainEvents) = {s[i] : i \in 1 .. Len(s)}
      BY <3>2, SameWalks, SameChains
    <3>. QED BY <3>3, <3>4 DEF Main!HandlersStayLinked
  <2>. QED BY <2>1, <2>2, <2>3 DEF PendingIsScheduled
<1>. QED BY <1>1, MainInit, MainStep, PTL DEF Main!Spec
=============================================================================
