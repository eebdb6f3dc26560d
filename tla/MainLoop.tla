------------------------------ MODULE MainLoop ------------------------------
(***************************************************************************)
(* haxe.MainLoop on targets with threads: the pending MainEvents are run by  *)
(* tick, which is called by a regular event of the main thread's EventLoop.  *)
(* That regular event is there for one call: it cancels eventLoopHandler and *)
(* has itself injected again while there are events.                         *)
(*                                                                          *)
(* Only the main thread acts.  Times are told apart as due and not yet due.  *)
(***************************************************************************)
EXTENDS RegularEvents

CONSTANTS
    MainEvent,      \* MainEvent objects, each may be added once
    Blocking        \* those with isBlocking

\* Assumed by the modules that run a main loop.
ConstantsFit == /\ Blocking \subseteq MainEvent
                /\ IsFiniteSet(Regular) /\ NoEvent \notin Regular

VARIABLES
    pending,        \* events that have been added and not been stopped
    due,            \* those of them whose nextRun is not in the future
    added,          \* history
    regularEvents,  \* the EventLoop's list
    interval,       \* per regular event: 0 or 1 (later)
    ready,          \* regular events whose nextRunTime has come
    eventLoopHandler,
    pc,             \* "main", "collect", "batch", "tick", "call" or "ended"
    batch,          \* regular events that loop has collected
    visit,          \* events tick has still to look at
    wait            \* what tick will return: 0, or 1 (later)

eventVars == <<pending, due, added>>
loopVars  == <<regularEvents, interval, ready, eventLoopHandler>>
vars == <<eventVars, loopVars, pc, batch, visit, wait>>

TypeOK ==
    /\ due \subseteq pending /\ pending \subseteq added /\ added \subseteq MainEvent
    /\ regularEvents \in List(Regular) /\ interval \in [Regular -> {0, 1}] /\ ready \subseteq Regular
    /\ eventLoopHandler \in Regular \cup {NoEvent}
    /\ pc \in {"main", "collect", "batch", "tick", "call", "ended"}
    /\ batch \in Seq(Regular) /\ visit \subseteq MainEvent /\ wait \in {0, 1}

Init == /\ pending = {} /\ due = {} /\ added = {}
        /\ regularEvents = EmptyList(Regular) /\ interval = [r \in Regular |-> 0] /\ ready = {}
        /\ eventLoopHandler = NoEvent
        /\ pc = "main" /\ batch = <<>> /\ visit = {} /\ wait = 0

-----------------------------------------------------------------------------
\* Objects that are in use, or that an object in use has a link to.
InUse ==
    LET Known == Members(regularEvents) \cup {eventLoopHandler}
                   \cup {batch[i] : i \in DOMAIN batch}
    IN  Known \cup {regularEvents.next[r] : r \in Known \ {NoEvent}}
              \cup {regularEvents.previous[r] : r \in Known \ {NoEvent}}

\* A new object: one that is out of use, with its links cleared when it is used.
New == CHOOSE r \in Regular \cup {NoEvent} :
          r \in Regular \ InUse \/ (Regular \subseteq InUse /\ r = NoEvent)

\* Mutant: the handler that is cancelled stays the first one there was.
Inject_KeepsHandler(waitTime) ==
    LET r == New IN
    /\ r \in Regular
    /\ regularEvents' = Prepend([regularEvents EXCEPT !.previous[r] = NoEvent], r)
    /\ interval' = [interval EXCEPT ![r] = waitTime]
    /\ ready' = IF waitTime = 0 THEN ready \cup {r} ELSE ready \ {r}
    /\ eventLoopHandler' = IF eventLoopHandler = NoEvent THEN r ELSE eventLoopHandler

\* injectIntoEventLoop.
Inject(waitTime) ==
    LET r == New IN
    /\ r \in Regular
    /\ regularEvents' = Prepend([regularEvents EXCEPT !.previous[r] = NoEvent], r)
    /\ interval' = [interval EXCEPT ![r] = waitTime]
    /\ ready' = IF waitTime = 0 THEN ready \cup {r} ELSE ready \ {r}
    /\ eventLoopHandler' = r

-----------------------------------------------------------------------------
(* What the program does, in main or while one of its events is called.     *)

User == pc = "main" \/ pc = "call"

Add(e) ==
    /\ User /\ e \notin added
    /\ added' = added \cup {e} /\ pending' = pending \cup {e} /\ due' = due \cup {e}
    /\ Inject(0)
    /\ UNCHANGED <<pc, batch, visit, wait>>

Stop(e) ==
    /\ User /\ e \in pending
    /\ pending' = pending \ {e} /\ due' = due \ {e}
    /\ UNCHANGED <<added, loopVars, pc, batch, visit, wait>>

Delay(e) ==
    /\ User /\ e \in due
    /\ due' = due \ {e}
    /\ UNCHANGED <<pending, added, loopVars, pc, batch, visit, wait>>

UserReturns ==
    /\ User
    /\ pc' = IF pc = "main" THEN "collect" ELSE "tick"
    /\ UNCHANGED <<eventVars, loopVars, batch, visit, wait>>

TimePasses ==
    /\ ~User /\ (due # pending \/ ready # Members(regularEvents))
    /\ due' = pending /\ ready' = Members(regularEvents)
    /\ UNCHANGED <<pending, added, regularEvents, interval, eventLoopHandler, pc, batch,
                   visit, wait>>

-----------------------------------------------------------------------------
(* EventLoop.loop, and the regular event that MainLoop injects.             *)

Collect ==
    /\ pc = "collect" /\ Members(regularEvents) \cap ready # {}
    /\ batch' = Kept(Chain(regularEvents), ready)
    /\ ready' = {r \in ready : r \in Members(regularEvents) => interval[r] = 0}
    /\ pc' = "batch"
    /\ UNCHANGED <<eventVars, regularEvents, interval, eventLoopHandler, visit, wait>>

\* No regular event is left.
End ==
    /\ pc = "collect" /\ Members(regularEvents) = {}
    /\ pc' = "ended"
    /\ UNCHANGED <<eventVars, loopVars, batch, visit, wait>>

BatchEnds ==
    /\ pc = "batch" /\ batch = <<>>
    /\ pc' = "collect"
    /\ UNCHANGED <<eventVars, loopVars, batch, visit, wait>>

\* Mutant: the handler is not cancelled.
Call_NoCancel ==
    /\ pc = "batch" /\ batch # <<>>
    /\ batch' = Tail(batch)
    /\ visit' = pending /\ wait' = 1
    /\ pc' = "tick"
    /\ UNCHANGED <<eventVars, regularEvents, interval, ready, eventLoopHandler>>

\* The injected function, up to tick.
Call ==
    /\ pc = "batch" /\ batch # <<>>
    /\ batch' = Tail(batch)
    /\ regularEvents' = IF eventLoopHandler = NoEvent THEN regularEvents
                        ELSE Unlink(regularEvents, eventLoopHandler)
    /\ visit' = pending /\ wait' = 1
    /\ pc' = "tick"
    /\ UNCHANGED <<eventVars, interval, ready, eventLoopHandler>>

\* tick looks at the next event.  One that has been stopped is not called.
Tick(e) ==
    /\ pc = "tick" /\ e \in visit
    /\ visit' = visit \ {e}
    /\ IF e \in due \/ e \notin pending
         THEN wait' = 0 /\ pc' = IF e \in pending THEN "call" ELSE pc
         ELSE UNCHANGED <<wait, pc>>
    /\ UNCHANGED <<eventVars, loopVars, batch>>

hasEvents == pending \cap Blocking # {}

\* Mutant: the handler is injected while an event is due only.
TickEnds_Due ==
    /\ pc = "tick" /\ visit = {}
    /\ IF wait = 0 /\ hasEvents THEN Inject(wait) ELSE UNCHANGED loopVars
    /\ pc' = "batch"
    /\ UNCHANGED <<eventVars, batch, visit, wait>>

\* The rest of the injected function.
TickEnds ==
    /\ pc = "tick" /\ visit = {}
    /\ IF hasEvents THEN Inject(wait) ELSE UNCHANGED loopVars
    /\ pc' = "batch"
    /\ UNCHANGED <<eventVars, batch, visit, wait>>

Loop == Collect \/ End \/ BatchEnds \/ Call \/ (\E e \in MainEvent : Tick(e)) \/ TickEnds

Program == \E e \in MainEvent : Add(e) \/ Stop(e) \/ Delay(e)

Next == Program \/ UserReturns \/ Loop \/ TimePasses

\* The main thread runs, main and the events return, and time goes by.
Fairness == WF_vars(Loop) /\ WF_vars(UserReturns) /\ WF_vars(TimePasses)

Spec == Init /\ [][Next]_vars /\ Fairness

-----------------------------------------------------------------------------
(* Properties.                                                              *)

\* The loop does not end, or forget its events, while a blocking one is pending,
\* although the handler that is cancelled may not be the one that is running.
PendingIsScheduled ==
    pc \in {"collect", "ended"} /\ hasEvents => Members(regularEvents) # {}

\* A handler may be cancelled when it is out of the list, with the links it had in it,
\* and none of the other events comes to harm: the list ends, each link back undoes a
\* link forward, and if the handler is in it, it is the newest.
HandlersStayLinked ==
    /\ Ends(regularEvents) /\ BackLinksFit(regularEvents)
    /\ eventLoopHandler \in Members(regularEvents) => eventLoopHandler = regularEvents.head

\* While some blocking event is not stopped, events are called again and again.
PendingEventsRun == hasEvents ~> (pc = "call" \/ ~hasEvents)

\* When no blocking event is left (isBlocking: the event can keep the process from
\* exiting), the loop ends.
ExitsWhenStopped == <>[]~hasEvents => <>(pc = "ended")

\* It does if a single event is ever added.
ExitsAfterOneAdd == [](Cardinality(added) <= 1) => ExitsWhenStopped
=============================================================================
