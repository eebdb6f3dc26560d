------------------------------- MODULE Process -------------------------------
(***************************************************************************)
(* Sub processes of the macro interpreter (libs/extc/process_stubs.c, the    *)
(* POSIX side): pipes are descriptors of the compiler, children inherit     *)
(* every descriptor that is open when they are started, and reads, writes   *)
(* and waits block the compiler, whose runtime lock they hold.              *)
(***************************************************************************)
EXTENDS Integers, FiniteSets, Functions

CONSTANTS
    Proc,           \* vprocess handles, numbers, and the children they stand for
    Free,           \* no descriptor, no call
    DescriptorLimits,   \* numbers of descriptors a process may have
    PipeSize,       \* bound: what a pipe holds
    MaxBytes        \* bound: what a child or its parent writes, per stream

Stream == {"input", "output", "error"}
End == Proc \X Stream \X {"r", "w"}

\* RLIMIT_NOFILE is a number, and a descriptor that is Free is no end of a pipe.
ASSUME DescriptorsAssumption == DescriptorLimits \subseteq Nat /\ Free \notin End

VARIABLES
    limit,          \* RLIMIT_NOFILE
    fds,            \* the compiler's descriptors from 3 on: an end of a pipe or Free
    status,         \* per handle: "new", "failed" to run, "open" or "closed"
    iwrite, oread, eread,   \* the descriptors of vprocess
    child,          \* per handle: "none", "runs", "zombie" or "reaped"
    killed,         \* children that have died by a signal
    ends,           \* per child: the ends of pipes it holds
    bytes,          \* per handle and stream: what is in the pipe
    written,        \* per handle and stream: what has been written to it
    call,           \* the call that blocks the compiler, <<operation, handle>> or Free
    ret,            \* per handle: what the last call of process_exit gave
    dead            \* the compiler was killed by SIGPIPE

subVars == <<limit, fds, status, iwrite, oread, eread, child, killed, ends, bytes, written, call,
             ret, dead>>

Alive(p) == child[p] = "runs"

\* Somebody has the end open.
Open(e) == e \in Range(fds) \/ \E p \in Proc : Alive(p) /\ e \in ends[p]

ProcessInit ==
    /\ limit \in DescriptorLimits
    /\ fds = [fd \in 3..limit - 1 |-> Free]
    /\ status = [p \in Proc |-> "new"]
    /\ iwrite = [p \in Proc |-> -1] /\ oread = iwrite /\ eread = iwrite
    /\ child = [p \in Proc |-> "none"]
    /\ killed = {}
    /\ ends = [p \in Proc |-> {}]
    /\ bytes = [p \in Proc |-> [s \in Stream |-> 0]]
    /\ written = bytes
    /\ call = Free
    /\ ret = [p \in Proc |-> "none"]
    /\ dead = FALSE

\* The compiler is not in a call, and the handle may be used.
Idle == call = Free /\ ~dead
Usable(p) == Idle /\ status[p] = "open"

\* Handles are made in their order.
New(p) == Idle /\ status[p] = "new" /\ \A q \in Proc : q < p => status[q] # "new"

-----------------------------------------------------------------------------
(* process_run.                                                             *)

Unused == {fd \in DOMAIN fds : fds[fd] = Free}

\* Descriptors are given out the lowest first.
Place(fd) == Cardinality({f \in Unused : f <= fd})
Lowest(k) == CHOOSE fd \in Unused : Place(fd) = k

\* Both ends of the three pipes as they are made.
PipeEnds(p) == <<<<p, "input", "r">>, <<p, "input", "w">>, <<p, "output", "r">>,
                 <<p, "output", "w">>, <<p, "error", "r">>, <<p, "error", "w">>>>

\* The descriptors after the first n ends have been given theirs.
WithPipes(p, n) == [fd \in DOMAIN fds |-> IF fd \in Unused /\ Place(fd) <= n
                                          THEN PipeEnds(p)[Place(fd)] ELSE fds[fd]]

\* do_close.
Close(table, which) == [fd \in DOMAIN table |-> IF fd \in which THEN Free ELSE table[fd]]

\* What the child closes before it becomes the program.
\* Mutant: it forgets the end its parent writes to.
ClosedByChild_NotInput(p) == {<<p, "output", "r">>, <<p, "error", "r">>}

ClosedByChild(p) == {<<p, "input", "w">>, <<p, "output", "r">>, <<p, "error", "r">>}

\* The places of its ends among the six that the parent closes.
\* Mutant: it keeps the one its child writes to.
ClosedByParent_NotOutput == {1, 6}

ClosedByParent == {1, 4, 6}

\* A pipe cannot be made: those before it stay open.
PipeFails(p) ==
    /\ New(p) /\ Cardinality(Unused) < 6
    /\ fds' = WithPipes(p, 2 * (Cardinality(Unused) \div 2))
    /\ status' = [status EXCEPT ![p] = "failed"]
    /\ UNCHANGED <<limit, iwrite, oread, eread, child, killed, ends, bytes, written, call, ret, dead>>

ForkFails(p) ==
    /\ New(p) /\ Cardinality(Unused) >= 6
    /\ status' = [status EXCEPT ![p] = "failed"]
    /\ UNCHANGED <<limit, fds, iwrite, oread, eread, child, killed, ends, bytes, written, call, ret, dead>>

Run(p) ==
    /\ New(p) /\ Cardinality(Unused) >= 6
    /\ ends' = [ends EXCEPT ![p] = (Range(WithPipes(p, 6)) \ {Free}) \ ClosedByChild(p)]
    /\ child' = [child EXCEPT ![p] = "runs"]
    /\ fds' = Close(WithPipes(p, 6), {Lowest(k) : k \in ClosedByParent})
    /\ iwrite' = [iwrite EXCEPT ![p] = Lowest(2)]
    /\ oread' = [oread EXCEPT ![p] = Lowest(3)]
    /\ eread' = [eread EXCEPT ![p] = Lowest(5)]
    /\ status' = [status EXCEPT ![p] = "open"]
    /\ UNCHANGED <<limit, killed, bytes, written, call, ret, dead>>

-----------------------------------------------------------------------------
(* The other calls.  A signal makes them start again: they stay where they  *)
(* are.                                                                     *)

Call(op, p) == /\ Usable(p) /\ call' = <<op, p>>
               /\ UNCHANGED <<limit, fds, status, iwrite, oread, eread, child, killed, ends,
                              bytes, written, ret, dead>>

StdoutRead(p) == Call("output", p)
StderrRead(p) == Call("error", p)
StdinWrite(p) == iwrite[p] # -1 /\ written[p]["input"] < MaxBytes["input"] /\ Call("input", p)
Exit(p) == Call("exit", p)

In(op, p) == call = <<op, p>> /\ ~dead

\* The pipe at the other end of a descriptor.
Of(fd) == <<fds[fd][1], fds[fd][2]>>

ReadFrom(p, s) == IF s = "output" THEN oread[p] ELSE eread[p]

\* read gives bytes, or nothing when nobody can write any more.
Read(p, s) ==
    /\ In(s, p) /\ s # "input"
    /\ LET pipe == Of(ReadFrom(p, s))
           q == pipe[1]  t == pipe[2]
       IN  IF bytes[q][t] > 0
             THEN \E n \in 1..bytes[q][t] : bytes' = [bytes EXCEPT ![q][t] = @ - n]
             ELSE ~Open(<<q, t, "w">>) /\ UNCHANGED bytes
    /\ call' = Free
    /\ UNCHANGED <<limit, fds, status, iwrite, oread, eread, child, killed, ends,
                   written, ret, dead>>

\* write waits for room; without a reader the compiler gets SIGPIPE.
Write(p) ==
    /\ In("input", p)
    /\ LET q == Of(iwrite[p])[1]
       IN  \/ /\ Open(<<q, "input", "r">>) /\ bytes[q]["input"] < PipeSize
              /\ bytes' = [bytes EXCEPT ![q]["input"] = @ + 1]
              /\ written' = [written EXCEPT ![q]["input"] = @ + 1]
              /\ UNCHANGED dead
           \/ /\ ~Open(<<q, "input", "r">>)
              /\ dead' = TRUE
              /\ UNCHANGED <<bytes, written>>
    /\ call' = Free
    /\ UNCHANGED <<limit, fds, status, iwrite, oread, eread, child, killed, ends, ret>>

\* Mutant: the number stays in the handle.
StdinClose_KeepsNumber(p) ==
    /\ Usable(p) /\ iwrite[p] # -1
    /\ fds' = Close(fds, {iwrite[p]})
    /\ UNCHANGED <<limit, iwrite, status, oread, eread, child, killed, ends, bytes, written, call, ret, dead>>

StdinClose(p) ==
    /\ Usable(p) /\ iwrite[p] # -1
    /\ fds' = Close(fds, {iwrite[p]})
    /\ iwrite' = [iwrite EXCEPT ![p] = -1]
    /\ UNCHANGED <<limit, status, oread, eread, child, killed, ends, bytes, written, call, ret, dead>>

\* Mutant: without a child to wait for, waitpid is called again.
WaitPid_Again(p) ==
    /\ In("exit", p) /\ child[p] = "zombie"
    /\ ret' = [ret EXCEPT ![p] = IF p \notin killed THEN "code" ELSE "error"]
    /\ child' = [child EXCEPT ![p] = "reaped"]
    /\ call' = Free
    /\ UNCHANGED <<limit, fds, status, iwrite, oread, eread, killed, ends, bytes, written, dead>>

\* process_exit: a child is reaped once, and one that was killed has no code.
WaitPid(p) ==
    /\ In("exit", p) /\ child[p] # "runs"
    /\ ret' = [ret EXCEPT ![p] = IF child[p] = "zombie" /\ p \notin killed THEN "code" ELSE "error"]
    /\ child' = [child EXCEPT ![p] = "reaped"]
    /\ call' = Free
    /\ UNCHANGED <<limit, fds, status, iwrite, oread, eread, killed, ends, bytes, written, dead>>

\* free_process: a number that is none is refused by close.
CloseProcess(p) ==
    /\ Usable(p)
    /\ fds' = Close(fds, {eread[p], oread[p], iwrite[p]})
    /\ status' = [status EXCEPT ![p] = "closed"]
    /\ ret' = [ret EXCEPT ![p] = "none"]
    /\ UNCHANGED <<limit, iwrite, oread, eread, child, killed, ends, bytes, written, call, dead>>

Ends(p, signal) ==
    /\ child' = [child EXCEPT ![p] = "zombie"]
    /\ killed' = IF signal THEN killed \union {p} ELSE killed
    /\ UNCHANGED <<limit, fds, status, iwrite, oread, eread, ends, bytes, written, call, ret, dead>>

Kill(p) == Usable(p) /\ Alive(p) /\ Ends(p, TRUE)

-----------------------------------------------------------------------------
(* The programs.                                                            *)

ChildReads(p) ==
    /\ Alive(p) /\ bytes[p]["input"] > 0
    /\ bytes' = [bytes EXCEPT ![p]["input"] = @ - 1]
    /\ UNCHANGED <<limit, fds, status, iwrite, oread, eread, child, killed, ends, written, call, ret, dead>>

ChildWrites(p, s) ==
    /\ Alive(p) /\ s # "input" /\ written[p][s] < MaxBytes[s]
    /\ Open(<<p, s, "r">>) /\ bytes[p][s] < PipeSize
    /\ bytes' = [bytes EXCEPT ![p][s] = @ + 1]
    /\ written' = [written EXCEPT ![p][s] = @ + 1]
    /\ UNCHANGED <<limit, fds, status, iwrite, oread, eread, child, killed, ends, call, ret, dead>>

ChildEnds(p) == Alive(p) /\ \E signal \in BOOLEAN : Ends(p, signal)

ProcessReturns ==
    \E p \in Proc : Read(p, "output") \/ Read(p, "error") \/ Write(p) \/ WaitPid(p)

ProcessNext ==
    \/ ProcessReturns
    \/ \E p \in Proc :
         \/ PipeFails(p) \/ ForkFails(p) \/ Run(p) \/ Kill(p) \/ CloseProcess(p)
         \/ StdoutRead(p) \/ StderrRead(p) \/ StdinWrite(p) \/ StdinClose(p) \/ Exit(p)
         \/ ChildReads(p) \/ ChildEnds(p)
         \/ \E s \in Stream : ChildWrites(p, s)

\* A call whose answer is there returns; programs need not do anything.
ProcessSpec == ProcessInit /\ [][ProcessNext]_subVars /\ WF_subVars(ProcessReturns)

-----------------------------------------------------------------------------
(* Properties.                                                              *)

\* The descriptors of vprocess are ends of its own pipes for as long as the
\* handle may be used, whichever numbers have been given back and out again
\* meanwhile, and the compiler has no others but those of runs that failed
\* for want of one.
OwnDescriptors ==
    /\ \A p \in Proc : status[p] = "open" =>
         /\ fds[oread[p]] = <<p, "output", "r">>
         /\ fds[eread[p]] = <<p, "error", "r">>
         /\ iwrite[p] # -1 => fds[iwrite[p]] = <<p, "input", "w">>
    /\ \A fd \in DOMAIN fds : fds[fd] # Free =>
         LET p == fds[fd][1]
         IN  \/ status[p] = "failed"
             \/ status[p] = "open" /\ fd \in {oread[p], eread[p], iwrite[p]}

\* A call for a child that has ended returns: a read comes to the end of what was
\* written, whatever other children run.
CallsReturn == \A p \in Proc : \A op \in {"output", "error", "exit"} :
                 (In(op, p) /\ child[p] # "runs") ~> ~In(op, p)

\* Children that can write to the input of another one: they were started while
\* the compiler could.
Heirs(p) == {q \in Proc \ {p} : Alive(q) /\ <<p, "input", "w">> \in ends[q]}

\* A program whose input is closed finds its end: nobody but another child that
\* was started before it was closed, and still runs, can write to it.
InputEnds == \A p \in Proc :
    (status[p] = "closed" \/ (status[p] = "open" /\ iwrite[p] = -1)) =>
        (Open(<<p, "input", "w">>) => Heirs(p) # {})

\* "If the process has already exited, return the exit code immediately"
\* (std/sys/io/Process.hx).
ExitCodeIsKept == \A p \in Proc \ killed : ret[p] # "error"
=============================================================================
