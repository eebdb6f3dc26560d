# Haxe: a formal model of the compilation server, the thread library and the native code

This directory holds a TLA+ development kept beside the Haxe toolkit: the
compiler (OCaml, `src/src`), the C code it is linked with (`src/libs`) and the
standard library (Haxe and C++, `src/std`).  It models the parts of the code whose correctness depends on state that lives from
one step to the next (caches, marks, queues, locks) and on orders of events that
no test spells out.

## 1. Inventory

| Component | State it keeps | Operations | Hard behaviour | What makes it correct |
|---|---|---|---|---|
| Module cache (`compiler/server.ml`, `context/compilationServer.ml`, `typing/typeloadModule.ml`) | typed modules with `m_time`, `m_dirty`, `m_mark`, `m_added`, `m_deps`; `mark_loop`, `compilation_step`, `compilation_mark` | `type_module` (look up, `check`, `add_modules`), `make_module`, `flush`/`cache_context`, `taint_modules` | cyclic graphs, objects superseded but still referred to, requests cut off by exceptions, edits while compiling | a cached build equals a fresh one; one object per path in a compilation |
| Parser cache (`context_cache.files`, `removed_files`) | declarations per file and the time they were read | `parse_file`, `cache_file`, `remove_file`, class path exploration | refreshed by display requests independently of the module cache | cached declarations are those of the file |
| Class path directories (`get_changed_directories`) | directory mtimes per signature, changed directories of the request, delays | `stat`, add/remove directory, `run_delays`, `clear_directories` | a change is consumed by the request that sees it; directories are recorded after the compilation | a module shadowed by a new file is not reused |
| Server loop and tasks (`wait_loop`, `server_task`, `core/ds/priorityQueue.ml`, `ring.ml`) | priority queue of tasks, ring of allocation sizes | accept, process, run a task, non-blocking read | tasks must not starve requests, nor be lost when a task adds tasks | every task runs once, by priority; a request is served before further tasks |
| Typer passes (`context/typecore.ml`: `delay`, `flush_pass`) | queue of delayed functions per pass | `delay`, `delay_late`, `flush_pass`, `make_pass` | re-entrant flushes | passes run in order, each delayed function once |
| Unification (`core/tUnification.ml`, `core/monomorph`) | monomorph bindings and constraints | `bind`, `unify`, `close` | recursive types, rollback | no cyclic binding; closed monomorphs satisfy their constraints |
| DCE (`optimization/dce.ml`) | worklist of used fields | `mark_*`, `expr`, sweep | worklist fixpoint over overrides and features | nothing reachable is removed |
| Macro interpreter `eval` (`macro/eval`), its debugger | thread table, deques, locks; breakpoints, debug state | thread create/join, `Deque.pop`, debugger commands | real OCaml threads; a debugger socket thread beside the program | no lost wakeup; a breakpoint stops the thread it should |
| Thread primitives (`std/sys/thread`, per target: `std/cs`, `std/java`, `std/python`, `std/hl`, ...) | counters, queues, waiters | `Lock.wait/release`, `Mutex`, `Deque.add/pop`, `Semaphore` | interleaving of threads, timeouts | a release is never lost, a wait never returns without one |
| Thread pools (`FixedThreadPool`, `ElasticThreadPool`) | task queue, worker states, shutdown flag | `run`, `shutdown`, worker loop, worker death | submission racing with shutdown and with a worker going idle | every submitted task runs exactly once |
| Event loop (`sys.thread.EventLoop`, `haxe.MainLoop`, `haxe.EntryPoint`, `haxe.Timer`) | one-time events, promised count, sorted regular events, wait lock | `repeat`, `cancel`, `promise`, `run`, `runPromised`, `progress`, `wait`, `loop` | events posted from other threads, cancelled while running, promised and late | posted events run; cancelled ones do not; the loop ends exactly when nothing is left |
| Sub processes (`libs/extc/process_stubs.c`) | descriptors, child, per handle; on Windows a buffer for the command line | `process_run`, `process_stdout_read`, `process_stdin_write`, `process_stdin_close`, `process_exit`, `process_kill`, `process_close` | children inherit what is open, numbers are used again, calls block the whole compiler, signals interrupt them | a handle's descriptors are its own; reads and waits for a program that has ended return; arguments arrive as they were given |
| Sizes of values (`libs/objsize`) | colours in the headers of the heap, a run-length coded log of them in an array of bits | `ml_objsize`: mark, walk, unmark, look for, walk back | cyclic heaps, shared blocks, a log written and read in the same order by two walks | every colour is put back; each block counts once |
| Regular expressions (`libs/pcre`) | compiled pattern, `pcre_extra` with study data and limits, the array of offsets | `Pcre.regexp`, `pcre_exec_stub`, `pcre_callout_handler` | offsets converted in place to words twice as wide; callouts in the middle of a match that may raise | offsets are the library's, unset groups are unset; limits bound every match |
| Xml parser of cpp (`std/cpp/NativeXmlImport.cpp`) | per call: state, next state, start of token, attributes | `parse_xml`, callbacks of `NativeXmlState` | a machine that looks ahead, and calls itself for contents | callbacks are those of the text; malformed texts are refused; it stays within the text |
| TLS stubs (`libs/mbedtls`), other stubs of `libs/extc` | the library's | one stub per function | pure conversions | out of scope |
| Lexer and parser (`syntax`), typing of expressions, filters, optimizer, generators (`generators`, `codegen`), `haxelib`-facing code, the rest of `std` | per-compilation data | pure translations | data, not interleaving | out of TLC's reach |

Interactions: the server loop calls `init_new_compilation`, then the compiler,
which calls back into the server through two hooks (`TypeloadParse.parse_hook`
for files, `TypeloadModule.type_module_hook` for modules) and through
`ctx.flush` at the end.  Display requests use the same two caches and leave by an
exception.  Threads of a Haxe program share locks, deques, pools and event loops;
pools and event loops are built on the first two.  Macros reach sub processes and
regular expressions through the interpreter, and the server reports the sizes of its
caches through objsize; such a call keeps the OCaml runtime to itself until it returns,
so that nothing else of the compiler happens meanwhile.  The Xml parser is part of
programs compiled to C++.

## 2. Plan

Done:

1. `FreshBuild` (abstract), `ModuleCache`, `MCModuleCache`, `ModuleCacheProofs`,
   `FreshBuildProofs`: the core of the compilation server.
2. `LockSpec` (abstract), `JavaLock`, `CsLock`, `LockProofs`: one Lock, two
   implementations.
3. `ThreadPool` (abstract), `FixedThreadPool`, `ElasticThreadPool`, `ThreadPoolProofs`:
   one promise, two pools that keep it.
4. `RegularEvents` (the linked list), `EventLoop` and `MainLoop`, which share it;
   `RegularEventsProofs` (lemmas on the list) and `EventLoopProofs`.
5. `ClassPathCache`: the directories of the class paths, the changed ones of a
   request, the delays that record them, and shadowing; `ClassPathCacheProofs`.  It is
   about what `ModuleCache` takes as given: which file is the file of a module.
6. `ColorLog` and `ObjSize`, `Process` and `CommandLine`, `PcreExec`, `XmlTexts` and
   `NativeXml`: the native code, each a component of its own; `NativeCallsProofs`.

To do, most important first:

7. `ServerTasks`: the priority queue (a leftist heap, against a bag), the ring, and
   the part of `wait_loop` that runs tasks between reads.
8. Typer passes (`delay`, `flush_pass`), then the threads of `eval` and its debugger.
9. Python's, HashLink's and C++'s Lock where they have logic of their own, `Deque`,
   and `haxe.EntryPoint`.


## 3. Models

Conventions.  State and actions have the names of the source where TLA+ allows it.
Operators whose name has an underscore after the name of another
(`LookUp_OneMark`) are plausible mistakes in the code of that other one; no
specification uses them.  A variable called history is read by properties and never
by a guard.

### 3.1 ModuleCache

The state is what survives in the server (the two caches, the marks on the module
objects, the counters of `ServerCompilationContext`) and what a compilation has
(`ctx.g.modules`, the loads its typer still has to make, the walk of `check`).
`disk` is outside; so is `clock`, whose seconds become modification times.

| Model | Code |
|---|---|
| `modules`, `files`, `removed_files`, `initialized` | `context_cache` of one signature |
| `m_time`, `m_dirty`, `m_mark`, `m_added`, `m_deps` of an object `1..MaxModules` | `module_def_extra`, by `m_id` |
| `g_modules`, `pending`, `target` | `ctx.g.modules`; imports whose `load_module` is to come; the one that is in progress |
| `stack` | the activations of the recursive `check`; a frame holds the dependencies it has still to check |
| `StartBuild`, `StartDisplay`, `Invalidate` | a request arrives: `init_new_compilation` and what comes before typing |
| `LoadKnown`, `LookUp` | `load_module`, `type_module`'s first lines |
| `CheckMarked`, `CheckEnter`, `CheckChanged`, `CheckDirty`, `CheckReturn` | `check`: one action per way through one activation; the exception `Dirty` unwinds all activations in one step (`RaiseDirty`), as nothing can come in between |
| `CheckDone` | `add_modules` and `type_module`'s successful end |
| `ForgetDisplayFile`, `ParseModule`, `MakeModule` | a module is typed: `check_display_file`'s handler, `parse_hook`, `make_module` and the registration of the module before its imports |
| `Finish`, `BuildFails`, `EndDisplay`, `ExploreClassPaths` | the ends a request has: `flush` with and without errors, `DisplayException`, toplevel completion |

The content of a file is a member of `Decl`; what it imports is the constant
`Imports`, so any import relation can be an instance.  A content in `Broken` parses
and does not type.  The order in which the typer makes its loads depends on the
program text, so any order is allowed.

Left out: macro modules (`MMacro`, `m_dependencies` across contexts), extern and
fake modules, resources, `@:resource`s, the shadowing of files on the class path
(`ClassPathCache`), more than one signature.  `Reach`, `Visited` and `Newly` are stated as
least sets closed under dependencies, which is what the recursive functions compute.

`FreshBuild` is the promise: the outcome of a compilation is a function of the files
alone.  `F` in `ModuleCache` maps `disk` to contents (times vanish) and keeps `built`;
every other step of the server is then a stutter.

### 3.2 ClassPathCache

A module's file is in one directory of each root: the root itself, or the package's
directory in it.  Modules do not depend on each other here; what the walk of `check`
does for one module (`check_module_path`, then `check_file`) is `IsFine`.

| Model | Code |
|---|---|
| `recorded`, `directories` | the cache's directories of the signature, with `c_mtime`; `recorded` tells the empty list from none |
| `determined`, `changed_directories`, `delays`, `class_paths` | `ServerCompilationContext` |
| `readdir_cache` | `com.readdir_cache`: a directory is read once in a request |
| `Start` | `init_new_compilation` and `setup`, which drops the directories when the class path is another one |
| `Reuse`, `Outdate` | `type_module` with `get_changed_directories` (`GetChangedDirectories`) |
| `Type` | `load_module`, `find_file` |
| `Finish`, `Fails`, `Abort` | `flush` with and without errors; an exception that leaves `process` before `run_delays` |
| `RunDelays` | `run_delays` |

History variables follow the files that were added: `news` are in recorded directories
whose change no request has noticed, `told` are those the present request has noticed,
`lost` are those that no request will notice, or compare with the module, again.  `foreign` are modules that were cached
when the class path changed.

### 3.3 Locks

`LockSpec`: `permits` counts the releases that no wait has used; a wait that returns
`true` uses up one, a wait that returns `false` none.

`JavaLock`: one action per critical section of the monitor: `Wait` up to the first
`Object.wait`, `WakeUp` after a notification, `TimeOut`, `Release` with `Notify`.
`blocked` are the threads inside `Object.wait`.  The refinement maps `permits` to
`releasedCount + Cardinality(InCall)`, as the counter is decremented when a call
begins.

`CsLock`: `Wait` draws a ticket under `lockObj`; `WaitOne`, `Check` and `TimeOut`
are the loop around the `ManualResetEvent`, which runs outside the lock.  `Used` is
the number of tickets that have come back, and `permits` maps to
`releaseCount - Used`.  `overtaken` is history.

### 3.4 Thread pools

`ThreadPool`: a task is new, accepted, running, done or rejected, and only in this
order.

`FixedThreadPool`: `run` is two steps (`RunCheck`, `RunAdd`), since nothing protects
the flag; `shutdown` is one step for its check, one for the flag and one for each
task it adds.  A worker is one entry of `task`; the thread that `catch` starts in its
place continues the same entry.

`ElasticThreadPool`: `run` and `shutdown` look at the flag without the mutex (`RunCheck`,
`ShutdownCheck`), hold it from `RunAcquire`/`ShutdownAcquire` to their end and pass from
worker to worker (`scan`); the workers run beside them.  Two calls of `shutdown` can
both be past the check (`stopping`); the second then goes over the workers again.  A thread's `pc` is its place in
`Worker.loop`: waiting, the `switch` on `task`, a call, the queue, `task = null`, the
end under `deathMutex`, and the two steps of the exception handler.  A worker can have
a new thread while its old one ends.  The branch of `run` that revives a dead worker
after it has found no idle one cannot be reached, because a dead worker has no task
and is found as an idle one (`DeadHasNoTask`); `RunScan` leaves it out.

### 3.5 Event loops

`RegularEvents` is the doubly linked list with the links that removed events keep.  The
walk over it and the choice of its members are recursive functions (`Visited`, `Kept`), so
that they can be reasoned about.

`EventLoop`: the methods for any thread (`Repeat`, `Cancel`, `Run`, `Promise`,
`RunPromised`) are single critical sections.  `loop` and `__progress` are split where
the mutex is released: `Progress` (the time), `CollectRegular`, calls of regular
events one by one, `CollectOnce`, calls of one-time events, `Decide`, and the wait.
The wait lock is `LockSpec`'s `permits` with one waiter, for which the locks are shown
to be good.  Any thread may promise and post at any time, also when the loop has ended.
`Leaving` is the loop that has found nothing to run, to wait for or promised, and so does
not look again; what comes then comes too late, and the history variables `owed` and
`late` tell it from what the loop has to wait for.  Events may call any method while
they run: this is the same as any thread calling it, and so has no action of its own.

`MainLoop`: `add`, `stop` and `delay` of MainEvents by main and by the events
themselves, `tick`, and the regular event that `injectIntoEventLoop` adds and cancels.
Times are only told apart as due and not due.  Regular events that are out of use, and
to which nothing has a link any more, serve as new objects.  All of it happens in the
main thread.  `pending`'s order, and so the sorting by priority, is left out: `Tick`
visits the events in any order.  `MCEventLoops` states two things of it as one,
`PendingIsScheduled`: the list is not empty where the loop could end while a blocking
event is pending; and `HandlersStayLinked`, the list is in order although a handler may
be cancelled that is out of it.

`MCThreadPools`, `MCEventLoops` and `MCLocks` put the components of a kind into one
run: `kind` says which of the two is there, and nothing happens to the other.

### 3.6 Sub processes

`Process` is the POSIX side of `process_stubs.c`.  Making a process is one step with
three outcomes (`PipeFails`, `ForkFails`, `Run`), since nothing else of the compiler
runs meanwhile and the children that do hold ends of their own.  A call that blocks is
two steps, the call (`StdoutRead`, `StdinWrite`, `Exit`, ...) and its return (`Read`,
`Write`, `WaitPid`); a signal in between makes it start again, so it stays where it is.
`fds` is the compiler's table of descriptors; the lowest free number is given out, so
numbers are used again as soon as they are closed.  A descriptor is followed to the pipe
it stands for now, whosever that is.  Children read, write and end as they like.  The
numbers 0 to 2 and the interpreter's own files are left out.  Its initial predicate and
next-state relation are called `ProcessInit` and `ProcessNext`, because `MCNativeCalls`
extends it beside `PcreExec`.

A handle is used only until `process_close`, which frees what it points to; this is
what the callers have to see to, as `Process.hx` says.  The stubs' arguments are within
the buffer (`CHECK_ARGS`).

`CommandLine` is what `process_run` does to the arguments on Windows: one step per
character, on the list of pieces of the buffer API; of `blen`, `Doubled` is the loop in
`buffer_append_new`.  `Argv` is the rule by which programs there read their command line,
the reference for it.  `Fold` is a fold written as a recursive function, so that it can be
proved about; `Backslashes` and `Chars` are the loops that write backslashes.  Characters
are any set `Byte` with those the code tells apart.  `NoArgs` is `vargs` being null, which
gives the command to the shell.  The name of a program has no quote (`LineAssumption`), as
no file of Windows has.  Initial predicate and next-state relation are `CommandInit` and
`CommandNext`.

### 3.7 objsize

`ColorLog` is the log as a record, with each function as an operator from logs to logs:
the array of bits with what `malloc` leaves in it, the doubling, the code of runs.
`aborted` is the abort of any `ASSERT`, and any access outside the array.

`ObjSize` is `c_objsize`: `phase` is the loop it is in; `stack` are the calls of
`c_rec_objsize` or, in the walk back, `restore_colors`, each with its loop variable and
`prev_block`.  `Field` is one turn of the loop of `REC_WALK`, and `LastField` its
`goto`, which replaces the frame.  Both walks have the same actions, as they have the
same macro.  Pointers into the middle of a block (closures) are left out.

### 3.8 Regular expressions

`PcreExec` is `Pcre.regexp` from its arguments to a regexp, and then one call of
`pcre_exec_stub`.  The library is outside: it may call out, answer with any number of
groups of which any take no part, or fail.  The OCaml array is a function from halves of
words, because without a callout the library's ints and the OCaml integers share the
array; `Copy` is one turn of `copy_ovector`, so an int that is overwritten before it was
read is lost.

### 3.9 The Xml parser

`NativeXml` is `do_parse_xml` with an action per state, and `calls` for its calls of
itself.  Characters are members of a small set; the words `CDATA[` and `DOCTYPE` are one
character each, and letter case is left out.  `XmlTexts` builds texts together with the
callbacks they stand for, so that the parser is compared with what was printed.

## 4. Runs

| Run | Module, properties | Bounds | States |
|---|---|---|---|
| `rebuild` | `ModuleCache`: the promise `ImplementsFreshBuild`, and the invariants it rests on | three modules, contents `v1`, `v2`, `bad`, three edits of any file (deletion too) between compilations, B checked by content | 345 000 |
| `display` | freshness, coherence and termination when files change at any moment, with display requests for B, exploration, invalidation and `do_not_check_modules` | one edit | 396 000 |
| `stale_explored` | violated: content check after exploration (section 5) | | |
| `class_path` | a module is reused only from the file the class path finds first, as far as the server can know; late delays do not record another class path | two roots, two class paths, two modules without a package and one in it, four requests, two changes of files or directories at any moment | 5.1 million |
| `locks` | Java's and C#'s Lock: a wait never returns `true` without a release, a time-out costs nothing, a lone waiter gets its release | three threads, up to three (two) unused releases, five tickets | 125 000 |
| `thread_pools` | the fixed pool: a task runs once, `shutdown` ends the workers and not the queued tasks; the elastic pool: the same for workers that come and go, no worker with two threads, no task in a dead worker | two workers, three tasks of which two throw, two callers of `shutdown`; two workers, three threads, one throwing task and either two more tasks and one call of `shutdown` or one more and two calls | 278 000 |
| `elastic_pool_stranded` | violated: a task in the queue is never run | no task throws | |
| `event_loops` | order, end and wake-up of a thread's loop; the list is exactly what is scheduled; the main loop's list bears handlers that are cancelled twice, and the main loop goes on while a blocking event is pending, and ends if there was one event | two one-time and two regular events, one promise at a time, one tick; two main events, one blocking | 134 000 |
| `main_loop_two` | violated: it ends whenever no blocking event is left | two blocking events | |
| `native_calls` | sub processes, command lines, objsize, regular expressions, Xml: see below | see below | 514 000 |
| `process_exit` | violated: the exit code of a program that has ended can be asked for again | | |
| `native_xml_done` | violated: `done` is called for each element | | |

`native_calls` looks at one native call at a time, by `kind`, as in the other runs that
have several components:

* `OwnDescriptors`, `InputEnds`, `CallsReturn`: two processes, six or eight free
  descriptors (the second process fits, or fits only when numbers are used again, or
  fails at its third pipe), one byte in each pipe.
* `ArgumentsArrive`: all arguments of up to three characters among quote, backslash,
  space and a letter, all pairs of up to two, and a buffer that begins with two
  characters, so that texts are split.
* `ColoursRestored`, `CountsReachable`: every heap of three blocks with up to two fields,
  which share, close cycles and point to static data, with four settings of colours and
  lists; a chain of six blocks with all colours of two kinds, for logs with runs of up to
  six, where a number of repeats has one bit and the array grows four times.  The walk's
  answer is compared with the least set that is closed under fields.
* `OffsetsConverted`, `LimitsApply`: two capturing groups, two callouts, all starts and
  positions in a subject of three characters, and all arguments of `Pcre.regexp`.
* `EventsOfText`: 970 texts; those that are well-formed have elements inside each other to
  depth three, all kinds of nodes in all pairs, and attributes with both quotes; others
  have one character changed in any place, or are cut off after any.
* `AllReturn`: the three that wait for nobody come to an end.

Why these bounds are enough for the cases that matter:

* `MCImports` lets three modules form a chain, a diamond or a cycle, and an edit turns
  one into another.  Three modules are what an object needs to be reached around the
  module that replaced it.  With three edits there can be a compilation before, between
  and after changes of two files.  `MaxStep` (6) allows three full compilations, as each
  takes two steps; `MaxModules` (7) a first one, one that retypes a module and one that
  retypes everything, or two of which the second retypes everything.  The deletion of a file is an edit.
* In `class_path` four requests are what a lost shadowing file needs: the first caches,
  the second has the directories recorded, the third is told of the file, and the fourth
  uses the module.  With each of the exceptions of `ShadowIsFound` left out, the run
  (for a module that is typed after its directory was read and its change noticed, three
  modules without a package) finds a violation.
* A second thread in a wait is what breaks locks; a third one is there to arrive in
  between.
* Two workers and three tasks let a task be queued while both workers are busy, while
  one of them dies, and while one is restarted after an exception.  Three threads are
  the two of the workers and one that is still ending.  For the elastic pool `Within`
  takes three tasks or two calls of `shutdown`, not both, and fixes which of two tasks,
  or closers, that are alike comes first.
* Two regular events are enough for a removal at the head, in front of the head's
  successor and of the last one; the removal of a middle one of three has been checked
  for `ListIsScheduled` with three (4.7 million states, not part of the runs).
  `MainLoop` was also checked with three events and eight regular events.
* A bound that ends the exploration (`MaxClock`, `MaxStep`, `MaxModules`,
  `MaxPermits`, `MaxTickets`, `MaxPromised`, `MaxTime`) guards an action of the
  environment, never a step of the code.  In `MakeModule`, `m \in Id` always holds,
  because `CanServe` reserves one object per path.

Fairness.

* `ModuleCache`: weak fairness of the server's own steps together.  A request is
  served by straight-line code of one process.  Nothing is assumed of clients and
  editors; `RequestTerminates` therefore says that no walk and no chain of loads goes
  round for ever.
* Locks: a thread that has been notified gets the monitor (`WakeUp`), a thread that is
  not blocked runs.  No fairness of time-outs: a thread must get its release before, or
  without, a time-out.
* Pools: calls of `run` and `shutdown` that have begun go on, and so do workers; tasks
  end.  None for a worker's time-out, which may be longer than anything else takes.
* Native code: a call whose answer is there returns (`ProcessReturns`), and the code between
  calls runs.  None for programs: they need not read, write or end, so a read of the
  output of a program that runs may block for ever, and `CallsReturn` is about programs
  that have ended.
* `EventLoop`, `MainLoop`: the loop's thread runs, events return, time goes by.  None for
  whoever has promised an event.

`CHECK_DEADLOCK FALSE` is set where the system may rest: pools after shutdown, loops
that have ended, locks nobody uses, native calls that have returned or wait for a
program.  The server itself never stops (`WaitLoop`).

## 5. What the code does not promise

Five runs show disagreements between code and documentation:

* `stale_explored`.  `content_changed` (`server.ml:293`) compares a re-parsed file with
  the parser cache and not with what the module was typed from.  When toplevel
  completion has parsed the changed file in the meantime (`displayToplevel.ml:130`), the
  two are equal, and the next compilation reuses the module of the old content.  It
  needs the policy `CheckFileContentModification`.
* `elastic_pool_stranded`.  A worker is passed over by `run` as long as its `task` is not
  null, which it still is between the worker's last look into the queue and `task = null`
  (`ElasticThreadPool.hx:182`).  A task queued then waits until some later task wakes a
  worker, or for ever.  An exception strands the queue in the same way: it leaves the
  loop that drains it, and the restarted worker waits for a release.
* `main_loop_two`.  `injectIntoEventLoop` remembers the last handler only.  Two calls of
  `add` before the loop runs inject two; each run of one cancels the remembered one, and
  the other is never cancelled, so the loop does not end when every event is stopped.
* `process_exit`.  `process_exit` waits for the child whenever it is called and keeps no
  code (`process_stubs.c:556`); the second call for a program that has ended finds no
  child and fails, where `Process.hx:67` says "If the process has already exited, return
  the exit code immediately."
* `native_xml_done`.  The parser calls `done` for `<a/>` (`NativeXmlImport.cpp:275`) and
  not for `<a></a>`, whose inner call returns at line 288; line 367 says "[void done()]
  when an XML node is closed".  `NativeXmlState.done` goes back to the parent, so what
  follows the element would be put inside it.

Other behaviours that limit what can be stated, and so shaped the properties:

* `make_module` reads the time of the file after it was parsed
  (`typeloadModule.ml:43`): an edit in between is recorded as already seen, and stays
  unseen until the next one.  `QuietBuildIsFresh` excepts exactly this moment (history
  variable `raced`); edits at any other moment of a compilation are found by the next.
* Modification times are whole seconds and are compared for equality: two edits in a
  second with a compilation between them are one to the server.  All runs have
  `SameSecondEdits = FALSE`; the proofs hold for either value.
* Java's Lock decides about notification by the counter's sign.  With two waiting
  threads (-2) one release (-1) notifies neither, and a wait that begins between a
  notification and the wake-up takes the counter down again.  `ReleaseIsDelivered` is
  therefore stated for threads that wait alone, as those of pools and event loops do.
  `ImplementsLock` has no such restriction.
* C#'s Lock gives a ticket back by a release.  When a thread in front still waits, the
  release moves the queue on for it, and it returns without a release of its own
  (`overtaken`).  A newcomer may also reset the event that a release has just set.
* `FixedThreadPool.run` checks the flag and adds the task in two steps.  A task added
  behind the shutdown tasks is accepted and never runs; `SubmittedTasksRun` is about
  tasks that are in the queue before `shutdown`.
* `EventLoop` calls a regular event that another of the same batch has cancelled once
  more, although `Timer.hx:90` says of `stop` that "no additional invocations of `this.run`
  will occur"; that is why there is no property of calls after cancel.  A handler that is cancelled twice uses
  links that are out of date: with three regular events a cancelled one can come back.
  `ListIsScheduled` is about handlers that are cancelled once.  `MainLoop` does cancel
  twice; it can bear it, as `PendingIsScheduled` says and section 6 explains.
* A promise, or an event, that reaches an `EventLoop` after its last look is not waited
  for: `promise` does not tell the caller, who has to know that the thread is kept alive
  by something else.  `EndsWhenDone` and `OwedEventsRun` are about those that come before.
* Class paths.  `ShadowIsFound` lists what is not found, and each exception is needed:
  * `get_changed_directories` is called from `check` only, so for a cached module.  Its
    "new context, so we won't do any shadowing checks anyway" (`server.ml:274`) is the
    second compilation, with everything in the cache: a file that was added between the
    first and the second and shadows a module is never found, although shadowing is said
    to be checked unless `NoCheckShadowing` (`CompilationServer.hx:49`).  The same holds
    after every change of the class path, where modules that were found in the former
    one stay in use, even from a root that is not in the class path any more.
  * A directory's change is told to one request; when that does not look at the module,
    or fails before it does, the file is not found later.
  * The comparison is with the time of the module's own file.  A shadowing file that is
    added while a request has read the directory already, and is older than the file the
    module is then typed from, does not count when it is noticed.
  * Directories of packages have no slash at the end (`path.ml:288`), which the check
    appends a file's name to: a file that is added in a package is not found.
  * A root that is removed and made again is recorded no more, until the class path
    changes.
  * The directories are recorded when the compilation has ended, as they are then, and
    are read at different moments for look-ups.
  * An aborted request leaves its delay to the next, which records the aborted one's class
    path last, over its own.  What it has recorded stays until the class path is another
    one; `RecordFitsClassPath` excepts it for as long (`aborted`), and no longer.

* Sub processes.  When the second or third pipe cannot be made, those before stay open;
  `OwnDescriptors` allows for them.  A child inherits the writing end of the input of
  those started before it; `InputEnds` says that no other process can keep an input
  open.  A write to a program that has ended kills the compiler by SIGPIPE, and `exitCode`
  of a program that waits for room in a full pipe never returns.
* Regular expressions.  A group that took no part has the offset -1, to which
  `copy_ovector` adds the start of the subject: with a start above 0 it looks set.
  `OffsetsConverted` leaves these groups out.  When a match fails, the array keeps what
  the library wrote.
* Xml.  A space between `</` and the name is taken for a part of the name, so that
  `</ a>` is refused.

## 6. Proofs

TLAPS proves the following for every value of the constants.  The `ASSUME`s are those
named in the modules, which TLC evaluates in every run, and say nothing that the program
does not give: sets of threads and of regular events are finite, bounds are numbers,
values that stand for "none" are not among the values they are told from; the name of a
program on Windows has no quote, which no file name has there.  A theorem that
needs more has it as a hypothesis, named below.

**Compilation server** (`ModuleCacheProofs`, `FreshBuildProofs`, `ClassPathCacheProofs`)

* `Typing`: `TypeOK` of `ModuleCache`, for any set of modules, any
  import relation and policies, with edits during compilations and two edits in one
  second.  It is inductive with `TargetIsCached` (a walk starts only for a module that
  is in the cache), without which `type_module` could be given the null object.
* `ReuseIsSound`: `ReusedGraphIsClean`.  Hypothesis: `ChecksDependencies`, no module has
  the policy `NoCheckDependencies`, which switches off exactly what is proved.
  Inductive invariant: `TypeOK`, `TargetIsCached`,
  `RefsMade` and `WalkInv`.  `RefsMade` says that only objects that exist are referred to,
  so each has a path and a policy.  `WalkInv` is the loop invariant of `check`: every
  object that has passed (marked by this walk, not dirty) either has all its
  dependencies passed, or is still on the stack with the others left to do.  When the
  stack is empty, the objects that have passed are closed under dependencies, so the
  least closed set is among them.  It depends on the mark being new for each lookup: an
  object on a cycle can be marked, not dirty and depend on a dirty one after a walk that
  failed.
* `OneObject`, `CacheIsCoherent`, `ReplacedIsDirty`: `OneObjectPerPath`,
  `CachedGraphIsCoherent` and the action property `SupersededIsDirty`, under the same
  hypothesis.  They are inductive only together (`GraphInv`): some number separates the
  old objects, which the cache holds and which depend on each other only, from those of
  the compilation (`Older`); where the compilation knows another object than the cache,
  the cached one is dirty (`Superseded`); what is typed has no valid object in the cache
  (`TargetInv`: the walk began there, and blames every activation on the stack); where
  `add_modules` stops, the compilation knows the object already (`AddedInv`).
  `ReuseIsSound` is used where a valid graph is added.
* `BlameIsFair`: `BlameIsReachable`, under any policies.  The activations of `check` are a
  path through the graph (`StackInv`), so what raises `Dirty` is reached from each of them;
  dependencies are only added, so it stays reachable.
* `QuietBuildsAreFresh` and `FreshBuildIsImplemented`: `QuietBuildIsFresh`, also when files
  change while the server compiles, and `ImplementsFreshBuild`, when they change between
  requests only (`~EditsDuringBuild`; otherwise no single state of the files is that of a
  compilation).  Hypothesis: `FilesAreChecked`.  No module has a policy that switches the
  checks off (`NoModuleChecks`, which does so for display requests, is allowed); an edit
  gives its file a new time (hazard at `server.ml:362`); and a module is
  checked by content only where class paths are not explored, since otherwise the run
  `stale_explored` shows a stale module kept.  The inductive invariant, `FreshIInv`, has
  these parts:
  - `TimesInv`: a cached file, and an object, that has the time of the file has its
    content; `ContentInv`: where contents are compared, the parser cache has the content a
    valid object was typed from.  So an object that `check` lets pass is as the file is now
    (`EnteredIsFresh`).
  - `ImportInv`: an object depends on nothing but what its content imports; `KnownInv` and
    `CacheInv`: all of that is among its dependencies, or waits to be loaded, and nothing
    waits on behalf of what is in the cache or below it, where a request that was given up
    leaves no half-typed object.
  - `StillInv`, while a compilation is undisturbed: what it knows or waits for is in the
    closure of `Main` under the imports of the files as they are, and known with their
    contents; so is what it has marked in the cache (`MarkedInv`: what it took from there
    has its mark, whichever of its walks made it).
  When nothing waits, what is known is closed under imports, so it is the whole closure
  (`BuildIsFresh`); and a file that makes the compilation fail is in the closure
  (`FailureIsFresh`).  With that, the end of a full compilation is `Build`, a change of a
  file is `Edit`, and all other steps leave the two variables of `FreshBuild` alone.
* `RecordsFit`, `NoShadowIsMissed`: `Consistent` and `ShadowIsFound` of `ClassPathCache`,
  for any class paths, packages and programs.  The invariant follows an added file from
  the moment it is in front of the file a module was found in: it is in a directory that
  the next look finds newer than recorded (`NewsInv`), or in one the request takes for
  changed (`ToldInv`), or `lost`; everything else a cached or loaded module could be
  found in is behind its root (`CoverInv`).  What was read early is followed too
  (`ReadInv`), and while nothing changes, what was loaded is what is there (`QuietInv`).

**Threads** (`LockProofs`, `ThreadPoolProofs`, `RegularEventsProofs`, `EventLoopProofs`)

* `LockTyping` and `LockIsImplemented`: `JavaLock` implements `LockSpec`
  for any finite number of threads and any bound on the releases.  No invariant beyond
  `TypeOK` is needed; the argument is about how `Cardinality(InCall)` and
  `releasedCount` change together.
* `CsLockIsImplemented`: `CsLock` implements `LockSpec` until a thread is overtaken.
  Inductive invariant: a ticket that no release has reached is in the hands of a waiting
  thread (`Held`).  It is what giving a ticket back keeps when nobody is overtaken, as the
  ticket is then the first that was not reached.  Why a thread whose ticket has been
  reached has a release of its own is then a matter of counting: all higher tickets are in
  use, and so is its own, so fewer tickets have come back than releases were made.
* `ElasticRefines` and `FixedRefines`: both pools implement `ThreadPool`, for any workers,
  tasks, threads and callers.  `ElasticInv` says that an accepted task is in one place, a
  slot or the queue (`PlacesInv`); that a worker has at most one loop, exactly one if it is
  not dead, and that a dead one has no task (`LoopInv`); and that a slot keeps its task
  until the thread that called it empties it (`StatusInv`), which is why `run` cannot
  overwrite it and no other thread call it.  For the fixed pool a task is in the queue
  once, and no two workers have popped one.  `PoolsBookkeeping` is `PoolsConsistent`.
* `LoopEndsWhenDone`: `EndsWhenDone`.  Invariant `OnceInv`: the array of one-time events is
  filled up to its index (`ArrayInv`), what was posted is what has run, runs and is
  pending, in this order (`InOrder`), and a loop that will not look again (`Leaving`) has run
  what it owes, and every promise that is left was made after its last look (`DoneInv`).
* `ListsAreConsistent`: `Consistent` of `EventLoop`.  As long as no handler is cancelled
  twice, some sequence without repetitions of the events that are not cancelled is linked
  forwards, backwards and at its end, and objects not used yet have no link back
  (`Scheduled`); `Prepend` and `Unlink` keep that.  What the recursive walk of the code
  visits follows for any number of events, by a least counterexample: the library's
  `WFMin` stands for induction.  The lemmas on the list are in `RegularEventsProofs`,
  which `EventLoopProofs` uses twice, for the list of each loop.
* `MainLoopIsScheduled`: `PendingIsScheduled` of `MainLoop`, for any main events, blocking
  ones among them, and any finite supply of regular events.  Nothing is assumed of how
  often handlers are cancelled, which is what makes it hold for another reason than
  `ListsAreConsistent`.  `HandlerInv` says that the remembered handler is the newest event
  of the list, or is out of it and has the links it had when it was the newest: to cancel
  it again clears a link back that is clear already, and leaves the rest as it is
  (`UnlinkAgain`).  All new events go in front, and what has no link to it can be used
  again (`PrependAgain`).  `AwakeInv` says that the list is not empty while a blocking
  event is pending, except in the injected function between its cancelling of the handler
  and its end, where it injects the next.

**Native code** (`NativeCallsProofs`)

* `LimitsHold`: `LimitsApply` of `PcreExec`, for any number of groups,
  subject and callouts.  Hypothesis: the null pointer is no `pcre_extra`.  Inductive
  invariant: in `Pcre.regexp` a limit is unset before its step and as asked for after it,
  because `With` keeps the other limit (`WithKeeps`); from `exec` on the library has the
  regexp's own `pcre_extra` or the copy with the callout, which has the same limits
  (`GivenKeeps`).
* `OffsetsAreConverted`: `OffsetsConverted`, likewise.  `CopyInv` is the loop invariant of
  `copy_ovector`: from the top down to `at` the places are converted, below it the
  library's ints are still there.  The word that a turn writes covers the ints `2 * at` and
  `2 * at + 1`, which is at or above every one still to be read; going upwards it would
  not be.  `ClearInv` is that of the loop that clears, and `ArrayShape` says that no turn
  comes near the library's workspace.
* `HandlesOwnDescriptors` and `ClosedInputEnds`: `OwnDescriptors` and `InputEnds` of
  `Process`, for any processes, limits and sizes of pipes.  The first rests on the numbers
  given out: the k-th lowest unused one exists and is one number for each k (`Places`, an
  injection of a finite set into its cardinality is onto), so the three pipes get six
  different unused numbers.  With that, each number of an open handle is its own end
  (`HandleInv`), each end in use belongs to an open handle or a failed run (`OwnerInv`),
  and no child holds the writing end of its own input (`InputInv`), as `fork` is followed
  by its closing.
* `ArgumentsAreRead`: `ArgumentsArrive` of `CommandLine`, for any arguments, as many and as
  long as they may be, and any first length of a piece of the buffer.  One assumption,
  `LineAssumption`: the name of the program has no quote.  The argument is in two halves.
  What the pieces of the buffer hold is what was appended, wherever it was split
  (`BufferHas`), so the text can be spoken of alone.  `LineInv` then runs the program's
  reader beside the writer: between two arguments it has read the arguments that are
  written (`BehindArg`); within one it is between quotes and has read the characters so far
  but for the `bs_count` backslashes that are not written yet (`AtChar`).  Before a quote
  it gets `2 * bs_count + 1` backslashes, of which the odd one makes the quote a character
  (`QuoteIsWritten`); at the end of the argument it gets `2 * bs_count`, and the quote closes
  (`EndArrives`); before any other character they are themselves (`NormalIsWritten`).
  `Fold`, `Doubled` and the text of the buffer are recursive functions: that they are
  defined, and what they give for one element more, is proved with a least
  counterexample in a set, as for the lists.

Only model-checked:

* All liveness properties (`RequestTerminates`, `CallsReturn`, `AllReturn`,
  `HandedTaskRuns`, `SubmittedTasksRun`, `ShutdownEndsThreads`, `ShutdownEndsWorkers`,
  `OwedEventsRun`, `RegularEventsRun`, `PendingEventsRun`, `ExitsAfterOneAdd`,
  `ReleaseIsDelivered`, `CsReleaseIsDelivered`): the prover does not reason about fairness
  and `ENABLED`.
* `ColoursRestored` and `CountsReachable` of objsize: the code of a run length is a
  recursive operator, and what a whole log decodes to is an induction over it.  It is also
  a statement about powers of two, of which the provers know nothing, not even that
  `2^n` is a number for every number `n`.
* `EventsOfText`: what a text means is given together with the text (`XmlTexts` prints
  texts and their callbacks), so there is no statement about all texts to prove.

Not modelled, and why: lexing, typing of expressions, filters, optimizer and generators
are translations of data with no state that lasts; unification is recursive over types,
and a bounded check would say little about it; the other targets' primitives are
wrappers of a library, and so are the stubs of mbedtls and the other stubs of extc.
On Windows, handles and pipes of sub processes are left to the API.  `PROJECT.json` lists each component with its reason, and the
hazards of the code with the properties that cover them.
