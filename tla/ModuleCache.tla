---------------------------- MODULE ModuleCache ----------------------------
(***************************************************************************)
(* The module cache of the compilation server (src/compiler/server.ml) and  *)
(* the part of the typer that fills and reads it.                           *)
(*                                                                          *)
(* The server keeps the typed modules of the last compilation.  When a      *)
(* later compilation needs a module, it walks the module's dependencies and *)
(* reuses the whole graph if no file of it has changed, or marks the        *)
(* modules on the way to the changed file dirty and types the module again. *)
(* The same module path can therefore be the name of several module         *)
(* objects; an object is identified by its m_id.                            *)
(*                                                                          *)
(* One signature (set of defines) and one class path are modelled.          *)
(***************************************************************************)
EXTENDS Naturals, Sequences, FiniteSets

CONSTANTS
    Path,               \* module paths; the file of a module has its path
    Main,               \* the class a full compilation is asked for
    Decl,               \* contents a file may have
    NoDecl,             \* the content of a file that does not exist
    Broken,             \* contents that parse and do not type
    Imports,            \* Imports[p][d]: modules that file p with content d names
    Policy,             \* Policy[p]: module_check_policies of module p
    NoPath,             \* m_dirty of a module that is not dirty (None)
    Failed,             \* outcome of a compilation that reported an error
    DisplayRequests,    \* files an IDE asks about
    Explores,           \* TRUE: toplevel completion may explore the class paths
    NoModuleChecks,     \* ServerConfig.do_not_check_modules
    EditsDuringBuild,   \* TRUE: files may change while a request is served
    SameSecondEdits,    \* TRUE: two edits may leave the same st_mtime
    MaxModules,         \* bound: module objects ever created
    MaxClock,           \* bound: seconds of the file system's clock
    MaxStep             \* bound: compilation_step at which requests stop

PolicyName == {"NoCheckFileTimeModification", "CheckFileContentModification",
               "NoCheckDependencies"}

ASSUME ConstantsAssumption ==
    /\ Main \in Path
    /\ NoPath \notin Path
    /\ NoDecl \notin Decl
    /\ Broken \subseteq Decl
    /\ Imports \in [Path -> [Decl \cup {NoDecl} -> SUBSET Path]]
    /\ Policy \in [Path -> SUBSET PolicyName]
    /\ DisplayRequests \subseteq Path
    /\ {Explores, NoModuleChecks, EditsDuringBuild, SameSecondEdits} \subseteq BOOLEAN
    /\ MaxModules \in Nat /\ MaxClock \in Nat /\ MaxStep \in Nat

Id  == 1 .. MaxModules
Obj == 0 .. MaxModules      \* 0 is null_module, and "no object"

File == [time : Nat, decl : Decl \cup {NoDecl}]
NoFile == [time |-> 0, decl |-> NoDecl]     \* Extc.filetime of a missing file is 0

VARIABLES
    disk, clock,            \* the source files; the clock that stamps them
    files, removed_files,   \* the parser cache and cc.removed_files
    initialized,            \* class paths have been explored
    mid_count,              \* alloc_mid
    m_path, m_time, m_decl, \* per object: path, file time, the content it was typed from
    m_dirty, m_mark, m_added, m_deps,
    modules,                \* the module cache, path -> object
    mark_loop, compilation_step, compilation_mark,
    phase,                  \* where the request is; "idle" between requests
    request,                \* the request, its display file, whether the hook runs
    g_modules,              \* ctx.g.modules, path -> object of this compilation
    pending,                \* <<importer, path>> the typer still has to load
    target,                 \* the load in progress
    stack,                  \* activations of check
    parsed,                 \* declarations handed from the parser to make_module
    built,                  \* outcome of the last full compilation
    quiet,                  \* history: no file has changed since the last request began
    raced                   \* history: a module's file changed between its parsing and
                            \* the reading of its time

diskVars   == <<disk, clock, raced>>
parserVars == <<files, removed_files, initialized>>
objectVars == <<mid_count, m_path, m_time, m_decl>>
serverVars == <<mark_loop, compilation_step, compilation_mark>>
typerVars  == <<g_modules, pending, target, parsed>>
vars == <<diskVars, parserVars, objectVars, m_dirty, m_mark, m_added, m_deps,
          modules, serverVars, typerVars, phase, request, stack, built, quiet>>

Phase == {"idle", "typing", "checking", "parsing", "making"}
Request == [kind : {"full", "display"}, file : Path, hook : BOOLEAN]
Frame == [mid : Obj, todo : SUBSET Id]

TypeOK ==
    /\ disk \in [Path -> File] /\ clock \in Nat
    /\ files \in [Path -> File] /\ removed_files \subseteq Path
    /\ initialized \in BOOLEAN
    /\ mid_count \in Obj
    /\ m_path \in [Obj -> Path \cup {NoPath}]
    /\ m_time \in [Obj -> Nat] /\ m_decl \in [Obj -> Decl \cup {NoDecl}]
    /\ m_dirty \in [Obj -> Path \cup {NoPath}]
    /\ m_mark \in [Obj -> Nat] /\ m_added \in [Obj -> Nat]
    /\ m_deps \in [Obj -> SUBSET Id]
    /\ modules \in [Path -> Obj] /\ g_modules \in [Path -> Obj]
    /\ mark_loop \in Nat /\ compilation_step \in Nat /\ compilation_mark \in Nat
    /\ phase \in Phase /\ request \in Request
    /\ pending \subseteq Obj \X Path /\ target \in Obj \X Path
    /\ stack \in Seq(Frame)
    /\ parsed \in Decl \cup {NoDecl}
    /\ quiet \in BOOLEAN /\ raced \in BOOLEAN

-----------------------------------------------------------------------------
(* Source files.                                                            *)

Edit(p, d) ==
    /\ phase = "idle" \/ EditsDuringBuild
    /\ \E t \in (IF SameSecondEdits THEN {clock, clock + 1} ELSE {clock + 1}) :
          /\ t <= MaxClock
          /\ clock' = t
          /\ disk' = [disk EXCEPT ![p] = IF d = NoDecl THEN NoFile
                                         ELSE [time |-> t, decl |-> d]]
    /\ quiet' = FALSE
    /\ raced' = (raced \/ (phase = "making" /\ target[2] = p))
    /\ UNCHANGED <<parserVars, objectVars, m_dirty, m_mark, m_added, m_deps, modules,
                   serverVars, typerVars, phase, request, stack, built>>

-----------------------------------------------------------------------------
(* The parser cache.                                                        *)

IsDisplayFile(p) == request.kind = "display" /\ request.file = p

\* What parse_file returns for an existing file: the cached declarations if the
\* file still has the time they were cached with.
Parse(p) ==
    IF files[p] # NoFile /\ files[p].time = disk[p].time THEN files[p].decl
                                                          ELSE disk[p].decl

\* cache_file; the display file may come from stdin and is not cached.
FilesAfterParsing(p) ==
    IF IsDisplayFile(p) THEN files
    ELSE [files EXCEPT ![p] = [time |-> disk[p].time, decl |-> Parse(p)]]

RemoveFile(p) ==
    /\ files' = [files EXCEPT ![p] = NoFile]
    /\ removed_files' = IF files[p] = NoFile THEN removed_files
                                              ELSE removed_files \cup {p}

Tainted(p) ==
    [m \in Obj |-> IF m # 0 /\ m_path[m] = p /\ modules[p] = m
                     THEN p ELSE m_dirty[m]]

-----------------------------------------------------------------------------
(* Module objects.                                                          *)

Closed(S) == \A m \in S : m_deps[m] \subseteq S

\* Everything m depends on, m included.
Reach(m) == LET Over == {S \in SUBSET Id : m \in S /\ Closed(S)}
            IN  {x \in Id : \A S \in Over : x \in S}

\* The modules add_modules visits from m: it stops at one that this compilation
\* has already added.
Visited(m) ==
    LET Over == {S \in SUBSET Id :
                    /\ m \in S
                    /\ \A y \in S : m_added[y] < compilation_step => m_deps[y] \subseteq S}
    IN  {x \in Id : \A S \in Over : x \in S}

Newly(m) == {x \in Visited(m) : m_added[x] < compilation_step}

\* add_dependency: m_deps after m, which may be null_module, depends on mdep too.
WithDependency(m, mdep) ==
    IF m = 0 \/ m = mdep THEN m_deps ELSE [m_deps EXCEPT ![m] = @ \cup {mdep}]

-----------------------------------------------------------------------------
(* Requests.                                                                *)

\* Within the bounds: a request makes at most one object per path.
CanServe == /\ phase = "idle"
            /\ compilation_step < MaxStep
            /\ mid_count + Cardinality(Path) <= MaxModules

\* Mutant: the step is left where the last request put it.
BeginRequest_SameStep(r) ==
    /\ UNCHANGED compilation_step
    /\ compilation_mark' = mark_loop
    /\ request' = r
    /\ quiet' = TRUE

\* init_new_compilation, and a compilation context with nothing in it.
BeginRequest(r) ==
    /\ compilation_step' = compilation_step + 1
    /\ compilation_mark' = mark_loop
    /\ request' = r
    /\ quiet' = TRUE

\* The context of the request is dropped.
EndRequest ==
    /\ phase' = "idle"
    /\ g_modules' = [p \in Path |-> 0]
    /\ pending' = {} /\ target' = <<0, Main>> /\ parsed' = NoDecl

StartBuild ==
    /\ CanServe
    /\ BeginRequest([kind |-> "full", file |-> Main, hook |-> FALSE])
    /\ phase' = "typing" /\ pending' = {<<0, Main>>}
    /\ UNCHANGED <<diskVars, parserVars, objectVars, m_dirty, m_mark, m_added, m_deps,
                   modules, mark_loop, g_modules, target, parsed, stack, built>>

\* check_display_file asks the module cache for the module of a file the parser
\* cache knows; a file it does not know is forgotten at once.
StartDisplay(p) ==
    /\ CanServe
    /\ BeginRequest([kind |-> "display", file |-> p, hook |-> files[p] # NoFile])
    /\ m_dirty' = IF files[p] = NoFile THEN Tainted(p) ELSE m_dirty
    /\ phase' = "typing" /\ pending' = {<<0, p>>}
    /\ UNCHANGED <<diskVars, parserVars, objectVars, m_mark, m_added, m_deps,
                   modules, mark_loop, g_modules, target, parsed, stack, built>>

\* server/invalidate: a request of its own, which types nothing.
Invalidate(p) ==
    /\ CanServe
    /\ BeginRequest([kind |-> "display", file |-> p, hook |-> FALSE])
    /\ m_dirty' = Tainted(p)
    /\ RemoveFile(p)
    /\ UNCHANGED <<diskVars, initialized, objectVars, m_mark, m_added, m_deps, modules,
                   mark_loop, typerVars, phase, stack, built>>

-----------------------------------------------------------------------------
(* The typer loads modules.                                                 *)

\* load_module of a path this compilation has loaded already.
LoadKnown(c, p) ==
    /\ phase = "typing" /\ <<c, p>> \in pending /\ g_modules[p] # 0
    /\ m_deps' = WithDependency(c, g_modules[p])
    /\ pending' = pending \ {<<c, p>>}
    /\ UNCHANGED <<diskVars, parserVars, objectVars, m_dirty, m_mark, m_added, modules,
                   serverVars, g_modules, target, parsed, phase, request, stack, built, quiet>>

\* Mutant: Not_found of find_module is not caught.
LookUp_Unguarded(c, p) ==
    /\ phase = "typing" /\ <<c, p>> \in pending /\ g_modules[p] = 0
    /\ mark_loop' = mark_loop + 1
    /\ target' = <<c, p>>
    /\ phase' = "checking" /\ stack' = <<[mid |-> 0, todo |-> {modules[p]}]>>
    /\ UNCHANGED <<diskVars, parserVars, objectVars, m_dirty, m_mark, m_added, m_deps,
                   modules, compilation_step, compilation_mark, g_modules, pending,
                   parsed, request, built, quiet>>

\* Mutant: one mark for all the walks of a compilation.
LookUp_OneMark(c, p) ==
    /\ phase = "typing" /\ <<c, p>> \in pending /\ g_modules[p] = 0
    /\ mark_loop' = compilation_mark + 1
    /\ target' = <<c, p>>
    /\ IF modules[p] = 0
         THEN phase' = "parsing" /\ UNCHANGED stack
         ELSE phase' = "checking" /\ stack' = <<[mid |-> 0, todo |-> {modules[p]}]>>
    /\ UNCHANGED <<diskVars, parserVars, objectVars, m_dirty, m_mark, m_added, m_deps,
                   modules, compilation_step, compilation_mark, g_modules, pending,
                   parsed, request, built, quiet>>

\* Mutant: the module cache is asked before the modules of the compilation.
LookUp_Again(c, p) ==
    /\ phase = "typing" /\ <<c, p>> \in pending
    /\ mark_loop' = mark_loop + 1
    /\ target' = <<c, p>>
    /\ IF modules[p] = 0
         THEN phase' = "parsing" /\ UNCHANGED stack
         ELSE phase' = "checking" /\ stack' = <<[mid |-> 0, todo |-> {modules[p]}]>>
    /\ UNCHANGED <<diskVars, parserVars, objectVars, m_dirty, m_mark, m_added, m_deps,
                   modules, compilation_step, compilation_mark, g_modules, pending,
                   parsed, request, built, quiet>>

\* load_module of any other path: type_module asks the module cache.  The check
\* is a depth-first walk; its first frame stands for type_module's own call.
LookUp(c, p) ==
    /\ phase = "typing" /\ <<c, p>> \in pending /\ g_modules[p] = 0
    /\ mark_loop' = mark_loop + 1
    /\ target' = <<c, p>>
    /\ IF modules[p] = 0
         THEN phase' = "parsing" /\ UNCHANGED stack
         ELSE phase' = "checking" /\ stack' = <<[mid |-> 0, todo |-> {modules[p]}]>>
    /\ UNCHANGED <<diskVars, parserVars, objectVars, m_dirty, m_mark, m_added, m_deps,
                   modules, compilation_step, compilation_mark, g_modules, pending,
                   parsed, request, built, quiet>>

-----------------------------------------------------------------------------
(* check, one activation per frame.                                         *)

HasPolicy(m, policy) ==
    \/ policy \in Policy[m_path[m]]
    \/ /\ policy = "NoCheckFileTimeModification"
       /\ NoModuleChecks /\ request.kind = "display"

\* The file of m is looked at once per compilation.
ChecksFile(m) ==
    /\ m_mark[m] <= compilation_mark
    /\ ~HasPolicy(m, "NoCheckFileTimeModification")

TimeChanged(m) == ChecksFile(m) /\ disk[m_path[m]].time # m_time[m]

\* content_changed parses the file again, and compares with the parser cache.
Reparses(m) ==
    /\ TimeChanged(m) /\ HasPolicy(m, "CheckFileContentModification")
    /\ files[m_path[m]] # NoFile /\ disk[m_path[m]] # NoFile

\* Mutant: the parser cache is read after the file has been parsed again.
FileIsFine_ReadLate(m) == TimeChanged(m) => Reparses(m)

FileIsFine(m) ==
    TimeChanged(m) => Reparses(m) /\ Parse(m_path[m]) = files[m_path[m]].decl

FilesAfterCheck(m) == IF Reparses(m) THEN FilesAfterParsing(m_path[m]) ELSE files

Top == stack[Len(stack)]

\* The dependency the innermost activation checks next: PMap.iter goes by m_id.
IsNext(d) == /\ phase = "checking" /\ stack # <<>>
             /\ d \in Top.todo /\ \A e \in Top.todo : d <= e

Tick(d) == [stack EXCEPT ![Len(stack)] = [mid |-> Top.mid, todo |-> Top.todo \ {d}]]

\* Nothing to check under NoCheckDependencies.
DepsToCheck(m) == IF HasPolicy(m, "NoCheckDependencies") THEN {} ELSE m_deps[m]

\* Mutant: Dirty is caught by the innermost activation only.
RaiseDirty_Innermost(ms, path) ==
    /\ m_dirty' = [m \in Obj |-> IF m # 0 /\ (m \in ms \/ Top.mid = m)
                                   THEN path ELSE m_dirty[m]]
    /\ stack' = <<>>
    /\ phase' = "parsing"

\* Mutant: the module that was looked up is blamed.
RaiseDirty_BlameTarget(ms, path) ==
    /\ m_dirty' = [m \in Obj |-> IF m # 0 /\ (m \in ms \/ \E i \in 1 .. Len(stack) : stack[i].mid = m)
                                   THEN target[2] ELSE m_dirty[m]]
    /\ stack' = <<>>
    /\ phase' = "parsing"

\* Every activation ends with Dirty path, and type_module with None.
RaiseDirty(ms, path) ==
    /\ m_dirty' = [m \in Obj |-> IF m # 0 /\ (m \in ms \/ \E i \in 1 .. Len(stack) : stack[i].mid = m)
                                   THEN path ELSE m_dirty[m]]
    /\ stack' = <<>>
    /\ phase' = "parsing"

CheckMarked(d) ==
    /\ IsNext(d) /\ m_dirty[d] = NoPath /\ m_mark[d] = mark_loop
    /\ stack' = Tick(d)
    /\ UNCHANGED <<diskVars, parserVars, objectVars, m_dirty, m_mark, m_added, m_deps,
                   modules, serverVars, typerVars, phase, request, built, quiet>>

CheckEnter(d) ==
    /\ IsNext(d) /\ m_dirty[d] = NoPath /\ m_mark[d] # mark_loop /\ FileIsFine(d)
    /\ m_mark' = [m_mark EXCEPT ![d] = mark_loop]
    /\ files' = FilesAfterCheck(d)
    /\ stack' = Append(Tick(d), [mid |-> d, todo |-> DepsToCheck(d)])
    /\ UNCHANGED <<diskVars, removed_files, initialized, objectVars, m_dirty, m_added, m_deps,
                   modules, serverVars, typerVars, phase, request, built, quiet>>

CheckChanged(d) ==
    /\ IsNext(d) /\ m_dirty[d] = NoPath /\ m_mark[d] # mark_loop /\ ~FileIsFine(d)
    /\ m_mark' = [m_mark EXCEPT ![d] = mark_loop]
    /\ files' = FilesAfterCheck(d)
    /\ RaiseDirty({d}, m_path[d])
    /\ UNCHANGED <<diskVars, removed_files, initialized, objectVars, m_added, m_deps,
                   modules, serverVars, typerVars, request, built, quiet>>

CheckDirty(d) ==
    /\ IsNext(d) /\ m_dirty[d] # NoPath
    /\ RaiseDirty({}, m_dirty[d])
    /\ UNCHANGED <<diskVars, parserVars, objectVars, m_mark, m_added, m_deps,
                   modules, serverVars, typerVars, request, built, quiet>>

CheckReturn ==
    /\ phase = "checking" /\ Len(stack) > 1 /\ Top.todo = {}
    /\ stack' = SubSeq(stack, 1, Len(stack) - 1)
    /\ UNCHANGED <<diskVars, parserVars, objectVars, m_dirty, m_mark, m_added, m_deps,
                   modules, serverVars, typerVars, phase, request, built, quiet>>

\* The cached module is valid: add_modules puts it and what it depends on into
\* the compilation.
CheckDone ==
    LET m == modules[target[2]] IN
    /\ phase = "checking" /\ Len(stack) = 1 /\ Top.todo = {}
    /\ m_added' = [x \in Obj |-> IF x \in Newly(m) THEN compilation_step ELSE m_added[x]]
    /\ \E f \in [{m_path[x] : x \in Newly(m)} -> Newly(m)] :
          /\ \A p \in DOMAIN f : m_path[f[p]] = p
          /\ g_modules' = [p \in Path |-> IF p \in DOMAIN f THEN f[p] ELSE g_modules[p]]
    /\ m_deps' = WithDependency(target[1], m)
    /\ pending' = pending \ {target}
    /\ request' = [request EXCEPT !.hook = FALSE]
    /\ phase' = "typing" /\ stack' = <<>>
    /\ UNCHANGED <<diskVars, parserVars, objectVars, m_dirty, m_mark,
                   modules, serverVars, target, parsed, built, quiet>>

-----------------------------------------------------------------------------
(* The module cache has nothing to offer (type_module returned None).       *)

\* check_display_file: whatever is known of the display file is outdated.
ForgetDisplayFile ==
    /\ phase = "parsing" /\ request.hook
    /\ RemoveFile(request.file)
    /\ m_dirty' = Tainted(request.file)
    /\ request' = [request EXCEPT !.hook = FALSE]
    /\ phase' = "typing"
    /\ UNCHANGED <<diskVars, initialized, objectVars, m_mark, m_added, m_deps, modules,
                   serverVars, typerVars, stack, built, quiet>>

ParseModule ==
    LET p == target[2] IN
    /\ phase = "parsing" /\ ~request.hook /\ disk[p] # NoFile
    /\ parsed' = Parse(p)
    /\ files' = FilesAfterParsing(p)
    /\ phase' = "making"
    /\ UNCHANGED <<diskVars, removed_files, initialized, objectVars, m_dirty, m_mark,
                   m_added, m_deps, modules, serverVars, g_modules, pending, target,
                   request, stack, built, quiet>>

\* Mutant: the module is registered after its imports have been loaded.
MakeModule_Unregistered ==
    LET p == target[2]
        m == mid_count + 1 IN
    /\ phase = "making" /\ parsed \notin Broken /\ m \in Id
    /\ mid_count' = m
    /\ m_path' = [m_path EXCEPT ![m] = p]
    /\ m_time' = [m_time EXCEPT ![m] = disk[p].time]
    /\ m_decl' = [m_decl EXCEPT ![m] = parsed]
    /\ m_deps' = WithDependency(target[1], m)
    /\ pending' = (pending \ {target}) \cup ({m} \X Imports[p][parsed])
    /\ phase' = "typing"
    /\ UNCHANGED <<diskVars, parserVars, m_dirty, m_mark, m_added, modules, serverVars,
                   g_modules, target, parsed, request, stack, built, quiet>>

\* type_module: a new object, which takes the time its file has now, is known to
\* the compilation before its imports are loaded.
MakeModule ==
    LET p == target[2]
        m == mid_count + 1 IN
    /\ phase = "making" /\ parsed \notin Broken /\ m \in Id
    /\ mid_count' = m
    /\ m_path' = [m_path EXCEPT ![m] = p]
    /\ m_time' = [m_time EXCEPT ![m] = disk[p].time]
    /\ m_decl' = [m_decl EXCEPT ![m] = parsed]
    /\ g_modules' = [g_modules EXCEPT ![p] = m]
    /\ m_deps' = WithDependency(target[1], m)
    /\ pending' = (pending \ {target}) \cup ({m} \X Imports[p][parsed])
    /\ phase' = "typing"
    /\ UNCHANGED <<diskVars, parserVars, m_dirty, m_mark, m_added, modules, serverVars,
                   target, parsed, request, stack, built, quiet>>

-----------------------------------------------------------------------------
(* Requests end.                                                            *)

\* flush.
Flush == /\ compilation_step' = compilation_step + 1
         /\ compilation_mark' = mark_loop

\* Typing is done: cache_context takes over the modules of the compilation.
Finish ==
    /\ phase = "typing" /\ request.kind = "full" /\ pending = {}
    /\ Flush
    /\ modules' = [p \in Path |-> IF g_modules[p] # 0 THEN g_modules[p] ELSE modules[p]]
    /\ built' = [p \in {q \in Path : g_modules[q] # 0} |-> m_decl[g_modules[p]]]
    /\ EndRequest
    /\ UNCHANGED <<diskVars, parserVars, objectVars, m_dirty, m_mark, m_added, m_deps,
                   mark_loop, request, stack, quiet>>

\* A missing module or an error in one: the compilation is given up, and with
\* has_error set nothing is cached.
BuildFails ==
    /\ \/ phase = "parsing" /\ ~request.hook /\ disk[target[2]] = NoFile
       \/ phase = "making" /\ parsed \in Broken
    /\ Flush
    /\ built' = IF request.kind = "full" THEN Failed ELSE built
    /\ EndRequest
    /\ UNCHANGED <<diskVars, parserVars, objectVars, m_dirty, m_mark, m_added, m_deps,
                   modules, mark_loop, request, stack, quiet>>

\* Mutant: what a display request has typed so far is cached too.
EndDisplay_Caches ==
    /\ phase = "typing" /\ request.kind = "display" /\ ~request.hook
    /\ modules' = [p \in Path |-> IF g_modules[p] # 0 THEN g_modules[p] ELSE modules[p]]
    /\ EndRequest
    /\ UNCHANGED <<diskVars, parserVars, objectVars, m_dirty, m_mark, m_added, m_deps,
                   serverVars, request, stack, built, quiet>>

\* A display request raises Completion, at whatever point of the typing it has
\* found its answer; flush is not called.
EndDisplay ==
    /\ phase = "typing" /\ request.kind = "display" /\ ~request.hook
    /\ EndRequest
    /\ UNCHANGED <<diskVars, parserVars, objectVars, m_dirty, m_mark, m_added, m_deps,
                   modules, serverVars, request, stack, built, quiet>>

\* Toplevel completion answers from the parser cache (init_or_update_server):
\* the first time every file of the class paths but the display file is parsed,
\* afterwards only the files that were removed from the cache.
ExploreClassPaths ==
    /\ Explores
    /\ phase = "typing" /\ request.kind = "display" /\ ~request.hook
    /\ files' = [p \in Path |->
          IF /\ ~IsDisplayFile(p) /\ disk[p] # NoFile
             /\ ~initialized \/ (p \in removed_files /\ files[p] = NoFile)
            THEN [time |-> disk[p].time, decl |-> Parse(p)]
            ELSE files[p]]
    /\ removed_files' = {}
    /\ initialized' = TRUE
    /\ EndRequest
    /\ UNCHANGED <<diskVars, objectVars, m_dirty, m_mark, m_added, m_deps,
                   modules, serverVars, request, stack, built, quiet>>

\* wait_loop: no client has connected.
WaitLoop == phase = "idle" /\ UNCHANGED vars

-----------------------------------------------------------------------------
Init ==
    /\ disk \in [Path -> {[time |-> 1, decl |-> d] : d \in Decl \ Broken}]
    /\ clock = 1
    /\ files = [p \in Path |-> NoFile] /\ removed_files = {} /\ initialized = FALSE
    /\ mid_count = 0
    /\ m_path = [m \in Obj |-> NoPath] /\ m_time = [m \in Obj |-> 0]
    /\ m_decl = [m \in Obj |-> NoDecl] /\ m_dirty = [m \in Obj |-> NoPath]
    /\ m_mark = [m \in Obj |-> 0] /\ m_added = [m \in Obj |-> 0]
    /\ m_deps = [m \in Obj |-> {}]
    /\ modules = [p \in Path |-> 0]
    /\ mark_loop = 0 /\ compilation_step = 0 /\ compilation_mark = 0
    /\ phase = "idle" /\ request = [kind |-> "display", file |-> Main, hook |-> FALSE]
    /\ g_modules = [p \in Path |-> 0] /\ pending = {} /\ target = <<0, Main>>
    /\ stack = <<>> /\ parsed = NoDecl
    /\ built = Failed /\ quiet = TRUE /\ raced = FALSE

Load == \E c \in Obj, p \in Path : LoadKnown(c, p) \/ LookUp(c, p)

Check == \/ \E d \in Id : \/ CheckMarked(d) \/ CheckEnter(d)
                          \/ CheckChanged(d) \/ CheckDirty(d)
         \/ CheckReturn \/ CheckDone

\* The server's own steps while it serves a request.
Serve == \/ Load \/ Check
         \/ ForgetDisplayFile \/ ParseModule \/ MakeModule
         \/ Finish \/ BuildFails \/ EndDisplay \/ ExploreClassPaths

\* What the world outside does.
Client == \/ \E p \in Path, d \in Decl \cup {NoDecl} : Edit(p, d)
          \/ StartBuild
          \/ \E p \in DisplayRequests : StartDisplay(p) \/ Invalidate(p)

Next == Client \/ Serve \/ WaitLoop

\* A request is served by straight-line code: it only has to be given processor
\* time.  Nothing obliges a client to send requests or an editor to write files.
Fairness == WF_vars(Serve)

Spec == Init /\ [][Next]_vars

FairSpec == Spec /\ Fairness

-----------------------------------------------------------------------------
(* Properties.                                                              *)

\* The server answers as a compiler without a cache would: the modules of a
\* compilation and the contents they were typed from are those of a fresh build,
\* and a compilation fails exactly when a fresh one would (Server.type_module).
F == INSTANCE FreshBuild WITH disk <- [p \in Path |-> disk[p].decl]
ImplementsFreshBuild == F!Spec

\* The same for files that change at any time, also while the server compiles: a
\* compilation during and after which nothing has changed has the outcome of a fresh
\* build.  One moment is excepted, the one between the parsing of a file and
\* make_module's reading of its time.
QuietBuildIsFresh ==
    phase = "idle" /\ quiet /\ ~raced /\ request.kind = "full" => built = F!Result

\* When check finds a module valid, so is everything add_modules will add with
\* it, also around import cycles and where a walk met modules it had marked.
ReusedGraphIsClean ==
    phase = "checking" /\ Len(stack) = 1 /\ Top.todo = {} =>
        \A x \in Reach(modules[target[2]]) : m_dirty[x] = NoPath /\ m_mark[x] = mark_loop

\* A compilation never mixes two objects of one path: whatever a loaded module
\* depends on is itself what the compilation knows under that path.
OneObjectPerPath ==
    \A p \in Path : g_modules[p] # 0 =>
        \A d \in m_deps[g_modules[p]] : g_modules[m_path[d]] = d

\* A cached module with nothing dirty below it depends on cached objects only.
CachedGraphIsCoherent ==
    \A p \in Path :
        (modules[p] # 0 /\ \A x \in Reach(modules[p]) : m_dirty[x] = NoPath) =>
            \A x \in Reach(modules[p]) : modules[m_path[x]] = x

\* cache_module only ever replaces an object that has been found dirty, so an
\* object that was replaced cannot come back through another module's m_deps.
SupersededIsDirty ==
    [][\A p \in Path : modules[p] # 0 /\ modules'[p] # modules[p]
                         => m_dirty[modules[p]] # NoPath]_vars

\* The module reported as the reason (skipping_dep) is one the skipped module
\* depends on, and was itself found invalid.
BlameIsReachable ==
    \A m \in 1 .. mid_count : m_dirty[m] # NoPath =>
        \E x \in Reach(m) : m_path[x] = m_dirty[m] /\ m_dirty[x] = m_path[x]

\* Every request ends, whatever the import graph: cyclic imports are cut off by
\* g_modules while typing and by m_mark while checking.
RequestTerminates == phase # "idle" ~> phase = "idle"
=============================================================================
