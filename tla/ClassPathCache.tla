--------------------------- MODULE ClassPathCache ---------------------------
(***************************************************************************)
(* Shadowing in the compilation server (src/compiler/server.ml).  A module  *)
(* comes from the first directory of the class path that has its file.  A   *)
(* file that is added later, in front of the one a cached module was typed  *)
(* from, is found by the modification times of directories, which the       *)
(* server records per signature.                                            *)
(*                                                                          *)
(* A directory is a class path or the directory of the package in one.      *)
(* Modules are independent of each other here: the walk over dependencies   *)
(* is the subject of ModuleCache.                                           *)
(***************************************************************************)
EXTENDS Naturals, Sequences, FiniteSetsExt

CONSTANTS
    Root,           \* directories that may be class paths
    Module,
    InPackage,      \* modules of the package; the others are in no package
    ClassPaths,     \* com.class_path of requests: sequences of roots
    Programs,       \* the modules a request uses
    Missing,        \* "a root": the module is in none
    Failed,         \* outcome of a compilation that reported an error
    MaxClock,       \* bound: changes of the file system
    MaxRequests     \* bound: requests

ASSUME ClassPathAssumption == ClassPaths \subseteq Seq(Root) /\ Missing \notin Root
ASSUME ModuleAssumption == InPackage \subseteq Module /\ Programs \subseteq SUBSET Module

Dir == Root \X BOOLEAN          \* TRUE: the package's directory in the root
DirOf(r, m) == <<r, m \in InPackage>>

VARIABLES
    clock,
    file_time,      \* per root and module, 0: no such file
    st_mtime,       \* per directory, 0: no such directory
    modules,        \* the module cache: where a module was found, and m_time
    m_dirty,
    class_paths,    \* of the last request, <<>> before the first
    recorded,       \* the cache has directories for the signature
    directories,    \* per directory: c_mtime, 0 if the cache does not have it
    determined, changed_directories,    \* of this request
    delays,         \* class paths to be recorded
    phase, pending, \* of the request: modules it has still to load
    loaded,         \* and those it has
    readdir_cache,  \* of the request: modules in the directories it has read
    requests,
    built, quiet,   \* history: outcome of the last request, nothing changed since it began
    news, told,     \* history: added files a request will find or has just found changed
    lost,           \* directories for; those it will not, or that were not looked for
    foreign,        \* history: cached modules that were found in another class path
    aborted         \* history: an aborted request has left delays; until they have run and the
                    \* class path is another one

diskVars    == <<clock, file_time, st_mtime>>
cacheVars   == <<modules, m_dirty>>
dirVars     == <<class_paths, recorded, directories, determined, changed_directories, delays>>
requestVars == <<phase, pending, loaded, readdir_cache, requests>>
historyVars == <<news, told, lost, foreign, aborted>>
vars == <<diskVars, cacheVars, dirVars, requestVars, built, quiet, historyVars>>

Found == [root : Root \cup {Missing}, time : Nat]
NotFound == [root |-> Missing, time |-> 0]

TypeOK ==
    /\ clock \in Nat /\ file_time \in [Root \X Module -> Nat] /\ st_mtime \in [Dir -> Nat]
    /\ modules \in [Module -> Found] /\ m_dirty \subseteq Module
    /\ class_paths \in ClassPaths \cup {<<>>}
    /\ recorded \in BOOLEAN /\ directories \in [Dir -> Nat]
    /\ determined \in BOOLEAN /\ changed_directories \subseteq Dir
    /\ delays \in Seq(ClassPaths)
    /\ phase \in {"idle", "typing", "delays"} /\ pending \subseteq Module
    /\ loaded \in [Module -> Found] /\ requests \in Nat
    /\ DOMAIN readdir_cache \subseteq Dir
    /\ \A d \in DOMAIN readdir_cache : readdir_cache[d] \subseteq Module
    /\ quiet \in BOOLEAN /\ aborted \in BOOLEAN /\ foreign \subseteq Module
    /\ news \subseteq Root \X Module /\ told \subseteq Root \X Module
    /\ lost \subseteq Root \X Module
    /\ \A d \in Dir : directories[d] <= st_mtime[d] \/ st_mtime[d] = 0
    /\ ~recorded => \A d \in Dir : directories[d] = 0

-----------------------------------------------------------------------------
(* The file system.                                                         *)

Exists(r, m) == file_time[<<r, m>>] > 0

Stamp == /\ clock < MaxClock
         /\ clock' = clock + 1
         /\ quiet' = FALSE

Forget(files) ==
    news' = news \ files /\ told' = told \ files /\ lost' = lost \ files

Modify(r, m) ==
    /\ Stamp /\ Exists(r, m)
    /\ file_time' = [file_time EXCEPT ![<<r, m>>] = clock']
    /\ UNCHANGED <<st_mtime, cacheVars, dirVars, requestVars, built, historyVars>>

Add(r, m) ==
    LET d == DirOf(r, m) IN
    /\ Stamp /\ ~Exists(r, m) /\ st_mtime[d] > 0
    /\ file_time' = [file_time EXCEPT ![<<r, m>>] = clock']
    /\ st_mtime' = [st_mtime EXCEPT ![d] = clock']
    /\ IF directories[d] > 0 /\ m \notin InPackage
         THEN news' = news \cup {<<r, m>>} /\ UNCHANGED lost
         ELSE lost' = lost \cup {<<r, m>>} /\ UNCHANGED news
    /\ UNCHANGED <<cacheVars, dirVars, requestVars, built, told, foreign, aborted>>

Delete(r, m) ==
    /\ Stamp /\ Exists(r, m)
    /\ file_time' = [file_time EXCEPT ![<<r, m>>] = 0]
    /\ st_mtime' = [st_mtime EXCEPT ![DirOf(r, m)] = clock']
    /\ Forget({<<r, m>>})
    /\ UNCHANGED <<cacheVars, dirVars, requestVars, built, foreign, aborted>>

\* A directory is made or removed, which changes the one it is in too.
MakeDirectory(d) ==
    /\ Stamp /\ st_mtime[d] = 0 /\ (d[2] => st_mtime[<<d[1], FALSE>>] > 0)
    /\ st_mtime' = [e \in Dir |-> IF e = d \/ (d[2] /\ e = <<d[1], FALSE>>)
                                    THEN clock' ELSE st_mtime[e]]
    /\ UNCHANGED <<file_time, cacheVars, dirVars, requestVars, built, historyVars>>

RemoveDirectory(d) ==
    LET gone == {e \in Dir : e = d \/ (~d[2] /\ e[1] = d[1])}
        rest == {f \in Root \X Module : DirOf(f[1], f[2]) \notin gone} IN
    /\ Stamp /\ st_mtime[d] > 0
    /\ st_mtime' = [e \in Dir |-> IF e \in gone THEN 0
                                  ELSE IF e[1] = d[1] THEN clock' ELSE st_mtime[e]]
    /\ file_time' = [f \in Root \X Module |-> IF f \in rest THEN file_time[f] ELSE 0]
    /\ Forget((Root \X Module) \ rest)
    /\ UNCHANGED <<cacheVars, dirVars, requestVars, built, foreign, aborted>>

-----------------------------------------------------------------------------
(* Requests.                                                                *)

\* init_new_compilation and setup: when the class path is another one the recorded
\* directories are dropped, and with them all that was known of added files.
Start(cp, program) ==
    /\ phase = "idle" /\ requests < MaxRequests
    /\ requests' = requests + 1
    /\ phase' = "typing" /\ pending' = program
    /\ loaded' = [m \in Module |-> NotFound] /\ readdir_cache' = <<>>
    /\ determined' = FALSE /\ changed_directories' = {}
    /\ class_paths' = cp
    /\ IF class_paths \in {<<>>, cp}
         THEN UNCHANGED <<recorded, directories, news, foreign, aborted>>
         ELSE /\ recorded' = FALSE
              /\ directories' = [d \in Dir |-> 0]
              /\ news' = {}
              /\ foreign' = {m \in Module : modules[m] # NotFound}
              /\ aborted' = (aborted /\ delays # <<>>)
    /\ quiet' = TRUE
    /\ UNCHANGED <<diskVars, cacheVars, delays, built, told, lost>>

\* Mutant: recorded as of now instead of its modification time.
TimeOf_Now(d) == IF st_mtime[d] > 0 THEN clock ELSE 0

\* stat: the time that is recorded for a directory.
TimeOf(d) == st_mtime[d]

\* What get_changed_directories returns.
Changed ==
    IF determined THEN changed_directories
    ELSE {d \in Dir : 0 < directories[d] /\ directories[d] < TimeOf(d)}

\* A package's directory that was not known is recorded as it is now, without being
\* one of the changed ones.
NewSub(d) == d[2] /\ directories[d] = 0 /\ st_mtime[d] > 0 /\ <<d[1], FALSE>> \in Changed

\* An added file is heard of once, too late for a module that has been loaded.
Tell == LET heard == {f \in news : DirOf(f[1], f[2]) \in Changed}
            late  == {f \in heard : loaded[f[2]] # NotFound} IN
        news' = news \ heard /\ told' = told \cup (heard \ late) /\ lost' = lost \cup late

Record == /\ recorded' = TRUE
          /\ delays' = IF recorded THEN delays ELSE <<class_paths>> \o delays
          /\ directories' = [d \in Dir |-> IF NewSub(d) \/ directories[d] > 0 THEN TimeOf(d)
                                           ELSE directories[d]]

\* Mutant: determined anew for every module.
GetChangedDirectories_Anew ==
    /\ determined' = FALSE /\ changed_directories' = {}
    /\ Record
    /\ Tell

\* get_changed_directories.  Without recorded directories it has them recorded after
\* the compilation.  The request is now the only one to be told of what is new.
GetChangedDirectories ==
    /\ determined' = TRUE /\ changed_directories' = Changed
    /\ IF determined THEN UNCHANGED <<recorded, delays, directories>> ELSE Record
    /\ Tell

\* check_module_shadowing.  The name of a package's directory has no slash at its end,
\* and no module's file is called "packageModule.hx".
Shadows(r, m) ==
    /\ <<r, FALSE>> \in Changed /\ m \notin InPackage
    /\ file_time[<<r, m>>] > modules[m].time

Cached(m) == modules[m] # NotFound /\ m \notin m_dirty

IsFine(m) ==
    /\ \A r \in Root : ~Shadows(r, m)
    /\ file_time[<<modules[m].root, m>>] = modules[m].time

\* type_module: the cached module can be reused.
Reuse(m) ==
    /\ phase = "typing" /\ m \in pending /\ Cached(m) /\ IsFine(m)
    /\ GetChangedDirectories
    /\ loaded' = [loaded EXCEPT ![m] = modules[m]]
    /\ pending' = pending \ {m}
    /\ UNCHANGED <<diskVars, cacheVars, class_paths, phase, readdir_cache, requests, built,
                   quiet, foreign, aborted>>

\* It cannot, and will be typed.
Outdate(m) ==
    /\ phase = "typing" /\ m \in pending /\ Cached(m) /\ ~IsFine(m)
    /\ GetChangedDirectories
    /\ m_dirty' = m_dirty \cup {m}
    /\ UNCHANGED <<diskVars, modules, class_paths, requestVars, built, quiet,
                   foreign, aborted>>

\* find_file: directories are read once in a request.
Entries(d) == IF d \in DOMAIN readdir_cache THEN readdir_cache[d]
              ELSE {m \in Module : d = DirOf(d[1], m) /\ Exists(d[1], m)}

\* The first root of the class path that has the module, and the directories read for it.
Hits(m) == {i \in DOMAIN class_paths : m \in Entries(DirOf(class_paths[i], m))}
find_file(m) == class_paths[Min(Hits(m))]
Visited(m) == {DirOf(class_paths[i], m) : i \in 1..Min(Hits(m))}

\* load_module: the module is looked for in the class path.
Type(m) ==
    /\ phase = "typing" /\ m \in pending /\ ~Cached(m)
    /\ Hits(m) # {} /\ Exists(find_file(m), m)
    /\ loaded' = [loaded EXCEPT ![m] = [root |-> find_file(m),
                                       time |-> file_time[<<find_file(m), m>>]]]
    /\ readdir_cache' = [d \in DOMAIN readdir_cache \cup Visited(m) |-> Entries(d)]
    /\ pending' = pending \ {m}
    /\ LET seen  == {f \in Root \X {m} : m \in Entries(DirOf(f[1], m))}
           older == {f \in news : file_time[f] <= file_time[<<find_file(m), m>>]} IN
       /\ news' = news \ seen /\ told' = {f \in told : f[2] # m}
       /\ lost' = (lost \ seen) \cup {f \in (told \cup older) \ seen : f[2] = m}
    /\ foreign' = foreign \ {m}
    /\ UNCHANGED <<diskVars, cacheVars, dirVars, phase, requests, built, quiet, aborted>>

\* A request ends, and with it its context: the modules it has not loaded are not checked
\* against what it was told.
EndOfTyping ==
    /\ pending' = {} /\ loaded' = [m \in Module |-> NotFound] /\ readdir_cache' = <<>>
    /\ lost' = lost \cup {f \in told : loaded[f[2]] = NotFound} /\ told' = {}
    /\ UNCHANGED <<diskVars, dirVars, requests, quiet, news, foreign>>

\* flush, cache_context.
Finish ==
    /\ phase = "typing" /\ pending = {} /\ EndOfTyping
    /\ modules' = [m \in Module |-> IF loaded[m] # NotFound THEN loaded[m] ELSE modules[m]]
    /\ m_dirty' = {m \in m_dirty : loaded[m] = NotFound}
    /\ built' = loaded
    /\ phase' = "delays" /\ UNCHANGED aborted

\* An error, in a file that is missing or in any other.
Fails ==
    /\ phase = "typing" /\ pending # {} /\ EndOfTyping
    /\ built' = Failed
    /\ phase' = "delays" /\ UNCHANGED <<cacheVars, aborted>>

\* An exception of write, the client has gone, in typing or after it (the messages, the
\* times): run_delays is not reached.
Abort ==
    /\ phase # "idle" /\ EndOfTyping
    /\ built' = Failed /\ aborted' = (aborted \/ delays # <<>>)
    /\ phase' = "idle" /\ UNCHANGED cacheVars

OnClassPath(d, cp) == \E i \in DOMAIN cp : cp[i] = d[1]

\* The delays run, the last one of them is the oldest: what it records stays.
RecordAll ==
    /\ phase = "delays" /\ phase' = "idle"
    /\ IF delays = <<>> THEN UNCHANGED <<recorded, directories>>
       ELSE /\ recorded' = TRUE
            /\ directories' = [d \in Dir |-> IF OnClassPath(d, delays[Len(delays)])
                                               THEN TimeOf(d) ELSE 0]
    /\ UNCHANGED <<diskVars, cacheVars, class_paths, determined, changed_directories,
                   pending, loaded, readdir_cache, requests, built, quiet, historyVars>>

\* Mutant: the delays stay in the list.
RunDelays_Again == RecordAll /\ UNCHANGED delays

\* run_delays.
RunDelays == RecordAll /\ delays' = <<>>

\* wait_loop: no client has connected.
WaitLoop == phase = "idle" /\ UNCHANGED vars

-----------------------------------------------------------------------------
Init ==
    /\ clock = 1
    /\ st_mtime \in [Dir -> {0, 1}]
    /\ \A r \in Root : st_mtime[<<r, TRUE>>] > 0 => st_mtime[<<r, FALSE>>] > 0
    /\ file_time \in [Root \X Module -> {0, 1}]
    /\ \A r \in Root, m \in Module : Exists(r, m) => st_mtime[DirOf(r, m)] > 0
    /\ modules = [m \in Module |-> NotFound] /\ m_dirty = {}
    /\ class_paths = <<>> /\ recorded = FALSE /\ directories = [d \in Dir |-> 0]
    /\ determined = FALSE /\ changed_directories = {} /\ delays = <<>>
    /\ phase = "idle" /\ pending = {} /\ loaded = [m \in Module |-> NotFound]
    /\ readdir_cache = <<>> /\ requests = 0
    /\ built = Failed /\ quiet = TRUE /\ news = {} /\ told = {} /\ lost = {}
    /\ foreign = {} /\ aborted = FALSE

Edit == \/ \E r \in Root, m \in Module : Modify(r, m) \/ Add(r, m) \/ Delete(r, m)
        \/ \E d \in Dir : MakeDirectory(d) \/ RemoveDirectory(d)

Serve == \/ \E m \in Module : Reuse(m) \/ Outdate(m) \/ Type(m)
         \/ Finish \/ Fails \/ Abort \/ RunDelays

Next == \/ Edit \/ Serve \/ WaitLoop
        \/ \E cp \in ClassPaths, program \in Programs : Start(cp, program)

Spec == Init /\ [][Next]_vars

-----------------------------------------------------------------------------
(* Properties.                                                              *)

First(m) ==
    LET Has == {i \in DOMAIN class_paths : Exists(class_paths[i], m)} IN
    IF Has = {} THEN Missing ELSE class_paths[Min(Has)]

\* After a compilation during which nothing has changed (get_changed_directories,
\* check_module_shadowing) every module is on disk as it was typed, and is the one the
\* class path finds first, unless the server could not know of that file: it was added
\* when its directory was not recorded, or in a package; or a request was told of it that
\* did not look at the module, or had done so before; or the module was typed from a newer
\* file after the directory had been read; or it was cached when the class path changed.
ShadowIsFound ==
    phase = "idle" /\ quiet /\ built # Failed =>
        \A m \in Module : built[m] # NotFound =>
            /\ file_time[<<built[m].root, m>>] = built[m].time
            /\ built[m].root = First(m) \/ <<First(m), m>> \in lost \/ m \in foreign

\* The recorded directories are those of the class path of the last request: delays of
\* an earlier one do not come in late, but for those an aborted request has left: what
\* they record stays until the class path changes.
RecordFitsClassPath ==
    ~aborted => \A d \in Dir : directories[d] > 0 => OnClassPath(d, class_paths)

\* The tables are what their types say, and the recorded directories those of the
\* class path.
Consistent == TypeOK /\ RecordFitsClassPath
=============================================================================
