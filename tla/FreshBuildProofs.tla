-------------------------- MODULE FreshBuildProofs --------------------------
(***************************************************************************)
(* A compilation through the server has the outcome of a fresh one: what    *)
(* the caches of ModuleCache say of the source files, and why a walk of     *)
(* check that finds nothing has found everything.                           *)
(***************************************************************************)
EXTENDS ModuleCacheProofs

\* The hypotheses under which the server promises it: what is checked of a file is not
\* switched off, file times tell edits apart, and where contents are compared, nothing but
\* compilations fills the parser cache.
FilesAreChecked ==
    /\ \A p \in Path : /\ "NoCheckFileTimeModification" \notin Policy[p]
                       /\ "NoCheckDependencies" \notin Policy[p]
                       /\ Explores => "CheckFileContentModification" \notin Policy[p]
    /\ ~SameSecondEdits

Imported(x) == Imports[m_path[x]][m_decl[x]]

\* x depends on an object of path p, or is one.
Has(x, p) == \E d \in m_deps[x] \cup {x} : m_path[d] = p

Stamped(file) == file.time > 0 /\ file.time <= clock

DiskInv == \A p \in Path : disk[p] = NoFile \/ (Stamped(disk[p]) /\ disk[p].decl \in Decl)

\* A cached file that has the time of the file has its content.
ParserInv == \A p \in Path : files[p] # NoFile =>
    /\ Stamped(files[p])
    /\ files[p].time = disk[p].time => files[p].decl = disk[p].decl

\* So has an object, if its file did not change just before its time was read.
ObjectInv == \A x \in Id : x \in Made =>
    /\ m_decl[x] \in Decl \ Broken
    /\ ~raced => /\ 0 < m_time[x] /\ m_time[x] <= clock
                 /\ m_time[x] = disk[m_path[x]].time => m_decl[x] = disk[m_path[x]].decl

MakingInv == phase = "making" =>
    /\ parsed \in Decl
    /\ ~raced => parsed = disk[target[2]].decl /\ disk[target[2]] # NoFile
    /\ request.kind = "full" => files[target[2]].decl = parsed

TimesInv == DiskInv /\ ParserInv /\ ObjectInv /\ MakingInv

-----------------------------------------------------------------------------
(* File times.                                                              *)

\* Only editors change files, and without SameSecondEdits each edit has a time of its own.
LEMMA DiskStays ==
    ASSUME ~SameSecondEdits, TypeOK, [Next]_vars
    PROVE  \/ UNCHANGED <<disk, clock, raced>>
           \/ \E p \in Path, d \in Decl \cup {NoDecl} :
                 /\ Edit(p, d)
                 /\ clock' = clock + 1
                 /\ disk' = [disk EXCEPT ![p] = IF d = NoDecl THEN NoFile
                                                ELSE [time |-> clock + 1, decl |-> d]]
                 /\ UNCHANGED <<files, mid_count, m_path, m_time, m_decl, phase, request,
                                target, parsed>>
<1>. USE DEF diskVars, parserVars, objectVars, serverVars, typerVars
<1>1. ASSUME NEW p \in Path, NEW d \in Decl \cup {NoDecl}, Edit(p, d)
      PROVE  /\ clock' = clock + 1
             /\ disk' = [disk EXCEPT ![p] = IF d = NoDecl THEN NoFile
                                            ELSE [time |-> clock + 1, decl |-> d]]
             /\ UNCHANGED <<files, mid_count, m_path, m_time, m_decl, phase, request,
                            target, parsed>>
  BY <1>1 DEF Edit
<1>2. ASSUME NEW p \in DisplayRequests, StartDisplay(p) \/ Invalidate(p)
      PROVE  UNCHANGED <<disk, clock, raced>>
  BY <1>2 DEF StartDisplay, Invalidate
<1>3. ASSUME NEW c \in Obj, NEW p \in Path, LoadKnown(c, p) \/ LookUp(c, p)
      PROVE  UNCHANGED <<disk, clock, raced>>
  BY <1>3 DEF LoadKnown, LookUp
<1>4. ASSUME NEW d \in Id, CheckMarked(d) \/ CheckEnter(d) \/ CheckChanged(d) \/ CheckDirty(d)
      PROVE  UNCHANGED <<disk, clock, raced>>
  BY <1>4 DEF CheckMarked, CheckEnter, CheckChanged, CheckDirty
<1>5. StartBuild \/ CheckReturn \/ CheckDone \/ ForgetDisplayFile \/ ParseModule \/ MakeModule
        => UNCHANGED <<disk, clock, raced>>
  BY DEF StartBuild, CheckReturn, CheckDone, ForgetDisplayFile, ParseModule, MakeModule
<1>6. Finish \/ BuildFails \/ EndDisplay \/ ExploreClassPaths \/ UNCHANGED vars
        => UNCHANGED <<disk, clock, raced>>
  BY DEF Finish, BuildFails, EndDisplay, ExploreClassPaths, vars
<1>. QED
  BY <1>1, <1>2, <1>3, <1>4, <1>5, <1>6 DEF Next, Client, Serve, Load, Check, WaitLoop

\* The parser cache gets a file as it is, or loses one.
LEMMA FilesStay ==
    ASSUME Base, [Next]_vars
    PROVE  \/ UNCHANGED files
           \/ \E p \in Path : files' = [files EXCEPT ![p] = NoFile]
           \/ \E p \in Path : disk[p] # NoFile /\ files' = FilesAfterParsing(p)
           \/ ExploreClassPaths
<1>. USE DEF diskVars, parserVars, objectVars, serverVars, typerVars
<1>1. ASSUME NEW p \in Path, NEW d \in Decl \cup {NoDecl}, Edit(p, d) PROVE UNCHANGED files
  BY <1>1 DEF Edit
<1>2. ASSUME NEW p \in DisplayRequests, StartDisplay(p) \/ Invalidate(p)
      PROVE  UNCHANGED files \/ \E q \in Path : files' = [files EXCEPT ![q] = NoFile]
  BY <1>2, ConstantsAssumption DEF StartDisplay, Invalidate, RemoveFile
<1>3. ASSUME NEW c \in Obj, NEW p \in Path, LoadKnown(c, p) \/ LookUp(c, p)
      PROVE  UNCHANGED files
  BY <1>3 DEF LoadKnown, LookUp
<1>4. ASSUME NEW d \in Id, CheckMarked(d) \/ CheckDirty(d) PROVE UNCHANGED files
  BY <1>4 DEF CheckMarked, CheckDirty
<1>5. ASSUME NEW d \in Id, CheckEnter(d) \/ CheckChanged(d)
      PROVE  \/ UNCHANGED files
             \/ \E p \in Path : disk[p] # NoFile /\ files' = FilesAfterParsing(p)
  <2>1. m_path[d] \in Path
    BY <1>5, NextMade, Ids DEF Base, RefsMade, CheckEnter, CheckChanged
  <2>. QED BY <1>5, <2>1 DEF CheckEnter, CheckChanged, FilesAfterCheck, Reparses
<1>6. StartBuild \/ CheckReturn \/ CheckDone \/ MakeModule => UNCHANGED files
  BY DEF StartBuild, CheckReturn, CheckDone, MakeModule
<1>7. ForgetDisplayFile => \E p \in Path : files' = [files EXCEPT ![p] = NoFile]
  BY DEF ForgetDisplayFile, RemoveFile, Base, TypeOK, Request
<1>8. ParseModule => \E p \in Path : disk[p] # NoFile /\ files' = FilesAfterParsing(p)
  BY DEF ParseModule, Base, TypeOK
<1>9. Finish \/ BuildFails \/ EndDisplay \/ UNCHANGED vars => UNCHANGED files
  BY DEF Finish, BuildFails, EndDisplay, vars
<1>. QED
  BY <1>1, <1>2, <1>3, <1>4, <1>5, <1>6, <1>7, <1>8, <1>9
     DEF Next, Client, Serve, Load, Check, WaitLoop

\* The cached declarations of a file are those of the file, whenever they are used.
LEMMA ParseIsDisk ==
    ASSUME ParserInv, NEW p \in Path
    PROVE  Parse(p) = disk[p].decl
BY DEF ParserInv, Parse

\* A new object is what MakeModule makes.
LEMMA ObjectsStay ==
    ASSUME Base, [Next]_vars
    PROVE  \/ UNCHANGED <<mid_count, m_path, m_time, m_decl>>
           \/ /\ MakeModule /\ mid_count \in Nat /\ mid_count + 1 \in Id
              /\ mid_count' = mid_count + 1
              /\ m_path' = [m_path EXCEPT ![mid_count + 1] = target[2]]
              /\ m_time' = [m_time EXCEPT ![mid_count + 1] = disk[target[2]].time]
              /\ m_decl' = [m_decl EXCEPT ![mid_count + 1] = parsed]
<1>. USE DEF diskVars, parserVars, objectVars, serverVars, typerVars
<1>1. ASSUME NEW p \in Path, NEW d \in Decl \cup {NoDecl}, Edit(p, d)
      PROVE  UNCHANGED objectVars
  BY <1>1 DEF Edit
<1>2. ASSUME NEW p \in DisplayRequests, StartDisplay(p) \/ Invalidate(p)
      PROVE  UNCHANGED objectVars
  BY <1>2 DEF StartDisplay, Invalidate
<1>3. ASSUME NEW c \in Obj, NEW p \in Path, LoadKnown(c, p) \/ LookUp(c, p)
      PROVE  UNCHANGED objectVars
  BY <1>3 DEF LoadKnown, LookUp
<1>4. ASSUME NEW d \in Id, CheckMarked(d) \/ CheckEnter(d) \/ CheckChanged(d) \/ CheckDirty(d)
      PROVE  UNCHANGED objectVars
  BY <1>4 DEF CheckMarked, CheckEnter, CheckChanged, CheckDirty
<1>5. StartBuild \/ CheckReturn \/ CheckDone \/ ForgetDisplayFile \/ ParseModule
        => UNCHANGED objectVars
  BY DEF StartBuild, CheckReturn, CheckDone, ForgetDisplayFile, ParseModule
<1>6. Finish \/ BuildFails \/ EndDisplay \/ ExploreClassPaths \/ UNCHANGED vars
        => UNCHANGED objectVars
  BY DEF Finish, BuildFails, EndDisplay, ExploreClassPaths, vars
<1>7. MakeModule => /\ mid_count \in Nat /\ mid_count + 1 \in Id
                    /\ mid_count' = mid_count + 1
                    /\ m_path' = [m_path EXCEPT ![mid_count + 1] = target[2]]
                    /\ m_time' = [m_time EXCEPT ![mid_count + 1] = disk[target[2]].time]
                    /\ m_decl' = [m_decl EXCEPT ![mid_count + 1] = parsed]
  BY ConstantsAssumption DEF MakeModule, Base, TypeOK, Obj
<1>. QED
  BY <1>1, <1>2, <1>3, <1>4, <1>5, <1>6, <1>7 DEF Next, Client, Serve, Load, Check, WaitLoop

\* Times of files and contents go together in the parser cache.
LEMMA FileTimesStep ==
    ASSUME ~SameSecondEdits, Base, DiskInv, ParserInv, [Next]_vars
    PROVE  DiskInv' /\ ParserInv'
<1>0. /\ clock \in Nat /\ disk \in [Path -> File] /\ files \in [Path -> File]
      /\ NoFile \in File /\ NoFile.time = 0 /\ NoFile.decl = NoDecl
  BY DEF Base, TypeOK, NoFile, File
<1>1. ASSUME NEW p \in Path, NEW d \in Decl \cup {NoDecl},
             clock' = clock + 1, UNCHANGED files,
             disk' = [disk EXCEPT ![p] = IF d = NoDecl THEN NoFile
                                         ELSE [time |-> clock + 1, decl |-> d]]
      PROVE  DiskInv' /\ ParserInv'
  <2>. DEFINE new == IF d = NoDecl THEN NoFile ELSE [time |-> clock + 1, decl |-> d]
  <2>1. new = NoFile \/ (new.time = clock + 1 /\ new.decl \in Decl)
    OBVIOUS
  <2>2. \A q \in Path : disk'[q] = IF q = p THEN new ELSE disk[q]
    BY <1>0, <1>1
  <2>. HIDE DEF new
  <2>3. DiskInv'
    <3>1. ASSUME NEW q \in Path
          PROVE  disk'[q] = NoFile \/ (disk'[q].time > 0 /\ disk'[q].time <= clock'
                                         /\ disk'[q].decl \in Decl)
      <4>1. CASE q = p
        BY <1>0, <1>1, <2>1, <2>2, <4>1
      <4>2. CASE q # p
        <5>1. disk'[q] = disk[q] /\ disk[q].time \in Nat
          BY <1>0, <2>2, <4>2 DEF File
        <5>. QED BY <1>0, <1>1, <5>1 DEF DiskInv, Stamped
      <4>. QED BY <4>1, <4>2
    <3>. QED BY <3>1 DEF DiskInv, Stamped
  <2>4. ParserInv'
    <3>1. ASSUME NEW q \in Path, files[q] # NoFile
          PROVE  /\ files[q].time > 0 /\ files[q].time <= clock'
                 /\ files[q].time = disk'[q].time => files[q].decl = disk'[q].decl
      <4>1. /\ files[q].time \in Nat /\ files[q].time > 0 /\ files[q].time <= clock
            /\ files[q].time = disk[q].time => files[q].decl = disk[q].decl
        BY <1>0, <3>1 DEF ParserInv, Stamped, File
      <4>2. CASE q = p
        <5>1. disk'[q].time = 0 \/ disk'[q].time = clock + 1
          BY <1>0, <2>1, <2>2, <4>2
        <5>. QED BY <1>0, <1>1, <4>1, <5>1
      <4>3. CASE q # p
        BY <1>0, <1>1, <2>2, <4>1, <4>3
      <4>. QED BY <4>2, <4>3
    <3>. QED BY <1>1, <3>1 DEF ParserInv, Stamped
  <2>. QED BY <2>3, <2>4
<1>2. CASE UNCHANGED <<disk, clock>>
  <2>1. DiskInv'
    BY <1>2 DEF DiskInv, Stamped
  <2>2. ASSUME \A q \in Path : \/ files'[q] = files[q] \/ files'[q] = NoFile
                               \/ /\ disk[q] # NoFile
                                  /\ files'[q] = [time |-> disk[q].time, decl |-> Parse(q)]
        PROVE  ParserInv'
    <3>1. ASSUME NEW q \in Path, files'[q] # NoFile
          PROVE  /\ files'[q].time > 0 /\ files'[q].time <= clock
                 /\ files'[q].time = disk[q].time => files'[q].decl = disk[q].decl
      <4>1. CASE files'[q] = files[q]
        BY <3>1, <4>1 DEF ParserInv, Stamped
      <4>2. CASE disk[q] # NoFile /\ files'[q] = [time |-> disk[q].time, decl |-> Parse(q)]
        BY <4>2, ParseIsDisk DEF DiskInv, Stamped
      <4>. QED BY <2>2, <3>1, <4>1, <4>2
    <3>. QED BY <1>2, <3>1 DEF ParserInv, Stamped
  <2>3. ExploreClassPaths => ParserInv'
    BY <2>2 DEF ExploreClassPaths
  <2>4. ASSUME NEW p \in Path, files' = [files EXCEPT ![p] = NoFile] PROVE ParserInv'
    BY <1>0, <2>2, <2>4
  <2>5. ASSUME NEW p \in Path, disk[p] # NoFile, files' = FilesAfterParsing(p) PROVE ParserInv'
    BY <1>0, <2>2, <2>5 DEF FilesAfterParsing
  <2>6. UNCHANGED files => ParserInv'
    BY <2>2
  <2>. QED BY <2>1, <2>3, <2>4, <2>5, <2>6, FilesStay
<1>. QED BY <1>1, <1>2, DiskStays DEF Base

\* What is being made was parsed from the file, and an object keeps its time and content.
LEMMA ObjectTimesStep ==
    ASSUME ~SameSecondEdits, Base, TimesInv, [Next]_vars
    PROVE  ObjectInv'
<1>0. /\ clock \in Nat /\ disk \in [Path -> File] /\ mid_count \in Nat
      /\ m_time \in [Obj -> Nat] /\ m_path \in [Obj -> Path \cup {NoPath}]
      /\ m_decl \in [Obj -> Decl \cup {NoDecl}]
      /\ target[2] \in Path
      /\ NoFile.time = 0 /\ Id \subseteq Obj /\ Id \subseteq Nat /\ 0 \notin Id
      /\ \A x \in Id : x \in Made => m_path[x] \in Path
  <2>1. mid_count \in Nat /\ NoFile.time = 0
    BY ConstantsAssumption DEF Base, TypeOK, Obj, NoFile
  <2>. QED BY <2>1, Ids DEF Base, TypeOK, RefsMade
<1>1. ASSUME NEW p \in Path, NEW d \in Decl \cup {NoDecl}, Edit(p, d), clock' = clock + 1,
             disk' = [disk EXCEPT ![p] = IF d = NoDecl THEN NoFile
                                         ELSE [time |-> clock + 1, decl |-> d]],
             UNCHANGED <<mid_count, m_path, m_time, m_decl>>
      PROVE  ObjectInv'
  <2>1. raced' = (raced \/ (phase = "making" /\ target[2] = p))
    BY <1>1 DEF Edit
  <2>2. \A q \in Path : \/ disk'[q] = disk[q]
                        \/ disk'[q].time = 0 \/ disk'[q].time = clock + 1
    BY <1>0, <1>1
  <2>3. ASSUME NEW x \in Id, x \in Made, ~raced'
        PROVE  /\ 0 < m_time[x] /\ m_time[x] <= clock'
               /\ m_time[x] = disk'[m_path[x]].time => m_decl[x] = disk'[m_path[x]].decl
    <3>1. /\ 0 < m_time[x] /\ m_time[x] <= clock /\ m_time[x] \in Nat
          /\ m_time[x] = disk[m_path[x]].time => m_decl[x] = disk[m_path[x]].decl
      BY <1>0, <2>1, <2>3 DEF TimesInv, ObjectInv
    <3>2. \/ disk'[m_path[x]] = disk[m_path[x]]
          \/ disk'[m_path[x]].time = 0 \/ disk'[m_path[x]].time = clock + 1
      BY <1>0, <2>2, <2>3
    <3>. QED BY <1>0, <1>1, <3>1, <3>2
  <2>. QED BY <1>1, <2>3 DEF TimesInv, ObjectInv, Made
<1>2. CASE UNCHANGED <<disk, clock, raced>>
  <2>1. CASE UNCHANGED <<mid_count, m_path, m_time, m_decl>>
    BY <1>2, <2>1 DEF TimesInv, ObjectInv, Made
  <2>2. ASSUME MakeModule, mid_count + 1 \in Id, mid_count' = mid_count + 1,
               m_path' = [m_path EXCEPT ![mid_count + 1] = target[2]],
               m_time' = [m_time EXCEPT ![mid_count + 1] = disk[target[2]].time],
               m_decl' = [m_decl EXCEPT ![mid_count + 1] = parsed]
        PROVE  ObjectInv'
    <3>1. \A x \in Id : x \in Made' => x = mid_count + 1 \/ (x \in Made /\ x # mid_count + 1)
      BY <1>0, <2>2 DEF Made
    <3>2. \A x \in Id : x # mid_count + 1 =>
             m_path'[x] = m_path[x] /\ m_time'[x] = m_time[x] /\ m_decl'[x] = m_decl[x]
      BY <1>0, <2>2
    <3>3. LET x == mid_count + 1 IN
          m_path'[x] = target[2] /\ m_time'[x] = disk[target[2]].time /\ m_decl'[x] = parsed
      BY <1>0, <2>2
    <3>4. phase = "making" /\ parsed \notin Broken
      BY <2>2 DEF MakeModule
    <3>5. /\ parsed \in Decl
          /\ ~raced => /\ parsed = disk[target[2]].decl
                       /\ disk[target[2]].time > 0 /\ disk[target[2]].time <= clock
      BY <1>0, <3>4 DEF TimesInv, MakingInv, DiskInv, Stamped
    <3>6. ASSUME NEW x \in Id, x \in Made, x # mid_count + 1
          PROVE  /\ m_decl'[x] \in Decl \ Broken
                 /\ ~raced' => /\ 0 < m_time'[x] /\ m_time'[x] <= clock'
                               /\ m_time'[x] = disk'[m_path'[x]].time
                                    => m_decl'[x] = disk'[m_path'[x]].decl
      BY <1>2, <3>2, <3>6 DEF TimesInv, ObjectInv
    <3>7. LET x == mid_count + 1 IN
          /\ m_decl'[x] \in Decl \ Broken
          /\ ~raced' => /\ 0 < m_time'[x] /\ m_time'[x] <= clock'
                        /\ m_time'[x] = disk'[m_path'[x]].time
                             => m_decl'[x] = disk'[m_path'[x]].decl
      BY <1>2, <3>3, <3>4, <3>5
    <3>. QED BY <3>1, <3>6, <3>7 DEF ObjectInv
  <2>. QED BY <2>1, <2>2, ObjectsStay
<1>. QED BY <1>1, <1>2, DiskStays DEF Base

\* What is made into a module is what its file says, unless the file has just changed.
LEMMA MakingStep ==
    ASSUME ~SameSecondEdits, Base, TimesInv, [Next]_vars
    PROVE  MakingInv'
<1>. USE DEF diskVars, parserVars, objectVars, serverVars, typerVars
<1>0. phase' # "making" => MakingInv'
  BY DEF MakingInv
<1>1. ASSUME NEW p \in Path, NEW d \in Decl \cup {NoDecl}, Edit(p, d),
             disk' = [disk EXCEPT ![p] = IF d = NoDecl THEN NoFile
                                         ELSE [time |-> clock + 1, decl |-> d]]
      PROVE  MakingInv'
  <2>1. /\ raced' = (raced \/ (phase = "making" /\ target[2] = p))
        /\ UNCHANGED <<phase, parsed, files, target, request>>
    BY <1>1 DEF Edit
  <2>2. \A q \in Path : q # p => disk'[q] = disk[q]
    BY <1>1 DEF Base, TypeOK
  <2>3. target[2] \in Path
    BY DEF Base, TypeOK
  <2>. QED BY <2>1, <2>2, <2>3 DEF TimesInv, MakingInv
<1>2. ParseModule => MakingInv'
  <2>. SUFFICES ASSUME ParseModule PROVE MakingInv'
    OBVIOUS
  <2>. DEFINE p == target[2]
  <2>1. /\ p \in Path /\ disk[p] # NoFile /\ parsed' = Parse(p) /\ files' = FilesAfterParsing(p)
        /\ UNCHANGED <<disk, raced, target, request>>
    BY DEF ParseModule, Base, TypeOK
  <2>2. Parse(p) = disk[p].decl /\ disk[p].decl \in Decl
    BY <2>1, ParseIsDisk DEF TimesInv, DiskInv
  <2>3. request.kind = "full" => files'[p].decl = Parse(p)
    BY <2>1 DEF FilesAfterParsing, IsDisplayFile, Base, TypeOK
  <2>. QED BY <2>1, <2>2, <2>3 DEF MakingInv
<1>3. StartBuild \/ CheckReturn \/ CheckDone \/ ForgetDisplayFile \/ MakeModule => phase' # "making"
  BY DEF StartBuild, CheckReturn, CheckDone, ForgetDisplayFile, MakeModule
<1>4. ASSUME NEW p \in DisplayRequests, StartDisplay(p) \/ Invalidate(p) PROVE phase' # "making"
  BY <1>4 DEF StartDisplay, Invalidate, CanServe
<1>5. ASSUME NEW c \in Obj, NEW p \in Path, LoadKnown(c, p) \/ LookUp(c, p)
      PROVE  phase' # "making"
  BY <1>5 DEF LoadKnown, LookUp
<1>6. ASSUME NEW d \in Id, CheckMarked(d) \/ CheckEnter(d) \/ CheckChanged(d) \/ CheckDirty(d)
      PROVE  phase' # "making"
  BY <1>6 DEF CheckMarked, CheckEnter, CheckChanged, CheckDirty, IsNext, RaiseDirty
<1>7. Finish \/ BuildFails \/ EndDisplay \/ ExploreClassPaths => phase' # "making"
  BY DEF Finish, BuildFails, EndDisplay, ExploreClassPaths, EndRequest
<1>8. UNCHANGED vars => MakingInv'
  BY DEF vars, TimesInv, MakingInv
<1>9. ASSUME NEW p \in Path, NEW d \in Decl \cup {NoDecl}, Edit(p, d) PROVE MakingInv'
  <2>1. disk' = [disk EXCEPT ![p] = IF d = NoDecl THEN NoFile
                                    ELSE [time |-> clock + 1, decl |-> d]]
    BY <1>9 DEF Edit
  <2>. QED BY <1>1, <1>9, <2>1
<1>. QED
  BY <1>0, <1>2, <1>3, <1>4, <1>5, <1>6, <1>7, <1>8, <1>9
     DEF Next, Client, Serve, Load, Check, WaitLoop

-----------------------------------------------------------------------------
(* Imports.                                                                 *)

\* An object depends on modules its file imports.  What is being loaded is asked for.
ImportInv ==
    /\ \A cp \in pending : cp[1] # 0 => cp[2] \in Imported(cp[1])
    /\ \A x \in Id : x \in Made => \A d \in m_deps[x] : m_path[d] \in Imported(x)
    /\ phase \in Loading => target \in pending

\* Between requests there is no compilation context.
IdleInv == phase = "idle" =>
    (\A p \in Path : g_modules[p] = 0) /\ pending = {} /\ target[1] = 0

\* What the compilation knows has its imports, or waits for them.
KnownInv == \A p \in Path : g_modules[p] # 0 =>
    \A q \in Imported(g_modules[p]) : Has(g_modules[p], q) \/ <<g_modules[p], q>> \in pending

\* S is closed and holds the cached objects and no other clean ones; all of its imports
\* have been loaded, and nothing loads more of them.
Whole(S) ==
    /\ S \subseteq Made /\ Closed(S)
    /\ \A p \in Path : modules[p] # 0 => modules[p] \in S
    /\ \A x \in S : ~Dirty(x) => modules[m_path[x]] = x
    /\ \A x \in S : \A q \in Imported(x) : Has(x, q)
    /\ \A cp \in pending : cp[1] \notin S
    /\ target[1] \notin S

CacheInv == \E S \in SUBSET Id : Whole(S)

\* How the work of the typer changes.
LEMMA LoadsChange ==
    ASSUME Base, [Next]_vars
    PROVE  \/ /\ UNCHANGED <<pending, g_modules>> /\ (phase' = "idle" <=> phase = "idle")
              /\ UNCHANGED target \/ (target' \in pending /\ phase # "idle")
              /\ phase' \in Loading =>
                   target' \in pending \/ (UNCHANGED target /\ phase \in Loading)
           \/ \E c \in Obj, p \in Path :
                 /\ LoadKnown(c, p) /\ <<c, p>> \in pending /\ pending' = pending \ {<<c, p>>}
                 /\ g_modules[p] # 0 /\ m_deps' = WithDependency(c, g_modules[p])
                 /\ UNCHANGED <<g_modules, target>> /\ phase' = "typing"
           \/ CheckDone /\ pending' = pending \ {target} /\ UNCHANGED target /\ phase' = "typing"
           \/ /\ MakeModule /\ UNCHANGED target /\ phase' = "typing"
              /\ g_modules' = [g_modules EXCEPT ![target[2]] = mid_count + 1]
              /\ pending' = (pending \ {target}) \cup
                               ({mid_count + 1} \X Imports[target[2]][parsed])
           \/ /\ phase = "idle" /\ phase' = "typing" /\ UNCHANGED <<g_modules, target>>
              /\ \E p \in Path : pending' = {<<0, p>>}
           \/ /\ phase' = "idle" /\ pending' = {} /\ target' = <<0, Main>>
              /\ g_modules' = [p \in Path |-> 0]
<1>. USE DEF diskVars, parserVars, objectVars, serverVars, typerVars, Loading
<1>. DEFINE Same == /\ UNCHANGED <<pending, g_modules>> /\ (phase' = "idle" <=> phase = "idle")
                    /\ UNCHANGED target \/ (target' \in pending /\ phase # "idle")
                    /\ phase' \in Loading =>
                         target' \in pending \/ (UNCHANGED target /\ phase \in Loading)
            Starts == /\ phase = "idle" /\ phase' = "typing" /\ UNCHANGED <<g_modules, target>>
                      /\ \E p \in Path : pending' = {<<0, p>>}
            Ends == /\ phase' = "idle" /\ pending' = {} /\ target' = <<0, Main>>
                    /\ g_modules' = [p \in Path |-> 0]
<1>1. ASSUME NEW p \in Path, NEW d \in Decl \cup {NoDecl}, Edit(p, d) PROVE Same
  BY <1>1 DEF Edit
<1>2. StartBuild => Starts
  BY ConstantsAssumption DEF StartBuild, CanServe
<1>3. ASSUME NEW p \in DisplayRequests, StartDisplay(p) PROVE Starts
  BY <1>3, ConstantsAssumption DEF StartDisplay, CanServe
<1>4. ASSUME NEW p \in DisplayRequests, Invalidate(p) PROVE Same
  BY <1>4 DEF Invalidate, CanServe
<1>5. ASSUME NEW c \in Obj, NEW p \in Path, LoadKnown(c, p)
      PROVE  /\ <<c, p>> \in pending /\ pending' = pending \ {<<c, p>>}
             /\ g_modules[p] # 0 /\ m_deps' = WithDependency(c, g_modules[p])
             /\ UNCHANGED <<g_modules, target>> /\ phase' = "typing"
  BY <1>5 DEF LoadKnown
<1>6. ASSUME NEW c \in Obj, NEW p \in Path, LookUp(c, p) PROVE Same
  <2>1. phase' # "idle" /\ phase = "typing" /\ target' = <<c, p>> /\ <<c, p>> \in pending
        /\ UNCHANGED <<pending, g_modules>>
    BY <1>6 DEF LookUp
  <2>. QED BY <2>1
<1>7. ASSUME NEW d \in Id, CheckMarked(d) \/ CheckEnter(d) \/ CheckChanged(d) \/ CheckDirty(d)
      PROVE  Same
  BY <1>7 DEF CheckMarked, CheckEnter, CheckChanged, CheckDirty, IsNext, RaiseDirty
<1>8. CheckReturn \/ ForgetDisplayFile \/ ParseModule => Same
  BY DEF CheckReturn, ForgetDisplayFile, ParseModule
<1>9. CheckDone => pending' = pending \ {target} /\ UNCHANGED target /\ phase' = "typing"
  BY DEF CheckDone
<1>10. MakeModule => /\ UNCHANGED target /\ phase' = "typing"
                     /\ g_modules' = [g_modules EXCEPT ![target[2]] = mid_count + 1]
                     /\ pending' = (pending \ {target}) \cup
                                      ({mid_count + 1} \X Imports[target[2]][parsed])
  BY DEF MakeModule
<1>11. Finish \/ BuildFails \/ EndDisplay \/ ExploreClassPaths => Ends
  BY DEF Finish, BuildFails, EndDisplay, ExploreClassPaths, EndRequest
<1>12. UNCHANGED vars => Same
  BY DEF vars
<1>. QED
  BY <1>1, <1>2, <1>3, <1>4, <1>5, <1>6, <1>7, <1>8, <1>9, <1>10, <1>11, <1>12
     DEF Next, Client, Serve, Load, Check, WaitLoop

\* A request leaves no compilation context behind.
LEMMA IdleStep ==
    ASSUME Base, IdleInv, [Next]_vars
    PROVE  IdleInv'
<1>1. <<0, Main>>[1] = 0
  OBVIOUS
<1>. QED BY <1>1, LoadsChange DEF IdleInv, CheckDone, MakeModule

\* An object keeps its imports.
LEMMA ImportedStays ==
    ASSUME Base, [Next]_vars, NEW x \in Id, x \in Made
    PROVE  /\ x \in Made' /\ m_path'[x] = m_path[x] /\ m_decl'[x] = m_decl[x]
           /\ Imported(x)' = Imported(x)
<1>1. x \in Obj /\ x \in Nat /\ x <= mid_count
  BY Ids DEF Made
<1>2. ASSUME mid_count \in Nat, m_decl' = [m_decl EXCEPT ![mid_count + 1] = parsed]
      PROVE  m_decl'[x] = m_decl[x]
  BY <1>1, <1>2 DEF Base, TypeOK
<1>3. m_decl'[x] = m_decl[x]
  BY <1>2, ObjectsStay
<1>. QED BY <1>3, MadePaths DEF Imported

\* What an object has, it keeps.
LEMMA HasStays ==
    ASSUME Base, [Next]_vars, NEW x \in Id, x \in Made, NEW q, Has(x, q)
    PROVE  Has(x, q)'
<1>1. PICK d \in m_deps[x] \cup {x} : m_path[d] = q
  BY DEF Has
<1>2. d \in Made
  BY <1>1, Ids DEF Base, RefsMade
<1>3. m_path'[d] = q
  BY <1>1, <1>2, MadePaths
<1>4. d \in m_deps'[x] \cup {x}
  BY <1>1, DepsGrow
<1>. QED BY <1>3, <1>4 DEF Has

\* What loads a module then has it.
LEMMA GetsDependency ==
    ASSUME Base, [Next]_vars, NEW c \in Id, NEW d \in Id, m_deps' = WithDependency(c, d),
           NEW q, m_path'[d] = q
    PROVE  Has(c, q)'
<1>1. d \in m_deps'[c] \cup {c}
  BY Ids DEF WithDependency, Base, TypeOK
<1>. QED BY <1>1 DEF Has

\* Imports of what is being loaded.
LEMMA ImportStep ==
    ASSUME Base, GraphInv, IdleInv, ImportInv, [Next]_vars
    PROVE  ImportInv'
<1>0. /\ target[1] \in Obj /\ target[2] \in Path /\ target = <<target[1], target[2]>>
      /\ 0 \notin Id /\ \A x \in Obj : x # 0 => x \in Id
  BY Ids DEF Base, TypeOK
<1>1. \A x \in Id : x \in Made => x \in Made' /\ Imported(x)' = Imported(x)
  BY ImportedStays
<1>2. \A cp \in pending : cp[1] \in Obj /\ cp[1] \in Made /\ cp[2] \in Path
  BY DEF Base, TypeOK, RefsMade
<1>3. phase' \in Loading => target' \in pending'
  <2>. SUFFICES ASSUME phase' \in Loading PROVE target' \in pending'
    OBVIOUS
  <2>1. phase' # "idle" /\ phase' # "typing"
    BY DEF Loading
  <2>2. /\ UNCHANGED pending
        /\ target' \in pending \/ (UNCHANGED target /\ phase \in Loading)
    BY <2>1, LoadsChange
  <2>. QED BY <2>2 DEF ImportInv
<1>4. \A cp \in pending' : cp[1] # 0 => cp[2] \in Imports[m_path'[cp[1]]][m_decl'[cp[1]]]
  <2>1. ASSUME NEW cp \in pending, cp[1] # 0
        PROVE  cp[2] \in Imports[m_path'[cp[1]]][m_decl'[cp[1]]]
    <3>1. cp[1] \in Id /\ cp[1] \in Made
      BY <1>0, <1>2, <2>1
    <3>. QED BY <1>1, <2>1, <3>1 DEF ImportInv, Imported
  <2>2. ASSUME MakeModule,
               pending' = (pending \ {target}) \cup
                             ({mid_count + 1} \X Imports[target[2]][parsed]),
               NEW cp \in pending', cp \notin pending
        PROVE  cp[2] \in Imports[m_path'[cp[1]]][m_decl'[cp[1]]]
    <3>1. cp \in {mid_count + 1} \X Imports[target[2]][parsed]
      BY <2>2
    <3>2. cp[1] = mid_count + 1 /\ cp[2] \in Imports[target[2]][parsed]
      BY <3>1
    <3>3. mid_count + 1 \in Obj
      BY <2>2, Ids DEF MakeModule
    <3>4. m_path'[mid_count + 1] = target[2] /\ m_decl'[mid_count + 1] = parsed
      BY <2>2, <3>3 DEF MakeModule, Base, TypeOK
    <3>. QED BY <3>2, <3>4
  <2>3. ASSUME NEW cp \in pending', cp \notin pending, NEW p, pending' = {<<0, p>>}
        PROVE  cp[1] = 0
    BY <2>3
  <2>. QED BY <2>1, <2>2, <2>3, LoadsChange
<1>5. \A x \in Id : x \in Made' => \A d \in m_deps'[x] : m_path'[d] \in Imported(x)'
  <2>1. \A x \in Id : \A d \in m_deps[x] : d \in Made /\ d \in Id /\ m_path'[d] = m_path[d]
    BY Ids, MadePaths DEF Base, TypeOK, RefsMade
  <2>2. ASSUME NEW x \in Id, x \in Made, NEW d \in m_deps[x] PROVE m_path'[d] \in Imported(x)'
    BY <1>1, <2>1, <2>2 DEF ImportInv
  <2>3. \A x \in Id : x \in Made' /\ x \notin Made => m_deps[x] = {}
    <3>1. mid_count \in Nat
      BY ConstantsAssumption DEF Base, TypeOK, Obj
    <3>2. ASSUME NEW x \in Id, x \notin Made PROVE m_deps[x] = {}
      <4>1. x > mid_count
        BY <3>1, <3>2, Ids DEF Made, Id
      <4>. QED BY <4>1 DEF GraphInv, Unmade
    <3>. QED BY <3>2
  <2>4. CASE UNCHANGED m_deps
    BY <2>2, <2>3, <2>4
  <2>5. ASSUME NEW c \in Obj, NEW d \in Id, NEW q \in Path, m_deps' = WithDependency(c, d),
               <<c, q>> \in pending, m_path'[d] = q
        PROVE  \A x \in Id : x \in Made' => \A e \in m_deps'[x] : m_path'[e] \in Imported(x)'
    <3>1. ASSUME NEW x \in Id, x \in Made', NEW e \in m_deps'[x], e \notin m_deps[x]
          PROVE  m_path'[e] \in Imported(x)'
      <4>1. x = c /\ e = d
        BY <2>5, <3>1, Ids, OneDependency DEF Base
      <4>2. <<c, q>>[1] = c /\ <<c, q>>[2] = q /\ c # 0
        BY <3>1, <4>1, <1>0
      <4>3. c \in Made
        BY <1>2, <2>5, <4>2
      <4>4. q \in Imported(c)
        BY <2>5, <4>2 DEF ImportInv
      <4>. QED BY <1>1, <2>5, <3>1, <4>1, <4>3, <4>4
    <3>. QED BY <2>2, <2>3, <3>1
  <2>6. ASSUME NEW c \in Obj, NEW p \in Path, LoadKnown(c, p)
        PROVE  /\ g_modules[p] \in Id /\ <<c, p>> \in pending /\ m_path'[g_modules[p]] = p
               /\ m_deps' = WithDependency(c, g_modules[p])
    <3>1. g_modules[p] \in Id /\ m_path[g_modules[p]] = p /\ g_modules[p] \in Made
      BY <2>6, Ids DEF LoadKnown, Base, TypeOK, RefsMade, GraphInv, Named
    <3>. QED BY <2>6, <3>1, MadePaths DEF LoadKnown
  <2>7. CheckDone => /\ modules[target[2]] \in Id /\ target \in pending
                     /\ m_path'[modules[target[2]]] = target[2]
                     /\ m_deps' = WithDependency(target[1], modules[target[2]])
    <3>. SUFFICES ASSUME CheckDone
                  PROVE  /\ modules[target[2]] \in Id /\ target \in pending
                         /\ m_path'[modules[target[2]]] = target[2]
                         /\ m_deps' = WithDependency(target[1], modules[target[2]])
      OBVIOUS
    <3>1. phase = "checking" /\ m_deps' = WithDependency(target[1], modules[target[2]])
      BY DEF CheckDone
    <3>2. modules[target[2]] \in Id /\ modules[target[2]] \in Made
          /\ m_path[modules[target[2]]] = target[2]
      BY <1>0, <3>1 DEF Base, TypeOK, RefsMade, TargetIsCached, GraphInv, Named
    <3>. QED BY <3>1, <3>2, MadePaths DEF ImportInv, Loading
  <2>8. MakeModule => /\ mid_count + 1 \in Id /\ target \in pending
                      /\ m_path'[mid_count + 1] = target[2]
                      /\ m_deps' = WithDependency(target[1], mid_count + 1)
    BY Ids DEF MakeModule, ImportInv, Loading, Base, TypeOK
  <2>9. ASSUME NEW c \in Obj, NEW p \in Path, LoadKnown(c, p)
        PROVE  \A x \in Id : x \in Made' => \A e \in m_deps'[x] : m_path'[e] \in Imported(x)'
    BY <2>5, <2>6, <2>9
  <2>10. CheckDone => \A x \in Id : x \in Made' => \A e \in m_deps'[x] : m_path'[e] \in Imported(x)'
    BY <1>0, <2>5, <2>7
  <2>11. MakeModule => \A x \in Id : x \in Made' =>
            \A e \in m_deps'[x] : m_path'[e] \in Imported(x)'
    BY <1>0, <2>5, <2>8
  <2>. QED BY <2>4, <2>9, <2>10, <2>11, DepsStay
<1>. QED BY <1>3, <1>4, <1>5 DEF ImportInv, Imported

\* The whole part of the cache stays whole, and gets what a compilation has loaded.
LEMMA WholeStep ==
    ASSUME Base, Base', GraphInv, IdleInv, KnownInv, CacheInv, [Next]_vars
    PROVE  CacheInv'
<1>. PICK S \in SUBSET Id : Whole(S)
  BY DEF CacheInv
<1>0. /\ S \subseteq Made /\ Closed(S) /\ S \subseteq Obj
      /\ 0 \notin Id /\ 0 \notin S
      /\ \A p \in Path : modules[p] # 0 => modules[p] \in S
      /\ \A x \in S : ~Dirty(x) => modules[m_path[x]] = x
      /\ \A x \in S : \A q \in Imported(x) : Has(x, q)
      /\ \A cp \in pending : cp[1] \notin S
      /\ target[1] \notin S
  BY Ids DEF Whole
<1>1. \A x \in S : /\ x \in Made' /\ m_path'[x] = m_path[x] /\ Imported(x)' = Imported(x)
                   /\ Dirty(x) => Dirty(x)'
  BY <1>0, ImportedStays, DirtyStays
<1>2. \A x \in S : \A q \in Imported(x)' : Has(x, q)'
  BY <1>0, <1>1, HasStays
<1>3. \A x \in S : m_deps'[x] = m_deps[x]
  <2>1. ASSUME NEW c \in Obj, c \notin S, NEW d \in Id, m_deps' = WithDependency(c, d)
        PROVE  \A x \in S : m_deps'[x] = m_deps[x]
    BY <1>0, <2>1, OneDependency DEF Base
  <2>2. ASSUME NEW c \in Obj, NEW p \in Path, <<c, p>> \in pending PROVE c \notin S
    <3>1. <<c, p>>[1] = c
      OBVIOUS
    <3>. QED BY <1>0, <2>2, <3>1
  <2>3. UNCHANGED m_deps => \A x \in S : m_deps'[x] = m_deps[x]
    OBVIOUS
  <2>. QED BY <1>0, <2>1, <2>2, <2>3, DepsStay
<1>4. target'[1] \notin S /\ \A cp \in pending' : cp[1] \notin S
  <2>1. <<0, Main>>[1] = 0 /\ \A p : <<0, p>>[1] = 0
    OBVIOUS
  <2>2. ASSUME MakeModule, pending' = (pending \ {target}) \cup
                             ({mid_count + 1} \X Imports[target[2]][parsed]),
               NEW cp \in pending'
        PROVE  cp[1] \notin S
    <3>1. cp \in pending \/ cp[1] = mid_count + 1
      BY <2>2
    <3>2. mid_count + 1 \notin Made
      BY ConstantsAssumption DEF Base, TypeOK, Obj, Made
    <3>. QED BY <1>0, <3>1, <3>2
  <2>. QED BY <1>0, <2>1, <2>2, LoadsChange
<1>5. CASE UNCHANGED modules
  <2>1. Closed(S)'
    BY <1>0, <1>3 DEF Closed
  <2>2. \A x \in S : ~Dirty(x)' => modules'[m_path'[x]] = x
    BY <1>0, <1>1, <1>5
  <2>. QED BY <1>0, <1>1, <1>2, <1>4, <1>5, <2>1, <2>2 DEF Whole, CacheInv
<1>6. ASSUME Finish, UNCHANGED <<m_deps, m_dirty>>,
             modules' = [p \in Path |-> IF g_modules[p] # 0 THEN g_modules[p] ELSE modules[p]]
      PROVE  CacheInv'
  <2>. PICK K \in SUBSET Id : K = {x \in Id : \E p \in Path : x = g_modules[p]}
    OBVIOUS
  <2>. DEFINE T == S \cup K
  <2>1. \A x \in K : /\ x \in Id /\ x \in Made /\ x # 0 /\ m_path[x] \in Path
                     /\ g_modules[m_path[x]] = x
    BY <1>0 DEF GraphInv, Named, Base, RefsMade
  <2>2. /\ pending = {} /\ pending' = {} /\ target' = <<0, Main>>
        /\ UNCHANGED <<mid_count, m_path, m_decl>>
    BY <1>6 DEF Finish, EndRequest, objectVars
  <2>3. \A p \in Path : modules'[p] = IF g_modules[p] # 0 THEN g_modules[p] ELSE modules[p]
    BY <1>6
  <2>4. T \in SUBSET Id /\ T \subseteq Made'
    BY <1>1, <2>1, <2>2 DEF Made
  <2>5. Closed(T)'
    <3>1. ASSUME NEW x \in K, NEW d \in m_deps[x] PROVE d \in K
      <4>1. g_modules[m_path[x]] = x /\ m_path[x] \in Path /\ x # 0
        BY <2>1, <3>1
      <4>2. g_modules[m_path[d]] = d
        BY <3>1, <4>1 DEF GraphInv, OneObjectPerPath
      <4>3. d \in Id /\ d \in Made
        BY <2>1, <3>1, Ids DEF Base, TypeOK, RefsMade
      <4>4. m_path[d] \in Path
        BY <4>3, <1>0 DEF Base, RefsMade
      <4>. QED BY <4>2, <4>3, <4>4
    <3>. QED BY <1>0, <1>6, <3>1 DEF Closed
  <2>6. \A p \in Path : modules'[p] # 0 => modules'[p] \in T
    <3>1. \A p \in Path : g_modules[p] # 0 => g_modules[p] \in K
      BY Ids DEF Base, TypeOK
    <3>. QED BY <1>0, <2>3, <3>1
  <2>7. \A x \in T : ~Dirty(x)' => modules'[m_path'[x]] = x
    <3>1. ASSUME NEW x \in K PROVE modules'[m_path'[x]] = x
      BY <2>1, <2>2, <2>3, <3>1
    <3>2. ASSUME NEW x \in S, ~Dirty(x) PROVE modules'[m_path'[x]] = x
      <4>1. modules[m_path[x]] = x /\ m_path[x] \in Path /\ x # 0
        BY <1>0, <3>2 DEF Base, RefsMade
      <4>2. g_modules[m_path[x]] = 0 \/ g_modules[m_path[x]] = x
        BY <3>2, <4>1 DEF GraphInv, Superseded
      <4>. QED BY <2>2, <2>3, <4>1, <4>2
    <3>. QED BY <1>6, <3>1, <3>2 DEF Dirty
  <2>8. \A x \in T : \A q \in Imported(x)' : Has(x, q)'
    <3>1. ASSUME NEW x \in K, NEW q \in Imported(x) PROVE Has(x, q)
      <4>1. g_modules[m_path[x]] = x /\ m_path[x] \in Path /\ x # 0
        BY <2>1, <3>1
      <4>. QED BY <2>2, <3>1, <4>1 DEF KnownInv
    <3>2. \A x \in K : \A q \in Imported(x) : Has(x, q)'
      BY <2>1, <3>1, HasStays
    <3>3. \A x \in K : Imported(x)' = Imported(x)
      BY <2>2 DEF Imported
    <3>. QED BY <1>2, <3>2, <3>3
  <2>9. <<0, Main>>[1] \notin T
    BY <1>0
  <2>10. Whole(T)'
    BY <2>2, <2>4, <2>5, <2>6, <2>7, <2>8, <2>9 DEF Whole
  <2>. QED BY <2>4, <2>10 DEF CacheInv
<1>. QED BY <1>5, <1>6, TablesStay

\* What a compilation takes from the cache is in the whole part of it.
LEMMA NewlyWhole ==
    ASSUME Base, NEW S \in SUBSET Id, Whole(S), phase = "checking"
    PROVE  /\ modules[target[2]] \in Id
           /\ Newly(modules[target[2]]) \subseteq Reach(modules[target[2]])
           /\ Reach(modules[target[2]]) \subseteq S
<1>1. modules[target[2]] \in Id /\ modules[target[2]] \in S
  BY Ids DEF Base, TypeOK, TargetIsCached, Whole
<1>. QED BY <1>1, ReachProperties, VisitedProperties DEF Base, Whole, Newly

\* Known modules have their imports, or wait for them.
LEMMA KnownStep ==
    ASSUME Base, GraphInv, ReusedGraphIsClean, IdleInv, KnownInv, CacheInv, [Next]_vars
    PROVE  KnownInv'
<1>. DEFINE Complete(x) == \A q \in Imported(x) : Has(x, q) \/ <<x, q>> \in pending
<1>0. \A p \in Path : g_modules[p] # 0 =>
         /\ g_modules[p] \in Id /\ g_modules[p] \in Made /\ m_path[g_modules[p]] = p
  BY Ids DEF Base, TypeOK, RefsMade, GraphInv, Named
<1>. DEFINE Kept == \A p \in Path : g_modules[p] # 0 =>
                       \A q \in Path : Has(g_modules[p], q) => Has(g_modules[p], q)'
<1>1. \A x \in Id : x \in Made => \A q \in Path : Has(x, q) => Has(x, q)'
  BY HasStays
<1>2. \A x \in Id : x \in Made => Imported(x)' = Imported(x) /\ Imported(x) \subseteq Path
  <2>1. ASSUME NEW x \in Id, x \in Made PROVE Imported(x) \subseteq Path
    <3>1. m_path[x] \in Path /\ m_decl[x] \in Decl \cup {NoDecl}
      BY <2>1, Ids DEF Base, TypeOK, RefsMade
    <3>2. Imports[m_path[x]] \in [Decl \cup {NoDecl} -> SUBSET Path]
      BY <3>1, ConstantsAssumption
    <3>. QED BY <3>1, <3>2 DEF Imported
  <2>. QED BY <2>1, ImportedStays
\* The general case: what was waited for still is, or has come.
<1>3. ASSUME NEW x \in Id, x \in Made, Complete(x),
             \A q \in Path : <<x, q>> \in pending => <<x, q>> \in pending' \/ Has(x, q)'
      PROVE  \A q \in Imported(x)' : Has(x, q)' \/ <<x, q>> \in pending'
  BY <1>1, <1>2, <1>3
<1>4. CASE UNCHANGED <<pending, g_modules>>
  BY <1>0, <1>3, <1>4 DEF KnownInv
<1>5. ASSUME NEW c \in Obj, NEW p \in Path, LoadKnown(c, p), pending' = pending \ {<<c, p>>},
             g_modules[p] # 0, m_deps' = WithDependency(c, g_modules[p]), UNCHANGED g_modules
      PROVE  KnownInv'
  <2>1. g_modules[p] \in Id /\ m_path'[g_modules[p]] = p
    BY <1>0, <1>5, MadePaths
  <2>2. c \in Id => Has(c, p)'
    BY <1>5, <2>1, GetsDependency
  <2>3. ASSUME NEW x \in Id, NEW q \in Path, <<x, q>> \in pending
        PROVE  <<x, q>> \in pending' \/ Has(x, q)'
    <3>1. <<x, q>> = <<c, p>> => x = c /\ q = p
      OBVIOUS
    <3>. QED BY <1>5, <2>2, <2>3, <3>1
  <2>. QED BY <1>0, <1>3, <1>5, <2>3 DEF KnownInv
\* The dependency of the object that is being loaded for.
<1>6. ASSUME NEW d \in Id, m_path'[d] = target[2], m_deps' = WithDependency(target[1], d),
             \A cp \in pending : cp = target \/ cp \in pending'
      PROVE  \A x \in Id : \A q \in Path :
                <<x, q>> \in pending => <<x, q>> \in pending' \/ Has(x, q)'
  <2>1. ASSUME NEW x \in Id, NEW q \in Path, <<x, q>> = target PROVE Has(x, q)'
    <3>1. x = target[1] /\ q = target[2]
      BY <2>1
    <3>. QED BY <1>6, <3>1, GetsDependency
  <2>. QED BY <1>6, <2>1
<1>7. ASSUME CheckDone, pending' = pending \ {target} PROVE KnownInv'
  <2>. DEFINE m == modules[target[2]]
  <2>. PICK S \in SUBSET Id : Whole(S)
    BY DEF CacheInv
  <2>1. phase = "checking" /\ m_deps' = WithDependency(target[1], m) /\ target[2] \in Path
    BY <1>7 DEF CheckDone, Base, TypeOK
  <2>2. m \in Id /\ m \in Made /\ Newly(m) \subseteq S
    BY <2>1, NewlyWhole DEF Base, RefsMade
  <2>3. m_path'[m] = target[2]
    BY <2>1, <2>2, Ids, MadePaths DEF GraphInv, Named
  <2>4. \A x \in Id : \A q \in Path :
           <<x, q>> \in pending => <<x, q>> \in pending' \/ Has(x, q)'
    BY <1>6, <1>7, <2>1, <2>2, <2>3
  <2>5. ASSUME NEW p \in Path, g_modules'[p] # 0
        PROVE  /\ g_modules'[p] \in Id /\ g_modules'[p] \in Made
               /\ Complete(g_modules'[p])
    <3>1. \/ \E x \in Newly(m) : m_path[x] = p /\ g_modules'[p] = x
          \/ g_modules'[p] = g_modules[p]
      BY <1>7, DoneKnown
    <3>2. CASE g_modules'[p] = g_modules[p]
      BY <1>0, <2>5, <3>2 DEF KnownInv
    <3>3. ASSUME NEW x \in Newly(m), g_modules'[p] = x
          PROVE  x \in Id /\ x \in Made /\ Complete(x)
      BY <2>2, <3>3 DEF Whole
    <3>. QED BY <3>1, <3>2, <3>3
  <2>. QED BY <1>3, <2>4, <2>5 DEF KnownInv
<1>8. ASSUME MakeModule, g_modules' = [g_modules EXCEPT ![target[2]] = mid_count + 1],
             pending' = (pending \ {target}) \cup
                           ({mid_count + 1} \X Imports[target[2]][parsed])
      PROVE  KnownInv'
  <2>. DEFINE m == mid_count + 1
  <2>1. /\ m \in Id /\ m_deps' = WithDependency(target[1], m) /\ target[2] \in Path
        /\ m_path'[m] = target[2] /\ m_decl'[m] = parsed
    BY <1>8, Ids DEF MakeModule, Base, TypeOK
  <2>2. \A x \in Id : \A q \in Path :
           <<x, q>> \in pending => <<x, q>> \in pending' \/ Has(x, q)'
    BY <1>6, <1>8, <2>1
  <2>3. ASSUME NEW p \in Path, p # target[2], g_modules'[p] # 0
        PROVE  /\ g_modules'[p] = g_modules[p] /\ g_modules[p] \in Id
               /\ g_modules[p] \in Made /\ Complete(g_modules[p])
    <3>1. g_modules'[p] = g_modules[p]
      BY <1>8, <2>3 DEF Base, TypeOK
    <3>. QED BY <1>0, <2>3, <3>1 DEF KnownInv
  <2>4. g_modules'[target[2]] = m
    BY <1>8, <2>1 DEF Base, TypeOK
  <2>. DEFINE Fine(p) == \A q \in Imported(g_modules[p]) :
                            Has(g_modules[p], q) \/ <<g_modules[p], q>> \in pending
  <2>5. ASSUME NEW p \in Path, p = target[2] PROVE Fine(p)'
    <3>1. \A q \in Imports[target[2]][parsed] : <<m, q>> \in pending'
      BY <1>8
    <3>2. g_modules'[p] = m /\ Imports[m_path'[m]][m_decl'[m]] = Imports[target[2]][parsed]
      BY <2>1, <2>4, <2>5
    <3>3. Imported(g_modules[p])' = Imports[target[2]][parsed]
      BY <3>2 DEF Imported
    <3>. QED BY <3>1, <3>2, <3>3
  <2>6. ASSUME NEW p \in Path, p # target[2], g_modules'[p] # 0 PROVE Fine(p)'
    <3>. DEFINE x == g_modules[p]
    <3>1. x \in Id /\ x \in Made /\ Complete(x) /\ g_modules'[p] = x
      BY <2>3, <2>6
    <3>. QED BY <1>3, <2>2, <3>1 DEF Imported, Has
  <2>7. \A p \in Path : g_modules'[p] # 0 => Fine(p)'
    BY <2>5, <2>6
  <2>. QED BY <2>7 DEF KnownInv
<1>9. ASSUME phase = "idle", UNCHANGED g_modules PROVE KnownInv'
  BY <1>9 DEF IdleInv, KnownInv
<1>10. ASSUME g_modules' = [p \in Path |-> 0] PROVE KnownInv'
  BY <1>10 DEF KnownInv
<1>. QED BY <1>4, <1>5, <1>7, <1>8, <1>9, <1>10, LoadsChange

-----------------------------------------------------------------------------
(* Marks and contents.                                                      *)

\* A walk has a mark of its own, and a cached object that the compilation knows was
\* marked by one of its walks.
MarkedInv ==
    /\ compilation_mark <= mark_loop
    /\ phase = "checking" => compilation_mark < mark_loop
    /\ phase # "idle" => \A p \in Path :
          g_modules[p] # 0 /\ g_modules[p] = modules[p] => m_mark[modules[p]] > compilation_mark

\* Where contents are compared, the parser cache holds what the objects were typed from:
\* the valid cached ones, and in a compilation those it knows.
ContentInv ==
    ~Explores => \A p \in Path : files[p] # NoFile =>
        /\ modules[p] # 0 /\ ~Dirty(modules[p]) => files[p].decl = m_decl[modules[p]]
        /\ request.kind = "full" /\ g_modules[p] # 0 => files[p].decl = m_decl[g_modules[p]]

\* A valid object that the walk comes to is the cached object of its path.
LEMMA NextIsCached ==
    ASSUME Base, GraphInv, StackInv, CacheInv, NEW d \in Id, IsNext(d), ~Dirty(d)
    PROVE  modules[m_path[d]] = d /\ m_path[d] \in Path /\ d \in Made /\ d # 0
<1>. PICK S \in SUBSET Id : Whole(S)
  BY DEF CacheInv
<1>. DEFINE m == modules[target[2]]
<1>1. phase = "checking" /\ stack # <<>> /\ d \in Top.todo
  BY DEF IsNext
<1>2. m \in Id /\ m \in Reach(m) /\ Reach(m) \subseteq S
  BY <1>1, NewlyWhole, ReachProperties DEF Base
<1>3. d \in S
  <2>1. Len(stack) \in 1 .. Len(stack)
    BY <1>1, TopIsFrame DEF Base
  <2>2. CASE Len(stack) = 1
    BY <1>1, <1>2, <2>2 DEF Top, GraphInv, TargetInv
  <2>3. CASE Len(stack) > 1
    <3>1. 2 \in 2 .. Len(stack) /\ stack[2].mid = m
      BY <1>1, <2>1, <2>3 DEF GraphInv, TargetInv
    <3>. QED BY <1>2, <3>1, NextReached
  <2>. QED BY <2>1, <2>2, <2>3
<1>. QED BY <1>3, Ids DEF Whole, Base, RefsMade

\* Marks only grow, up to the mark of the walk.
LEMMA MarksGrow ==
    ASSUME Base, [Next]_vars
    PROVE  \/ UNCHANGED m_mark
           \/ \E d \in Id : /\ CheckEnter(d) \/ CheckChanged(d)
                            /\ m_mark' = [m_mark EXCEPT ![d] = mark_loop]
                            /\ UNCHANGED <<mark_loop, compilation_mark, modules, g_modules>>
<1>. USE DEF diskVars, parserVars, objectVars, serverVars, typerVars
<1>1. ASSUME NEW p \in Path, NEW d \in Decl \cup {NoDecl}, Edit(p, d) PROVE UNCHANGED m_mark
  BY <1>1 DEF Edit
<1>2. ASSUME NEW p \in DisplayRequests, StartDisplay(p) \/ Invalidate(p) PROVE UNCHANGED m_mark
  BY <1>2 DEF StartDisplay, Invalidate
<1>3. ASSUME NEW c \in Obj, NEW p \in Path, LoadKnown(c, p) \/ LookUp(c, p)
      PROVE  UNCHANGED m_mark
  BY <1>3 DEF LoadKnown, LookUp
<1>4. ASSUME NEW d \in Id, CheckMarked(d) \/ CheckDirty(d) PROVE UNCHANGED m_mark
  BY <1>4 DEF CheckMarked, CheckDirty
<1>5. ASSUME NEW d \in Id, CheckEnter(d) \/ CheckChanged(d)
      PROVE  /\ m_mark' = [m_mark EXCEPT ![d] = mark_loop]
             /\ UNCHANGED <<mark_loop, compilation_mark, modules, g_modules>>
  BY <1>5 DEF CheckEnter, CheckChanged
<1>6. StartBuild \/ CheckReturn \/ CheckDone \/ ForgetDisplayFile \/ ParseModule \/ MakeModule
        => UNCHANGED m_mark
  BY DEF StartBuild, CheckReturn, CheckDone, ForgetDisplayFile, ParseModule, MakeModule
<1>7. Finish \/ BuildFails \/ EndDisplay \/ ExploreClassPaths \/ UNCHANGED vars
        => UNCHANGED m_mark
  BY DEF Finish, BuildFails, EndDisplay, ExploreClassPaths, vars
<1>. QED
  BY <1>1, <1>2, <1>3, <1>4, <1>5, <1>6, <1>7 DEF Next, Client, Serve, Load, Check, WaitLoop

\* The counters the marks are compared with.
LEMMA MarkCounters ==
    ASSUME Base, [Next]_vars
    PROVE  \/ /\ UNCHANGED <<mark_loop, compilation_mark>>
              /\ phase' = "checking" => phase = "checking"
              /\ phase' # "idle" => phase # "idle"
           \/ /\ mark_loop' = mark_loop + 1
              /\ UNCHANGED <<compilation_mark, modules, g_modules, m_mark>> /\ phase = "typing"
           \/ /\ compilation_mark' = mark_loop /\ UNCHANGED <<mark_loop, g_modules>>
              /\ phase = "idle" /\ phase' # "checking"
           \/ compilation_mark' = mark_loop /\ UNCHANGED mark_loop /\ phase' = "idle"
<1>. USE DEF diskVars, parserVars, objectVars, serverVars, typerVars
<1>. DEFINE Same == /\ UNCHANGED <<mark_loop, compilation_mark>>
                    /\ phase' = "checking" => phase = "checking"
                    /\ phase' # "idle" => phase # "idle"
<1>1. ASSUME NEW p \in Path, NEW d \in Decl \cup {NoDecl}, Edit(p, d) PROVE Same
  BY <1>1 DEF Edit
<1>2. ASSUME NEW p \in DisplayRequests, StartBuild \/ StartDisplay(p) \/ Invalidate(p)
      PROVE  /\ compilation_mark' = mark_loop /\ UNCHANGED <<mark_loop, g_modules>>
             /\ phase = "idle" /\ phase' # "checking"
  BY <1>2 DEF StartBuild, StartDisplay, Invalidate, BeginRequest, CanServe
<1>3. StartBuild => /\ compilation_mark' = mark_loop /\ UNCHANGED <<mark_loop, g_modules>>
                    /\ phase = "idle" /\ phase' # "checking"
  BY DEF StartBuild, BeginRequest, CanServe
<1>4. ASSUME NEW c \in Obj, NEW p \in Path, LoadKnown(c, p) PROVE Same
  BY <1>4 DEF LoadKnown
<1>5. ASSUME NEW c \in Obj, NEW p \in Path, LookUp(c, p)
      PROVE  /\ mark_loop' = mark_loop + 1
             /\ UNCHANGED <<compilation_mark, modules, g_modules, m_mark>> /\ phase = "typing"
  BY <1>5 DEF LookUp
<1>6. ASSUME NEW d \in Id, CheckMarked(d) \/ CheckEnter(d) \/ CheckChanged(d) \/ CheckDirty(d)
      PROVE  Same
  BY <1>6 DEF CheckMarked, CheckEnter, CheckChanged, CheckDirty, RaiseDirty, IsNext
<1>7. CheckReturn \/ CheckDone \/ ForgetDisplayFile \/ ParseModule \/ MakeModule => Same
  BY DEF CheckReturn, CheckDone, ForgetDisplayFile, ParseModule, MakeModule
<1>8. Finish \/ BuildFails =>
         compilation_mark' = mark_loop /\ UNCHANGED mark_loop /\ phase' = "idle"
  BY DEF Finish, BuildFails, EndRequest, Flush
<1>9. EndDisplay \/ ExploreClassPaths => Same
  BY DEF EndDisplay, ExploreClassPaths, EndRequest
<1>10. UNCHANGED vars => Same
  BY DEF vars
<1>. QED
  BY <1>1, <1>2, <1>3, <1>4, <1>5, <1>6, <1>7, <1>8, <1>9, <1>10
     DEF Next, Client, Serve, Load, Check, WaitLoop

\* A step keeps MarkedInv.
LEMMA MarkedStep ==
    ASSUME Base, WalkInv, GraphInv, ReusedGraphIsClean, IdleInv, MarkedInv, [Next]_vars
    PROVE  MarkedInv'
<1>0. /\ mark_loop \in Nat /\ compilation_mark \in Nat /\ m_mark \in [Obj -> Nat]
      /\ Id \subseteq Obj /\ \A p \in Path : modules[p] # 0 => modules[p] \in Id
  BY Ids DEF Base, TypeOK
<1>1. /\ compilation_mark' <= mark_loop'
      /\ phase' = "checking" => compilation_mark' < mark_loop'
  BY <1>0, MarkCounters DEF MarkedInv
\* Where the marks and the counters are as they were, or a mark has grown.
<1>2. ASSUME \A p \in Path : g_modules'[p] # 0 /\ g_modules'[p] = modules'[p]
                => /\ g_modules[p] # 0 /\ g_modules[p] = modules[p] /\ UNCHANGED modules
                   /\ phase # "idle" /\ UNCHANGED compilation_mark
      PROVE  \A p \in Path :
                g_modules'[p] # 0 /\ g_modules'[p] = modules'[p]
                  => m_mark'[modules'[p]] > compilation_mark'
  <2>. SUFFICES ASSUME NEW p \in Path, g_modules'[p] # 0, g_modules'[p] = modules'[p]
                PROVE  m_mark'[modules'[p]] > compilation_mark'
    OBVIOUS
  <2>1. /\ g_modules[p] # 0 /\ g_modules[p] = modules[p] /\ UNCHANGED modules
        /\ phase # "idle" /\ UNCHANGED compilation_mark
    BY <1>2
  <2>2. m_mark[modules[p]] > compilation_mark /\ modules[p] \in Obj
    BY <1>0, <2>1 DEF MarkedInv
  <2>3. CASE UNCHANGED m_mark
    BY <2>1, <2>2, <2>3
  <2>4. ASSUME NEW d \in Id, CheckEnter(d) \/ CheckChanged(d),
               m_mark' = [m_mark EXCEPT ![d] = mark_loop]
        PROVE  m_mark'[modules'[p]] > compilation_mark'
    <3>1. phase = "checking"
      BY <2>4 DEF CheckEnter, CheckChanged, IsNext
    <3>2. m_mark'[modules[p]] = mark_loop \/ m_mark'[modules[p]] = m_mark[modules[p]]
      BY <1>0, <2>2, <2>4
    <3>. QED BY <1>0, <2>1, <2>2, <3>1, <3>2 DEF MarkedInv
  <2>. QED BY <2>3, <2>4, MarksGrow
<1>3. CASE /\ phase' # "idle" => phase # "idle"
           /\ UNCHANGED <<modules, g_modules, compilation_mark>>
  BY <1>1, <1>2, <1>3 DEF MarkedInv
<1>4. CASE phase = "idle" /\ UNCHANGED g_modules
  BY <1>1, <1>4 DEF MarkedInv, IdleInv
<1>5. CASE phase' = "idle"
  BY <1>1, <1>5 DEF MarkedInv
<1>6. ASSUME CheckDone, UNCHANGED <<modules, compilation_mark, mark_loop, m_mark>>,
             phase = "checking"
      PROVE  MarkedInv'
  <2>. DEFINE m == modules[target[2]]
  <2>1. ASSUME NEW p \in Path, g_modules'[p] # 0, g_modules'[p] = modules'[p]
        PROVE  m_mark'[modules'[p]] > compilation_mark'
    <3>1. \/ \E x \in Newly(m) : m_path[x] = p /\ g_modules'[p] = x
          \/ g_modules'[p] = g_modules[p]
      BY <1>6, DoneKnown
    <3>2. CASE g_modules'[p] = g_modules[p]
      BY <1>6, <2>1, <3>2 DEF MarkedInv
    <3>3. ASSUME NEW x \in Newly(m), g_modules'[p] = x PROVE m_mark[x] = mark_loop
      <4>1. m \in Id
        BY <1>6, DoneKnown
      <4>2. x \in Reach(m)
        BY <4>1, VisitedProperties DEF Newly, Base
      <4>. QED BY <1>6, <4>2 DEF ReusedGraphIsClean, CheckDone
    <3>. QED BY <1>0, <1>6, <2>1, <3>1, <3>2, <3>3 DEF MarkedInv
  <2>. QED BY <1>1, <2>1 DEF MarkedInv
<1>7. ASSUME MakeModule, UNCHANGED <<modules, compilation_mark>>, phase # "idle",
             g_modules' = [g_modules EXCEPT ![target[2]] = mid_count + 1]
      PROVE  MarkedInv'
  <2>1. mid_count + 1 \notin Made
    BY ConstantsAssumption DEF Base, TypeOK, Obj, Made
  <2>2. \A p \in Path : modules'[p] # mid_count + 1
    BY <1>7, <2>1 DEF Base, RefsMade
  <2>3. \A p \in Path : g_modules'[p] = mid_count + 1 \/ g_modules'[p] = g_modules[p]
    BY <1>7 DEF Base, TypeOK
  <2>. QED BY <1>1, <1>2, <1>7, <2>2, <2>3 DEF MarkedInv
<1>. USE DEF diskVars, parserVars, objectVars, serverVars, typerVars
<1>8. CheckDone => /\ UNCHANGED <<modules, compilation_mark, mark_loop, m_mark>>
                   /\ phase = "checking"
  BY DEF CheckDone
<1>9. MakeModule => UNCHANGED <<modules, compilation_mark>> /\ phase # "idle"
  BY DEF MakeModule
<1>10. Finish => phase' = "idle"
  BY DEF Finish, EndRequest
<1>11. \/ phase' = "idle" \/ CheckDone \/ MakeModule
       \/ UNCHANGED modules /\ phase = "idle" /\ UNCHANGED g_modules
       \/ UNCHANGED <<modules, g_modules, compilation_mark>> /\ phase # "idle"
  BY <1>10, LoadsChange, TablesStay, MarkCounters
<1>. QED BY <1>3, <1>4, <1>5, <1>6, <1>7, <1>8, <1>9, <1>11 DEF MakeModule

\* Why the parser cache has other contents for a file: it was parsed to make a module, or
\* checking a module has found it changed.
LEMMA ContentChanges ==
    ASSUME Base, ~Explores, [Next]_vars, NEW p \in Path, files'[p] # NoFile
    PROVE  \/ files'[p] = files[p]
           \/ files[p] # NoFile /\ files'[p].decl = files[p].decl
           \/ ParseModule /\ target[2] = p
           \/ \E d \in Id : CheckChanged(d) /\ Reparses(d) /\ m_path[d] = p
<1>. USE DEF diskVars, parserVars, objectVars, serverVars, typerVars
<1>1. files \in [Path -> File]
  BY DEF Base, TypeOK
<1>2. ASSUME NEW q \in Path, NEW d \in Decl \cup {NoDecl}, Edit(q, d) PROVE UNCHANGED files
  BY <1>2 DEF Edit
<1>3. ASSUME NEW q \in DisplayRequests, StartDisplay(q) PROVE UNCHANGED files
  BY <1>3 DEF StartDisplay
<1>4. ASSUME NEW q, files' = [files EXCEPT ![q] = NoFile] PROVE files'[p] = files[p]
  BY <1>1, <1>4
<1>5. ASSUME NEW q \in DisplayRequests, Invalidate(q) PROVE files'[p] = files[p]
  BY <1>4, <1>5 DEF Invalidate, RemoveFile
<1>6. ForgetDisplayFile => files'[p] = files[p]
  BY <1>4 DEF ForgetDisplayFile, RemoveFile
<1>7. ASSUME NEW c \in Obj, NEW q \in Path, LoadKnown(c, q) \/ LookUp(c, q)
      PROVE  UNCHANGED files
  BY <1>7 DEF LoadKnown, LookUp
<1>8. ASSUME NEW d \in Id, CheckMarked(d) \/ CheckDirty(d) PROVE UNCHANGED files
  BY <1>8 DEF CheckMarked, CheckDirty
<1>9. ASSUME NEW q, files' = FilesAfterParsing(q), files'[p] # files[p]
      PROVE  q = p /\ files'[p].decl = Parse(p)
  BY <1>1, <1>9 DEF FilesAfterParsing
<1>10. ASSUME NEW d \in Id, CheckEnter(d)
       PROVE  files'[p] = files[p] \/ (files[p] # NoFile /\ files'[p].decl = files[p].decl)
  BY <1>9, <1>10 DEF CheckEnter, FilesAfterCheck, FileIsFine, Reparses
<1>11. ASSUME NEW d \in Id, CheckChanged(d)
       PROVE  files'[p] = files[p] \/ (Reparses(d) /\ m_path[d] = p)
  BY <1>9, <1>11 DEF CheckChanged, FilesAfterCheck
<1>12. ParseModule => files'[p] = files[p] \/ target[2] = p
  BY <1>9 DEF ParseModule
<1>13. StartBuild \/ CheckReturn \/ CheckDone \/ MakeModule => UNCHANGED files
  BY DEF StartBuild, CheckReturn, CheckDone, MakeModule
<1>14. Finish \/ BuildFails \/ EndDisplay \/ UNCHANGED vars => UNCHANGED files
  BY DEF Finish, BuildFails, EndDisplay, vars
<1>15. ~ExploreClassPaths
  BY DEF ExploreClassPaths
<1>. QED
  BY <1>2, <1>3, <1>5, <1>6, <1>7, <1>8, <1>10, <1>11, <1>12, <1>13, <1>14, <1>15
     DEF Next, Client, Serve, Load, Check, WaitLoop

\* A request is what it was when it began.
LEMMA RequestStays ==
    ASSUME Base, [Next]_vars
    PROVE  request'.kind = request.kind \/ (phase = "idle" /\ UNCHANGED g_modules)
<1>. USE DEF diskVars, parserVars, objectVars, serverVars, typerVars
<1>0. request \in Request
  BY DEF Base, TypeOK
<1>1. ASSUME NEW p \in Path, NEW d \in Decl \cup {NoDecl}, Edit(p, d) PROVE UNCHANGED request
  BY <1>1 DEF Edit
<1>2. ASSUME NEW p \in DisplayRequests, StartDisplay(p) \/ Invalidate(p)
      PROVE  phase = "idle" /\ UNCHANGED g_modules
  BY <1>2 DEF StartDisplay, Invalidate, CanServe
<1>3. StartBuild => phase = "idle" /\ UNCHANGED g_modules
  BY DEF StartBuild, CanServe
<1>4. ASSUME NEW c \in Obj, NEW p \in Path, LoadKnown(c, p) \/ LookUp(c, p)
      PROVE  UNCHANGED request
  BY <1>4 DEF LoadKnown, LookUp
<1>5. ASSUME NEW d \in Id, CheckMarked(d) \/ CheckEnter(d) \/ CheckChanged(d) \/ CheckDirty(d)
      PROVE  UNCHANGED request
  BY <1>5 DEF CheckMarked, CheckEnter, CheckChanged, CheckDirty
<1>6. CheckReturn \/ ParseModule \/ MakeModule => UNCHANGED request
  BY DEF CheckReturn, ParseModule, MakeModule
<1>7. CheckDone \/ ForgetDisplayFile => request' = [request EXCEPT !.hook = FALSE]
  BY DEF CheckDone, ForgetDisplayFile
<1>8. request' = [request EXCEPT !.hook = FALSE] => request'.kind = request.kind
  BY <1>0 DEF Request
<1>9. Finish \/ BuildFails \/ EndDisplay \/ ExploreClassPaths \/ UNCHANGED vars
        => UNCHANGED request
  BY DEF Finish, BuildFails, EndDisplay, ExploreClassPaths, vars
<1>. QED
  BY <1>1, <1>2, <1>3, <1>4, <1>5, <1>6, <1>7, <1>8, <1>9
     DEF Next, Client, Serve, Load, Check, WaitLoop

\* A step keeps ContentInv.
LEMMA ContentStep ==
    ASSUME Base, GraphInv, ReusedGraphIsClean, StackInv, TimesInv, IdleInv, CacheInv,
           MarkedInv, ContentInv, [Next]_vars
    PROVE  ContentInv'
<1>. SUFFICES ASSUME ~Explores, NEW p \in Path, files'[p] # NoFile
              PROVE  /\ modules'[p] # 0 /\ ~Dirty(modules[p])'
                          => files'[p].decl = m_decl'[modules'[p]]
                     /\ request'.kind = "full" /\ g_modules'[p] # 0
                          => files'[p].decl = m_decl'[g_modules'[p]]
  BY DEF ContentInv
<1>1. \A q \in Path : /\ modules[q] # 0 => m_decl'[modules[q]] = m_decl[modules[q]]
                      /\ g_modules[q] # 0 => m_decl'[g_modules[q]] = m_decl[g_modules[q]]
  BY Ids, ImportedStays DEF Base, TypeOK, RefsMade
<1>2. files[p] # NoFile =>
        /\ modules[p] # 0 /\ ~Dirty(modules[p]) => files[p].decl = m_decl[modules[p]]
        /\ request.kind = "full" /\ g_modules[p] # 0 => files[p].decl = m_decl[g_modules[p]]
  BY DEF ContentInv
<1>3. \/ files[p] # NoFile /\ files'[p].decl = files[p].decl
      \/ ParseModule /\ target[2] = p
      \/ \E d \in Id : CheckChanged(d) /\ Reparses(d) /\ m_path[d] = p
  BY ContentChanges
\* Contents that are found to have changed are those of a valid object the compilation
\* does not know.
<1>4. ASSUME NEW d \in Id, CheckChanged(d), m_path[d] = p
      PROVE  modules[p] = d /\ Dirty(d)' /\ g_modules[p] = 0
  <2>1. /\ IsNext(d) /\ ~Dirty(d) /\ ~FileIsFine(d) /\ phase = "checking"
    BY <1>4 DEF CheckChanged, Dirty, IsNext
  <2>2. modules[p] = d /\ d # 0
    BY <1>4, <2>1, NextIsCached
  <2>3. g_modules[p] # 0 => g_modules[p] = d
    BY <2>1, <2>2 DEF GraphInv, Superseded
  <2>4. g_modules[p] = d => m_mark[d] > compilation_mark
    BY <2>1, <2>2 DEF MarkedInv
  <2>5. m_mark[d] > compilation_mark => FileIsFine(d)
    <3>1. m_mark[d] \in Nat /\ compilation_mark \in Nat
      BY Ids DEF Base, TypeOK
    <3>. QED BY <3>1 DEF FileIsFine, TimeChanged, ChecksFile
  <2>. QED BY <1>4, <2>1, <2>2, <2>3, <2>4, <2>5, CheckRaises
<1>5. ParseModule /\ target[2] = p => /\ modules[p] # 0 => Dirty(modules[p])
                                      /\ g_modules[p] = 0 /\ UNCHANGED <<modules, g_modules>>
  BY DEF ParseModule, GraphInv, TargetInv, Loading
<1>6. UNCHANGED modules /\ modules'[p] # 0 /\ ~Dirty(modules[p])'
        => files'[p].decl = m_decl'[modules'[p]]
  <2>. SUFFICES ASSUME UNCHANGED modules, modules[p] # 0, m_dirty'[modules[p]] = NoPath
                PROVE  files'[p].decl = m_decl[modules[p]]
    BY <1>1 DEF Dirty
  <2>1. ~Dirty(modules[p])
    BY DirtyStays DEF Base, TypeOK, Dirty
  <2>. QED BY <1>2, <1>3, <1>4, <1>5, <2>1 DEF Dirty
<1>7. g_modules'[p] = g_modules[p] /\ request'.kind = "full" /\ g_modules'[p] # 0
        => files'[p].decl = m_decl'[g_modules'[p]]
  <2>. SUFFICES ASSUME g_modules'[p] = g_modules[p], request'.kind = "full", g_modules[p] # 0
                PROVE  files'[p].decl = m_decl[g_modules[p]]
    BY <1>1
  <2>1. request.kind = "full"
    BY RequestStays DEF IdleInv
  <2>. QED BY <1>2, <1>3, <1>4, <1>5, <2>1
<1>. USE DEF diskVars, parserVars, objectVars, serverVars, typerVars
<1>8. ASSUME CheckDone, request'.kind = "full", g_modules'[p] # 0, g_modules'[p] # g_modules[p]
      PROVE  files'[p].decl = m_decl'[g_modules'[p]]
  <2>. DEFINE m == modules[target[2]]
  <2>1. UNCHANGED <<files, modules, m_decl>>
    BY <1>8 DEF CheckDone
  <2>2. PICK x \in Newly(m) : m_path[x] = p /\ modules[p] = x /\ g_modules'[p] = x /\ m \in Id
    BY <1>8, DoneKnown
  <2>3. x \in Reach(m) /\ x # 0
    BY <2>2, Ids, VisitedProperties DEF Newly, Base, Visited
  <2>4. ~Dirty(x)
    BY <1>8, <2>3 DEF ReusedGraphIsClean, CheckDone, Dirty
  <2>. QED BY <1>2, <2>1, <2>2, <2>3, <2>4
<1>9. ASSUME MakeModule, request'.kind = "full", g_modules'[p] # 0, g_modules'[p] # g_modules[p]
      PROVE  files'[p].decl = m_decl'[g_modules'[p]]
  <2>1. /\ UNCHANGED <<files, request>> /\ phase = "making" /\ mid_count + 1 \in Obj
        /\ m_decl' = [m_decl EXCEPT ![mid_count + 1] = parsed]
        /\ g_modules' = [g_modules EXCEPT ![target[2]] = mid_count + 1]
    BY <1>9, Ids DEF MakeModule
  <2>2. p = target[2] /\ g_modules'[p] = mid_count + 1 /\ m_decl'[mid_count + 1] = parsed
    BY <1>9, <2>1 DEF Base, TypeOK
  <2>. QED BY <1>9, <2>1, <2>2 DEF TimesInv, MakingInv
<1>10. ASSUME Finish, modules'[p] # 0, ~Dirty(modules[p])',
              UNCHANGED <<m_deps, m_dirty>>,
              modules' = [q \in Path |-> IF g_modules[q] # 0 THEN g_modules[q] ELSE modules[q]]
       PROVE  files'[p].decl = m_decl'[modules'[p]]
  <2>1. request.kind = "full" /\ UNCHANGED <<files, m_decl>>
    BY <1>10 DEF Finish
  <2>2. CASE g_modules[p] # 0
    BY <1>2, <1>10, <2>1, <2>2
  <2>3. CASE g_modules[p] = 0
    <3>1. modules'[p] = modules[p] /\ ~Dirty(modules[p])
      BY <1>10, <2>3 DEF Dirty
    <3>. QED BY <1>2, <1>10, <2>1, <3>1
  <2>. QED BY <2>2, <2>3
<1>11. modules'[p] # 0 /\ ~Dirty(modules[p])' => files'[p].decl = m_decl'[modules'[p]]
  BY <1>6, <1>10, TablesStay
<1>12. request'.kind = "full" /\ g_modules'[p] # 0 => files'[p].decl = m_decl'[g_modules'[p]]
  <2>1. g_modules' = [q \in Path |-> 0] => g_modules'[p] = 0
    OBVIOUS
  <2>. QED BY <1>7, <1>8, <1>9, <2>1, TablesStay
<1>. QED BY <1>11, <1>12

-----------------------------------------------------------------------------
(* Compilations of files that do not change.                                *)

\* A full compilation during which no file has changed.
Still == phase # "idle" /\ quiet /\ ~raced /\ request.kind = "full"

\* What it knows is what a fresh one would load, from the same contents.
KnownFresh == \A p \in Path : g_modules[p] # 0 =>
    p \in F!Closure /\ m_decl[g_modules[p]] = disk[p].decl

\* A valid cached object that one of its walks has looked at is as fresh.
MarkedFresh == \A p \in Path :
    modules[p] # 0 /\ ~Dirty(modules[p]) /\ m_mark[modules[p]] > compilation_mark
      => m_decl[modules[p]] = disk[p].decl

\* What it waits for is what a fresh one would load; Main is, or has been, waited for.
PendingFresh == /\ \A cp \in pending : cp[2] \in F!Closure
                /\ <<0, Main>> \in pending \/ g_modules[Main] # 0

StillInv == Still => KnownFresh /\ MarkedFresh /\ PendingFresh

\* The modules of a fresh compilation are the least set with Main and its imports.
LEMMA ClosureProperties ==
    ASSUME TypeOK
    PROVE  /\ Main \in F!Closure /\ F!Closure \subseteq Path
           /\ \A q \in F!Closure : Imports[q][disk[q].decl] \subseteq F!Closure
           /\ \A S \in SUBSET Path :
                 Main \in S /\ (\A q \in S : Imports[q][disk[q].decl] \subseteq S)
                   => F!Closure \subseteq S
<1>. DEFINE D == [p \in Path |-> disk[p].decl]
            Around(S) == Main \in S /\ \A q \in S : Imports[q][D[q]] \subseteq S
<1>1. F!Closure = {p \in Path : \A S \in SUBSET Path : Around(S) => p \in S}
  BY DEF F!Closure
<1>2. \A q \in Path : D[q] = disk[q].decl /\ Imports[q][D[q]] \subseteq Path
  <2>1. ASSUME NEW q \in Path PROVE D[q] = disk[q].decl /\ Imports[q][D[q]] \subseteq Path
    <3>1. D[q] = disk[q].decl /\ D[q] \in Decl \cup {NoDecl}
      BY DEF TypeOK, File
    <3>2. Imports[q] \in [Decl \cup {NoDecl} -> SUBSET Path]
      BY ConstantsAssumption
    <3>. QED BY <3>1, <3>2
  <2>. QED BY <2>1
<1>3. Main \in F!Closure /\ F!Closure \subseteq Path
  BY <1>1, ConstantsAssumption
<1>4. ASSUME NEW q \in F!Closure, NEW r \in Imports[q][D[q]] PROVE r \in F!Closure
  BY <1>1, <1>2, <1>4
<1>5. ASSUME NEW S \in SUBSET Path, Main \in S, \A q \in S : Imports[q][disk[q].decl] \subseteq S
      PROVE  F!Closure \subseteq S
  <2>1. Around(S)
    BY <1>2, <1>5
  <2>. QED BY <1>1, <2>1
<1>. HIDE DEF D
<1>. QED BY <1>2, <1>3, <1>4, <1>5

\* Such a compilation has just begun, or was under way, and its files are as they were.
LEMMA StillFrom ==
    ASSUME Base, [Next]_vars, Still'
    PROVE  /\ UNCHANGED <<disk, raced>>
           /\ StartBuild \/ (Still /\ UNCHANGED <<modules, compilation_mark>>)
<1>. USE DEF diskVars, parserVars, objectVars, serverVars, typerVars
<1>. DEFINE Goes == Still /\ UNCHANGED <<disk, raced, modules, compilation_mark>>
<1>0. request \in Request
  BY DEF Base, TypeOK
<1>10. ASSUME UNCHANGED <<disk, raced, modules, compilation_mark, quiet>>,
              phase # "idle", request'.kind = request.kind
       PROVE  Goes
  <2>1. quiet /\ ~raced
    BY <1>10 DEF Still
  <2>2. request.kind = "full"
    BY <1>10 DEF Still
  <2>. QED BY <1>10, <2>1, <2>2 DEF Still
<1>11. phase' # "idle"
  BY DEF Still
<1>1. ASSUME NEW p \in Path, NEW d \in Decl \cup {NoDecl}, Edit(p, d) PROVE FALSE
  BY <1>1 DEF Edit, Still
<1>2. ASSUME NEW p \in DisplayRequests, StartDisplay(p) \/ Invalidate(p) PROVE FALSE
  <2>1. request' = [kind |-> "display", file |-> p, hook |-> request'.hook]
    BY <1>2 DEF StartDisplay, Invalidate, BeginRequest
  <2>. QED BY <2>1 DEF Still
<1>3. StartBuild => UNCHANGED <<disk, raced>>
  BY DEF StartBuild
<1>4. ASSUME NEW c \in Obj, NEW p \in Path, LoadKnown(c, p) \/ LookUp(c, p) PROVE Goes
  BY <1>4, <1>10 DEF LoadKnown, LookUp
<1>5. ASSUME NEW d \in Id, CheckMarked(d) \/ CheckEnter(d) \/ CheckChanged(d) \/ CheckDirty(d)
      PROVE  Goes
  BY <1>5, <1>10 DEF CheckMarked, CheckEnter, CheckChanged, CheckDirty, IsNext
<1>6. CheckReturn \/ ParseModule \/ MakeModule => Goes
  BY <1>10 DEF CheckReturn, ParseModule, MakeModule
<1>7. CheckDone \/ ForgetDisplayFile => Goes
  <2>1. [request EXCEPT !.hook = FALSE].kind = request.kind
    BY <1>0 DEF Request
  <2>. QED BY <1>10, <2>1 DEF CheckDone, ForgetDisplayFile
<1>8. Finish \/ BuildFails \/ EndDisplay \/ ExploreClassPaths => FALSE
  BY DEF Finish, BuildFails, EndDisplay, ExploreClassPaths, EndRequest, Still
<1>9. UNCHANGED vars => Goes
  BY <1>10, <1>11 DEF vars
<1>. QED
  BY <1>1, <1>2, <1>3, <1>4, <1>5, <1>6, <1>7, <1>8, <1>9
     DEF Next, Client, Serve, Load, Check, WaitLoop

\* A module that the walk enters, and whose file it has to look at, is as the file is.
LEMMA EnteredIsFresh ==
    ASSUME FilesAreChecked, Base, GraphInv, StackInv, TimesInv, CacheInv, ContentInv,
           Still, NEW d \in Id, CheckEnter(d), m_mark[d] <= compilation_mark
    PROVE  m_decl[d] = disk[m_path[d]].decl
<1>. DEFINE p == m_path[d]
<1>1. IsNext(d) /\ ~Dirty(d) /\ FileIsFine(d)
  BY DEF CheckEnter, Dirty
<1>2. p \in Path /\ d \in Made /\ modules[p] = d /\ d # 0
  BY <1>1, NextIsCached
<1>3. ~raced /\ request.kind = "full"
  BY DEF Still
<1>4. ~HasPolicy(d, "NoCheckFileTimeModification")
  BY <1>2, <1>3 DEF HasPolicy, FilesAreChecked
<1>5. CASE disk[p].time = m_time[d]
  BY <1>2, <1>3, <1>5 DEF TimesInv, ObjectInv
<1>6. CASE disk[p].time # m_time[d]
  <2>1. TimeChanged(d)
    BY <1>4, <1>6 DEF TimeChanged, ChecksFile
  <2>2. /\ HasPolicy(d, "CheckFileContentModification")
        /\ files[p] # NoFile /\ Parse(p) = files[p].decl
    BY <1>1, <2>1 DEF FileIsFine, Reparses
  <2>3. ~Explores
    BY <1>2, <2>2 DEF HasPolicy, FilesAreChecked
  <2>4. files[p].decl = m_decl[d]
    BY <1>1, <1>2, <2>2, <2>3 DEF ContentInv
  <2>5. Parse(p) = disk[p].decl
    BY <1>2, ParseIsDisk DEF TimesInv
  <2>. QED BY <2>2, <2>4, <2>5
<1>. QED BY <1>5, <1>6

\* What a compilation takes from the cache is what a fresh one would load.
LEMMA TakenIsFresh ==
    ASSUME Base, GraphInv, ReusedGraphIsClean, ImportInv, CacheInv, MarkedInv, StillInv,
           Still, CheckDone, NEW x \in Reach(modules[target[2]])
    PROVE  m_path[x] \in F!Closure /\ m_decl[x] = disk[m_path[x]].decl
<1>. DEFINE m == modules[target[2]]
<1>. PICK S \in SUBSET Id : Whole(S)
  BY DEF CacheInv
<1>0. phase = "checking" /\ target[2] \in Path
  BY DEF CheckDone, Base, TypeOK
<1>1. /\ m \in Id /\ Reach(m) \subseteq S /\ m \in Reach(m)
      /\ \A y \in Reach(m) : m_deps[y] \subseteq Reach(m)
      /\ \A T \in SUBSET Id : m \in T /\ Closed(T) => Reach(m) \subseteq T
  BY <1>0, NewlyWhole, ReachProperties DEF Base
<1>2. \A y \in Reach(m) : /\ ~Dirty(y) /\ m_mark[y] = mark_loop
                          /\ y \in Id /\ y \in Made /\ y # 0 /\ m_path[y] \in Path
  BY <1>1, Ids DEF ReusedGraphIsClean, CheckDone, Dirty, Whole, Base, RefsMade
<1>3. \A y \in Reach(m) : modules[m_path[y]] = y
  BY <1>1, <1>2 DEF Whole
<1>4. \A y \in Reach(m) : m_decl[y] = disk[m_path[y]].decl
  <2>1. mark_loop > compilation_mark
    BY <1>0 DEF MarkedInv, Base, TypeOK
  <2>. QED BY <1>2, <1>3, <2>1 DEF StillInv, MarkedFresh
<1>. DEFINE T == {y \in Reach(m) : m_path[y] \in F!Closure}
<1>5. m \in T
  <2>1. target[2] \in F!Closure
    BY <1>0 DEF ImportInv, Loading, StillInv, PendingFresh
  <2>2. m_path[m] = target[2]
    BY <1>0, <1>1, Ids DEF GraphInv, Named
  <2>. QED BY <1>1, <2>1, <2>2
<1>6. Closed(T)
  <2>1. ASSUME NEW y \in T, NEW d \in m_deps[y] PROVE d \in T
    <3>1. m_path[d] \in Imports[m_path[y]][m_decl[y]]
      BY <1>2, <2>1 DEF ImportInv, Imported
    <3>2. m_path[y] \in F!Closure /\ m_decl[y] = disk[m_path[y]].decl
      BY <1>4, <2>1
    <3>3. m_path[d] \in F!Closure
      BY <3>1, <3>2, ClosureProperties DEF Base
    <3>. QED BY <1>1, <2>1, <3>3
  <2>. QED BY <2>1 DEF Closed
<1>7. Reach(m) \subseteq T
  <2>1. T \in SUBSET Id
    BY <1>2
  <2>. HIDE DEF T
  <2>. QED BY <1>1, <1>5, <1>6, <2>1
<1>. QED BY <1>4, <1>7

\* What is known and waited for stays what a fresh compilation would load.
LEMMA StillStep ==
    ASSUME FilesAreChecked, Base, WalkInv, GraphInv, ReusedGraphIsClean, StackInv, TimesInv,
           ImportInv, IdleInv, CacheInv, MarkedInv, ContentInv, StillInv, [Next]_vars
    PROVE  StillInv'
<1>. SUFFICES ASSUME Still' PROVE StillInv'
  BY DEF StillInv
<1>0. /\ UNCHANGED <<disk, raced>>
      /\ StartBuild \/ (Still /\ UNCHANGED <<modules, compilation_mark>>)
  BY StillFrom
<1>1. F!Closure' = F!Closure
  BY <1>0 DEF F!Closure
<1>2. /\ Main \in F!Closure
      /\ \A q \in F!Closure : q \in Path /\ Imports[q][disk[q].decl] \subseteq F!Closure
  BY ClosureProperties DEF Base
<1>. USE DEF diskVars, parserVars, objectVars, serverVars, typerVars
<1>3. CASE StartBuild
  <2>1. /\ phase = "idle" /\ UNCHANGED <<m_mark, modules, g_modules>>
        /\ compilation_mark' = mark_loop /\ pending' = {<<0, Main>>}
    BY <1>3 DEF StartBuild, CanServe, BeginRequest
  <2>2. \A p \in Path : g_modules'[p] = 0
    BY <2>1 DEF IdleInv
  <2>3. \A p \in Path : modules'[p] # 0 => ~(m_mark'[modules'[p]] > compilation_mark')
    <3>1. \A p \in Path : modules[p] # 0 => modules[p] \in Id
      BY Ids DEF Base, TypeOK
    <3>2. \A m \in Id : m_mark[m] <= mark_loop /\ m_mark[m] \in Nat
      BY Ids DEF WalkInv, Base, TypeOK
    <3>3. mark_loop \in Nat
      BY DEF Base, TypeOK
    <3>. SUFFICES ASSUME NEW p \in Path, modules'[p] # 0
                  PROVE  ~(m_mark'[modules'[p]] > compilation_mark')
      OBVIOUS
    <3>4. modules'[p] = modules[p] /\ m_mark'[modules[p]] = m_mark[modules[p]]
      BY <2>1
    <3>5. m_mark[modules[p]] <= mark_loop /\ m_mark[modules[p]] \in Nat
      BY <3>1, <3>2, <3>4
    <3>. QED BY <2>1, <3>3, <3>4, <3>5
  <2>4. \A cp \in pending' : cp[2] \in F!Closure
    BY <1>2, <2>1
  <2>5. KnownFresh'
    BY <2>2 DEF KnownFresh
  <2>6. MarkedFresh'
    BY <2>3 DEF MarkedFresh
  <2>7. PendingFresh'
    BY <1>1, <2>1, <2>4 DEF PendingFresh
  <2>. QED BY <2>5, <2>6, <2>7 DEF StillInv
<1>. SUFFICES ASSUME Still, UNCHANGED <<modules, compilation_mark>> PROVE StillInv'
  BY <1>0, <1>3
<1>4. phase # "idle" /\ phase' # "idle" /\ target[2] \in Path /\ Main \in Path
  BY ConstantsAssumption DEF Base, TypeOK, Still
<1>5. KnownFresh /\ MarkedFresh /\ PendingFresh
  BY DEF StillInv
<1>6. \A p \in Path : g_modules[p] # 0 =>
         /\ p \in F!Closure /\ m_decl[g_modules[p]] = disk[p].decl
         /\ m_decl'[g_modules[p]] = m_decl[g_modules[p]]
  <2>1. ASSUME NEW p \in Path, g_modules[p] # 0
        PROVE  m_decl'[g_modules[p]] = m_decl[g_modules[p]]
    <3>1. g_modules[p] \in Id /\ g_modules[p] \in Made
      BY <2>1, Ids DEF Base, TypeOK, RefsMade
    <3>. QED BY <3>1, ImportedStays
  <2>. QED BY <1>5, <2>1 DEF KnownFresh
<1>7. \A p \in Path : modules[p] # 0 /\ ~Dirty(modules[p])
                        /\ m_mark[modules[p]] > compilation_mark
                          => m_decl[modules[p]] = disk[p].decl
  BY <1>5 DEF MarkedFresh
<1>8. \A p \in Path : modules[p] # 0 => m_decl'[modules[p]] = m_decl[modules[p]]
  <2>1. ASSUME NEW p \in Path, modules[p] # 0
        PROVE  m_decl'[modules[p]] = m_decl[modules[p]]
    <3>1. modules[p] \in Id /\ modules[p] \in Made
      BY <2>1, Ids DEF Base, TypeOK, RefsMade
    <3>. QED BY <3>1, ImportedStays
  <2>. QED BY <2>1
<1>9. /\ \A cp \in pending : cp[2] \in F!Closure
      /\ <<0, Main>> \in pending \/ g_modules[Main] # 0
  BY <1>5 DEF PendingFresh
\* What CheckDone adds.
<1>10. ASSUME CheckDone, NEW p \in Path, g_modules'[p] # 0
       PROVE  p \in F!Closure /\ m_decl'[g_modules'[p]] = disk[p].decl
  <2>. DEFINE m == modules[target[2]]
  <2>1. \/ \E x \in Newly(m) : m_path[x] = p /\ g_modules'[p] = x
        \/ g_modules'[p] = g_modules[p]
    BY <1>10, DoneKnown
  <2>2. ASSUME NEW x \in Newly(m), m_path[x] = p, g_modules'[p] = x
        PROVE  p \in F!Closure /\ m_decl'[g_modules'[p]] = disk[p].decl
    <3>1. m \in Id /\ UNCHANGED m_decl
      BY <1>10, DoneKnown DEF CheckDone
    <3>2. x \in Reach(m)
      BY <3>1, VisitedProperties DEF Newly, Base
    <3>. QED BY <1>10, <2>2, <3>1, <3>2, TakenIsFresh
  <2>. QED BY <1>6, <1>10, <2>1, <2>2
\* What MakeModule adds.
<1>11. ASSUME MakeModule, g_modules' = [g_modules EXCEPT ![target[2]] = mid_count + 1],
              NEW p \in Path, g_modules'[p] # 0
       PROVE  p \in F!Closure /\ m_decl'[g_modules'[p]] = disk[p].decl
  <2>1. CASE p = target[2]
    <3>1. /\ phase = "making" /\ mid_count + 1 \in Obj /\ g_modules'[p] = mid_count + 1
          /\ m_decl' = [m_decl EXCEPT ![mid_count + 1] = parsed]
      BY <1>11, <2>1, Ids DEF MakeModule, Base, TypeOK
    <3>2. parsed = disk[p].decl /\ m_decl'[mid_count + 1] = parsed
      BY <2>1, <3>1 DEF TimesInv, MakingInv, Still, Base, TypeOK
    <3>3. p \in F!Closure
      BY <1>9, <2>1, <3>1 DEF ImportInv, Loading
    <3>. QED BY <3>1, <3>2, <3>3
  <2>2. CASE p # target[2]
    <3>1. g_modules'[p] = g_modules[p]
      BY <1>11, <2>2 DEF Base, TypeOK
    <3>. QED BY <1>6, <1>11, <3>1
  <2>. QED BY <2>1, <2>2
<1>12. \A p \in Path : g_modules'[p] # 0 =>
          p \in F!Closure /\ m_decl'[g_modules'[p]] = disk[p].decl
  <2>1. phase' = "idle" \/ UNCHANGED g_modules \/ CheckDone
        \/ (MakeModule /\ g_modules' = [g_modules EXCEPT ![target[2]] = mid_count + 1])
    BY LoadsChange
  <2>2. UNCHANGED g_modules => \A p \in Path : g_modules'[p] # 0 =>
           p \in F!Closure /\ m_decl'[g_modules'[p]] = disk[p].decl
    BY <1>6
  <2>. QED BY <1>4, <1>10, <1>11, <2>1, <2>2
<1>13. ASSUME NEW p \in Path, modules[p] # 0, m_dirty'[modules[p]] = NoPath,
              m_mark'[modules[p]] > compilation_mark
       PROVE  m_decl[modules[p]] = disk[p].decl
  <2>. DEFINE x == modules[p]
  <2>1. x \in Id /\ x \in Obj /\ ~Dirty(x) /\ m_path[x] = p
    BY <1>13, Ids, DirtyStays DEF Base, TypeOK, Dirty, GraphInv, Named
  <2>2. CASE m_mark'[x] = m_mark[x]
    BY <1>7, <1>13, <2>1, <2>2
  <2>3. ASSUME NEW d \in Id, CheckEnter(d) \/ CheckChanged(d),
               m_mark' = [m_mark EXCEPT ![d] = mark_loop]
        PROVE  m_decl[x] = disk[p].decl
    <3>1. CASE x # d
      BY <2>1, <2>2, <2>3, <3>1 DEF Base, TypeOK
    <3>2. CASE x = d
      <4>1. CheckEnter(d)
        BY <1>13, <2>3, <3>2, CheckRaises DEF Dirty
      <4>2. CASE m_mark[d] > compilation_mark
        BY <1>7, <1>13, <2>1, <3>2, <4>2
      <4>3. CASE ~(m_mark[d] > compilation_mark)
        <5>1. m_mark[d] <= compilation_mark
          BY <2>1, <3>2, <4>3 DEF Base, TypeOK
        <5>. QED BY <2>1, <3>2, <4>1, <5>1, EnteredIsFresh
      <4>. QED BY <4>1, <4>2, <4>3
    <3>. QED BY <3>1, <3>2
  <2>. QED BY <2>2, <2>3, MarksGrow
<1>14. \A cp \in pending' : cp[2] \in F!Closure
  <2>1. ASSUME MakeModule,
               pending' = (pending \ {target}) \cup
                             ({mid_count + 1} \X Imports[target[2]][parsed]),
               NEW cp \in pending'
        PROVE  cp[2] \in F!Closure
    <3>1. cp \in pending \/ cp[2] \in Imports[target[2]][parsed]
      BY <2>1
    <3>2. phase = "making"
      BY <2>1 DEF MakeModule
    <3>3. target[2] \in F!Closure /\ parsed = disk[target[2]].decl
      BY <1>4, <1>9, <3>2 DEF ImportInv, Loading, TimesInv, MakingInv, Still
    <3>. QED BY <1>2, <1>9, <3>1, <3>3
  <2>. QED BY <1>4, <1>9, <2>1, LoadsChange
<1>15. <<0, Main>> \in pending' \/ g_modules'[Main] # 0
  <2>1. ASSUME NEW c \in Obj, NEW p \in Path, pending' = pending \ {<<c, p>>}, g_modules[p] # 0,
               UNCHANGED g_modules
        PROVE  <<0, Main>> \in pending' \/ g_modules'[Main] # 0
    <3>1. <<0, Main>> = <<c, p>> => p = Main
      OBVIOUS
    <3>. QED BY <1>9, <2>1, <3>1
  <2>2. ASSUME CheckDone, pending' = pending \ {target}
        PROVE  <<0, Main>> \in pending' \/ g_modules'[Main] # 0
    <3>. DEFINE m == modules[target[2]]
    <3>1. m \in Id /\ g_modules'[m_path[m]] = m /\ phase = "checking"
      BY <2>2, DoneKnown DEF CheckDone
    <3>2. m_path[m] = target[2] /\ m # 0
      BY <1>4, <3>1, Ids DEF GraphInv, Named
    <3>3. target = <<0, Main>> => target[2] = Main
      OBVIOUS
    <3>4. \A q \in Path : g_modules[q] # 0 => g_modules'[q] = g_modules[q]
      BY <2>2, DoneKnown
    <3>. QED BY <1>4, <1>9, <2>2, <3>1, <3>2, <3>3, <3>4
  <2>3. ASSUME MakeModule, g_modules' = [g_modules EXCEPT ![target[2]] = mid_count + 1],
               pending' = (pending \ {target}) \cup
                             ({mid_count + 1} \X Imports[target[2]][parsed])
        PROVE  <<0, Main>> \in pending' \/ g_modules'[Main] # 0
    <3>1. mid_count + 1 # 0
      BY <2>3, Ids DEF MakeModule
    <3>2. target = <<0, Main>> => target[2] = Main
      OBVIOUS
    <3>3. g_modules'[Main] = IF Main = target[2] THEN mid_count + 1 ELSE g_modules[Main]
      BY <1>4, <2>3 DEF Base, TypeOK
    <3>. QED BY <1>9, <2>3, <3>1, <3>2, <3>3
  <2>4. UNCHANGED <<pending, g_modules>> => <<0, Main>> \in pending' \/ g_modules'[Main] # 0
    BY <1>9
  <2>. QED BY <1>4, <1>9, <2>1, <2>2, <2>3, <2>4, LoadsChange
<1>16. KnownFresh'
  BY <1>0, <1>1, <1>12 DEF KnownFresh
<1>17. MarkedFresh'
  <2>. SUFFICES ASSUME NEW p \in Path, modules[p] # 0, m_dirty'[modules[p]] = NoPath,
                       m_mark'[modules[p]] > compilation_mark
                PROVE  m_decl'[modules[p]] = disk[p].decl
    BY <1>0 DEF MarkedFresh, Dirty
  <2>. QED BY <1>8, <1>13
<1>18. PendingFresh'
  BY <1>1, <1>14, <1>15 DEF PendingFresh
<1>. QED BY <1>16, <1>17, <1>18 DEF StillInv

-----------------------------------------------------------------------------
(* The outcome.                                                             *)

\* What a compilation that knows all it needs reports.
Outcome == [p \in {q \in Path : g_modules[q] # 0} |-> m_decl[g_modules[p]]]

\* A compilation with nothing left to load has loaded what a fresh one would.
LEMMA BuildIsFresh ==
    ASSUME Base, GraphInv, TimesInv, KnownInv, StillInv, Still, pending = {}
    PROVE  Outcome = F!Result
<1>. DEFINE K == {q \in Path : g_modules[q] # 0}
<1>1. /\ \A p \in K : p \in F!Closure /\ m_decl[g_modules[p]] = disk[p].decl
      /\ Main \in K
  BY ConstantsAssumption DEF StillInv, KnownFresh, PendingFresh
<1>2. ASSUME NEW p \in K, NEW q \in Imports[p][disk[p].decl]
      PROVE  q \in K
  <2>1. /\ g_modules[p] \in Id /\ m_path[g_modules[p]] = p
        /\ \A d \in m_deps[g_modules[p]] : d \in Id
    BY Ids DEF Base, TypeOK, GraphInv, Named
  <2>2. Imported(g_modules[p]) = Imports[p][disk[p].decl]
    BY <1>1, <2>1 DEF Imported
  <2>3. disk[p].decl \in Decl \cup {NoDecl}
    BY DEF Base, TypeOK, File
  <2>4. q \in Path
    BY <2>3, ConstantsAssumption
  <2>5. PICK d \in m_deps[g_modules[p]] \cup {g_modules[p]} : m_path[d] = q
    BY <1>2, <2>2 DEF KnownInv, Has
  <2>6. CASE d = g_modules[p]
    BY <2>1, <2>5, <2>6
  <2>7. CASE d \in m_deps[g_modules[p]]
    BY <2>1, <2>4, <2>5, <2>7, Ids DEF GraphInv, OneObjectPerPath
  <2>. QED BY <2>5, <2>6, <2>7
<1>3. F!Closure = K
  <2>1. K \in SUBSET Path /\ \A q \in K : Imports[q][disk[q].decl] \subseteq K
    BY <1>2
  <2>2. F!Closure \subseteq K
    <3>. HIDE DEF K
    <3>. QED BY <1>1, <2>1, ClosureProperties DEF Base
  <2>. QED BY <1>1, <2>2
<1>4. F!Compiles
  <2>. SUFFICES ASSUME NEW p \in K PROVE disk[p].decl \in Decl \ Broken
    BY <1>3 DEF F!Compiles
  <2>1. g_modules[p] \in Id /\ g_modules[p] \in Made
    BY Ids DEF Base, TypeOK, RefsMade
  <2>. QED BY <1>1, <2>1 DEF TimesInv, ObjectInv
<1>5. [p \in K |-> m_decl[g_modules[p]]] = [p \in K |-> disk[p].decl]
  BY <1>1
<1>. QED BY <1>3, <1>4, <1>5 DEF F!Result, Outcome

\* A compilation that fails meets a file without which, or with which, a fresh one fails.
LEMMA FailureIsFresh ==
    ASSUME Base, TimesInv, ImportInv, StillInv, Still, BuildFails
    PROVE  F!Result = Failed
<1>1. phase \in Loading /\ target[2] \in Path
  BY DEF BuildFails, Loading, Base, TypeOK
<1>2. target[2] \in F!Closure
  BY <1>1 DEF ImportInv, StillInv, PendingFresh
<1>3. disk[target[2]].decl \notin Decl \ Broken
  <2>1. CASE disk[target[2]] = NoFile
    BY <2>1, ConstantsAssumption DEF NoFile
  <2>2. CASE phase = "making" /\ parsed \in Broken
    BY <2>2 DEF TimesInv, MakingInv, Still
  <2>. QED BY <2>1, <2>2 DEF BuildFails
<1>4. ~F!Compiles
  BY <1>1, <1>2, <1>3 DEF F!Compiles
<1>. QED BY <1>4 DEF F!Result

\* Where compilations end: only Finish and BuildFails end one.
LEMMA WhereBuildsEnd ==
    ASSUME [Next]_vars, phase' = "idle", quiet', ~raced', request'.kind = "full"
    PROVE  /\ UNCHANGED disk
           /\ \/ phase = "idle" /\ UNCHANGED <<built, quiet, raced, request>>
              \/ Still /\ pending = {} /\ built' = Outcome
              \/ Still /\ BuildFails /\ built' = Failed
<1>. USE DEF diskVars, parserVars, objectVars, serverVars, typerVars
<1>1. ASSUME NEW p \in Path, NEW d \in Decl \cup {NoDecl} PROVE ~Edit(p, d)
  BY DEF Edit
<1>2. ~StartBuild
  BY DEF StartBuild
<1>3. ASSUME NEW p \in DisplayRequests PROVE ~(StartDisplay(p) \/ Invalidate(p))
  BY DEF StartDisplay, Invalidate, BeginRequest
<1>4. ASSUME NEW c \in Obj, NEW p \in Path PROVE ~(LoadKnown(c, p) \/ LookUp(c, p))
  BY DEF LoadKnown, LookUp
<1>5. ASSUME NEW d \in Id
      PROVE  ~(CheckMarked(d) \/ CheckEnter(d) \/ CheckChanged(d) \/ CheckDirty(d))
  BY DEF CheckMarked, CheckEnter, CheckChanged, CheckDirty, RaiseDirty, IsNext
<1>6. ~(CheckReturn \/ CheckDone \/ ForgetDisplayFile \/ ParseModule \/ MakeModule)
  BY DEF CheckReturn, CheckDone, ForgetDisplayFile, ParseModule, MakeModule
<1>7. ~(EndDisplay \/ ExploreClassPaths)
  BY DEF EndDisplay, ExploreClassPaths
<1>8. Finish => UNCHANGED disk /\ Still /\ pending = {} /\ built' = Outcome
  BY DEF Finish, Still, Outcome
<1>9. BuildFails => UNCHANGED disk /\ Still /\ built' = Failed
  BY DEF BuildFails, Still
<1>10. UNCHANGED vars => phase = "idle" /\ UNCHANGED <<disk, built, quiet, raced, request>>
  BY DEF vars
<1>. QED
  BY <1>1, <1>2, <1>3, <1>4, <1>5, <1>6, <1>7, <1>8, <1>9, <1>10
     DEF Next, Client, Serve, Load, Check, WaitLoop

\* The outcome of a compilation is that of a fresh one, and stays it while no file changes.
LEMMA QuietStep ==
    ASSUME Base, GraphInv, TimesInv, ImportInv, KnownInv, StillInv, QuietBuildIsFresh,
           [Next]_vars
    PROVE  QuietBuildIsFresh'
<1>. SUFFICES ASSUME phase' = "idle", quiet', ~raced', request'.kind = "full"
              PROVE  built' = F!Result'
  BY DEF QuietBuildIsFresh
<1>1. F!Result' = F!Result
  BY WhereBuildsEnd DEF F!Result, F!Compiles, F!Closure
<1>2. phase = "idle" /\ UNCHANGED <<built, quiet, raced, request>> => built' = F!Result
  BY DEF QuietBuildIsFresh
<1>3. Still /\ pending = {} /\ built' = Outcome => built' = F!Result
  BY BuildIsFresh
<1>4. Still /\ BuildFails /\ built' = Failed => built' = F!Result
  BY FailureIsFresh
<1>. QED BY <1>1, <1>2, <1>3, <1>4, WhereBuildsEnd

-----------------------------------------------------------------------------
(* Theorems.                                                                *)

\* What is true between any two steps of the server.
FreshIInv == /\ GraphIInv /\ StackInv /\ TimesInv /\ ImportInv /\ IdleInv /\ KnownInv
             /\ CacheInv /\ MarkedInv /\ ContentInv /\ StillInv /\ QuietBuildIsFresh

\* A server that has just been started has nothing to be stale.
LEMMA FreshInit == Init => FreshIInv
<1>. SUFFICES ASSUME Init PROVE FreshIInv
  OBVIOUS
<1>1. GraphIInv
  BY GraphInit
<1>2. \A x \in Id : x \notin Made
  BY Ids DEF Init, Made, Id
<1>3. StackInv /\ IdleInv /\ KnownInv /\ ContentInv /\ StillInv /\ QuietBuildIsFresh
  BY DEF Init, StackInv, IdleInv, KnownInv, ContentInv, StillInv, Still, QuietBuildIsFresh
<1>4. TimesInv
  <2>1. DiskInv
    BY DEF Init, DiskInv, Stamped
  <2>2. ParserInv /\ MakingInv
    BY DEF Init, ParserInv, MakingInv
  <2>. QED BY <1>2, <2>1, <2>2 DEF TimesInv, ObjectInv
<1>5. ImportInv
  BY <1>2 DEF Init, ImportInv, Loading
<1>6. CacheInv
  <2>1. Whole({})
    BY DEF Init, Whole, Closed
  <2>. QED BY <2>1 DEF CacheInv
<1>7. MarkedInv
  BY DEF Init, MarkedInv
<1>. QED BY <1>1, <1>3, <1>4, <1>5, <1>6, <1>7 DEF FreshIInv

\* The inductive step of both theorems.
LEMMA FreshStep ==
    ASSUME FilesAreChecked, FreshIInv, [Next]_vars
    PROVE  FreshIInv'
<1>1. ChecksDependencies /\ ~SameSecondEdits
  BY DEF FilesAreChecked, ChecksDependencies
<1>2. /\ Base /\ WalkInv /\ GraphInv /\ StackInv /\ TimesInv /\ ImportInv /\ IdleInv /\ KnownInv
      /\ CacheInv /\ MarkedInv /\ ContentInv /\ StillInv /\ QuietBuildIsFresh
  BY DEF FreshIInv, GraphIInv
<1>3. ReusedGraphIsClean
  BY <1>2, WalkIsComplete DEF Base
<1>4. GraphIInv'
  BY <1>1, GraphStep DEF FreshIInv
<1>5. Base'
  BY <1>4 DEF GraphIInv
<1>6. StackInv'
  BY <1>2, <1>5, StackStep DEF Base
<1>7. TimesInv'
  BY <1>1, <1>2, FileTimesStep, ObjectTimesStep, MakingStep DEF TimesInv
<1>8. ImportInv' /\ IdleInv' /\ KnownInv' /\ CacheInv'
  BY <1>2, <1>3, <1>5, ImportStep, IdleStep, KnownStep, WholeStep
<1>9. MarkedInv' /\ ContentInv'
  BY <1>2, <1>3, MarkedStep, ContentStep
<1>10. StillInv' /\ QuietBuildIsFresh'
  BY <1>2, <1>3, StillStep, QuietStep
<1>. QED BY <1>4, <1>6, <1>7, <1>8, <1>9, <1>10 DEF FreshIInv

\* Whatever is edited and asked for, also while the server compiles: a compilation during
\* and after which no file has changed has the outcome of one without a cache.
THEOREM QuietBuildsAreFresh ==
    ASSUME FilesAreChecked
    PROVE  Spec => []QuietBuildIsFresh
<1>1. FreshIInv /\ [Next]_vars => FreshIInv'
  BY FreshStep
<1>2. FreshIInv => QuietBuildIsFresh
  BY DEF FreshIInv
<1>. QED BY <1>1, <1>2, FreshInit, PTL DEF Spec

-----------------------------------------------------------------------------
(* Refinement.  Where files change between requests only, every compilation  *)
(* of the server is a step of FreshBuild.                                    *)

OnlyQuiet == ~raced /\ (phase # "idle" => quiet)

\* No file has changed since a request that is being served began.
LEMMA OnlyQuietStep ==
    ASSUME ~EditsDuringBuild, OnlyQuiet, [Next]_vars
    PROVE  OnlyQuiet'
<1>. USE DEF diskVars, parserVars, objectVars, serverVars, typerVars
<1>1. ASSUME NEW p \in Path, NEW d \in Decl \cup {NoDecl}, Edit(p, d) PROVE OnlyQuiet'
  BY <1>1 DEF Edit, OnlyQuiet
<1>2. StartBuild => OnlyQuiet'
  BY DEF StartBuild, BeginRequest, OnlyQuiet
<1>3. ASSUME NEW p \in DisplayRequests, StartDisplay(p) \/ Invalidate(p) PROVE OnlyQuiet'
  BY <1>3 DEF StartDisplay, Invalidate, BeginRequest, OnlyQuiet
<1>4. Serve => UNCHANGED <<quiet, raced>> /\ phase # "idle"
  <2>1. ASSUME NEW c \in Obj, NEW p \in Path, LoadKnown(c, p) \/ LookUp(c, p)
        PROVE  UNCHANGED <<quiet, raced>> /\ phase # "idle"
    BY <2>1 DEF LoadKnown, LookUp
  <2>2. ASSUME NEW d \in Id, CheckMarked(d) \/ CheckEnter(d) \/ CheckChanged(d) \/ CheckDirty(d)
        PROVE  UNCHANGED <<quiet, raced>> /\ phase # "idle"
    BY <2>2 DEF CheckMarked, CheckEnter, CheckChanged, CheckDirty, IsNext
  <2>3. CheckReturn \/ CheckDone \/ ForgetDisplayFile \/ ParseModule \/ MakeModule
          => UNCHANGED <<quiet, raced>> /\ phase # "idle"
    BY DEF CheckReturn, CheckDone, ForgetDisplayFile, ParseModule, MakeModule
  <2>4. Finish \/ BuildFails \/ EndDisplay \/ ExploreClassPaths
          => UNCHANGED <<quiet, raced>> /\ phase # "idle"
    BY DEF Finish, BuildFails, EndDisplay, ExploreClassPaths
  <2>. QED BY <2>1, <2>2, <2>3, <2>4 DEF Serve, Load, Check
<1>5. Serve => OnlyQuiet'
  BY <1>4 DEF OnlyQuiet
<1>6. UNCHANGED vars => OnlyQuiet'
  BY DEF vars, OnlyQuiet
<1>. QED BY <1>1, <1>2, <1>3, <1>5, <1>6 DEF Next, Client, WaitLoop

\* Only the end of a full compilation has an outcome.
LEMMA WhereOutcomesComeFrom ==
    ASSUME [Next]_vars
    PROVE  \/ UNCHANGED built
           \/ /\ phase # "idle" /\ request.kind = "full" /\ UNCHANGED disk
              /\ \/ pending = {} /\ built' = Outcome
                 \/ BuildFails /\ built' = Failed
<1>1. ASSUME NEW p \in Path, NEW d \in Decl \cup {NoDecl}, Edit(p, d) PROVE UNCHANGED built
  BY <1>1 DEF Edit
<1>2. ASSUME NEW p \in DisplayRequests, StartDisplay(p) \/ Invalidate(p)
      PROVE  UNCHANGED built
  BY <1>2 DEF StartDisplay, Invalidate
<1>3. ASSUME NEW c \in Obj, NEW p \in Path, LoadKnown(c, p) \/ LookUp(c, p)
      PROVE  UNCHANGED built
  BY <1>3 DEF LoadKnown, LookUp
<1>4. ASSUME NEW d \in Id, CheckMarked(d) \/ CheckEnter(d) \/ CheckChanged(d) \/ CheckDirty(d)
      PROVE  UNCHANGED built
  BY <1>4 DEF CheckMarked, CheckEnter, CheckChanged, CheckDirty
<1>5. StartBuild \/ CheckReturn \/ CheckDone \/ ForgetDisplayFile \/ ParseModule \/ MakeModule
        => UNCHANGED built
  BY DEF StartBuild, CheckReturn, CheckDone, ForgetDisplayFile, ParseModule, MakeModule
<1>6. EndDisplay \/ ExploreClassPaths \/ UNCHANGED vars => UNCHANGED built
  BY DEF EndDisplay, ExploreClassPaths, vars
<1>7. Finish => /\ phase # "idle" /\ request.kind = "full" /\ UNCHANGED disk
                /\ pending = {} /\ built' = Outcome
  BY DEF Finish, Outcome, diskVars
<1>8. BuildFails => \/ UNCHANGED built
                    \/ /\ phase # "idle" /\ request.kind = "full" /\ UNCHANGED disk
                       /\ built' = Failed
  BY DEF BuildFails, diskVars
<1>. QED
  BY <1>1, <1>2, <1>3, <1>4, <1>5, <1>6, <1>7, <1>8
     DEF Next, Client, Serve, Load, Check, WaitLoop

\* The end of a full compilation is a Build, a change of a file an Edit, and nothing else
\* can be told apart from a compiler without caches.
LEMMA FreshBuildStep ==
    ASSUME ~SameSecondEdits, FreshIInv, OnlyQuiet, [Next]_vars
    PROVE  [F!Next]_(F!vars)
<1>1. /\ Base /\ GraphInv /\ TimesInv /\ ImportInv /\ KnownInv /\ StillInv /\ TypeOK
  BY DEF FreshIInv, GraphIInv, Base
<1>2. CASE UNCHANGED <<disk, built>>
  BY <1>2 DEF F!vars
<1>3. ASSUME NEW p \in Path, NEW d \in Decl \cup {NoDecl}, Edit(p, d),
             disk' = [disk EXCEPT ![p] = IF d = NoDecl THEN NoFile
                                         ELSE [time |-> clock + 1, decl |-> d]]
      PROVE  F!Next
  <2>1. [q \in Path |-> disk[q].decl]' = [[q \in Path |-> disk[q].decl] EXCEPT ![p] = d]
    <3>1. disk'[p].decl = d
      BY <1>1, <1>3 DEF NoFile, TypeOK
    <3>2. \A q \in Path : q # p => disk'[q] = disk[q]
      BY <1>1, <1>3 DEF TypeOK
    <3>. QED BY <3>1, <3>2
  <2>2. UNCHANGED built
    BY <1>3 DEF Edit
  <2>. QED BY <2>1, <2>2 DEF F!Next, F!Edit
<1>4. ASSUME phase # "idle", request.kind = "full", UNCHANGED disk,
             \/ pending = {} /\ built' = Outcome
             \/ BuildFails /\ built' = Failed
      PROVE  F!Next
  <2>1. Still
    BY <1>4 DEF Still, OnlyQuiet
  <2>2. built' = F!Result
    BY <1>1, <1>4, <2>1, BuildIsFresh, FailureIsFresh
  <2>. QED BY <1>4, <2>2 DEF F!Next, F!Build
<1>. QED BY <1>1, <1>2, <1>3, <1>4, DiskStays, WhereOutcomesComeFrom

\* The server behind its caches is a compiler that keeps nothing, when files change only
\* between its requests.
THEOREM FreshBuildIsImplemented ==
    ASSUME FilesAreChecked, ~EditsDuringBuild
    PROVE  Spec => ImplementsFreshBuild
<1>1. Init => FreshIInv /\ OnlyQuiet /\ F!Init
  <2>1. Init => OnlyQuiet
    BY DEF Init, OnlyQuiet
  <2>2. Init => F!Init
    BY DEF Init, F!Init
  <2>. QED BY <2>1, <2>2, FreshInit
<1>2. FreshIInv /\ OnlyQuiet /\ [Next]_vars => (FreshIInv /\ OnlyQuiet)'
  BY FreshStep, OnlyQuietStep
<1>3. FreshIInv /\ OnlyQuiet /\ [Next]_vars => [F!Next]_(F!vars)
  BY FreshBuildStep DEF FilesAreChecked
<1>. QED BY <1>1, <1>2, <1>3, PTL DEF Spec, F!Spec, ImplementsFreshBuild
=============================================================================
