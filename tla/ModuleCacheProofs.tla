------------------------- MODULE ModuleCacheProofs -------------------------
(***************************************************************************)
(* Theorems about ModuleCache, for any set of modules, any import relation  *)
(* and any bounds.                                                          *)
(***************************************************************************)
EXTENDS ModuleCache, SequenceTheorems, TLAPS

\* 0 is no module's object; the others are numbers.
LEMMA Ids ==
    /\ 0 \in Obj /\ 0 \notin Id /\ Id \subseteq Obj /\ Id \subseteq Nat
    /\ \A m \in Obj : m # 0 => m \in Id
BY ConstantsAssumption DEF Id, Obj

-----------------------------------------------------------------------------
(* Types.                                                                   *)

\* The innermost frame of a nonempty stack is a frame.
LEMMA TopIsFrame ==
    ASSUME TypeOK, stack # <<>>
    PROVE  Len(stack) \in 1 .. Len(stack) /\ Top \in Frame
<1>1. stack \in Seq(Frame)
  BY DEF TypeOK
<1>2. Len(stack) \in Nat /\ Len(stack) # 0
  BY <1>1, EmptySeq, LenProperties
<1>3. Len(stack) \in 1 .. Len(stack)
  BY <1>2
<1>. QED BY <1>1, <1>3, ElementOfSeq DEF Top

\* Taking a dependency off the innermost frame leaves a stack.
LEMMA TickType ==
    ASSUME TypeOK, stack # <<>>, NEW d \in Id
    PROVE  /\ Tick(d) \in Seq(Frame)
           /\ Len(Tick(d)) = Len(stack)
           /\ \A i \in 1 .. Len(stack) :
                 Tick(d)[i] = IF i = Len(stack)
                                THEN [mid |-> Top.mid, todo |-> Top.todo \ {d}]
                                ELSE stack[i]
<1>1. Len(stack) \in 1 .. Len(stack) /\ Top \in Frame
  BY TopIsFrame
<1>. DEFINE e == [mid |-> Top.mid, todo |-> Top.todo \ {d}]
<1>2. e \in Frame
  BY <1>1 DEF Frame
<1>3. stack \in Seq(Frame)
  BY DEF TypeOK
<1>. HIDE DEF e
<1>4. /\ [stack EXCEPT ![Len(stack)] = e] \in Seq(Frame)
      /\ Len([stack EXCEPT ![Len(stack)] = e]) = Len(stack)
      /\ \A i \in 1 .. Len(stack) :
            [stack EXCEPT ![Len(stack)] = e][i] = IF i = Len(stack) THEN e ELSE stack[i]
  BY <1>1, <1>2, <1>3, ExceptSeq
<1>. QED
  BY <1>4 DEF Tick, e

\* Entering a dependency leaves a stack, with the new activation innermost.
LEMMA EnterType ==
    ASSUME TypeOK, stack # <<>>, NEW d \in Id, NEW todo \in SUBSET Id
    PROVE  LET s == Append(Tick(d), [mid |-> d, todo |-> todo]) IN
           /\ s \in Seq(Frame)
           /\ Len(s) = Len(stack) + 1
           /\ \A i \in 1 .. Len(stack) : s[i] = Tick(d)[i]
           /\ s[Len(stack) + 1] = [mid |-> d, todo |-> todo]
<1>1. Tick(d) \in Seq(Frame) /\ Len(Tick(d)) = Len(stack)
  BY TickType
<1>. DEFINE e == [mid |-> d, todo |-> todo]
<1>2. e \in Frame
  BY Ids DEF Frame
<1>. HIDE DEF e
<1>3. /\ Append(Tick(d), e) \in Seq(Frame)
      /\ Len(Append(Tick(d), e)) = Len(Tick(d)) + 1
      /\ \A i \in 1 .. Len(Tick(d)) : Append(Tick(d), e)[i] = Tick(d)[i]
      /\ Append(Tick(d), e)[Len(Tick(d)) + 1] = e
  BY <1>1, <1>2, AppendProperties
<1>. QED
  BY <1>1, <1>3 DEF e

\* Returning from an activation leaves a stack, without the innermost frame.
LEMMA ReturnType ==
    ASSUME TypeOK, Len(stack) > 1
    PROVE  LET s == SubSeq(stack, 1, Len(stack) - 1) IN
           /\ s \in Seq(Frame)
           /\ Len(s) = Len(stack) - 1
           /\ \A i \in 1 .. Len(stack) - 1 : s[i] = stack[i]
<1>1. Len(stack) \in Nat /\ \A i \in 1 .. Len(stack) : stack[i] \in Frame
  <2>1. stack \in Seq(Frame)
    BY DEF TypeOK
  <2>. QED BY <2>1, ElementOfSeq, LenProperties
<1>. DEFINE n == Len(stack) - 1
<1>2. n \in Int /\ 1 \in Int /\ 1 <= n /\ \A i \in 1 .. n : stack[i] \in Frame
  BY <1>1
<1>3. /\ SubSeq(stack, 1, n) \in Seq(Frame)
      /\ Len(SubSeq(stack, 1, n)) = (IF 1 <= n THEN n - 1 + 1 ELSE 0)
      /\ \A i \in 1 .. n - 1 + 1 : SubSeq(stack, 1, n)[i] = stack[1 + i - 1]
  <2>. HIDE DEF n
  <2>. QED BY <1>2, SubSeqProperties
<1>. QED
  BY <1>1, <1>2, <1>3

\* add_dependency keeps the table of dependencies well typed.
LEMMA DependencyType ==
    ASSUME TypeOK, NEW m \in Obj, NEW mdep \in Id
    PROVE  WithDependency(m, mdep) \in [Obj -> SUBSET Id]
BY DEF TypeOK, WithDependency

\* A parser cache after a file was parsed is well typed.
LEMMA ParseType ==
    ASSUME TypeOK, NEW p \in Path
    PROVE  /\ Parse(p) \in Decl \cup {NoDecl}
           /\ FilesAfterParsing(p) \in [Path -> File]
BY DEF TypeOK, Parse, FilesAfterParsing, File, NoFile

\* A server that has started is well typed.
LEMMA InitType == Init => TypeOK
<1>. SUFFICES ASSUME Init PROVE TypeOK
  OBVIOUS
<1>1. stack \in Seq(Frame)
  BY EmptySeq DEF Init
<1>2. disk \in [Path -> File] /\ files \in [Path -> File] /\ clock \in Nat
  BY DEF Init, File, NoFile
<1>3. request \in Request /\ phase \in Phase /\ target \in Obj \X Path
  BY Ids, ConstantsAssumption DEF Init, Request, Phase
<1>. QED
  BY <1>1, <1>2, <1>3, ConstantsAssumption DEF Init, TypeOK

\* Raising Dirty leaves a path in m_dirty of everything on the stack.
LEMMA DirtyType ==
    ASSUME TypeOK, NEW ms, NEW path \in Path \cup {NoPath}, RaiseDirty(ms, path)
    PROVE  /\ m_dirty' \in [Obj -> Path \cup {NoPath}]
           /\ stack' \in Seq(Frame) /\ phase' \in Phase
<1>1. m_dirty' \in [Obj -> Path \cup {NoPath}]
  BY DEF RaiseDirty, TypeOK
<1>2. stack' \in Seq(Frame) /\ phase' \in Phase
  BY EmptySeq DEF RaiseDirty, Phase
<1>. QED BY <1>1, <1>2

\* A check of a module may parse a file, which leaves the parser cache well typed.
LEMMA CheckFilesType ==
    ASSUME TypeOK, NEW d \in Id
    PROVE  FilesAfterCheck(d) \in [Path -> File]
<1>1. CASE m_path[d] \in Path
  <2>1. FilesAfterParsing(m_path[d]) \in [Path -> File]
    BY <1>1, ParseType
  <2>. QED BY <2>1 DEF FilesAfterCheck, TypeOK
<1>2. CASE m_path[d] \notin Path
  <2>1. FilesAfterParsing(m_path[d]) \in [Path -> File]
    BY <1>2 DEF FilesAfterParsing, TypeOK
  <2>. QED BY <2>1 DEF FilesAfterCheck, TypeOK
<1>. QED BY <1>1, <1>2

\* A walk is only begun for a path the module cache knows.
TargetIsCached == phase = "checking" => modules[target[2]] # 0

\* The module a walk was begun for becomes a dependency of the one that asked for it.
LEMMA TargetDependencyType ==
    ASSUME TypeOK, TargetIsCached, phase = "checking"
    PROVE  WithDependency(target[1], modules[target[2]]) \in [Obj -> SUBSET Id]
<1>1. target[1] \in Obj /\ target[2] \in Path
  BY DEF TypeOK
<1>2. modules[target[2]] \in Id
  BY <1>1, Ids DEF TypeOK, TargetIsCached
<1>. QED BY <1>1, <1>2, DependencyType

\* TypeOK is inductive: one step per action.
LEMMA NextType == TypeOK /\ TargetIsCached /\ [Next]_vars => TypeOK'
<1>. SUFFICES ASSUME TypeOK, TargetIsCached, [Next]_vars PROVE TypeOK'
  OBVIOUS
<1>. USE DEF diskVars, parserVars, objectVars, serverVars, typerVars
<1>0. /\ \A p \in Path : [kind |-> "display", file |-> p, hook |-> FALSE] \in Request
      /\ \A p \in Path, h \in BOOLEAN : [kind |-> "display", file |-> p, hook |-> h] \in Request
      /\ [kind |-> "full", file |-> Main, hook |-> FALSE] \in Request
      /\ [request EXCEPT !.hook = FALSE] \in Request
      /\ DisplayRequests \subseteq Path
  BY ConstantsAssumption DEF Request, TypeOK
<1>1. ASSUME NEW p \in Path, NEW d \in Decl \cup {NoDecl}, Edit(p, d) PROVE TypeOK'
  <2>1. PICK t \in {clock, clock + 1} :
           /\ clock' = t
           /\ disk' = [disk EXCEPT ![p] = IF d = NoDecl THEN NoFile
                                          ELSE [time |-> t, decl |-> d]]
    BY <1>1 DEF Edit
  <2>2. clock' \in Nat
    BY <2>1 DEF TypeOK
  <2>3. (IF d = NoDecl THEN NoFile ELSE [time |-> t, decl |-> d]) \in File
    BY <2>1, <2>2 DEF File, NoFile
  <2>4. disk' \in [Path -> File]
    BY <2>1, <2>3 DEF TypeOK
  <2>5. quiet' \in BOOLEAN
    BY <1>1 DEF Edit
  <2>. QED BY <1>1, <2>2, <2>4, <2>5 DEF Edit, TypeOK
<1>2. CASE StartBuild
  <2>1. phase' \in Phase /\ pending' \subseteq Obj \X Path
    BY <1>2, Ids, ConstantsAssumption DEF StartBuild, Phase
  <2>2. compilation_step' \in Nat /\ compilation_mark' \in Nat /\ quiet' \in BOOLEAN
    BY <1>2 DEF StartBuild, BeginRequest, TypeOK
  <2>3. request' \in Request
    BY <1>2, <1>0 DEF StartBuild, BeginRequest
  <2>. QED BY <1>2, <2>1, <2>2, <2>3 DEF StartBuild, TypeOK
<1>3. ASSUME NEW p \in DisplayRequests, StartDisplay(p) PROVE TypeOK'
  <2>1. phase' \in Phase /\ pending' \subseteq Obj \X Path
    BY <1>3, <1>0, Ids DEF StartDisplay, Phase
  <2>2. compilation_step' \in Nat /\ compilation_mark' \in Nat /\ quiet' \in BOOLEAN
    BY <1>3 DEF StartDisplay, BeginRequest, TypeOK
  <2>3. request' \in Request
    BY <1>3, <1>0 DEF StartDisplay, BeginRequest
  <2>4. m_dirty' \in [Obj -> Path \cup {NoPath}]
    BY <1>3, <1>0 DEF StartDisplay, Tainted, TypeOK
  <2>. QED BY <1>3, <2>1, <2>2, <2>3, <2>4 DEF StartDisplay, TypeOK
<1>4. ASSUME NEW p \in DisplayRequests, Invalidate(p) PROVE TypeOK'
  <2>1. compilation_step' \in Nat /\ compilation_mark' \in Nat /\ quiet' \in BOOLEAN
    BY <1>4 DEF Invalidate, BeginRequest, TypeOK
  <2>2. request' \in Request
    BY <1>4, <1>0 DEF Invalidate, BeginRequest
  <2>3. m_dirty' \in [Obj -> Path \cup {NoPath}]
    BY <1>4, <1>0 DEF Invalidate, Tainted, TypeOK
  <2>4. files' \in [Path -> File] /\ removed_files' \subseteq Path
    BY <1>4, <1>0 DEF Invalidate, RemoveFile, TypeOK, File, NoFile
  <2>. QED BY <1>4, <2>1, <2>2, <2>3, <2>4 DEF Invalidate, TypeOK
<1>5. ASSUME NEW c \in Obj, NEW p \in Path, LoadKnown(c, p) PROVE TypeOK'
  <2>1. g_modules[p] \in Id
    BY <1>5, Ids DEF LoadKnown, TypeOK
  <2>2. m_deps' \in [Obj -> SUBSET Id]
    BY <1>5, <2>1, DependencyType DEF LoadKnown
  <2>3. pending' \subseteq Obj \X Path
    BY <1>5 DEF LoadKnown, TypeOK
  <2>. QED BY <1>5, <2>2, <2>3 DEF LoadKnown, TypeOK
<1>6. ASSUME NEW c \in Obj, NEW p \in Path, LookUp(c, p) PROVE TypeOK'
  <2>1. stack' \in Seq(Frame)
    <3>1. CASE modules[p] = 0
      BY <1>6, <3>1 DEF LookUp, TypeOK
    <3>2. CASE modules[p] # 0
      <4>1. modules[p] \in Id
        BY <3>2, Ids DEF TypeOK
      <4>2. [mid |-> 0, todo |-> {modules[p]}] \in Frame
        BY <4>1, Ids DEF Frame
      <4>3. stack' = <<[mid |-> 0, todo |-> {modules[p]}]>>
        BY <1>6, <3>2 DEF LookUp
      <4>. QED BY <4>2, <4>3
    <3>. QED BY <3>1, <3>2
  <2>2. phase' \in Phase /\ target' \in Obj \X Path
    BY <1>6 DEF LookUp, Phase
  <2>3. mark_loop' \in Nat
    BY <1>6 DEF LookUp, TypeOK
  <2>. QED BY <1>6, <2>1, <2>2, <2>3 DEF LookUp, TypeOK
<1>7. ASSUME NEW d \in Id, CheckMarked(d) PROVE TypeOK'
  <2>1. stack' \in Seq(Frame)
    BY <1>7, TickType DEF CheckMarked, IsNext
  <2>. QED BY <1>7, <2>1 DEF CheckMarked, TypeOK
<1>8. ASSUME NEW d \in Id, CheckEnter(d) PROVE TypeOK'
  <2>1. DepsToCheck(d) \in SUBSET Id
    BY Ids DEF DepsToCheck, TypeOK
  <2>2. stack' \in Seq(Frame)
    BY <1>8, <2>1, EnterType DEF CheckEnter, IsNext
  <2>3. files' \in [Path -> File]
    BY <1>8, CheckFilesType DEF CheckEnter
  <2>4. m_mark' \in [Obj -> Nat]
    BY <1>8 DEF CheckEnter, TypeOK
  <2>. QED BY <1>8, <2>2, <2>3, <2>4 DEF CheckEnter, TypeOK
<1>9. ASSUME NEW d \in Id, CheckChanged(d) PROVE TypeOK'
  <2>1. files' \in [Path -> File]
    BY <1>9, CheckFilesType DEF CheckChanged
  <2>2. m_mark' \in [Obj -> Nat]
    BY <1>9 DEF CheckChanged, TypeOK
  <2>3. m_path[d] \in Path \cup {NoPath}
    BY Ids DEF TypeOK
  <2>4. /\ m_dirty' \in [Obj -> Path \cup {NoPath}]
        /\ stack' \in Seq(Frame) /\ phase' \in Phase
    BY <1>9, <2>3, DirtyType DEF CheckChanged
  <2>. QED BY <1>9, <2>1, <2>2, <2>4 DEF CheckChanged, TypeOK
<1>10. ASSUME NEW d \in Id, CheckDirty(d) PROVE TypeOK'
  <2>1. m_dirty[d] \in Path \cup {NoPath}
    BY Ids DEF TypeOK
  <2>2. /\ m_dirty' \in [Obj -> Path \cup {NoPath}]
        /\ stack' \in Seq(Frame) /\ phase' \in Phase
    BY <1>10, <2>1, DirtyType DEF CheckDirty
  <2>. QED BY <1>10, <2>2 DEF CheckDirty, TypeOK
<1>11. CASE CheckReturn
  <2>1. stack' \in Seq(Frame)
    BY <1>11, ReturnType DEF CheckReturn
  <2>. QED BY <1>11, <2>1 DEF CheckReturn, TypeOK
<1>12. CASE CheckDone
  <2>. DEFINE m == modules[target[2]]
  <2>1. m_added' \in [Obj -> Nat]
    BY <1>12 DEF CheckDone, TypeOK
  <2>2. g_modules' \in [Path -> Obj]
    <3>1. Newly(m) \subseteq Obj
      BY Ids DEF Newly, Visited
    <3>2. PICK f \in [{m_path[x] : x \in Newly(m)} -> Newly(m)] :
             g_modules' = [p \in Path |-> IF p \in DOMAIN f THEN f[p] ELSE g_modules[p]]
      BY <1>12 DEF CheckDone
    <3>3. \A p \in Path : (IF p \in DOMAIN f THEN f[p] ELSE g_modules[p]) \in Obj
      BY <3>1 DEF TypeOK
    <3>. QED BY <3>2, <3>3
  <2>3. m_deps' \in [Obj -> SUBSET Id]
    BY <1>12, TargetDependencyType DEF CheckDone
  <2>4. pending' \subseteq Obj \X Path
    BY <1>12 DEF CheckDone, TypeOK
  <2>5. request' \in Request
    BY <1>12, <1>0 DEF CheckDone
  <2>6. phase' \in Phase /\ stack' \in Seq(Frame)
    BY <1>12, EmptySeq DEF CheckDone, Phase
  <2>. QED BY <1>12, <2>1, <2>2, <2>3, <2>4, <2>5, <2>6 DEF CheckDone, TypeOK
<1>13. CASE ForgetDisplayFile
  <2>1. request.file \in Path
    BY DEF TypeOK, Request
  <2>2. files' \in [Path -> File] /\ removed_files' \subseteq Path
    BY <1>13, <2>1 DEF ForgetDisplayFile, RemoveFile, TypeOK, File, NoFile
  <2>3. m_dirty' \in [Obj -> Path \cup {NoPath}]
    BY <1>13, <2>1 DEF ForgetDisplayFile, Tainted, TypeOK
  <2>4. request' \in Request
    BY <1>13, <1>0 DEF ForgetDisplayFile
  <2>5. phase' \in Phase
    BY <1>13 DEF ForgetDisplayFile, Phase
  <2>. QED BY <1>13, <2>2, <2>3, <2>4, <2>5 DEF ForgetDisplayFile, TypeOK
<1>14. CASE ParseModule
  <2>1. target[2] \in Path
    BY DEF TypeOK
  <2>2. parsed' \in Decl \cup {NoDecl} /\ files' \in [Path -> File]
    BY <1>14, <2>1, ParseType DEF ParseModule
  <2>3. phase' \in Phase
    BY <1>14 DEF ParseModule, Phase
  <2>. QED BY <1>14, <2>2, <2>3 DEF ParseModule, TypeOK
<1>15. CASE MakeModule
  <2>. DEFINE m == mid_count + 1
  <2>1. target[1] \in Obj /\ target[2] \in Path
    BY DEF TypeOK
  <2>2. m \in Id /\ m \in Obj
    BY <1>15, Ids DEF MakeModule
  <2>3. m_deps' \in [Obj -> SUBSET Id]
    BY <1>15, <2>1, <2>2, DependencyType DEF MakeModule
  <2>4. m_path' \in [Obj -> Path \cup {NoPath}]
    BY <1>15, <2>1, <2>2 DEF MakeModule, TypeOK
  <2>5. m_time' \in [Obj -> Nat] /\ m_decl' \in [Obj -> Decl \cup {NoDecl}]
    BY <1>15, <2>1, <2>2 DEF MakeModule, TypeOK, File
  <2>6. g_modules' \in [Path -> Obj] /\ mid_count' \in Obj
    BY <1>15, <2>1, <2>2 DEF MakeModule, TypeOK
  <2>7. Imports[target[2]][parsed] \subseteq Path
    <3>1. parsed \in Decl \cup {NoDecl}
      BY DEF TypeOK
    <3>2. Imports \in [Path -> [Decl \cup {NoDecl} -> SUBSET Path]]
      BY ConstantsAssumption
    <3>3. Imports[target[2]] \in [Decl \cup {NoDecl} -> SUBSET Path]
      BY <2>1, <3>2
    <3>. QED BY <3>1, <3>3
  <2>8. pending' \subseteq Obj \X Path
    BY <1>15, <2>2, <2>7 DEF MakeModule, TypeOK
  <2>9. phase' \in Phase
    BY <1>15 DEF MakeModule, Phase
  <2>. QED BY <1>15, <2>3, <2>4, <2>5, <2>6, <2>8, <2>9 DEF MakeModule, TypeOK
<1>16. ASSUME EndRequest
       PROVE  /\ phase' \in Phase /\ g_modules' \in [Path -> Obj]
              /\ pending' \subseteq Obj \X Path /\ target' \in Obj \X Path
              /\ parsed' \in Decl \cup {NoDecl}
  BY <1>16, Ids, ConstantsAssumption DEF EndRequest, Phase
<1>17. CASE Finish
  <2>1. compilation_step' \in Nat /\ compilation_mark' \in Nat
    BY <1>17 DEF Finish, Flush, TypeOK
  <2>2. modules' \in [Path -> Obj]
    BY <1>17 DEF Finish, TypeOK
  <2>3. EndRequest
    BY <1>17 DEF Finish
  <2>. QED BY <1>17, <1>16, <2>1, <2>2, <2>3 DEF Finish, TypeOK
<1>18. CASE BuildFails
  <2>1. compilation_step' \in Nat /\ compilation_mark' \in Nat
    BY <1>18 DEF BuildFails, Flush, TypeOK
  <2>2. EndRequest
    BY <1>18 DEF BuildFails
  <2>. QED BY <1>18, <1>16, <2>1, <2>2 DEF BuildFails, TypeOK
<1>19. CASE EndDisplay
  <2>1. EndRequest
    BY <1>19 DEF EndDisplay
  <2>. QED BY <1>19, <1>16, <2>1 DEF EndDisplay, TypeOK
<1>20. CASE ExploreClassPaths
  <2>1. EndRequest
    BY <1>20 DEF ExploreClassPaths
  <2>2. \A p \in Path : [time |-> disk[p].time, decl |-> Parse(p)] \in File
    BY ParseType DEF TypeOK, File
  <2>3. files' \in [Path -> File]
    BY <1>20, <2>2 DEF ExploreClassPaths, TypeOK
  <2>4. removed_files' \subseteq Path /\ initialized' \in BOOLEAN
    BY <1>20 DEF ExploreClassPaths
  <2>. QED BY <1>20, <1>16, <2>1, <2>3, <2>4 DEF ExploreClassPaths, TypeOK
<1>21. CASE UNCHANGED vars
  BY <1>21 DEF vars, TypeOK
<1>. QED
  BY <1>1, <1>2, <1>3, <1>4, <1>5, <1>6, <1>7, <1>8, <1>9, <1>10, <1>11, <1>12, <1>13,
     <1>14, <1>15, <1>17, <1>18, <1>19, <1>20, <1>21
     DEF Next, Client, Serve, Load, Check, WaitLoop

\* Only a cached module is checked, and it stays in the cache while it is.
LEMMA TargetStep == TypeOK /\ TargetIsCached /\ [Next]_vars => TargetIsCached'
<1>. SUFFICES ASSUME TypeOK, TargetIsCached, [Next]_vars, phase' = "checking"
             PROVE  modules'[target'[2]] # 0
  BY DEF TargetIsCached
<1>. USE DEF typerVars
<1>1. ASSUME NEW c \in Obj, NEW p \in Path, LookUp(c, p) PROVE modules'[target'[2]] # 0
  BY <1>1 DEF LookUp
<1>2. CASE modules' = modules /\ target' = target /\ phase = "checking"
  BY <1>2 DEF TargetIsCached
<1>3. ASSUME NEW p \in Path, NEW d \in Decl \cup {NoDecl}, Edit(p, d)
      PROVE  modules'[target'[2]] # 0
  BY <1>3, <1>2 DEF Edit
<1>4. ASSUME NEW d \in Id,
             CheckMarked(d) \/ CheckEnter(d) \/ CheckChanged(d) \/ CheckDirty(d)
      PROVE  modules'[target'[2]] # 0
  BY <1>4, <1>2 DEF CheckMarked, CheckEnter, CheckChanged, CheckDirty, IsNext
<1>5. CASE CheckReturn
  BY <1>5, <1>2 DEF CheckReturn
<1>6. CASE UNCHANGED vars
  BY <1>6, <1>2 DEF vars
<1>7. ASSUME NEW p \in DisplayRequests, StartDisplay(p) \/ Invalidate(p) PROVE FALSE
  BY <1>7 DEF StartDisplay, Invalidate, CanServe
<1>8. ASSUME NEW c \in Obj, NEW p \in Path, LoadKnown(c, p) PROVE FALSE
  BY <1>8 DEF LoadKnown
<1>9. StartBuild \/ CheckDone \/ ForgetDisplayFile \/ ParseModule \/ MakeModule => FALSE
  BY DEF StartBuild, CheckDone, ForgetDisplayFile, ParseModule, MakeModule
<1>10. Finish \/ BuildFails \/ EndDisplay \/ ExploreClassPaths => FALSE
  BY DEF Finish, BuildFails, EndDisplay, ExploreClassPaths, EndRequest
<1>. QED
  BY <1>1, <1>3, <1>4, <1>5, <1>6, <1>7, <1>8, <1>9, <1>10
     DEF Next, Client, Serve, Load, Check, WaitLoop

\* Type correctness: every variable of the server, the parser cache and the
\* typer keeps its type through every handler.
THEOREM Typing == Spec => [](TypeOK /\ TargetIsCached)
<1>1. Init => TypeOK /\ TargetIsCached
  BY InitType DEF Init, TargetIsCached
<1>2. TypeOK /\ TargetIsCached /\ [Next]_vars => (TypeOK /\ TargetIsCached)'
  BY NextType, TargetStep
<1>. QED
  BY <1>1, <1>2, PTL DEF Spec

-----------------------------------------------------------------------------
(* Every object that is referred to has been made.                          *)

Made == 0 .. mid_count

RefsMade ==
    /\ \A m \in Made : m # 0 => m_path[m] \in Path
    /\ \A p \in Path : modules[p] \in Made /\ g_modules[p] \in Made
    /\ target[1] \in Made /\ \A cp \in pending : cp[1] \in Made
    /\ \A m \in Obj : m_deps[m] \subseteq Made
    /\ \A i \in 1 .. Len(stack) : stack[i].todo \subseteq Made

\* The objects that have been made are 0 and the numbers up to mid_count.
LEMMA MadeIds ==
    ASSUME TypeOK
    PROVE  /\ Made \subseteq Obj /\ 0 \in Made
           /\ \A m \in Obj : m # 0 /\ m \in Made => m \in Id
<1>1. MaxModules \in Nat
  BY ConstantsAssumption
<1>2. mid_count \in 0 .. MaxModules
  BY DEF TypeOK, Obj
<1>. QED
  BY <1>1, <1>2 DEF Made, Id, Obj

\* Taking a dependency off the innermost frame leaves made objects.
LEMMA TickMade ==
    ASSUME TypeOK, stack # <<>>, NEW d \in Id,
           \A i \in 1 .. Len(stack) : stack[i].todo \subseteq Made
    PROVE  /\ Len(Tick(d)) = Len(stack)
           /\ \A i \in 1 .. Len(stack) : Tick(d)[i].todo \subseteq Made
<1>1. Len(stack) \in 1 .. Len(stack)
  BY TopIsFrame
<1>2. Top.todo \subseteq Made
  BY <1>1 DEF Top
<1>3. [mid |-> Top.mid, todo |-> Top.todo \ {d}].todo \subseteq Made
  BY <1>2
<1>. QED
  BY <1>3, TickType

\* A compilation only gets objects from add_modules that have been made.
LEMMA NewlyMade ==
    ASSUME TypeOK, RefsMade, NEW m \in Id, m \in Made
    PROVE  Newly(m) \subseteq Id \cap Made
<1>. DEFINE S == Id \cap Made
<1>1. S \in SUBSET Id /\ m \in S
  OBVIOUS
<1>2. \A y \in S : m_deps[y] \subseteq S
  BY Ids DEF RefsMade, TypeOK
<1>. QED
  BY <1>1, <1>2 DEF Newly, Visited

\* add_dependency adds no other object than the one it is given.
LEMMA DependencyMade ==
    ASSUME TypeOK, NEW M, \A m \in Obj : m_deps[m] \subseteq M,
           NEW c \in Obj, NEW d \in M
    PROVE  \A m \in Obj : WithDependency(c, d)[m] \subseteq M
BY DEF TypeOK, WithDependency

\* A server that has started refers to no object.
LEMMA RefsMadeInit == Init => RefsMade
BY Ids, ConstantsAssumption DEF Init, RefsMade, Made

\* No step refers to an object that has not been made.
LEMMA RefsMadeStep ==
    TypeOK /\ TargetIsCached /\ RefsMade /\ [Next]_vars => RefsMade'
<1>. SUFFICES ASSUME TypeOK, TargetIsCached, RefsMade, [Next]_vars PROVE RefsMade'
  OBVIOUS
<1>. USE DEF diskVars, parserVars, objectVars, serverVars, typerVars
\* Most steps change at most one of the things RefsMade speaks of.
<1>0. ASSUME UNCHANGED <<mid_count, m_path>>,
             \A p \in Path : modules'[p] \in Made /\ g_modules'[p] \in Made,
             target'[1] \in Made, \A cp \in pending' : cp[1] \in Made,
             \A m \in Obj : m_deps'[m] \subseteq Made,
             \A i \in 1 .. Len(stack') : stack'[i].todo \subseteq Made
      PROVE  RefsMade'
  BY <1>0 DEF RefsMade, Made
<1>1. /\ \A p \in Path : modules[p] \in Made /\ g_modules[p] \in Made
      /\ target[1] \in Made /\ \A cp \in pending : cp[1] \in Made
      /\ \A m \in Obj : m_deps[m] \subseteq Made
      /\ \A i \in 1 .. Len(stack) : stack[i].todo \subseteq Made
      /\ 0 \in Made
      /\ Len(<<>>) = 0
  BY MadeIds, EmptySeq DEF RefsMade
<1>2. ASSUME NEW p \in Path, NEW d \in Decl \cup {NoDecl}, Edit(p, d) PROVE RefsMade'
  BY <1>2, <1>1, <1>0 DEF Edit
<1>3. CASE StartBuild
  BY <1>3, <1>1, <1>0 DEF StartBuild
<1>4. ASSUME NEW p \in DisplayRequests, StartDisplay(p) PROVE RefsMade'
  BY <1>4, <1>1, <1>0 DEF StartDisplay
<1>5. ASSUME NEW p \in DisplayRequests, Invalidate(p) PROVE RefsMade'
  BY <1>5, <1>1, <1>0 DEF Invalidate
<1>6. ASSUME NEW c \in Obj, NEW p \in Path, LoadKnown(c, p) PROVE RefsMade'
  <2>1. \A m \in Obj : m_deps'[m] \subseteq Made
    BY <1>6, <1>1, DependencyMade DEF LoadKnown
  <2>. QED BY <1>6, <1>1, <1>0, <2>1 DEF LoadKnown
<1>7. ASSUME NEW c \in Obj, NEW p \in Path, LookUp(c, p) PROVE RefsMade'
  <2>1. \A i \in 1 .. Len(stack') : stack'[i].todo \subseteq Made
    <3>1. CASE stack' = stack
      BY <3>1, <1>1
    <3>2. CASE stack' = <<[mid |-> 0, todo |-> {modules[p]}]>>
      BY <3>2, <1>1
    <3>. QED BY <1>7, <3>1, <3>2 DEF LookUp
  <2>2. target'[1] \in Made
    BY <1>7, <1>1 DEF LookUp
  <2>. QED BY <1>7, <1>1, <1>0, <2>1, <2>2 DEF LookUp
<1>8. ASSUME NEW d \in Id, CheckMarked(d) PROVE RefsMade'
  <2>1. \A i \in 1 .. Len(stack') : stack'[i].todo \subseteq Made
    BY <1>8, <1>1, TickMade DEF CheckMarked, IsNext
  <2>. QED BY <1>8, <1>1, <1>0, <2>1 DEF CheckMarked
<1>9. ASSUME NEW d \in Id, CheckEnter(d) PROVE RefsMade'
  <2>1. DepsToCheck(d) \in SUBSET Id /\ DepsToCheck(d) \subseteq Made
    BY <1>1, Ids DEF DepsToCheck, TypeOK
  <2>2. /\ Len(stack') = Len(stack) + 1
        /\ \A i \in 1 .. Len(stack) : stack'[i] = Tick(d)[i]
        /\ stack'[Len(stack) + 1] = [mid |-> d, todo |-> DepsToCheck(d)]
    BY <1>9, <2>1, EnterType DEF CheckEnter, IsNext
  <2>3. \A i \in 1 .. Len(stack) : Tick(d)[i].todo \subseteq Made
    BY <1>9, <1>1, TickMade DEF CheckEnter, IsNext
  <2>4. Len(stack) \in Nat
    BY LenProperties DEF TypeOK
  <2>5. \A i \in 1 .. Len(stack') : stack'[i].todo \subseteq Made
    BY <2>1, <2>2, <2>3, <2>4
  <2>. QED BY <1>9, <1>1, <1>0, <2>5 DEF CheckEnter
<1>10. ASSUME NEW d \in Id, CheckChanged(d) \/ CheckDirty(d) PROVE RefsMade'
  <2>1. \A i \in 1 .. Len(stack') : stack'[i].todo \subseteq Made
    BY <1>10, <1>1 DEF CheckChanged, CheckDirty, RaiseDirty
  <2>. QED BY <1>10, <1>1, <1>0, <2>1 DEF CheckChanged, CheckDirty
<1>11. CASE CheckReturn
  <2>1. \A i \in 1 .. Len(stack') : stack'[i].todo \subseteq Made
    <3>1. Len(stack) \in Nat
      BY LenProperties DEF TypeOK
    <3>2. /\ Len(stack') = Len(stack) - 1
          /\ \A i \in 1 .. Len(stack) - 1 : stack'[i] = stack[i]
      BY <1>11, ReturnType DEF CheckReturn
    <3>. QED BY <3>1, <3>2, <1>1
  <2>. QED BY <1>11, <1>1, <1>0, <2>1 DEF CheckReturn
<1>12. CASE CheckDone
  <2>. DEFINE m == modules[target[2]]
  <2>1. target[1] \in Obj /\ m \in Id /\ m \in Made
    BY <1>12, <1>1, Ids DEF CheckDone, TargetIsCached, TypeOK
  <2>2. \A x \in Obj : m_deps'[x] \subseteq Made
    <3>0. \A c \in Obj, d \in Made : \A x \in Obj : WithDependency(c, d)[x] \subseteq Made
      BY <1>1, DependencyMade
    <3>1. \A x \in Obj : WithDependency(target[1], m)[x] \subseteq Made
      BY <2>1, <3>0
    <3>2. m_deps' = WithDependency(target[1], m)
      BY <1>12 DEF CheckDone
    <3>. QED BY <3>1, <3>2
  <2>3. Newly(m) \subseteq Made
    BY <2>1, NewlyMade
  <2>4. PICK f \in [{m_path[x] : x \in Newly(m)} -> Newly(m)] :
           g_modules' = [p \in Path |-> IF p \in DOMAIN f THEN f[p] ELSE g_modules[p]]
    BY <1>12 DEF CheckDone
  <2>5. \A p \in Path : g_modules'[p] \in Made
    BY <2>3, <2>4, <1>1
  <2>. QED BY <1>12, <1>1, <1>0, <2>2, <2>5 DEF CheckDone
<1>13. CASE ForgetDisplayFile
  BY <1>13, <1>1, <1>0 DEF ForgetDisplayFile
<1>14. CASE ParseModule
  BY <1>14, <1>1, <1>0 DEF ParseModule
<1>15. CASE MakeModule
  <2>. DEFINE m == mid_count + 1
  <2>1. m \in Id /\ target[1] \in Obj /\ target[2] \in Path /\ mid_count \in Nat
    <3>1. mid_count \in Nat
      BY MadeIds DEF TypeOK, Obj
    <3>. QED BY <1>15, <3>1 DEF MakeModule, TypeOK
  <2>2. Made' = Made \cup {m}
    BY <1>15, <2>1 DEF MakeModule, Made
  <2>3. \A x \in Made' : x # 0 => m_path'[x] \in Path
    <3>1. m_path' = [m_path EXCEPT ![m] = target[2]]
      BY <1>15 DEF MakeModule
    <3>2. \A x \in Made : x \in Obj /\ (x # 0 => m_path[x] \in Path)
      BY MadeIds DEF RefsMade
    <3>3. m_path \in [Obj -> Path \cup {NoPath}] /\ m \in Obj
      BY <2>1, Ids DEF TypeOK
    <3>4. \A x \in Obj : m_path'[x] = IF x = m THEN target[2] ELSE m_path[x]
      BY <3>1, <3>3
    <3>5. target[2] \in Path
      BY <2>1
    <3>. SUFFICES ASSUME NEW x \in Made', x # 0 PROVE m_path'[x] \in Path
      OBVIOUS
    <3>6. x \in Made \/ x = m
      BY <2>2
    <3>. QED BY <3>2, <3>3, <3>4, <3>5, <3>6
  <2>4. \A x \in Obj : m_deps'[x] \subseteq Made'
    <3>1. \A x \in Obj : m_deps[x] \subseteq Made'
      BY <1>1, <2>2
    <3>2. m \in Made' /\ m_deps' = WithDependency(target[1], m)
      BY <1>15, <2>2 DEF MakeModule
    <3>. QED BY <2>1, <3>1, <3>2, DependencyMade
  <2>5. \A p \in Path : modules'[p] \in Made' /\ g_modules'[p] \in Made'
    BY <1>15, <1>1, <2>1, <2>2 DEF MakeModule, TypeOK
  <2>6. target'[1] \in Made' /\ \A cp \in pending' : cp[1] \in Made'
    BY <1>15, <1>1, <2>2 DEF MakeModule
  <2>7. \A i \in 1 .. Len(stack') : stack'[i].todo \subseteq Made'
    BY <1>15, <1>1, <2>2 DEF MakeModule
  <2>. QED BY <2>3, <2>4, <2>5, <2>6, <2>7 DEF RefsMade
<1>16. ASSUME EndRequest
       PROVE  /\ \A p \in Path : g_modules'[p] \in Made
              /\ target'[1] \in Made /\ \A cp \in pending' : cp[1] \in Made
  BY <1>16, <1>1 DEF EndRequest
<1>17. CASE Finish
  <2>1. \A p \in Path : modules'[p] \in Made
    BY <1>17, <1>1 DEF Finish
  <2>. QED BY <1>17, <1>1, <1>0, <1>16, <2>1 DEF Finish
<1>18. CASE BuildFails
  BY <1>18, <1>1, <1>0, <1>16 DEF BuildFails
<1>19. CASE EndDisplay
  BY <1>19, <1>1, <1>0, <1>16 DEF EndDisplay
<1>20. CASE ExploreClassPaths
  BY <1>20, <1>1, <1>0, <1>16 DEF ExploreClassPaths
<1>21. CASE UNCHANGED vars
  BY <1>21, <1>1, <1>0 DEF vars
<1>. QED
  BY <1>2, <1>3, <1>4, <1>5, <1>6, <1>7, <1>8, <1>9, <1>10, <1>11, <1>12, <1>13,
     <1>14, <1>15, <1>17, <1>18, <1>19, <1>20, <1>21
     DEF Next, Client, Serve, Load, Check, WaitLoop

-----------------------------------------------------------------------------
(* The walk of check.                                                       *)

\* Visited by the walk in progress and, so far, valid.
Passed(m) == m_mark[m] = mark_loop /\ m_dirty[m] = NoPath

\* What is left of a set of dependencies is still to be checked.
Covered(deps, todo) == \A d \in deps : d \in todo \/ Passed(d)

OnStack(m) == \E i \in 2 .. Len(stack) : stack[i].mid = m

WalkInv ==
    /\ \A m \in Id : m_mark[m] <= mark_loop
    /\ phase = "checking" =>
        /\ stack # <<>>
        /\ Covered({modules[target[2]]}, stack[1].todo)
        /\ \A i \in 2 .. Len(stack) :
              /\ stack[i].mid \in Id /\ Passed(stack[i].mid)
              /\ Covered(m_deps[stack[i].mid], stack[i].todo)
        /\ \A m \in Id : Passed(m) => OnStack(m) \/ Covered(m_deps[m], {})

\* The one module_check_policy under which reuse is not justified.
ChecksDependencies == \A p \in Path : "NoCheckDependencies" \notin Policy[p]

\* Without the policy NoCheckDependencies a check goes through all dependencies.
LEMMA DepsChecked ==
    ASSUME ChecksDependencies, RefsMade, NEW d \in Id, d \in Made
    PROVE  DepsToCheck(d) = m_deps[d]
<1>1. m_path[d] \in Path
  BY Ids DEF RefsMade
<1>2. ~HasPolicy(d, "NoCheckDependencies")
  BY <1>1 DEF HasPolicy, ChecksDependencies
<1>. QED BY <1>2 DEF DepsToCheck

\* The next dependency is an object that has been made.
LEMMA NextMade ==
    ASSUME TypeOK, RefsMade, NEW d \in Id, IsNext(d)
    PROVE  d \in Made
<1>1. Len(stack) \in 1 .. Len(stack)
  BY TopIsFrame DEF IsNext
<1>. QED BY <1>1 DEF IsNext, Top, RefsMade

\* Taking a dependency off the innermost frame, field by field.
LEMMA TickFields ==
    ASSUME TypeOK, stack # <<>>, NEW d \in Id
    PROVE  /\ Len(Tick(d)) = Len(stack)
           /\ \A i \in 1 .. Len(stack) :
                 /\ Tick(d)[i].mid = stack[i].mid
                 /\ \A x \in stack[i].todo : x = d \/ x \in Tick(d)[i].todo
<1>1. Len(stack) \in 1 .. Len(stack)
  BY TopIsFrame
<1>2. ASSUME NEW i \in 1 .. Len(stack)
      PROVE  /\ Tick(d)[i].mid = stack[i].mid
             /\ \A x \in stack[i].todo : x = d \/ x \in Tick(d)[i].todo
  <2>1. CASE i = Len(stack)
    <3>1. Tick(d)[i] = [mid |-> stack[i].mid, todo |-> stack[i].todo \ {d}]
      BY <1>1, <2>1, TickType DEF Top
    <3>. QED BY <3>1
  <2>2. CASE i # Len(stack)
    <3>1. Tick(d)[i] = stack[i]
      BY <2>2, TickType
    <3>. QED BY <3>1
  <2>. QED BY <2>1, <2>2
<1>. QED BY <1>2, TickType

\* A server that has started has walked nowhere.
LEMMA WalkInvInit == Init => WalkInv
BY ConstantsAssumption, Ids DEF Init, WalkInv

\* The walk keeps WalkInv, if no module opts out of dependency checks.
LEMMA WalkStep ==
    ASSUME ChecksDependencies, TypeOK, TargetIsCached, RefsMade, WalkInv, [Next]_vars
    PROVE  WalkInv'
<1>. USE DEF diskVars, parserVars, objectVars, serverVars, typerVars
\* Outside the walk only the marks matter.
<1>0. ASSUME \A m \in Id : m_mark'[m] <= mark_loop', phase' # "checking"
      PROVE  WalkInv'
  BY <1>0 DEF WalkInv
<1>1. \A m \in Id : m_mark[m] <= mark_loop
  BY DEF WalkInv
<1>2. mark_loop \in Nat /\ m_mark \in [Obj -> Nat]
  BY DEF TypeOK
<1>3. ASSUME UNCHANGED <<phase, stack, target, modules, m_mark, m_dirty, m_deps, mark_loop>>
      PROVE  WalkInv'
  BY <1>3 DEF WalkInv, Covered, OnStack, Passed
<1>4. ASSUME NEW p \in Path, NEW d \in Decl \cup {NoDecl}, Edit(p, d) PROVE WalkInv'
  BY <1>4, <1>3 DEF Edit
<1>5. StartBuild => WalkInv'
  BY <1>0, <1>1 DEF StartBuild
<1>6. ASSUME NEW p \in DisplayRequests, StartDisplay(p) \/ Invalidate(p) PROVE WalkInv'
  BY <1>6, <1>0, <1>1 DEF StartDisplay, Invalidate, CanServe
<1>7. ASSUME NEW c \in Obj, NEW p \in Path, LoadKnown(c, p) PROVE WalkInv'
  BY <1>7, <1>0, <1>1 DEF LoadKnown
<1>8. ASSUME NEW c \in Obj, NEW p \in Path, LookUp(c, p) PROVE WalkInv'
  <2>1. mark_loop' = mark_loop + 1 /\ UNCHANGED <<m_mark, m_dirty, m_deps, modules>>
    BY <1>8 DEF LookUp
  <2>2. \A m \in Id : m_mark'[m] <= mark_loop' /\ m_mark'[m] # mark_loop'
    BY <1>1, <1>2, <2>1, Ids
  <2>3. CASE modules[p] = 0
    BY <1>8, <1>0, <2>2, <2>3 DEF LookUp
  <2>4. CASE modules[p] # 0
    <3>1. /\ stack' = <<[mid |-> 0, todo |-> {modules[p]}]>>
          /\ modules'[target'[2]] = modules[p]
      BY <1>8, <2>4 DEF LookUp
    <3>2. Len(stack') = 1 /\ stack' # <<>> /\ stack'[1].todo = {modules[p]}
      BY <3>1
    <3>3. \A m \in Id : ~Passed(m)'
      BY <2>2 DEF Passed
    <3>4. Covered({modules[target[2]]}, stack[1].todo)'
      BY <3>1, <3>2 DEF Covered
    <3>5. 2 .. Len(stack') = {}
      BY <3>2
    <3>. QED BY <2>2, <3>2, <3>3, <3>4, <3>5 DEF WalkInv
  <2>. QED BY <2>3, <2>4
<1>9. ASSUME NEW d \in Id, CheckMarked(d) PROVE WalkInv'
  <2>1. /\ phase = "checking" /\ stack # <<>> /\ stack' = Tick(d) /\ Passed(d)
        /\ UNCHANGED <<phase, target, modules, m_mark, m_dirty, m_deps, mark_loop>>
    BY <1>9 DEF CheckMarked, IsNext, Passed
  <2>2. /\ Len(stack') = Len(stack) /\ Len(stack) \in 1 .. Len(stack)
        /\ \A i \in 1 .. Len(stack) :
              /\ stack'[i].mid = stack[i].mid
              /\ \A x \in stack[i].todo : x = d \/ x \in stack'[i].todo
    BY <2>1, TickFields, TopIsFrame
  <2>3. \A m : Passed(m)' <=> Passed(m)
    BY <2>1 DEF Passed
  <2>4. \A m : OnStack(m)' <=> OnStack(m)
    BY <2>2 DEF OnStack
  <2>5. \A D : \A i \in 1 .. Len(stack) :
           Covered(D, stack[i].todo) => Covered(D, stack[i].todo)'
    BY <2>1, <2>2, <2>3 DEF Covered
  <2>. QED
    BY <2>1, <2>2, <2>3, <2>4, <2>5 DEF WalkInv, Covered
<1>10. ASSUME NEW d \in Id, CheckEnter(d) PROVE WalkInv'
  <2>. DEFINE n == Len(stack)
  <2>1. /\ phase = "checking" /\ stack # <<>> /\ m_dirty[d] = NoPath
        /\ m_mark' = [m_mark EXCEPT ![d] = mark_loop]
        /\ UNCHANGED <<phase, target, modules, m_dirty, m_deps, mark_loop>>
    BY <1>10 DEF CheckEnter, IsNext
  <2>2. DepsToCheck(d) = m_deps[d] /\ m_deps[d] \in SUBSET Id
    BY <1>10, NextMade, DepsChecked, Ids DEF CheckEnter, TypeOK
  <2>3. /\ Len(stack') = n + 1
        /\ \A i \in 1 .. n : stack'[i] = Tick(d)[i]
        /\ stack'[n + 1] = [mid |-> d, todo |-> m_deps[d]]
    BY <1>10, <2>1, <2>2, EnterType DEF CheckEnter
  <2>4. /\ n \in 1 .. n
        /\ \A i \in 1 .. n :
              /\ stack'[i].mid = stack[i].mid
              /\ \A x \in stack[i].todo : x = d \/ x \in stack'[i].todo
    BY <2>1, <2>3, TickFields, TopIsFrame
  <2>5. stack'[n + 1].mid = d /\ stack'[n + 1].todo = m_deps[d]
    BY <2>3
  <2>6. \A m \in Id : Passed(m)' <=> Passed(m) \/ m = d
    BY <2>1, <1>2, Ids DEF Passed
  <2>7. \A D \in SUBSET Id : \A i \in 1 .. n :
           Covered(D, stack[i].todo) => Covered(D, stack[i].todo)'
    BY <2>4, <2>6 DEF Covered
  <2>8. \A m \in Id : m_mark'[m] <= mark_loop'
    BY <1>1, <1>2, <2>1, Ids
  <2>9. \A m \in Id : m_deps'[m] = m_deps[m] /\ m_deps[m] \in SUBSET Id
    BY <2>1, Ids DEF TypeOK
  <2>10. Covered({modules[target[2]]}, stack[1].todo)'
    <3>1. modules[target[2]] \in Id
      BY <2>1, Ids DEF TypeOK, TargetIsCached
    <3>2. Covered({modules[target[2]]}, stack[1].todo)
      BY <2>1 DEF WalkInv
    <3>3. n \in Nat /\ 1 \in 1 .. n
      BY <2>4
    <3>. QED BY <3>1, <3>2, <3>3, <2>1, <2>7
  <2>11. \A i \in 2 .. Len(stack') :
            /\ stack'[i].mid \in Id /\ Passed(stack[i].mid)'
            /\ Covered(m_deps[stack[i].mid], stack[i].todo)'
    <3>1. n \in Nat /\ \A i \in 2 .. n + 1 : i = n + 1 \/ i \in 2 .. n
      BY <2>4
    <3>2. ASSUME NEW i \in 2 .. n
          PROVE  /\ stack'[i].mid \in Id /\ Passed(stack[i].mid)'
                 /\ Covered(m_deps[stack[i].mid], stack[i].todo)'
      <4>1. i \in 1 .. n /\ stack'[i].mid = stack[i].mid
        BY <2>4
      <4>2. /\ stack[i].mid \in Id /\ Passed(stack[i].mid)
            /\ Covered(m_deps[stack[i].mid], stack[i].todo)
        BY <2>1 DEF WalkInv
      <4>3. Passed(stack[i].mid)'
        BY <4>1, <4>2, <2>6
      <4>4. Covered(m_deps[stack[i].mid], stack[i].todo)'
        BY <4>1, <4>2, <2>7, <2>9
      <4>. QED BY <4>1, <4>2, <4>3, <4>4
    <3>3. ASSUME NEW i \in 2 .. n + 1, i = n + 1
          PROVE  /\ stack'[i].mid \in Id /\ Passed(stack[i].mid)'
                 /\ Covered(m_deps[stack[i].mid], stack[i].todo)'
      <4>1. stack'[i].mid = d /\ stack'[i].todo = m_deps'[d]
        BY <3>3, <2>5, <2>9
      <4>2. Passed(d)'
        BY <2>6
      <4>. QED BY <4>1, <4>2 DEF Covered
    <3>. QED BY <3>1, <3>2, <3>3, <2>3
  <2>12. \A m \in Id : Passed(m)' => (OnStack(m) \/ Covered(m_deps[m], {}))'
    <3>1. n \in Nat /\ n + 1 \in 2 .. n + 1 /\ 2 .. n \subseteq 2 .. n + 1 /\ 2 .. n \subseteq 1 .. n
      BY <2>4
    <3>2. OnStack(d)'
      BY <2>3, <2>5, <3>1 DEF OnStack
    <3>3. \A m : OnStack(m) => OnStack(m)'
      BY <2>3, <2>4, <3>1 DEF OnStack
    <3>4. \A m \in Id : Covered(m_deps[m], {}) => Covered(m_deps[m], {})'
      BY <2>6, <2>9 DEF Covered
    <3>5. \A m \in Id : Passed(m) => OnStack(m) \/ Covered(m_deps[m], {})
      BY <2>1 DEF WalkInv
    <3>. QED BY <2>6, <3>2, <3>3, <3>4, <3>5
  <2>13. stack' # <<>>
    BY <2>3, <2>4
  <2>. QED BY <2>8, <2>10, <2>11, <2>12, <2>13 DEF WalkInv
<1>11. ASSUME NEW d \in Id, CheckChanged(d) \/ CheckDirty(d) PROVE WalkInv'
  <2>1. \A m \in Id : m_mark'[m] <= mark_loop'
    BY <1>11, <1>1, <1>2, Ids DEF CheckChanged, CheckDirty
  <2>2. phase' # "checking"
    BY <1>11 DEF CheckChanged, CheckDirty, RaiseDirty
  <2>. QED BY <1>0, <2>1, <2>2
<1>12. CASE CheckReturn
  <2>. DEFINE n == Len(stack)
  <2>1. /\ phase = "checking" /\ n > 1 /\ stack[n].todo = {}
        /\ UNCHANGED <<phase, target, modules, m_mark, m_dirty, m_deps, mark_loop>>
    BY <1>12 DEF CheckReturn, Top
  <2>2. /\ n \in Nat /\ Len(stack') = n - 1
        /\ \A i \in 1 .. n - 1 : stack'[i] = stack[i]
    BY <1>12, ReturnType, LenProperties DEF CheckReturn, TypeOK
  <2>3. \A m : Passed(m)' <=> Passed(m)
    BY <2>1 DEF Passed
  <2>4. \A D : \A i \in 1 .. n - 1 :
           Covered(D, stack[i].todo)' <=> Covered(D, stack[i].todo)
    BY <2>2, <2>3 DEF Covered
  <2>5. /\ n \in 2 .. n /\ 1 \in 1 .. n - 1 /\ 2 .. n - 1 \subseteq 1 .. n - 1
        /\ \A i \in 2 .. n : i = n \/ i \in 2 .. n - 1
    BY <2>1, <2>2
  <2>6. \A m \in Id : Passed(m) => OnStack(m)' \/ Covered(m_deps[m], {})
    <3>1. ASSUME NEW m \in Id, Passed(m), NEW i \in 2 .. n, stack[i].mid = m
          PROVE  OnStack(m)' \/ Covered(m_deps[m], {})
      <4>1. CASE i = n
        BY <4>1, <3>1, <2>1 DEF WalkInv
      <4>2. CASE i \in 2 .. n - 1
        BY <4>2, <3>1, <2>2, <2>5 DEF OnStack
      <4>. QED BY <4>1, <4>2, <2>5
    <3>2. \A m \in Id : Passed(m) => OnStack(m) \/ Covered(m_deps[m], {})
      BY <2>1 DEF WalkInv
    <3>. QED BY <3>1, <3>2 DEF OnStack
  <2>7. \A m : Covered(m_deps[m], {})' <=> Covered(m_deps[m], {})
    BY <2>1, <2>3 DEF Covered
  <2>8. Covered({modules[target[2]]}, stack[1].todo)'
    BY <2>1, <2>4, <2>5 DEF WalkInv
  <2>9. \A i \in 2 .. Len(stack') :
            /\ stack'[i].mid \in Id /\ Passed(stack[i].mid)'
            /\ Covered(m_deps[stack[i].mid], stack[i].todo)'
    <3>1. ASSUME NEW i \in 2 .. n - 1
          PROVE  /\ stack'[i].mid \in Id /\ Passed(stack[i].mid)'
                 /\ Covered(m_deps[stack[i].mid], stack[i].todo)'
      <4>1. stack'[i] = stack[i] /\ i \in 2 .. n /\ i \in 1 .. n - 1
        BY <2>2, <2>5
      <4>2. /\ stack[i].mid \in Id /\ Passed(stack[i].mid)
            /\ Covered(m_deps[stack[i].mid], stack[i].todo)
        BY <4>1, <2>1 DEF WalkInv
      <4>. QED BY <4>1, <4>2, <2>1, <2>3, <2>4
    <3>. QED BY <3>1, <2>2
  <2>10. stack' # <<>>
    BY <2>1, <2>2
  <2>11. \A m \in Id : m_mark'[m] <= mark_loop'
    BY <2>1, <1>1
  <2>. QED BY <2>3, <2>6, <2>7, <2>8, <2>9, <2>10, <2>11 DEF WalkInv
<1>13. CheckDone \/ ForgetDisplayFile \/ ParseModule \/ MakeModule => WalkInv'
  BY <1>0, <1>1 DEF CheckDone, ForgetDisplayFile, ParseModule, MakeModule
<1>14. Finish \/ BuildFails \/ EndDisplay \/ ExploreClassPaths => WalkInv'
  BY <1>0, <1>1 DEF Finish, BuildFails, EndDisplay, ExploreClassPaths, EndRequest
<1>15. UNCHANGED vars => WalkInv'
  BY <1>3 DEF vars
<1>. QED
  BY <1>4, <1>5, <1>6, <1>7, <1>8, <1>9, <1>10, <1>11, <1>12, <1>13, <1>14, <1>15
     DEF Next, Client, Serve, Load, Check, WaitLoop

\* At the end of a walk that found nothing, everything the module depends on has
\* passed: the objects that passed are closed under dependencies.
LEMMA WalkIsComplete ==
    TypeOK /\ TargetIsCached /\ WalkInv => ReusedGraphIsClean
<1>. SUFFICES ASSUME TypeOK, TargetIsCached, WalkInv,
                     phase = "checking", Len(stack) = 1, Top.todo = {},
                     NEW x \in Reach(modules[target[2]])
              PROVE  Passed(x)
  BY DEF ReusedGraphIsClean, Passed
<1>. DEFINE S == {m \in Id : Passed(m)}
<1>1. modules[target[2]] \in Id
  BY Ids DEF TypeOK, TargetIsCached
<1>2. modules[target[2]] \in S
  BY <1>1 DEF WalkInv, Covered, Top
<1>3. \A m \in Id : ~OnStack(m)
  BY DEF OnStack
<1>4. Closed(S)
  BY <1>3, Ids DEF Closed, WalkInv, Covered, TypeOK
<1>. QED
  BY <1>2, <1>4 DEF Reach

\* check is sound: a module it accepts can be reused with everything the cached
\* graph holds below it, whatever cycles that graph has.
THEOREM ReuseIsSound ==
    ASSUME ChecksDependencies
    PROVE  Spec => []ReusedGraphIsClean
<1>. DEFINE Inv == TypeOK /\ TargetIsCached /\ RefsMade /\ WalkInv
<1>1. Init => Inv
  BY InitType, RefsMadeInit, WalkInvInit DEF Init, TargetIsCached
<1>2. Inv /\ [Next]_vars => Inv'
  BY NextType, TargetStep, RefsMadeStep, WalkStep
<1>3. Inv => ReusedGraphIsClean
  BY WalkIsComplete
<1>. QED
  BY <1>1, <1>2, <1>3, PTL DEF Spec

-----------------------------------------------------------------------------
(* The graph of cached modules: one object per path, in the cache and in    *)
(* each compilation, and what m_dirty says of it.                           *)

Loading == {"checking", "parsing", "making"}

Dirty(m) == m_dirty[m] # NoPath

\* The objects up to n are the old ones: what the cache holds and depends on.
\* No module that is being loaded is imported by one of them.
Older(n) ==
    /\ n \in 0 .. mid_count
    /\ \A x \in 1 .. n : m_deps[x] \subseteq 1 .. n
    /\ \A p \in Path : modules[p] \in 0 .. n
    /\ \A cp \in pending : cp[1] = 0 \/ cp[1] > n
    /\ target[1] = 0 \/ target[1] > n

\* A new object depends on nothing yet.
Unmade == \A x \in Id : x > mid_count => m_deps[x] = {}

\* Both tables have objects under their own paths.
Named == \A p \in Path : /\ modules[p] # 0 => m_path[modules[p]] = p
                         /\ g_modules[p] # 0 => m_path[g_modules[p]] = p

\* A compilation knows another object than the cache only if that one is dirty.
Superseded == \A p \in Path :
    modules[p] # 0 /\ g_modules[p] # 0 /\ g_modules[p] # modules[p] => Dirty(modules[p])

\* What is being loaded is not known to the compilation, and is typed only if the
\* cache has no valid object for it: the walk began there, and has blamed it.
TargetInv ==
    /\ phase \in Loading => g_modules[target[2]] = 0
    /\ phase \in {"parsing", "making"} /\ modules[target[2]] # 0 => Dirty(modules[target[2]])
    /\ phase = "checking" =>
         /\ stack # <<>>
         /\ stack[1].todo \subseteq {modules[target[2]]}
         /\ Len(stack) > 1 => stack[2].mid = modules[target[2]]

\* Where add_modules stops, the compilation knows the object.
AddedInv ==
    /\ \A x \in Id : m_added[x] <= compilation_step
    /\ phase # "idle" => \A x \in Id : x \in Made /\ m_added[x] = compilation_step
                                         => g_modules[m_path[x]] = x

GraphInv == /\ \E n \in Obj : Older(n)
            /\ Unmade /\ Named /\ Superseded /\ TargetInv /\ AddedInv
            /\ OneObjectPerPath /\ CachedGraphIsCoherent

\* What the proofs of single steps start from.
Base == TypeOK /\ TargetIsCached /\ RefsMade

-----------------------------------------------------------------------------
(* Reachability.                                                            *)

\* Reach is closed, and is in every closed set around the module.
LEMMA ReachProperties ==
    ASSUME TypeOK, NEW m \in Id
    PROVE  /\ m \in Reach(m) /\ Reach(m) \subseteq Id
           /\ \A x \in Reach(m) : m_deps[x] \subseteq Reach(m)
           /\ \A S \in SUBSET Id : m \in S /\ Closed(S) => Reach(m) \subseteq S
<1>1. \A x \in Id : m_deps[x] \subseteq Id
  BY Ids DEF TypeOK
<1>2. ASSUME NEW x \in Reach(m), NEW y \in m_deps[x] PROVE y \in Reach(m)
  <2>1. x \in Id /\ y \in Id
    BY <1>1 DEF Reach
  <2>2. ASSUME NEW S \in SUBSET Id, m \in S, Closed(S) PROVE y \in S
    BY <2>2 DEF Reach, Closed
  <2>. QED BY <2>1, <2>2 DEF Reach
<1>. QED BY <1>2 DEF Reach

\* From an old object only old ones are reached, and a step that leaves their
\* dependencies alone leaves what is reached.
LEMMA ReachOlder ==
    ASSUME TypeOK, TypeOK', NEW n \in Obj, NEW r \in 1 .. n,
           \A x \in 1 .. n : m_deps[x] \subseteq 1 .. n /\ m_deps'[x] = m_deps[x]
    PROVE  Reach(r) \subseteq 1 .. n /\ Reach(r)' = Reach(r)
<1>1. 1 .. n \subseteq Id /\ r \in Id
  BY ConstantsAssumption DEF Id, Obj
<1>2. Closed(1 .. n) /\ Closed(1 .. n)'
  BY DEF Closed
<1>3. ASSUME NEW x \in Id, NEW S \in SUBSET Id, r \in S, Closed(S), x \in Reach(r)' PROVE x \in S
  <2>1. S \cap (1 .. n) \in SUBSET Id /\ r \in S \cap (1 .. n)
    BY <1>1, <1>3
  <2>2. Closed(S \cap (1 .. n))'
    BY <1>3 DEF Closed
  <2>. QED BY <1>3, <2>1, <2>2 DEF Reach
<1>4. ASSUME NEW x \in Id, NEW S \in SUBSET Id, r \in S, Closed(S)', x \in Reach(r) PROVE x \in S
  <2>1. S \cap (1 .. n) \in SUBSET Id /\ r \in S \cap (1 .. n)
    BY <1>1, <1>4
  <2>2. Closed(S \cap (1 .. n))
    BY <1>4 DEF Closed
  <2>. QED BY <1>4, <2>1, <2>2 DEF Reach
<1>5. Reach(r)' \subseteq Reach(r)
  BY <1>3 DEF Reach
<1>6. Reach(r) \subseteq Reach(r)'
  BY <1>4 DEF Reach
<1>. QED BY <1>1, <1>2, <1>5, <1>6 DEF Reach

-----------------------------------------------------------------------------
(* Effects of the actions, each said once.                                  *)

\* The path a module is blamed on is never NoPath, so what is dirty stays dirty.
LEMMA RaisedDirty ==
    ASSUME TypeOK, NEW ms, NEW path, path # NoPath, RaiseDirty(ms, path)
    PROVE  /\ \A x \in Obj : Dirty(x) => Dirty(x)'
           /\ \A x \in Id : x \in ms => Dirty(x)'
           /\ \A i \in 1 .. Len(stack) : stack[i].mid \in Id => m_dirty'[stack[i].mid] # NoPath
<1>1. \A x \in Obj : m_dirty'[x] =
         IF x # 0 /\ (x \in ms \/ \E i \in 1 .. Len(stack) : stack[i].mid = x)
           THEN path ELSE m_dirty[x]
  BY DEF RaiseDirty
<1>2. \A x \in Id : x \in Obj /\ x # 0
  BY Ids
<1>. QED BY <1>1, <1>2 DEF Dirty

\* When check finds a module invalid, that module and all it came through are dirty.
LEMMA CheckRaises ==
    ASSUME Base, NEW d \in Id, CheckChanged(d) \/ CheckDirty(d)
    PROVE  /\ \A x \in Obj : Dirty(x) => Dirty(x)'
           /\ Dirty(d)'
           /\ \A i \in 1 .. Len(stack) : stack[i].mid \in Id => m_dirty'[stack[i].mid] # NoPath
<1>1. CASE CheckChanged(d)
  <2>1. m_path[d] # NoPath
    BY <1>1, NextMade, Ids, ConstantsAssumption DEF Base, CheckChanged, RefsMade
  <2>. QED BY <1>1, <2>1, RaisedDirty DEF Base, CheckChanged
<1>2. CASE CheckDirty(d)
  BY <1>2, RaisedDirty, Ids DEF Base, CheckDirty, Dirty
<1>. QED BY <1>1, <1>2

\* m_dirty changes where a module is tainted by a request, or found invalid.
LEMMA DirtyChanges ==
    ASSUME Base, [Next]_vars
    PROVE  \/ UNCHANGED m_dirty
           \/ UNCHANGED <<mid_count, m_path>> /\ \E p \in Path : m_dirty' = Tainted(p)
           \/ \E d \in Id : CheckChanged(d) \/ CheckDirty(d)
<1>. USE DEF diskVars, parserVars, objectVars, serverVars, typerVars
<1>1. ASSUME NEW p \in DisplayRequests, StartDisplay(p) \/ Invalidate(p)
      PROVE  \/ UNCHANGED m_dirty
             \/ UNCHANGED <<mid_count, m_path>> /\ \E q \in Path : m_dirty' = Tainted(q)
  BY <1>1, ConstantsAssumption DEF StartDisplay, Invalidate
<1>2. ForgetDisplayFile =>
        UNCHANGED <<mid_count, m_path>> /\ \E q \in Path : m_dirty' = Tainted(q)
  BY DEF ForgetDisplayFile, Base, TypeOK, Request
<1>3. ASSUME NEW p \in Path, NEW d \in Decl \cup {NoDecl}, Edit(p, d) PROVE UNCHANGED m_dirty
  BY <1>3 DEF Edit
<1>4. ASSUME NEW c \in Obj, NEW p \in Path, LoadKnown(c, p) \/ LookUp(c, p)
      PROVE  UNCHANGED m_dirty
  BY <1>4 DEF LoadKnown, LookUp
<1>5. ASSUME NEW d \in Id, CheckMarked(d) \/ CheckEnter(d) PROVE UNCHANGED m_dirty
  BY <1>5 DEF CheckMarked, CheckEnter
<1>6. StartBuild \/ CheckReturn \/ CheckDone \/ ParseModule \/ MakeModule => UNCHANGED m_dirty
  BY DEF StartBuild, CheckReturn, CheckDone, ParseModule, MakeModule
<1>7. Finish \/ BuildFails \/ EndDisplay \/ ExploreClassPaths \/ UNCHANGED vars
        => UNCHANGED m_dirty
  BY DEF Finish, BuildFails, EndDisplay, ExploreClassPaths, vars
<1>. QED
  BY <1>1, <1>2, <1>3, <1>4, <1>5, <1>6, <1>7
     DEF Next, Client, Serve, Load, Check, WaitLoop

\* What is dirty stays dirty.
LEMMA DirtyStays ==
    ASSUME Base, [Next]_vars
    PROVE  \A x \in Obj : Dirty(x) => Dirty(x)'
<1>1. ASSUME NEW p \in Path, m_dirty' = Tainted(p) PROVE \A x \in Obj : Dirty(x) => Dirty(x)'
  BY <1>1, ConstantsAssumption DEF Tainted, Dirty, Base, TypeOK
<1>2. UNCHANGED m_dirty => \A x \in Obj : Dirty(x) => Dirty(x)'
  BY DEF Dirty
<1>. QED BY <1>1, <1>2, DirtyChanges, CheckRaises

\* The only step that gives an object its path, and it gives it to a new one.
LEMMA PathsStay ==
    ASSUME Base, [Next]_vars
    PROVE  \/ UNCHANGED <<mid_count, m_path>>
           \/ /\ MakeModule /\ mid_count \in Nat /\ mid_count + 1 \in Id
              /\ mid_count' = mid_count + 1
              /\ m_path' = [m_path EXCEPT ![mid_count + 1] = target[2]]
<1>. USE DEF diskVars, parserVars, objectVars, serverVars, typerVars
<1>1. ASSUME NEW p \in Path, NEW d \in Decl \cup {NoDecl}, Edit(p, d)
      PROVE  UNCHANGED <<mid_count, m_path>>
  BY <1>1 DEF Edit
<1>2. ASSUME NEW p \in DisplayRequests, StartDisplay(p) \/ Invalidate(p)
      PROVE  UNCHANGED <<mid_count, m_path>>
  BY <1>2 DEF StartDisplay, Invalidate
<1>3. ASSUME NEW c \in Obj, NEW p \in Path, LoadKnown(c, p) \/ LookUp(c, p)
      PROVE  UNCHANGED <<mid_count, m_path>>
  BY <1>3 DEF LoadKnown, LookUp
<1>4. ASSUME NEW d \in Id, CheckMarked(d) \/ CheckEnter(d) \/ CheckChanged(d) \/ CheckDirty(d)
      PROVE  UNCHANGED <<mid_count, m_path>>
  BY <1>4 DEF CheckMarked, CheckEnter, CheckChanged, CheckDirty
<1>5. StartBuild \/ CheckReturn \/ CheckDone \/ ForgetDisplayFile \/ ParseModule
        => UNCHANGED <<mid_count, m_path>>
  BY DEF StartBuild, CheckReturn, CheckDone, ForgetDisplayFile, ParseModule
<1>6. Finish \/ BuildFails \/ EndDisplay \/ ExploreClassPaths \/ UNCHANGED vars
        => UNCHANGED <<mid_count, m_path>>
  BY DEF Finish, BuildFails, EndDisplay, ExploreClassPaths, vars
<1>7. MakeModule => /\ mid_count \in Nat /\ mid_count + 1 \in Id
                    /\ mid_count' = mid_count + 1
                    /\ m_path' = [m_path EXCEPT ![mid_count + 1] = target[2]]
  BY ConstantsAssumption DEF MakeModule, Base, TypeOK, Obj
<1>. QED
  BY <1>1, <1>2, <1>3, <1>4, <1>5, <1>6, <1>7 DEF Next, Client, Serve, Load, Check, WaitLoop

\* What has been made keeps its path.
LEMMA MadePaths ==
    ASSUME Base, [Next]_vars
    PROVE  \A x \in Made : m_path'[x] = m_path[x] /\ x \in Made'
<1>1. Made \subseteq Obj /\ m_path \in [Obj -> Path \cup {NoPath}]
  BY MadeIds DEF Base, TypeOK
<1>2. ASSUME NEW x \in Made, mid_count \in Nat, mid_count' = mid_count + 1,
             m_path' = [m_path EXCEPT ![mid_count + 1] = target[2]]
      PROVE  m_path'[x] = m_path[x] /\ x \in Made'
  BY <1>1, <1>2 DEF Made
<1>. QED BY <1>2, PathsStay DEF Made

\* Dependencies are added to modules that are being loaded, or to none.
LEMMA DepsStay ==
    ASSUME Base, [Next]_vars
    PROVE  \/ UNCHANGED m_deps
           \/ \E c \in Obj, d \in Id, p \in Path :
                 /\ m_deps' = WithDependency(c, d)
                 /\ \/ LoadKnown(c, p) /\ <<c, p>> \in pending /\ d = g_modules[p]
                    \/ CheckDone /\ c = target[1] /\ d = modules[target[2]]
                    \/ MakeModule /\ c = target[1] /\ d = mid_count + 1
<1>. USE DEF diskVars, parserVars, objectVars, serverVars, typerVars
<1>0. target[1] \in Obj /\ target[2] \in Path
  BY DEF Base, TypeOK
<1>1. ASSUME NEW p \in Path, NEW d \in Decl \cup {NoDecl}, Edit(p, d) PROVE UNCHANGED m_deps
  BY <1>1 DEF Edit
<1>2. ASSUME NEW p \in DisplayRequests, StartDisplay(p) \/ Invalidate(p) PROVE UNCHANGED m_deps
  BY <1>2 DEF StartDisplay, Invalidate
<1>3. ASSUME NEW c \in Obj, NEW p \in Path, LookUp(c, p) PROVE UNCHANGED m_deps
  BY <1>3 DEF LookUp
<1>4. ASSUME NEW d \in Id, CheckMarked(d) \/ CheckEnter(d) \/ CheckChanged(d) \/ CheckDirty(d)
      PROVE  UNCHANGED m_deps
  BY <1>4 DEF CheckMarked, CheckEnter, CheckChanged, CheckDirty
<1>5. StartBuild \/ CheckReturn \/ ForgetDisplayFile \/ ParseModule => UNCHANGED m_deps
  BY DEF StartBuild, CheckReturn, ForgetDisplayFile, ParseModule
<1>6. Finish \/ BuildFails \/ EndDisplay \/ ExploreClassPaths \/ UNCHANGED vars
        => UNCHANGED m_deps
  BY DEF Finish, BuildFails, EndDisplay, ExploreClassPaths, vars
<1>7. ASSUME NEW c \in Obj, NEW p \in Path, LoadKnown(c, p)
      PROVE  /\ m_deps' = WithDependency(c, g_modules[p])
             /\ <<c, p>> \in pending /\ g_modules[p] \in Id
  BY <1>7, Ids DEF LoadKnown, Base, TypeOK
<1>8. CheckDone => m_deps' = WithDependency(target[1], modules[target[2]])
                     /\ modules[target[2]] \in Id
  BY <1>0, Ids DEF CheckDone, Base, TargetIsCached, TypeOK
<1>9. MakeModule => m_deps' = WithDependency(target[1], mid_count + 1) /\ mid_count + 1 \in Id
  BY DEF MakeModule
<1>. QED
  BY <1>0, <1>1, <1>2, <1>3, <1>4, <1>5, <1>6, <1>7, <1>8, <1>9
     DEF Next, Client, Serve, Load, Check, WaitLoop

\* The dependencies of one object after a step.
LEMMA OneDependency ==
    ASSUME TypeOK, NEW c \in Obj, NEW d \in Id, m_deps' = WithDependency(c, d)
    PROVE  \A x \in Obj : \/ m_deps'[x] = m_deps[x]
                          \/ x = c /\ c # 0 /\ c # d /\ m_deps'[x] = m_deps[x] \cup {d}
BY DEF TypeOK, WithDependency

-----------------------------------------------------------------------------
(* Old objects.                                                             *)

\* A dependency of an old object is never added.
LEMMA OlderDeps ==
    ASSUME Base, [Next]_vars, NEW n \in Obj, Older(n)
    PROVE  \A x \in 1 .. n : m_deps'[x] = m_deps[x]
<1>1. n \in Nat /\ 1 .. n \subseteq Obj /\ 0 \notin 1 .. n
  BY ConstantsAssumption DEF Obj
<1>2. ASSUME NEW c \in Obj, c = 0 \/ c > n, NEW d \in Id, m_deps' = WithDependency(c, d)
      PROVE  \A x \in 1 .. n : m_deps'[x] = m_deps[x]
  <2>1. \A x \in 1 .. n : x # c
    BY <1>1, <1>2
  <2>. QED BY <1>1, <1>2, <2>1, OneDependency DEF Base
<1>3. \A cp \in pending : cp[1] = 0 \/ cp[1] > n
  BY DEF Older
<1>4. ASSUME NEW c \in Obj, NEW p \in Path, <<c, p>> \in pending PROVE c = 0 \/ c > n
  <2>1. <<c, p>>[1] = 0 \/ <<c, p>>[1] > n
    BY <1>3, <1>4
  <2>. QED BY <2>1
<1>5. target[1] = 0 \/ target[1] > n
  BY DEF Older
<1>. QED BY <1>2, <1>4, <1>5, DepsStay

\* Old objects stay old; when a compilation has finished, all objects are.
LEMMA OlderStep ==
    ASSUME Base, RefsMade', [Next]_vars, NEW n \in Obj, Older(n)
    PROVE  \E k \in Obj : Older(k)'
<1>. USE DEF diskVars, parserVars, objectVars, serverVars, typerVars
<1>0. ASSUME n \in 0 .. mid_count', \A p \in Path : modules'[p] \in 0 .. n,
             \A cp \in pending' : cp[1] = 0 \/ cp[1] > n,
             target'[1] = 0 \/ target'[1] > n
      PROVE  Older(n)'
  BY <1>0, OlderDeps DEF Older
<1>1. /\ n \in 0 .. mid_count /\ \A p \in Path : modules[p] \in 0 .. n
      /\ \A cp \in pending : cp[1] = 0 \/ cp[1] > n
      /\ target[1] = 0 \/ target[1] > n
      /\ <<0, Main>>[1] = 0
      /\ \A p : <<0, p>>[1] = 0
  BY DEF Older
<1>2. ASSUME NEW p \in Path, NEW d \in Decl \cup {NoDecl}, Edit(p, d) PROVE Older(n)'
  BY <1>2, <1>0, <1>1 DEF Edit
<1>3. StartBuild => Older(n)'
  BY <1>0, <1>1 DEF StartBuild
<1>4. ASSUME NEW p \in DisplayRequests, StartDisplay(p) \/ Invalidate(p) PROVE Older(n)'
  BY <1>4, <1>0, <1>1 DEF StartDisplay, Invalidate
<1>5. ASSUME NEW c \in Obj, NEW p \in Path, LoadKnown(c, p) PROVE Older(n)'
  BY <1>5, <1>0, <1>1 DEF LoadKnown
<1>6. ASSUME NEW c \in Obj, NEW p \in Path, LookUp(c, p) PROVE Older(n)'
  <2>1. <<c, p>> \in pending /\ <<c, p>>[1] = c /\ target'[1] = c
    BY <1>6 DEF LookUp
  <2>2. c = 0 \/ c > n
    BY <1>1, <2>1
  <2>. QED BY <1>6, <1>0, <1>1, <2>1, <2>2 DEF LookUp
<1>7. ASSUME NEW d \in Id, CheckMarked(d) \/ CheckEnter(d) \/ CheckChanged(d) \/ CheckDirty(d)
      PROVE  Older(n)'
  BY <1>7, <1>0, <1>1 DEF CheckMarked, CheckEnter, CheckChanged, CheckDirty
<1>8. CheckReturn \/ CheckDone \/ ForgetDisplayFile \/ ParseModule => Older(n)'
  BY <1>0, <1>1 DEF CheckReturn, CheckDone, ForgetDisplayFile, ParseModule
<1>9. CASE MakeModule
  <2>1. mid_count \in Nat /\ mid_count' = mid_count + 1
    BY <1>9, MadeIds, ConstantsAssumption DEF MakeModule, Base, TypeOK, Obj
  <2>2. n \in 0 .. mid_count' /\ mid_count + 1 > n
    BY <1>1, <2>1
  <2>3. pending' = (pending \ {target})
                    \cup ({mid_count + 1} \X Imports[target[2]][parsed])
    BY <1>9 DEF MakeModule
  <2>4. \A cp \in pending' : cp[1] = 0 \/ cp[1] > n
    BY <1>1, <2>2, <2>3
  <2>. QED BY <1>9, <1>0, <1>1, <2>2, <2>4 DEF MakeModule
<1>10. CASE Finish
  <2>1. mid_count \in Obj /\ mid_count' = mid_count /\ mid_count \in Nat
    BY <1>10, ConstantsAssumption DEF Finish, Base, TypeOK, Obj
  <2>2. \A x \in 1 .. mid_count : m_deps'[x] \subseteq 1 .. mid_count
    <3>1. 1 .. mid_count \subseteq Obj
      BY <2>1, ConstantsAssumption DEF Obj
    <3>2. \A x \in Obj : m_deps'[x] \subseteq Made /\ m_deps'[x] \subseteq Id
      BY <1>10, <2>1, Ids DEF Finish, RefsMade, Base, TypeOK
    <3>3. Made \cap Id \subseteq 1 .. mid_count
      BY <2>1, ConstantsAssumption DEF Made, Id
    <3>. QED BY <3>1, <3>2, <3>3
  <2>3. \A p \in Path : modules'[p] \in 0 .. mid_count
    BY <2>1 DEF RefsMade, Made
  <2>4. pending' = {} /\ target'[1] = 0
    BY <1>10 DEF Finish, EndRequest
  <2>5. Older(mid_count)'
    BY <2>1, <2>2, <2>3, <2>4 DEF Older
  <2>6. \E k \in Obj : k = mid_count /\ Older(k)'
    BY <2>1, <2>5 DEF Older
  <2>. QED BY <2>6
<1>11. BuildFails \/ EndDisplay \/ ExploreClassPaths => Older(n)'
  BY <1>0, <1>1 DEF BuildFails, EndDisplay, ExploreClassPaths, EndRequest
<1>12. UNCHANGED vars => Older(n)'
  BY <1>0, <1>1 DEF vars
<1>. QED
  BY <1>2, <1>3, <1>4, <1>5, <1>6, <1>7, <1>8, <1>9, <1>10, <1>11, <1>12
     DEF Next, Client, Serve, Load, Check, WaitLoop

-----------------------------------------------------------------------------
(* Objects and tables.                                                      *)

\* The tables change when an object is made, when add_modules adds what is cached,
\* and at the end of a request.
LEMMA TablesStay ==
    ASSUME Base, [Next]_vars
    PROVE  \/ UNCHANGED <<modules, g_modules>>
           \/ UNCHANGED modules /\ MakeModule
                /\ g_modules' = [g_modules EXCEPT ![target[2]] = mid_count + 1]
           \/ UNCHANGED modules /\ CheckDone
           \/ UNCHANGED modules /\ g_modules' = [p \in Path |-> 0]
           \/ /\ Finish /\ g_modules' = [p \in Path |-> 0] /\ UNCHANGED <<m_deps, m_dirty>>
              /\ modules' = [p \in Path |-> IF g_modules[p] # 0 THEN g_modules[p]
                                                                ELSE modules[p]]
<1>. USE DEF diskVars, parserVars, objectVars, serverVars, typerVars
<1>1. ASSUME NEW p \in Path, NEW d \in Decl \cup {NoDecl}, Edit(p, d)
      PROVE  UNCHANGED <<modules, g_modules>>
  BY <1>1 DEF Edit
<1>2. ASSUME NEW p \in DisplayRequests, StartDisplay(p) \/ Invalidate(p)
      PROVE  UNCHANGED <<modules, g_modules>>
  BY <1>2 DEF StartDisplay, Invalidate
<1>3. ASSUME NEW c \in Obj, NEW p \in Path, LoadKnown(c, p) \/ LookUp(c, p)
      PROVE  UNCHANGED <<modules, g_modules>>
  BY <1>3 DEF LoadKnown, LookUp
<1>4. ASSUME NEW d \in Id, CheckMarked(d) \/ CheckEnter(d) \/ CheckChanged(d) \/ CheckDirty(d)
      PROVE  UNCHANGED <<modules, g_modules>>
  BY <1>4 DEF CheckMarked, CheckEnter, CheckChanged, CheckDirty
<1>5. StartBuild \/ CheckReturn \/ ForgetDisplayFile \/ ParseModule
        => UNCHANGED <<modules, g_modules>>
  BY DEF StartBuild, CheckReturn, ForgetDisplayFile, ParseModule
<1>6. MakeModule => UNCHANGED modules
                      /\ g_modules' = [g_modules EXCEPT ![target[2]] = mid_count + 1]
  BY DEF MakeModule
<1>7. CheckDone => UNCHANGED modules
  BY DEF CheckDone
<1>8. BuildFails \/ EndDisplay \/ ExploreClassPaths
        => UNCHANGED modules /\ g_modules' = [p \in Path |-> 0]
  BY DEF BuildFails, EndDisplay, ExploreClassPaths, EndRequest
<1>9. Finish => /\ g_modules' = [p \in Path |-> 0] /\ UNCHANGED <<m_deps, m_dirty>>
                /\ modules' = [p \in Path |-> IF g_modules[p] # 0 THEN g_modules[p]
                                                                  ELSE modules[p]]
  BY DEF Finish, EndRequest
<1>10. UNCHANGED vars => UNCHANGED <<modules, g_modules>>
  BY DEF vars
<1>. QED
  BY <1>1, <1>2, <1>3, <1>4, <1>5, <1>6, <1>7, <1>8, <1>9, <1>10
     DEF Next, Client, Serve, Load, Check, WaitLoop

\* What add_modules visits is reached from the module, and it goes on below each
\* object that it adds.
LEMMA VisitedProperties ==
    ASSUME TypeOK, NEW m \in Id
    PROVE  /\ m \in Visited(m) /\ Visited(m) \subseteq Reach(m)
           /\ \A x \in Newly(m) : m_deps[x] \subseteq Visited(m)
<1>1. \A x \in Id : m_deps[x] \subseteq Id
  BY Ids DEF TypeOK
<1>2. Visited(m) \subseteq Reach(m)
  BY DEF Visited, Reach, Closed
<1>3. ASSUME NEW x \in Newly(m), NEW y \in m_deps[x] PROVE y \in Visited(m)
  <2>1. x \in Id /\ y \in Id /\ x \in Visited(m) /\ m_added[x] < compilation_step
    BY <1>1, <1>3 DEF Newly, Visited
  <2>2. ASSUME NEW S \in SUBSET Id, m \in S,
               \A z \in S : m_added[z] < compilation_step => m_deps[z] \subseteq S
        PROVE  y \in S
    BY <1>3, <2>1, <2>2 DEF Visited
  <2>. QED BY <2>1, <2>2 DEF Visited
<1>. QED BY <1>2, <1>3 DEF Visited

\* What is reached from an object that exists are objects that exist.
LEMMA ReachMade ==
    ASSUME Base, NEW m \in Id, m \in Made
    PROVE  \A x \in Reach(m) : x \in Id /\ x \in Made /\ x \in Obj /\ m_path[x] \in Path
<1>. DEFINE S == Id \cap Made
<1>1. S \in SUBSET Id /\ m \in S
  OBVIOUS
<1>2. Closed(S)
  BY Ids DEF Closed, Base, RefsMade, TypeOK
<1>3. Reach(m) \subseteq S
  BY <1>1, <1>2, ReachProperties DEF Base
<1>. QED BY <1>3, Ids DEF Base, RefsMade

\* When the walk has found nothing, add_modules takes the cached objects, contradicts
\* nothing the compilation knows, and afterwards all it has visited is known.
LEMMA DoneKnown ==
    ASSUME Base, GraphInv, ReusedGraphIsClean, CheckDone
    PROVE  LET m == modules[target[2]] IN
           /\ m \in Id /\ m \in Visited(m) /\ m \in Made
           /\ \A x \in Visited(m) : x \in Id /\ x \in Made /\ m_path[x] \in Path
           /\ \A x \in Newly(m) : modules[m_path[x]] = x
           /\ \A q \in Path : g_modules'[q] = IF \E x \in Newly(m) : m_path[x] = q
                                               THEN modules[q] ELSE g_modules[q]
           /\ \A q \in Path : g_modules[q] # 0 => g_modules'[q] = g_modules[q]
           /\ \A x \in Visited(m) : g_modules'[m_path[x]] = x
<1>. DEFINE m == modules[target[2]]
<1>1. m \in Id /\ m \in Made /\ target[2] \in Path /\ phase = "checking"
  BY Ids DEF CheckDone, Base, TargetIsCached, RefsMade, TypeOK
<1>2. m \in Visited(m) /\ Visited(m) \subseteq Reach(m)
      /\ Newly(m) = {x \in Visited(m) : m_added[x] < compilation_step}
  BY <1>1, VisitedProperties DEF Base, Newly
<1>3. \A x \in Reach(m) : x \in Id /\ x \in Made /\ m_path[x] \in Path
  BY <1>1, ReachMade
<1>4. \A x \in Reach(m) : m_dirty[x] = NoPath
  BY DEF CheckDone, ReusedGraphIsClean
<1>5. \A x \in Reach(m) : modules[m_path[x]] = x
  BY <1>1, <1>4, Ids DEF GraphInv, CachedGraphIsCoherent
<1>6. \A x \in Newly(m) : modules[m_path[x]] = x
  BY <1>2, <1>5
<1>7. PICK f \in [{m_path[x] : x \in Newly(m)} -> Newly(m)] :
         /\ \A p \in DOMAIN f : m_path[f[p]] = p
         /\ g_modules' = [p \in Path |-> IF p \in DOMAIN f THEN f[p] ELSE g_modules[p]]
  BY DEF CheckDone
<1>8. \A q \in DOMAIN f : f[q] = modules[q]
  BY <1>6, <1>7
<1>9. \A q \in Path : g_modules'[q] = IF \E x \in Newly(m) : m_path[x] = q
                                       THEN modules[q] ELSE g_modules[q]
  <2>1. \A q : q \in DOMAIN f <=> \E x \in Newly(m) : m_path[x] = q
    OBVIOUS
  <2>. QED BY <1>7, <1>8, <2>1
<1>10. ASSUME NEW q \in Path, g_modules[q] # 0 PROVE g_modules'[q] = g_modules[q]
  <2>1. ASSUME NEW x \in Newly(m), m_path[x] = q, modules[q] # g_modules[q] PROVE FALSE
    <3>1. modules[q] = x /\ x # 0 /\ m_dirty[x] = NoPath
      BY <1>2, <1>3, <1>4, <1>6, <2>1, Ids
    <3>. QED BY <1>10, <2>1, <3>1 DEF GraphInv, Superseded, Dirty
  <2>. QED BY <1>9, <2>1
<1>11. ASSUME NEW x \in Visited(m) PROVE g_modules'[m_path[x]] = x
  <2>0. x \in Id /\ x \in Made /\ m_path[x] \in Path
    BY <1>2, <1>3
  <2>1. CASE x \in Newly(m)
    BY <2>0, <2>1, <1>6, <1>9
  <2>2. CASE x \notin Newly(m)
    <3>1. m_added[x] = compilation_step
      <4>1. m_added[x] \in Nat /\ compilation_step \in Nat
        BY <2>0, Ids DEF Base, TypeOK
      <4>2. ~(m_added[x] < compilation_step) /\ m_added[x] <= compilation_step
        BY <1>2, <2>0, <2>2 DEF GraphInv, AddedInv
      <4>. QED BY <4>1, <4>2
    <3>2. g_modules[m_path[x]] = x
      BY <1>1, <2>0, <3>1 DEF GraphInv, AddedInv
    <3>. QED BY <2>0, <3>2, <1>10, Ids
  <2>. QED BY <2>1, <2>2
<1>. QED BY <1>1, <1>2, <1>3, <1>6, <1>9, <1>10, <1>11

\* New objects come without dependencies.
LEMMA UnmadeStep == ASSUME Base, Unmade, [Next]_vars PROVE Unmade'
<1>0. mid_count \in Nat /\ \A x \in Id : x \in Nat
  BY ConstantsAssumption DEF Base, TypeOK, Obj, Id
<1>1. mid_count \in Nat /\ mid_count' \in {mid_count, mid_count + 1}
  BY <1>0, PathsStay
<1>2. CASE UNCHANGED m_deps
  BY <1>0, <1>1, <1>2 DEF Unmade
<1>3. ASSUME NEW c \in Obj, c \in Made, NEW d \in Id, m_deps' = WithDependency(c, d) PROVE Unmade'
  <2>1. \A x \in Obj : m_deps'[x] = m_deps[x] \/ x = c
    BY <1>3, OneDependency DEF Base
  <2>2. c <= mid_count /\ c \in Nat
    BY <1>1, <1>3 DEF Made
  <2>3. \A x \in Id : x \in Obj /\ x \in Nat
    BY Ids
  <2>. QED BY <1>1, <2>1, <2>2, <2>3 DEF Unmade
<1>4. target[1] \in Made /\ \A c, p : <<c, p>> \in pending => c \in Made
  <2>1. \A c, p : <<c, p>>[1] = c
    OBVIOUS
  <2>. QED BY <2>1 DEF Base, RefsMade
<1>. QED BY <1>2, <1>3, <1>4, DepsStay

\* Both tables go on naming objects by their paths.
LEMMA NamedStep ==
    ASSUME Base, GraphInv, ReusedGraphIsClean, [Next]_vars
    PROVE  Named'
<1>1. \A x \in Made : m_path'[x] = m_path[x]
  BY MadePaths
<1>2. \A p \in Path : modules[p] \in Made /\ g_modules[p] \in Made
  BY DEF Base, RefsMade
<1>3. Named
  BY DEF GraphInv
<1>4. CASE UNCHANGED <<modules, g_modules>>
  BY <1>1, <1>2, <1>3, <1>4 DEF Named
<1>5. CASE UNCHANGED modules /\ MakeModule
           /\ g_modules' = [g_modules EXCEPT ![target[2]] = mid_count + 1]
  <2>1. /\ target[2] \in Path /\ mid_count + 1 \in Obj
        /\ m_path \in [Obj -> Path \cup {NoPath}] /\ g_modules \in [Path -> Obj]
    BY <1>5, Ids DEF Base, TypeOK, MakeModule
  <2>2. m_path'[mid_count + 1] = target[2]
    BY <1>5, <2>1 DEF MakeModule
  <2>. QED BY <1>1, <1>2, <1>3, <1>5, <2>1, <2>2 DEF Named
<1>6. CASE UNCHANGED modules /\ CheckDone
  <2>1. \A q \in Path : g_modules'[q] \in {modules[q], g_modules[q]}
    BY <1>6, DoneKnown
  <2>. QED BY <1>1, <1>2, <1>3, <1>6, <2>1 DEF Named
<1>7. CASE UNCHANGED modules /\ g_modules' = [p \in Path |-> 0]
  BY <1>1, <1>2, <1>3, <1>7 DEF Named
<1>8. CASE /\ g_modules' = [p \in Path |-> 0]
           /\ modules' = [p \in Path |-> IF g_modules[p] # 0 THEN g_modules[p] ELSE modules[p]]
  BY <1>1, <1>2, <1>3, <1>8 DEF Named
<1>. QED BY <1>4, <1>5, <1>6, <1>7, <1>8, TablesStay

\* A compilation only departs from the cache where the cached object is dirty.
LEMMA SupersededStep ==
    ASSUME Base, GraphInv, ReusedGraphIsClean, [Next]_vars
    PROVE  Superseded'
<1>1. \A p \in Path : modules[p] \in Obj
  BY DEF Base, TypeOK
<1>2. \A x \in Obj : Dirty(x) => Dirty(x)'
  BY DirtyStays
<1>3. Superseded
  BY DEF GraphInv
<1>4. CASE UNCHANGED <<modules, g_modules>>
  BY <1>1, <1>2, <1>3, <1>4 DEF Superseded, Dirty
<1>5. CASE UNCHANGED modules /\ MakeModule
           /\ g_modules' = [g_modules EXCEPT ![target[2]] = mid_count + 1]
  <2>1. target[2] \in Path /\ g_modules \in [Path -> Obj]
    BY DEF Base, TypeOK
  <2>2. modules[target[2]] # 0 => Dirty(modules[target[2]])
    BY <1>5 DEF MakeModule, GraphInv, TargetInv
  <2>. QED BY <1>1, <1>2, <1>3, <1>5, <2>1, <2>2 DEF Superseded, Dirty
<1>6. CASE UNCHANGED modules /\ CheckDone
  <2>1. \A q \in Path : g_modules'[q] \in {modules[q], g_modules[q]}
    BY <1>6, DoneKnown
  <2>. QED BY <1>1, <1>2, <1>3, <1>6, <2>1 DEF Superseded, Dirty
<1>7. CASE g_modules' = [p \in Path |-> 0]
  BY <1>7 DEF Superseded
<1>. QED BY <1>4, <1>5, <1>6, <1>7, TablesStay

\* The walk begins at the module that is loaded, and what ends it blames that module.
LEMMA TargetInvStep ==
    ASSUME Base, GraphInv, [Next]_vars
    PROVE  TargetInv'
<1>. USE DEF diskVars, parserVars, objectVars, serverVars, typerVars
<1>. DEFINE r == modules[target[2]]
<1>0. phase' \notin Loading => TargetInv'
  BY DEF TargetInv, Loading
<1>1. TargetInv
  BY DEF GraphInv
<1>2. r \in Obj
  BY DEF Base, TypeOK
<1>3. Dirty(r) => m_dirty'[r] # NoPath
  <2>1. ASSUME NEW x \in Obj, Dirty(x) PROVE m_dirty'[x] # NoPath
    BY <2>1, DirtyStays DEF Dirty
  <2>. QED BY <1>2, <2>1
<1>4. ASSUME UNCHANGED <<phase, target, stack, modules, g_modules>> PROVE TargetInv'
  BY <1>1, <1>3, <1>4 DEF TargetInv, Dirty
<1>5. ASSUME NEW p \in Path, NEW d \in Decl \cup {NoDecl}, Edit(p, d) PROVE TargetInv'
  BY <1>5, <1>4 DEF Edit
<1>6. ASSUME NEW p \in DisplayRequests, StartDisplay(p) \/ Invalidate(p) PROVE TargetInv'
  BY <1>6, <1>0 DEF StartDisplay, Invalidate, CanServe, Loading
<1>7. ASSUME NEW c \in Obj, NEW p \in Path, LoadKnown(c, p) PROVE TargetInv'
  BY <1>7, <1>0 DEF LoadKnown, Loading
<1>8. ASSUME NEW c \in Obj, NEW p \in Path, LookUp(c, p) PROVE TargetInv'
  <2>1. /\ target'[2] = p /\ g_modules[p] = 0 /\ UNCHANGED <<modules, g_modules>>
    BY <1>8 DEF LookUp
  <2>2. CASE modules[p] = 0
    BY <1>8, <2>1, <2>2 DEF LookUp, TargetInv
  <2>3. CASE modules[p] # 0
    <3>1. stack' = <<[mid |-> 0, todo |-> {modules[p]}]>> /\ phase' = "checking"
      BY <1>8, <2>3 DEF LookUp
    <3>2. stack' # <<>> /\ stack'[1].todo = {modules[p]} /\ Len(stack') = 1
      BY <3>1
    <3>. QED BY <2>1, <3>1, <3>2 DEF TargetInv
  <2>. QED BY <2>2, <2>3
<1>9. ASSUME phase = "checking"
      PROVE  /\ g_modules[target[2]] = 0 /\ stack # <<>>
             /\ Len(stack) \in Nat /\ 1 \in 1 .. Len(stack)
             /\ Len(stack) = 1 \/ Len(stack) > 1
             /\ Len(stack) > 1 => 2 \in 1 .. Len(stack)
             /\ stack[1].todo \subseteq {r}
             /\ Len(stack) > 1 => stack[2].mid = r
  <2>1. stack # <<>> /\ stack \in Seq(Frame)
    BY <1>1, <1>9 DEF TargetInv, Base, TypeOK
  <2>2. Len(stack) \in Nat /\ Len(stack) # 0
    BY <2>1
  <2>3. \A n \in Nat : n # 0 => 1 \in 1 .. n /\ (n = 1 \/ n > 1) /\ (n > 1 => 2 \in 1 .. n)
    OBVIOUS
  <2>4. g_modules[target[2]] = 0 /\ stack[1].todo \subseteq {r}
        /\ (Len(stack) > 1 => stack[2].mid = r)
    BY <1>1, <1>9 DEF TargetInv, Loading
  <2>. QED BY <2>1, <2>2, <2>3, <2>4
\* The first two frames after Tick.
<1>10. ASSUME NEW d \in Id, phase = "checking"
       PROVE  /\ Len(Tick(d)) = Len(stack)
              /\ Tick(d)[1].todo \subseteq {r}
              /\ Len(stack) > 1 => Tick(d)[2].mid = r
  <2>1. ASSUME NEW i \in 1 .. Len(stack)
        PROVE  Tick(d)[i].mid = stack[i].mid /\ Tick(d)[i].todo \subseteq stack[i].todo
    <3>1. Tick(d)[i] = IF i = Len(stack) THEN [mid |-> Top.mid, todo |-> Top.todo \ {d}]
                                         ELSE stack[i]
      BY <1>9, <1>10, TickType DEF Base
    <3>. QED BY <3>1 DEF Top
  <2>2. Len(Tick(d)) = Len(stack)
    BY <1>9, <1>10, TickType DEF Base
  <2>. QED BY <1>9, <1>10, <2>1, <2>2
<1>11. ASSUME NEW d \in Id, CheckMarked(d) PROVE TargetInv'
  <2>1. /\ phase = "checking" /\ stack' = Tick(d)
        /\ UNCHANGED <<phase, target, modules, g_modules>>
    BY <1>11 DEF CheckMarked, IsNext
  <2>2. Len(stack') \in Nat /\ Len(stack') # 0
    BY <1>9, <1>10, <2>1
  <2>3. stack' # <<>>
    BY <2>2
  <2>. QED BY <1>9, <1>10, <2>1, <2>3 DEF TargetInv
<1>12. ASSUME NEW d \in Id, CheckEnter(d) PROVE TargetInv'
  <2>1. /\ phase = "checking" /\ d \in Top.todo
        /\ stack' = Append(Tick(d), [mid |-> d, todo |-> DepsToCheck(d)])
        /\ UNCHANGED <<phase, target, modules, g_modules>>
    BY <1>12 DEF CheckEnter, IsNext
  <2>2. DepsToCheck(d) \in SUBSET Id
    BY Ids DEF DepsToCheck, Base, TypeOK
  <2>3. /\ Len(stack') = Len(stack) + 1
        /\ \A i \in 1 .. Len(stack) : stack'[i] = Tick(d)[i]
        /\ stack'[Len(stack) + 1] = [mid |-> d, todo |-> DepsToCheck(d)]
    BY <1>9, <2>1, <2>2, EnterType DEF Base
  <2>4. stack' # <<>>
    BY <1>9, <2>1, <2>3
  <2>5. stack'[1].todo \subseteq {r}
    BY <1>9, <1>10, <2>1, <2>3
  <2>6. stack'[2].mid = r
    <3>1. CASE Len(stack) = 1
      <4>1. d = r
        BY <1>9, <2>1, <3>1 DEF Top
      <4>2. stack'[2] = [mid |-> d, todo |-> DepsToCheck(d)]
        BY <2>3, <3>1
      <4>. QED BY <4>1, <4>2
    <3>2. CASE Len(stack) > 1
      <4>1. stack'[2] = Tick(d)[2]
        BY <1>9, <2>1, <2>3, <3>2
      <4>. QED BY <1>10, <2>1, <3>2, <4>1
    <3>. QED BY <1>9, <2>1, <3>1, <3>2
  <2>. QED BY <1>9, <2>1, <2>4, <2>5, <2>6 DEF TargetInv
<1>13. ASSUME NEW d \in Id, CheckChanged(d) \/ CheckDirty(d) PROVE TargetInv'
  <2>1. /\ phase = "checking" /\ d \in Top.todo /\ phase' = "parsing"
        /\ UNCHANGED <<target, modules, g_modules>>
    BY <1>13 DEF CheckChanged, CheckDirty, RaiseDirty, IsNext
  <2>2. /\ Dirty(d)'
        /\ \A i \in 1 .. Len(stack) : stack[i].mid \in Id => m_dirty'[stack[i].mid] # NoPath
    BY <1>13, CheckRaises
  <2>3. r \in Id
    BY <1>2, <2>1, Ids DEF Base, TargetIsCached
  <2>4. m_dirty'[r] # NoPath
    <3>1. CASE Len(stack) = 1
      <4>1. d = r
        BY <1>9, <2>1, <3>1 DEF Top
      <4>. QED BY <2>2, <4>1 DEF Dirty
    <3>2. CASE Len(stack) > 1
      BY <1>9, <2>1, <2>2, <2>3, <3>2
    <3>. QED BY <1>9, <2>1, <3>1, <3>2
  <2>. QED BY <1>9, <2>1, <2>4 DEF TargetInv, Dirty
<1>14. CASE CheckReturn
  <2>1. /\ phase = "checking" /\ Len(stack) > 1
        /\ stack' = SubSeq(stack, 1, Len(stack) - 1)
        /\ UNCHANGED <<phase, target, modules, g_modules>>
    BY <1>14 DEF CheckReturn
  <2>2. Len(stack') = Len(stack) - 1 /\ \A i \in 1 .. Len(stack) - 1 : stack'[i] = stack[i]
    BY <2>1, ReturnType DEF Base
  <2>3. stack' # <<>>
    <3>1. Len(stack) \in Nat /\ \A n \in Nat : n > 1 => n - 1 # 0
      BY <1>9, <2>1
    <3>2. stack' # <<>> \/ Len(stack') = 0
      OBVIOUS
    <3>. QED BY <2>1, <2>2, <3>1, <3>2
  <2>4. stack'[1] = stack[1] /\ (Len(stack') > 1 => stack'[2] = stack[2])
    BY <1>9, <2>1, <2>2
  <2>. QED BY <1>9, <2>1, <2>2, <2>3, <2>4 DEF TargetInv
<1>15. StartBuild \/ CheckDone \/ ForgetDisplayFile \/ MakeModule => TargetInv'
  BY <1>0 DEF StartBuild, CheckDone, ForgetDisplayFile, MakeModule, Loading
<1>16. ParseModule => TargetInv'
  BY <1>1, <1>3 DEF ParseModule, TargetInv, Loading, Dirty
<1>17. Finish \/ BuildFails \/ EndDisplay \/ ExploreClassPaths => TargetInv'
  BY <1>0 DEF Finish, BuildFails, EndDisplay, ExploreClassPaths, EndRequest, Loading
<1>18. UNCHANGED vars => TargetInv'
  BY <1>4 DEF vars
<1>. QED
  BY <1>5, <1>6, <1>7, <1>8, <1>11, <1>12, <1>13, <1>14, <1>15, <1>16, <1>17, <1>18
     DEF Next, Client, Serve, Load, Check, WaitLoop

\* m_added says what the compilation knows: each compilation has a step of its own.
LEMMA AddedInvStep ==
    ASSUME Base, GraphInv, ReusedGraphIsClean, [Next]_vars
    PROVE  AddedInv'
<1>. USE DEF diskVars, parserVars, objectVars, serverVars, typerVars
<1>0. /\ \A x \in Id : m_added[x] \in Nat /\ m_added[x] <= compilation_step
      /\ compilation_step \in Nat
  BY Ids DEF Base, TypeOK, GraphInv, AddedInv
<1>1. AddedInv
  BY DEF GraphInv
<1>2. ASSUME UNCHANGED <<phase, m_added, compilation_step, g_modules, mid_count, m_path>>
      PROVE  AddedInv'
  BY <1>1, <1>2 DEF AddedInv, Made
<1>3. ASSUME phase # "idle",
             UNCHANGED <<m_added, compilation_step, g_modules, mid_count, m_path>>
      PROVE  AddedInv'
  BY <1>1, <1>3 DEF AddedInv, Made
<1>4. ASSUME UNCHANGED m_added, compilation_step' \in {compilation_step, compilation_step + 1},
             phase' = "idle"
      PROVE  AddedInv'
  BY <1>0, <1>4 DEF AddedInv
<1>5. ASSUME UNCHANGED m_added, compilation_step' = compilation_step + 1 PROVE AddedInv'
  BY <1>0, <1>5 DEF AddedInv
<1>6. ASSUME NEW p \in Path, NEW d \in Decl \cup {NoDecl}, Edit(p, d) PROVE AddedInv'
  BY <1>6, <1>2 DEF Edit
<1>7. StartBuild => AddedInv'
  BY <1>5 DEF StartBuild, BeginRequest
<1>8. ASSUME NEW p \in DisplayRequests, StartDisplay(p) \/ Invalidate(p) PROVE AddedInv'
  BY <1>8, <1>5 DEF StartDisplay, Invalidate, BeginRequest
<1>9. ASSUME NEW c \in Obj, NEW p \in Path, LoadKnown(c, p) \/ LookUp(c, p) PROVE AddedInv'
  BY <1>9, <1>3 DEF LoadKnown, LookUp
<1>10. ASSUME NEW d \in Id, CheckMarked(d) \/ CheckEnter(d) PROVE AddedInv'
  BY <1>10, <1>3 DEF CheckMarked, CheckEnter, IsNext
<1>11. ASSUME NEW d \in Id, CheckChanged(d) \/ CheckDirty(d) PROVE AddedInv'
  BY <1>11, <1>3 DEF CheckChanged, CheckDirty, IsNext
<1>12. CheckReturn \/ ForgetDisplayFile \/ ParseModule => AddedInv'
  BY <1>3 DEF CheckReturn, ForgetDisplayFile, ParseModule
<1>13. CASE CheckDone
  <2>. DEFINE m == modules[target[2]]
  <2>1. /\ phase = "checking" /\ UNCHANGED <<mid_count, m_path, compilation_step>>
        /\ m_added' = [x \in Obj |-> IF x \in Newly(m) THEN compilation_step ELSE m_added[x]]
    BY <1>13 DEF CheckDone
  <2>2. /\ \A x \in Newly(m) : x \in Visited(m)
        /\ \A q \in Path : g_modules[q] # 0 => g_modules'[q] = g_modules[q]
        /\ \A x \in Visited(m) : g_modules'[m_path[x]] = x
    BY <1>13, DoneKnown DEF Newly
  <2>3. ASSUME NEW x \in Id, x \in Made, m_added'[x] = compilation_step
        PROVE  g_modules'[m_path[x]] = x
    <3>1. CASE x \in Newly(m)
      BY <2>2, <3>1
    <3>2. CASE x \notin Newly(m)
      <4>1. m_added[x] = compilation_step
        BY <2>1, <2>3, <3>2, Ids
      <4>2. g_modules[m_path[x]] = x /\ x # 0
        BY <2>1, <2>3, <4>1, <1>1, Ids DEF AddedInv
      <4>3. m_path[x] \in Path
        BY <2>3, Ids DEF Base, RefsMade
      <4>. QED BY <2>2, <4>2, <4>3
    <3>. QED BY <3>1, <3>2
  <2>4. \A x \in Id : m_added'[x] <= compilation_step
    BY <1>0, <2>1, Ids
  <2>. QED BY <2>1, <2>3, <2>4 DEF AddedInv, Made
<1>14. CASE MakeModule
  <2>. DEFINE m == mid_count + 1
              p == target[2]
  <2>1. /\ phase = "making" /\ m \in Id /\ mid_count' = m
        /\ UNCHANGED <<m_added, compilation_step>>
        /\ m_path' = [m_path EXCEPT ![m] = p]
        /\ g_modules' = [g_modules EXCEPT ![p] = m]
    BY <1>14 DEF MakeModule
  <2>2. /\ p \in Path /\ g_modules[p] = 0 /\ g_modules \in [Path -> Obj]
        /\ m_path \in [Obj -> Path \cup {NoPath}]
    BY <2>1 DEF Base, TypeOK, GraphInv, TargetInv, Loading
  <2>3. ASSUME NEW x \in Id, x \in Made', m_added'[x] = compilation_step'
        PROVE  g_modules'[m_path'[x]] = x
    <3>1. CASE x = m
      BY <2>1, <2>2, <3>1, Ids
    <3>2. CASE x # m
      <4>1. x \in Made
        BY <2>1, <2>3, <3>2, ConstantsAssumption DEF Made, Base, TypeOK, Obj
      <4>2. g_modules[m_path[x]] = x /\ x # 0 /\ m_path'[x] = m_path[x] /\ m_path[x] \in Path
        BY <2>1, <2>2, <2>3, <3>2, <4>1, <1>1, Ids DEF AddedInv, Base, RefsMade
      <4>. QED BY <2>1, <2>2, <4>2
    <3>. QED BY <3>1, <3>2
  <2>. QED BY <1>0, <2>1, <2>3 DEF AddedInv
<1>15. Finish \/ BuildFails \/ EndDisplay \/ ExploreClassPaths => AddedInv'
  BY <1>4 DEF Finish, BuildFails, EndDisplay, ExploreClassPaths, EndRequest, Flush
<1>16. UNCHANGED vars => AddedInv'
  BY <1>2 DEF vars
<1>. QED
  BY <1>6, <1>7, <1>8, <1>9, <1>10, <1>11, <1>12, <1>13, <1>14, <1>15, <1>16
     DEF Next, Client, Serve, Load, Check, WaitLoop

-----------------------------------------------------------------------------
(* One object per path.                                                     *)

\* What is loaded, reused or made depends on what the compilation knows.
LEMMA OneObjectStep ==
    ASSUME Base, GraphInv, ReusedGraphIsClean, [Next]_vars
    PROVE  OneObjectPerPath'
<1>1. /\ g_modules \in [Path -> Obj] /\ m_deps \in [Obj -> SUBSET Id]
      /\ target \in Obj \X Path
  BY DEF Base, TypeOK
<1>2. \A o \in Obj : \A d \in m_deps[o] : /\ d \in Made /\ d \in Id /\ d # 0
                                          /\ m_path[d] \in Path /\ m_path'[d] = m_path[d]
  BY <1>1, MadePaths, Ids DEF Base, RefsMade
<1>3. \A p \in Path : g_modules[p] # 0 => \A d \in m_deps[g_modules[p]] : g_modules[m_path[d]] = d
  BY DEF GraphInv, OneObjectPerPath
<1>4. CASE CheckDone
  <2>. DEFINE m == modules[target[2]]
  <2>1. m_deps' = WithDependency(target[1], m) /\ UNCHANGED m_path
    BY <1>4 DEF CheckDone, objectVars
  <2>2. /\ m \in Id /\ m \in Visited(m) /\ Newly(m) \subseteq Id
        /\ \A x \in Newly(m) : modules[m_path[x]] = x
        /\ \A q \in Path : g_modules'[q] = IF \E x \in Newly(m) : m_path[x] = q
                                            THEN modules[q] ELSE g_modules[q]
        /\ \A q \in Path : g_modules[q] # 0 => g_modules'[q] = g_modules[q]
        /\ \A x \in Visited(m) : g_modules'[m_path[x]] = x
    BY <1>4, DoneKnown DEF Newly
  <2>3. \A x \in Newly(m) : m_deps[x] \subseteq Visited(m)
    BY <2>2, VisitedProperties DEF Base
  <2>4. ASSUME NEW p \in Path, g_modules'[p] # 0, NEW d \in m_deps[g_modules'[p]]
        PROVE  g_modules'[m_path[d]] = d
    <3>1. CASE \E x \in Newly(m) : m_path[x] = p
      <4>1. g_modules'[p] \in Newly(m)
        BY <2>2, <3>1
      <4>. QED BY <2>2, <2>3, <2>4, <4>1
    <3>2. CASE ~\E x \in Newly(m) : m_path[x] = p
      <4>1. g_modules'[p] = g_modules[p]
        BY <2>2, <3>2
      <4>2. g_modules[m_path[d]] = d /\ d # 0 /\ m_path[d] \in Path
        BY <2>4, <4>1, <1>1, <1>2, <1>3
      <4>. QED BY <2>2, <4>2
    <3>. QED BY <3>1, <3>2
  <2>5. \A o \in Obj : \A d \in m_deps'[o] : d \in m_deps[o] \/ d = m
    BY <2>1, <2>2, <1>1, OneDependency DEF Base
  <2>6. \A p \in Path : g_modules'[p] \in Obj
    BY <2>2, <1>1 DEF Base, TypeOK
  <2>7. ASSUME NEW p \in Path, g_modules'[p] # 0, NEW d \in m_deps'[g_modules'[p]]
        PROVE  g_modules'[m_path'[d]] = d
    BY <2>1, <2>2, <2>4, <2>5, <2>6, <2>7
  <2>. QED BY <2>7 DEF OneObjectPerPath
<1>5. CASE MakeModule
  <2>. DEFINE m == mid_count + 1
              p0 == target[2]
  <2>1. /\ phase = "making" /\ m \in Id
        /\ m_deps' = WithDependency(target[1], m)
        /\ m_path' = [m_path EXCEPT ![m] = p0]
        /\ g_modules' = [g_modules EXCEPT ![p0] = m]
    BY <1>5 DEF MakeModule
  <2>2. p0 \in Path /\ g_modules[p0] = 0 /\ m_path'[m] = p0 /\ g_modules'[p0] = m
    BY <1>1, <2>1, Ids DEF Base, TypeOK, GraphInv, TargetInv, Loading
  <2>3. \A o \in Obj : \A d \in m_deps'[o] : d \in m_deps[o] \/ (d = m /\ o # m)
    <3>1. m_deps[m] = {}
      BY <2>1, ConstantsAssumption DEF GraphInv, Unmade, Id, Base, TypeOK, Obj
    <3>2. \A o \in Obj : m_deps'[o] = m_deps[o]
             \/ (target[1] # m /\ o = target[1] /\ m_deps'[o] = m_deps[o] \cup {m})
      BY <2>1, <1>1, OneDependency DEF Base
    <3>. QED BY <3>1, <3>2
  <2>4. ASSUME NEW p \in Path, g_modules'[p] # 0, NEW d \in m_deps'[g_modules'[p]]
        PROVE  g_modules'[m_path'[d]] = d
    <3>1. CASE d = m
      BY <2>2, <3>1
    <3>2. CASE d # m
      <4>1. g_modules'[p] \in Obj
        BY <1>1, <2>1, Ids
      <4>2. d \in m_deps[g_modules'[p]]
        BY <2>3, <2>4, <3>2, <4>1
      <4>3. p # p0
        <5>1. m_deps[m] = {}
          BY <2>1, ConstantsAssumption DEF GraphInv, Unmade, Id, Base, TypeOK, Obj
        <5>. QED BY <2>2, <4>2, <5>1
      <4>4. g_modules'[p] = g_modules[p]
        BY <1>1, <2>1, <4>3
      <4>5. g_modules[m_path[d]] = d /\ d # 0 /\ m_path[d] \in Path /\ m_path'[d] = m_path[d]
        BY <2>4, <4>1, <4>2, <4>4, <1>2, <1>3
      <4>. QED BY <1>1, <2>1, <2>2, <4>5
    <3>. QED BY <3>1, <3>2
  <2>. QED BY <2>4 DEF OneObjectPerPath
<1>6. CASE \A p \in Path : g_modules'[p] = 0
  BY <1>6 DEF OneObjectPerPath
<1>7. CASE ~CheckDone /\ ~MakeModule /\ UNCHANGED g_modules
  <2>1. CASE UNCHANGED m_deps
    BY <1>1, <1>2, <1>3, <1>7, <2>1 DEF OneObjectPerPath
  <2>2. ASSUME NEW c \in Obj, NEW d0 \in Id, NEW q \in Path, LoadKnown(c, q),
               d0 = g_modules[q], m_deps' = WithDependency(c, d0)
        PROVE  OneObjectPerPath'
    <3>1. UNCHANGED m_path /\ m_path[d0] = q
      BY <2>2, Ids DEF LoadKnown, objectVars, GraphInv, Named
    <3>2. \A o \in Obj : \A d \in m_deps'[o] : d \in m_deps[o] \/ d = d0
      BY <2>2, <1>1, OneDependency DEF Base
    <3>. QED BY <1>1, <1>3, <1>7, <2>2, <3>1, <3>2 DEF OneObjectPerPath
  <2>. QED BY <1>7, <2>1, <2>2, DepsStay
<1>. QED BY <1>4, <1>5, <1>6, <1>7, TablesStay

\* Without a change to the graph, the same is reached.
LEMMA ReachSame ==
    ASSUME UNCHANGED m_deps, NEW r
    PROVE  Reach(r)' = Reach(r)
BY DEF Reach, Closed

\* What a compilation knows is closed: all below a loaded module is loaded.
LEMMA KnownClosed ==
    ASSUME Base, GraphInv, NEW p \in Path, g_modules[p] # 0
    PROVE  \A x \in Reach(g_modules[p]) : m_path[x] \in Path /\ g_modules[m_path[x]] = x /\ x # 0
<1>. DEFINE S == {x \in Id : m_path[x] \in Path /\ g_modules[m_path[x]] = x}
<1>1. g_modules[p] \in Id /\ g_modules[p] \in S
  BY Ids DEF Base, TypeOK, GraphInv, Named
<1>2. ASSUME NEW x \in S, NEW d \in m_deps[x] PROVE d \in S
  <2>1. d \in Id /\ d \in Made
    BY <1>2, Ids DEF Base, TypeOK, RefsMade
  <2>2. g_modules[m_path[x]] = x /\ x # 0
    BY <1>2, Ids
  <2>3. g_modules[m_path[d]] = d
    BY <1>2, <2>2 DEF GraphInv, OneObjectPerPath
  <2>4. m_path[d] \in Path
    BY <2>1, Ids DEF Base, RefsMade
  <2>. QED BY <2>1, <2>3, <2>4
<1>3. Closed(S)
  BY <1>2 DEF Closed
<1>4. Reach(g_modules[p]) \subseteq S
  BY <1>1, <1>3, ReachProperties DEF Base
<1>. QED BY <1>4, Ids

\* The cache goes from one coherent graph to the next when a compilation ends.
LEMMA CoherentStep ==
    ASSUME Base, TypeOK', GraphInv, ReusedGraphIsClean, [Next]_vars
    PROVE  CachedGraphIsCoherent'
<1>0. \A p \in Path : modules[p] \in Obj /\ modules[p] \in Made
  BY DEF Base, TypeOK, RefsMade
<1>1. CASE UNCHANGED modules
  <2>1. PICK n \in Obj : Older(n)
    BY DEF GraphInv
  <2>2. \A x \in 1 .. n : m_deps[x] \subseteq 1 .. n /\ m_deps'[x] = m_deps[x]
    BY <2>1, OlderDeps DEF Older
  <2>3. n \in Nat /\ mid_count \in Nat /\ n <= mid_count /\ \A x \in 1 .. n : x \in Obj /\ x \in Made
    BY <2>1, ConstantsAssumption DEF Older, Base, TypeOK, Obj, Made
  <2>4. ASSUME NEW p \in Path, modules[p] # 0,
               \A x \in Reach(modules[p])' : m_dirty'[x] = NoPath,
               NEW x \in Reach(modules[p])'
        PROVE  modules[m_path'[x]] = x
    <3>1. modules[p] \in 1 .. n
      BY <2>1, <2>3, <2>4 DEF Older
    <3>2. Reach(modules[p]) \subseteq 1 .. n /\ Reach(modules[p])' = Reach(modules[p])
      <4>. DEFINE r == modules[p]
      <4>1. r' = r
        BY <1>1
      <4>2. \A y \in 1 .. n : Reach(y) \subseteq 1 .. n /\ Reach(y)' = Reach(y)
        BY <2>2, ReachOlder DEF Base
      <4>. QED BY <3>1, <4>1, <4>2
    <3>3. \A y \in Reach(modules[p]) : m_dirty[y] = NoPath
      BY <2>3, <2>4, <3>2, DirtyStays DEF Dirty
    <3>4. modules[m_path[x]] = x
      BY <2>4, <3>2, <3>3 DEF GraphInv, CachedGraphIsCoherent
    <3>5. m_path'[x] = m_path[x]
      BY <2>3, <2>4, <3>2, MadePaths
    <3>. QED BY <3>4, <3>5
  <2>. QED BY <1>1, <2>4 DEF CachedGraphIsCoherent
<1>2. CASE Finish
  <2>1. /\ UNCHANGED <<m_deps, m_dirty, m_path>>
        /\ modules' = [p \in Path |-> IF g_modules[p] # 0 THEN g_modules[p] ELSE modules[p]]
    BY <1>2 DEF Finish, objectVars
  <2>2. ASSUME NEW p \in Path, NEW r \in Obj, r = modules'[p], r # 0,
               \A x \in Reach(r) : m_dirty[x] = NoPath, NEW x \in Reach(r)
        PROVE  modules'[m_path[x]] = x
    <3>1. CASE g_modules[p] # 0
      <4>1. m_path[x] \in Path /\ g_modules[m_path[x]] = x /\ x # 0
        BY <2>1, <2>2, <3>1, KnownClosed
      <4>. QED BY <2>1, <4>1
    <3>2. CASE g_modules[p] = 0
      <4>1. r = modules[p] /\ r \in Id /\ r \in Made
        BY <1>0, <2>1, <2>2, <3>2, Ids
      <4>2. modules[m_path[x]] = x
        BY <2>2, <4>1 DEF GraphInv, CachedGraphIsCoherent
      <4>3. m_path[x] \in Path /\ x # 0 /\ m_dirty[x] = NoPath
        BY <2>2, <4>1, ReachMade, Ids
      <4>4. g_modules[m_path[x]] # 0 => g_modules[m_path[x]] = x
        BY <4>2, <4>3 DEF GraphInv, Superseded, Dirty
      <4>. QED BY <2>1, <4>2, <4>3, <4>4
    <3>. QED BY <3>1, <3>2
  <2>3. \A r : Reach(r)' = Reach(r)
    BY <2>1, ReachSame
  <2>4. \A p \in Path : modules'[p] \in Obj
    BY DEF TypeOK
  <2>5. ASSUME NEW p \in Path, modules'[p] # 0,
               \A x \in Reach(modules'[p]) : m_dirty[x] = NoPath, NEW x \in Reach(modules'[p])
        PROVE  modules'[m_path[x]] = x
    BY <2>2, <2>4, <2>5
  <2>6. \A p \in Path : Reach(modules[p])' = Reach(modules'[p])
    BY <2>1 DEF Reach, Closed
  <2>. QED BY <2>1, <2>5, <2>6 DEF CachedGraphIsCoherent
<1>. QED BY <1>1, <1>2, TablesStay

-----------------------------------------------------------------------------
(* What a module is blamed on.                                              *)

\* The activations of check are a path through the graph, of valid modules.
StackInv == phase = "checking" =>
    /\ stack # <<>> /\ stack[1].mid = 0
    /\ \A i \in 2 .. Len(stack) :
          /\ stack[i].mid \in Id /\ stack[i].mid \in Made /\ ~Dirty(stack[i].mid)
          /\ stack[i].todo \subseteq m_deps[stack[i].mid]
          /\ \A j \in 2 .. i : stack[i].mid \in Reach(stack[j].mid)

UnmadeClean == \A x \in Id : x > mid_count => ~Dirty(x)

BlameInv == StackInv /\ UnmadeClean /\ BlameIsReachable

\* Where dependencies are only added, what was reached is still reached.
LEMMA ReachGrows ==
    ASSUME \A x \in Id : m_deps[x] \subseteq m_deps'[x], NEW r
    PROVE  Reach(r) \subseteq Reach(r)'
BY DEF Reach, Closed

\* Dependencies are only added.
LEMMA DepsGrow ==
    ASSUME Base, [Next]_vars
    PROVE  \A x \in Id : m_deps[x] \subseteq m_deps'[x]
<1>1. ASSUME NEW c \in Obj, NEW d \in Id, m_deps' = WithDependency(c, d)
      PROVE  \A x \in Id : m_deps[x] \subseteq m_deps'[x]
  BY <1>1, OneDependency, Ids DEF Base
<1>. QED BY <1>1, DepsStay

\* What a reached module reaches is reached.
LEMMA ReachTransitive ==
    ASSUME TypeOK, NEW m \in Id, NEW x \in Reach(m)
    PROVE  Reach(x) \subseteq Reach(m)
<1>1. Reach(m) \in SUBSET Id /\ x \in Id /\ Closed(Reach(m))
  BY ReachProperties DEF Closed
<1>. QED BY <1>1, ReachProperties

\* The module check looks at next is below all that are being checked.
LEMMA NextReached ==
    ASSUME Base, StackInv, NEW d \in Id, IsNext(d)
    PROVE  \A i \in 2 .. Len(stack) : d \in Reach(stack[i].mid)
<1>. DEFINE n == Len(stack)
<1>1. phase = "checking" /\ d \in stack[n].todo /\ n \in 1 .. n
  BY TopIsFrame DEF IsNext, Top, Base
<1>. SUFFICES ASSUME NEW i \in 2 .. n PROVE d \in Reach(stack[i].mid)
  OBVIOUS
<1>2. n \in 2 .. n
  BY <1>1
<1>3. stack[n].mid \in Reach(stack[i].mid) /\ d \in m_deps[stack[n].mid] /\ stack[i].mid \in Id
  BY <1>1, <1>2 DEF StackInv
<1>. QED BY <1>3, ReachProperties DEF Base

\* check goes along dependencies, through modules that are not dirty.
LEMMA StackStep ==
    ASSUME Base, TypeOK', StackInv, [Next]_vars
    PROVE  StackInv'
<1>. USE DEF diskVars, parserVars, objectVars, serverVars, typerVars
<1>. DEFINE n == Len(stack)
<1>0. phase' # "checking" => StackInv'
  BY DEF StackInv
<1>1. ASSUME UNCHANGED <<phase, stack, mid_count, m_dirty, m_deps>> PROVE StackInv'
  <2>1. \A r : Reach(r)' = Reach(r)
    BY <1>1, ReachSame
  <2>2. \A i, j \in 2 .. n : Reach(stack[j].mid)' = Reach(stack[j].mid)
    BY <1>1, <2>1 DEF Reach, Closed
  <2>. QED BY <1>1, <2>2 DEF StackInv, Dirty, Made
<1>2. ASSUME NEW p \in Path, NEW d \in Decl \cup {NoDecl}, Edit(p, d) PROVE StackInv'
  BY <1>2, <1>1 DEF Edit
<1>3. ASSUME NEW p \in DisplayRequests, StartDisplay(p) \/ Invalidate(p) PROVE StackInv'
  BY <1>3, <1>0 DEF StartDisplay, Invalidate, CanServe
<1>4. ASSUME NEW c \in Obj, NEW p \in Path, LoadKnown(c, p) PROVE StackInv'
  BY <1>4, <1>0 DEF LoadKnown
<1>5. ASSUME NEW c \in Obj, NEW p \in Path, LookUp(c, p) PROVE StackInv'
  <2>1. CASE modules[p] = 0
    BY <1>5, <1>0, <2>1 DEF LookUp
  <2>2. CASE modules[p] # 0
    <3>1. stack' = <<[mid |-> 0, todo |-> {modules[p]}]>>
      BY <1>5, <2>2 DEF LookUp
    <3>2. stack' # <<>> /\ stack'[1].mid = 0 /\ Len(stack') = 1 /\ 2 .. 1 = {}
      BY <3>1
    <3>. QED BY <3>2 DEF StackInv
  <2>. QED BY <2>1, <2>2
\* A stack of frames with the modules of the old ones, and less to check.
<1>6. ASSUME phase = "checking", UNCHANGED <<mid_count, m_dirty, m_deps>>, stack' # <<>>,
             Len(stack') \in 1 .. n,
             \A i \in 1 .. Len(stack') : /\ stack'[i].mid = stack[i].mid
                                         /\ stack'[i].todo \subseteq stack[i].todo
      PROVE  StackInv'
  <2>1. 1 \in 1 .. Len(stack') /\ 2 .. Len(stack') \subseteq 1 .. Len(stack')
        /\ 2 .. Len(stack') \subseteq 2 .. n
    <3>1. n \in Nat
      BY DEF Base, TypeOK
    <3>2. \A k \in 1 .. n : 1 \in 1 .. k /\ 2 .. k \subseteq 1 .. k /\ 2 .. k \subseteq 2 .. n
      BY <3>1
    <3>. QED BY <1>6, <3>2
  <2>2. \A i \in 2 .. Len(stack') : i \in Int /\ \A j \in 2 .. i : j \in 2 .. Len(stack')
    BY <1>6
  <2>3. \A r : Reach(r)' = Reach(r)
    BY <1>6, ReachSame
  <2>4. ASSUME NEW i \in 2 .. Len(stack')
        PROVE  /\ stack'[i].mid \in Id /\ stack'[i].mid \in Made' /\ ~Dirty(stack[i].mid)'
               /\ stack'[i].todo \subseteq m_deps'[stack'[i].mid]
               /\ \A j \in 2 .. i : stack'[i].mid \in Reach(stack[j].mid)'
    <3>1. /\ stack[i].mid \in Id /\ stack[i].mid \in Made /\ ~Dirty(stack[i].mid)
          /\ stack[i].todo \subseteq m_deps[stack[i].mid]
          /\ \A j \in 2 .. i : stack[i].mid \in Reach(stack[j].mid)
      BY <1>6, <2>1 DEF StackInv
    <3>2. ASSUME NEW j \in 2 .. i PROVE stack'[i].mid \in Reach(stack[j].mid)'
      <4>1. stack'[j].mid = stack[j].mid /\ stack'[i].mid = stack[i].mid
        BY <1>6, <2>1, <2>2
      <4>2. Reach(stack[j].mid)' = Reach(stack[j].mid)
        BY <1>6, <4>1 DEF Reach, Closed
      <4>. QED BY <3>1, <4>1, <4>2
    <3>. QED BY <1>6, <2>1, <3>1, <3>2 DEF Dirty, Made
  <2>. QED BY <1>6, <2>1, <2>4 DEF StackInv
<1>7. ASSUME NEW d \in Id, CheckMarked(d) PROVE StackInv'
  <2>1. /\ phase = "checking" /\ stack # <<>> /\ stack' = Tick(d)
        /\ UNCHANGED <<mid_count, m_dirty, m_deps>>
    BY <1>7 DEF CheckMarked, IsNext
  <2>2. /\ Len(stack') = n /\ n \in 1 .. n
        /\ \A i \in 1 .. n : stack'[i] = IF i = n THEN [mid |-> Top.mid, todo |-> Top.todo \ {d}]
                                                  ELSE stack[i]
    BY <2>1, TickType, TopIsFrame DEF Base
  <2>3. \A i \in 1 .. n : stack'[i].mid = stack[i].mid /\ stack'[i].todo \subseteq stack[i].todo
    BY <2>2 DEF Top
  <2>4. stack' # <<>>
    BY <2>2
  <2>. QED BY <1>6, <2>1, <2>2, <2>3, <2>4
<1>8. CASE CheckReturn
  <2>1. /\ phase = "checking" /\ n > 1 /\ stack' = SubSeq(stack, 1, n - 1)
        /\ UNCHANGED <<mid_count, m_dirty, m_deps>>
    BY <1>8 DEF CheckReturn
  <2>2. Len(stack') = n - 1 /\ (\A i \in 1 .. n - 1 : stack'[i] = stack[i])
    BY <2>1, ReturnType DEF Base
  <2>3. n \in Nat
    BY DEF Base, TypeOK
  <2>4. n - 1 \in 1 .. n
    BY <2>1, <2>3
  <2>5. stack' # <<>>
    BY <2>2, <2>4
  <2>. QED BY <1>6, <2>1, <2>2, <2>4, <2>5
<1>9. ASSUME NEW d \in Id, CheckEnter(d) PROVE StackInv'
  <2>1. /\ phase = "checking" /\ stack # <<>> /\ IsNext(d) /\ ~Dirty(d)
        /\ stack' = Append(Tick(d), [mid |-> d, todo |-> DepsToCheck(d)])
        /\ UNCHANGED <<mid_count, m_dirty, m_deps>>
    BY <1>9 DEF CheckEnter, IsNext, Dirty
  <2>2. DepsToCheck(d) \in SUBSET Id /\ DepsToCheck(d) \subseteq m_deps[d]
    BY Ids DEF DepsToCheck, Base, TypeOK
  <2>3. /\ Len(stack') = n + 1 /\ n \in 1 .. n
        /\ \A i \in 1 .. n : stack'[i] = Tick(d)[i]
        /\ stack'[n + 1] = [mid |-> d, todo |-> DepsToCheck(d)]
    BY <2>1, <2>2, EnterType, TopIsFrame DEF Base
  <2>4. \A i \in 1 .. n : Tick(d)[i] = IF i = n THEN [mid |-> Top.mid, todo |-> Top.todo \ {d}]
                                                ELSE stack[i]
    BY <2>1, TickType DEF Base
  <2>5. \A i \in 1 .. n : stack'[i].mid = stack[i].mid /\ stack'[i].todo \subseteq stack[i].todo
    BY <2>3, <2>4 DEF Top
  <2>6. stack'[n + 1].mid = d /\ stack'[n + 1].todo \subseteq m_deps[d]
    BY <2>2, <2>3
  <2>7. /\ \A i \in 2 .. n + 1 : i = n + 1 \/ i \in 2 .. n
        /\ 1 \in 1 .. n /\ 2 .. n \subseteq 1 .. n /\ stack' # <<>>
        /\ \A i \in 2 .. n : \A j \in 2 .. i : j \in 2 .. n
    BY <2>3
  <2>8. d \in Made /\ d \in Reach(d) /\ \A i \in 2 .. n : d \in Reach(stack[i].mid)
    BY <2>1, NextMade, NextReached, ReachProperties DEF Base
  <2>9. \A i \in 1 .. n + 1 : Reach(stack[i].mid)' = Reach(stack'[i].mid)
    BY <2>1 DEF Reach, Closed
  <2>10. ASSUME NEW i \in 2 .. n
         PROVE  /\ stack'[i].mid \in Id /\ stack'[i].mid \in Made' /\ m_dirty'[stack'[i].mid] = NoPath
                /\ stack'[i].todo \subseteq m_deps'[stack'[i].mid]
                /\ \A j \in 2 .. i : stack'[i].mid \in Reach(stack'[j].mid)
    <3>1. /\ stack[i].mid \in Id /\ stack[i].mid \in Made /\ ~Dirty(stack[i].mid)
          /\ stack[i].todo \subseteq m_deps[stack[i].mid]
          /\ \A j \in 2 .. i : stack[i].mid \in Reach(stack[j].mid)
      BY <2>1 DEF StackInv
    <3>. QED BY <2>1, <2>5, <2>7, <3>1 DEF Dirty, Made
  <2>11. /\ stack'[n + 1].mid \in Id /\ stack'[n + 1].mid \in Made'
         /\ m_dirty'[stack'[n + 1].mid] = NoPath
         /\ stack'[n + 1].todo \subseteq m_deps'[stack'[n + 1].mid]
         /\ \A j \in 2 .. n + 1 : stack'[n + 1].mid \in Reach(stack'[j].mid)
    BY <2>1, <2>5, <2>6, <2>7, <2>8 DEF Dirty, Made
  <2>12. ASSUME NEW i \in 2 .. n + 1
         PROVE  /\ stack'[i].mid \in Id /\ stack'[i].mid \in Made' /\ m_dirty'[stack'[i].mid] = NoPath
                /\ stack'[i].todo \subseteq m_deps'[stack'[i].mid]
                /\ \A j \in 2 .. i : stack'[i].mid \in Reach(stack'[j].mid)
    BY <2>7, <2>10, <2>11
  <2>13. \A i \in 2 .. n + 1 : \A j \in 2 .. i : j \in 1 .. n + 1
    BY <2>3
  <2>14. stack'[1].mid = 0
    BY <2>1, <2>5, <2>7 DEF StackInv
  <2>. QED BY <2>3, <2>7, <2>9, <2>12, <2>13, <2>14 DEF StackInv, Dirty
<1>10. ASSUME NEW d \in Id, CheckChanged(d) \/ CheckDirty(d) PROVE StackInv'
  BY <1>10, <1>0 DEF CheckChanged, CheckDirty, RaiseDirty
<1>11. StartBuild \/ CheckDone \/ ForgetDisplayFile \/ ParseModule \/ MakeModule => StackInv'
  BY <1>0 DEF StartBuild, CheckDone, ForgetDisplayFile, ParseModule, MakeModule
<1>12. Finish \/ BuildFails \/ EndDisplay \/ ExploreClassPaths => StackInv'
  BY <1>0 DEF Finish, BuildFails, EndDisplay, ExploreClassPaths, EndRequest
<1>13. UNCHANGED vars => StackInv'
  BY <1>1 DEF vars
<1>. QED
  BY <1>2, <1>3, <1>4, <1>5, <1>7, <1>8, <1>9, <1>10, <1>11, <1>12, <1>13
     DEF Next, Client, Serve, Load, Check, WaitLoop

\* An object that does not exist yet is not dirty.
LEMMA UnmadeCleanStep ==
    ASSUME Base, StackInv, UnmadeClean, [Next]_vars
    PROVE  UnmadeClean'
<1>. USE DEF diskVars, parserVars, objectVars, serverVars, typerVars
<1>0. mid_count \in Nat /\ \A x \in Id : x \in Nat /\ x \in Obj /\ x # 0
  BY Ids, ConstantsAssumption DEF Base, TypeOK, Obj, Id
<1>1. mid_count' \in {mid_count, mid_count + 1}
  BY PathsStay
<1>2. ASSUME \A x \in Id : Dirty(x)' => Dirty(x) \/ x \in Made PROVE UnmadeClean'
  BY <1>0, <1>1, <1>2 DEF UnmadeClean, Made
<1>3. ASSUME NEW p \in Path, m_dirty' = Tainted(p) PROVE UnmadeClean'
  <2>1. ASSUME NEW x \in Id, Dirty(x)' PROVE Dirty(x) \/ x \in Made
    BY <1>0, <1>3, <2>1 DEF Tainted, Dirty, Base, RefsMade
  <2>. QED BY <1>2, <2>1
<1>4. UNCHANGED m_dirty => UnmadeClean'
  BY <1>2 DEF Dirty
<1>5. ASSUME NEW d \in Id, CheckChanged(d) \/ CheckDirty(d) PROVE UnmadeClean'
  <2>1. d \in Made /\ phase = "checking" /\ stack # <<>>
    BY <1>5, NextMade DEF CheckChanged, CheckDirty, IsNext, Base
  <2>2. \A i \in 1 .. Len(stack) : i = 1 \/ i \in 2 .. Len(stack)
    BY DEF Base, TypeOK
  <2>3. ASSUME NEW x \in Id, NEW i \in 1 .. Len(stack), stack[i].mid = x PROVE x \in Made
    BY <1>0, <2>1, <2>2, <2>3 DEF StackInv
  <2>4. ASSUME NEW x \in Id, Dirty(x)' PROVE Dirty(x) \/ x \in Made
    <3>1. PICK ms \in SUBSET {d} : \E path : RaiseDirty(ms, path)
      BY <1>5 DEF CheckChanged, CheckDirty
    <3>2. PICK path : RaiseDirty(ms, path)
      BY <3>1
    <3>. QED BY <1>0, <2>1, <2>3, <2>4, <3>2 DEF RaiseDirty, Dirty
  <2>. QED BY <1>2, <2>4
<1>. QED BY <1>3, <1>4, <1>5, DirtyChanges

\* Blame is passed up along what is reached, and what is blamed stays dirty.
LEMMA BlameStep ==
    ASSUME Base, BlameInv, [Next]_vars
    PROVE  BlameIsReachable'
<1>. DEFINE Blames(m, x) == m_path[x] = m_dirty[m] /\ m_dirty[x] = m_path[x]
<1>0. \A m \in 1 .. mid_count : m \in Id /\ m \in Made /\ m \in Obj /\ m # 0
  BY ConstantsAssumption DEF Base, TypeOK, Obj, Id, Made
<1>1. \A m \in 1 .. mid_count : \A x \in Reach(m) :
         /\ x \in Id /\ x \in Made /\ x \in Obj /\ m_path[x] \in Path
         /\ m_path'[x] = m_path[x] /\ x \in Reach(m)'
  BY <1>0, ReachMade, MadePaths, DepsGrow, ReachGrows
<1>2. \A m \in 1 .. mid_count : Dirty(m) => \E x \in Reach(m) : Blames(m, x)
  BY DEF BlameInv, BlameIsReachable, Dirty
<1>3. ASSUME \A m \in 1 .. mid_count : Dirty(m)' =>
                \E x \in Reach(m) : m_path[x] = m_dirty'[m] /\ m_dirty'[x] = m_path[x],
             mid_count' = mid_count \/ UNCHANGED m_dirty
      PROVE  BlameIsReachable'
  <2>1. ASSUME NEW m \in 1 .. mid_count', m_dirty'[m] # NoPath PROVE m \in 1 .. mid_count
    <3>1. CASE mid_count' = mid_count
      BY <3>1
    <3>2. CASE mid_count' # mid_count
      <4>1. mid_count \in Nat /\ mid_count' = mid_count + 1 /\ mid_count + 1 \in Id
        BY <3>2, PathsStay
      <4>2. m_dirty[mid_count + 1] = NoPath
        BY <4>1 DEF BlameInv, UnmadeClean, Dirty
      <4>. QED BY <1>3, <2>1, <3>2, <4>1, <4>2
    <3>. QED BY <3>1, <3>2
  <2>2. ASSUME NEW m \in 1 .. mid_count', m_dirty'[m] # NoPath
        PROVE  \E x \in Reach(m)' : m_path'[x] = m_dirty'[m] /\ m_dirty'[x] = m_path'[x]
    <3>1. m \in 1 .. mid_count
      BY <2>1, <2>2
    <3>2. PICK x \in Reach(m) : m_path[x] = m_dirty'[m] /\ m_dirty'[x] = m_path[x]
      BY <1>3, <2>2, <3>1 DEF Dirty
    <3>3. m_path'[x] = m_path[x] /\ x \in Reach(m)'
      BY <1>1, <3>1
    <3>. QED BY <3>2, <3>3
  <2>. QED BY <2>2 DEF BlameIsReachable
<1>4. CASE UNCHANGED m_dirty
  BY <1>2, <1>3, <1>4 DEF Dirty
<1>5. ASSUME NEW p \in Path, UNCHANGED mid_count, m_dirty' = Tainted(p) PROVE BlameIsReachable'
  <2>1. \A x \in Obj : m_dirty'[x] = IF x # 0 /\ m_path[x] = p /\ modules[p] = x THEN p ELSE m_dirty[x]
    BY <1>5 DEF Tainted
  <2>2. ASSUME NEW m \in 1 .. mid_count, Dirty(m)'
        PROVE  \E x \in Reach(m) : m_path[x] = m_dirty'[m] /\ m_dirty'[x] = m_path[x]
    <3>1. CASE m_path[m] = p /\ modules[p] = m
      BY <1>0, <2>1, <3>1, ReachProperties DEF Base
    <3>2. CASE ~(m_path[m] = p /\ modules[p] = m)
      <4>1. m_dirty'[m] = m_dirty[m] /\ Dirty(m)
        BY <1>0, <2>1, <2>2, <3>2 DEF Dirty
      <4>2. PICK x \in Reach(m) : Blames(m, x)
        BY <1>2, <4>1
      <4>3. m_dirty'[x] = m_path[x]
        BY <1>1, <2>1, <4>2
      <4>. QED BY <4>1, <4>2, <4>3
    <3>. QED BY <3>1, <3>2
  <2>. QED BY <1>3, <1>5, <2>2
\* Every module that is blamed now reaches d, and none of them was dirty.
<1>6. ASSUME NEW d \in Id, CheckChanged(d) \/ CheckDirty(d) PROVE BlameIsReachable'
  <2>1. /\ phase = "checking" /\ stack # <<>> /\ IsNext(d) /\ UNCHANGED mid_count
        /\ d \in Made /\ d \in Obj /\ d # 0
    BY <1>6, NextMade, Ids DEF CheckChanged, CheckDirty, IsNext, Base, objectVars
  <2>0. PICK ms \in SUBSET {d} : \E path :
           /\ RaiseDirty(ms, path)
           /\ \/ ms = {d} /\ path = m_path[d] /\ ~Dirty(d)
              \/ ms = {} /\ path = m_dirty[d] /\ Dirty(d)
    BY <1>6 DEF CheckChanged, CheckDirty, Dirty
  <2>2. PICK path :
           /\ RaiseDirty(ms, path)
           /\ \/ ms = {d} /\ path = m_path[d] /\ ~Dirty(d)
              \/ ms = {} /\ path = m_dirty[d] /\ Dirty(d)
    BY <2>0
  <2>. DEFINE Hit(m) == m \in ms \/ \E i \in 2 .. Len(stack) : stack[i].mid = m
  <2>3. \A m \in Obj : m # 0 => m_dirty'[m] = IF Hit(m) THEN path ELSE m_dirty[m]
    <3>1. stack[1].mid = 0
      BY <2>1 DEF BlameInv, StackInv
    <3>2. \A i \in 1 .. Len(stack) : i = 1 \/ i \in 2 .. Len(stack)
      BY DEF Base, TypeOK
    <3>3. \A i \in 2 .. Len(stack) : i \in 1 .. Len(stack)
      BY DEF Base, TypeOK
    <3>. QED BY <2>2, <3>1, <3>2, <3>3 DEF RaiseDirty
  <2>4. \A m \in Id : Hit(m) => ~Dirty(m) /\ d \in Reach(m)
    <3>1. ASSUME NEW m \in ms PROVE m = d /\ ~Dirty(m) /\ d \in Reach(m)
      BY <2>2, ReachProperties DEF Base
    <3>2. \A i \in 2 .. Len(stack) : ~Dirty(stack[i].mid) /\ d \in Reach(stack[i].mid)
      BY <2>1, NextReached DEF BlameInv, StackInv
    <3>. QED BY <3>1, <3>2
  <2>5. d \in 1 .. mid_count
    BY <2>1, ConstantsAssumption DEF Made, Base, TypeOK, Obj, Id
  <2>6. \E x \in Reach(d) : m_path[x] = path /\ m_dirty'[x] = m_path[x]
    <3>1. CASE ms = {d} /\ path = m_path[d]
      BY <2>1, <2>3, <3>1, ReachProperties DEF Base
    <3>2. CASE path = m_dirty[d] /\ Dirty(d)
      <4>1. PICK x \in Reach(d) : Blames(d, x)
        BY <1>2, <2>5, <3>2
      <4>2. x \in Id /\ x \in Obj /\ x # 0 /\ Dirty(x)
        BY <1>1, <2>5, <3>2, <4>1, Ids DEF Dirty
      <4>. QED BY <2>3, <2>4, <3>2, <4>1, <4>2
    <3>. QED BY <2>2, <3>1, <3>2
  <2>7. ASSUME NEW m \in 1 .. mid_count, Dirty(m)'
        PROVE  \E x \in Reach(m) : m_path[x] = m_dirty'[m] /\ m_dirty'[x] = m_path[x]
    <3>1. CASE Hit(m)
      <4>1. Reach(d) \subseteq Reach(m) /\ m_dirty'[m] = path
        BY <1>0, <2>3, <2>4, <3>1, ReachTransitive DEF Base
      <4>. QED BY <2>6, <4>1
    <3>2. CASE ~Hit(m)
      <4>1. m_dirty'[m] = m_dirty[m] /\ Dirty(m)
        BY <1>0, <2>3, <2>7, <3>2 DEF Dirty
      <4>2. PICK x \in Reach(m) : Blames(m, x)
        BY <1>2, <4>1
      <4>3. x \in Id /\ x \in Obj /\ x # 0 /\ Dirty(x)
        BY <1>1, <4>1, <4>2, Ids DEF Dirty
      <4>4. m_dirty'[x] = m_dirty[x]
        BY <2>3, <2>4, <4>3
      <4>. QED BY <4>1, <4>2, <4>4
    <3>. QED BY <3>1, <3>2
  <2>. QED BY <1>3, <2>1, <2>7
<1>. QED BY <1>4, <1>5, <1>6, DirtyChanges

-----------------------------------------------------------------------------
(* Theorems.                                                                *)

GraphIInv == Base /\ WalkInv /\ GraphInv

\* The cache starts empty.
LEMMA GraphInit == Init => GraphIInv
<1>. SUFFICES ASSUME Init PROVE GraphIInv
  OBVIOUS
<1>1. Base /\ WalkInv
  BY InitType, RefsMadeInit, WalkInvInit DEF Init, Base, TargetIsCached
<1>2. 0 \in Obj /\ 0 \in Nat /\ 1 .. 0 = {}
  BY Ids
<1>3. Older(0)
  BY <1>2 DEF Init, Older
<1>4. Unmade /\ Named /\ Superseded /\ TargetInv /\ AddedInv
  BY Ids DEF Init, Unmade, Named, Superseded, TargetInv, AddedInv, Loading
<1>5. OneObjectPerPath /\ CachedGraphIsCoherent
  BY DEF Init, OneObjectPerPath, CachedGraphIsCoherent
<1>. QED BY <1>1, <1>2, <1>3, <1>4, <1>5 DEF GraphIInv, GraphInv

\* The inductive step of the three theorems that follow.
LEMMA GraphStep ==
    ASSUME ChecksDependencies, GraphIInv, [Next]_vars
    PROVE  GraphIInv'
<1>1. Base /\ WalkInv /\ GraphInv /\ ReusedGraphIsClean
  BY WalkIsComplete DEF GraphIInv, Base
<1>2. Base'
  BY <1>1, NextType, TargetStep, RefsMadeStep DEF Base
<1>3. WalkInv'
  BY <1>1, WalkStep DEF Base
<1>4. \E k \in Obj : Older(k)'
  BY <1>1, <1>2, OlderStep DEF GraphInv, Base
<1>5. Unmade' /\ Named' /\ Superseded' /\ TargetInv' /\ AddedInv'
  BY <1>1, UnmadeStep, NamedStep, SupersededStep, TargetInvStep, AddedInvStep DEF GraphInv
<1>6. OneObjectPerPath' /\ CachedGraphIsCoherent'
  BY <1>1, <1>2, OneObjectStep, CoherentStep DEF Base
<1>. QED BY <1>2, <1>3, <1>4, <1>5, <1>6 DEF GraphIInv, GraphInv

\* A compilation never mixes two objects of one path, whatever it takes from the
\* cache, in whatever order the typer loads modules and whatever files change.
THEOREM OneObject ==
    ASSUME ChecksDependencies
    PROVE  Spec => []OneObjectPerPath
<1>1. GraphIInv /\ [Next]_vars => GraphIInv'
  BY GraphStep
<1>2. GraphIInv => OneObjectPerPath
  BY DEF GraphIInv, GraphInv
<1>. QED BY <1>1, <1>2, GraphInit, PTL DEF Spec

\* A cached module with nothing dirty below it depends on cached objects only.
THEOREM CacheIsCoherent ==
    ASSUME ChecksDependencies
    PROVE  Spec => []CachedGraphIsCoherent
<1>1. GraphIInv /\ [Next]_vars => GraphIInv'
  BY GraphStep
<1>2. GraphIInv => CachedGraphIsCoherent
  BY DEF GraphIInv, GraphInv
<1>. QED BY <1>1, <1>2, GraphInit, PTL DEF Spec

\* cache_module replaces only an object that has been found dirty.
THEOREM ReplacedIsDirty ==
    ASSUME ChecksDependencies
    PROVE  Spec => SupersededIsDirty
<1>1. GraphIInv /\ [Next]_vars => GraphIInv'
  BY GraphStep
<1>2. GraphIInv /\ [Next]_vars =>
        [\A p \in Path : modules[p] # 0 /\ modules'[p] # modules[p]
                           => m_dirty[modules[p]] # NoPath]_vars
  <2>. SUFFICES ASSUME GraphIInv, [Next]_vars, NEW p \in Path,
                       modules[p] # 0, modules'[p] # modules[p]
                PROVE  m_dirty[modules[p]] # NoPath
    OBVIOUS
  <2>1. modules' = [q \in Path |-> IF g_modules[q] # 0 THEN g_modules[q] ELSE modules[q]]
    BY TablesStay DEF GraphIInv
  <2>2. g_modules[p] # 0 /\ g_modules[p] # modules[p]
    BY <2>1
  <2>. QED BY <2>2 DEF GraphIInv, GraphInv, Superseded, Dirty
<1>. QED BY <1>1, <1>2, GraphInit, PTL DEF Spec, SupersededIsDirty

\* Whatever is skipped is skipped because of something it depends on, which was
\* itself found invalid; under any policies, also "NoCheckDependencies".
THEOREM BlameIsFair == Spec => []BlameIsReachable
<1>. DEFINE Inv == Base /\ BlameInv
<1>1. Init => Inv
  <2>1. Init => Base
    BY InitType, RefsMadeInit DEF Init, Base, TargetIsCached
  <2>2. Init => StackInv /\ UnmadeClean
    BY Ids DEF Init, StackInv, UnmadeClean, Dirty
  <2>3. Init => BlameIsReachable
    <3>1. 1 .. 0 = {}
      OBVIOUS
    <3>. QED BY <3>1 DEF Init, BlameIsReachable
  <2>. QED BY <2>1, <2>2, <2>3 DEF BlameInv
<1>2. Inv /\ [Next]_vars => Inv'
  <2>. SUFFICES ASSUME Inv, [Next]_vars PROVE Inv'
    OBVIOUS
  <2>1. Base'
    BY NextType, TargetStep, RefsMadeStep DEF Base
  <2>2. BlameInv'
    BY <2>1, StackStep, UnmadeCleanStep, BlameStep DEF BlameInv, Base
  <2>. QED BY <2>1, <2>2
<1>3. Inv => BlameIsReachable
  BY DEF BlameInv
<1>. QED BY <1>1, <1>2, <1>3, PTL DEF Spec
=============================================================================
