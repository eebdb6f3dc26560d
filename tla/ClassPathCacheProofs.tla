------------------------ MODULE ClassPathCacheProofs ------------------------
(***************************************************************************)
(* Theorems about ClassPathCache: for any class paths, packages, programs    *)
(* and edits, a file that shadows the one a cached module was typed from is  *)
(* found by the next request, but for the cases ShadowIsFound names.         *)
(***************************************************************************)
EXTENDS ClassPathCache, SequenceTheorems, WellFoundedInduction, TLAPS

-----------------------------------------------------------------------------
(* The invariant.                                                           *)

File == Root \X Module

\* Added files the server will hear of, has heard of, or has missed.
Known == news \cup told \cup lost

\* The class path has r in front of s.
Earlier(r, s) ==
    \E i \in DOMAIN class_paths :
        /\ class_paths[i] = r
        /\ \A j \in DOMAIN class_paths : class_paths[j] = s => i < j

\* e is what the class path finds for m, but for files that are known.
Covered(m, e) ==
    \/ m \in foreign
    \/ /\ \E i \in DOMAIN class_paths : class_paths[i] = e.root
       /\ \A r \in Root : Exists(r, m) /\ Earlier(r, e.root) => <<r, m>> \in Known

Real(e) == e # NotFound => e.root \in Root /\ 0 < e.time /\ e.time <= clock

ClockInv ==
    /\ \A f \in File : file_time[f] <= clock
    /\ \A d \in Dir : st_mtime[d] <= clock /\ directories[d] <= clock
    /\ \A m \in Module : Real(modules[m]) /\ Real(loaded[m])

\* Directories wait to be recorded only when none is.
RecordInv ==
    /\ phase # "idle" => class_paths \in ClassPaths
    /\ delays # <<>> => \A d \in Dir : directories[d] = 0
    /\ ~aborted => /\ delays \in {<<>>, <<class_paths>>}
                   /\ phase = "idle" \/ ~recorded => delays = <<>>

\* The next look at the directories shows what is new, and it is newer than what is
\* cached or loaded, or lost.
NewsInv ==
    \A f \in news :
        /\ f[2] \notin InPackage /\ file_time[f] > 0
        /\ 0 < directories[<<f[1], FALSE>>]
        /\ directories[<<f[1], FALSE>>] < st_mtime[<<f[1], FALSE>>]
        /\ f \notin lost => /\ Cached(f[2]) => file_time[f] > modules[f[2]].time
                            /\ loaded[f[2]] # NotFound => file_time[f] > loaded[f[2]].time

\* What the request has been told of is in a directory it takes for changed.
ToldInv ==
    \A f \in told :
        /\ determined /\ phase = "typing"
        /\ f[2] \notin InPackage /\ <<f[1], FALSE>> \in changed_directories
        /\ f \notin lost => /\ Cached(f[2]) => file_time[f] > modules[f[2]].time
                            /\ loaded[f[2]] = NotFound

ReadInv ==
    \A r \in Root, m \in Module :
        DirOf(r, m) \in DOMAIN readdir_cache /\ m \notin readdir_cache[DirOf(r, m)] /\ Exists(r, m)
            => <<r, m>> \in Known

CoverInv ==
    \A m \in Module : /\ Cached(m) => Covered(m, modules[m])
                      /\ loaded[m] # NotFound => Covered(m, loaded[m])

\* As long as nothing has changed since the request began.
QuietInv ==
    quiet /\ phase = "typing" =>
        /\ determined => news = {}
        /\ \A r \in Root, m \in Module :
              DirOf(r, m) \in DOMAIN readdir_cache => (m \in readdir_cache[DirOf(r, m)] <=> Exists(r, m))
        /\ \A m \in Module : loaded[m] # NotFound =>
              /\ file_time[<<loaded[m].root, m>>] = loaded[m].time
              /\ \A f \in news : f[2] # m

PendingInv == \A m \in pending : loaded[m] = NotFound

\* ShadowIsFound, before the delays have run too.
ResultInv ==
    phase # "typing" /\ quiet /\ built # Failed =>
        \A m \in Module : built[m] # NotFound =>
            /\ file_time[<<built[m].root, m>>] = built[m].time
            /\ built[m].root = First(m) \/ <<First(m), m>> \in lost \/ m \in foreign

Inv == /\ TypeOK /\ ClockInv /\ RecordInv /\ RecordFitsClassPath
       /\ NewsInv /\ ToldInv /\ ReadInv /\ CoverInv /\ QuietInv /\ PendingInv /\ ResultInv

-----------------------------------------------------------------------------
(* Class paths and directories.                                             *)

\* A nonempty set of numbers has the least element Min chooses.
LEMMA MinOfNat ==
    ASSUME NEW S, S \subseteq Nat, S # {}
    PROVE  Min(S) \in S /\ \A y \in S : Min(S) <= y
<1>. DEFINE Less == {ss \in Nat \X Nat : ss[1] < ss[2]}
<1>1. IsWellFoundedOn(Less, Nat)
  BY NatLessThanWellFounded DEF OpToRel
<1>2. PICK x \in S : \A y \in S : ~(<<y, x>> \in Less)
  BY <1>1, WFMin
<1>3. ASSUME NEW y \in S PROVE x <= y
  <2>1. x \in Nat /\ y \in Nat
    OBVIOUS
  <2>2. ~(y < x)
    BY <1>2, <2>1
  <2>. QED BY <2>1, <2>2
<1>. QED BY <1>3 DEF Min

\* What is found first is in front of everything else that has the module.
LEMMA FirstIsEarlier ==
    ASSUME class_paths \in Seq(Root), NEW m \in Module, NEW s \in Root, Exists(s, m),
           NEW k \in DOMAIN class_paths, class_paths[k] = s
    PROVE  First(m) \in Root /\ (First(m) = s \/ (Exists(First(m), m) /\ Earlier(First(m), s)))
<1>. DEFINE Has == {i \in DOMAIN class_paths : Exists(class_paths[i], m)}
<1>1. Has \subseteq Nat /\ Has # {}
  BY LenProperties
<1>2. Min(Has) \in Has /\ \A j \in Has : Min(Has) <= j
  BY <1>1, MinOfNat
<1>3. First(m) = class_paths[Min(Has)] /\ Min(Has) \in DOMAIN class_paths
  BY <1>1, <1>2 DEF First
<1>4. First(m) \in Root /\ Exists(First(m), m)
  BY <1>2, <1>3
<1>5. ASSUME First(m) # s, NEW j \in DOMAIN class_paths, class_paths[j] = s PROVE Min(Has) < j
  <2>1. j \in Has /\ j # Min(Has)
    BY <1>3, <1>5
  <2>2. Min(Has) \in Nat /\ j \in Nat /\ Min(Has) <= j
    BY <1>1, <1>2, <2>1
  <2>. QED BY <2>1, <2>2
<1>. QED BY <1>3, <1>4, <1>5 DEF Earlier

\* The directory of a module in no package is that of the root.
LEMMA RootDirectory ==
    ASSUME NEW r, NEW m, m \notin InPackage
    PROVE  DirOf(r, m) = <<r, FALSE>>
<1>1. (m \in InPackage) = FALSE
  OBVIOUS
<1>. QED BY <1>1 DEF DirOf

\* What find_file takes a directory to hold: what was read of it, or what is there.
LEMMA EntriesOfDirectory ==
    ASSUME NEW r \in Root, NEW m \in Module
    PROVE  /\ DirOf(r, m) \in Dir /\ DirOf(r, m)[1] = r
           /\ DirOf(r, m) \notin DOMAIN readdir_cache => (m \in Entries(DirOf(r, m)) <=> Exists(r, m))
           /\ DirOf(r, m) \in DOMAIN readdir_cache =>
                 (m \in Entries(DirOf(r, m)) <=> m \in readdir_cache[DirOf(r, m)])
<1>1. DirOf(r, m) \in Dir /\ DirOf(r, m)[1] = r
  <2>1. (m \in InPackage) \in BOOLEAN
    OBVIOUS
  <2>. QED BY <2>1 DEF DirOf, Dir
<1>. QED BY <1>1 DEF Entries

\* find_file takes the first root whose directory, as it was read, has the module.
LEMMA FindFile ==
    ASSUME class_paths \in Seq(Root), NEW m \in Module, Hits(m) # {}
    PROVE  /\ find_file(m) \in Root /\ \E i \in DOMAIN class_paths : class_paths[i] = find_file(m)
           /\ m \in Entries(DirOf(find_file(m), m)) /\ Visited(m) \subseteq Dir
           /\ \A r \in Root : Earlier(r, find_file(m)) =>
                 DirOf(r, m) \in Visited(m) /\ m \notin Entries(DirOf(r, m))
<1>1. Hits(m) \subseteq Nat
  BY LenProperties DEF Hits
<1>2. Min(Hits(m)) \in Hits(m) /\ \A j \in Hits(m) : Min(Hits(m)) <= j
  BY <1>1, MinOfNat
<1>3. Min(Hits(m)) \in DOMAIN class_paths /\ m \in Entries(DirOf(find_file(m), m))
  BY <1>2 DEF Hits, find_file
<1>4. ASSUME NEW r \in Root, Earlier(r, find_file(m))
      PROVE  DirOf(r, m) \in Visited(m) /\ m \notin Entries(DirOf(r, m))
  <2>1. PICK i \in DOMAIN class_paths :
           class_paths[i] = r /\ \A j \in DOMAIN class_paths : class_paths[j] = find_file(m) => i < j
    BY <1>4 DEF Earlier
  <2>2. i < Min(Hits(m)) /\ i \in Nat /\ 1 <= i /\ Min(Hits(m)) \in Nat
    BY <1>1, <1>2, <1>3, <2>1, LenProperties DEF find_file
  <2>3. i \notin Hits(m)
    BY <1>2, <2>2
  <2>4. i \in 1 .. Min(Hits(m))
    BY <2>2
  <2>. QED BY <2>1, <2>3, <2>4 DEF Hits, Visited
<1>5. Visited(m) \subseteq Dir
  <2>1. Min(Hits(m)) \in 1 .. Len(class_paths)
    BY <1>3, LenProperties
  <2>2. \A i \in 1 .. Min(Hits(m)) : i \in DOMAIN class_paths /\ class_paths[i] \in Root
    BY <2>1, LenProperties
  <2>. QED BY <2>2, EntriesOfDirectory DEF Visited
<1>. QED BY <1>3, <1>4, <1>5 DEF find_file

-----------------------------------------------------------------------------
(* Edits.                                                                   *)

\* What the five edits have in common: times are new or stay, what is added is known,
\* and what is no longer there is forgotten.
EditEffect ==
    /\ clock' = clock + 1 /\ quiet' = FALSE
    /\ UNCHANGED <<cacheVars, dirVars, requestVars, built, foreign, aborted>>
    /\ file_time' \in [File -> Nat] /\ st_mtime' \in [Dir -> Nat]
    /\ \A f \in File : file_time'[f] \in {0, file_time[f], clock'}
    /\ \A d \in Dir : st_mtime'[d] \in {0, st_mtime[d], clock'}
    /\ news' \subseteq File /\ told' \subseteq told /\ lost' \subseteq File
    /\ \A f \in File : file_time'[f] > 0 /\ (file_time[f] = 0 \/ f \in Known) => f \in Known'
    /\ \A f \in news' \cup told' : f \in lost => f \in lost'
    /\ \A f \in told' : file_time'[f] >= file_time[f]
    /\ \A f \in news' :
          \/ /\ f \in news /\ file_time'[f] >= file_time[f]
             /\ st_mtime'[<<f[1], FALSE>>] >= st_mtime[<<f[1], FALSE>>]
          \/ /\ f[2] \notin InPackage /\ file_time'[f] = clock'
             /\ 0 < directories[<<f[1], FALSE>>] /\ st_mtime'[<<f[1], FALSE>>] = clock'

\* Every edit has the effects EditEffect lists.
LEMMA EditEffects == Inv /\ Edit => EditEffect
<1>. SUFFICES ASSUME Inv, Edit PROVE EditEffect
  OBVIOUS
<1>. USE DEF diskVars, historyVars
<1>0. /\ clock \in Nat /\ file_time \in [File -> Nat] /\ st_mtime \in [Dir -> Nat]
      /\ directories \in [Dir -> Nat]
      /\ \A f \in File : file_time[f] <= clock
      /\ \A d \in Dir : st_mtime[d] <= clock /\ directories[d] <= clock
      /\ news \subseteq File /\ told \subseteq File /\ lost \subseteq File
  BY DEF Inv, TypeOK, ClockInv, File
<1>1. /\ clock + 1 \in Nat /\ \A n \in Nat : n <= clock => clock + 1 >= n
      /\ \A n \in Nat : n >= n
  BY <1>0
<1>2. \A f \in news \cup told : f \in File /\ f[2] \notin InPackage /\ DirOf(f[1], f[2]) = <<f[1], FALSE>>
                                /\ <<f[1], FALSE>> \in Dir
  <2>1. \A f \in news \cup told : f \in File /\ f[2] \notin InPackage
    BY <1>0 DEF Inv, NewsInv, ToldInv
  <2>. QED BY <2>1, RootDirectory DEF Dir, File
<1>3. ASSUME NEW r \in Root, NEW m \in Module, Modify(r, m) PROVE EditEffect
  <2>1. /\ clock' = clock + 1 /\ quiet' = FALSE /\ file_time' = [file_time EXCEPT ![<<r, m>>] = clock']
        /\ UNCHANGED <<st_mtime, cacheVars, dirVars, requestVars, built, historyVars>>
    BY <1>3 DEF Modify, Stamp
  <2>2. <<r, m>> \in File
    BY DEF File
  <2>3. /\ file_time' \in [File -> Nat]
        /\ \A f \in File : /\ file_time'[f] \in {0, file_time[f], clock'}
                           /\ file_time'[f] >= file_time[f]
    BY <1>0, <1>1, <2>1, <2>2
  <2>4. \A d \in Dir : st_mtime'[d] \in {0, st_mtime[d], clock'} /\ st_mtime'[d] >= st_mtime[d]
    BY <1>0, <1>1, <2>1
  <2>5. \A f \in File : file_time'[f] > 0 /\ (file_time[f] = 0 \/ f \in Known) => f \in Known'
    <3>1. file_time[<<r, m>>] > 0
      BY <1>3 DEF Modify, Exists
    <3>. QED BY <1>0, <2>1, <2>2, <3>1 DEF Known
  <2>. QED BY <1>0, <1>2, <2>1, <2>3, <2>4, <2>5 DEF EditEffect
<1>4. ASSUME NEW r \in Root, NEW m \in Module, Add(r, m) PROVE EditEffect
  <2>. DEFINE d == DirOf(r, m)
  <2>1. /\ clock' = clock + 1 /\ quiet' = FALSE /\ file_time' = [file_time EXCEPT ![<<r, m>>] = clock']
        /\ st_mtime' = [st_mtime EXCEPT ![d] = clock']
        /\ UNCHANGED <<cacheVars, dirVars, requestVars, built, told, foreign, aborted>>
        /\ \/ /\ directories[d] > 0 /\ m \notin InPackage
              /\ news' = news \cup {<<r, m>>} /\ lost' = lost
           \/ lost' = lost \cup {<<r, m>>} /\ news' = news
    BY <1>4 DEF Add, Stamp
  <2>2. <<r, m>> \in File /\ d \in Dir
    BY EntriesOfDirectory DEF File
  <2>3. /\ file_time' \in [File -> Nat]
        /\ \A f \in File : /\ file_time'[f] \in {0, file_time[f], clock'}
                           /\ file_time'[f] >= file_time[f]
    BY <1>0, <1>1, <2>1, <2>2
  <2>4. /\ st_mtime' \in [Dir -> Nat]
        /\ \A e \in Dir : st_mtime'[e] \in {0, st_mtime[e], clock'} /\ st_mtime'[e] >= st_mtime[e]
    BY <1>0, <1>1, <2>1, <2>2
  <2>5. \A f \in File : file_time'[f] > 0 /\ (file_time[f] = 0 \/ f \in Known) => f \in Known'
    BY <1>0, <2>1, <2>2 DEF Known
  <2>6. m \notin InPackage => d = <<r, FALSE>>
    BY RootDirectory
  <2>7. file_time'[<<r, m>>] = clock' /\ st_mtime'[d] = clock'
    BY <1>0, <2>1, <2>2
  <2>8. \A f \in news' :
          \/ /\ f \in news /\ file_time'[f] >= file_time[f]
             /\ st_mtime'[<<f[1], FALSE>>] >= st_mtime[<<f[1], FALSE>>]
          \/ /\ f[2] \notin InPackage /\ file_time'[f] = clock'
             /\ 0 < directories[<<f[1], FALSE>>] /\ st_mtime'[<<f[1], FALSE>>] = clock'
    <3>. TAKE f \in news'
    <3>1. CASE f \in news
      BY <1>2, <2>3, <2>4, <3>1
    <3>2. CASE f \notin news
      <4>1. f = <<r, m>> /\ directories[d] > 0 /\ m \notin InPackage
        BY <2>1, <3>2
      <4>2. 0 < directories[d]
        BY <1>0, <2>2, <4>1
      <4>. QED BY <2>6, <2>7, <4>1, <4>2
    <3>. QED BY <3>1, <3>2
  <2>. QED BY <1>0, <2>1, <2>2, <2>3, <2>4, <2>5, <2>8 DEF EditEffect
<1>5. ASSUME NEW r \in Root, NEW m \in Module, Delete(r, m) PROVE EditEffect
  <2>. DEFINE d == DirOf(r, m)
  <2>1. /\ clock' = clock + 1 /\ quiet' = FALSE /\ file_time' = [file_time EXCEPT ![<<r, m>>] = 0]
        /\ st_mtime' = [st_mtime EXCEPT ![d] = clock']
        /\ UNCHANGED <<cacheVars, dirVars, requestVars, built, foreign, aborted>>
        /\ news' = news \ {<<r, m>>} /\ told' = told \ {<<r, m>>} /\ lost' = lost \ {<<r, m>>}
    BY <1>5 DEF Delete, Stamp, Forget
  <2>2. <<r, m>> \in File /\ d \in Dir
    BY EntriesOfDirectory DEF File
  <2>3. /\ file_time' \in [File -> Nat]
        /\ \A f \in File : file_time'[f] = IF f = <<r, m>> THEN 0 ELSE file_time[f]
    BY <1>0, <1>1, <2>1, <2>2
  <2>4. /\ st_mtime' \in [Dir -> Nat]
        /\ \A e \in Dir : st_mtime'[e] \in {0, st_mtime[e], clock'} /\ st_mtime'[e] >= st_mtime[e]
    BY <1>0, <1>1, <2>1, <2>2
  <2>5. \A f \in File : file_time'[f] > 0 /\ (file_time[f] = 0 \/ f \in Known) => f \in Known'
    BY <1>0, <2>1, <2>3 DEF Known
  <2>6. \A f \in news' \cup told' : f # <<r, m>> /\ f \in File /\ file_time'[f] >= file_time[f]
    BY <1>0, <1>1, <2>1, <2>3
  <2>. QED BY <1>0, <1>2, <2>1, <2>3, <2>4, <2>5, <2>6 DEF EditEffect
<1>6. ASSUME NEW d \in Dir, MakeDirectory(d) PROVE EditEffect
  <2>1. /\ clock' = clock + 1 /\ quiet' = FALSE
        /\ UNCHANGED <<file_time, cacheVars, dirVars, requestVars, built, historyVars>>
        /\ st_mtime' = [e \in Dir |-> IF e = d \/ (d[2] /\ e = <<d[1], FALSE>>) THEN clock'
                                      ELSE st_mtime[e]]
    BY <1>6 DEF MakeDirectory, Stamp
  <2>2. /\ st_mtime' \in [Dir -> Nat]
        /\ \A e \in Dir : st_mtime'[e] \in {0, st_mtime[e], clock'} /\ st_mtime'[e] >= st_mtime[e]
    BY <1>0, <1>1, <2>1
  <2>3. \A f \in File : file_time'[f] = file_time[f] /\ file_time[f] >= file_time[f]
    BY <1>0, <1>1, <2>1
  <2>4. \A f \in File : file_time'[f] > 0 /\ (file_time[f] = 0 \/ f \in Known) => f \in Known'
    BY <1>0, <2>1 DEF Known
  <2>. QED BY <1>0, <1>2, <2>1, <2>2, <2>3, <2>4 DEF EditEffect
<1>7. ASSUME NEW d \in Dir, RemoveDirectory(d) PROVE EditEffect
  <2>. DEFINE gone == {e \in Dir : e = d \/ (~d[2] /\ e[1] = d[1])}
              rest == {f \in File : DirOf(f[1], f[2]) \notin gone}
  <2>1. /\ clock' = clock + 1 /\ quiet' = FALSE
        /\ UNCHANGED <<cacheVars, dirVars, requestVars, built, foreign, aborted>>
        /\ st_mtime' = [e \in Dir |-> IF e \in gone THEN 0
                                      ELSE IF e[1] = d[1] THEN clock' ELSE st_mtime[e]]
        /\ file_time' = [f \in File |-> IF f \in rest THEN file_time[f] ELSE 0]
        /\ news' = news \ (File \ rest) /\ told' = told \ (File \ rest) /\ lost' = lost \ (File \ rest)
    BY <1>7 DEF RemoveDirectory, Stamp, Forget, File
  <2>2. \A e \in Dir : /\ st_mtime'[e] \in {0, st_mtime[e], clock'}
                       /\ e \notin gone => st_mtime'[e] >= st_mtime[e]
    BY <1>0, <1>1, <2>1
  <2>3. st_mtime' \in [Dir -> Nat] /\ file_time' \in [File -> Nat]
    BY <1>0, <1>1, <2>1
  <2>4. \A f \in File : file_time'[f] = IF f \in rest THEN file_time[f] ELSE 0
    BY <2>1
  <2>5. \A f \in File : file_time'[f] > 0 /\ (file_time[f] = 0 \/ f \in Known) => f \in Known'
    <3>. SUFFICES ASSUME NEW f \in File, file_time'[f] > 0, file_time[f] = 0 \/ f \in Known
                  PROVE  f \in Known'
      OBVIOUS
    <3>1. f \in rest /\ file_time[f] # 0
      BY <2>4
    <3>2. f \in Known
      BY <3>1
    <3>3. f \notin File \ rest
      BY <3>1
    <3>. HIDE DEF rest
    <3>. QED BY <2>1, <3>2, <3>3 DEF Known
  <2>6. \A f \in news' \cup told' : f \in rest /\ file_time'[f] >= file_time[f]
    BY <1>0, <1>1, <2>1, <2>4
  <2>7. \A f \in news' : f \in news /\ <<f[1], FALSE>> \in Dir /\ <<f[1], FALSE>> \notin gone
    BY <1>2, <2>1, <2>6
  <2>8. \A f \in news' : st_mtime'[<<f[1], FALSE>>] >= st_mtime[<<f[1], FALSE>>]
    BY <2>2, <2>7
  <2>. HIDE DEF rest, gone
  <2>. QED BY <1>0, <2>1, <2>2, <2>3, <2>4, <2>5, <2>6, <2>7, <2>8 DEF EditEffect
<1>. QED BY <1>3, <1>4, <1>5, <1>6, <1>7 DEF Edit

\* An edit of files and directories, at any moment, keeps the invariant.
LEMMA EditStep == Inv /\ Edit => Inv'
<1>. SUFFICES ASSUME Inv, Edit PROVE Inv'
  OBVIOUS
<1>. USE DEF cacheVars, dirVars, requestVars
<1>0. TypeOK /\ ClockInv /\ EditEffect
  BY EditEffects DEF Inv
<1>1. /\ clock \in Nat /\ clock' = clock + 1 /\ clock' \in Nat /\ clock <= clock' /\ clock < clock'
      /\ 0 <= clock'
  BY <1>0 DEF TypeOK, EditEffect
<1>2. \A f \in File : file_time[f] \in Nat /\ file_time'[f] \in Nat /\ file_time[f] <= clock
  BY <1>0 DEF TypeOK, ClockInv, EditEffect, File
<1>3. \A d \in Dir : /\ st_mtime[d] \in Nat /\ st_mtime'[d] \in Nat /\ st_mtime[d] <= clock
                     /\ directories[d] \in Nat /\ directories[d] <= clock
  BY <1>0 DEF TypeOK, ClockInv, EditEffect
<1>4. /\ news \subseteq File /\ told \subseteq File
      /\ \A f \in File : f[2] \in Module /\ <<f[1], FALSE>> \in Dir
  BY <1>0 DEF TypeOK, File, Dir
<1>5. /\ UNCHANGED <<modules, m_dirty, class_paths, recorded, directories, determined,
                    changed_directories, delays, phase, pending, loaded, readdir_cache, requests,
                    built, foreign, aborted>>
      /\ \A m : Cached(m)' <=> Cached(m)
  BY <1>0 DEF EditEffect, Cached
<1>6. TypeOK'
  <2>1. \A d \in Dir : directories[d] <= st_mtime[d] \/ st_mtime[d] = 0
    BY <1>0 DEF TypeOK
  <2>2. \A d \in Dir : st_mtime'[d] \in {0, st_mtime[d], clock'}
    BY <1>0 DEF EditEffect
  <2>3. ASSUME NEW d \in Dir PROVE directories'[d] <= st_mtime'[d] \/ st_mtime'[d] = 0
    <3>1. /\ st_mtime[d] \in Nat /\ directories[d] \in Nat /\ directories[d] <= clock
          /\ directories'[d] = directories[d]
      BY <1>3, <1>5
    <3>2. (directories[d] <= st_mtime[d] \/ st_mtime[d] = 0) /\ st_mtime'[d] \in {0, st_mtime[d], clock'}
      BY <2>1, <2>2
    <3>. QED BY <1>1, <3>1, <3>2
  <2>4. /\ clock' \in Nat /\ file_time' \in [Root \X Module -> Nat] /\ st_mtime' \in [Dir -> Nat]
        /\ news' \subseteq Root \X Module /\ told' \subseteq Root \X Module
        /\ lost' \subseteq Root \X Module /\ quiet' \in BOOLEAN
    BY <1>0, <1>1, <1>4 DEF EditEffect, File
  <2>. QED BY <1>0, <1>5, <2>3, <2>4 DEF TypeOK
<1>7. ClockInv'
  <2>1. \A f \in File : file_time'[f] <= clock'
    BY <1>0, <1>1, <1>2 DEF EditEffect
  <2>2. \A d \in Dir : st_mtime'[d] <= clock' /\ directories'[d] <= clock'
    BY <1>0, <1>1, <1>3, <1>5 DEF EditEffect
  <2>3. \A m \in Module : Real(modules[m])' /\ Real(loaded[m])'
    <3>. TAKE m \in Module
    <3>1. modules[m].time \in Nat /\ loaded[m].time \in Nat /\ Real(modules[m]) /\ Real(loaded[m])
      BY <1>0 DEF TypeOK, ClockInv, Found
    <3>. QED BY <1>1, <1>5, <3>1 DEF Real
  <2>. QED BY <2>1, <2>2, <2>3 DEF ClockInv
<1>8. RecordInv' /\ RecordFitsClassPath'
  BY <1>5 DEF Inv, RecordInv, RecordFitsClassPath, OnClassPath
<1>9. \A m \in Module : /\ modules[m].time \in Nat /\ loaded[m].time \in Nat
                        /\ Cached(m) => modules[m].time <= clock
                        /\ loaded[m] # NotFound => loaded[m].time <= clock
  BY <1>0 DEF TypeOK, ClockInv, Found, Real, Cached
<1>10. NewsInv'
  <2>. SUFFICES ASSUME NEW f \in news'
                PROVE  /\ f[2] \notin InPackage /\ file_time'[f] > 0
                       /\ 0 < directories[<<f[1], FALSE>>]
                       /\ directories[<<f[1], FALSE>>] < st_mtime'[<<f[1], FALSE>>]
                       /\ f \notin lost' =>
                             /\ Cached(f[2]) => file_time'[f] > modules[f[2]].time
                             /\ loaded[f[2]] # NotFound => file_time'[f] > loaded[f[2]].time
    BY <1>5 DEF NewsInv
  <2>. DEFINE d == <<f[1], FALSE>>
  <2>1. f \in File /\ f[2] \in Module /\ d \in Dir /\ (f \in lost => f \in lost')
    BY <1>0, <1>4 DEF EditEffect
  <2>2. \/ f \in news /\ file_time'[f] >= file_time[f] /\ st_mtime'[d] >= st_mtime[d]
        \/ /\ f[2] \notin InPackage /\ file_time'[f] = clock'
           /\ 0 < directories[d] /\ st_mtime'[d] = clock'
    BY <1>0 DEF EditEffect
  <2>3. CASE f \in news /\ file_time'[f] >= file_time[f] /\ st_mtime'[d] >= st_mtime[d]
    <3>1. /\ f[2] \notin InPackage /\ file_time[f] > 0 /\ 0 < directories[d]
          /\ directories[d] < st_mtime[d]
          /\ f \notin lost => /\ Cached(f[2]) => file_time[f] > modules[f[2]].time
                              /\ loaded[f[2]] # NotFound => file_time[f] > loaded[f[2]].time
      BY <2>3 DEF Inv, NewsInv
    <3>. QED BY <1>2, <1>3, <1>9, <2>1, <2>3, <3>1
  <2>4. CASE /\ f[2] \notin InPackage /\ file_time'[f] = clock'
             /\ 0 < directories[d] /\ st_mtime'[d] = clock'
    BY <1>1, <1>3, <1>9, <2>1, <2>4
  <2>. QED BY <2>2, <2>3, <2>4
<1>11. ToldInv'
  <2>. SUFFICES ASSUME NEW f \in told'
                PROVE  /\ determined /\ phase = "typing"
                       /\ f[2] \notin InPackage /\ <<f[1], FALSE>> \in changed_directories
                       /\ f \notin lost' => /\ Cached(f[2]) => file_time'[f] > modules[f[2]].time
                                            /\ loaded[f[2]] = NotFound
    BY <1>5 DEF ToldInv
  <2>1. f \in told /\ f \in File /\ f[2] \in Module /\ (f \in lost => f \in lost')
        /\ file_time'[f] >= file_time[f]
    BY <1>0, <1>4 DEF EditEffect
  <2>2. /\ determined /\ phase = "typing"
        /\ f[2] \notin InPackage /\ <<f[1], FALSE>> \in changed_directories
        /\ f \notin lost => /\ Cached(f[2]) => file_time[f] > modules[f[2]].time
                            /\ loaded[f[2]] = NotFound
    BY <2>1 DEF Inv, ToldInv
  <2>. QED BY <1>2, <1>9, <2>1, <2>2
\* A file that is there is either known as before, or has been added.
<1>12. ASSUME NEW r \in Root, NEW m \in Module, Exists(r, m)', Exists(r, m) => <<r, m>> \in Known
       PROVE  <<r, m>> \in Known'
  <2>1. <<r, m>> \in File
    BY DEF File
  <2>. QED BY <1>0, <1>2, <1>12, <2>1 DEF EditEffect, Exists
<1>13. ReadInv'
  <2>. SUFFICES ASSUME NEW r \in Root, NEW m \in Module, DirOf(r, m) \in DOMAIN readdir_cache,
                       m \notin readdir_cache[DirOf(r, m)], Exists(r, m)'
                PROVE  <<r, m>> \in Known'
    BY <1>5 DEF ReadInv, DirOf
  <2>1. Exists(r, m) => <<r, m>> \in Known
    BY DEF Inv, ReadInv
  <2>. QED BY <1>12, <2>1
<1>14. CoverInv'
  <2>1. ASSUME NEW m \in Module, NEW e, Covered(m, e) PROVE Covered(m, e)'
    <3>1. CASE m \in foreign
      BY <1>5, <3>1 DEF Covered
    <3>2. CASE m \notin foreign
      <4>1. \A r, s \in Root : Earlier(r, s)' <=> Earlier(r, s)
        BY <1>5 DEF Earlier
      <4>2. \E i \in DOMAIN class_paths : class_paths[i] = e.root
        BY <2>1, <3>2 DEF Covered
      <4>3. ASSUME NEW r \in Root, Exists(r, m)', Earlier(r, e.root)' PROVE <<r, m>> \in Known'
        <5>1. Earlier(r, e.root)
          BY <1>5, <4>3 DEF Earlier
        <5>. QED BY <1>12, <2>1, <3>2, <4>3, <5>1 DEF Covered
      <4>. QED BY <1>5, <4>2, <4>3 DEF Covered
    <3>. QED BY <3>1, <3>2
  <2>. SUFFICES ASSUME NEW m \in Module
                PROVE  /\ Cached(m) => Covered(m, modules[m])'
                       /\ loaded[m] # NotFound => Covered(m, loaded[m])'
    BY <1>5 DEF CoverInv
  <2>. QED BY <1>5, <2>1 DEF Inv, CoverInv, Covered, Earlier
<1>15. QuietInv' /\ PendingInv' /\ ResultInv'
  BY <1>0, <1>5 DEF EditEffect, Inv, QuietInv, PendingInv, ResultInv
<1>. QED BY <1>6, <1>7, <1>8, <1>10, <1>11, <1>13, <1>14, <1>15 DEF Inv

-----------------------------------------------------------------------------
(* get_changed_directories.                                                 *)

\* The directories in the cache are those of the class path, with their times.
RecordEffect ==
    /\ recorded' \in BOOLEAN /\ delays' \in Seq(ClassPaths) /\ directories' \in [Dir -> Nat]
    /\ \A d \in Dir : /\ directories'[d] <= st_mtime[d] \/ st_mtime[d] = 0
                      /\ directories'[d] <= clock
                      /\ ~recorded' => directories'[d] = 0
                      /\ delays' # <<>> => directories'[d] = 0
                      /\ ~aborted /\ directories'[d] > 0 => OnClassPath(d, class_paths)
    /\ ~aborted => delays' \in {<<>>, <<class_paths>>} /\ (~recorded' => delays' = <<>>)

\* get_changed_directories records directories of the class path, or delays the record.
LEMMA RecordEffects ==
    ASSUME Inv, phase = "typing",
           IF determined THEN UNCHANGED <<recorded, delays, directories>> ELSE Record
    PROVE  RecordEffect
<1>0. TypeOK /\ ClockInv /\ RecordInv
  BY DEF Inv
<1>1. /\ st_mtime \in [Dir -> Nat] /\ directories \in [Dir -> Nat] /\ clock \in Nat
      /\ recorded \in BOOLEAN /\ delays \in Seq(ClassPaths) /\ class_paths \in ClassPaths
      /\ \A d \in Dir : /\ st_mtime[d] <= clock /\ directories[d] <= clock
                        /\ directories[d] <= st_mtime[d] \/ st_mtime[d] = 0
                        /\ ~recorded => directories[d] = 0
                        /\ delays # <<>> => directories[d] = 0
                        /\ ~aborted /\ directories[d] > 0 => OnClassPath(d, class_paths)
      /\ ~aborted => delays \in {<<>>, <<class_paths>>} /\ (~recorded => delays = <<>>)
  BY <1>0 DEF TypeOK, ClockInv, RecordInv, Inv, RecordFitsClassPath
<1>2. CASE determined
  BY <1>1, <1>2 DEF RecordEffect
<1>3. CASE ~determined
  <2>1. /\ recorded' = TRUE /\ delays' = IF recorded THEN delays ELSE <<class_paths>> \o delays
        /\ directories' = [d \in Dir |-> IF NewSub(d) \/ directories[d] > 0 THEN st_mtime[d]
                                         ELSE directories[d]]
    BY <1>3 DEF Record, TimeOf
  <2>2. \A d \in Dir : NewSub(d) => /\ <<d[1], FALSE>> \in Dir /\ directories[<<d[1], FALSE>>] > 0
    BY <1>1, <1>3 DEF NewSub, Changed
  <2>3. \A d \in Dir : directories'[d] \in Nat /\ (directories'[d] = st_mtime[d] \/ directories'[d] = 0)
    BY <1>1, <2>1
  <2>4. \A d \in Dir : directories'[d] > 0 => \E e \in Dir : directories[e] > 0 /\ e[1] = d[1]
    <3>. SUFFICES ASSUME NEW d \in Dir, directories'[d] > 0
                  PROVE  \E e \in Dir : directories[e] > 0 /\ e[1] = d[1]
      OBVIOUS
    <3>1. directories[d] > 0 \/ NewSub(d)
      BY <1>1, <2>1
    <3>. QED BY <2>2, <3>1
  <2>a. <<class_paths>> \in Seq(ClassPaths)
    BY <1>1
  <2>b. <<class_paths>> \o delays \in Seq(ClassPaths)
    BY <1>1, <2>a, ConcatProperties
  <2>c. <<class_paths>> \o <<>> = <<class_paths>>
    BY <2>a, ConcatEmptySeq
  <2>5. /\ <<class_paths>> \o delays \in Seq(ClassPaths)
        /\ delays = <<>> => <<class_paths>> \o delays = <<class_paths>>
    BY <2>b, <2>c
  <2>6. delays' \in Seq(ClassPaths) /\ (~aborted => delays' \in {<<>>, <<class_paths>>})
    BY <1>1, <2>1, <2>5
  <2>7. delays' # <<>> => \A d \in Dir : directories'[d] = 0
    <3>1. delays' # <<>> => \A e \in Dir : directories[e] = 0
      BY <1>1, <2>1
    <3>. QED BY <1>1, <2>3, <2>4, <3>1
  <2>8. \A d \in Dir : ~aborted /\ directories'[d] > 0 => OnClassPath(d, class_paths)
    <3>. SUFFICES ASSUME NEW d \in Dir, ~aborted, directories'[d] > 0
                  PROVE  OnClassPath(d, class_paths)
      OBVIOUS
    <3>1. PICK e \in Dir : directories[e] > 0 /\ e[1] = d[1]
      BY <2>4
    <3>2. OnClassPath(e, class_paths)
      BY <1>1, <3>1
    <3>3. PICK i \in DOMAIN class_paths : class_paths[i] = e[1]
      BY <3>2 DEF OnClassPath
    <3>4. class_paths[i] = d[1]
      BY <3>1, <3>3
    <3>. QED BY <3>4 DEF OnClassPath
  <2>9. ASSUME NEW d \in Dir
        PROVE  (directories'[d] <= st_mtime[d] \/ st_mtime[d] = 0) /\ directories'[d] <= clock
    <3>1. st_mtime[d] \in Nat /\ st_mtime[d] <= clock /\ clock \in Nat
      BY <1>1
    <3>2. directories'[d] = st_mtime[d] \/ directories'[d] = 0
      BY <2>3
    <3>. QED BY <3>1, <3>2
  <2>10. directories' \in [Dir -> Nat]
    BY <1>1, <2>1
  <2>. QED BY <2>1, <2>6, <2>7, <2>8, <2>9, <2>10 DEF RecordEffect
<1>. QED BY <1>2, <1>3

\* What is new in the directories that have changed is told, or lost if it is too late.
GetEffect ==
    /\ determined' = TRUE /\ changed_directories' = Changed /\ changed_directories' \subseteq Dir
    /\ RecordEffect
    /\ news' \subseteq news /\ told' \subseteq told \cup news /\ lost' \subseteq lost \cup news
    /\ lost \subseteq lost' /\ Known \subseteq Known'
    /\ \A f \in news' : /\ 0 < directories'[<<f[1], FALSE>>]
                        /\ directories'[<<f[1], FALSE>>] < st_mtime[<<f[1], FALSE>>]
    /\ \A f \in told' : /\ f[2] \notin InPackage /\ <<f[1], FALSE>> \in changed_directories'
                        /\ f \notin lost' =>
                              /\ Cached(f[2]) => file_time[f] > modules[f[2]].time
                              /\ loaded[f[2]] = NotFound
    /\ quiet => news' = {}

\* get_changed_directories tells the request of what is new since the directories were recorded.
LEMMA GetEffects ==
    ASSUME Inv, phase = "typing", GetChangedDirectories
    PROVE  GetEffect
<1>0. TypeOK /\ NewsInv /\ ToldInv
  BY DEF Inv
<1>1. /\ determined' = TRUE /\ changed_directories' = Changed /\ Tell
      /\ IF determined THEN UNCHANGED <<recorded, delays, directories>> ELSE Record
  BY DEF GetChangedDirectories
<1>2. RecordEffect /\ Changed \subseteq Dir
  BY <1>0, <1>1, RecordEffects DEF Changed, TypeOK
<1>. DEFINE heard == {f \in news : DirOf(f[1], f[2]) \in Changed}
            late == {f \in heard : loaded[f[2]] # NotFound}
<1>3. news' = news \ heard /\ told' = told \cup (heard \ late) /\ lost' = lost \cup late
  BY <1>1 DEF Tell
<1>4. Known \subseteq Known'
  BY <1>3 DEF Known
<1>5. \A f \in news : f[2] \notin InPackage /\ DirOf(f[1], f[2]) = <<f[1], FALSE>> /\ <<f[1], FALSE>> \in Dir
  BY <1>0, RootDirectory DEF NewsInv, TypeOK, Dir
<1>6. ~determined => news' = {}
  <2>. SUFFICES ASSUME ~determined, NEW f \in news PROVE f \in heard
    BY <1>3
  <2>1. <<f[1], FALSE>> \in Dir /\ 0 < directories[<<f[1], FALSE>>]
        /\ directories[<<f[1], FALSE>>] < st_mtime[<<f[1], FALSE>>]
    BY <1>0, <1>5 DEF NewsInv
  <2>. QED BY <1>5, <2>1 DEF Changed, TimeOf
<1>7. \A f \in news' : /\ 0 < directories'[<<f[1], FALSE>>]
                       /\ directories'[<<f[1], FALSE>>] < st_mtime[<<f[1], FALSE>>]
  BY <1>0, <1>1, <1>3, <1>6 DEF NewsInv
<1>8. quiet => news' = {}
  BY <1>3, <1>6 DEF Inv, QuietInv
<1>9. ASSUME NEW f \in told'
      PROVE  /\ f[2] \notin InPackage /\ <<f[1], FALSE>> \in Changed
             /\ f \notin lost' => /\ Cached(f[2]) => file_time[f] > modules[f[2]].time
                                  /\ loaded[f[2]] = NotFound
  <2>1. CASE f \in told
    <3>1. Changed = changed_directories
      BY <1>0, <2>1 DEF ToldInv, Changed
    <3>. QED BY <1>0, <1>3, <2>1, <3>1 DEF ToldInv
  <2>2. CASE f \in heard \ late
    BY <1>0, <1>3, <1>5, <2>2 DEF NewsInv
  <2>. QED BY <1>3, <2>1, <2>2
<1>. QED BY <1>1, <1>2, <1>3, <1>4, <1>7, <1>8, <1>9 DEF GetEffect

-----------------------------------------------------------------------------
(* type_module: a cached module is reused, or is outdated.                  *)

\* A module that is reused is shadowed by no file the request has been told of.
LEMMA CheckStep == Inv /\ (\E m \in Module : Reuse(m) \/ Outdate(m)) => Inv'
<1>. SUFFICES ASSUME Inv, NEW m \in Module, Reuse(m) \/ Outdate(m) PROVE Inv'
  OBVIOUS
<1>. USE DEF diskVars, cacheVars, requestVars
<1>0. TypeOK /\ ClockInv /\ RecordInv /\ PendingInv /\ phase = "typing" /\ GetEffect
  BY GetEffects DEF Inv, Reuse, Outdate
<1>1. /\ UNCHANGED <<clock, file_time, st_mtime, modules, class_paths, phase, readdir_cache,
                    requests, built, quiet, foreign, aborted>>
      /\ m_dirty' \subseteq Module /\ m_dirty \subseteq m_dirty' /\ pending' \subseteq pending
      /\ loaded' \in [Module -> Found] /\ Cached(m) /\ m \in pending
  BY <1>0 DEF Reuse, Outdate, TypeOK
<1>2. \/ /\ IsFine(m) /\ m \notin pending' /\ loaded'[m] = modules[m]
         /\ \A k \in Module : k # m => loaded'[k] = loaded[k]
      \/ loaded' = loaded
  BY <1>0 DEF Reuse, Outdate, TypeOK
<1>3. \A k \in Module : Cached(k)' => Cached(k)
  BY <1>1 DEF Cached
<1>4. /\ news' \subseteq news /\ lost \subseteq lost' /\ Known \subseteq Known'
      /\ news' \subseteq Root \X Module /\ told' \subseteq Root \X Module
      /\ lost' \subseteq Root \X Module
  BY <1>0 DEF GetEffect, TypeOK
<1>5. \A f \in news' \cup told' : f[1] \in Root /\ f[2] \in Module /\ f = <<f[1], f[2]>>
  BY <1>4
<1>6. TypeOK'
  BY <1>0, <1>1, <1>4 DEF TypeOK, GetEffect, RecordEffect
<1>7. ClockInv'
  <2>1. \A k \in Module : Real(loaded[k])'
    BY <1>0, <1>1, <1>2 DEF ClockInv, Real
  <2>2. \A k \in Module : Real(modules[k])'
    BY <1>0, <1>1 DEF ClockInv, Real
  <2>. QED BY <1>0, <1>1, <2>1, <2>2 DEF ClockInv, GetEffect, RecordEffect
<1>8. RecordInv' /\ RecordFitsClassPath'
  BY <1>0, <1>1 DEF RecordInv, RecordFitsClassPath, OnClassPath, GetEffect, RecordEffect
<1>9. NewsInv'
  <2>. SUFFICES ASSUME NEW f \in news'
                PROVE  /\ f[2] \notin InPackage /\ file_time[f] > 0
                       /\ 0 < directories'[<<f[1], FALSE>>]
                       /\ directories'[<<f[1], FALSE>>] < st_mtime[<<f[1], FALSE>>]
                       /\ f \notin lost' =>
                             /\ Cached(f[2])' => file_time[f] > modules[f[2]].time
                             /\ loaded'[f[2]] # NotFound => file_time[f] > loaded'[f[2]].time
    BY <1>1 DEF NewsInv
  <2>1. /\ f[2] \notin InPackage /\ file_time[f] > 0
        /\ f \notin lost => /\ Cached(f[2]) => file_time[f] > modules[f[2]].time
                            /\ loaded[f[2]] # NotFound => file_time[f] > loaded[f[2]].time
    BY <1>4 DEF Inv, NewsInv
  <2>. QED BY <1>0, <1>1, <1>2, <1>3, <1>4, <1>5, <2>1 DEF GetEffect
<1>10. ToldInv'
  <2>. SUFFICES ASSUME NEW f \in told'
                PROVE  /\ determined' /\ phase = "typing"
                       /\ f[2] \notin InPackage /\ <<f[1], FALSE>> \in changed_directories'
                       /\ f \notin lost' => /\ Cached(f[2])' => file_time[f] > modules[f[2]].time
                                            /\ loaded'[f[2]] = NotFound
    BY <1>1 DEF ToldInv
  <2>1. /\ determined' /\ f[2] \notin InPackage /\ <<f[1], FALSE>> \in Changed
        /\ changed_directories' = Changed
        /\ f \notin lost' => /\ Cached(f[2]) => file_time[f] > modules[f[2]].time
                             /\ loaded[f[2]] = NotFound
    BY <1>0 DEF GetEffect
  \* A module that is found fine is not shadowed by what the request is told of.
  <2>2. f \notin lost' /\ IsFine(m) => f[2] # m
    BY <1>1, <1>5, <2>1 DEF IsFine, Shadows
  <2>. QED BY <1>0, <1>2, <1>3, <1>5, <2>1, <2>2
<1>11. ReadInv'
  BY <1>1, <1>4 DEF Inv, ReadInv, Exists, DirOf
<1>12. CoverInv'
  <2>1. ASSUME NEW k \in Module, NEW e, Covered(k, e) PROVE Covered(k, e)'
    BY <1>1, <1>4, <2>1 DEF Covered, Earlier, Exists
  <2>. SUFFICES ASSUME NEW k \in Module
                PROVE  /\ Cached(k)' => Covered(k, modules[k])'
                       /\ loaded'[k] # NotFound => Covered(k, loaded[k])'
    BY DEF CoverInv
  <2>2. /\ Cached(k) => Covered(k, modules[k])
        /\ loaded[k] # NotFound => Covered(k, loaded[k])
    BY DEF Inv, CoverInv
  <2>3. Cached(k) => Covered(k, modules[k])'
    BY <1>1, <2>1, <2>2 DEF Covered, Earlier, Exists
  <2>4. loaded'[k] # NotFound => Covered(k, loaded[k])'
    BY <1>1, <1>2, <2>1, <2>2 DEF Covered, Earlier, Exists
  <2>. QED BY <1>3, <2>3, <2>4
<1>13. QuietInv'
  <2>. SUFFICES ASSUME quiet
                PROVE  /\ news' = {}
                       /\ \A r \in Root, k \in Module : DirOf(r, k) \in DOMAIN readdir_cache =>
                             (k \in readdir_cache[DirOf(r, k)] <=> Exists(r, k))
                       /\ \A k \in Module : loaded'[k] # NotFound =>
                             file_time[<<loaded'[k].root, k>>] = loaded'[k].time
    BY <1>1 DEF QuietInv, Exists, DirOf
  <2>. QED BY <1>0, <1>1, <1>2 DEF Inv, QuietInv, GetEffect, IsFine
<1>14. PendingInv'
  BY <1>0, <1>1, <1>2 DEF PendingInv, TypeOK
<1>15. ResultInv'
  BY <1>0, <1>1 DEF ResultInv
<1>. QED BY <1>6, <1>7, <1>8, <1>9, <1>10, <1>11, <1>12, <1>13, <1>14, <1>15 DEF Inv

-----------------------------------------------------------------------------
(* load_module: a module is looked for in the class path.                   *)

\* A module that is typed comes from the first root that has it, but for added files that are known.
LEMMA TypeStep == Inv /\ (\E m \in Module : Type(m)) => Inv'
<1>. SUFFICES ASSUME Inv, NEW m \in Module, Type(m) PROVE Inv'
  OBVIOUS
<1>. USE DEF diskVars, cacheVars, dirVars
<1>. DEFINE root == find_file(m)
            seen == {f \in Root \X {m} : m \in Entries(DirOf(f[1], m))}
            older == {f \in news : file_time[f] <= file_time[<<root, m>>]}
<1>0. TypeOK /\ ClockInv /\ RecordInv /\ PendingInv /\ phase = "typing" /\ ~Cached(m) /\ m \in pending
  BY DEF Inv, Type
<1>1. /\ UNCHANGED <<clock, file_time, st_mtime, modules, m_dirty, class_paths, recorded, directories,
                    determined, changed_directories, delays, phase, requests, built, quiet, aborted>>
      /\ Hits(m) # {} /\ Exists(root, m)
      /\ loaded' = [loaded EXCEPT ![m] = [root |-> root, time |-> file_time[<<root, m>>]]]
      /\ readdir_cache' = [d \in DOMAIN readdir_cache \cup Visited(m) |-> Entries(d)]
      /\ pending' = pending \ {m} /\ foreign' = foreign \ {m}
      /\ news' = news \ seen /\ told' = {f \in told : f[2] # m}
      /\ lost' = (lost \ seen) \cup {f \in (told \cup older) \ seen : f[2] = m}
  BY DEF Type
<1>2. class_paths \in Seq(Root)
  BY <1>0, ClassPathAssumption, EmptySeq DEF TypeOK
<1>3. /\ root \in Root /\ (\E i \in DOMAIN class_paths : class_paths[i] = root)
      /\ m \in Entries(DirOf(root, m)) /\ Visited(m) \subseteq Dir
      /\ \A r \in Root : Earlier(r, root) => DirOf(r, m) \in Visited(m) /\ m \notin Entries(DirOf(r, m))
  BY <1>1, <1>2, FindFile
<1>4. /\ file_time[<<root, m>>] \in Nat /\ file_time[<<root, m>>] > 0
      /\ file_time[<<root, m>>] <= clock
  BY <1>0, <1>1, <1>3 DEF TypeOK, ClockInv, File, Exists
<1>5. /\ loaded' \in [Module -> Found] /\ loaded'[m].root = root
      /\ loaded'[m].time = file_time[<<root, m>>]
      /\ \A k \in Module : k # m => loaded'[k] = loaded[k]
  BY <1>0, <1>1, <1>3, <1>4 DEF TypeOK, Found
<1>6. /\ news' \subseteq news /\ told' \subseteq told /\ news' \cap seen = {}
      /\ news' \subseteq Root \X Module /\ told' \subseteq Root \X Module
      /\ lost' \subseteq Root \X Module
  BY <1>0, <1>1 DEF TypeOK
<1>7. \A f \in news' \cup told' \cup Known : f \in Root \X Module
  BY <1>0, <1>6 DEF TypeOK, Known
<1>8. \A f \in news' \cup told' : f \notin lost' => f \notin lost
  BY <1>1, <1>6
\* What is known stays known, but for the files of m in the directories as they were read.
<1>9. \A f \in Known : f \notin seen => f \in Known'
  BY <1>1 DEF Known
<1>10. \A f \in Known : f[2] # m => f \in Known'
  <2>1. \A f \in seen : f[2] = m
    OBVIOUS
  <2>. QED BY <1>9, <2>1
<1>12. TypeOK'
  <2>1. /\ DOMAIN readdir_cache' \subseteq Dir
        /\ \A d \in DOMAIN readdir_cache' : readdir_cache'[d] \subseteq Module
    BY <1>0, <1>1, <1>3 DEF TypeOK, Entries
  <2>2. foreign' \subseteq Module /\ pending' \subseteq Module
    BY <1>0, <1>1 DEF TypeOK
  <2>. QED BY <1>0, <1>1, <1>5, <1>6, <2>1, <2>2 DEF TypeOK
<1>13. ClockInv'
  <2>1. \A k \in Module : Real(loaded[k])'
    BY <1>0, <1>1, <1>3, <1>4, <1>5 DEF ClockInv, Real
  <2>2. \A k \in Module : Real(modules[k])'
    BY <1>0, <1>1 DEF ClockInv, Real
  <2>. QED BY <1>0, <1>1, <2>1, <2>2 DEF ClockInv
<1>14. RecordInv' /\ RecordFitsClassPath'
  BY <1>0, <1>1 DEF Inv, RecordInv, RecordFitsClassPath, OnClassPath
<1>15. \A k \in Module : Cached(k)' <=> Cached(k)
  BY <1>1 DEF Cached
<1>16. NewsInv'
  <2>. SUFFICES ASSUME NEW f \in news'
                PROVE  /\ f[2] \notin InPackage /\ file_time[f] > 0
                       /\ 0 < directories[<<f[1], FALSE>>]
                       /\ directories[<<f[1], FALSE>>] < st_mtime[<<f[1], FALSE>>]
                       /\ f \notin lost' =>
                             /\ Cached(f[2])' => file_time[f] > modules[f[2]].time
                             /\ loaded'[f[2]] # NotFound => file_time[f] > loaded'[f[2]].time
    BY <1>1 DEF NewsInv
  <2>1. /\ f[2] \notin InPackage /\ file_time[f] > 0
        /\ 0 < directories[<<f[1], FALSE>>]
        /\ directories[<<f[1], FALSE>>] < st_mtime[<<f[1], FALSE>>]
        /\ f \notin lost => /\ Cached(f[2]) => file_time[f] > modules[f[2]].time
                            /\ loaded[f[2]] # NotFound => file_time[f] > loaded[f[2]].time
    BY <1>6 DEF Inv, NewsInv
  <2>2. f \in news /\ f \notin seen /\ file_time[f] \in Nat /\ f[2] \in Module
    BY <1>0, <1>6, <1>7 DEF TypeOK
  <2>3. f[2] = m /\ f \notin lost' => file_time[f] > file_time[<<root, m>>]
    BY <1>1, <1>4, <2>2
  <2>. QED BY <1>5, <1>8, <1>15, <2>1, <2>2, <2>3
<1>17. ToldInv'
  <2>. SUFFICES ASSUME NEW f \in told'
                PROVE  /\ determined /\ phase = "typing"
                       /\ f[2] \notin InPackage /\ <<f[1], FALSE>> \in changed_directories
                       /\ f \notin lost' => /\ Cached(f[2])' => file_time[f] > modules[f[2]].time
                                            /\ loaded'[f[2]] = NotFound
    BY <1>1 DEF ToldInv
  <2>1. f \in told /\ f[2] # m /\ f[2] \in Module /\ (f \notin lost' => f \notin lost)
    BY <1>1, <1>7, <1>8
  <2>. QED BY <1>5, <1>15, <2>1 DEF Inv, ToldInv
<1>18. ReadInv'
  <2>. SUFFICES ASSUME NEW r \in Root, NEW k \in Module, DirOf(r, k) \in DOMAIN readdir_cache',
                       k \notin readdir_cache'[DirOf(r, k)], Exists(r, k)
                PROVE  <<r, k>> \in Known'
    BY <1>1 DEF ReadInv, Exists, DirOf
  <2>1. k \notin Entries(DirOf(r, k))
    BY <1>1
  <2>2. <<r, k>> \in Known
    BY <2>1, EntriesOfDirectory DEF Inv, ReadInv
  <2>3. <<r, k>> \notin seen
    BY <2>1
  <2>. QED BY <1>9, <2>2, <2>3
<1>19. CoverInv'
  <2>1. ASSUME NEW k \in Module, k # m, NEW e, Covered(k, e) PROVE Covered(k, e)'
    BY <1>1, <1>10, <2>1 DEF Covered, Earlier, Exists
  <2>2. ASSUME NEW k \in Module, k # m
        PROVE  /\ Cached(k)' => Covered(k, modules[k])'
               /\ loaded'[k] # NotFound => Covered(k, loaded[k])'
    <3>1. /\ Cached(k) => Covered(k, modules[k])
          /\ loaded[k] # NotFound => Covered(k, loaded[k])
      BY DEF Inv, CoverInv
    <3>2. Cached(k) => Covered(k, modules[k])'
      BY <1>1, <2>1, <2>2, <3>1 DEF Covered, Earlier, Exists
    <3>3. loaded'[k] # NotFound => Covered(k, loaded[k])'
      BY <1>1, <1>5, <2>1, <2>2, <3>1 DEF Covered, Earlier, Exists
    <3>. QED BY <1>15, <3>2, <3>3
  <2>3. Covered(m, loaded[m])'
    <3>1. ASSUME NEW r \in Root, Exists(r, m), Earlier(r, root) PROVE <<r, m>> \in Known'
      <4>1. m \notin Entries(DirOf(r, m)) /\ <<r, m>> \notin seen
        BY <1>3, <3>1
      <4>2. <<r, m>> \in Known
        BY <3>1, <4>1, EntriesOfDirectory DEF Inv, ReadInv
      <4>. QED BY <1>9, <4>1, <4>2
    <3>. QED BY <1>1, <1>3, <1>5, <3>1 DEF Covered, Earlier, Exists
  <2>4. ~Cached(m)'
    BY <1>0, <1>15
  <2>. QED BY <2>2, <2>3, <2>4 DEF CoverInv
<1>20. QuietInv'
  <2>. SUFFICES ASSUME quiet
                PROVE  /\ determined => news' = {}
                       /\ \A r \in Root, k \in Module : DirOf(r, k) \in DOMAIN readdir_cache' =>
                             (k \in readdir_cache'[DirOf(r, k)] <=> Exists(r, k))
                       /\ \A k \in Module : loaded'[k] # NotFound =>
                             /\ file_time[<<loaded'[k].root, k>>] = loaded'[k].time
                             /\ \A f \in news' : f[2] # k
    BY <1>1 DEF QuietInv, Exists, DirOf
  <2>1. \A r \in Root, k \in Module : k \in Entries(DirOf(r, k)) <=> Exists(r, k)
    BY <1>0, EntriesOfDirectory DEF Inv, QuietInv
  <2>2. ASSUME NEW f \in news' PROVE f[2] # m
    <3>1. f \in news /\ f \notin seen /\ f \in Root \X Module
      BY <1>6, <1>7
    <3>a. f[1] \in Root /\ f = <<f[1], f[2]>>
      BY <3>1
    <3>b. file_time[f] > 0
      BY <3>1 DEF Inv, NewsInv
    <3>2. f[2] = m => Exists(f[1], m)
      BY <3>a, <3>b DEF Exists
    <3>. QED BY <2>1, <3>1, <3>a, <3>2
  <2>3. \A k \in Module : k # m /\ loaded[k] # NotFound =>
           /\ file_time[<<loaded[k].root, k>>] = loaded[k].time
           /\ \A f \in news' : f[2] # k
    BY <1>0, <1>6 DEF Inv, QuietInv
  <2>4. determined => news' = {}
    BY <1>0, <1>6 DEF Inv, QuietInv
  <2>. QED BY <1>1, <1>5, <2>1, <2>2, <2>3, <2>4
<1>21. PendingInv' /\ ResultInv'
  BY <1>0, <1>1, <1>5 DEF PendingInv, ResultInv, TypeOK
<1>. QED BY <1>12, <1>13, <1>14, <1>16, <1>17, <1>18, <1>19, <1>20, <1>21 DEF Inv

-----------------------------------------------------------------------------
(* The end of a request, and the beginning of the next one.                 *)

\* Finish, Fails, Abort: what a module that was not loaded would have to be checked
\* against is lost with the request.
LEMMA EndStep == Inv /\ (Finish \/ Fails \/ Abort) => Inv'
<1>. SUFFICES ASSUME Inv, Finish \/ Fails \/ Abort PROVE Inv'
  OBVIOUS
<1>. USE DEF diskVars, cacheVars, dirVars
<1>0. TypeOK /\ ClockInv /\ RecordInv /\ NewsInv /\ ToldInv /\ CoverInv
  BY DEF Inv
<1>1. /\ UNCHANGED <<clock, file_time, st_mtime, class_paths, recorded, directories, determined,
                    changed_directories, delays, requests, quiet, news, foreign>>
      /\ pending' = {} /\ loaded' = [m \in Module |-> NotFound] /\ readdir_cache' = <<>>
      /\ lost' = lost \cup {f \in told : loaded[f[2]] = NotFound} /\ told' = {}
      /\ phase # "idle" /\ phase' \in {"idle", "delays"}
  BY DEF Finish, Fails, Abort, EndOfTyping
<1>2. \/ /\ phase = "typing" /\ built' = loaded /\ m_dirty' = {m \in m_dirty : loaded[m] = NotFound}
         /\ modules' = [m \in Module |-> IF loaded[m] # NotFound THEN loaded[m] ELSE modules[m]]
         /\ aborted' = aborted /\ phase' = "delays"
      \/ built' = Failed /\ modules' = modules /\ m_dirty' = m_dirty
         /\ aborted' = (aborted \/ delays # <<>>) /\ phase' = "idle"
      \/ built' = Failed /\ modules' = modules /\ m_dirty' = m_dirty /\ aborted' = aborted
         /\ phase' = "delays"
  BY DEF Finish, Fails, Abort
<1>3. /\ modules' \in [Module -> Found] /\ m_dirty' \subseteq Module /\ loaded' \in [Module -> Found]
      /\ \A m \in Module : loaded'[m] = NotFound /\ modules'[m] \in {modules[m], loaded[m]}
      /\ \A m \in Module : Cached(m)' => \/ modules'[m] = loaded[m] /\ loaded[m] # NotFound
                                         \/ modules'[m] = modules[m] /\ Cached(m)
  <2>1. NotFound \in Found
    BY DEF NotFound, Found
  <2>2. loaded' \in [Module -> Found] /\ \A m \in Module : loaded'[m] = NotFound
    BY <1>1, <2>1
  <2>3. modules' \in [Module -> Found] /\ m_dirty' \subseteq Module
    BY <1>0, <1>2 DEF TypeOK
  <2>. QED BY <1>2, <2>2, <2>3 DEF Cached
\* Nothing is forgotten: what was told of a loaded module has been lost already.
<1>4. Known \subseteq Known'
  BY <1>0, <1>1 DEF Known, ToldInv
<1>5. TypeOK'
  <2>1. DOMAIN readdir_cache' = {}
    BY <1>1
  <2>2. aborted \in BOOLEAN
    BY <1>0 DEF TypeOK
  <2>3. aborted' \in BOOLEAN
    BY <1>2, <2>2
  <2>4. lost' \subseteq Root \X Module
    BY <1>0, <1>1 DEF TypeOK
  <2>. QED BY <1>0, <1>1, <1>3, <2>1, <2>3, <2>4 DEF TypeOK
<1>6. ClockInv'
  <2>1. \A m \in Module : Real(modules[m])' /\ Real(loaded[m])'
    BY <1>0, <1>1, <1>3 DEF ClockInv, Real
  <2>. QED BY <1>0, <1>1, <2>1 DEF ClockInv
<1>7. RecordInv' /\ RecordFitsClassPath'
  BY <1>0, <1>1, <1>2 DEF Inv, RecordInv, RecordFitsClassPath, OnClassPath
<1>8. NewsInv'
  <2>. SUFFICES ASSUME NEW f \in news
                PROVE  /\ f[2] \notin InPackage /\ file_time[f] > 0
                       /\ 0 < directories[<<f[1], FALSE>>]
                       /\ directories[<<f[1], FALSE>>] < st_mtime[<<f[1], FALSE>>]
                       /\ f \notin lost' =>
                             /\ Cached(f[2])' => file_time[f] > modules'[f[2]].time
                             /\ loaded'[f[2]] # NotFound => file_time[f] > loaded'[f[2]].time
    BY <1>1 DEF NewsInv
  <2>1. f[2] \in Module /\ (f \notin lost' => f \notin lost)
    BY <1>0, <1>1 DEF TypeOK
  <2>. QED BY <1>0, <1>3, <2>1 DEF NewsInv
<1>9. ToldInv' /\ ReadInv' /\ QuietInv' /\ PendingInv'
  BY <1>1 DEF ToldInv, ReadInv, QuietInv, PendingInv
<1>10. CoverInv'
  <2>1. ASSUME NEW m \in Module, NEW e, Covered(m, e) PROVE Covered(m, e)'
    BY <1>1, <1>4, <2>1 DEF Covered, Earlier, Exists
  <2>. SUFFICES ASSUME NEW m \in Module, Cached(m)' PROVE Covered(m, modules[m])'
    BY <1>3 DEF CoverInv
  <2>2. CASE modules'[m] = loaded[m] /\ loaded[m] # NotFound
    <3>1. Covered(m, loaded[m]) /\ modules'[m] = loaded[m]
      BY <1>0, <2>2 DEF CoverInv
    <3>. QED BY <2>1, <3>1
  <2>3. CASE modules'[m] = modules[m] /\ Cached(m)
    BY <1>0, <1>1, <1>4, <2>3 DEF CoverInv, Covered, Earlier, Exists
  <2>. QED BY <1>3, <2>2, <2>3
<1>11. ResultInv'
  <2>. SUFFICES ASSUME quiet, phase = "typing", built' = loaded, NEW m \in Module, loaded[m] # NotFound
                PROVE  /\ file_time[<<loaded[m].root, m>>] = loaded[m].time
                       /\ loaded[m].root = First(m) \/ <<First(m), m>> \in lost' \/ m \in foreign
    BY <1>1, <1>2 DEF ResultInv, First, Exists
  <2>1. /\ file_time[<<loaded[m].root, m>>] = loaded[m].time
        /\ \A f \in news : f[2] # m
    BY DEF Inv, QuietInv
  <2>2. loaded[m].root \in Root /\ Exists(loaded[m].root, m)
    BY <1>0, <2>1 DEF ClockInv, Real, Exists
  <2>3. CASE m \notin foreign
    <3>. DEFINE s == loaded[m].root
    <3>1. /\ \E i \in DOMAIN class_paths : class_paths[i] = s
          /\ \A r \in Root : Exists(r, m) /\ Earlier(r, s) => <<r, m>> \in Known
      BY <1>0, <2>3 DEF CoverInv, Covered
    <3>2. class_paths \in Seq(Root)
      BY <1>0, ClassPathAssumption, EmptySeq DEF TypeOK
    <3>3. First(m) \in Root /\ (First(m) = s \/ (Exists(First(m), m) /\ Earlier(First(m), s)))
      BY <2>2, <3>1, <3>2, FirstIsEarlier
    <3>4. First(m) = s \/ <<First(m), m>> \in Known
      BY <3>1, <3>3
    <3>5. <<First(m), m>> \notin news /\ (<<First(m), m>> \in told => <<First(m), m>> \in lost)
      BY <1>0, <2>1 DEF ToldInv
    <3>. QED BY <1>1, <2>1, <3>4, <3>5 DEF Known
  <2>. QED BY <2>1, <2>3
<1>. QED BY <1>5, <1>6, <1>7, <1>8, <1>9, <1>10, <1>11 DEF Inv

\* run_delays: what is recorded now was recorded for no file that is still to be told.
LEMMA RunDelaysStep == Inv /\ RunDelays => Inv'
<1>. SUFFICES ASSUME Inv, RunDelays PROVE Inv'
  OBVIOUS
<1>. USE DEF diskVars, cacheVars, historyVars
<1>0. TypeOK /\ ClockInv /\ RecordInv /\ NewsInv /\ ToldInv
  BY DEF Inv
<1>1. /\ phase = "delays" /\ phase' = "idle" /\ delays' = <<>>
      /\ UNCHANGED <<clock, file_time, st_mtime, modules, m_dirty, class_paths, determined,
                    changed_directories, pending, loaded, readdir_cache, requests, built, quiet,
                    news, told, lost, foreign, aborted>>
      /\ IF delays = <<>> THEN UNCHANGED <<recorded, directories>>
         ELSE /\ recorded' = TRUE
              /\ directories' = [d \in Dir |-> IF OnClassPath(d, delays[Len(delays)])
                                                 THEN st_mtime[d] ELSE 0]
  BY DEF RunDelays, RecordAll, TimeOf
<1>2. delays # <<>> => news = {}
  <2>. SUFFICES ASSUME delays # <<>>, NEW f \in news PROVE FALSE
    OBVIOUS
  <2>1. <<f[1], FALSE>> \in Dir /\ directories[<<f[1], FALSE>>] > 0
    BY <1>0 DEF TypeOK, NewsInv, Dir
  <2>. QED BY <1>0, <2>1 DEF RecordInv
<1>3. ~aborted /\ delays # <<>> => delays[Len(delays)] = class_paths
  <2>1. ~aborted /\ delays # <<>> => delays = <<class_paths>>
    BY <1>0 DEF RecordInv
  <2>. QED BY <2>1
<1>4. /\ directories' \in [Dir -> Nat] /\ recorded' \in BOOLEAN
      /\ \A d \in Dir : /\ directories'[d] <= st_mtime[d] \/ st_mtime[d] = 0
                        /\ directories'[d] <= clock
                        /\ ~recorded' => directories'[d] = 0
                        /\ ~aborted /\ directories'[d] > 0 => OnClassPath(d, class_paths)
  <2>1. CASE delays = <<>>
    BY <1>0, <1>1, <2>1 DEF Inv, TypeOK, ClockInv, RecordFitsClassPath
  <2>2. CASE delays # <<>>
    <3>1. /\ st_mtime \in [Dir -> Nat] /\ clock \in Nat /\ \A d \in Dir : st_mtime[d] <= clock
      BY <1>0 DEF TypeOK, ClockInv
    <3>2. /\ directories' \in [Dir -> Nat] /\ recorded' = TRUE
          /\ \A d \in Dir : directories'[d] = st_mtime[d] \/ directories'[d] = 0
      BY <1>1, <2>2, <3>1
    <3>3. \A d \in Dir : directories'[d] > 0 => OnClassPath(d, delays[Len(delays)])
      BY <1>1, <2>2
    <3>. QED BY <1>3, <2>2, <3>1, <3>2, <3>3
  <2>. QED BY <2>1, <2>2
<1>5. TypeOK'
  <2>1. <<>> \in Seq(ClassPaths)
    BY EmptySeq
  <2>. QED BY <1>0, <1>1, <1>4, <2>1 DEF TypeOK
<1>6. ClockInv' /\ RecordInv' /\ RecordFitsClassPath'
  <2>1. ClockInv'
    BY <1>0, <1>1, <1>4 DEF ClockInv, Real
  <2>. QED BY <1>1, <1>4, <2>1 DEF RecordInv, RecordFitsClassPath, OnClassPath
<1>7. NewsInv'
  BY <1>0, <1>1, <1>2 DEF NewsInv, Cached
<1>8. ToldInv' /\ ReadInv' /\ QuietInv' /\ PendingInv' /\ ResultInv'
  BY <1>0, <1>1 DEF Inv, ToldInv, ReadInv, Known, Exists, DirOf, QuietInv, PendingInv, ResultInv, First
<1>9. CoverInv'
  BY <1>1 DEF Inv, CoverInv, Covered, Earlier, Exists, Known, Cached
<1>. QED BY <1>5, <1>6, <1>7, <1>8, <1>9 DEF Inv

\* A request with another class path drops what was recorded.
LEMMA StartStep == Inv /\ (\E cp \in ClassPaths, program \in Programs : Start(cp, program)) => Inv'
<1>. SUFFICES ASSUME Inv, NEW cp \in ClassPaths, NEW program \in Programs, Start(cp, program)
              PROVE  Inv'
  OBVIOUS
<1>. USE DEF diskVars, cacheVars
<1>0. TypeOK /\ ClockInv /\ RecordInv /\ NewsInv /\ ToldInv /\ CoverInv /\ RecordFitsClassPath
  BY DEF Inv
<1>1. /\ phase = "idle" /\ phase' = "typing" /\ pending' = program /\ class_paths' = cp
      /\ loaded' = [m \in Module |-> NotFound] /\ readdir_cache' = <<>>
      /\ determined' = FALSE /\ changed_directories' = {} /\ quiet' = TRUE /\ requests' = requests + 1
      /\ UNCHANGED <<clock, file_time, st_mtime, modules, m_dirty, delays, built, told, lost>>
      /\ \/ class_paths \in {<<>>, cp} /\ UNCHANGED <<recorded, directories, news, foreign, aborted>>
         \/ /\ recorded' = FALSE /\ directories' = [d \in Dir |-> 0] /\ news' = {}
            /\ foreign' = {m \in Module : modules[m] # NotFound}
            /\ aborted' = (aborted /\ delays # <<>>)
  BY DEF Start
<1>2. loaded' \in [Module -> Found] /\ \A m \in Module : loaded'[m] = NotFound
  BY <1>1 DEF NotFound, Found
<1>3. told = {} /\ (~aborted => delays = <<>>)
  BY <1>0, <1>1 DEF ToldInv, RecordInv
<1>4. /\ directories' \in [Dir -> Nat] /\ recorded' \in BOOLEAN
      /\ \A d \in Dir : \/ directories'[d] = directories[d] /\ recorded' = recorded
                        \/ directories'[d] = 0
  <2>1. CASE UNCHANGED <<recorded, directories>>
    BY <1>0, <2>1 DEF TypeOK
  <2>2. CASE recorded' = FALSE /\ directories' = [d \in Dir |-> 0]
    BY <2>2
  <2>. QED BY <1>1, <2>1, <2>2
<1>5. program \subseteq Module
  BY ModuleAssumption
<1>6. TypeOK'
  <2>1. DOMAIN readdir_cache' = {} /\ requests' \in Nat
    BY <1>0, <1>1 DEF TypeOK
  <2>2. news' \subseteq Root \X Module /\ foreign' \subseteq Module
    BY <1>0, <1>1 DEF TypeOK
  <2>3. \A d \in Dir : /\ directories'[d] <= st_mtime[d] \/ st_mtime[d] = 0
                       /\ ~recorded' => directories'[d] = 0
    <3>1. \A d \in Dir : st_mtime[d] \in Nat
      BY <1>0 DEF TypeOK
    <3>2. CASE UNCHANGED <<recorded, directories>>
      BY <1>0, <3>2 DEF TypeOK
    <3>3. CASE directories' = [d \in Dir |-> 0]
      BY <3>1, <3>3
    <3>. QED BY <1>1, <3>2, <3>3
  <2>. QED BY <1>0, <1>1, <1>2, <1>4, <1>5, <2>1, <2>2, <2>3 DEF TypeOK
<1>7. ClockInv'
  BY <1>0, <1>1, <1>2, <1>4 DEF TypeOK, ClockInv, Real
<1>8. RecordInv'
  BY <1>0, <1>1, <1>3, <1>4 DEF RecordInv
<1>9. RecordFitsClassPath'
  <2>. SUFFICES ASSUME ~aborted, NEW d \in Dir, directories'[d] > 0 PROVE OnClassPath(d, cp)
    BY <1>1 DEF RecordFitsClassPath, OnClassPath
  <2>1. class_paths \in {<<>>, cp} /\ directories'[d] = directories[d]
    BY <1>1
  <2>2. OnClassPath(d, class_paths)
    BY <1>0, <2>1 DEF RecordFitsClassPath
  <2>. QED BY <2>1, <2>2 DEF OnClassPath
<1>10. NewsInv'
  <2>1. CASE UNCHANGED <<directories, news>>
    <3>1. \A f \in news : f[2] \in Module
      BY <1>0 DEF TypeOK
    <3>. QED BY <1>0, <1>1, <1>2, <2>1, <3>1 DEF NewsInv, Cached
  <2>2. CASE news' = {}
    BY <2>2 DEF NewsInv
  <2>. QED BY <1>1, <2>1, <2>2
<1>11. ToldInv' /\ ReadInv' /\ QuietInv' /\ PendingInv' /\ ResultInv'
  BY <1>1, <1>2, <1>3, <1>5 DEF ToldInv, ReadInv, QuietInv, PendingInv, ResultInv
<1>12. CoverInv'
  <2>. SUFFICES ASSUME NEW m \in Module, Cached(m) PROVE Covered(m, modules[m])'
    BY <1>1, <1>2 DEF CoverInv, Cached
  <2>1. CASE m \in foreign'
    BY <2>1 DEF Covered
  <2>2. CASE m \notin foreign'
    <3>1. class_paths \in {<<>>, cp} /\ UNCHANGED <<news, foreign>>
      BY <1>1, <2>2 DEF Cached
    <3>2. Covered(m, modules[m]) /\ m \notin foreign
      BY <1>0, <2>2, <3>1 DEF CoverInv
    <3>3. class_paths = cp
      BY <3>1, <3>2 DEF Covered
    <3>. QED BY <1>1, <3>1, <3>2, <3>3 DEF Covered, Earlier, Exists, Known
  <2>. QED BY <2>1, <2>2
<1>. QED BY <1>6, <1>7, <1>8, <1>9, <1>10, <1>11, <1>12 DEF Inv

-----------------------------------------------------------------------------
(* The theorems.                                                            *)

\* A server that has started has cached and recorded nothing.
LEMMA InitInv == Init => Inv
<1>. SUFFICES ASSUME Init PROVE Inv
  OBVIOUS
<1>1. /\ clock = 1 /\ quiet = TRUE /\ phase = "idle" /\ built = Failed /\ determined = FALSE
      /\ modules = [m \in Module |-> NotFound] /\ loaded = [m \in Module |-> NotFound]
      /\ m_dirty = {} /\ pending = {} /\ news = {} /\ told = {} /\ lost = {} /\ foreign = {}
      /\ class_paths = <<>> /\ delays = <<>> /\ readdir_cache = <<>> /\ requests = 0
      /\ changed_directories = {} /\ recorded = FALSE /\ aborted = FALSE
      /\ directories = [d \in Dir |-> 0]
      /\ st_mtime \in [Dir -> {0, 1}] /\ file_time \in [File -> {0, 1}]
  BY DEF Init, File
<1>2. NotFound \in Found
  BY DEF NotFound, Found
<1>3. /\ st_mtime \in [Dir -> Nat] /\ file_time \in [File -> Nat] /\ directories \in [Dir -> Nat]
      /\ \A d \in Dir : directories[d] = 0 /\ st_mtime[d] <= 1 /\ 0 <= st_mtime[d]
      /\ \A f \in File : file_time[f] <= 1
  BY <1>1
<1>4. \A m \in Module : modules[m] = NotFound /\ loaded[m] = NotFound
  BY <1>1
<1>5. TypeOK
  <2>1. delays \in Seq(ClassPaths) /\ DOMAIN readdir_cache = {}
    BY <1>1, EmptySeq
  <2>2. modules \in [Module -> Found] /\ loaded \in [Module -> Found]
    BY <1>1, <1>2
  <2>. QED BY <1>1, <1>3, <2>1, <2>2 DEF TypeOK, File
<1>6. ClockInv
  BY <1>1, <1>3, <1>4 DEF ClockInv, Real
<1>7. RecordInv /\ RecordFitsClassPath
  BY <1>1, <1>3 DEF RecordInv, RecordFitsClassPath
<1>8. NewsInv /\ ToldInv /\ ReadInv /\ QuietInv /\ PendingInv /\ ResultInv
  BY <1>1 DEF NewsInv, ToldInv, ReadInv, QuietInv, PendingInv, ResultInv
<1>9. CoverInv
  BY <1>4 DEF CoverInv, Cached
<1>. QED BY <1>5, <1>6, <1>7, <1>8, <1>9 DEF Inv

\* The invariant speaks of the state alone.
LEMMA Stutter == Inv /\ UNCHANGED vars => Inv'
<1>. SUFFICES ASSUME Inv, UNCHANGED vars PROVE Inv'
  OBVIOUS
<1>. USE DEF vars, diskVars, cacheVars, dirVars, requestVars, historyVars
<1>1. TypeOK' /\ ClockInv' /\ RecordInv' /\ RecordFitsClassPath'
  BY DEF Inv, TypeOK, ClockInv, Real, RecordInv, RecordFitsClassPath, OnClassPath
<1>2. NewsInv' /\ ToldInv' /\ ReadInv' /\ PendingInv'
  BY DEF Inv, NewsInv, ToldInv, ReadInv, PendingInv, Cached, Known, Exists, DirOf
<1>3. CoverInv'
  BY DEF Inv, CoverInv, Covered, Earlier, Exists, Known, Cached
<1>4. QuietInv' /\ ResultInv'
  BY DEF Inv, QuietInv, ResultInv, First, Exists, DirOf
<1>. QED BY <1>1, <1>2, <1>3, <1>4 DEF Inv

\* The invariant holds in every state of the server.
LEMMA Invariant == Spec => []Inv
<1>1. Inv /\ [Next]_vars => Inv'
  BY EditStep, CheckStep, TypeStep, EndStep, RunDelaysStep, StartStep, Stutter
     DEF Next, Serve, WaitLoop
<1>. QED BY <1>1, InitInv, PTL DEF Spec

\* The tables of the server are well formed, and the directories it has recorded are those
\* of the class path of the last request: a record that get_changed_directories has delayed
\* never comes in for another class path, but for one that an aborted request has left, and
\* that only until the class path changes again.
THEOREM RecordsFit == Spec => []Consistent
<1>1. Inv => Consistent
  BY DEF Inv, Consistent
<1>. QED BY <1>1, Invariant, PTL

\* check_module_shadowing: when a compilation is over during which nothing has changed,
\* every module it has is the one the class path finds first, as it is on disk, but for the
\* files that ShadowIsFound says the server misses.
THEOREM NoShadowIsMissed == Spec => []ShadowIsFound
<1>1. Inv => ShadowIsFound
  BY DEF Inv, ResultInv, ShadowIsFound
<1>. QED BY <1>1, Invariant, PTL
=============================================================================
