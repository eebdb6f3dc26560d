-------------------------- MODULE NativeCallsProofs --------------------------
(***************************************************************************)
(* Theorems about native code: sub processes, for any number of them, any     *)
(* limit on descriptors, any size of pipes and whatever is written to them;   *)
(* command lines, whatever is in the arguments; and regular expressions, for  *)
(* any number of groups, any subject and any number of callouts.             *)
(***************************************************************************)
EXTENDS PcreExec, Process, CommandLine, FiniteSetTheorems, SequenceTheorems,
        WellFoundedInduction, TLAPS

-----------------------------------------------------------------------------
(* Sub processes: their descriptors and pipes.                              *)

\* What a process may have is a number of descriptors, and no end of a pipe is Free.
Sensible == DescriptorLimits \subseteq Nat /\ Free \notin End

TableInv == limit \in Nat /\ fds \in [3 .. limit - 1 -> End \cup {Free}]

-----------------------------------------------------------------------------
(* The descriptors that are given out.                                      *)

\* Every number from 1 on is the place of one unused descriptor, up to how many there are.
LEMMA Places ==
    ASSUME TableInv
    PROVE  /\ Cardinality(Unused) \in Nat
           /\ \A fd \in Unused : Place(fd) \in 1 .. Cardinality(Unused)
           /\ \A f, g \in Unused : Place(f) = Place(g) => f = g
           /\ \A k \in 1 .. Cardinality(Unused) : Lowest(k) \in Unused /\ Place(Lowest(k)) = k
<1>. DEFINE n == Cardinality(Unused)
            UpTo(fd) == {f \in Unused : f <= fd}
<1>1. Unused \subseteq 3 .. limit - 1 /\ \A fd \in Unused : fd \in Int
  BY DEF TableInv, Unused
<1>2. IsFiniteSet(Unused) /\ n \in Nat
  <2>1. IsFiniteSet(3 .. limit - 1)
    <3>1. 3 \in Int /\ limit - 1 \in Int
      BY DEF TableInv
    <3>. QED BY <3>1, FS_Interval
  <2>. QED BY <1>1, <2>1, FS_Subset, FS_CardinalityType
<1>3. ASSUME NEW fd \in Unused
      PROVE  IsFiniteSet(UpTo(fd)) /\ Place(fd) \in 1 .. n /\ Place(fd) = Cardinality(UpTo(fd))
  <2>1. UpTo(fd) \in SUBSET Unused /\ fd \in UpTo(fd)
    BY <1>1
  <2>2. IsFiniteSet(UpTo(fd)) /\ Cardinality(UpTo(fd)) <= n
    BY <1>2, <2>1, FS_Subset
  <2>3. Cardinality(UpTo(fd)) \in Nat /\ Cardinality(UpTo(fd)) # 0
    BY <2>1, <2>2, FS_CardinalityType, FS_EmptySet
  <2>4. Place(fd) = Cardinality(UpTo(fd))
    BY DEF Place
  <2>. QED BY <1>2, <2>2, <2>3, <2>4
<1>4. ASSUME NEW f \in Unused, NEW g \in Unused, f < g PROVE Place(f) # Place(g)
  <2>1. UpTo(f) \in SUBSET UpTo(g) /\ UpTo(f) # UpTo(g)
    <3>1. g \in UpTo(g) /\ g \notin UpTo(f)
      BY <1>1, <1>4
    <3>2. \A x \in UpTo(f) : x \in UpTo(g)
      BY <1>1, <1>4
    <3>. QED BY <3>1, <3>2
  <2>2. IsFiniteSet(UpTo(g)) /\ Place(f) = Cardinality(UpTo(f)) /\ Place(g) = Cardinality(UpTo(g))
    BY <1>3
  <2>. HIDE DEF UpTo
  <2>. QED BY <2>1, <2>2, FS_Subset
<1>5. ASSUME NEW f \in Unused, NEW g \in Unused, Place(f) = Place(g) PROVE f = g
  <2>1. f \in Int /\ g \in Int
    BY <1>1
  <2>2. ~(f < g) /\ ~(g < f)
    BY <1>4, <1>5
  <2>. QED BY <2>1, <2>2
<1>6. \A k \in 1 .. n : \E fd \in Unused : Place(fd) = k
  <2>. DEFINE place == [fd \in Unused |-> Place(fd)]
  <2>1. place \in Injection(Unused, 1 .. n)
    BY <1>3, <1>5 DEF Injection, IsInjective
  <2>2. IsFiniteSet(1 .. n) /\ Cardinality(1 .. n) = n
    BY <1>2, FS_Interval
  <2>. HIDE DEF place
  <2>3. place \in Surjection(Unused, 1 .. n)
    BY <2>1, <2>2, FS_Injection
  <2>. QED BY <2>3 DEF Surjection, place
<1>7. \A k \in 1 .. n : Lowest(k) \in Unused /\ Place(Lowest(k)) = k
  BY <1>6 DEF Lowest
<1>. QED BY <1>2, <1>3, <1>5, <1>7

\* The six ends, which are all of the same handle.
LEMMA SixEnds ==
    ASSUME Sensible, NEW p \in Proc
    PROVE  /\ \A k \in 1 .. 6 : PipeEnds(p)[k] \in End /\ PipeEnds(p)[k] # Free /\ PipeEnds(p)[k][1] = p
           /\ PipeEnds(p)[2] = <<p, "input", "w">> /\ PipeEnds(p)[3] = <<p, "output", "r">>
           /\ PipeEnds(p)[5] = <<p, "error", "r">>
<1>1. /\ PipeEnds(p)[1] = <<p, "input", "r">> /\ PipeEnds(p)[2] = <<p, "input", "w">>
      /\ PipeEnds(p)[3] = <<p, "output", "r">> /\ PipeEnds(p)[4] = <<p, "output", "w">>
      /\ PipeEnds(p)[5] = <<p, "error", "r">> /\ PipeEnds(p)[6] = <<p, "error", "w">>
  BY DEF PipeEnds
<1>2. \A s \in Stream, d \in {"r", "w"} : <<p, s, d>> \in End /\ <<p, s, d>> # Free /\ <<p, s, d>>[1] = p
  BY DEF Sensible, End
<1>3. ASSUME NEW k \in 1 .. 6
      PROVE  \E s \in Stream, d \in {"r", "w"} : PipeEnds(p)[k] = <<p, s, d>>
  <2>1. k = 1 \/ k = 2 \/ k = 3 \/ k = 4 \/ k = 5 \/ k = 6
    OBVIOUS
  <2>. QED BY <1>1, <2>1 DEF Stream
<1>4. ASSUME NEW k \in 1 .. 6
      PROVE  PipeEnds(p)[k] \in End /\ PipeEnds(p)[k] # Free /\ PipeEnds(p)[k][1] = p
  <2>1. PICK s \in Stream, d \in {"r", "w"} : PipeEnds(p)[k] = <<p, s, d>>
    BY <1>3
  <2>2. <<p, s, d>> \in End /\ <<p, s, d>> # Free /\ <<p, s, d>>[1] = p
    BY <1>2
  <2>. QED BY <2>1, <2>2
<1>. QED BY <1>1, <1>4

\* The table with the first n ends of a handle's pipes.
PipesAdded(p, n) ==
    /\ WithPipes(p, n) \in [3 .. limit - 1 -> End \cup {Free}]
    /\ \A k \in 1 .. n : Lowest(k) \in Unused /\ WithPipes(p, n)[Lowest(k)] = PipeEnds(p)[k]
    /\ \A fd \in DOMAIN fds : fds[fd] # Free => WithPipes(p, n)[fd] = fds[fd]
    /\ \A fd \in DOMAIN fds : fds[fd] = Free /\ WithPipes(p, n)[fd] # Free =>
          \E k \in 1 .. n : fd = Lowest(k)

\* They take unused descriptors and leave the others as they are.
LEMMA AddPipes ==
    ASSUME Sensible, TableInv, NEW p \in Proc, NEW n \in 0 .. 6, n <= Cardinality(Unused)
    PROVE  PipesAdded(p, n)
<1>1. /\ DOMAIN fds = 3 .. limit - 1 /\ \A fd \in DOMAIN fds : fds[fd] \in End \cup {Free}
      /\ \A fd \in DOMAIN fds : fd \in Unused <=> fds[fd] = Free
      /\ Unused \subseteq DOMAIN fds
  BY DEF TableInv, Unused
<1>2. /\ Cardinality(Unused) \in Nat
      /\ \A fd \in Unused : Place(fd) \in 1 .. Cardinality(Unused)
      /\ \A f, g \in Unused : Place(f) = Place(g) => f = g
      /\ \A k \in 1 .. Cardinality(Unused) : Lowest(k) \in Unused /\ Place(Lowest(k)) = k
  BY Places
<1>3. \A k \in 1 .. 6 : PipeEnds(p)[k] \in End
  BY SixEnds
<1>4. \A k \in 1 .. n : k \in 1 .. Cardinality(Unused) /\ k <= n
  BY <1>2
<1>5. \A fd \in DOMAIN fds : WithPipes(p, n)[fd] = IF fd \in Unused /\ Place(fd) <= n
                                                     THEN PipeEnds(p)[Place(fd)] ELSE fds[fd]
  BY DEF WithPipes
<1>6. \A fd \in Unused : Place(fd) <= n => Place(fd) \in 1 .. n /\ Place(fd) \in 1 .. 6
  BY <1>2
<1>7. WithPipes(p, n) \in [3 .. limit - 1 -> End \cup {Free}]
  <2>1. \A fd \in DOMAIN fds : (IF fd \in Unused /\ Place(fd) <= n
                                  THEN PipeEnds(p)[Place(fd)] ELSE fds[fd]) \in End \cup {Free}
    BY <1>1, <1>3, <1>6
  <2>. QED BY <1>1, <2>1 DEF WithPipes
<1>8. ASSUME NEW k \in 1 .. n
      PROVE  Lowest(k) \in Unused /\ WithPipes(p, n)[Lowest(k)] = PipeEnds(p)[k]
  <2>1. Lowest(k) \in Unused /\ Place(Lowest(k)) = k /\ k <= n
    BY <1>2, <1>4
  <2>. QED BY <1>1, <1>5, <2>1
<1>9. \A fd \in DOMAIN fds : fds[fd] # Free => WithPipes(p, n)[fd] = fds[fd]
  BY <1>1, <1>5
<1>10. ASSUME NEW fd \in DOMAIN fds, fds[fd] = Free, WithPipes(p, n)[fd] # Free
       PROVE  \E k \in 1 .. n : fd = Lowest(k)
  <2>1. fd \in Unused /\ Place(fd) <= n
    BY <1>1, <1>5, <1>10
  <2>2. Place(fd) \in 1 .. n
    BY <1>6, <2>1
  <2>3. Lowest(Place(fd)) \in Unused /\ Place(Lowest(Place(fd))) = Place(fd)
    BY <1>2, <2>1
  <2>. QED BY <1>2, <2>1, <2>2, <2>3
<1>. QED BY <1>7, <1>8, <1>9, <1>10 DEF PipesAdded

-----------------------------------------------------------------------------
(* The descriptors of handles.                                              *)

\* What an open handle has for a number is that number's end of its own pipe.
HandleInv ==
    \A p \in Proc : status[p] = "open" =>
       /\ oread[p] \in DOMAIN fds /\ fds[oread[p]] = <<p, "output", "r">>
       /\ eread[p] \in DOMAIN fds /\ fds[eread[p]] = <<p, "error", "r">>
       /\ iwrite[p] # -1 => iwrite[p] \in DOMAIN fds /\ fds[iwrite[p]] = <<p, "input", "w">>

\* An end in the table is one of an open handle, or left over.
OwnerInv ==
    \A fd \in DOMAIN fds : fds[fd] # Free =>
       LET p == fds[fd][1]
       IN  \/ status[p] = "failed"
           \/ status[p] = "open" /\ fd \in {oread[p], eread[p], iwrite[p]}

\* No child holds the end that its own input is written to.
InputInv == \A p \in Proc : <<p, "input", "w">> \notin ends[p]

ArraysInv ==
    /\ iwrite \in [Proc -> Int] /\ oread \in [Proc -> Int] /\ eread \in [Proc -> Int]
    /\ status \in [Proc -> {"new", "failed", "open", "closed"}]
    /\ ends \in [Proc -> SUBSET End]

DescriptorInv == TableInv /\ ArraysInv /\ HandleInv /\ OwnerInv /\ InputInv

\* No descriptor is in use, and no handle open, at first.
LEMMA DescriptorInit == Sensible /\ ProcessInit => DescriptorInv
<1>. SUFFICES ASSUME Sensible, ProcessInit PROVE DescriptorInv
  OBVIOUS
<1>1. TableInv
  BY DEF Sensible, ProcessInit, TableInv
<1>2. ArraysInv /\ InputInv
  BY DEF ProcessInit, ArraysInv, InputInv
<1>3. HandleInv /\ OwnerInv
  BY DEF ProcessInit, HandleInv, OwnerInv
<1>. QED BY <1>1, <1>2, <1>3 DEF DescriptorInv

\* process_run without enough descriptors: those it has got are left over.
LEMMA FailStep ==
    ASSUME Sensible, DescriptorInv, NEW p \in Proc, PipeFails(p) \/ ForkFails(p)
    PROVE  DescriptorInv'
<1>1. /\ status[p] = "new" /\ status' = [status EXCEPT ![p] = "failed"]
      /\ UNCHANGED <<limit, iwrite, oread, eread, ends>>
  BY DEF PipeFails, ForkFails, New
<1>2. /\ DOMAIN fds = 3 .. limit - 1 /\ TableInv /\ ArraysInv
      /\ \A fd \in DOMAIN fds : fds[fd] # Free => fds[fd] \in End /\ fds[fd][1] \in Proc
  BY DEF DescriptorInv, TableInv, End
<1>3. \E n \in 0 .. 6 : (PipesAdded(p, n) /\ fds' = WithPipes(p, n)) \/ fds' = fds
  <2>1. Cardinality(Unused) \in Nat
    BY <1>2, Places
  <2>2. CASE PipeFails(p)
    <3>. DEFINE c == Cardinality(Unused)
    <3>1. c < 6 /\ fds' = WithPipes(p, 2 * (c \div 2))
      BY <2>2 DEF PipeFails
    <3>. HIDE DEF c
    <3>2. 2 * (c \div 2) \in 0 .. 6 /\ 2 * (c \div 2) <= c
      <4>1. c = 0 \/ c = 1 \/ c = 2 \/ c = 3 \/ c = 4 \/ c = 5
        BY <2>1, <3>1 DEF c
      <4>. QED BY <4>1
    <3>3. PipesAdded(p, 2 * (c \div 2))
      BY <1>2, <3>2, AddPipes DEF c
    <3>. QED BY <3>1, <3>2, <3>3
  <2>3. CASE ForkFails(p)
    BY <2>3 DEF ForkFails
  <2>. QED BY <2>2, <2>3
<1>4. PICK n \in 0 .. 6 : (PipesAdded(p, n) /\ fds' = WithPipes(p, n)) \/ fds' = fds
  BY <1>3
<1>5. /\ fds' \in [3 .. limit - 1 -> End \cup {Free}] /\ DOMAIN fds' = DOMAIN fds
      /\ \A fd \in DOMAIN fds : fds[fd] # Free => fds'[fd] = fds[fd]
      /\ \A fd \in DOMAIN fds : fds[fd] = Free /\ fds'[fd] # Free => fds'[fd][1] = p
  <2>1. CASE fds' = fds
    BY <1>2, <2>1 DEF TableInv
  <2>2. CASE PipesAdded(p, n) /\ fds' = WithPipes(p, n)
    <3>1. /\ fds' \in [3 .. limit - 1 -> End \cup {Free}] /\ DOMAIN fds' = DOMAIN fds
          /\ \A k \in 1 .. n : fds'[Lowest(k)] = PipeEnds(p)[k]
          /\ \A fd \in DOMAIN fds : fds[fd] # Free => fds'[fd] = fds[fd]
          /\ \A fd \in DOMAIN fds : fds[fd] = Free /\ fds'[fd] # Free => \E k \in 1 .. n : fd = Lowest(k)
      BY <1>2, <2>2 DEF PipesAdded
    <3>2. \A k \in 1 .. n : PipeEnds(p)[k][1] = p
      <4>1. \A k \in 1 .. n : k \in 1 .. 6
        OBVIOUS
      <4>. QED BY <4>1, SixEnds
    <3>. QED BY <3>1, <3>2
  <2>. QED BY <1>4, <2>1, <2>2
<1>6. TableInv' /\ ArraysInv' /\ InputInv'
  BY <1>1, <1>2, <1>5 DEF DescriptorInv, TableInv, ArraysInv, InputInv
<1>7. \A q \in Proc : q # p => status'[q] = status[q]
  BY <1>1, <1>2 DEF ArraysInv
<1>8. status'[p] = "failed"
  BY <1>1, <1>2 DEF ArraysInv
<1>9. HandleInv'
  <2>. SUFFICES ASSUME NEW q \in Proc, status'[q] = "open"
                PROVE  /\ oread[q] \in DOMAIN fds' /\ fds'[oread[q]] = <<q, "output", "r">>
                       /\ eread[q] \in DOMAIN fds' /\ fds'[eread[q]] = <<q, "error", "r">>
                       /\ iwrite[q] # -1 => iwrite[q] \in DOMAIN fds' /\ fds'[iwrite[q]] = <<q, "input", "w">>
    BY <1>1 DEF HandleInv
  <2>1. status[q] = "open"
    BY <1>7, <1>8
  <2>2. \A s \in Stream, d \in {"r", "w"} : <<q, s, d>> # Free
    BY DEF Sensible, End
  <2>. QED BY <1>5, <2>1, <2>2 DEF DescriptorInv, HandleInv, Stream
<1>10. OwnerInv'
  <2>. SUFFICES ASSUME NEW fd \in DOMAIN fds, fds'[fd] # Free
                PROVE  \/ status'[fds'[fd][1]] = "failed"
                       \/ /\ status'[fds'[fd][1]] = "open"
                          /\ fd \in {oread[fds'[fd][1]], eread[fds'[fd][1]], iwrite[fds'[fd][1]]}
    BY <1>1, <1>5 DEF OwnerInv
  <2>1. CASE fds[fd] = Free
    BY <1>5, <1>8, <2>1
  <2>2. CASE fds[fd] # Free
    <3>. DEFINE q == fds[fd][1]
    <3>1. fds'[fd] = fds[fd] /\ q \in Proc
      BY <1>2, <1>5, <2>2
    <3>2. status[q] = "failed" \/ (status[q] = "open" /\ fd \in {oread[q], eread[q], iwrite[q]})
      BY <2>2 DEF DescriptorInv, OwnerInv
    <3>3. q # p
      BY <1>1, <3>2
    <3>. QED BY <1>7, <3>1, <3>2, <3>3
  <2>. QED BY <2>1, <2>2
<1>. QED BY <1>6, <1>9, <1>10 DEF DescriptorInv

\* process_run: the parent keeps one end of each pipe, the child the other.
LEMMA RunStep ==
    ASSUME Sensible, DescriptorInv, NEW p \in Proc, Run(p)
    PROVE  DescriptorInv'
<1>. DEFINE W == WithPipes(p, 6)
            c == Cardinality(Unused)
            closed == {Lowest(k) : k \in ClosedByParent}
<1>1. /\ status[p] = "new" /\ status' = [status EXCEPT ![p] = "open"]
      /\ fds' = Close(W, closed) /\ c >= 6
      /\ iwrite' = [iwrite EXCEPT ![p] = Lowest(2)]
      /\ oread' = [oread EXCEPT ![p] = Lowest(3)]
      /\ eread' = [eread EXCEPT ![p] = Lowest(5)]
      /\ ends' = [ends EXCEPT ![p] = (Range(W) \ {Free}) \ ClosedByChild(p)]
      /\ limit' = limit
  BY DEF Run, New
<1>2. /\ DOMAIN fds = 3 .. limit - 1 /\ TableInv /\ ArraysInv
      /\ \A fd \in DOMAIN fds : fds[fd] # Free => fds[fd] \in End /\ fds[fd][1] \in Proc
      /\ limit \in Nat
  BY DEF DescriptorInv, TableInv, End
<1>3. c \in Nat /\ \A f, g \in 1 .. 6 : Lowest(f) = Lowest(g) => f = g
  <2>1. /\ c \in Nat
        /\ \A k \in 1 .. c : Lowest(k) \in Unused /\ Place(Lowest(k)) = k
    BY <1>2, Places
  <2>2. \A k \in 1 .. 6 : k \in 1 .. c
    BY <1>1, <2>1
  <2>. QED BY <2>1, <2>2
<1>4. PipesAdded(p, 6)
  BY <1>1, <1>2, <1>3, AddPipes
<1>. HIDE DEF W, c
<1>5. /\ W \in [3 .. limit - 1 -> End \cup {Free}]
      /\ \A k \in 1 .. 6 : Lowest(k) \in Unused /\ W[Lowest(k)] = PipeEnds(p)[k]
      /\ \A fd \in DOMAIN fds : fds[fd] # Free => W[fd] = fds[fd]
      /\ \A fd \in DOMAIN fds : fds[fd] = Free /\ W[fd] # Free => \E k \in 1 .. 6 : fd = Lowest(k)
  BY <1>4 DEF PipesAdded, W
<1>6. /\ \A k \in 1 .. 6 : PipeEnds(p)[k] # Free /\ PipeEnds(p)[k][1] = p
      /\ PipeEnds(p)[2] = <<p, "input", "w">> /\ PipeEnds(p)[3] = <<p, "output", "r">>
      /\ PipeEnds(p)[5] = <<p, "error", "r">>
  BY SixEnds
<1>7. \A k \in 1 .. 6 : Lowest(k) \in DOMAIN fds /\ fds[Lowest(k)] = Free
  BY <1>5 DEF Unused
<1>8. \A k \in 1 .. 6 : Lowest(k) \in closed <=> k \in {1, 4, 6}
  BY <1>3 DEF ClosedByParent
<1>9. \A fd \in closed : \E k \in 1 .. 6 : fd = Lowest(k)
  BY DEF ClosedByParent
<1>. HIDE DEF closed
<1>10. /\ DOMAIN fds' = DOMAIN fds /\ fds' \in [3 .. limit - 1 -> End \cup {Free}]
       /\ \A fd \in DOMAIN fds : fds'[fd] = IF fd \in closed THEN Free ELSE W[fd]
  BY <1>1, <1>2, <1>5 DEF Close
<1>11. /\ Lowest(2) \in DOMAIN fds /\ fds'[Lowest(2)] = <<p, "input", "w">>
       /\ Lowest(3) \in DOMAIN fds /\ fds'[Lowest(3)] = <<p, "output", "r">>
       /\ Lowest(5) \in DOMAIN fds /\ fds'[Lowest(5)] = <<p, "error", "r">>
  <2>1. 2 \in 1 .. 6 /\ 3 \in 1 .. 6 /\ 5 \in 1 .. 6
    OBVIOUS
  <2>2. Lowest(2) \notin closed /\ Lowest(3) \notin closed /\ Lowest(5) \notin closed
    BY <1>8, <2>1
  <2>. QED BY <1>5, <1>6, <1>7, <1>10, <2>1, <2>2
<1>12. \A fd \in DOMAIN fds : fds[fd] # Free => fds'[fd] = fds[fd]
  BY <1>5, <1>7, <1>9, <1>10
<1>13. ASSUME NEW fd \in DOMAIN fds, fds[fd] = Free, fds'[fd] # Free
       PROVE  fds'[fd][1] = p /\ fd \in {Lowest(2), Lowest(3), Lowest(5)}
  <2>1. fd \notin closed /\ W[fd] # Free /\ fds'[fd] = W[fd]
    BY <1>10, <1>13
  <2>2. PICK k \in 1 .. 6 : fd = Lowest(k)
    BY <1>5, <1>13, <2>1
  <2>3. k = 2 \/ k = 3 \/ k = 5
    <3>1. k \notin {1, 4, 6}
      BY <1>8, <2>1, <2>2
    <3>. QED BY <3>1
  <2>. QED BY <1>5, <1>6, <2>1, <2>2, <2>3
<1>14. /\ status'[p] = "open" /\ iwrite'[p] = Lowest(2) /\ oread'[p] = Lowest(3) /\ eread'[p] = Lowest(5)
       /\ \A q \in Proc : q # p => /\ status'[q] = status[q] /\ iwrite'[q] = iwrite[q]
                                   /\ oread'[q] = oread[q] /\ eread'[q] = eread[q]
  BY <1>1, <1>2 DEF ArraysInv
<1>15. \A fd \in DOMAIN fds : fd \in Int
  BY <1>2
<1>16. ArraysInv'
  <2>1. Lowest(2) \in Int /\ Lowest(3) \in Int /\ Lowest(5) \in Int
    BY <1>11, <1>15
  <2>2. /\ iwrite' \in [Proc -> Int] /\ oread' \in [Proc -> Int] /\ eread' \in [Proc -> Int]
        /\ status' \in [Proc -> {"new", "failed", "open", "closed"}]
    BY <1>1, <1>2, <2>1 DEF ArraysInv
  <2>3. Range(W) \ {Free} \subseteq End
    BY <1>5 DEF Range
  <2>4. ends' \in [Proc -> SUBSET End]
    BY <1>1, <1>2, <2>3 DEF ArraysInv
  <2>. QED BY <2>2, <2>4 DEF ArraysInv
<1>17. InputInv'
  <2>. SUFFICES ASSUME NEW q \in Proc PROVE <<q, "input", "w">> \notin ends'[q]
    BY DEF InputInv
  <2>1. CASE q = p
    BY <1>1, <1>2, <2>1 DEF ArraysInv, ClosedByChild
  <2>2. CASE q # p
    BY <1>1, <1>2, <2>2 DEF DescriptorInv, InputInv, ArraysInv
  <2>. QED BY <2>1, <2>2
<1>18. HandleInv'
  <2>. SUFFICES ASSUME NEW q \in Proc, status'[q] = "open"
                PROVE  /\ oread'[q] \in DOMAIN fds' /\ fds'[oread'[q]] = <<q, "output", "r">>
                       /\ eread'[q] \in DOMAIN fds' /\ fds'[eread'[q]] = <<q, "error", "r">>
                       /\ iwrite'[q] # -1 => iwrite'[q] \in DOMAIN fds' /\ fds'[iwrite'[q]] = <<q, "input", "w">>
    BY DEF HandleInv
  <2>1. CASE q = p
    BY <1>10, <1>11, <1>14, <2>1
  <2>2. CASE q # p
    <3>1. status[q] = "open" /\ iwrite'[q] = iwrite[q] /\ oread'[q] = oread[q] /\ eread'[q] = eread[q]
      BY <1>14, <2>2
    <3>2. \A s \in Stream, d \in {"r", "w"} : <<q, s, d>> # Free
      BY DEF Sensible, End
    <3>3. <<q, "output", "r">> # Free /\ <<q, "error", "r">> # Free /\ <<q, "input", "w">> # Free
      BY <3>2 DEF Stream
    <3>4. /\ oread[q] \in DOMAIN fds /\ fds[oread[q]] = <<q, "output", "r">>
          /\ eread[q] \in DOMAIN fds /\ fds[eread[q]] = <<q, "error", "r">>
          /\ iwrite[q] # -1 => iwrite[q] \in DOMAIN fds /\ fds[iwrite[q]] = <<q, "input", "w">>
      BY <3>1 DEF DescriptorInv, HandleInv
    <3>5. DOMAIN fds' = DOMAIN fds
      BY <1>10
    <3>6. oread'[q] \in DOMAIN fds' /\ fds'[oread'[q]] = <<q, "output", "r">>
      BY <1>12, <3>1, <3>3, <3>4, <3>5
    <3>7. eread'[q] \in DOMAIN fds' /\ fds'[eread'[q]] = <<q, "error", "r">>
      BY <1>12, <3>1, <3>3, <3>4, <3>5
    <3>8. iwrite'[q] # -1 => iwrite'[q] \in DOMAIN fds' /\ fds'[iwrite'[q]] = <<q, "input", "w">>
      BY <1>12, <3>1, <3>3, <3>4, <3>5
    <3>. QED BY <3>6, <3>7, <3>8
  <2>. QED BY <2>1, <2>2
<1>19. OwnerInv'
  <2>. SUFFICES ASSUME NEW fd \in DOMAIN fds, fds'[fd] # Free
                PROVE  \/ status'[fds'[fd][1]] = "failed"
                       \/ /\ status'[fds'[fd][1]] = "open"
                          /\ fd \in {oread'[fds'[fd][1]], eread'[fds'[fd][1]], iwrite'[fds'[fd][1]]}
    BY <1>10 DEF OwnerInv
  <2>1. CASE fds[fd] = Free
    <3>1. fds'[fd][1] = p /\ fd \in {Lowest(2), Lowest(3), Lowest(5)}
      BY <1>13, <2>1
    <3>. QED BY <1>14, <3>1
  <2>2. CASE fds[fd] # Free
    <3>. DEFINE q == fds[fd][1]
    <3>1. fds'[fd] = fds[fd] /\ q \in Proc
      BY <1>2, <1>12, <2>2
    <3>2. status[q] = "failed" \/ (status[q] = "open" /\ fd \in {oread[q], eread[q], iwrite[q]})
      BY <2>2 DEF DescriptorInv, OwnerInv
    <3>3. q # p
      BY <1>1, <3>2
    <3>. QED BY <1>14, <3>1, <3>2, <3>3
  <2>. QED BY <2>1, <2>2
<1>20. TableInv'
  BY <1>1, <1>2, <1>10 DEF TableInv
<1>. QED BY <1>16, <1>17, <1>18, <1>19, <1>20 DEF DescriptorInv

\* close: the descriptors that a handle has are given back, those of others stay.
LEMMA CloseStep ==
    ASSUME Sensible, DescriptorInv, NEW p \in Proc, StdinClose(p) \/ CloseProcess(p)
    PROVE  DescriptorInv'
<1>. DEFINE which == IF StdinClose(p) THEN {iwrite[p]} ELSE {eread[p], oread[p], iwrite[p]}
<1>1. /\ status[p] = "open" /\ UNCHANGED <<limit, oread, eread, ends>>
      /\ fds' = Close(fds, which) /\ which \subseteq {eread[p], oread[p], iwrite[p]}
      /\ \/ iwrite[p] # -1 /\ which = {iwrite[p]}
            /\ iwrite' = [iwrite EXCEPT ![p] = -1] /\ status' = status
         \/ which = {eread[p], oread[p], iwrite[p]}
            /\ iwrite' = iwrite /\ status' = [status EXCEPT ![p] = "closed"]
  BY DEF StdinClose, CloseProcess, Usable
<1>. HIDE DEF which
<1>2. /\ DOMAIN fds = 3 .. limit - 1 /\ TableInv /\ ArraysInv /\ -1 \notin DOMAIN fds
      /\ \A fd \in DOMAIN fds : fds[fd] # Free => fds[fd] \in End /\ fds[fd][1] \in Proc
  BY DEF DescriptorInv, TableInv, End
<1>3. /\ fds' \in [3 .. limit - 1 -> End \cup {Free}] /\ DOMAIN fds' = DOMAIN fds
      /\ \A fd \in DOMAIN fds : fds'[fd] = IF fd \in which THEN Free ELSE fds[fd]
  BY <1>1, <1>2 DEF Close, TableInv
<1>4. /\ TableInv' /\ ArraysInv' /\ InputInv'
      /\ \A q \in Proc : q # p => status'[q] = status[q] /\ iwrite'[q] = iwrite[q]
  <2>1. TableInv' /\ InputInv'
    BY <1>1, <1>2, <1>3 DEF DescriptorInv, TableInv, InputInv
  <2>2. /\ iwrite' \in [Proc -> Int] /\ status' \in [Proc -> {"new", "failed", "open", "closed"}]
        /\ \A q \in Proc : q # p => status'[q] = status[q] /\ iwrite'[q] = iwrite[q]
    <3>1. iwrite \in [Proc -> Int] /\ status \in [Proc -> {"new", "failed", "open", "closed"}] /\ -1 \in Int
      BY <1>2 DEF ArraysInv
    <3>2. CASE iwrite' = [iwrite EXCEPT ![p] = -1] /\ status' = status
      BY <3>1, <3>2
    <3>3. CASE iwrite' = iwrite /\ status' = [status EXCEPT ![p] = "closed"]
      BY <3>1, <3>3
    <3>. QED BY <1>1, <3>2, <3>3
  <2>3. ArraysInv'
    BY <1>1, <1>2, <2>2 DEF ArraysInv
  <2>. QED BY <2>1, <2>2, <2>3
\* What is given back is an end of p's pipes, or no descriptor.
<1>5. \A fd \in which : fd \in DOMAIN fds => fds[fd][1] = p
  BY <1>1, <1>2 DEF DescriptorInv, HandleInv
<1>6. HandleInv'
  <2>. SUFFICES ASSUME NEW q \in Proc, status'[q] = "open"
                PROVE  /\ oread[q] \in DOMAIN fds' /\ fds'[oread[q]] = <<q, "output", "r">>
                       /\ eread[q] \in DOMAIN fds' /\ fds'[eread[q]] = <<q, "error", "r">>
                       /\ iwrite'[q] # -1 => iwrite'[q] \in DOMAIN fds' /\ fds'[iwrite'[q]] = <<q, "input", "w">>
    BY <1>1 DEF HandleInv
  <2>1. CASE q = p
    <3>1. which = {iwrite[p]} /\ iwrite[p] # -1 /\ iwrite'[p] = -1
      BY <1>1, <1>2, <2>1 DEF ArraysInv
    <3>2. /\ oread[p] \in DOMAIN fds /\ fds[oread[p]] = <<p, "output", "r">>
          /\ eread[p] \in DOMAIN fds /\ fds[eread[p]] = <<p, "error", "r">>
          /\ fds[iwrite[p]] = <<p, "input", "w">>
      BY <1>1, <3>1 DEF DescriptorInv, HandleInv
    <3>3. oread[p] # iwrite[p] /\ eread[p] # iwrite[p]
      BY <3>2
    <3>. QED BY <1>3, <2>1, <3>1, <3>2, <3>3
  <2>2. CASE q # p
    <3>1. /\ status[q] = "open" /\ iwrite'[q] = iwrite[q]
      BY <1>4, <2>2
    <3>2. /\ oread[q] \in DOMAIN fds /\ fds[oread[q]] = <<q, "output", "r">>
          /\ eread[q] \in DOMAIN fds /\ fds[eread[q]] = <<q, "error", "r">>
          /\ iwrite[q] # -1 => iwrite[q] \in DOMAIN fds /\ fds[iwrite[q]] = <<q, "input", "w">>
      BY <3>1 DEF DescriptorInv, HandleInv
    <3>3. /\ oread[q] \notin which /\ eread[q] \notin which
          /\ iwrite[q] # -1 => iwrite[q] \notin which
      BY <1>5, <2>2, <3>2
    <3>. QED BY <1>3, <3>1, <3>2, <3>3
  <2>. QED BY <2>1, <2>2
<1>7. OwnerInv'
  <2>. SUFFICES ASSUME NEW fd \in DOMAIN fds, fds'[fd] # Free
                PROVE  \/ status'[fds'[fd][1]] = "failed"
                       \/ /\ status'[fds'[fd][1]] = "open"
                          /\ fd \in {oread[fds'[fd][1]], eread[fds'[fd][1]], iwrite'[fds'[fd][1]]}
    BY <1>1, <1>3 DEF OwnerInv
  <2>. DEFINE q == fds[fd][1]
  <2>1. fds'[fd] = fds[fd] /\ fd \notin which /\ fds[fd] # Free /\ q \in Proc
    BY <1>2, <1>3
  <2>2. status[q] = "failed" \/ (status[q] = "open" /\ fd \in {oread[q], eread[q], iwrite[q]})
    BY <2>1 DEF DescriptorInv, OwnerInv
  <2>3. CASE q = p
    <3>1. fd \in {oread[p], eread[p], iwrite[p]}
      BY <1>1, <2>2, <2>3
    <3>2. which = {iwrite[p]} /\ status' = status
      BY <1>1, <2>1, <3>1
    <3>. QED BY <1>1, <2>1, <2>3, <3>1, <3>2
  <2>4. CASE q # p
    BY <1>4, <2>1, <2>2, <2>4
  <2>. QED BY <2>3, <2>4
<1>. QED BY <1>4, <1>6, <1>7 DEF DescriptorInv

\* Every step keeps the invariant; most do not touch the table.
LEMMA DescriptorStep == Sensible /\ DescriptorInv /\ [ProcessNext]_subVars => DescriptorInv'
<1>. SUFFICES ASSUME Sensible, DescriptorInv, [ProcessNext]_subVars PROVE DescriptorInv'
  OBVIOUS
<1>1. ASSUME NEW p \in Proc,
             \/ PipeFails(p) \/ ForkFails(p) \/ Run(p) \/ StdinClose(p) \/ CloseProcess(p)
      PROVE  DescriptorInv'
  BY <1>1, FailStep, RunStep, CloseStep
<1>2. ASSUME UNCHANGED <<limit, fds, status, iwrite, oread, eread, ends>> PROVE DescriptorInv'
  <2>1. TableInv' /\ ArraysInv' /\ InputInv'
    BY <1>2 DEF DescriptorInv, TableInv, ArraysInv, InputInv
  <2>2. HandleInv'
    BY <1>2 DEF DescriptorInv, HandleInv
  <2>3. OwnerInv'
    BY <1>2 DEF DescriptorInv, OwnerInv
  <2>. QED BY <2>1, <2>2, <2>3 DEF DescriptorInv
<1>3. CASE UNCHANGED subVars
  <2>1. UNCHANGED <<limit, fds, status, iwrite, oread, eread, ends>>
    BY <1>3 DEF subVars
  <2>. QED BY <1>2, <2>1
<1>4. CASE ProcessReturns
  BY <1>2, <1>4 DEF ProcessReturns, Read, Write, WaitPid
<1>5. ASSUME NEW p \in Proc,
             \/ Kill(p) \/ StdoutRead(p) \/ StderrRead(p) \/ StdinWrite(p) \/ Exit(p)
             \/ ChildReads(p) \/ ChildEnds(p) \/ \E s \in Stream : ChildWrites(p, s)
      PROVE  DescriptorInv'
  BY <1>2, <1>5 DEF Kill, Ends, StdoutRead, StderrRead, StdinWrite, Exit, Call, ChildReads,
                    ChildEnds, ChildWrites
<1>. QED BY <1>1, <1>3, <1>4, <1>5 DEF ProcessNext

\* The invariant of the descriptors holds in every state.
LEMMA DescriptorAlways == ASSUME Sensible PROVE ProcessSpec => []DescriptorInv
<1>1. ProcessInit => DescriptorInv
  BY DescriptorInit
<1>2. DescriptorInv /\ [ProcessNext]_subVars => DescriptorInv'
  BY DescriptorStep
<1>. QED BY <1>1, <1>2, PTL DEF ProcessSpec

-----------------------------------------------------------------------------
\* process_run, process_stdin_close and process_close: an open handle has the ends of its own
\* pipes for as long as it may be used, whichever numbers are given out again meanwhile, and
\* the compiler has no other descriptor but those that runs that failed have left.
THEOREM HandlesOwnDescriptors == ProcessSpec => []OwnDescriptors
<1>1. Sensible
  BY DescriptorsAssumption DEF Sensible
<1>2. DescriptorInv => OwnDescriptors
  BY DEF DescriptorInv, HandleInv, OwnerInv, OwnDescriptors
<1>3. ProcessSpec => []DescriptorInv
  BY <1>1, DescriptorAlways
<1>. QED BY <1>2, <1>3, PTL

\* process_stdin_close and process_close: once they have returned, nobody but another child
\* that was started before can keep a program waiting for more input.
THEOREM ClosedInputEnds == ProcessSpec => []InputEnds
<1>1. Sensible
  BY DescriptorsAssumption DEF Sensible
<1>2. ASSUME DescriptorInv PROVE InputEnds
  <2>. SUFFICES ASSUME NEW p \in Proc,
                       status[p] = "closed" \/ (status[p] = "open" /\ iwrite[p] = -1),
                       Open(<<p, "input", "w">>)
                PROVE  Heirs(p) # {}
    BY DEF InputEnds
  <2>. DEFINE e == <<p, "input", "w">>
  <2>1. e # Free /\ e[1] = p
    BY <1>1 DEF Sensible, End, Stream
  <2>2. e \notin Range(fds)
    <3>. SUFFICES ASSUME NEW fd \in DOMAIN fds, fds[fd] = e PROVE FALSE
      BY DEF Range
    <3>1. fds[fd] # Free /\ fds[fd][1] = p
      BY <2>1
    <3>2. status[p] = "open" /\ fd \in {oread[p], eread[p], iwrite[p]}
      BY <1>2, <3>1 DEF DescriptorInv, OwnerInv
    <3>3. iwrite[p] = -1 /\ -1 \notin DOMAIN fds
      BY <1>2, <3>2 DEF DescriptorInv, TableInv
    <3>4. fd = oread[p] \/ fd = eread[p]
      BY <3>2, <3>3
    <3>. QED BY <1>2, <3>2, <3>4 DEF DescriptorInv, HandleInv
  <2>3. PICK q \in Proc : Alive(q) /\ e \in ends[q]
    BY <2>2 DEF Open
  <2>4. q # p
    BY <1>2, <2>3 DEF DescriptorInv, InputInv
  <2>. QED BY <2>3, <2>4 DEF Heirs
<1>3. ProcessSpec => []DescriptorInv
  BY <1>1, DescriptorAlways
<1>. QED BY <1>2, <1>3, PTL

-----------------------------------------------------------------------------
(* Regular expressions: the limits of a regexp bound each of its matches, and  *)
(* the offsets of its groups are converted in place without being lost.       *)

\* What pcre_extra may be.
Extra == [flags : SUBSET {"study_data", "callout", "match_limit", "match_limit_recursion"},
          study_data : BOOLEAN, match_limit : Nat, match_limit_recursion : Nat]

\* The limits from left to right are in the extra once their steps have been made.
Made == [match_limit |-> {"compile", "study", "limit"},
         match_limit_recursion |-> {"compile", "study", "limit", "recursion"}]

InMatch == {"match", "copy", "callout", "clear", "done"}

\* While a regexp is made the limits become those asked for; while it is matched
\* the library has its extra or the copy with a callout.
IInv ==
    /\ asked \in [study : BOOLEAN, match_limit : {NULL} \union Nat,
                  match_limit_recursion : {NULL} \union Nat]
    /\ extra \in Extra \union {NULL}
    /\ \A l \in Limits : GetLimit(extra, l) = IF phase \in Made[l] THEN NULL ELSE asked[l]
    /\ phase \in InMatch => given = Given(arg.callout)

\* An extra with a limit set has it, keeps the other one, and is an extra.
LEMMA WithKeeps ==
    ASSUME NULL \notin Extra, NEW e \in Extra \union {NULL}, NEW l \in Limits, NEW n \in Nat
    PROVE  /\ With(e, l, n) \in Extra
           /\ GetLimit(With(e, l, n), l) = n
           /\ \A k \in Limits \ {l} : GetLimit(With(e, l, n), k) = GetLimit(e, k)
<1> DEFINE new == [flags |-> {}, study_data |-> FALSE, match_limit |-> 0, match_limit_recursion |-> 0]
           base == IF e = NULL THEN new ELSE e
           w == With(e, l, n)
<1>1. base \in Extra /\ new \in Extra
  BY DEF Extra
<1>2. CASE l = "match_limit"
  <2>1. w = [base EXCEPT !.flags = @ \union {"match_limit"}, !.match_limit = n]
    BY <1>2 DEF With
  <2> HIDE DEF w, base
  <2>2. w \in Extra /\ w.flags = base.flags \union {"match_limit"} /\ w.match_limit = n
        /\ w.match_limit_recursion = base.match_limit_recursion
    BY <1>1, <2>1 DEF Extra
  <2>3. GetLimit(w, l) = n
    BY <1>2, <2>2 DEF GetLimit
  <2>4. GetLimit(w, "match_limit_recursion") = GetLimit(e, "match_limit_recursion")
    BY <2>2 DEF GetLimit, base
  <2> QED BY <1>2, <2>2, <2>3, <2>4 DEF Limits, w
<1>3. CASE l = "match_limit_recursion"
  <2>1. w = [base EXCEPT !.flags = @ \union {"match_limit_recursion"}, !.match_limit_recursion = n]
    BY <1>3 DEF With
  <2> HIDE DEF w, base
  <2>2. w \in Extra /\ w.flags = base.flags \union {"match_limit_recursion"}
        /\ w.match_limit_recursion = n /\ w.match_limit = base.match_limit
    BY <1>1, <2>1 DEF Extra
  <2>3. GetLimit(w, l) = n
    BY <1>3, <2>2 DEF GetLimit
  <2>4. GetLimit(w, "match_limit") = GetLimit(e, "match_limit")
    BY <2>2 DEF GetLimit, base
  <2> QED BY <1>3, <2>2, <2>3, <2>4 DEF Limits, w
<1> QED BY <1>2, <1>3 DEF Limits

\* The extra of a match with a callout has the limits of the regexp's.
LEMMA GivenKeeps ==
    ASSUME NULL \notin Extra, extra \in Extra \union {NULL}, NEW c, NEW l \in Limits
    PROVE  GetLimit(Given(c), l) = GetLimit(extra, l)
<1>1. CASE ~c
  BY <1>1 DEF Given
<1>2. CASE c /\ extra = NULL
  <2>1. Given(c) = [flags |-> {"callout"}, study_data |-> FALSE, match_limit |-> 0,
                    match_limit_recursion |-> 0]
    BY <1>2 DEF Given
  <2>2. Given(c).flags = {"callout"}
    BY <2>1
  <2>3. l \notin Given(c).flags
    BY <2>2 DEF Limits
  <2> QED BY <1>2, <2>3 DEF GetLimit
<1>3. CASE c /\ extra # NULL
  <2>1. Given(c) = [extra EXCEPT !.flags = @ \union {"callout"}]
    BY <1>3 DEF Given
  <2>2. /\ Given(c) \in Extra
        /\ Given(c).flags = extra.flags \union {"callout"}
        /\ Given(c).match_limit = extra.match_limit
        /\ Given(c).match_limit_recursion = extra.match_limit_recursion
    BY <1>3, <2>1 DEF Extra
  <2>3. CASE l = "match_limit"
    BY <1>3, <2>2, <2>3 DEF GetLimit
  <2>4. CASE l = "match_limit_recursion"
    BY <1>3, <2>2, <2>4 DEF GetLimit
  <2> QED BY <2>3, <2>4 DEF Limits
<1> QED BY <1>1, <1>2, <1>3

\* The three facts of the invariant.
LEMMA IInvInit == ASSUME NULL \notin Extra PROVE Init => IInv
<1> SUFFICES ASSUME Init PROVE IInv
  OBVIOUS
<1>1. asked.match_limit \in {NULL, 1} /\ asked.match_limit_recursion \in {NULL, 2}
      /\ asked \in [study : BOOLEAN, match_limit : {NULL} \union Nat,
                    match_limit_recursion : {NULL} \union Nat]
  BY DEF Init
<1>2. \A l \in Limits : GetLimit(extra, l) = NULL
  BY DEF Init, GetLimit
<1>3. \A l \in Limits : phase \in Made[l]
  BY DEF Init, Made, Limits
<1>4. phase \notin InMatch
  BY DEF Init, InMatch
<1> QED BY <1>1, <1>2, <1>3, <1>4 DEF IInv, Init

\* Each step keeps the invariant: one proof step per action.
LEMMA IInvStep == ASSUME NULL \notin Extra PROVE IInv /\ [Next]_vars => IInv'
<1> SUFFICES ASSUME IInv, [Next]_vars PROVE IInv'
  OBVIOUS
<1> USE DEF IInv
<1>1. CASE Compile
  <2>1. phase = "compile" /\ phase' \in {"study", "limit"} /\ UNCHANGED <<asked, extra>>
    BY <1>1 DEF Compile
  <2>2. \A l \in Limits : phase \in Made[l] /\ phase' \in Made[l]
    BY <2>1 DEF Made, Limits
  <2>3. phase' \notin InMatch
    BY <2>1 DEF InMatch
  <2> QED BY <2>1, <2>2, <2>3 DEF GetLimit
<1>2. CASE Study
  <2>1. phase = "study" /\ phase' = "limit" /\ asked' = asked
    BY <1>2 DEF Study
  <2>2. \A l \in Limits : phase \in Made[l] /\ phase' \in Made[l]
    BY <2>1 DEF Made, Limits
  <2>3. phase' \notin InMatch
    BY <2>1 DEF InMatch
  <2>4. CASE extra' = extra
    BY <2>1, <2>2, <2>3, <2>4 DEF GetLimit
  <2>5. CASE extra' = NULL
    BY <2>1, <2>2, <2>3, <2>5 DEF GetLimit
  <2>6. CASE extra' = [flags |-> {"study_data"}, study_data |-> TRUE,
                       match_limit |-> 0, match_limit_recursion |-> 0]
    <3>1. extra' \in Extra /\ extra'.flags = {"study_data"}
      BY <2>6 DEF Extra
    <3>2. \A l \in Limits : l \notin extra'.flags
      BY <3>1 DEF Limits
    <3>3. \A l \in Limits : GetLimit(extra', l) = NULL
      BY <3>2 DEF GetLimit
    <3> QED BY <2>1, <2>2, <2>3, <3>1, <3>3
  <2> QED BY <1>2, <2>4, <2>5, <2>6 DEF Study
<1>3. CASE SetLimit("limit", "match_limit", "recursion")
  <2>1. /\ phase = "limit" /\ phase' = "recursion" /\ asked' = asked
        /\ extra' = IF asked.match_limit = NULL THEN extra
                    ELSE With(extra, "match_limit", asked.match_limit)
    BY <1>3 DEF SetLimit
  <2>2. /\ \A l \in Limits : phase \in Made[l]
        /\ phase' \notin Made["match_limit"] /\ phase' \in Made["match_limit_recursion"]
        /\ phase' \notin InMatch
    BY <2>1 DEF Made, Limits, InMatch
  <2>3. /\ extra' \in Extra \union {NULL}
        /\ GetLimit(extra', "match_limit") = asked.match_limit
        /\ GetLimit(extra', "match_limit_recursion") = NULL
    <3>1. CASE asked.match_limit = NULL
      BY <2>1, <2>2, <3>1 DEF Limits
    <3>2. CASE asked.match_limit # NULL
      <4>1. asked.match_limit \in Nat
        BY <3>2
      <4>2. GetLimit(extra, "match_limit_recursion") = NULL
        BY <2>2 DEF Limits
      <4>3. "match_limit" \in Limits /\ "match_limit_recursion" \in Limits \ {"match_limit"}
        BY DEF Limits
      <4> QED BY <2>1, <3>2, <4>1, <4>2, <4>3, WithKeeps
    <3> QED BY <3>1, <3>2
  <2> QED BY <2>1, <2>2, <2>3 DEF Limits
<1>4. CASE SetLimit("recursion", "match_limit_recursion", "ready")
  <2>1. /\ phase = "recursion" /\ phase' = "ready" /\ asked' = asked
        /\ extra' = IF asked.match_limit_recursion = NULL THEN extra
                    ELSE With(extra, "match_limit_recursion", asked.match_limit_recursion)
    BY <1>4 DEF SetLimit
  <2>2. /\ phase \notin Made["match_limit"] /\ phase \in Made["match_limit_recursion"]
        /\ \A l \in Limits : phase' \notin Made[l]
        /\ phase' \notin InMatch
    BY <2>1 DEF Made, Limits, InMatch
  <2>3. /\ extra' \in Extra \union {NULL}
        /\ GetLimit(extra', "match_limit") = asked.match_limit
        /\ GetLimit(extra', "match_limit_recursion") = asked.match_limit_recursion
    <3>1. CASE asked.match_limit_recursion = NULL
      BY <2>1, <2>2, <3>1 DEF Limits
    <3>2. CASE asked.match_limit_recursion # NULL
      <4>1. asked.match_limit_recursion \in Nat
        BY <3>2
      <4>2. GetLimit(extra, "match_limit") = asked.match_limit
        BY <2>2 DEF Limits
      <4>3. "match_limit_recursion" \in Limits /\ "match_limit" \in Limits \ {"match_limit_recursion"}
        BY DEF Limits
      <4> QED BY <2>1, <3>2, <4>1, <4>2, <4>3, WithKeeps
    <3> QED BY <3>1, <3>2
  <2> QED BY <2>1, <2>2, <2>3 DEF Limits
<1>5. ASSUME NEW a \in Args, Exec(a) PROVE IInv'
  <2>1. /\ phase = "ready" /\ UNCHANGED <<asked, extra>>
        /\ \/ phase' = "raised"
           \/ phase' = "match" /\ arg' = a /\ given' = Given(a.callout)
    BY <1>5 DEF Exec
  <2>2. \A l \in Limits : phase \notin Made[l] /\ phase' \notin Made[l]
    BY <2>1 DEF Made, Limits
  <2>3. phase' \in InMatch => given' = Given(arg'.callout)
    BY <2>1 DEF InMatch
  <2>4. (Given(arg.callout))' = Given(arg'.callout)
    BY <2>1 DEF Given
  <2> QED BY <2>1, <2>2, <2>3, <2>4
<1>6. ASSUME phase \in InMatch, phase' \in InMatch \union {"raised"},
             UNCHANGED <<asked, extra, arg, given>>
      PROVE  IInv'
  <2>1. \A l \in Limits : phase \notin Made[l] /\ phase' \notin Made[l]
    BY <1>6 DEF Made, Limits, InMatch
  <2>2. given = Given(arg.callout)
    BY <1>6
  <2>3. (Given(arg.callout))' = Given(arg.callout)
    BY <1>6 DEF Given
  <2> QED BY <1>6, <2>1, <2>2, <2>3
<1>7. ASSUME NEW groups, NEW none, Answer(groups, none) PROVE IInv'
  BY <1>6, <1>7 DEF Answer, InMatch
<1>8. CASE Fails
  BY <1>6, <1>8 DEF Fails, InMatch
<1>9. CASE Copy
  BY <1>6, <1>9 DEF Copy, InMatch
<1>10. CASE Copied
  BY <1>6, <1>10 DEF Copied, InMatch
<1>11. CASE Callout
  BY <1>6, <1>11 DEF Callout, InMatch, exec
<1>12. CASE Clear
  BY <1>6, <1>12 DEF Clear, InMatch
<1>13. CASE UNCHANGED vars
  <2>1. UNCHANGED <<phase, asked, extra, arg, given>>
    BY <1>13 DEF vars
  <2>2. (Given(arg.callout))' = Given(arg.callout)
    BY <2>1 DEF Given
  <2> QED BY <2>1, <2>2 DEF GetLimit
<1> QED BY <1>1, <1>2, <1>3, <1>4, <1>5, <1>7, <1>8, <1>9, <1>10, <1>11, <1>12, <1>13
        DEF Next, CallsOut, Matches

\* The invariant says what bounds a match.
LEMMA IInvLimits == ASSUME NULL \notin Extra PROVE IInv => LimitsApply
<1> SUFFICES ASSUME IInv, phase = "match", NEW l \in Limits
             PROVE  GetLimit(given, l) = asked[l] /\ GetLimit(extra, l) = asked[l]
  BY DEF LimitsApply
<1>1. phase \notin Made[l] /\ phase \in InMatch
  BY DEF Made, Limits, InMatch
<1>2. GetLimit(extra, l) = asked[l]
  BY <1>1 DEF IInv
<1>3. given = Given(arg.callout) /\ extra \in Extra \union {NULL}
  BY <1>1 DEF IInv
<1> QED BY <1>2, <1>3, GivenKeeps

\* The limits asked for in regexp bound every match, whether it has a callout or
\* not: pcre_exec_stub copies the flags and limits of the regexp's pcre_extra into
\* its own, and a limit that is set keeps the flags that are there.
THEOREM LimitsHold == ASSUME NULL \notin Extra PROVE Spec => []LimitsApply
<1>1. Init => IInv
  BY IInvInit
<1>2. IInv /\ [Next]_vars => IInv'
  BY IInvStep
<1>3. IInv => LimitsApply
  BY IInvLimits
<1> QED BY <1>1, <1>2, <1>3, PTL DEF Spec

-----------------------------------------------------------------------------
(* The array of offsets.                                                    *)

Groups == arg.captures + 1

\* While a match goes on: what it was called with, the size of the arrays, and the
\* library's workspace, which is never written to by halves that count.
ArrayShape ==
    /\ arg \in Args /\ arg.subj_start >= 0
    /\ DOMAIN words = 0 .. 6 * Groups - 1
    /\ arg.callout => DOMAIN ovec = 0 .. 3 * Groups - 1
    /\ \A i \in 2 * Groups .. 3 * Groups - 1 : Holds(i, 0)

\* The place has been given its offset.
Converted(i) == Holds(i, Offset(i, unset) + arg.subj_start)

\* From the top down to at places are converted; below, the library's are still there.
CopyInv ==
    /\ top \in 1 .. Groups /\ at \in -1 .. 2 * top - 1
    /\ \A i \in 0 .. 2 * top - 1 : i <= at \/ arg.callout =>
          (IF arg.callout THEN ovec[i] ELSE words[i]) = <<"int", Offset(i, unset)>>
    /\ \A i \in 0 .. 2 * top - 1 : i > at => Converted(i)

\* All that the library speaks of are, and up to at the others are unset.
ClearInv ==
    /\ top \in 1 .. Groups
    /\ \A i \in 0 .. 2 * top - 1 : Converted(i)
    /\ phase = "clear" => at \in 2 * top .. 2 * Groups
    /\ phase = "done" => at = 2 * Groups
    /\ phase \in {"clear", "done"} => \A i \in 2 * top .. at - 1 : Holds(i, -1)

OffsetInv ==
    /\ phase \in InMatch => ArrayShape
    /\ phase = "copy" => CopyInv
    /\ phase \in {"callout", "clear", "done"} => ClearInv

\* An offset of a group of the library is no larger than their number.
LEMMA OffsetBounds ==
    ASSUME NEW n \in Nat, NEW i \in 0 .. 2 * n - 1, NEW none
    PROVE  Offset(i, none) \in -1 .. n
<1>1. (i + 1) \div 2 \in 0 .. n
  OBVIOUS
<1>. QED BY <1>1 DEF Offset

\* A place of some array holds an OCaml integer.
HoldsIn(array, i, n) == array[2 * i] = <<"low", n>> /\ array[2 * i + 1] = <<"high", n>>

\* A place that is stored holds the number; no half of another place is touched.
LEMMA StoreHolds ==
    ASSUME NEW N \in Nat, DOMAIN words = 0 .. 6 * N - 1, NEW i \in 0 .. 3 * N - 1, NEW n
    PROVE  /\ DOMAIN Store(i, n) = 0 .. 6 * N - 1 /\ HoldsIn(Store(i, n), i, n)
           /\ \A h \in 0 .. 6 * N - 1 : h # 2 * i /\ h # 2 * i + 1 => Store(i, n)[h] = words[h]
           /\ \A j \in 0 .. 3 * N - 1, m \in Int : j # i /\ Holds(j, m) => HoldsIn(Store(i, n), j, m)
<1>1. 2 * i \in 0 .. 6 * N - 1 /\ 2 * i + 1 \in 0 .. 6 * N - 1 /\ 2 * i # 2 * i + 1
  OBVIOUS
<1>. DEFINE new == Store(i, n)
<1>2. new = [words EXCEPT ![2 * i] = <<"low", n>>, ![2 * i + 1] = <<"high", n>>]
  BY DEF Store
<1>. HIDE DEF new
<1>3. /\ DOMAIN new = 0 .. 6 * N - 1
      /\ new[2 * i] = <<"low", n>> /\ new[2 * i + 1] = <<"high", n>>
      /\ \A h \in 0 .. 6 * N - 1 : h # 2 * i /\ h # 2 * i + 1 => new[h] = words[h]
  BY <1>1, <1>2
<1>4. ASSUME NEW j \in 0 .. 3 * N - 1, NEW m \in Int, j # i, Holds(j, m) PROVE HoldsIn(new, j, m)
  <2>1. /\ 2 * j \in 0 .. 6 * N - 1 /\ 2 * j + 1 \in 0 .. 6 * N - 1
        /\ 2 * j # 2 * i /\ 2 * j # 2 * i + 1 /\ 2 * j + 1 # 2 * i /\ 2 * j + 1 # 2 * i + 1
    BY <1>4
  <2>. QED BY <1>3, <1>4, <2>1 DEF Holds, HoldsIn
<1>. QED BY <1>3, <1>4 DEF HoldsIn, new

\* A step that leaves the arrays and the match alone leaves places as they are.
LEMMA SamePlaces ==
    ASSUME UNCHANGED <<arg, words, ovec, unset, top>>
    PROVE  /\ ArrayShape' = ArrayShape /\ Groups' = Groups
           /\ \A i : Converted(i)' = Converted(i) /\ \A n : Holds(i, n)' = Holds(i, n)
BY DEF ArrayShape, Groups, Converted, Holds

\* The arguments that pass the checks of pcre_exec_stub, and how long the array is.
LEMMA ArgumentTypes ==
    ASSUME ArrayShape
    PROVE  /\ arg.captures \in Nat /\ Groups \in Nat /\ Groups >= 1 /\ Groups <= MaxCaptures + 1
           /\ arg.subj_start \in 0 .. SubjectLen /\ Words(arg) = 3 * Groups
           /\ (2 * Words(arg)) \div 3 = 2 * Groups
<1>1. arg \in Args /\ arg.subj_start >= 0
  BY DEF ArrayShape
<1>2. arg.captures \in 0 .. MaxCaptures /\ arg.subj_start \in -1 .. SubjectLen
  BY <1>1 DEF Args
<1>3. arg.captures \in Nat /\ arg.captures <= MaxCaptures /\ arg.subj_start \in 0 .. SubjectLen
  BY <1>1, <1>2, BoundsAssumption
<1>4. Words(arg) = 3 * (arg.captures + 1) /\ (2 * Words(arg)) \div 3 = 2 * (arg.captures + 1)
  BY <1>3 DEF Words
<1>. QED BY <1>3, <1>4, BoundsAssumption DEF Groups

\* pcre_exec_stub sets the arrays up.
LEMMA ExecOffsets ==
    ASSUME OffsetInv, NEW a \in Args, Exec(a)
    PROVE  OffsetInv'
<1>1. CASE phase' = "raised"
  BY <1>1 DEF OffsetInv, InMatch
<1>2. CASE phase' # "raised"
  <2>1. /\ phase' = "match" /\ arg' = a /\ ~(a.subj_start < 0)
        /\ words' = [h \in 0 .. 2 * Words(a) - 1 |-> <<IF h % 2 = 0 THEN "low" ELSE "high", 0>>]
        /\ ovec' = [h \in (IF a.callout THEN 0 .. Words(a) - 1 ELSE {}) |-> <<"int", 0>>]
    BY <1>2 DEF Exec
  <2>2. a.captures \in Nat /\ a.subj_start \in Int
    BY BoundsAssumption DEF Args
  <2>. DEFINE n == a.captures + 1
  <2>3. Words(a) = 3 * n /\ n \in Nat /\ Groups' = n
    BY <2>1, <2>2 DEF Words, Groups
  <2>. HIDE DEF n
  <2>4. DOMAIN words' = 0 .. 6 * n - 1 /\ (a.callout => DOMAIN ovec' = 0 .. 3 * n - 1)
    BY <2>1, <2>3
  <2>5. ASSUME NEW i \in 2 * n .. 3 * n - 1 PROVE Holds(i, 0)'
    <3>1. /\ 2 * i \in 0 .. 2 * Words(a) - 1 /\ 2 * i + 1 \in 0 .. 2 * Words(a) - 1
          /\ (2 * i) % 2 = 0 /\ (2 * i + 1) % 2 = 1
      BY <2>3
    <3>2. words'[2 * i] = <<"low", 0>> /\ words'[2 * i + 1] = <<"high", 0>>
      BY <2>1, <3>1
    <3>. QED BY <3>2 DEF Holds
  <2>6. ArrayShape'
    BY <2>1, <2>2, <2>3, <2>4, <2>5 DEF ArrayShape
  <2>. QED BY <2>1, <2>6 DEF OffsetInv
<1>. QED BY <1>1, <1>2

\* The library fills the array it has, and the way down begins.
LEMMA AnswerOffsets ==
    ASSUME OffsetInv, NEW groups \in 1 .. Groups, NEW none \in SUBSET (1 .. groups - 2),
           Answer(groups, none)
    PROVE  OffsetInv'
<1>1. /\ ArrayShape /\ phase' = "copy" /\ arg' = arg /\ top' = groups /\ unset' = none
      /\ at' = 2 * groups - 1
      /\ IF arg.callout THEN ovec' = Written(ovec, groups, none) /\ words' = words
                        ELSE words' = Written(words, groups, none) /\ ovec' = ovec
  BY DEF OffsetInv, Answer, InMatch
<1>2. /\ Groups \in Nat /\ Groups' = Groups /\ Words(arg) = 3 * Groups
      /\ DOMAIN words = 0 .. 6 * Groups - 1
      /\ arg.callout => DOMAIN ovec = 0 .. 3 * Groups - 1
      /\ groups \in Nat /\ groups <= Groups /\ groups >= 1
  BY <1>1, ArgumentTypes DEF Groups, ArrayShape
<1>3. ASSUME NEW arr, NEW N \in Nat, DOMAIN arr = 0 .. N - 1, N >= 3 * Groups
      PROVE  /\ DOMAIN Written(arr, groups, none) = 0 .. N - 1
             /\ \A i \in 0 .. 2 * groups - 1 : Written(arr, groups, none)[i] = <<"int", Offset(i, none)>>
             /\ \A i \in 3 * Groups .. N - 1 : Written(arr, groups, none)[i] = arr[i]
  <2>1. \A i \in 0 .. N - 1 : Written(arr, groups, none)[i] =
            IF i < 2 * groups THEN <<"int", Offset(i, none)>>
            ELSE IF i < Words(arg) THEN <<"int", 77>> ELSE arr[i]
    BY <1>3 DEF Written
  <2>2. DOMAIN Written(arr, groups, none) = 0 .. N - 1
    BY <1>3 DEF Written
  <2>3. \A i \in 0 .. 2 * groups - 1 : i \in 0 .. N - 1 /\ i < 2 * groups
    BY <1>2, <1>3
  <2>4. \A i \in 3 * Groups .. N - 1 : i \in 0 .. N - 1 /\ ~(i < 2 * groups) /\ ~(i < Words(arg))
    BY <1>2, <1>3
  <2>. QED BY <2>1, <2>2, <2>3, <2>4
<1>4. CASE arg.callout
  <2>1. /\ DOMAIN ovec' = 0 .. 3 * Groups - 1 /\ words' = words
        /\ \A i \in 0 .. 2 * groups - 1 : ovec'[i] = <<"int", Offset(i, none)>>
    <3>1. 3 * Groups \in Nat /\ DOMAIN ovec = 0 .. 3 * Groups - 1
      BY <1>2, <1>4
    <3>. QED BY <1>1, <1>3, <1>4, <3>1
  <2>2. ArrayShape'
    BY <1>1, <1>2, <2>1 DEF ArrayShape, Holds
  <2>3. CopyInv'
    <3>1. \A i \in 0 .. 2 * groups - 1 : Offset(i, unset)' = Offset(i, none) /\ ~(i > 2 * groups - 1)
      BY <1>1, <1>2 DEF Offset
    <3>2. 2 * groups - 1 \in -1 .. 2 * groups - 1
      BY <1>2
    <3>. QED BY <1>1, <1>2, <1>4, <2>1, <3>1, <3>2 DEF CopyInv
  <2>. QED BY <1>1, <2>2, <2>3 DEF OffsetInv
<1>5. CASE ~arg.callout
  <2>1. /\ DOMAIN words' = 0 .. 6 * Groups - 1
        /\ \A i \in 0 .. 2 * groups - 1 : words'[i] = <<"int", Offset(i, none)>>
        /\ \A i \in 3 * Groups .. 6 * Groups - 1 : words'[i] = words[i]
    <3>1. 6 * Groups \in Nat /\ 6 * Groups >= 3 * Groups
      BY <1>2
    <3>. QED BY <1>1, <1>2, <1>3, <1>5, <3>1
  <2>2. \A i \in 2 * Groups .. 3 * Groups - 1 : Holds(i, 0)'
    <3>1. \A i \in 2 * Groups .. 3 * Groups - 1 :
             2 * i \in 3 * Groups .. 6 * Groups - 1 /\ 2 * i + 1 \in 3 * Groups .. 6 * Groups - 1
      BY <1>2
    <3>. QED BY <1>1, <2>1, <3>1 DEF ArrayShape, Holds
  <2>3. ArrayShape'
    BY <1>1, <1>2, <1>5, <2>1, <2>2 DEF ArrayShape
  <2>4. CopyInv'
    <3>1. \A i \in 0 .. 2 * groups - 1 : Offset(i, unset)' = Offset(i, none) /\ ~(i > 2 * groups - 1)
      BY <1>1, <1>2 DEF Offset
    <3>2. 2 * groups - 1 \in -1 .. 2 * groups - 1
      BY <1>2
    <3>. QED BY <1>1, <1>2, <1>5, <2>1, <3>1, <3>2 DEF CopyInv
  <2>. QED BY <1>1, <2>3, <2>4 DEF OffsetInv
<1>. QED BY <1>4, <1>5

\* copy_ovector: what is overwritten lies above what is still to be read.
LEMMA CopyOffsets ==
    ASSUME OffsetInv, Copy
    PROVE  OffsetInv'
<1>1. /\ ArrayShape /\ CopyInv /\ phase' = phase /\ phase = "copy" /\ at >= 0
      /\ words' = Store(at, Source(at) + arg.subj_start) /\ at' = at - 1
      /\ UNCHANGED <<arg, ovec, unset, top>>
  BY DEF OffsetInv, Copy, InMatch
<1>2. /\ Groups \in Nat /\ Groups' = Groups /\ arg.subj_start \in Nat /\ arg.subj_start \in Int
      /\ top \in Nat /\ top <= Groups /\ at \in 0 .. 2 * top - 1 /\ at \in Nat
      /\ DOMAIN words = 0 .. 6 * Groups - 1
  <2>1. Groups \in Nat /\ arg.subj_start \in 0 .. SubjectLen
    BY <1>1, ArgumentTypes
  <2>2. top \in 1 .. Groups /\ at \in -1 .. 2 * top - 1
    BY <1>1 DEF CopyInv
  <2>3. Groups' = Groups
    BY <1>1 DEF Groups
  <2>4. DOMAIN words = 0 .. 6 * Groups - 1
    BY <1>1 DEF ArrayShape
  <2>5. arg.subj_start \in Nat /\ arg.subj_start \in Int
    BY <2>1
  <2>6. top \in Nat /\ top <= Groups
    BY <2>1, <2>2
  <2>7. at \in 0 .. 2 * top - 1 /\ at \in Nat
    BY <1>1, <2>2, <2>6
  <2>. QED BY <2>1, <2>3, <2>4, <2>5, <2>6, <2>7
<1>3. Source(at) = Offset(at, unset)
  <2>1. \A i \in 0 .. 2 * top - 1 : i <= at \/ arg.callout =>
            (IF arg.callout THEN ovec[i] ELSE words[i]) = <<"int", Offset(i, unset)>>
    BY <1>1, Zenon DEF CopyInv
  <2>2. at \in 0 .. 2 * top - 1 /\ at <= at
    BY <1>2
  <2>3. (IF arg.callout THEN ovec[at] ELSE words[at]) = <<"int", Offset(at, unset)>>
    BY <2>1, <2>2, Zenon
  <2>. QED BY <2>3 DEF Source
<1>4. \A i \in 0 .. 2 * top - 1 : Offset(i, unset) + arg.subj_start \in Int
  <2>1. \A i \in 0 .. 2 * top - 1 : Offset(i, unset) \in -1 .. top
    BY <1>2, OffsetBounds
  <2>. QED BY <1>2, <2>1
<1>. DEFINE n == Offset(at, unset) + arg.subj_start
<1>5. /\ DOMAIN words' = 0 .. 6 * Groups - 1 /\ HoldsIn(words', at, n)
      /\ \A h \in 0 .. 6 * Groups - 1 : h # 2 * at /\ h # 2 * at + 1 => words'[h] = words[h]
      /\ \A j \in 0 .. 3 * Groups - 1, m \in Int : j # at /\ Holds(j, m) => HoldsIn(words', j, m)
  <2>1. at \in 0 .. 3 * Groups - 1 /\ words' = Store(at, n)
    BY <1>1, <1>2, <1>3
  <2>2. /\ DOMAIN Store(at, n) = 0 .. 6 * Groups - 1 /\ HoldsIn(Store(at, n), at, n)
        /\ \A h \in 0 .. 6 * Groups - 1 : h # 2 * at /\ h # 2 * at + 1 => Store(at, n)[h] = words[h]
        /\ \A j \in 0 .. 3 * Groups - 1, m \in Int : j # at /\ Holds(j, m) => HoldsIn(Store(at, n), j, m)
    <3>. HIDE DEF n
    <3>. QED BY <1>2, <2>1, StoreHolds
  <2>. HIDE DEF n
  <2>. QED BY <2>1, <2>2, Zenon
<1>6. ArrayShape'
  <2>1. \A i \in 2 * Groups .. 3 * Groups - 1 : i \in 0 .. 3 * Groups - 1 /\ i # at /\ 0 \in Int
    BY <1>2
  <2>2. \A i \in 2 * Groups .. 3 * Groups - 1 : Holds(i, 0)'
    BY <1>1, <1>5, <2>1 DEF ArrayShape, Holds, HoldsIn
  <2>. QED BY <1>1, <1>2, <1>5, <2>2 DEF ArrayShape
<1>7. CopyInv'
  <2>1. top' \in 1 .. Groups' /\ at' \in -1 .. 2 * top' - 1
    <3>1. top \in 1 .. Groups /\ at' = at - 1 /\ top' = top
      BY <1>1 DEF CopyInv
    <3>2. at - 1 \in -1 .. 2 * top - 1
      BY <1>2
    <3>. QED BY <1>2, <3>1, <3>2
  <2>2. ASSUME NEW i \in 0 .. 2 * top - 1, i <= at - 1 \/ arg.callout
        PROVE  (IF arg.callout THEN ovec'[i] ELSE words'[i]) = <<"int", Offset(i, unset)>>
    <3>1. (IF arg.callout THEN ovec[i] ELSE words[i]) = <<"int", Offset(i, unset)>>
      <4>1. i <= at \/ arg.callout
        BY <1>2, <2>2
      <4>. QED BY <1>1, <4>1 DEF CopyInv
    <3>2. CASE arg.callout
      BY <1>1, <3>1, <3>2
    <3>3. CASE ~arg.callout
      <4>1. i \in 0 .. 6 * Groups - 1 /\ i # 2 * at /\ i # 2 * at + 1
        BY <1>2, <2>2, <3>3
      <4>. QED BY <1>5, <3>1, <3>3, <4>1
    <3>. QED BY <3>2, <3>3
  <2>3. ASSUME NEW i \in 0 .. 2 * top - 1, i > at - 1 PROVE Converted(i)'
    <3>1. CASE i = at
      BY <1>1, <1>5, <3>1 DEF Converted, Holds, HoldsIn, Offset
    <3>2. CASE i # at
      <4>1. Converted(i) /\ i \in 0 .. 3 * Groups - 1
        <5>1. i > at /\ i \in 0 .. 3 * Groups - 1
          BY <1>2, <2>3, <3>2
        <5>. QED BY <1>1, <5>1 DEF CopyInv
      <4>2. HoldsIn(words', i, Offset(i, unset) + arg.subj_start)
        BY <1>4, <1>5, <3>2, <4>1 DEF Converted
      <4>. QED BY <1>1, <4>2 DEF Converted, Holds, HoldsIn, Offset
    <3>. QED BY <3>1, <3>2
  <2>4. \A i : Offset(i, unset)' = Offset(i, unset)
    BY <1>1 DEF Offset
  <2>. QED BY <1>1, <2>1, <2>2, <2>3, <2>4 DEF CopyInv
<1>. QED BY <1>1, <1>6, <1>7 DEF OffsetInv

\* The loop that clears goes on where the library's groups end.
LEMMA ClearOffsets ==
    ASSUME OffsetInv, Clear
    PROVE  OffsetInv'
<1>1. /\ ArrayShape /\ ClearInv /\ phase = "clear" /\ UNCHANGED <<arg, ovec, unset, top>>
  BY DEF OffsetInv, Clear, InMatch
<1>2. /\ Groups \in Nat /\ Groups' = Groups /\ arg.subj_start \in Nat
      /\ (2 * Words(arg)) \div 3 = 2 * Groups
      /\ top \in 1 .. Groups /\ top \in Nat /\ top <= Groups /\ at \in 2 * top .. 2 * Groups /\ at \in Nat
      /\ DOMAIN words = 0 .. 6 * Groups - 1
  <2>1. Groups \in Nat /\ arg.subj_start \in 0 .. SubjectLen /\ (2 * Words(arg)) \div 3 = 2 * Groups
    BY <1>1, ArgumentTypes
  <2>2. top \in 1 .. Groups /\ at \in 2 * top .. 2 * Groups
    BY <1>1 DEF ClearInv
  <2>3. Groups' = Groups
    BY <1>1 DEF Groups
  <2>4. DOMAIN words = 0 .. 6 * Groups - 1
    BY <1>1 DEF ArrayShape
  <2>5. arg.subj_start \in Nat
    BY <2>1
  <2>6. top \in Nat /\ top <= Groups
    BY <2>1, <2>2
  <2>7. at \in Nat
    BY <2>1, <2>2, <2>6
  <2>. QED BY <2>1, <2>2, <2>3, <2>4, <2>5, <2>6, <2>7
<1>3. CASE at < 2 * Groups
  <2>1. words' = Store(at, -1) /\ at' = at + 1 /\ phase' = phase
    BY <1>2, <1>3 DEF Clear
  <2>2. /\ DOMAIN words' = 0 .. 6 * Groups - 1 /\ HoldsIn(words', at, -1)
        /\ \A j \in 0 .. 3 * Groups - 1, m \in Int : j # at /\ Holds(j, m) => HoldsIn(words', j, m)
    <3>1. at \in 0 .. 3 * Groups - 1
      BY <1>2, <1>3
    <3>. QED BY <1>2, <2>1, <3>1, StoreHolds
  <2>3. ArrayShape'
    <3>1. \A i \in 2 * Groups .. 3 * Groups - 1 : i \in 0 .. 3 * Groups - 1 /\ i # at /\ 0 \in Int
      BY <1>2, <1>3
    <3>2. \A i \in 2 * Groups .. 3 * Groups - 1 : Holds(i, 0)'
      BY <1>1, <2>2, <3>1 DEF ArrayShape, Holds, HoldsIn
    <3>. QED BY <1>1, <1>2, <2>2, <3>2 DEF ArrayShape
  <2>4. ASSUME NEW i \in 0 .. 2 * top - 1 PROVE Converted(i)'
    <3>1. /\ Converted(i) /\ i \in 0 .. 3 * Groups - 1 /\ i # at
      BY <1>1, <1>2, <1>3 DEF ClearInv
    <3>2. Offset(i, unset) + arg.subj_start \in Int
      <4>1. Offset(i, unset) \in -1 .. top
        BY <1>2, OffsetBounds
      <4>. QED BY <1>2, <4>1
    <3>3. HoldsIn(words', i, Offset(i, unset) + arg.subj_start)
      BY <2>2, <3>1, <3>2 DEF Converted
    <3>. QED BY <1>1, <3>3 DEF Converted, Holds, HoldsIn, Offset
  <2>5. ASSUME NEW i \in 2 * top .. at PROVE Holds(i, -1)'
    <3>1. CASE i = at
      BY <2>2, <3>1 DEF Holds, HoldsIn
    <3>2. CASE i # at
      <4>1. i \in 2 * top .. at - 1 /\ i \in 0 .. 3 * Groups - 1 /\ -1 \in Int
        BY <1>2, <1>3, <3>2
      <4>2. Holds(i, -1)
        BY <1>1, <4>1 DEF ClearInv
      <4>3. HoldsIn(words', i, -1)
        BY <2>2, <3>2, <4>1, <4>2
      <4>. QED BY <4>3 DEF Holds, HoldsIn
    <3>. QED BY <3>1, <3>2
  <2>6. ClearInv'
    <3>1. at' \in 2 * top' .. 2 * Groups' /\ at' - 1 = at /\ phase' = "clear"
      BY <1>1, <1>2, <1>3, <2>1
    <3>. QED BY <1>1, <1>2, <2>4, <2>5, <3>1 DEF ClearInv
  <2>. QED BY <1>1, <2>1, <2>3, <2>6 DEF OffsetInv, InMatch
<1>4. CASE ~(at < 2 * Groups)
  <2>1. phase' = "done" /\ UNCHANGED <<words, at>>
    BY <1>2, <1>4 DEF Clear
  <2>2. at = 2 * Groups
    BY <1>2, <1>4
  <2>3. ArrayShape' /\ ClearInv'
    BY <1>1, <1>2, <2>1, <2>2, SamePlaces DEF ClearInv
  <2>. QED BY <2>1, <2>3 DEF OffsetInv
<1>. QED BY <1>3, <1>4

\* Nothing has been matched when a regexp is being made.
LEMMA OffsetInit == Init => OffsetInv
BY DEF Init, OffsetInv, InMatch

\* The other steps of a match change neither the arrays nor what was found, but an error,
\* which ends it.
LEMMA OffsetStep == OffsetInv /\ [Next]_vars => OffsetInv'
<1>. SUFFICES ASSUME OffsetInv, [Next]_vars PROVE OffsetInv'
  OBVIOUS
<1>1. ASSUME phase' \in {"study", "limit", "recursion", "ready", "raised"} PROVE OffsetInv'
  BY <1>1 DEF OffsetInv, InMatch
<1>2. CASE Compile \/ Study \/ SetLimit("limit", "match_limit", "recursion")
           \/ SetLimit("recursion", "match_limit_recursion", "ready") \/ Fails
  BY <1>1, <1>2 DEF Compile, Study, SetLimit, Fails
<1>3. ASSUME NEW a \in Args, Exec(a) PROVE OffsetInv'
  BY <1>3, ExecOffsets
<1>4. ASSUME phase = "match", NEW groups \in 1 .. arg.captures + 1,
             NEW none \in SUBSET (1 .. groups - 2), CallsOut(groups, none) \/ Matches(groups, none)
      PROVE  OffsetInv'
  <2>1. groups \in 1 .. Groups /\ Answer(groups, none)
    BY <1>4 DEF Groups, CallsOut, Matches
  <2>. QED BY <2>1, AnswerOffsets
<1>5. CASE Copy
  BY <1>5, CopyOffsets
<1>6. CASE Clear
  BY <1>6, ClearOffsets
<1>7. CASE Copied
  <2>1. /\ phase = "copy" /\ at < 0 /\ UNCHANGED <<arg, words, ovec, unset, top>>
        /\ \/ phase' = "clear" /\ at' = 2 * top
           \/ phase' = "callout" /\ at' = at
    BY <1>7 DEF Copied
  <2>2. ArrayShape /\ CopyInv
    BY <2>1 DEF OffsetInv, InMatch
  <2>3. /\ Groups \in Nat /\ top \in Nat /\ top \in 1 .. Groups /\ at \in Int
        /\ \A i \in 0 .. 2 * top - 1 : i > at
    BY <2>1, <2>2, ArgumentTypes DEF CopyInv
  <2>4. \A i \in 0 .. 2 * top - 1 : Converted(i)
    BY <2>2, <2>3 DEF CopyInv
  <2>5. /\ \A i \in 0 .. 2 * top' - 1 : Converted(i)'
        /\ top' \in 1 .. Groups' /\ ArrayShape'
    BY <2>1, <2>2, <2>3, <2>4, SamePlaces
  <2>6. CASE phase' = "clear" /\ at' = 2 * top
    <3>1. at' \in 2 * top' .. 2 * Groups' /\ 2 * top' .. at' - 1 = {}
      <4>1. Groups' = Groups /\ top' = top
        BY <2>1 DEF Groups
      <4>. QED BY <2>3, <2>6, <4>1
    <3>2. ClearInv'
      BY <2>5, <2>6, <3>1 DEF ClearInv
    <3>. QED BY <2>5, <2>6, <3>2 DEF OffsetInv
  <2>7. CASE phase' = "callout"
    BY <2>5, <2>7 DEF OffsetInv, ClearInv
  <2>. QED BY <2>1, <2>6, <2>7
<1>8. CASE Callout
  <2>1. phase = "callout" /\ phase' \in {"match", "raised"} /\ UNCHANGED <<arg, words, ovec, unset, top>>
    BY <1>8 DEF Callout, exec
  <2>2. ArrayShape'
    BY <2>1, SamePlaces DEF OffsetInv, InMatch
  <2>. QED BY <2>1, <2>2 DEF OffsetInv
<1>9. CASE UNCHANGED vars
  <2>1. UNCHANGED <<phase, at>> /\ UNCHANGED <<arg, words, ovec, unset, top>>
    BY <1>9 DEF vars
  <2>2. CopyInv' = CopyInv /\ ClearInv' = ClearInv /\ ArrayShape' = ArrayShape
    BY <2>1 DEF CopyInv, ClearInv, ArrayShape, Groups, Converted, Holds, Offset
  <2>. QED BY <2>1, <2>2 DEF OffsetInv
<1>. QED BY <1>2, <1>3, <1>4, <1>5, <1>6, <1>7, <1>8, <1>9 DEF Next

\* copy_ovector and the loop that clears: what a callout and the caller find are the offsets
\* of the library, moved to the whole subject, with every word an OCaml integer, although
\* the library may have written C integers of half their width into the same array.
THEOREM OffsetsAreConverted == Spec => []OffsetsConverted
<1>1. ASSUME OffsetInv PROVE OffsetsConverted
  <2>1. CASE phase = "callout"
    <3>1. ClearInv
      BY <1>1, <2>1 DEF OffsetInv
    <3>. QED BY <2>1, <3>1 DEF OffsetsConverted, ClearInv, Converted
  <2>2. CASE phase = "done"
    <3>1. ClearInv /\ ArrayShape
      BY <1>1, <2>2 DEF OffsetInv, InMatch
    <3>2. /\ Groups \in Nat /\ Groups <= MaxCaptures + 1 /\ Words(arg) = 3 * Groups
          /\ arg.subj_start \in 0 .. SubjectLen /\ Groups = arg.captures + 1
          /\ top \in Nat /\ 1 <= top /\ top <= Groups /\ at = 2 * Groups
          /\ MaxCaptures \in Nat /\ SubjectLen \in Nat
      BY <2>2, <3>1, ArgumentTypes, BoundsAssumption DEF ClearInv, Groups
    <3>3. \A i \in 0 .. 2 * top - 1 : Holds(i, Offset(i, unset) + arg.subj_start)
      BY <3>1 DEF ClearInv, Converted
    <3>4. \A i \in 2 * top .. 2 * (arg.captures + 1) - 1 : Holds(i, -1)
      BY <2>2, <3>1, <3>2 DEF ClearInv
    <3>5. ASSUME NEW i \in 0 .. Words(arg) - 1
          PROVE  \E n \in -1 .. SubjectLen + MaxCaptures + 1 : Holds(i, n)
      <4>1. CASE i < 2 * top
        <5>1. Offset(i, unset) \in -1 .. top /\ i \in 0 .. 2 * top - 1
          BY <3>2, <4>1, OffsetBounds
        <5>2. Offset(i, unset) + arg.subj_start \in -1 .. SubjectLen + MaxCaptures + 1
          BY <3>2, <5>1
        <5>. QED BY <3>3, <5>1, <5>2
      <4>2. CASE ~(i < 2 * top) /\ i < 2 * Groups
        <5>1. i \in 2 * top .. 2 * (arg.captures + 1) - 1 /\ -1 \in -1 .. SubjectLen + MaxCaptures + 1
          BY <3>2, <4>2
        <5>. QED BY <3>4, <5>1
      <4>3. CASE ~(i < 2 * Groups)
        <5>1. i \in 2 * Groups .. 3 * Groups - 1 /\ 0 \in -1 .. SubjectLen + MaxCaptures + 1
          BY <3>2, <4>3
        <5>. QED BY <3>1, <5>1 DEF ArrayShape
      <4>. QED BY <4>1, <4>2, <4>3
    <3>. QED BY <2>2, <3>3, <3>4, <3>5 DEF OffsetsConverted
  <2>3. CASE phase \notin {"callout", "done"}
    BY <2>3 DEF OffsetsConverted
  <2>. QED BY <2>1, <2>2, <2>3
<1>. QED BY <1>1, OffsetInit, OffsetStep, PTL DEF Spec

-----------------------------------------------------------------------------
(* Command lines: induction and recursive functions.                        *)

\* Induction over the numbers up to n, for a set.
LEMMA Counting ==
    ASSUME NEW n \in Nat, NEW T, 0 \in T, \A k \in 1 .. n : k - 1 \in T => k \in T
    PROVE  \A k \in 0 .. n : k \in T
<1>. DEFINE Less == {ss \in Nat \X Nat : ss[1] < ss[2]}
            Others == {k \in 0 .. n : k \notin T}
<1>1. IsWellFoundedOn(Less, Nat)
  BY NatLessThanWellFounded DEF OpToRel
<1>2. Others \subseteq Nat
  OBVIOUS
<1>. SUFFICES ASSUME Others # {} PROVE FALSE
  OBVIOUS
<1>3. PICK x \in Others : \A y \in Others : ~(<<y, x>> \in Less)
  <2>. HIDE DEF Less, Others
  <2>. QED BY <1>1, <1>2, WFMin
<1>4. x \in 1 .. n /\ x - 1 \in 0 .. n /\ x \in Nat /\ x - 1 \in Nat /\ x - 1 < x
  BY <1>3
<1>5. <<x - 1, x>> \in Less
  BY <1>4
<1>6. x - 1 \in T
  BY <1>3, <1>4, <1>5
<1>. QED BY <1>3, <1>4, <1>6

\* Two recursions that begin alike and go on alike have the same values.
Alike(f, g, n) == f[0] = g[0] /\ \A k \in 1 .. n : f[k - 1] = g[k - 1] => f[k] = g[k]

LEMMA SameValues ==
    ASSUME NEW n \in Nat, NEW f, NEW g, Alike(f, g, n)
    PROVE  \A k \in 0 .. n : f[k] = g[k]
<1>. DEFINE T == {k \in 0 .. n : f[k] = g[k]}
<1>1. 0 \in T
  BY DEF Alike
<1>2. \A k \in 1 .. n : k - 1 \in T => k \in T
  <2>1. \A k \in 1 .. n : k \in 0 .. n
    OBVIOUS
  <2>. QED BY <2>1 DEF Alike
<1>3. \A k \in 0 .. n : k \in T
  <2>. HIDE DEF T
  <2>. QED BY <1>1, <1>2, Counting
<1>. QED BY <1>3

\* g has the values of a recursion with n steps.
Runs(g, start, step, n) == g[0] = start /\ \A k \in 1 .. n : g[k] = step[<<g[k - 1], k>>]

\* A recursion with a step that keeps to a set of values has its values there.
LEMMA Recursion ==
    ASSUME NEW D, NEW start \in D, NEW n \in Nat, NEW step,
           \A x \in D, k \in 1 .. n : step[<<x, k>>] \in D
    PROVE  \E g \in [0 .. n -> D] : Runs(g, start, step, n)
<1>. DEFINE T == {m \in 0 .. n : \E g \in [0 .. m -> D] : Runs(g, start, step, m)}
<1>1. 0 \in T
  <2>. DEFINE h == [i \in 0 .. 0 |-> start]
  <2>1. h \in [0 .. 0 -> D] /\ Runs(h, start, step, 0) /\ 0 \in 0 .. n
    BY DEF Runs
  <2>. HIDE DEF h
  <2>. QED BY <2>1
<1>2. ASSUME NEW m \in 1 .. n, m - 1 \in T PROVE m \in T
  <2>1. PICK g \in [0 .. m - 1 -> D] : Runs(g, start, step, m - 1)
    BY <1>2
  <2>. DEFINE h == [i \in 0 .. m |-> IF i = m THEN step[<<g[m - 1], m>>] ELSE g[i]]
  <2>2. h \in [0 .. m -> D]
    <3>1. \A i \in 0 .. m : i # m => i \in 0 .. m - 1
      OBVIOUS
    <3>2. step[<<g[m - 1], m>>] \in D
      OBVIOUS
    <3>. QED BY <3>1, <3>2
  <2>3. h[0] = start
    BY <2>1 DEF Runs
  <2>4. ASSUME NEW k \in 1 .. m PROVE h[k] = step[<<h[k - 1], k>>]
    <3>1. h[k - 1] = g[k - 1]
      OBVIOUS
    <3>2. k # m => k \in 1 .. m - 1
      OBVIOUS
    <3>3. h[k] = IF k = m THEN step[<<g[m - 1], m>>] ELSE g[k]
      OBVIOUS
    <3>. HIDE DEF h
    <3>4. CASE k = m
      BY <3>1, <3>3, <3>4
    <3>5. CASE k # m
      BY <2>1, <3>1, <3>2, <3>3, <3>5 DEF Runs
    <3>. QED BY <3>4, <3>5
  <2>. HIDE DEF h
  <2>5. Runs(h, start, step, m)
    BY <2>3, <2>4 DEF Runs
  <2>6. m \in 0 .. n
    OBVIOUS
  <2>. QED BY <2>2, <2>5, <2>6
<1>3. n \in T
  <2>1. \A k \in 0 .. n : k \in T
    <3>. HIDE DEF T
    <3>. QED BY <1>1, <1>2, Counting
  <2>. QED BY <2>1
<1>. QED BY <1>3

-----------------------------------------------------------------------------
(* Command lines: the buffer.                                               *)

Piece == [str : Seq(Byte), size : Nat]

Buffers == [totlen : Nat, blen : Nat \ {0}, data : Seq(Piece)]

\* The pieces, from the newest to the k-th, put together.
Gathered(data, g) ==
    /\ g \in [0 .. Len(data) -> Seq(Byte)]
    /\ g[0] = <<>> /\ \A k \in 1 .. Len(data) : g[k] = data[k].str \o g[k - 1]

\* No piece is longer than its size, and together they are the text.
Content(data, text) ==
    /\ data \in Seq(Piece) /\ text \in Seq(Byte)
    /\ \A k \in 1 .. Len(data) : Len(data[k].str) <= data[k].size
    /\ \E g : Gathered(data, g) /\ text = g[Len(data)]

BufferHas(buf, text) == buf \in Buffers /\ Content(buf.data, text) /\ buf.totlen = Len(text)

\* What buffer_to_string copies from the end is the text.
LEMMA TextOfBuffer ==
    ASSUME NEW buf, NEW text, BufferHas(buf, text)
    PROVE  buffer_to_string(buf) = text
<1>. DEFINE n == Len(buf.data)
            Body(f) == [k \in 0 .. n |-> IF k = 0 THEN <<>> ELSE buf.data[k].str \o f[k - 1]]
            v == CHOOSE f : f = Body(f)
<1>1. n \in Nat
  BY LenProperties DEF BufferHas, Content
<1>2. PICK g : Gathered(buf.data, g) /\ text = g[n]
  BY DEF BufferHas, Content
<1>3. g = Body(g)
  <2>1. \A k \in 0 .. n : k # 0 => k \in 1 .. n
    BY <1>1
  <2>2. \A k \in 0 .. n : g[k] = IF k = 0 THEN <<>> ELSE buf.data[k].str \o g[k - 1]
    BY <1>2, <2>1 DEF Gathered
  <2>. QED BY <1>2, <2>2 DEF Gathered
<1>4. v = Body(v) /\ buffer_to_string(buf) = v[n]
  BY <1>3, Zenon DEF buffer_to_string, Fold, InFront
<1>5. v[0] = <<>> /\ \A k \in 1 .. n : v[k] = buf.data[k].str \o v[k - 1]
  <2>1. 0 \in 0 .. n /\ \A k \in 1 .. n : k \in 0 .. n /\ k # 0
    BY <1>1
  <2>. HIDE DEF v
  <2>. QED BY <1>4, <2>1
<1>6. \A k \in 0 .. n : v[k] = g[k]
  <2>. HIDE DEF v
  <2>1. Alike(v, g, n)
    BY <1>2, <1>5 DEF Gathered, Alike
  <2>. QED BY <1>1, <2>1, SameValues
<1>7. n \in 0 .. n
  BY <1>1
<1>. QED BY <1>2, <1>4, <1>6, <1>7

\* Marks are characters.
LEMMA Marks == /\ "\"" \in Byte /\ "\\" \in Byte /\ " " \in Byte
               /\ "cmd.exe" \in Byte /\ "/C" \in Byte
BY LineAssumption DEF LinesFit

\* One element makes a sequence.
LEMMA Single == \A S : \A c \in S : <<c>> \in Seq(S) /\ Len(<<c>>) = 1 /\ <<c>>[1] = c
OBVIOUS

\* Two make one of two.
LEMMA Pair ==
    ASSUME NEW S, NEW a \in S, NEW b \in S
    PROVE  <<a>> \o <<b>> = <<a, b>> /\ <<a, b>> \in Seq(S)
<1>1. /\ <<a>> \in Seq(S) /\ <<b>> \in Seq(S) /\ Len(<<a>>) = 1 /\ Len(<<b>>) = 1
      /\ <<a>>[1] = a /\ <<b>>[1] = b
  BY Single
<1>2. <<a, b>> \in Seq(S) /\ Len(<<a, b>>) = 2 /\ <<a, b>>[1] = a /\ <<a, b>>[2] = b
  OBVIOUS
<1>. DEFINE t == <<a>> \o <<b>>
<1>3. /\ t \in Seq(S) /\ Len(t) = 2
      /\ \A i \in 1 .. 2 : t[i] = IF i <= 1 THEN <<a>>[i] ELSE <<b>>[i - 1]
  BY <1>1, ConcatProperties
<1>. HIDE DEF t
<1>4. t[1] = a /\ t[2] = b
  BY <1>1, <1>3
<1>5. t = <<a, b>>
  <2>. DEFINE u == <<a, b>>
  <2>1. u \in Seq(S) /\ Len(u) = 2 /\ u[1] = a /\ u[2] = b
    BY <1>2
  <2>. HIDE DEF u
  <2>2. \A i \in 1 .. Len(t) : t[i] = u[i]
    BY <1>3, <1>4, <2>1
  <2>3. t = u
    BY <1>3, <2>1, <2>2, SeqEqual
  <2>. QED BY <2>3 DEF u
<1>. QED BY <1>2, <1>5 DEF t

\* Texts.
LEMMA Joined ==
    /\ \A a, b \in Seq(Byte) : a \o b \in Seq(Byte) /\ Len(a \o b) = Len(a) + Len(b)
    /\ \A a \in Seq(Byte) : a \o <<>> = a /\ <<>> \o a = a /\ Len(a) \in Nat
    /\ \A a, b, c \in Seq(Byte) : (a \o b) \o c = a \o (b \o c)
    /\ <<>> \in Seq(Byte) /\ \A c \in Byte : <<c>> \in Seq(Byte) /\ Len(<<c>>) = 1
<1>1. \A a, b \in Seq(Byte) : a \o b \in Seq(Byte) /\ Len(a \o b) = Len(a) + Len(b)
  BY ConcatProperties
<1>2. \A a \in Seq(Byte) : a \o <<>> = a /\ <<>> \o a = a /\ Len(a) \in Nat
  BY ConcatEmptySeq, LenProperties
<1>3. \A a, b, c \in Seq(Byte) : (a \o b) \o c = a \o (b \o c)
  BY ConcatAssociative
<1>4. <<>> \in Seq(Byte) /\ \A c \in Byte : <<c>> \in Seq(Byte) /\ Len(<<c>>) = 1
  <2>1. <<>> \in Seq(Byte)
    BY EmptySeq
  <2>. QED BY <2>1, Single, Zenon
<1>. QED BY <1>1, <1>2, <1>3, <1>4

\* (As predicates, for which the prover has only one instance to try.)
Splits(a, b, c) == (a \o b) \o c = a \o (b \o c)

SplitsFour(a, b, c, d) == ((a \o b) \o c) \o d = a \o ((b \o c) \o d)

LEMMA Grouped == \A a, b, c \in Seq(Byte) : Splits(a, b, c)
BY Joined DEF Splits

LEMMA GroupedFour == \A a, b, c, d \in Seq(Byte) : SplitsFour(a, b, c, d)
<1>. SUFFICES ASSUME NEW a \in Seq(Byte), NEW b \in Seq(Byte), NEW c \in Seq(Byte),
                     NEW d \in Seq(Byte)
              PROVE  SplitsFour(a, b, c, d)
  OBVIOUS
<1>1. b \o c \in Seq(Byte)
  BY Joined, Zenon
<1>2. Splits(a, b, c) /\ Splits(a, b \o c, d)
  BY <1>1, Grouped, Zenon
<1>. QED BY <1>2, Zenon DEF Splits, SplitsFour

\* Pieces.
LEMMA PieceOf ==
    ASSUME NEW data \in Seq(Piece)
    PROVE  /\ Len(data) \in Nat
           /\ \A k \in 1 .. Len(data) : /\ data[k] \in Piece /\ data[k].str \in Seq(Byte)
                                        /\ data[k].size \in Nat
<1>1. Len(data) \in Nat /\ \A k \in 1 .. Len(data) : data[k] \in Piece
  BY LenProperties, ElementOfSeq
<1>. QED BY <1>1 DEF Piece

\* A new piece is put behind the others.
LEMMA GatheredNew ==
    ASSUME NEW data \in Seq(Piece), NEW g, Gathered(data, g), NEW it \in Piece
    PROVE  \E h : Gathered(<<it>> \o data, h) /\ h[Len(data) + 1] = g[Len(data)] \o it.str
<1>. DEFINE n == Len(data)
            new == <<it>> \o data
            h == [k \in 0 .. n + 1 |-> IF k = 0 THEN <<>> ELSE g[k - 1] \o it.str]
<1>1. n \in Nat /\ it.str \in Seq(Byte) /\ \A k \in 1 .. n : data[k].str \in Seq(Byte)
  <2>1. it.str \in Seq(Byte)
    BY DEF Piece
  <2>. QED BY <2>1, PieceOf
<1>2. /\ Len(new) = n + 1 /\ new[1] = it
      /\ \A k \in 2 .. n + 1 : new[k] = data[k - 1]
  <2>1. <<it>> \in Seq(Piece) /\ Len(<<it>>) = 1 /\ <<it>>[1] = it
    OBVIOUS
  <2>2. Len(new) = 1 + n /\ \A k \in 1 .. 1 + n : new[k] = IF k <= 1 THEN <<it>>[k] ELSE data[k - 1]
    BY <2>1, ConcatProperties
  <2>. HIDE DEF new
  <2>. QED BY <1>1, <2>1, <2>2
<1>3. /\ \A k \in 0 .. n : g[k] \in Seq(Byte)
      /\ g[0] = <<>> /\ \A k \in 1 .. n : g[k] = data[k].str \o g[k - 1]
  BY DEF Gathered
<1>4. h \in [0 .. n + 1 -> Seq(Byte)]
  <2>1. \A k \in 0 .. n : g[k] \o it.str \in Seq(Byte)
    BY <1>1, <1>3, ConcatProperties
  <2>2. \A k \in 0 .. n + 1 : k # 0 => k - 1 \in 0 .. n
    BY <1>1
  <2>3. <<>> \in Seq(Byte)
    BY EmptySeq
  <2>. QED BY <2>1, <2>2, <2>3
<1>5. ASSUME NEW k \in 1 .. n + 1 PROVE h[k] = new[k].str \o h[k - 1]
  <2>. HIDE DEF new
  <2>1. CASE k = 1
    <3>1. h[1] = g[0] \o it.str /\ h[0] = <<>>
      <4>1. \A i \in 1 .. n + 1, j \in 0 .. n : i - 1 = j => h[i] = g[j] \o it.str
        <5>1. \A i \in 1 .. n + 1 : i \in 0 .. n + 1 /\ i # 0
          OBVIOUS
        <5>2. \A i \in 1 .. n + 1 : h[i] = g[i - 1] \o it.str
          BY <5>1
        <5>. HIDE DEF h, n
        <5>. QED BY <5>2
      <4>2. h[0] = <<>>
        BY <1>1
      <4>. HIDE DEF h
      <4>3. 1 \in 1 .. n + 1 /\ 0 \in 0 .. n /\ 1 - 1 = 0
        BY <1>1
      <4>. QED BY <4>1, <4>2, <4>3
    <3>2. <<>> \o it.str = it.str /\ it.str \o <<>> = it.str
      BY <1>1, ConcatEmptySeq
    <3>3. h[k] = h[1] /\ h[k - 1] = h[0] /\ new[k].str = it.str
      BY <1>2, <2>1
    <3>4. h[1] = it.str /\ h[0] = <<>>
      <4>. HIDE DEF h
      <4>. QED BY <1>3, <3>1, <3>2
    <3>. HIDE DEF h
    <3>. QED BY <3>2, <3>3, <3>4
  <2>2. CASE k # 1
    <3>1. k - 1 \in 1 .. n /\ k \in 2 .. n + 1 /\ k - 1 - 1 \in 0 .. n
      BY <1>1, <2>2
    <3>2. h[k] = g[k - 1] \o it.str /\ h[k - 1] = g[k - 1 - 1] \o it.str
      <4>1. k \in 0 .. n + 1 /\ k # 0 /\ k - 1 \in 0 .. n + 1 /\ k - 1 # 0
        BY <1>1, <2>2
      <4>. QED BY <4>1
    <3>3. g[k - 1] = data[k - 1].str \o g[k - 1 - 1]
      BY <1>3, <3>1
    <3>4. (data[k - 1].str \o g[k - 1 - 1]) \o it.str = data[k - 1].str \o (g[k - 1 - 1] \o it.str)
      <4>1. data[k - 1].str \in Seq(Byte) /\ g[k - 1 - 1] \in Seq(Byte)
        BY <1>1, <1>3, <3>1
      <4>. QED BY <1>1, <4>1, Joined, Zenon
    <3>. HIDE DEF h
    <3>. QED BY <1>2, <3>1, <3>2, <3>3, <3>4
  <2>. QED BY <2>1, <2>2
<1>6. h[0] = <<>> /\ h[n + 1] = g[n] \o it.str
  <2>1. \A k \in 1 .. n + 1, i \in 0 .. n : k - 1 = i => h[k] = g[i] \o it.str
    OBVIOUS
  <2>2. h[0] = <<>>
    BY <1>1
  <2>. HIDE DEF h, n
  <2>3. n + 1 \in 1 .. n + 1 /\ n \in 0 .. n /\ (n + 1) - 1 = n
    BY <1>1
  <2>. QED BY <2>1, <2>2, <2>3
<1>. HIDE DEF h, new
<1>7. Gathered(new, h)
  BY <1>2, <1>4, <1>5, <1>6 DEF Gathered
<1>. QED BY <1>6, <1>7 DEF new

\* What is added to the newest piece comes last, too.
LEMMA GatheredLonger ==
    ASSUME NEW data \in Seq(Piece), Len(data) # 0, NEW g, Gathered(data, g),
           NEW new \in Seq(Piece), Len(new) = Len(data), NEW s \in Seq(Byte),
           new[1].str = data[1].str \o s, \A k \in 2 .. Len(data) : new[k] = data[k]
    PROVE  \E h : Gathered(new, h) /\ h[Len(data)] = g[Len(data)] \o s
<1>. DEFINE n == Len(data)
            h == [k \in 0 .. n |-> IF k = 0 THEN <<>> ELSE g[k] \o s]
<1>1. n \in Nat /\ n # 0 /\ \A k \in 1 .. n : data[k].str \in Seq(Byte)
  BY PieceOf
<1>2. /\ \A k \in 0 .. n : g[k] \in Seq(Byte)
      /\ g[0] = <<>> /\ \A k \in 1 .. n : g[k] = data[k].str \o g[k - 1]
  BY DEF Gathered
<1>3. h \in [0 .. n -> Seq(Byte)]
  <2>1. \A k \in 0 .. n : g[k] \o s \in Seq(Byte)
    BY <1>2, ConcatProperties
  <2>2. <<>> \in Seq(Byte)
    BY EmptySeq
  <2>. QED BY <2>1, <2>2
<1>4. ASSUME NEW k \in 1 .. n PROVE h[k] = new[k].str \o h[k - 1]
  <2>1. h[k] = g[k] \o s /\ g[k] = data[k].str \o g[k - 1]
    <3>1. k \in 0 .. n /\ k # 0
      BY <1>1
    <3>. QED BY <1>2, <3>1
  <2>2. CASE k = 1
    <3>1. h[0] = <<>> /\ g[0] = <<>>
      BY <1>1, <1>2
    <3>2. data[1].str \o <<>> = data[1].str /\ (data[1].str \o s) \o <<>> = data[1].str \o s
      <4>1. 1 \in 1 .. n
        BY <1>1
      <4>. QED BY <1>1, <4>1, ConcatEmptySeq, ConcatProperties
    <3>3. h[k] = g[1] \o s /\ h[k - 1] = h[0] /\ g[1] = data[1].str \o g[0]
      <4>1. k - 1 = 0
        BY <2>2
      <4>. HIDE DEF h
      <4>. QED BY <2>1, <2>2, <4>1
    <3>4. h[k] = data[1].str \o s /\ h[k - 1] = <<>>
      <4>. HIDE DEF h
      <4>. QED BY <3>1, <3>2, <3>3
    <3>. HIDE DEF h
    <3>. QED BY <2>2, <3>2, <3>4
  <2>3. CASE k # 1
    <3>1. k \in 2 .. n /\ k - 1 \in 0 .. n /\ h[k - 1] = g[k - 1] \o s
      BY <1>1, <2>3
    <3>2. (data[k].str \o g[k - 1]) \o s = data[k].str \o (g[k - 1] \o s)
      <4>1. data[k].str \in Seq(Byte) /\ g[k - 1] \in Seq(Byte)
        BY <1>1, <1>2, <3>1
      <4>. QED BY <4>1, Joined, Zenon
    <3>. HIDE DEF h
    <3>. QED BY <2>1, <3>1, <3>2
  <2>. QED BY <2>2, <2>3
<1>5. h[0] = <<>> /\ h[n] = g[n] \o s
  BY <1>1
<1>. HIDE DEF h
<1>6. Gathered(new, h)
  BY <1>3, <1>4, <1>5 DEF Gathered
<1>. QED BY <1>5, <1>6

\* Doubling keeps it a number above 0.
LEMMA DoubledIsNumber ==
    ASSUME NEW blen \in Nat \ {0}, NEW totlen \in Nat
    PROVE  Doubled(blen, totlen) \in Nat \ {0}
<1>. DEFINE Once(n) == IF totlen >= 4 * n THEN 2 * n ELSE n
            D == Nat \ {0}
            step == [x \in D \X (1 .. totlen) |-> Once(x[1])]
            Body(f) == [k \in 0 .. totlen |->
                          IF k = 0 THEN blen
                          ELSE IF totlen >= 4 * f[k - 1] THEN 2 * f[k - 1] ELSE f[k - 1]]
            v == CHOOSE f : f = Body(f)
<1>1. blen \in D /\ \A n \in D : Once(n) \in D
  OBVIOUS
<1>2. \A n \in D, k \in 1 .. totlen : step[<<n, k>>] = Once(n)
  <2>. HIDE DEF Once, D
  <2>. QED OBVIOUS
<1>3. \A n \in D, k \in 1 .. totlen : step[<<n, k>>] \in D
  <2>. HIDE DEF Once, D, step
  <2>. QED BY <1>1, <1>2
<1>4. PICK g \in [0 .. totlen -> D] : Runs(g, blen, step, totlen)
  <2>. HIDE DEF step, D
  <2>. QED BY <1>1, <1>3, Recursion
<1>5. g[0] = blen /\ \A k \in 1 .. totlen : g[k] = Once(g[k - 1])
  <2>1. \A k \in 1 .. totlen : g[k - 1] \in D
    <3>. HIDE DEF D
    <3>. QED OBVIOUS
  <2>. HIDE DEF step, Once, D
  <2>. QED BY <1>2, <1>4, <2>1 DEF Runs
<1>6. g = Body(g)
  <2>1. \A k \in 0 .. totlen : k # 0 => k \in 1 .. totlen
    OBVIOUS
  <2>2. \A k \in 0 .. totlen : g[k] = IF k = 0 THEN blen
                          ELSE IF totlen >= 4 * g[k - 1] THEN 2 * g[k - 1] ELSE g[k - 1]
    <3>. HIDE DEF step
    <3>. QED BY <1>5, <2>1
  <2>. HIDE DEF step
  <2>. QED BY <2>2
<1>7. v = Body(v) /\ Doubled(blen, totlen) = v[totlen]
  BY <1>6, Zenon DEF Doubled
<1>8. v[0] = blen /\ \A k \in 1 .. totlen : v[k] = Once(v[k - 1])
  <2>1. 0 \in 0 .. totlen /\ \A k \in 1 .. totlen : k \in 0 .. totlen /\ k # 0
    OBVIOUS
  <2>. HIDE DEF v
  <2>. QED BY <1>7, <2>1
<1>9. \A k \in 0 .. totlen : v[k] = g[k]
  <2>. HIDE DEF v, step, Once
  <2>1. Alike(v, g, totlen)
    BY <1>5, <1>8 DEF Alike
  <2>. QED BY <2>1, SameValues
<1>10. totlen \in 0 .. totlen /\ g[totlen] \in Nat \ {0}
  OBVIOUS
<1>. HIDE DEF v, step
<1>. QED BY <1>7, <1>9, <1>10

\* A piece of its own for a text.
LEMMA NewContent ==
    ASSUME NEW buf \in Buffers, NEW text, Content(buf.data, text), NEW s \in Seq(Byte)
    PROVE  LET new == buffer_append_new(buf, s)
           IN  new \in Buffers /\ new.totlen = buf.totlen /\ Content(new.data, text \o s)
<1>. DEFINE blen == Doubled(buf.blen, buf.totlen)
            it == [str |-> s, size |-> IF Len(s) < blen THEN blen ELSE Len(s)]
            data == <<it>> \o buf.data
            new == buffer_append_new(buf, s)
<1>1. buf.blen \in Nat \ {0} /\ buf.totlen \in Nat /\ buf.data \in Seq(Piece)
  BY DEF Buffers
<1>2. blen \in Nat \ {0} /\ Len(s) \in Nat
  BY <1>1, DoubledIsNumber, Joined
<1>. HIDE DEF blen
<1>3. it \in Piece /\ Len(it.str) <= it.size /\ it.str = s
  BY <1>2 DEF Piece
<1>4. new = [buf EXCEPT !.blen = blen, !.data = data]
  BY DEF buffer_append_new, blen
<1>. HIDE DEF it
<1>5. /\ data \in Seq(Piece) /\ Len(data) = Len(buf.data) + 1 /\ Len(buf.data) \in Nat
      /\ \A k \in 1 .. Len(data) : data[k] = IF k = 1 THEN it ELSE buf.data[k - 1]
  <2>1. <<it>> \in Seq(Piece) /\ Len(<<it>>) = 1 /\ <<it>>[1] = it /\ Len(buf.data) \in Nat
    BY <1>1, <1>3, Single, PieceOf
  <2>2. data \in Seq(Piece) /\ Len(data) = 1 + Len(buf.data)
        /\ \A k \in 1 .. 1 + Len(buf.data) : data[k] = IF k <= 1 THEN <<it>>[k] ELSE buf.data[k - 1]
    BY <1>1, <2>1, ConcatProperties
  <2>. HIDE DEF data
  <2>. QED BY <2>1, <2>2
<1>6. PICK g : Gathered(buf.data, g) /\ text = g[Len(buf.data)]
  BY DEF Content
<1>7. \E h : Gathered(data, h) /\ h[Len(buf.data) + 1] = text \o s
  BY <1>1, <1>3, <1>6, GatheredNew
<1>8. text \o s \in Seq(Byte)
  BY Joined DEF Content
<1>. HIDE DEF data
<1>9. \A k \in 1 .. Len(data) : Len(data[k].str) <= data[k].size
  <2>1. \A k \in 1 .. Len(buf.data) : Len(buf.data[k].str) <= buf.data[k].size
    BY DEF Content
  <2>2. \A k \in 1 .. Len(data) : k # 1 => k - 1 \in 1 .. Len(buf.data)
    BY <1>5
  <2>3. ASSUME NEW k \in 1 .. Len(data) PROVE Len(data[k].str) <= data[k].size
    <3>1. CASE k = 1
      BY <1>3, <1>5, <3>1
    <3>2. CASE k # 1
      <4>1. data[k] = buf.data[k - 1] /\ k - 1 \in 1 .. Len(buf.data)
        BY <1>5, <2>2, <3>2
      <4>. QED BY <2>1, <4>1
    <3>. QED BY <3>1, <3>2
  <2>. QED BY <2>3
<1>10. Content(data, text \o s)
  BY <1>5, <1>7, <1>8, <1>9 DEF Content
<1>11. new \in Buffers /\ new.totlen = buf.totlen /\ new.data = data
  BY <1>1, <1>2, <1>4, <1>5 DEF Buffers
<1>. QED BY <1>10, <1>11

\* The newest piece, where it has room.
LEMMA LongerContent ==
    ASSUME NEW buf \in Buffers, NEW text, Content(buf.data, text), NEW s \in Seq(Byte),
           buf.data # <<>>, Len(buf.data[1].str) + Len(s) <= buf.data[1].size
    PROVE  LET new == [buf EXCEPT !.data[1].str = @ \o s]
           IN  new \in Buffers /\ new.totlen = buf.totlen /\ Content(new.data, text \o s)
<1>. DEFINE it == [buf.data[1] EXCEPT !.str = @ \o s]
            data == [buf.data EXCEPT ![1] = it]
            new == [buf EXCEPT !.data[1].str = @ \o s]
<1>1. buf.data \in Seq(Piece) /\ Len(buf.data) \in Nat /\ Len(buf.data) # 0 /\ 1 \in 1 .. Len(buf.data)
  <2>1. buf.data \in Seq(Piece)
    BY DEF Buffers
  <2>. QED BY <2>1, PieceOf, EmptySeq
<1>2. buf.data[1] \in Piece /\ buf.data[1].str \in Seq(Byte)
  BY <1>1, PieceOf
<1>3. it \in Piece /\ it.str = buf.data[1].str \o s /\ Len(it.str) <= it.size
  <2>1. buf.data[1].str \o s \in Seq(Byte) /\ Len(buf.data[1].str \o s) = Len(buf.data[1].str) + Len(s)
    BY <1>2, Joined
  <2>. QED BY <1>2, <2>1 DEF Piece
<1>4. new = [buf EXCEPT !.data = data]
  OBVIOUS
<1>. HIDE DEF it
<1>5. /\ data \in Seq(Piece) /\ Len(data) = Len(buf.data)
      /\ \A k \in 1 .. Len(data) : data[k] = IF k = 1 THEN it ELSE buf.data[k]
  BY <1>1, <1>3, ExceptSeq
<1>. HIDE DEF data
<1>6. PICK g : Gathered(buf.data, g) /\ text = g[Len(buf.data)]
  BY DEF Content
<1>7. \E h : Gathered(data, h) /\ h[Len(buf.data)] = text \o s
  <2>1. data[1].str = buf.data[1].str \o s /\ \A k \in 2 .. Len(buf.data) : data[k] = buf.data[k]
    <3>1. Len(buf.data) \in Nat /\ Len(buf.data) > 0
      BY <1>1
    <3>2. data[1] = it
      BY <1>5, <3>1
    <3>3. \A k \in 2 .. Len(buf.data) : data[k] = buf.data[k]
      BY <1>5, <3>1
    <3>. QED BY <1>3, <3>2, <3>3, Zenon
  <2>2. \E h : Gathered(data, h) /\ h[Len(buf.data)] = g[Len(buf.data)] \o s
    <3>1. /\ buf.data \in Seq(Piece) /\ Len(buf.data) # 0 /\ Gathered(buf.data, g)
          /\ data \in Seq(Piece) /\ Len(data) = Len(buf.data)
      BY <1>1, <1>5, <1>6
    <3>. QED BY <2>1, <3>1, GatheredLonger, Zenon
  <2>. QED BY <1>6, <2>2
<1>8. text \o s \in Seq(Byte)
  BY Joined DEF Content
<1>9. \A k \in 1 .. Len(data) : Len(data[k].str) <= data[k].size
  <2>1. \A k \in 1 .. Len(buf.data) : Len(buf.data[k].str) <= buf.data[k].size
    BY DEF Content
  <2>. QED BY <1>3, <1>5, <2>1
<1>10. Content(data, text \o s)
  BY <1>5, <1>7, <1>8, <1>9 DEF Content
<1>11. new \in Buffers /\ new.totlen = buf.totlen /\ new.data = data
  BY <1>4, <1>5 DEF Buffers
<1>. QED BY <1>10, <1>11

\* The cases of buffer_append_sub.
LEMMA AppendSubCases ==
    ASSUME NEW buf, NEW s
    PROVE  LET longer == [buf EXCEPT !.totlen = @ + Len(s)]
               it == Head(buf.data)
               free == it.size - Len(it.str)
               Filled(n) == [longer EXCEPT !.data[1].str = @ \o SubSeq(s, 1, n)]
           IN  /\ s = <<>> => buffer_append_sub(buf, s) = buf
               /\ s # <<>> /\ buf.data = <<>> =>
                     buffer_append_sub(buf, s) = buffer_append_new(longer, s)
               /\ s # <<>> /\ buf.data # <<>> /\ free >= Len(s) =>
                     buffer_append_sub(buf, s) = Filled(Len(s))
               /\ s # <<>> /\ buf.data # <<>> /\ ~(free >= Len(s)) =>
                     buffer_append_sub(buf, s) =
                         buffer_append_new(Filled(free), SubSeq(s, free + 1, Len(s)))
BY Zenon DEF buffer_append_sub

\* Adding a text adds it at the end, also where it is split.
LEMMA AppendSub ==
    ASSUME NEW buf, NEW text, BufferHas(buf, text), NEW s \in Seq(Byte)
    PROVE  BufferHas(buffer_append_sub(buf, s), text \o s)
<1>. DEFINE longer == [buf EXCEPT !.totlen = @ + Len(s)]
            it == Head(buf.data)
            free == it.size - Len(it.str)
            Filled(n) == [longer EXCEPT !.data[1].str = @ \o SubSeq(s, 1, n)]
<1>1. /\ buf \in Buffers /\ Content(buf.data, text) /\ buf.totlen = Len(text)
      /\ text \in Seq(Byte) /\ Len(s) \in Nat /\ Len(text) \in Nat
      /\ Len(text \o s) = Len(text) + Len(s)
  BY Joined DEF BufferHas, Content
<1>2. longer \in Buffers /\ longer.data = buf.data /\ longer.totlen = Len(text \o s)
  BY <1>1 DEF Buffers
<1>3. CASE s = <<>>
  <2>1. buffer_append_sub(buf, s) = buf
    BY <1>3, AppendSubCases, Zenon
  <2>2. text \o s = text
    BY <1>1, <1>3, Joined
  <2>. QED BY <2>1, <2>2
<1>4. CASE s # <<>> /\ buf.data = <<>>
  <2>1. buffer_append_sub(buf, s) = buffer_append_new(longer, s)
    BY <1>4, AppendSubCases, Zenon
  <2>. HIDE DEF longer
  <2>. QED BY <1>1, <1>2, <2>1, NewContent DEF BufferHas
<1>5. CASE s # <<>> /\ buf.data # <<>>
  <2>1. /\ it = buf.data[1] /\ it \in Piece /\ Len(it.str) \in Nat /\ it.size \in Nat
        /\ Len(it.str) <= it.size
    <3>1. buf.data \in Seq(Piece) /\ 1 \in 1 .. Len(buf.data)
      <4>1. buf.data \in Seq(Piece)
        BY <1>1 DEF Content
      <4>. QED BY <1>5, <4>1, EmptySeq
    <3>2. it = buf.data[1]
      BY <3>1, <1>5
    <3>. QED BY <1>1, <3>1, <3>2, PieceOf, Joined DEF Content
  <2>2. ASSUME NEW n \in 0 .. Len(s), n <= free
        PROVE  /\ Filled(n) \in Buffers /\ Filled(n).totlen = Len(text \o s)
               /\ Content(Filled(n).data, text \o SubSeq(s, 1, n))
    <3>1. SubSeq(s, 1, n) \in Seq(Byte) /\ Len(SubSeq(s, 1, n)) = n
      <4>1. \A k \in 1 .. n : s[k] \in Byte
        BY ElementOfSeq
      <4>. QED BY <4>1, SubSeqProperties
    <3>2. Len(longer.data[1].str) + Len(SubSeq(s, 1, n)) <= longer.data[1].size
      BY <1>2, <2>1, <2>2, <3>1
    <3>. HIDE DEF longer, free, it
    <3>. QED BY <1>1, <1>2, <1>5, <3>1, <3>2, LongerContent
  <2>3. CASE free >= Len(s)
    <3>1. buffer_append_sub(buf, s) = Filled(Len(s))
      BY <1>5, <2>3, AppendSubCases, Zenon
    <3>2. SubSeq(s, 1, Len(s)) = s
      BY SubSeqFull
    <3>3. Len(s) \in 0 .. Len(s) /\ Len(s) <= free
      BY <1>1, <2>1, <2>3
    <3>. HIDE DEF Filled, free
    <3>. QED BY <2>2, <3>1, <3>2, <3>3 DEF BufferHas
  <2>4. CASE ~(free >= Len(s))
    <3>. DEFINE rest == SubSeq(s, free + 1, Len(s))
                front == SubSeq(s, 1, free)
    <3>1. buffer_append_sub(buf, s) = buffer_append_new(Filled(free), rest)
      BY <1>5, <2>4, AppendSubCases, Zenon
    <3>2. free \in 0 .. Len(s) /\ free \in Nat /\ free < Len(s)
      BY <1>1, <2>1, <2>4
    <3>. HIDE DEF free
    <3>3. front \in Seq(Byte) /\ rest \in Seq(Byte) /\ front \o rest = s
      <4>1. \A k \in 1 .. Len(s) : s[k] \in Byte
        BY ElementOfSeq
      <4>2. front \in Seq(Byte)
        <5>1. \A k \in 1 .. free : s[k] \in Byte
          BY <3>2, <4>1
        <5>. QED BY <3>2, <5>1, SubSeqProperties
      <4>3. rest \in Seq(Byte)
        <5>1. \A k \in free + 1 .. Len(s) : s[k] \in Byte
          BY <3>2, <4>1
        <5>. QED BY <1>1, <3>2, <5>1, SubSeqProperties
      <4>4. front \o rest = SubSeq(s, 1, Len(s))
        <5>1. 1 \in 1 .. Len(s) + 1 /\ free \in 1 - 1 .. Len(s) /\ Len(s) \in free .. Len(s)
          BY <1>1, <3>2
        <5>. QED BY <5>1, ConcatAdjacentSubSeq
      <4>. QED BY <4>2, <4>3, <4>4, SubSeqFull
    <3>4. (text \o front) \o rest = text \o s
      <4>. HIDE DEF front, rest
      <4>1. text \in Seq(Byte) /\ front \in Seq(Byte) /\ rest \in Seq(Byte)
        BY <1>1, <3>3, Zenon
      <4>2. (text \o front) \o rest = text \o (front \o rest)
        <5>1. Splits(text, front, rest)
          BY <4>1, Grouped, Zenon
        <5>. QED BY <5>1, Zenon DEF Splits
      <4>. QED BY <3>3, <4>2, Zenon
    <3>5. /\ Filled(free) \in Buffers /\ Filled(free).totlen = Len(text \o s)
          /\ Content(Filled(free).data, text \o front)
      <4>. HIDE DEF Filled
      <4>. QED BY <2>2, <3>2
    <3>6. PICK f : f = Filled(free)
      OBVIOUS
    <3>. HIDE DEF Filled, rest, front
    <3>7. /\ buffer_append_new(f, rest) \in Buffers
          /\ buffer_append_new(f, rest).totlen = Len(text \o s)
          /\ Content(buffer_append_new(f, rest).data, (text \o front) \o rest)
      <4>1. /\ f \in Buffers /\ f.totlen = Len(text \o s)
            /\ Content(f.data, text \o front) /\ rest \in Seq(Byte)
        BY <3>3, <3>5, <3>6, Zenon
      <4>. QED BY <4>1, NewContent
    <3>. QED BY <3>1, <3>4, <3>6, <3>7, Zenon DEF BufferHas
  <2>. QED BY <2>3, <2>4
<1>. QED BY <1>3, <1>4, <1>5

\* So does adding a character.
LEMMA AppendChar ==
    ASSUME NEW buf, NEW text, BufferHas(buf, text), NEW c \in Byte
    PROVE  BufferHas(buffer_append_char(buf, c), text \o <<c>>)
<1>. DEFINE longer == [buf EXCEPT !.totlen = @ + 1]
            full == ~(buf.data # <<>> /\ Len(Head(buf.data).str) # Head(buf.data).size)
<1>1. /\ buf \in Buffers /\ Content(buf.data, text) /\ buf.totlen = Len(text)
      /\ text \in Seq(Byte) /\ Len(text) \in Nat
      /\ <<c>> \in Seq(Byte) /\ Len(<<c>>) = 1 /\ Len(text \o <<c>>) = Len(text) + 1
  <2>1. <<c>> \in Seq(Byte) /\ Len(<<c>>) = 1
    BY Single, Zenon
  <2>2. text \in Seq(Byte) /\ Len(text) \in Nat
    BY Joined DEF BufferHas, Content
  <2>. QED BY <2>1, <2>2, Joined DEF BufferHas
<1>2. longer \in Buffers /\ longer.data = buf.data /\ longer.totlen = Len(text \o <<c>>)
  BY <1>1 DEF Buffers
<1>3. CASE full
  <2>1. buffer_append_char(buf, c) = buffer_append_new(longer, <<c>>)
    BY <1>3, Zenon DEF buffer_append_char
  <2>. HIDE DEF longer, full
  <2>. QED BY <1>1, <1>2, <2>1, NewContent DEF BufferHas
<1>4. CASE ~full
  <2>. DEFINE new == [longer EXCEPT !.data[1].str = @ \o <<c>>]
  <2>1. buf.data \in Seq(Piece) /\ 1 \in 1 .. Len(buf.data) /\ buf.data # <<>>
    <3>1. buf.data \in Seq(Piece)
      BY <1>1 DEF Content
    <3>. QED BY <1>4, <3>1, EmptySeq
  <2>2. /\ buf.data[1].str \in Seq(Byte) /\ Len(buf.data[1].str) \in Nat /\ buf.data[1].size \in Nat
        /\ Len(buf.data[1].str) <= buf.data[1].size /\ Head(buf.data) = buf.data[1]
    <3>1. Head(buf.data) = buf.data[1]
      BY <2>1
    <3>. QED BY <1>1, <2>1, <3>1, PieceOf, Joined DEF Content
  <2>3. Append(buf.data[1].str, c) = buf.data[1].str \o <<c>>
    BY <2>2, AppendIsConcat
  <2>4. buffer_append_char(buf, c) = [longer EXCEPT !.data[1].str = Append(@, c)]
    BY <1>4, Zenon DEF buffer_append_char
  <2>5. buffer_append_char(buf, c) = new
    BY <2>3, <2>4
  <2>6. Len(longer.data[1].str) + Len(<<c>>) <= longer.data[1].size /\ longer.data # <<>>
    BY <1>1, <1>2, <1>4, <2>1, <2>2
  <2>7. new \in Buffers /\ new.totlen = longer.totlen /\ Content(new.data, text \o <<c>>)
    <3>. HIDE DEF longer
    <3>. QED BY <1>1, <1>2, <2>6, LongerContent
  <2>. HIDE DEF longer, new
  <2>. QED BY <1>2, <2>5, <2>7 DEF BufferHas
<1>. QED BY <1>3, <1>4
\* And adding several, one after the other.
LEMMA CharsText ==
    ASSUME NEW buf, NEW text, BufferHas(buf, text), NEW s \in Seq(Byte)
    PROVE  BufferHas(Chars(buf, s), text \o s)
<1>. DEFINE n == Len(s)
            Prefix(k) == SubSeq(s, 1, k)
            D == {x \in Buffers : \E t \in Seq(Byte) : BufferHas(x, t)}
            step == [x \in D \X (1 .. n) |-> buffer_append_char(x[1], s[x[2]])]
            Body(f) == [k \in 0 .. n |-> IF k = 0 THEN buf ELSE buffer_append_char(f[k - 1], s[k])]
            v == CHOOSE f : f = Body(f)
<1>1. n \in Nat /\ text \in Seq(Byte) /\ \A k \in 1 .. n : s[k] \in Byte
  BY LenProperties, ElementOfSeq DEF BufferHas, Content
<1>2. buf \in D /\ \A x, t : BufferHas(x, t) => x \in D
  BY DEF BufferHas, Content
<1>3. \A x \in D, k \in 1 .. n : step[<<x, k>>] = buffer_append_char(x, s[k])
  <2>. HIDE DEF D
  <2>. QED OBVIOUS
<1>4. \A x \in D, k \in 1 .. n : step[<<x, k>>] \in D
  <2>. SUFFICES ASSUME NEW x \in D, NEW k \in 1 .. n PROVE step[<<x, k>>] \in D
    OBVIOUS
  <2>1. PICK t \in Seq(Byte) : BufferHas(x, t)
    OBVIOUS
  <2>2. BufferHas(buffer_append_char(x, s[k]), t \o <<s[k]>>)
    BY <1>1, <2>1, AppendChar
  <2>. HIDE DEF D, step
  <2>. QED BY <1>2, <1>3, <2>2
<1>. HIDE DEF D
<1>5. PICK g \in [0 .. n -> D] : Runs(g, buf, step, n)
  <2>. HIDE DEF step
  <2>. QED BY <1>1, <1>2, <1>4, Recursion
<1>6. g[0] = buf /\ \A k \in 1 .. n : g[k] = buffer_append_char(g[k - 1], s[k])
  <2>1. \A k \in 1 .. n : g[k - 1] \in D
    BY <1>1
  <2>. HIDE DEF step
  <2>. QED BY <1>3, <1>5, <2>1 DEF Runs
<1>7. g = Body(g)
  <2>1. \A k \in 0 .. n : k # 0 => k \in 1 .. n
    BY <1>1
  <2>2. \A k \in 0 .. n : g[k] = IF k = 0 THEN buf ELSE buffer_append_char(g[k - 1], s[k])
    <3>. HIDE DEF step, n
    <3>. QED BY <1>6, <2>1
  <2>. HIDE DEF step
  <2>. QED BY <2>2
<1>8. v = Body(v) /\ Chars(buf, s) = v[n]
  BY <1>7, Zenon DEF Chars, Fold
<1>9. v[0] = buf /\ \A k \in 1 .. n : v[k] = buffer_append_char(v[k - 1], s[k])
  <2>1. 0 \in 0 .. n /\ \A k \in 1 .. n : k \in 0 .. n /\ k # 0
    BY <1>1
  <2>. HIDE DEF v
  <2>. QED BY <1>8, <2>1
<1>10. Alike(v, g, n)
  <2>. HIDE DEF v, step
  <2>. QED BY <1>6, <1>9 DEF Alike
<1>. HIDE DEF v, step
<1>11. n \in 0 .. n /\ v[n] = g[n]
  <2>1. \A k \in 0 .. n : v[k] = g[k]
    BY <1>1, <1>10, SameValues
  <2>. QED BY <1>1, <2>1
<1>. DEFINE T == {i \in 0 .. n : BufferHas(g[i], text \o Prefix(i))}
<1>12. \A k \in 0 .. n : k \in T
  <2>1. 0 \in T
    <3>1. Prefix(0) = <<>> /\ text \o <<>> = text
      BY <1>1, SubSeqEmpty, Joined
    <3>2. 0 \in 0 .. n
      BY <1>1
    <3>. HIDE DEF Prefix, n
    <3>. QED BY <1>6, <3>1, <3>2
  <2>2. ASSUME NEW k \in 1 .. n, k - 1 \in T PROVE k \in T
    <3>1. k \in 0 .. n /\ k - 1 \in 0 .. n /\ s[k] \in Byte /\ <<s[k]>> \in Seq(Byte)
      BY <1>1, Single
    <3>2. Prefix(k - 1) \in Seq(Byte) /\ Prefix(k) = Prefix(k - 1) \o <<s[k]>>
      <4>1. \A i \in 1 .. k - 1 : s[i] \in Byte
        BY <1>1
      <4>2. Prefix(k - 1) \in Seq(Byte)
        BY <3>1, <4>1, SubSeqProperties
      <4>3. 1 \in 1 .. Len(s) /\ k \in 1 .. Len(s)
        BY <1>1
      <4>. QED BY <4>2, <4>3, SubSeqRecursiveSecond
    <3>3. (text \o Prefix(k - 1)) \o <<s[k]>> = text \o Prefix(k)
      <4>. HIDE DEF Prefix
      <4>1. (text \o Prefix(k - 1)) \o <<s[k]>> = text \o (Prefix(k - 1) \o <<s[k]>>)
        <5>1. Splits(text, Prefix(k - 1), <<s[k]>>)
          BY <1>1, <3>1, <3>2, Grouped, Zenon
        <5>. QED BY <5>1, Zenon DEF Splits
      <4>. QED BY <3>2, <4>1
    <3>4. BufferHas(g[k - 1], text \o Prefix(k - 1))
      BY <2>2
    <3>5. BufferHas(buffer_append_char(g[k - 1], s[k]), (text \o Prefix(k - 1)) \o <<s[k]>>)
      <4>. HIDE DEF Prefix
      <4>. QED BY <3>1, <3>4, AppendChar
    <3>. HIDE DEF Prefix, n
    <3>. QED BY <1>6, <3>1, <3>3, <3>5
  <2>. HIDE DEF T, n
  <2>. QED BY <1>1, <2>1, <2>2, Counting
<1>13. BufferHas(g[n], text \o Prefix(n)) /\ Prefix(n) = s
  <2>1. Prefix(n) = s
    BY SubSeqFull
  <2>. HIDE DEF Prefix
  <2>. QED BY <1>11, <1>12, <2>1
<1>. HIDE DEF Prefix
<1>. QED BY <1>8, <1>11, <1>13

-----------------------------------------------------------------------------
(* Command lines: the runtime that reads one.                               *)

Readers == [args : Seq(Seq(Byte)), cur : Seq(Byte), some : BOOLEAN, quoted : BOOLEAN, bs : Nat]

\* The runtime is in state r when it has read s.
Reads(s, r) ==
    /\ s \in Seq(Byte)
    /\ \E g \in [0 .. Len(s) -> Readers] :
          /\ g[0] = Reader /\ r = g[Len(s)]
          /\ \A k \in 1 .. Len(s) : g[k] = ReadChar(g[k - 1], s[k])

LEMMA Repeated ==
    \A S : \A c \in S, m \in Nat : /\ [k \in 1 .. m |-> c] \in Seq(S) /\ Len([k \in 1 .. m |-> c]) = m
                                 /\ \A k \in 1 .. m : [i \in 1 .. m |-> c][k] = c
OBVIOUS

LEMMA BackslashText ==
    ASSUME NEW n \in Nat
    PROVE  /\ Backslashes(n) \in Seq(Byte) /\ Backslashes(0) = <<>>
           /\ n # 0 => Backslashes(n) = Backslashes(n - 1) \o <<"\\">>
<1>1. \A m \in Nat : /\ Backslashes(m) \in Seq(Byte) /\ Len(Backslashes(m)) = m
                     /\ \A k \in 1 .. m : Backslashes(m)[k] = "\\"
  <2>1. "\\" \in Byte
    BY Marks
  <2>. QED BY <2>1, Repeated, Zenon DEF Backslashes
<1>2. Backslashes(0) = <<>>
  BY <1>1, EmptySeq
<1>3. ASSUME n # 0 PROVE Backslashes(n) = Backslashes(n - 1) \o <<"\\">>
  <2>. DEFINE a == Backslashes(n)
              b == Backslashes(n - 1) \o <<"\\">>
  <2>1. n - 1 \in Nat
    BY <1>3
  <2>2. <<"\\">> \in Seq(Byte) /\ Len(<<"\\">>) = 1 /\ <<"\\">>[1] = "\\"
    <3>1. "\\" \in Byte
      BY Marks
    <3>. QED BY <3>1, Single, Zenon
  <2>3. /\ b \in Seq(Byte) /\ Len(b) = n - 1 + 1
        /\ \A k \in 1 .. n - 1 + 1 : b[k] = IF k <= n - 1 THEN Backslashes(n - 1)[k] ELSE <<"\\">>[k - (n - 1)]
    BY <1>1, <2>1, <2>2, ConcatProperties
  <2>4. \A k \in 1 .. n : b[k] = "\\"
    <3>. HIDE DEF b
    <3>. QED BY <1>1, <2>1, <2>2, <2>3
  <2>5. Len(a) = Len(b) /\ \A k \in 1 .. Len(a) : a[k] = b[k]
    <3>. HIDE DEF a, b
    <3>1. Len(a) = n /\ \A k \in 1 .. n : a[k] = "\\"
      BY <1>1 DEF a
    <3>. QED BY <2>1, <2>3, <2>4, <3>1
  <2>6. a \in Seq(Byte)
    BY <1>1
  <2>. HIDE DEF a, b
  <2>7. a = b
    BY <2>3, <2>5, <2>6, SeqEqual
  <2>. QED BY <2>7 DEF a, b
<1>. QED BY <1>1, <1>2, <1>3

\* What each kind of character does.
LEMMA ReadCases ==
    ASSUME NEW r, NEW c
    PROVE  /\ c = "\\" => ReadChar(r, c) = [r EXCEPT !.bs = @ + 1]
           /\ c = "\"" => ReadChar(r, c) =
                 [r EXCEPT !.bs = 0, !.some = TRUE,
                           !.cur = @ \o Backslashes(r.bs \div 2)
                                     \o (IF r.bs % 2 = 1 THEN <<"\"">> ELSE <<>>),
                           !.quoted = IF r.bs % 2 = 1 THEN @ ELSE ~@]
           /\ c = " " /\ ~r.quoted => ReadChar(r, c) = Flush(r)
           /\ c # "\\" /\ c # "\"" /\ ~(c = " " /\ ~r.quoted) =>
                 ReadChar(r, c) = [r EXCEPT !.bs = 0, !.some = TRUE,
                                            !.cur = Append(@ \o Backslashes(r.bs), c)]
<1>1. "\\" # "\"" /\ "\\" # " " /\ "\"" # " "
  OBVIOUS
<1>2. c = "\\" => ReadChar(r, c) = [r EXCEPT !.bs = @ + 1]
  BY <1>1, Zenon DEF ReadChar
<1>3. c = "\"" => ReadChar(r, c) =
                 [r EXCEPT !.bs = 0, !.some = TRUE,
                           !.cur = @ \o Backslashes(r.bs \div 2)
                                     \o (IF r.bs % 2 = 1 THEN <<"\"">> ELSE <<>>),
                           !.quoted = IF r.bs % 2 = 1 THEN @ ELSE ~@]
  BY <1>1, Zenon DEF ReadChar
<1>4. c = " " /\ ~r.quoted => ReadChar(r, c) = Flush(r)
  BY <1>1, Zenon DEF ReadChar
<1>5. c # "\\" /\ c # "\"" /\ ~(c = " " /\ ~r.quoted) =>
                 ReadChar(r, c) = [r EXCEPT !.bs = 0, !.some = TRUE,
                                            !.cur = Append(@ \o Backslashes(r.bs), c)]
  BY Zenon DEF ReadChar
<1>. QED BY <1>2, <1>3, <1>4, <1>5, Zenon

\* The runtime stays what it is.
LEMMA ReadersStay ==
    ASSUME NEW r \in Readers, NEW c \in Byte
    PROVE  ReadChar(r, c) \in Readers /\ Flush(r) \in Readers /\ Reader \in Readers
<1>1. /\ r.args \in Seq(Seq(Byte)) /\ r.cur \in Seq(Byte) /\ r.some \in BOOLEAN
      /\ r.quoted \in BOOLEAN /\ r.bs \in Nat
      /\ r = [args |-> r.args, cur |-> r.cur, some |-> r.some, quoted |-> r.quoted, bs |-> r.bs]
  BY DEF Readers
<1>2. Reader \in Readers
  <2>1. <<>> \in Seq(Byte) /\ <<>> \in Seq(Seq(Byte))
    BY EmptySeq
  <2>. QED BY <2>1 DEF Reader, Readers
<1>3. \A n \in Nat : r.cur \o Backslashes(n) \in Seq(Byte)
  BY <1>1, BackslashText, Joined
<1>4. Flush(r) \in Readers
  <2>1. Append(r.args, r.cur \o Backslashes(r.bs)) \in Seq(Seq(Byte))
    BY <1>1, <1>3, AppendProperties
  <2>2. [Reader EXCEPT !.args = Append(r.args, r.cur \o Backslashes(r.bs))] \in Readers
    <3>. DEFINE a == Append(r.args, r.cur \o Backslashes(r.bs))
    <3>. HIDE DEF a
    <3>. QED BY <1>2, <2>1 DEF Readers, a
  <2>. QED BY <2>2 DEF Flush
<1>. SUFFICES ReadChar(r, c) \in Readers
  BY <1>2, <1>4
<1>5. CASE c = "\\"
  <2>1. ReadChar(r, c) = [r EXCEPT !.bs = @ + 1]
    BY <1>5, ReadCases
  <2>. QED BY <1>1, <2>1 DEF Readers
<1>6. CASE c = "\""
  <2>. DEFINE cur == r.cur \o Backslashes(r.bs \div 2) \o (IF r.bs % 2 = 1 THEN <<"\"">> ELSE <<>>)
              quoted == IF r.bs % 2 = 1 THEN r.quoted ELSE ~r.quoted
  <2>1. ReadChar(r, c) = [r EXCEPT !.bs = 0, !.some = TRUE, !.cur = cur, !.quoted = quoted]
    BY <1>6, ReadCases
  <2>2. cur \in Seq(Byte)
    <3>1. r.bs \div 2 \in Nat
      BY <1>1
    <3>2. (IF r.bs % 2 = 1 THEN <<"\"">> ELSE <<>>) \in Seq(Byte)
      BY Marks, Joined
    <3>. QED BY <1>3, <3>1, <3>2, Joined
  <2>3. quoted \in BOOLEAN
    BY <1>1
  <2>. HIDE DEF cur, quoted
  <2>4. ReadChar(r, c) = [args |-> r.args, cur |-> cur, some |-> TRUE, quoted |-> quoted, bs |-> 0]
    BY <1>1, <2>1
  <2>. QED BY <1>1, <2>2, <2>3, <2>4 DEF Readers
<1>7. CASE c = " " /\ ~r.quoted
  BY <1>4, <1>7, ReadCases
<1>8. CASE c # "\\" /\ c # "\"" /\ ~(c = " " /\ ~r.quoted)
  <2>. DEFINE cur == Append(r.cur \o Backslashes(r.bs), c)
  <2>1. ReadChar(r, c) = [r EXCEPT !.bs = 0, !.some = TRUE, !.cur = cur]
    BY <1>8, ReadCases
  <2>2. cur \in Seq(Byte)
    BY <1>1, <1>3, AppendProperties
  <2>. HIDE DEF cur
  <2>3. ReadChar(r, c) = [args |-> r.args, cur |-> cur, some |-> TRUE, quoted |-> r.quoted, bs |-> 0]
    BY <1>1, <2>1
  <2>. QED BY <1>1, <2>2, <2>3 DEF Readers
<1>. QED BY <1>5, <1>6, <1>7, <1>8

LEMMA ReadsNothing == Reads(<<>>, Reader)
<1>. DEFINE g == [k \in 0 .. 0 |-> Reader]
<1>1. <<>> \in Seq(Byte) /\ Len(<<>>) = 0
  BY EmptySeq
<1>2. Reader \in Readers
  <2>1. <<>> \in Seq(Byte) /\ <<>> \in Seq(Seq(Byte))
    BY EmptySeq
  <2>. QED BY <2>1 DEF Reader, Readers
<1>3. g \in [0 .. 0 -> Readers] /\ g[0] = Reader /\ \A k \in 1 .. 0 : g[k] = ReadChar(g[k - 1], <<>>[k])
  BY <1>2
<1>. HIDE DEF g
<1>. QED BY <1>1, <1>3 DEF Reads

\* It goes on with the character that comes next.
LEMMA ReadsMore ==
    ASSUME NEW s, NEW r, Reads(s, r), NEW c \in Byte
    PROVE  Reads(s \o <<c>>, ReadChar(r, c)) /\ r \in Readers
<1>. DEFINE n == Len(s)
            t == s \o <<c>>
<1>1. s \in Seq(Byte) /\ n \in Nat
  BY LenProperties DEF Reads
<1>2. PICK g \in [0 .. n -> Readers] :
         g[0] = Reader /\ r = g[n] /\ \A k \in 1 .. n : g[k] = ReadChar(g[k - 1], s[k])
  BY DEF Reads
<1>3. r \in Readers /\ ReadChar(r, c) \in Readers
  <2>1. r \in Readers
    BY <1>1, <1>2
  <2>. QED BY <2>1, ReadersStay
<1>4. t \in Seq(Byte) /\ Len(t) = n + 1 /\ t[n + 1] = c /\ \A k \in 1 .. n : t[k] = s[k]
  <2>1. <<c>> \in Seq(Byte) /\ Len(<<c>>) = 1 /\ <<c>>[1] = c
    BY Single, Zenon
  <2>2. t \in Seq(Byte) /\ Len(t) = n + 1
        /\ \A k \in 1 .. n + 1 : t[k] = IF k <= n THEN s[k] ELSE <<c>>[k - n]
    BY <1>1, <2>1, ConcatProperties
  <2>. HIDE DEF t, n
  <2>. QED BY <1>1, <2>1, <2>2
<1>. DEFINE h == [k \in 0 .. n + 1 |-> IF k = n + 1 THEN ReadChar(r, c) ELSE g[k]]
<1>5. h \in [0 .. n + 1 -> Readers]
  <2>1. \A k \in 0 .. n + 1 : k # n + 1 => k \in 0 .. n
    BY <1>1
  <2>. QED BY <1>3, <2>1
<1>6. h[0] = Reader /\ h[n + 1] = ReadChar(r, c) /\ \A k \in 0 .. n : h[k] = g[k]
  <2>1. 0 \in 0 .. n /\ n + 1 \in 0 .. n + 1 /\ \A k \in 0 .. n : k \in 0 .. n + 1 /\ k # n + 1
    BY <1>1
  <2>. HIDE DEF n
  <2>2. \A k \in 0 .. n : h[k] = g[k]
    BY <2>1
  <2>3. h[n + 1] = ReadChar(r, c)
    BY <2>1
  <2>. HIDE DEF h
  <2>. QED BY <1>2, <2>1, <2>2, <2>3
<1>. HIDE DEF h, t
<1>7. ASSUME NEW k \in 1 .. n + 1 PROVE h[k] = ReadChar(h[k - 1], t[k])
  <2>1. CASE k = n + 1
    <3>1. k - 1 = n /\ n \in 0 .. n
      BY <1>1, <2>1
    <3>. QED BY <1>2, <1>4, <1>6, <2>1, <3>1
  <2>2. CASE k # n + 1
    <3>1. k \in 1 .. n /\ k \in 0 .. n /\ k - 1 \in 0 .. n
      BY <1>1, <2>2
    <3>. QED BY <1>2, <1>4, <1>6, <3>1
  <2>. QED BY <2>1, <2>2
<1>8. Reads(t, ReadChar(r, c))
  BY <1>4, <1>5, <1>6, <1>7 DEF Reads
<1>. QED BY <1>3, <1>8 DEF t

\* Its state is what reading is a recursion to.
LEMMA ReadsAll ==
    ASSUME NEW s, NEW r, Reads(s, r)
    PROVE  Fold(ReadChar, Reader, s) = r
<1>. DEFINE n == Len(s)
            Body(f) == [k \in 0 .. n |-> IF k = 0 THEN Reader ELSE ReadChar(f[k - 1], s[k])]
            v == CHOOSE f : f = Body(f)
<1>1. n \in Nat
  BY LenProperties DEF Reads
<1>2. PICK g \in [0 .. n -> Readers] :
         g[0] = Reader /\ r = g[n] /\ \A k \in 1 .. n : g[k] = ReadChar(g[k - 1], s[k])
  BY DEF Reads
<1>3. g = Body(g)
  <2>1. \A k \in 0 .. n : k # 0 => k \in 1 .. n
    BY <1>1
  <2>2. \A k \in 0 .. n : g[k] = IF k = 0 THEN Reader ELSE ReadChar(g[k - 1], s[k])
    <3>. HIDE DEF n
    <3>. QED BY <1>2, <2>1
  <2>. QED BY <2>2
<1>4. v = Body(v) /\ Fold(ReadChar, Reader, s) = v[n]
  BY <1>3, Zenon DEF Fold
<1>5. v[0] = Reader /\ \A k \in 1 .. n : v[k] = ReadChar(v[k - 1], s[k])
  <2>1. 0 \in 0 .. n /\ \A k \in 1 .. n : k \in 0 .. n /\ k # 0
    BY <1>1
  <2>. HIDE DEF v
  <2>. QED BY <1>4, <2>1
<1>6. Alike(v, g, n)
  <2>. HIDE DEF v
  <2>. QED BY <1>2, <1>5 DEF Alike
<1>. HIDE DEF v
<1>7. v[n] = g[n]
  <2>1. \A k \in 0 .. n : v[k] = g[k]
    BY <1>1, <1>6, SameValues
  <2>2. n \in 0 .. n
    BY <1>1
  <2>. QED BY <2>1, <2>2
<1>. QED BY <1>2, <1>4, <1>7

\* Backslashes are counted.
LEMMA ReadsBackslashes ==
    ASSUME NEW s, NEW r, Reads(s, r), NEW n \in Nat
    PROVE  Reads(s \o Backslashes(n), [r EXCEPT !.bs = @ + n])
<1>. DEFINE T == {k \in 0 .. n : Reads(s \o Backslashes(k), [r EXCEPT !.bs = @ + k])}
<1>1. s \in Seq(Byte) /\ r \in Readers /\ "\\" \in Byte
  BY ReadsMore, Marks DEF Reads
<1>2. r.bs \in Nat
  BY <1>1 DEF Readers
<1>3. 0 \in T
  <2>1. Backslashes(0) = <<>> /\ s \o <<>> = s
    BY <1>1, BackslashText, Joined
  <2>2. [r EXCEPT !.bs = @ + 0] = r
    BY <1>1, <1>2 DEF Readers
  <2>3. 0 \in 0 .. n
    OBVIOUS
  <2>. QED BY <2>1, <2>2, <2>3
<1>4. ASSUME NEW k \in 1 .. n, k - 1 \in T PROVE k \in T
  <2>. DEFINE q == [r EXCEPT !.bs = @ + (k - 1)]
  <2>1. k \in Nat /\ k - 1 \in Nat /\ k # 0 /\ k \in 0 .. n
    OBVIOUS
  <2>2. Backslashes(k) = Backslashes(k - 1) \o <<"\\">> /\ Backslashes(k - 1) \in Seq(Byte)
    BY <2>1, BackslashText
  <2>3. <<"\\">> \in Seq(Byte)
    BY <1>1, Joined
  <2>4. (s \o Backslashes(k - 1)) \o <<"\\">> = s \o Backslashes(k)
    <3>1. (s \o Backslashes(k - 1)) \o <<"\\">> = s \o (Backslashes(k - 1) \o <<"\\">>)
      <4>1. Splits(s, Backslashes(k - 1), <<"\\">>)
        BY <1>1, <2>2, <2>3, Grouped, Zenon
      <4>. QED BY <4>1, Zenon DEF Splits
    <3>. QED BY <2>2, <3>1
  <2>5. ReadChar(q, "\\") = [r EXCEPT !.bs = @ + k]
    <3>1. ReadChar(q, "\\") = [q EXCEPT !.bs = @ + 1]
      BY ReadCases
    <3>2. r.bs + (k - 1) + 1 = r.bs + k
      BY <1>2, <2>1
    <3>. QED BY <1>1, <1>2, <2>1, <3>1, <3>2 DEF Readers
  <2>6. Reads((s \o Backslashes(k - 1)) \o <<"\\">>, ReadChar(q, "\\"))
    <3>1. Reads(s \o Backslashes(k - 1), q)
      BY <1>4
    <3>. HIDE DEF q
    <3>. QED BY <1>1, <3>1, ReadsMore
  <2>. HIDE DEF q
  <2>. QED BY <2>1, <2>4, <2>5, <2>6
<1>5. n \in T
  <2>. HIDE DEF T
  <2>1. \A k \in 0 .. n : k \in T
    BY <1>3, <1>4, Counting
  <2>. QED BY <2>1
<1>. QED BY <1>5
-----------------------------------------------------------------------------
(* Command lines: an argument is read as it was given.                      *)

\* Between the quotes of the n-th argument, of which cur has been read.
InArg(args, n, cur) == [args |-> SubSeq(args, 1, n - 1), cur |-> cur,
                        some |-> TRUE, quoted |-> TRUE, bs |-> 0]

\* Behind the closing quote of the n-th argument, or in front of all.
AfterArg(args, n) == IF n = 0 THEN Reader
                     ELSE [args |-> SubSeq(args, 1, n - 1), cur |-> args[n],
                           some |-> TRUE, quoted |-> FALSE, bs |-> 0]

\* The beginnings of a sequence.
LEMMA Beginnings ==
    ASSUME NEW S, NEW seq \in Seq(S)
    PROVE  /\ \A n \in 0 .. Len(seq) : SubSeq(seq, 1, n) \in Seq(S)
           /\ SubSeq(seq, 1, 0) = <<>> /\ SubSeq(seq, 1, Len(seq)) = seq
           /\ \A n \in 1 .. Len(seq) : /\ SubSeq(seq, 1, n) = SubSeq(seq, 1, n - 1) \o <<seq[n]>>
                                       /\ SubSeq(seq, 1, n) = Append(SubSeq(seq, 1, n - 1), seq[n])
<1>1. Len(seq) \in Nat /\ \A n \in 1 .. Len(seq) : seq[n] \in S
  BY LenProperties, ElementOfSeq
<1>2. ASSUME NEW n \in 0 .. Len(seq) PROVE SubSeq(seq, 1, n) \in Seq(S)
  <2>1. \A i \in 1 .. n : seq[i] \in S
    BY <1>1
  <2>. QED BY <1>1, <2>1, SubSeqProperties
<1>3. SubSeq(seq, 1, 0) = <<>> /\ SubSeq(seq, 1, Len(seq)) = seq
  BY SubSeqEmpty, SubSeqFull
<1>4. ASSUME NEW n \in 1 .. Len(seq)
      PROVE  /\ SubSeq(seq, 1, n) = SubSeq(seq, 1, n - 1) \o <<seq[n]>>
             /\ SubSeq(seq, 1, n) = Append(SubSeq(seq, 1, n - 1), seq[n])
  <2>1. 1 \in 1 .. Len(seq) /\ n - 1 \in 0 .. Len(seq)
    BY <1>1
  <2>2. SubSeq(seq, 1, n) = SubSeq(seq, 1, n - 1) \o <<seq[n]>>
    BY <2>1, SubSeqRecursiveSecond
  <2>3. SubSeq(seq, 1, n - 1) \in Seq(S) /\ seq[n] \in S
    BY <1>1, <1>2, <2>1
  <2>4. Append(SubSeq(seq, 1, n - 1), seq[n]) = SubSeq(seq, 1, n - 1) \o <<seq[n]>>
    BY <2>3, AppendIsConcat
  <2>. QED BY <2>2, <2>4
<1>. QED BY <1>2, <1>3, <1>4

\* (Apart, as quotes and backslashes are more than the SMT backend can read.)
LEMMA NothingMore == \A k \in Nat : 0 + k = k
OBVIOUS

\* A space outside of quotes and the opening quote.
LEMMA ArgBegins ==
    ASSUME NEW args \in Seq(Seq(Byte)), NEW n \in 1 .. Len(args),
           NEW s, Reads(s, AfterArg(args, n - 1))
    PROVE  Reads(s \o <<" ", "\"">>, InArg(args, n, <<>>))
<1>. DEFINE r == AfterArg(args, n - 1)
            done == SubSeq(args, 1, n - 1)
            between == [args |-> done, cur |-> <<>>, some |-> FALSE, quoted |-> FALSE, bs |-> 0]
<1>1. s \in Seq(Byte) /\ Backslashes(0) = <<>> /\ " " \in Byte /\ "\"" \in Byte
  BY BackslashText, Marks DEF Reads
<1>2. ReadChar(r, " ") = between
  <2>1. ~r.quoted
    BY DEF AfterArg, Reader
  <2>2. ReadChar(r, " ") = Flush(r)
    BY <2>1, ReadCases
  <2>3. CASE n = 1
    <3>1. r = Reader /\ done = <<>>
      BY <2>3, Beginnings DEF AfterArg
    <3>2. Flush(r) = Reader
      BY <3>1 DEF Flush, Reader
    <3>. HIDE DEF r, done
    <3>. QED BY <2>2, <3>1, <3>2 DEF Reader
  <2>4. CASE n # 1
    <3>. DEFINE m == n - 1
    <3>1. m \in 1 .. Len(args) /\ m # 0
      BY <2>4
    <3>2. args[m] \in Seq(Byte)
      BY <3>1, ElementOfSeq
    <3>3. done = Append(SubSeq(args, 1, m - 1), args[m]) /\ args[m] \o <<>> = args[m]
      BY <3>1, <3>2, Beginnings, Joined
    <3>4. r.some = TRUE /\ r.bs = 0 /\ r.cur = args[m] /\ r.args = SubSeq(args, 1, m - 1)
      BY <3>1 DEF AfterArg
    <3>. HIDE DEF r, done, m
    <3>5. Flush(r) = [Reader EXCEPT !.args = Append(r.args, r.cur \o Backslashes(r.bs))]
      BY <3>4 DEF Flush
    <3>6. Append(r.args, r.cur \o Backslashes(r.bs)) = done
      BY <1>1, <3>3, <3>4
    <3>. QED BY <2>2, <3>5, <3>6 DEF Reader
  <2>. QED BY <2>3, <2>4
<1>3. ReadChar(between, "\"") = InArg(args, n, <<>>)
  <2>1. between.bs = 0 /\ between.cur = <<>> /\ between.args = done /\ between.quoted = FALSE
    OBVIOUS
  <2>2. 0 \div 2 = 0 /\ 0 % 2 # 1
    OBVIOUS
  <2>3. (<<>> \o Backslashes(0)) \o <<>> = <<>>
    BY <1>1, Joined
  <2>4. ReadChar(between, "\"") =
                 [between EXCEPT !.bs = 0, !.some = TRUE,
                           !.cur = @ \o Backslashes(between.bs \div 2)
                                     \o (IF between.bs % 2 = 1 THEN <<"\"">> ELSE <<>>),
                           !.quoted = IF between.bs % 2 = 1 THEN @ ELSE ~@]
    <3>. HIDE DEF between
    <3>. QED BY ReadCases
  <2>5. between.cur \o Backslashes(between.bs \div 2) \o (IF between.bs % 2 = 1 THEN <<"\"">> ELSE <<>>) = <<>>
    <3>. HIDE DEF between
    <3>. QED BY <2>1, <2>2, <2>3
  <2>6. ReadChar(between, "\"") = [between EXCEPT !.bs = 0, !.some = TRUE, !.cur = <<>>, !.quoted = TRUE]
    BY <2>1, <2>2, <2>4, <2>5
  <2>. HIDE DEF done
  <2>. QED BY <2>6 DEF InArg, done
<1>4. Reads((s \o <<" ">>) \o <<"\"">>, InArg(args, n, <<>>))
  <2>. HIDE DEF r, between
  <2>1. Reads(s \o <<" ">>, between)
    BY <1>1, <1>2, ReadsMore DEF r
  <2>2. Reads((s \o <<" ">>) \o <<"\"">>, ReadChar(between, "\""))
    BY <1>1, <2>1, ReadsMore
  <2>. QED BY <1>3, <2>2
<1>5. (s \o <<" ">>) \o <<"\"">> = s \o <<" ", "\"">>
  <2>1. <<" ">> \in Seq(Byte) /\ <<"\"">> \in Seq(Byte)
    BY <1>1, Joined
  <2>2. (s \o <<" ">>) \o <<"\"">> = s \o (<<" ">> \o <<"\"">>)
    <3>1. Splits(s, <<" ">>, <<"\"">>)
      BY <1>1, <2>1, Grouped, Zenon
    <3>. QED BY <3>1, Zenon DEF Splits
  <2>3. <<" ">> \o <<"\"">> = <<" ", "\"">>
    BY <1>1, Pair, Zenon
  <2>. QED BY <2>2, <2>3
<1>. QED BY <1>4, <1>5

\* A quote in an argument.
LEMMA QuoteArrives ==
    ASSUME NEW args, NEW n, NEW cur \in Seq(Byte), NEW k \in Nat,
           NEW s, Reads(s, InArg(args, n, cur))
    PROVE  Reads((s \o Backslashes(2 * k)) \o <<"\\", "\"">>,
                 InArg(args, n, (cur \o Backslashes(k)) \o <<"\"">>))
<1>. DEFINE t == s \o Backslashes(2 * k)
            q == [InArg(args, n, cur) EXCEPT !.bs = 2 * k]
            odd == [InArg(args, n, cur) EXCEPT !.bs = 2 * k + 1]
            quoted == (cur \o Backslashes(k)) \o <<"\"">>
<1>1. s \in Seq(Byte) /\ 2 * k \in Nat /\ "\\" \in Byte /\ "\"" \in Byte
  <2>1. 2 * k \in Nat
    OBVIOUS
  <2>. QED BY <2>1, Marks DEF Reads
<1>2. Reads(t, q)
  <2>1. Reads(t, [InArg(args, n, cur) EXCEPT !.bs = @ + 2 * k])
    BY <1>1, ReadsBackslashes
  <2>2. [InArg(args, n, cur) EXCEPT !.bs = @ + 2 * k] = q
    <3>1. InArg(args, n, cur).bs = 0
      BY DEF InArg
    <3>2. 0 + 2 * k = 2 * k
      OBVIOUS
    <3>. QED BY <3>1, <3>2
  <2>. HIDE DEF q
  <2>. QED BY <2>1, <2>2
<1>3. ReadChar(q, "\\") = odd
  <2>1. ReadChar(q, "\\") = [q EXCEPT !.bs = @ + 1]
    BY ReadCases
  <2>. QED BY <2>1 DEF InArg
<1>4. ReadChar(odd, "\"") = InArg(args, n, quoted)
  <2>1. odd.bs = 2 * k + 1 /\ odd.cur = cur /\ odd.quoted = TRUE
    BY DEF InArg
  <2>2. (2 * k + 1) \div 2 = k /\ (2 * k + 1) % 2 = 1
    OBVIOUS
  <2>3. ReadChar(odd, "\"") =
                 [odd EXCEPT !.bs = 0, !.some = TRUE,
                           !.cur = @ \o Backslashes(odd.bs \div 2)
                                     \o (IF odd.bs % 2 = 1 THEN <<"\"">> ELSE <<>>),
                           !.quoted = IF odd.bs % 2 = 1 THEN @ ELSE ~@]
    <3>. HIDE DEF odd
    <3>. QED BY ReadCases
  <2>4. odd.cur \o Backslashes(odd.bs \div 2) \o (IF odd.bs % 2 = 1 THEN <<"\"">> ELSE <<>>) = quoted
    <3>. HIDE DEF odd
    <3>. QED BY <2>1, <2>2
  <2>5. ReadChar(odd, "\"") = [odd EXCEPT !.bs = 0, !.some = TRUE, !.cur = quoted, !.quoted = TRUE]
    <3>. HIDE DEF odd, quoted
    <3>. QED BY <2>1, <2>2, <2>3, <2>4
  <2>. HIDE DEF quoted
  <2>. QED BY <2>5 DEF InArg
<1>5. Reads((t \o <<"\\">>) \o <<"\"">>, InArg(args, n, quoted))
  <2>. HIDE DEF t, q, odd, quoted
  <2>1. Reads(t \o <<"\\">>, odd)
    BY <1>1, <1>2, <1>3, ReadsMore
  <2>. QED BY <1>1, <1>4, <2>1, ReadsMore
<1>6. (t \o <<"\\">>) \o <<"\"">> = t \o <<"\\", "\"">>
  <2>1. <<"\\">> \in Seq(Byte) /\ <<"\"">> \in Seq(Byte) /\ t \in Seq(Byte)
    BY <1>1, <1>2, Joined DEF Reads
  <2>. HIDE DEF t
  <2>2. (t \o <<"\\">>) \o <<"\"">> = t \o (<<"\\">> \o <<"\"">>)
    <3>1. Splits(t, <<"\\">>, <<"\"">>)
      BY <2>1, Grouped, Zenon
    <3>. QED BY <3>1, Zenon DEF Splits
  <2>3. <<"\\">> \o <<"\"">> = <<"\\", "\"">>
    BY <1>1, Pair, Zenon
  <2>. QED BY <2>2, <2>3
<1>. HIDE DEF t, quoted
<1>. QED BY <1>5, <1>6 DEF t, quoted

\* Any other character.
LEMMA NormalArrives ==
    ASSUME NEW args, NEW n, NEW cur \in Seq(Byte), NEW k \in Nat,
           NEW c \in Byte, c # "\\", c # "\"",
           NEW s, Reads(s, InArg(args, n, cur))
    PROVE  Reads((s \o Backslashes(k)) \o <<c>>, InArg(args, n, (cur \o Backslashes(k)) \o <<c>>))
<1>. DEFINE t == s \o Backslashes(k)
            q == [InArg(args, n, cur) EXCEPT !.bs = k]
            more == (cur \o Backslashes(k)) \o <<c>>
<1>1. Reads(t, q)
  <2>1. Reads(t, [InArg(args, n, cur) EXCEPT !.bs = @ + k])
    BY ReadsBackslashes
  <2>2. [InArg(args, n, cur) EXCEPT !.bs = @ + k] = q
    <3>1. InArg(args, n, cur).bs = 0
      BY DEF InArg
    <3>2. 0 + k = k
      BY NothingMore, Zenon
    <3>. QED BY <3>1, <3>2
  <2>. HIDE DEF q
  <2>. QED BY <2>1, <2>2
<1>2. ReadChar(q, c) = InArg(args, n, more)
  <2>1. q.bs = k /\ q.cur = cur /\ q.quoted = TRUE
    BY DEF InArg
  <2>2. ReadChar(q, c) = [q EXCEPT !.bs = 0, !.some = TRUE, !.cur = Append(@ \o Backslashes(q.bs), c)]
    <3>. HIDE DEF q
    <3>. QED BY <2>1, ReadCases
  <2>3. Append(cur \o Backslashes(k), c) = more
    <3>1. cur \o Backslashes(k) \in Seq(Byte)
      BY BackslashText, Joined
    <3>. QED BY <3>1, AppendIsConcat
  <2>4. ReadChar(q, c) = [q EXCEPT !.bs = 0, !.some = TRUE, !.cur = more]
    <3>. HIDE DEF q, more
    <3>. QED BY <2>1, <2>2, <2>3
  <2>. HIDE DEF more
  <2>. QED BY <2>4 DEF InArg
<1>. HIDE DEF t, q, more
<1>3. Reads(t \o <<c>>, InArg(args, n, more))
  BY <1>1, <1>2, ReadsMore
<1>. QED BY <1>3 DEF t, more

\* The closing quote.
LEMMA ArgEnds ==
    ASSUME NEW args, NEW n \in Nat \ {0}, NEW cur \in Seq(Byte), NEW k \in Nat,
           cur \o Backslashes(k) = args[n], args[n] \in Seq(Byte),
           NEW s, Reads(s, InArg(args, n, cur))
    PROVE  Reads((s \o Backslashes(2 * k)) \o <<"\"">>, AfterArg(args, n))
<1>. DEFINE t == s \o Backslashes(2 * k)
            q == [InArg(args, n, cur) EXCEPT !.bs = 2 * k]
<1>1. 2 * k \in Nat /\ "\"" \in Byte
  <2>1. 2 * k \in Nat
    OBVIOUS
  <2>. QED BY <2>1, Marks
<1>2. Reads(t, q)
  <2>1. Reads(t, [InArg(args, n, cur) EXCEPT !.bs = @ + 2 * k])
    BY <1>1, ReadsBackslashes
  <2>2. [InArg(args, n, cur) EXCEPT !.bs = @ + 2 * k] = q
    <3>1. InArg(args, n, cur).bs = 0
      BY DEF InArg
    <3>2. 0 + 2 * k = 2 * k
      OBVIOUS
    <3>. QED BY <3>1, <3>2
  <2>. HIDE DEF q
  <2>. QED BY <2>1, <2>2
<1>3. ReadChar(q, "\"") = AfterArg(args, n)
  <2>1. q.bs = 2 * k /\ q.cur = cur /\ q.quoted = TRUE
    BY DEF InArg
  <2>2. (2 * k) \div 2 = k /\ (2 * k) % 2 # 1
    OBVIOUS
  <2>3. ReadChar(q, "\"") =
                 [q EXCEPT !.bs = 0, !.some = TRUE,
                           !.cur = @ \o Backslashes(q.bs \div 2)
                                     \o (IF q.bs % 2 = 1 THEN <<"\"">> ELSE <<>>),
                           !.quoted = IF q.bs % 2 = 1 THEN @ ELSE ~@]
    <3>. HIDE DEF q
    <3>. QED BY ReadCases
  <2>4. (cur \o Backslashes(k)) \o <<>> = args[n]
    BY Joined
  <2>5. q.cur \o Backslashes(q.bs \div 2) \o (IF q.bs % 2 = 1 THEN <<"\"">> ELSE <<>>) = args[n]
    <3>. HIDE DEF q
    <3>. QED BY <2>1, <2>2, <2>4
  <2>6. ReadChar(q, "\"") = [q EXCEPT !.bs = 0, !.some = TRUE, !.cur = args[n], !.quoted = FALSE]
    <3>. HIDE DEF q
    <3>. QED BY <2>1, <2>2, <2>3, <2>5
  <2>. QED BY <2>6 DEF InArg, AfterArg
<1>. HIDE DEF t, q
<1>4. Reads(t \o <<"\"">>, AfterArg(args, n))
  BY <1>1, <1>2, <1>3, ReadsMore
<1>. QED BY <1>4 DEF t

\* At the end the arguments are those that were given.
LEMMA AllArrived ==
    ASSUME NEW args \in Seq(Seq(Byte))
    PROVE  Flush(AfterArg(args, Len(args))).args = args
<1>. DEFINE n == Len(args)
            r == AfterArg(args, n)
<1>1. n \in Nat /\ SubSeq(args, 1, n) = args /\ Backslashes(0) = <<>>
  BY LenProperties, Beginnings, BackslashText
<1>2. CASE n = 0
  <2>1. r = Reader /\ args = <<>>
    BY <1>2, EmptySeq DEF AfterArg
  <2>2. Flush(Reader).args = <<>>
    BY DEF Flush, Reader
  <2>. HIDE DEF r
  <2>. QED BY <2>1, <2>2 DEF r
<1>3. CASE n # 0
  <2>1. n \in 1 .. Len(args)
    BY <1>1, <1>3
  <2>2. args[n] \in Seq(Byte) /\ args[n] \o <<>> = args[n]
    BY <2>1, ElementOfSeq, Joined
  <2>3. args = Append(SubSeq(args, 1, n - 1), args[n])
    BY <1>1, <2>1, Beginnings
  <2>4. r.some = TRUE /\ r.bs = 0 /\ r.cur = args[n] /\ r.args = SubSeq(args, 1, n - 1)
    BY <1>3 DEF AfterArg
  <2>. HIDE DEF r, n
  <2>5. Flush(r) = [Reader EXCEPT !.args = Append(r.args, r.cur \o Backslashes(r.bs))]
    BY <2>4 DEF Flush
  <2>6. Append(r.args, r.cur \o Backslashes(r.bs)) = args
    BY <1>1, <2>2, <2>3, <2>4
  <2>7. Flush(r).args = args
    BY <2>5, <2>6 DEF Reader
  <2>. QED BY <2>7 DEF r, n
<1>. QED BY <1>2, <1>3
-----------------------------------------------------------------------------
(* Command lines: the whole line.                                           *)

\* (For all texts, as with marks the SMT backend can read nothing.)
LEMMA TextLength == \A s \in Seq(Byte) : /\ Len(s) \in Nat /\ Len(s) + 2 \in Nat
                                       /\ Len(s) + 2 - 1 = Len(s) + 1
<1>1. ASSUME NEW s \in Seq(Byte) PROVE Len(s) \in Nat
  BY LenProperties
<1>2. \A n \in Nat : n + 2 \in Nat /\ n + 2 - 1 = n + 1
  OBVIOUS
<1>. QED BY <1>1, <1>2, Zenon

\* A part of a text is a text that has its characters.
LEMMA PartOfText ==
    ASSUME NEW text \in Seq(Byte), NEW part \in Seq(Byte), NEW lo \in Nat, NEW m \in Nat,
           lo + m <= Len(text), Len(part) = m, \A i \in 1 .. m : part[i] = text[lo + i]
    PROVE  SubSeq(text, lo + 1, lo + m) = part
<1>. DEFINE u == SubSeq(text, lo + 1, lo + m)
<1>1. Len(text) \in Nat /\ \A i \in 1 .. Len(text) : text[i] \in Byte
  BY LenProperties, ElementOfSeq
<1>2. \A i \in lo + 1 .. lo + m : text[i] \in Byte
  BY <1>1
<1>3. /\ u \in Seq(Byte) /\ Len(u) = IF lo + 1 <= lo + m THEN lo + m - (lo + 1) + 1 ELSE 0
      /\ \A i \in 1 .. lo + m - (lo + 1) + 1 : u[i] = text[lo + 1 + i - 1]
  BY <1>2, SubSeqProperties
<1>. HIDE DEF u
<1>4. Len(u) = m /\ \A i \in 1 .. m : u[i] = text[lo + i]
  <2>1. lo + m - (lo + 1) + 1 = m /\ \A i \in 1 .. m : lo + 1 + i - 1 = lo + i
    OBVIOUS
  <2>2. lo + 1 <= lo + m <=> m # 0
    OBVIOUS
  <2>. QED BY <1>3, <2>1, <2>2
<1>5. u = part
  BY <1>3, <1>4, SeqEqual
<1>. QED BY <1>5 DEF u

\* The characters of two texts, one behind the other.
LEMMA TextOfTwo ==
    ASSUME NEW s \in Seq(Byte), NEW t \in Seq(Byte)
    PROVE  /\ s \o t \in Seq(Byte) /\ Len(s \o t) = Len(s) + Len(t)
           /\ \A k \in 1 .. Len(s) : (s \o t)[k] = s[k]
           /\ \A k \in 1 .. Len(t) : (s \o t)[Len(s) + k] = t[k]
<1>1. PICK i \in Nat : i = Len(s)
  BY LenProperties
<1>2. PICK j \in Nat : j = Len(t)
  BY LenProperties
<1>3. /\ s \o t \in Seq(Byte) /\ Len(s \o t) = i + j
      /\ \A k \in 1 .. i + j : (s \o t)[k] = IF k <= i THEN s[k] ELSE t[k - i]
  BY <1>1, <1>2, ConcatProperties
<1>4. \A k \in 1 .. i : k \in 1 .. i + j /\ k <= i
  OBVIOUS
<1>5. ASSUME NEW k \in 1 .. j PROVE (s \o t)[i + k] = t[k]
  <2>1. i + k \in 1 .. i + j /\ ~(i + k <= i) /\ i + k - i = k
    OBVIOUS
  <2>. QED BY <1>3, <2>1
<1>. QED BY <1>1, <1>2, <1>3, <1>4, <1>5

\* A text that begins with what is between two marks q.
Marked(text, q, cmd, rest) ==
    /\ q \in Byte /\ cmd \in Seq(Byte) /\ rest \in Seq(Byte)
    /\ \A k \in 1 .. Len(cmd) : cmd[k] # q
    /\ text = ((<<q>> \o cmd) \o <<q>>) \o rest

\* What is between two marks q, where there is none, and what is behind them.
LEMMA BetweenMarks ==
    ASSUME NEW text, NEW q, NEW cmd, NEW rest, Marked(text, q, cmd, rest)
    PROVE  /\ text \in Seq(Byte) /\ Len(cmd) + 2 \in 2 .. Len(text)
           /\ text[Len(cmd) + 2] = q /\ \A h \in 2 .. Len(cmd) + 1 : text[h] # q
           /\ SubSeq(text, 2, Len(cmd) + 2 - 1) = cmd
           /\ SubSeq(text, Len(cmd) + 2 + 1, Len(text)) = rest
<1>1. PICK mark : mark = <<q>> /\ mark \in Seq(Byte) /\ Len(mark) = 1 /\ mark[1] = q
  BY Single DEF Marked
<1>2. PICK n \in Nat : n = Len(cmd) /\ \A k \in 1 .. n : cmd[k] # q
  BY LenProperties DEF Marked
<1>3. PICK m \in Nat : m = Len(rest)
  BY LenProperties DEF Marked
<1>4. PICK a : a = mark \o cmd
  OBVIOUS
<1>5. PICK b : b = a \o mark
  OBVIOUS
<1>6. /\ a \in Seq(Byte) /\ Len(a) = 1 + n
      /\ \A k \in 1 .. n : a[1 + k] = cmd[k]
  <2>1. cmd \in Seq(Byte)
    BY DEF Marked
  <2>. QED BY <1>1, <1>2, <1>4, <2>1, TextOfTwo
<1>7. /\ b \in Seq(Byte) /\ Len(b) = 1 + n + 1
      /\ \A k \in 1 .. 1 + n : b[k] = a[k]
      /\ \A k \in 1 .. 1 : b[1 + n + k] = mark[k]
  BY <1>1, <1>6, <1>5, TextOfTwo
<1>8. /\ text \in Seq(Byte) /\ Len(text) = 1 + n + 1 + m
      /\ \A k \in 1 .. 1 + n + 1 : text[k] = b[k]
      /\ \A k \in 1 .. m : text[1 + n + 1 + k] = rest[k]
  <2>1. rest \in Seq(Byte)
    BY DEF Marked
  <2>2. text = b \o rest
    BY <1>1, <1>4, <1>5 DEF Marked
  <2>3. /\ b \o rest \in Seq(Byte) /\ Len(b \o rest) = Len(b) + Len(rest)
        /\ \A k \in 1 .. Len(b) : (b \o rest)[k] = b[k]
        /\ \A k \in 1 .. Len(rest) : (b \o rest)[Len(b) + k] = rest[k]
    BY <1>7, <2>1, TextOfTwo, Zenon
  <2>. HIDE DEF Marked
  <2>. QED BY <1>3, <1>7, <2>2, <2>3
<1>9. text[n + 2] = q
  <2>1. 1 \in 1 .. 1 /\ 1 + n + 1 \in 1 .. 1 + n + 1 /\ 1 + n + 1 = n + 2
    OBVIOUS
  <2>. QED BY <1>1, <1>7, <1>8, <2>1
<1>10. ASSUME NEW k \in 1 .. n PROVE text[1 + k] = cmd[k]
  <2>1. 1 + k \in 1 .. 1 + n + 1 /\ 1 + k \in 1 .. 1 + n
    OBVIOUS
  <2>. QED BY <1>6, <1>7, <1>8, <2>1
<1>11. n + 2 \in 2 .. Len(text) /\ \A h \in 2 .. n + 1 : text[h] # q
  <2>1. ASSUME NEW h \in 2 .. n + 1 PROVE text[h] # q
    <3>1. PICK k \in 1 .. n : h = 1 + k
      <4>1. h - 1 \in 1 .. n /\ h = 1 + (h - 1)
        OBVIOUS
      <4>. QED BY <4>1
    <3>. QED BY <1>2, <1>10, <3>1
  <2>2. n + 2 \in 2 .. 1 + n + 1 + m
    OBVIOUS
  <2>. QED BY <1>8, <2>1, <2>2
<1>12. SubSeq(text, 2, n + 2 - 1) = cmd
  <2>1. 1 \in Nat /\ 1 + n <= Len(text) /\ 1 + 1 = 2 /\ 1 + n = n + 2 - 1
    BY <1>8
  <2>2. SubSeq(text, 1 + 1, 1 + n) = cmd
    <3>1. cmd \in Seq(Byte)
      BY DEF Marked
    <3>. QED BY <1>2, <1>8, <1>10, <2>1, <3>1, PartOfText
  <2>. QED BY <2>1, <2>2
<1>13. SubSeq(text, n + 2 + 1, Len(text)) = rest
  <2>1. 1 + n + 1 \in Nat /\ 1 + n + 1 + m <= Len(text) /\ 1 + n + 1 = n + 2
    BY <1>8
  <2>2. SubSeq(text, 1 + n + 1 + 1, 1 + n + 1 + m) = rest
    <3>1. rest \in Seq(Byte)
      BY DEF Marked
    <3>. QED BY <1>8, <1>3, <2>1, <3>1, PartOfText
  <2>. QED BY <1>8, <2>1, <2>2
<1>. QED BY <1>2, <1>8, <1>9, <1>11, <1>12, <1>13

\* The first mark from the second place on is the one behind it.
SecondMark(text, q) == CHOOSE k \in 2 .. Len(text) : text[k] = q /\ \A h \in 2 .. k - 1 : text[h] # q

LEMMA FirstMark ==
    ASSUME NEW q, NEW text, NEW n \in Nat, NEW len \in Nat, Len(text) = len, n \in 2 .. len,
           text[n] = q, \A h \in 2 .. n - 1 : text[h] # q
    PROVE  SecondMark(text, q) = n
<1>. DEFINE First(k) == text[k] = q /\ \A h \in 2 .. k - 1 : text[h] # q
            second == SecondMark(text, q)
<1>1. First(n)
  OBVIOUS
<1>2. second = CHOOSE k \in 2 .. len : First(k)
  BY DEF SecondMark
<1>3. second \in 2 .. len /\ First(second)
  <2>. HIDE DEF First, second
  <2>. QED BY <1>1, <1>2
<1>. HIDE DEF second
<1>4. ~(second < n) /\ ~(n < second)
  BY <1>3
<1>5. second = n
  BY <1>3, <1>4
<1>. QED BY <1>5 DEF second

\* A name between two marks is found, and what is behind it.
LEMMA NameIsFound ==
    ASSUME NEW text, NEW q, NEW cmd, NEW rest, Marked(text, q, cmd, rest)
    PROVE  /\ SubSeq(text, 2, SecondMark(text, q) - 1) = cmd
           /\ SubSeq(text, SecondMark(text, q) + 1, Len(text)) = rest
<1>1. PICK n \in Nat : n = Len(cmd) + 2 /\ n - 1 = Len(cmd) + 1
  BY TextLength DEF Marked
<1>2. /\ text \in Seq(Byte) /\ n \in 2 .. Len(text) /\ text[n] = q
      /\ \A h \in 2 .. Len(cmd) + 1 : text[h] # q
      /\ SubSeq(text, 2, n - 1) = cmd /\ SubSeq(text, n + 1, Len(text)) = rest
  BY <1>1, BetweenMarks
<1>3. Len(text) \in Nat /\ \A h \in 2 .. n - 1 : text[h] # q
  BY <1>1, <1>2, LenProperties
<1>4. SecondMark(text, q) = n
  BY <1>2, <1>3, FirstMark
<1>. QED BY <1>2, <1>4

\* The runtime finds the name of the program, and what it reads behind it are the arguments.
LEMMA ArgvOfLine ==
    ASSUME NEW cmd \in Seq(Byte), \A k \in 1 .. Len(cmd) : cmd[k] # "\"",
           NEW rest, NEW r, Reads(rest, r)
    PROVE  Argv(((<<"\"">> \o cmd) \o <<"\"">>) \o rest) = <<cmd>> \o Flush(r).args
<1>1. "\"" \in Byte /\ rest \in Seq(Byte)
  BY Marks, Zenon DEF Reads
<1>2. PICK text : text = ((<<"\"">> \o cmd) \o <<"\"">>) \o rest
  BY Zenon
<1>. DEFINE second == SecondMark(text, "\"")
<1>3. Marked(text, "\"", cmd, rest)
  BY <1>1, <1>2, Zenon DEF Marked
<1>4. SubSeq(text, 2, second - 1) = cmd /\ SubSeq(text, second + 1, Len(text)) = rest
  BY <1>3, NameIsFound, Zenon
<1>5. Argv(text) = <<SubSeq(text, 2, second - 1)>>
                   \o Flush(Fold(ReadChar, Reader, SubSeq(text, second + 1, Len(text)))).args
  BY Zenon DEF Argv, SecondMark
<1>. HIDE DEF second
<1>6. Fold(ReadChar, Reader, rest) = r
  BY ReadsAll, Zenon
<1>. QED BY <1>2, <1>4, <1>5, <1>6, Zenon
-----------------------------------------------------------------------------
(* Command lines: the steps.                                                *)

\* The program between quotes; and the shell, with cmd as its argument.
Front(cmd) == (<<"\"">> \o cmd) \o <<"\"">>

ShellLine(cmd) == <<"\"", "cmd.exe", "\"", "/C", " ", "\"">> \o cmd \o <<"\"">>

\* What is behind the program in buf leaves the runtime in state r.
Arrived(buf, cmd, r) == \E rest : Reads(rest, r) /\ BufferHas(buf, Front(cmd) \o rest)

\* Where each linePc is.
BehindArg(l, n, buf) ==
    /\ l.args # NoArgs /\ n \in 0 .. Len(l.args)
    /\ Arrived(buf, l.cmd, AfterArg(l.args, n))

AtChar(l, n, c, bs, buf) ==
    /\ l.args # NoArgs /\ n \in 1 .. Len(l.args) /\ c \in 1 .. Len(l.args[n]) + 1 /\ bs \in Nat
    /\ \E cur \in Seq(Byte) : /\ cur \o Backslashes(bs) = SubSeq(l.args[n], 1, c - 1)
                              /\ Arrived(buf, l.cmd, InArg(l.args, n, cur))

AtEnd(l, buf) == IF l.args # NoArgs THEN BehindArg(l, Len(l.args), buf)
                 ELSE BufferHas(buf, ShellLine(l.cmd))

LineInv ==
    /\ line \in Lines
    /\ linePc \in {"cmd", "args", "chars", "run"}
    /\ linePc = "cmd" => argument = 1 /\ buffer = empty
    /\ linePc = "args" => argument \in Nat /\ BehindArg(line, argument - 1, buffer)
    /\ linePc = "chars" => AtChar(line, argument, character, bs_count, buffer)
    /\ linePc = "run" => AtEnd(line, buffer)

\* The inputs.
LEMMA LineParts ==
    ASSUME NEW l \in Lines
    PROVE  l.cmd \in Seq(Byte) /\ (l.args # NoArgs => l.args \in Seq(Seq(Byte)))
BY LineAssumption, Zenon DEF LinesFit

LEMMA NoQuoteInName ==
    ASSUME NEW l \in Lines, l.args # NoArgs
    PROVE  \A k \in 1 .. Len(l.cmd) : l.cmd[k] # "\""
<1>1. DOMAIN l.cmd = 1 .. Len(l.cmd)
  <2>1. l.cmd \in Seq(Byte)
    BY LineParts
  <2>. QED BY <2>1, LenProperties
<1>2. \A k \in DOMAIN l.cmd : l.cmd[k] # "\""
  BY LineAssumption, Zenon DEF LinesFit
<1>. QED BY <1>1, <1>2, Zenon

\* The buffer is empty at first.
LEMMA BufferHasNothing == BufferHas(empty, <<>>)
<1>. DEFINE g == [k \in 0 .. 0 |-> <<>>]
<1>1. <<>> \in Seq(Byte) /\ <<>> \in Seq(Piece) /\ Len(<<>>) = 0
  BY EmptySeq
<1>2. empty \in Buffers /\ empty.data = <<>> /\ empty.totlen = 0
  <2>1. FirstPiece \in Nat \ {0}
    BY LineAssumption, Zenon DEF LinesFit
  <2>. QED BY <1>1, <2>1 DEF empty, Buffers
<1>3. Gathered(<<>>, g) /\ g[0] = <<>>
  BY <1>1 DEF Gathered
<1>. HIDE DEF g
<1>4. Content(<<>>, <<>>)
  BY <1>1, <1>3 DEF Content
<1>. QED BY <1>1, <1>2, <1>4 DEF BufferHas

\* What comes next in the buffer, and the runtime reads.
LEMMA ArrivesNext ==
    ASSUME NEW buf, NEW cmd \in Seq(Byte), NEW r, Arrived(buf, cmd, r),
           NEW a \in Seq(Byte), NEW b \in Seq(Byte), NEW new, NEW q,
           \A text : BufferHas(buf, text) => BufferHas(new, (text \o a) \o b),
           \A rest : Reads(rest, r) => Reads((rest \o a) \o b, q)
    PROVE  Arrived(new, cmd, q)
<1>1. PICK rest : Reads(rest, r) /\ BufferHas(buf, Front(cmd) \o rest)
  BY DEF Arrived
<1>2. rest \in Seq(Byte) /\ Front(cmd) \in Seq(Byte)
  <2>1. rest \in Seq(Byte)
    BY <1>1 DEF Reads
  <2>2. <<"\"">> \in Seq(Byte)
    BY Marks, Joined, Zenon
  <2>3. Front(cmd) \in Seq(Byte)
    BY <2>2, Joined, Zenon DEF Front
  <2>. QED BY <2>1, <2>3
<1>3. ((Front(cmd) \o rest) \o a) \o b = Front(cmd) \o ((rest \o a) \o b)
  <2>1. SplitsFour(Front(cmd), rest, a, b)
    BY <1>2, GroupedFour, Zenon
  <2>. QED BY <2>1, Zenon DEF SplitsFour
<1>4. BufferHas(new, ((Front(cmd) \o rest) \o a) \o b)
  BY <1>1, Zenon
<1>5. Reads((rest \o a) \o b, q)
  BY <1>1, Zenon
<1>. QED BY <1>3, <1>4, <1>5, Zenon DEF Arrived

\* Sequences that are written out.
LEMMA ShellBegins ==
    ASSUME NEW q \in Byte, NEW e \in Byte, NEW c \in Byte, NEW s \in Byte
    PROVE  /\ <<c, s, q>> \in Seq(Byte) /\ <<q, e, q, c, s, q>> \in Seq(Byte)
           /\ ((<<q>> \o <<e>>) \o <<q>>) \o <<c, s, q>> = <<q, e, q, c, s, q>>
<1>1. PICK u \in Seq(Byte) : /\ u = <<q, e, q, c, s, q>> /\ Len(u) = 6
                             /\ u[1] = q /\ u[2] = e /\ u[3] = q /\ u[4] = c /\ u[5] = s /\ u[6] = q
  <2>1. <<q, e, q, c, s, q>> \in Seq(Byte)
    OBVIOUS
  <2>2. /\ Len(<<q, e, q, c, s, q>>) = 6 /\ <<q, e, q, c, s, q>>[1] = q
        /\ <<q, e, q, c, s, q>>[2] = e /\ <<q, e, q, c, s, q>>[3] = q
        /\ <<q, e, q, c, s, q>>[4] = c /\ <<q, e, q, c, s, q>>[5] = s
        /\ <<q, e, q, c, s, q>>[6] = q
    OBVIOUS
  <2>. QED BY <2>1, <2>2, Zenon
<1>2. PICK v \in Seq(Byte) : v = <<c, s, q>> /\ Len(v) = 3 /\ v[1] = c /\ v[2] = s /\ v[3] = q
  <2>1. <<c, s, q>> \in Seq(Byte)
    OBVIOUS
  <2>2. /\ Len(<<c, s, q>>) = 3 /\ <<c, s, q>>[1] = c /\ <<c, s, q>>[2] = s
        /\ <<c, s, q>>[3] = q
    OBVIOUS
  <2>. QED BY <2>1, <2>2, Zenon
<1>3. PICK a \in Seq(Byte) : a = <<q>> \o <<e>> /\ Len(a) = 2 /\ a[1] = q /\ a[2] = e
  <2>1. <<q, e>>[1] = q /\ <<q, e>>[2] = e /\ Len(<<q, e>>) = 2
    OBVIOUS
  <2>. QED BY <2>1, Pair
<1>4. PICK z \in Seq(Byte) : z = <<q>> /\ Len(z) = 1 /\ z[1] = q
  BY Single
<1>5. PICK b \in Seq(Byte) : b = a \o z /\ Len(b) = 3 /\ b[1] = q /\ b[2] = e /\ b[3] = q
  <2>1. /\ a \o z \in Seq(Byte) /\ Len(a \o z) = Len(a) + Len(z)
        /\ \A k \in 1 .. Len(a) : (a \o z)[k] = a[k]
        /\ \A k \in 1 .. Len(z) : (a \o z)[Len(a) + k] = z[k]
    BY TextOfTwo
  <2>2. PICK w \in Seq(Byte) : w = a \o z
    BY <2>1
  <2>3. /\ Len(w) = 2 + 1 /\ \A k \in 1 .. 2 : w[k] = a[k]
        /\ \A k \in 1 .. 1 : w[2 + k] = z[k]
    BY <1>3, <1>4, <2>1, <2>2
  <2>4. w[1] = q /\ w[2] = e
    BY <1>3, <2>3
  <2>5. w[2 + 1] = q
    BY <1>4, <2>3
  <2>6. Len(w) = 3 /\ w[3] = q
    <3>1. 2 + 1 = 3
      OBVIOUS
    <3>. QED BY <2>3, <2>5, <3>1
  <2>. QED BY <2>2, <2>4, <2>6, Zenon
<1>6. b \o v = u
  <2>1. /\ b \o v \in Seq(Byte) /\ Len(b \o v) = Len(b) + Len(v)
        /\ \A k \in 1 .. Len(b) : (b \o v)[k] = b[k]
        /\ \A k \in 1 .. Len(v) : (b \o v)[Len(b) + k] = v[k]
    BY TextOfTwo
  <2>2. PICK w \in Seq(Byte) : w = b \o v
    BY <2>1
  <2>3. Len(w) = 6 /\ w[1] = b[1] /\ w[2] = b[2] /\ w[3] = b[3]
    BY <1>2, <1>5, <2>1, <2>2
  <2>4. w[4] = v[1] /\ w[5] = v[2] /\ w[6] = v[3]
    <3>1. \A k \in 1 .. 3 : w[3 + k] = v[k]
      BY <1>2, <1>5, <2>1, <2>2
    <3>2. w[3 + 1] = v[1] /\ w[3 + 2] = v[2] /\ w[3 + 3] = v[3]
      BY <3>1
    <3>3. 3 + 1 = 4 /\ 3 + 2 = 5 /\ 3 + 3 = 6
      OBVIOUS
    <3>. QED BY <3>2, <3>3
  <2>5. \A k \in 1 .. 6 : w[k] = u[k]
    <3>1. \A k \in 1 .. 6 : k = 1 \/ k = 2 \/ k = 3 \/ k = 4 \/ k = 5 \/ k = 6
      OBVIOUS
    <3>. QED BY <1>1, <1>2, <1>5, <2>3, <2>4, <3>1
  <2>6. w = u
    BY <1>1, <2>3, <2>5, SeqEqual
  <2>. QED BY <2>2, <2>6
<1>. QED BY <1>1, <1>2, <1>3, <1>4, <1>5, <1>6

\* The program, with arguments that come behind it.
LEMMA ProgramArrives ==
    ASSUME NEW l \in Lines, l.args # NoArgs
    PROVE  BehindArg(l, 0, buffer_append_char(buffer_append_sub(
                               buffer_append_char(empty, "\""), l.cmd), "\""))
<1>. DEFINE first == buffer_append_char(empty, "\"")
            name == buffer_append_sub(first, l.cmd)
            new == buffer_append_char(name, "\"")
<1>1. l.cmd \in Seq(Byte) /\ l.args \in Seq(Seq(Byte)) /\ Len(l.args) \in Nat
  BY LineParts, LenProperties
<1>2. "\"" \in Byte /\ <<"\"">> \in Seq(Byte)
  BY Marks, Joined, Zenon
<1>3. BufferHas(first, <<"\"">>)
  <2>1. BufferHas(first, <<>> \o <<"\"">>)
    BY <1>2, BufferHasNothing, AppendChar, Zenon
  <2>. QED BY <1>2, <2>1, Joined, Zenon
<1>. HIDE DEF first
<1>4. BufferHas(name, <<"\"">> \o l.cmd)
  BY <1>1, <1>3, AppendSub, Zenon
<1>. HIDE DEF name
<1>5. BufferHas(new, Front(l.cmd)) /\ Front(l.cmd) \in Seq(Byte)
  <2>1. BufferHas(new, (<<"\"">> \o l.cmd) \o <<"\"">>)
    BY <1>2, <1>4, AppendChar, Zenon
  <2>. QED BY <1>1, <1>2, <2>1, Joined, Zenon DEF Front
<1>. HIDE DEF new
<1>6. BufferHas(new, Front(l.cmd) \o <<>>)
  BY <1>5, Joined, Zenon
<1>7. Reads(<<>>, AfterArg(l.args, 0))
  BY ReadsNothing, Zenon DEF AfterArg
<1>8. 0 \in 0 .. Len(l.args)
  BY <1>1
<1>9. BehindArg(l, 0, new)
  BY <1>6, <1>7, <1>8, Zenon DEF BehindArg, Arrived
<1>. QED BY <1>9, Zenon DEF new, name, first

\* The shell, with the whole command between two quotes.
LEMMA ShellArrives ==
    ASSUME NEW l \in Lines, l.args = NoArgs
    PROVE  AtEnd(l, buffer_append_char(buffer_append_sub(buffer_append_sub(
                        buffer_append_char(buffer_append_sub(buffer_append_char(empty, "\""),
                            <<"cmd.exe">>), "\""), <<"/C", " ", "\"">>), l.cmd), "\""))
<1>. DEFINE a == buffer_append_char(empty, "\"")
            b == buffer_append_sub(a, <<"cmd.exe">>)
            c == buffer_append_char(b, "\"")
            d == buffer_append_sub(c, <<"/C", " ", "\"">>)
            e == buffer_append_sub(d, l.cmd)
            new == buffer_append_char(e, "\"")
            shell == <<"\"", "cmd.exe", "\"", "/C", " ", "\"">>
<1>1. /\ l.cmd \in Seq(Byte) /\ "\"" \in Byte /\ <<"\"">> \in Seq(Byte)
      /\ <<"cmd.exe">> \in Seq(Byte) /\ <<"/C", " ", "\"">> \in Seq(Byte) /\ shell \in Seq(Byte)
  BY LineParts, Marks, ShellBegins, Joined, Zenon
<1>2. ((<<"\"">> \o <<"cmd.exe">>) \o <<"\"">>) \o <<"/C", " ", "\"">> = shell
  BY Marks, ShellBegins, Zenon
<1>. HIDE DEF shell
<1>3. BufferHas(a, <<"\"">>)
  <2>1. BufferHas(a, <<>> \o <<"\"">>)
    BY <1>1, BufferHasNothing, AppendChar, Zenon
  <2>. QED BY <1>1, <2>1, Joined, Zenon
<1>. HIDE DEF a
<1>4. BufferHas(b, <<"\"">> \o <<"cmd.exe">>)
  BY <1>1, <1>3, AppendSub, Zenon
<1>. HIDE DEF b
<1>5. BufferHas(c, (<<"\"">> \o <<"cmd.exe">>) \o <<"\"">>)
  BY <1>1, <1>4, AppendChar, Zenon
<1>. HIDE DEF c
<1>6. BufferHas(d, shell)
  <2>1. BufferHas(d, ((<<"\"">> \o <<"cmd.exe">>) \o <<"\"">>) \o <<"/C", " ", "\"">>)
    BY <1>1, <1>5, AppendSub, Zenon
  <2>. QED BY <1>2, <2>1, Zenon
<1>. HIDE DEF d
<1>7. BufferHas(e, shell \o l.cmd)
  BY <1>1, <1>6, AppendSub, Zenon
<1>. HIDE DEF e
<1>8. BufferHas(new, (shell \o l.cmd) \o <<"\"">>)
  BY <1>1, <1>7, AppendChar, Zenon
<1>. HIDE DEF new
<1>9. AtEnd(l, new)
  BY <1>8, Zenon DEF AtEnd, ShellLine, shell
<1>. QED BY <1>9, Zenon DEF new, e, d, c, b, a

\* (Numbers, apart for the same reason as above.)
LEMMA TwiceIsNumber == \A k \in Nat : 2 * k \in Nat
OBVIOUS

LEMMA NextNumber == \A k \in Nat : k + 1 \in Nat /\ k + 1 # 0 /\ (k + 1) - 1 = k
OBVIOUS

LEMMA WithinBounds == \A m \in Nat : \A k \in 1 .. m + 1 : k <= m => k \in 1 .. m
OBVIOUS

\* Between the quotes of an argument.
LEMMA AtCharHolds ==
    ASSUME NEW l, NEW n, NEW c, NEW bs, NEW buf, NEW cur \in Seq(Byte),
           l.args # NoArgs, n \in 1 .. Len(l.args), c \in 1 .. Len(l.args[n]) + 1, bs \in Nat,
           cur \o Backslashes(bs) = SubSeq(l.args[n], 1, c - 1),
           Arrived(buf, l.cmd, InArg(l.args, n, cur))
    PROVE  AtChar(l, n, c, bs, buf)
BY Zenon DEF AtChar

\* One more character of an argument.
LEMMA NextCharacter ==
    ASSUME NEW w \in Seq(Byte), NEW c \in 1 .. Len(w)
    PROVE  /\ w[c] \in Byte /\ c + 1 \in 1 .. Len(w) + 1
           /\ SubSeq(w, 1, (c + 1) - 1) = SubSeq(w, 1, c - 1) \o <<w[c]>>
<1>1. Len(w) \in Nat /\ w[c] \in Byte
  BY LenProperties, ElementOfSeq
<1>2. c + 1 \in 1 .. Len(w) + 1 /\ (c + 1) - 1 = c
  BY <1>1
<1>3. SubSeq(w, 1, c) = SubSeq(w, 1, c - 1) \o <<w[c]>>
  BY Beginnings
<1>. QED BY <1>1, <1>2, <1>3

\* The parts of an argument that is being written.
LEMMA AtCharParts ==
    ASSUME NEW l \in Lines, NEW n, NEW c, NEW bs, NEW buf, AtChar(l, n, c, bs, buf)
    PROVE  /\ l.cmd \in Seq(Byte) /\ l.args \in Seq(Seq(Byte)) /\ l.args[n] \in Seq(Byte)
           /\ Len(l.args) \in Nat /\ Len(l.args[n]) \in Nat /\ bs \in Nat /\ n \in Nat /\ n # 0
<1>1. l.cmd \in Seq(Byte) /\ l.args \in Seq(Seq(Byte)) /\ n \in 1 .. Len(l.args) /\ bs \in Nat
  BY LineParts DEF AtChar
<1>2. l.args[n] \in Seq(Byte) /\ Len(l.args) \in Nat
  BY <1>1, ElementOfSeq, LenProperties
<1>. QED BY <1>1, <1>2, LenProperties

\* Backslashes and a character behind them.
LEMMA CharsThenOne ==
    ASSUME NEW k \in Nat, NEW c \in Byte, NEW buf, NEW text, BufferHas(buf, text)
    PROVE  BufferHas(Chars(buf, Append(Backslashes(k), c)), (text \o Backslashes(k)) \o <<c>>)
<1>1. Backslashes(k) \in Seq(Byte) /\ <<c>> \in Seq(Byte) /\ text \in Seq(Byte)
  BY BackslashText, Joined DEF BufferHas, Content
<1>2. Append(Backslashes(k), c) = Backslashes(k) \o <<c>> /\ Backslashes(k) \o <<c>> \in Seq(Byte)
  BY <1>1, AppendIsConcat, Joined
<1>3. BufferHas(Chars(buf, Backslashes(k) \o <<c>>), text \o (Backslashes(k) \o <<c>>))
  BY <1>2, CharsText
<1>4. text \o (Backslashes(k) \o <<c>>) = (text \o Backslashes(k)) \o <<c>>
  <2>1. Splits(text, Backslashes(k), <<c>>)
    BY <1>1, Grouped, Zenon
  <2>. QED BY <2>1, Zenon DEF Splits
<1>. QED BY <1>2, <1>3, <1>4, Zenon

\* What an argument's character leaves to be read: all before it, and no backslashes are kept.
LEMMA CharArrives ==
    ASSUME NEW l \in Lines, NEW n, NEW c, NEW bs, NEW buf, AtChar(l, n, c, bs, buf),
           c <= Len(l.args[n]), NEW new, NEW ch, ch = l.args[n][c],
           \A cur \in Seq(Byte) : Arrived(buf, l.cmd, InArg(l.args, n, cur)) =>
               Arrived(new, l.cmd, InArg(l.args, n, (cur \o Backslashes(bs)) \o <<ch>>))
    PROVE  AtChar(l, n, c + 1, 0, new)
<1>1. PICK w : w = l.args[n]
  OBVIOUS
<1>2. w \in Seq(Byte) /\ bs \in Nat /\ Len(w) \in Nat
  BY <1>1, AtCharParts
<1>3. c \in 1 .. Len(w)
  BY <1>1, <1>2 DEF AtChar
<1>4. PICK cur \in Seq(Byte) : /\ cur \o Backslashes(bs) = SubSeq(w, 1, c - 1)
                               /\ Arrived(buf, l.cmd, InArg(l.args, n, cur))
  BY <1>1 DEF AtChar
<1>5. PICK more : more = (cur \o Backslashes(bs)) \o <<ch>>
  OBVIOUS
<1>6. more \in Seq(Byte) /\ more \o Backslashes(0) = more
  <2>1. cur \o Backslashes(bs) \in Seq(Byte) /\ <<ch>> \in Seq(Byte) /\ Backslashes(0) = <<>>
    BY <1>1, <1>2, <1>3, NextCharacter, BackslashText, Joined
  <2>2. more \in Seq(Byte)
    BY <1>5, <2>1, Joined, Zenon
  <2>. QED BY <2>1, <2>2, Joined, Zenon
<1>7. more = SubSeq(w, 1, (c + 1) - 1) /\ c + 1 \in 1 .. Len(w) + 1
  BY <1>1, <1>2, <1>3, <1>4, <1>5, NextCharacter
<1>8. Arrived(new, l.cmd, InArg(l.args, n, more))
  BY <1>4, <1>5
<1>9. l.args # NoArgs /\ n \in 1 .. Len(l.args) /\ 0 \in Nat
  BY DEF AtChar
<1>10. more \o Backslashes(0) = SubSeq(l.args[n], 1, (c + 1) - 1) /\ c + 1 \in 1 .. Len(l.args[n]) + 1
  BY <1>1, <1>6, <1>7
<1>. QED BY <1>6, <1>8, <1>9, <1>10, AtCharHolds, Zenon

\* BeginArg.
LEMMA BeginArrives ==
    ASSUME NEW l \in Lines, NEW n \in Nat, NEW buf, BehindArg(l, n - 1, buf), n <= Len(l.args)
    PROVE  AtChar(l, n, 1, 0, buffer_append_sub(buf, <<" ", "\"">>))
<1>1. PICK new : new = buffer_append_sub(buf, <<" ", "\"">>)
  BY Zenon
<1>2. PICK s : s = <<" ", "\"">>
  BY Zenon
<1>3. s \in Seq(Byte) /\ <<>> \in Seq(Byte)
  BY <1>2, Marks, Pair, Joined, Zenon
<1>4. l.cmd \in Seq(Byte) /\ l.args \in Seq(Seq(Byte)) /\ l.args # NoArgs /\ n - 1 \in 0 .. Len(l.args)
  BY LineParts DEF BehindArg
<1>5. n \in 1 .. Len(l.args) /\ Len(l.args) \in Nat
  BY <1>4, LenProperties
<1>6. l.args[n] \in Seq(Byte) /\ Len(l.args[n]) \in Nat
  <2>1. l.args[n] \in Seq(Byte)
    BY <1>4, <1>5, ElementOfSeq
  <2>. QED BY <2>1, LenProperties
<1>7. ASSUME NEW text, BufferHas(buf, text) PROVE BufferHas(new, (text \o <<>>) \o s)
  <2>1. text \in Seq(Byte)
    BY <1>7 DEF BufferHas, Content
  <2>. QED BY <1>1, <1>2, <1>3, <1>7, <2>1, AppendSub, Joined, Zenon
<1>8. ASSUME NEW rest, Reads(rest, AfterArg(l.args, n - 1))
      PROVE  Reads((rest \o <<>>) \o s, InArg(l.args, n, <<>>))
  <2>1. rest \in Seq(Byte)
    BY <1>8 DEF Reads
  <2>. QED BY <1>2, <1>4, <1>5, <1>8, <2>1, ArgBegins, Joined, Zenon
<1>9. Arrived(new, l.cmd, InArg(l.args, n, <<>>))
  <2>1. Arrived(buf, l.cmd, AfterArg(l.args, n - 1))
    BY DEF BehindArg
  <2>. QED BY <1>3, <1>4, <1>7, <1>8, <2>1, ArrivesNext
<1>10. <<>> \o Backslashes(0) = SubSeq(l.args[n], 1, 1 - 1)
  <2>1. SubSeq(l.args[n], 1, 0) = <<>>
    BY <1>6, Beginnings
  <2>2. <<>> \o Backslashes(0) = <<>>
    BY BackslashText, Joined
  <2>3. 1 - 1 = 0
    OBVIOUS
  <2>. QED BY <2>1, <2>2, <2>3, Zenon
<1>11. AtChar(l, n, 1, 0, new)
  <2>1. 1 \in 1 .. Len(l.args[n]) + 1 /\ 0 \in Nat
    BY <1>6
  <2>. QED BY <1>3, <1>4, <1>5, <1>9, <1>10, <2>1, AtCharHolds, Zenon
<1>. QED BY <1>1, <1>11, Zenon

\* Quote.
LEMMA QuoteIsWritten ==
    ASSUME NEW l \in Lines, NEW n, NEW c, NEW bs, NEW buf, AtChar(l, n, c, bs, buf),
           c <= Len(l.args[n]), l.args[n][c] = "\""
    PROVE  AtChar(l, n, c + 1, 0,
                  buffer_append_sub(Chars(buf, Backslashes(2 * bs)), <<"\\", "\"">>))
<1>1. PICK new : new = buffer_append_sub(Chars(buf, Backslashes(2 * bs)), <<"\\", "\"">>)
  BY Zenon
<1>2. PICK s : s = <<"\\", "\"">>
  BY Zenon
<1>3. PICK ch : ch = l.args[n][c] /\ ch = "\""
  BY Zenon
<1>4. s \in Seq(Byte)
  BY <1>2, Marks, Pair, Zenon
<1>5. l.cmd \in Seq(Byte) /\ bs \in Nat
  BY AtCharParts, Zenon
<1>6. Backslashes(2 * bs) \in Seq(Byte)
  <2>1. \A k \in Nat : 2 * k \in Nat
    BY TwiceIsNumber, Zenon
  <2>. QED BY <1>5, <2>1, BackslashText, Zenon
<1>7. ASSUME NEW cur \in Seq(Byte), Arrived(buf, l.cmd, InArg(l.args, n, cur))
      PROVE  Arrived(new, l.cmd, InArg(l.args, n, (cur \o Backslashes(bs)) \o <<ch>>))
  <2>1. ASSUME NEW text, BufferHas(buf, text) PROVE BufferHas(new, (text \o Backslashes(2 * bs)) \o s)
    <3>1. BufferHas(Chars(buf, Backslashes(2 * bs)), text \o Backslashes(2 * bs))
      BY <1>6, <2>1, CharsText, Zenon
    <3>. QED BY <1>1, <1>2, <1>4, <3>1, AppendSub, Zenon
  <2>2. ASSUME NEW rest, Reads(rest, InArg(l.args, n, cur))
        PROVE  Reads((rest \o Backslashes(2 * bs)) \o s,
                     InArg(l.args, n, (cur \o Backslashes(bs)) \o <<ch>>))
    BY <1>2, <1>3, <1>5, <2>2, QuoteArrives, Zenon
  <2>. QED BY <1>4, <1>5, <1>6, <1>7, <2>1, <2>2, ArrivesNext, Zenon
<1>8. AtChar(l, n, c + 1, 0, new)
  BY <1>3, <1>7, CharArrives, Zenon
<1>. QED BY <1>1, <1>8, Zenon

\* Backslash.
LEMMA BackslashIsKept ==
    ASSUME NEW l \in Lines, NEW n, NEW c, NEW bs, NEW buf, AtChar(l, n, c, bs, buf),
           c <= Len(l.args[n]), l.args[n][c] = "\\"
    PROVE  AtChar(l, n, c + 1, bs + 1, buf)
<1>1. PICK w : w = l.args[n]
  BY Zenon
<1>2. w \in Seq(Byte) /\ bs \in Nat /\ Len(w) \in Nat
  BY <1>1, AtCharParts, Zenon
<1>3. PICK ch : ch = "\\" /\ w[c] = ch
  BY <1>1, Zenon
<1>4. l.args # NoArgs /\ n \in 1 .. Len(l.args) /\ c \in 1 .. Len(w) + 1
  BY <1>1, Zenon DEF AtChar
<1>5. PICK cur \in Seq(Byte) : /\ cur \o Backslashes(bs) = SubSeq(w, 1, c - 1)
                               /\ Arrived(buf, l.cmd, InArg(l.args, n, cur))
  BY <1>1, Zenon DEF AtChar
<1>6. /\ w[c] \in Byte /\ c + 1 \in 1 .. Len(w) + 1
      /\ SubSeq(w, 1, (c + 1) - 1) = SubSeq(w, 1, c - 1) \o <<w[c]>>
  <2>1. \A m \in Nat : \A k \in 1 .. m + 1 : k <= m => k \in 1 .. m
    BY WithinBounds, Zenon
  <2>2. c <= Len(w)
    BY <1>1, Zenon
  <2>. QED BY <1>2, <1>4, <2>1, <2>2, NextCharacter, Zenon
<1>7. /\ bs + 1 \in Nat /\ Backslashes(bs) \in Seq(Byte)
      /\ Backslashes(bs + 1) = Backslashes(bs) \o <<ch>>
  <2>1. \A k \in Nat : k + 1 \in Nat /\ k + 1 # 0 /\ (k + 1) - 1 = k
    BY NextNumber, Zenon
  <2>2. bs + 1 \in Nat /\ bs + 1 # 0 /\ (bs + 1) - 1 = bs
    BY <1>2, <2>1, Zenon
  <2>3. PICK m : m = bs + 1
    OBVIOUS
  <2>4. m \in Nat /\ m # 0 /\ m - 1 = bs
    BY <2>2, <2>3, Zenon
  <2>5. Backslashes(m) = Backslashes(m - 1) \o <<"\\">>
    BY <2>4, BackslashText, Zenon
  <2>6. Backslashes(m) = Backslashes(bs) \o <<ch>>
    BY <1>3, <2>4, <2>5, Zenon
  <2>. QED BY <1>2, <2>2, <2>3, <2>6, BackslashText, Zenon
<1>8. cur \o Backslashes(bs + 1) = SubSeq(w, 1, (c + 1) - 1)
  <2>1. cur \o (Backslashes(bs) \o <<ch>>) = (cur \o Backslashes(bs)) \o <<ch>>
    <3>1. <<ch>> \in Seq(Byte)
      BY <1>3, <1>6, Joined, Zenon
    <3>2. Splits(cur, Backslashes(bs), <<ch>>)
      BY <1>7, <3>1, Grouped, Zenon
    <3>. QED BY <3>2, Zenon DEF Splits
  <2>. QED BY <1>3, <1>5, <1>6, <1>7, <2>1, Zenon
<1>9. /\ cur \o Backslashes(bs + 1) = SubSeq(l.args[n], 1, (c + 1) - 1)
      /\ c + 1 \in 1 .. Len(l.args[n]) + 1 /\ bs + 1 \in Nat
  BY <1>1, <1>6, <1>7, <1>8, Zenon
<1>. QED BY <1>4, <1>5, <1>9, AtCharHolds, Zenon

\* Normal.
LEMMA NormalIsWritten ==
    ASSUME NEW l \in Lines, NEW n, NEW c, NEW bs, NEW buf, AtChar(l, n, c, bs, buf),
           c <= Len(l.args[n]), l.args[n][c] \notin {"\"", "\\"}
    PROVE  AtChar(l, n, c + 1, 0, Chars(buf, Append(Backslashes(bs), l.args[n][c])))
<1>1. PICK new : new = Chars(buf, Append(Backslashes(bs), l.args[n][c]))
  BY Zenon
<1>2. PICK ch : ch = l.args[n][c]
  BY Zenon
<1>3. ch # "\\" /\ ch # "\""
  BY <1>2, Zenon
<1>4. l.cmd \in Seq(Byte) /\ bs \in Nat /\ l.args[n] \in Seq(Byte) /\ Len(l.args[n]) \in Nat
  BY AtCharParts, Zenon
<1>5. ch \in Byte /\ <<ch>> \in Seq(Byte) /\ Backslashes(bs) \in Seq(Byte)
  <2>1. \A m \in Nat : \A k \in 1 .. m + 1 : k <= m => k \in 1 .. m
    BY WithinBounds, Zenon
  <2>2. c \in 1 .. Len(l.args[n])
    BY <1>4, <2>1, Zenon DEF AtChar
  <2>. QED BY <1>2, <1>4, <2>2, NextCharacter, BackslashText, Joined, Zenon
<1>6. ASSUME NEW cur \in Seq(Byte), Arrived(buf, l.cmd, InArg(l.args, n, cur))
      PROVE  Arrived(new, l.cmd, InArg(l.args, n, (cur \o Backslashes(bs)) \o <<ch>>))
  <2>1. ASSUME NEW text, BufferHas(buf, text) PROVE BufferHas(new, (text \o Backslashes(bs)) \o <<ch>>)
    BY <1>1, <1>2, <1>4, <1>5, <2>1, CharsThenOne, Zenon
  <2>2. ASSUME NEW rest, Reads(rest, InArg(l.args, n, cur))
        PROVE  Reads((rest \o Backslashes(bs)) \o <<ch>>,
                     InArg(l.args, n, (cur \o Backslashes(bs)) \o <<ch>>))
    BY <1>3, <1>4, <1>5, <2>2, NormalArrives, Zenon
  <2>. QED BY <1>4, <1>5, <1>6, <2>1, <2>2, ArrivesNext, Zenon
<1>7. AtChar(l, n, c + 1, 0, new)
  BY <1>2, <1>6, CharArrives, Zenon
<1>. QED BY <1>1, <1>7, Zenon

\* EndArg.
LEMMA EndArrives ==
    ASSUME NEW l \in Lines, NEW n, NEW c, NEW bs, NEW buf, AtChar(l, n, c, bs, buf),
           c > Len(l.args[n])
    PROVE  BehindArg(l, n, Chars(buf, Append(Backslashes(2 * bs), "\"")))
<1>1. PICK new : new = Chars(buf, Append(Backslashes(2 * bs), "\""))
  BY Zenon
<1>2. PICK q \in Byte : q = "\""
  BY Marks, Zenon
<1>3. /\ l.cmd \in Seq(Byte) /\ bs \in Nat /\ l.args[n] \in Seq(Byte) /\ n \in Nat \ {0}
      /\ Len(l.args[n]) \in Nat /\ l.args # NoArgs /\ n \in 0 .. Len(l.args)
  <2>1. /\ l.cmd \in Seq(Byte) /\ bs \in Nat /\ l.args[n] \in Seq(Byte) /\ n \in Nat /\ n # 0
        /\ Len(l.args) \in Nat /\ Len(l.args[n]) \in Nat
    BY AtCharParts
  <2>2. l.args # NoArgs /\ n \in 1 .. Len(l.args)
    BY DEF AtChar
  <2>3. n \in Nat \ {0} /\ n \in 0 .. Len(l.args)
    BY <2>1, <2>2
  <2>. QED BY <2>1, <2>2, <2>3
<1>4. Backslashes(2 * bs) \in Seq(Byte) /\ <<q>> \in Seq(Byte) /\ 2 * bs \in Nat
  <2>1. 2 * bs \in Nat
    BY <1>3
  <2>. QED BY <1>2, <2>1, BackslashText, Joined, Zenon
<1>5. PICK cur \in Seq(Byte) : /\ cur \o Backslashes(bs) = l.args[n]
                               /\ Arrived(buf, l.cmd, InArg(l.args, n, cur))
  <2>1. c - 1 = Len(l.args[n])
    BY <1>3 DEF AtChar
  <2>2. SubSeq(l.args[n], 1, c - 1) = l.args[n]
    BY <1>3, <2>1, Beginnings
  <2>. QED BY <2>2, Zenon DEF AtChar
<1>6. ASSUME NEW text, BufferHas(buf, text) PROVE BufferHas(new, (text \o Backslashes(2 * bs)) \o <<q>>)
  BY <1>1, <1>2, <1>4, <1>6, CharsThenOne, Zenon
<1>7. ASSUME NEW rest, Reads(rest, InArg(l.args, n, cur))
      PROVE  Reads((rest \o Backslashes(2 * bs)) \o <<q>>, AfterArg(l.args, n))
  BY <1>2, <1>3, <1>5, <1>7, ArgEnds, Zenon
<1>8. Arrived(new, l.cmd, AfterArg(l.args, n))
  BY <1>3, <1>4, <1>5, <1>6, <1>7, ArrivesNext, Zenon
<1>. QED BY <1>1, <1>3, <1>8, Zenon DEF BehindArg

\* At the end the text is as long as it is taken to be, and the runtime makes of it what
\* process_run was given.
LEMMA LineArrives == LineInv => ArgumentsArrive
<1>. SUFFICES ASSUME LineInv, linePc = "run" PROVE ArgumentsArrive
  BY Zenon DEF ArgumentsArrive
<1>1. PICK text : BufferHas(buffer, text) /\ (line.args = NoArgs => text = ShellLine(line.cmd))
                  /\ (line.args # NoArgs => Argv(text) = <<line.cmd>> \o line.args)
  <2>1. CASE line.args = NoArgs
    BY <2>1, Zenon DEF LineInv, AtEnd
  <2>2. CASE line.args # NoArgs
    <3>1. line.cmd \in Seq(Byte) /\ line.args \in Seq(Seq(Byte))
      BY <2>2, LineParts, Zenon DEF LineInv
    <3>2. PICK rest : Reads(rest, AfterArg(line.args, Len(line.args))) /\ BufferHas(buffer, Front(line.cmd) \o rest)
      BY <2>2, Zenon DEF LineInv, AtEnd, BehindArg, Arrived
    <3>3. \A k \in 1 .. Len(line.cmd) : line.cmd[k] # "\""
      BY <2>2, NoQuoteInName, Zenon DEF LineInv
    <3>4. Argv(Front(line.cmd) \o rest) = <<line.cmd>> \o Flush(AfterArg(line.args, Len(line.args))).args
      BY <3>1, <3>2, <3>3, ArgvOfLine, Zenon DEF Front
    <3>5. Flush(AfterArg(line.args, Len(line.args))).args = line.args
      BY <3>1, AllArrived, Zenon
    <3>. QED BY <2>2, <3>2, <3>4, <3>5, Zenon
  <2>. QED BY <2>1, <2>2, Zenon
<1>2. buffer_to_string(buffer) = text
  BY <1>1, TextOfBuffer, Zenon
<1>3. buffer.totlen = Len(text)
  BY <1>1, Zenon DEF BufferHas
<1>4. \A k \in DOMAIN buffer.data : Len(buffer.data[k].str) <= buffer.data[k].size
  <2>1. buffer.data \in Seq(Piece) /\ \A k \in 1 .. Len(buffer.data) : Len(buffer.data[k].str) <= buffer.data[k].size
    BY <1>1 DEF BufferHas, Content
  <2>2. DOMAIN buffer.data = 1 .. Len(buffer.data)
    BY <2>1, LenProperties
  <2>. QED BY <2>1, <2>2
<1>. QED BY <1>1, <1>2, <1>3, <1>4, Zenon DEF ArgumentsArrive, ShellLine

LEMMA LineBegins == CommandInit => LineInv
BY DEF CommandInit, LineInv

\* One step per action.
LEMMA LineGoesOn == LineInv /\ [CommandNext]_lineVars => LineInv'
<1>. SUFFICES ASSUME LineInv, [CommandNext]_lineVars PROVE LineInv'
  OBVIOUS
<1>. USE DEF LineInv
<1>1. CASE Command
  <2>1. CASE line.args # NoArgs
    <3>1. /\ linePc = "cmd" /\ linePc' = "args" /\ line' = line /\ argument' = 1
          /\ buffer' = buffer_append_char(buffer_append_sub(
                           buffer_append_char(empty, "\""), line.cmd), "\"")
      BY <1>1, <2>1, Zenon DEF Command
    <3>2. BehindArg(line, 0, buffer')
      BY <2>1, <3>1, ProgramArrives, Zenon
    <3>3. 1 - 1 = 0 /\ 1 \in Nat
      OBVIOUS
    <3>4. BehindArg(line', argument' - 1, buffer') /\ argument' \in Nat
      BY <3>1, <3>2, <3>3, Zenon
    <3>5. line' \in Lines /\ linePc' = "args"
      BY <3>1, Zenon
    <3>. QED BY <3>4, <3>5
  <2>2. CASE line.args = NoArgs
    <3>1. /\ linePc = "cmd" /\ linePc' = "run" /\ line' = line
          /\ buffer' = buffer_append_char(buffer_append_sub(buffer_append_sub(
                           buffer_append_char(buffer_append_sub(buffer_append_char(empty, "\""),
                               <<"cmd.exe">>), "\""), <<"/C", " ", "\"">>), line.cmd), "\"")
      BY <1>1, <2>2, Zenon DEF Command
    <3>2. AtEnd(line, buffer')
      BY <2>2, <3>1, ShellArrives, Zenon
    <3>3. AtEnd(line', buffer') /\ line' \in Lines /\ linePc' = "run"
      BY <3>1, <3>2, Zenon
    <3>. QED BY <3>3
  <2>. QED BY <2>1, <2>2
<1>2. CASE BeginArg
  <2>1. /\ linePc = "args" /\ linePc' = "chars" /\ line' = line /\ argument' = argument
        /\ character' = 1 /\ bs_count' = 0 /\ argument <= Len(line.args)
        /\ buffer' = buffer_append_sub(buffer, <<" ", "\"">>)
    BY <1>2, Zenon DEF BeginArg
  <2>2. line \in Lines /\ argument \in Nat /\ BehindArg(line, argument - 1, buffer)
    BY <2>1, Zenon
  <2>3. AtChar(line, argument, 1, 0, buffer')
    BY <2>1, <2>2, BeginArrives, Zenon
  <2>4. AtChar(line', argument', character', bs_count', buffer') /\ line' \in Lines /\ linePc' = "chars"
    BY <2>1, <2>2, <2>3, Zenon
  <2>. QED BY <2>4
<1>3. CASE Quote
  <2>1. /\ linePc = "chars" /\ linePc' = "chars" /\ line' = line /\ argument' = argument
        /\ character' = character + 1 /\ bs_count' = 0
        /\ character <= Len(line.args[argument]) /\ line.args[argument][character] = "\""
        /\ buffer' = buffer_append_sub(Chars(buffer, Backslashes(2 * bs_count)), <<"\\", "\"">>)
    BY <1>3, Zenon DEF Quote, At, Go, word
  <2>2. line \in Lines /\ AtChar(line, argument, character, bs_count, buffer)
    BY <2>1, Zenon
  <2>3. AtChar(line, argument, character + 1, 0, buffer')
    BY <2>1, <2>2, QuoteIsWritten, Zenon
  <2>4. AtChar(line', argument', character', bs_count', buffer') /\ line' \in Lines /\ linePc' = "chars"
    BY <2>1, <2>2, <2>3, Zenon
  <2>. QED BY <2>4
<1>4. CASE Backslash
  <2>1. /\ linePc = "chars" /\ linePc' = "chars" /\ line' = line /\ argument' = argument
        /\ character' = character + 1 /\ bs_count' = bs_count + 1
        /\ character <= Len(line.args[argument]) /\ line.args[argument][character] = "\\"
        /\ buffer' = buffer
    BY <1>4, Zenon DEF Backslash, At, Go, word
  <2>2. line \in Lines /\ AtChar(line, argument, character, bs_count, buffer)
    BY <2>1, Zenon
  <2>3. AtChar(line, argument, character + 1, bs_count + 1, buffer)
    BY <2>1, <2>2, BackslashIsKept, Zenon
  <2>4. AtChar(line', argument', character', bs_count', buffer') /\ line' \in Lines /\ linePc' = "chars"
    BY <2>1, <2>2, <2>3, Zenon
  <2>. QED BY <2>4
<1>5. CASE Normal
  <2>1. /\ linePc = "chars" /\ linePc' = "chars" /\ line' = line /\ argument' = argument
        /\ character' = character + 1 /\ bs_count' = 0
        /\ character <= Len(line.args[argument])
        /\ line.args[argument][character] \notin {"\"", "\\"}
        /\ buffer' = Chars(buffer, Append(Backslashes(bs_count), line.args[argument][character]))
    BY <1>5, Zenon DEF Normal, Go, word
  <2>2. line \in Lines /\ AtChar(line, argument, character, bs_count, buffer)
    BY <2>1, Zenon
  <2>3. AtChar(line, argument, character + 1, 0, buffer')
    BY <2>1, <2>2, NormalIsWritten, Zenon
  <2>4. AtChar(line', argument', character', bs_count', buffer') /\ line' \in Lines /\ linePc' = "chars"
    BY <2>1, <2>2, <2>3, Zenon
  <2>. QED BY <2>4
<1>6. CASE EndArg
  <2>1. /\ linePc = "chars" /\ linePc' = "args" /\ line' = line /\ argument' = argument + 1
        /\ character > Len(line.args[argument])
        /\ buffer' = Chars(buffer, Append(Backslashes(2 * bs_count), "\""))
    BY <1>6, Zenon DEF EndArg, word
  <2>2. line \in Lines /\ AtChar(line, argument, character, bs_count, buffer)
    BY <2>1, Zenon
  <2>3. BehindArg(line, argument, buffer')
    BY <2>1, <2>2, EndArrives, Zenon
  <2>4. argument \in Nat
    BY <2>2, AtCharParts, Zenon
  <2>5. argument + 1 \in Nat /\ (argument + 1) - 1 = argument
    BY <2>4
  <2>6. line' \in Lines /\ linePc' = "args" /\ argument' \in Nat /\ BehindArg(line', argument' - 1, buffer')
    BY <2>1, <2>2, <2>3, <2>5, Zenon
  <2>. QED BY <2>6
<1>7. CASE LastArg
  <2>1. /\ linePc = "args" /\ linePc' = "run" /\ line' = line /\ buffer' = buffer
        /\ argument > Len(line.args)
    BY <1>7, Zenon DEF LastArg
  <2>2. line \in Lines /\ argument \in Nat /\ BehindArg(line, argument - 1, buffer)
    BY <2>1, Zenon
  <2>3. argument - 1 = Len(line.args) /\ line.args # NoArgs
    <3>1. line.args # NoArgs /\ argument - 1 \in 0 .. Len(line.args)
      BY <2>2, Zenon DEF BehindArg
    <3>2. Len(line.args) \in Nat
      BY <2>2, <3>1, LineParts, LenProperties
    <3>. QED BY <2>1, <2>2, <3>1, <3>2
  <2>4. AtEnd(line, buffer)
    BY <2>2, <2>3, Zenon DEF AtEnd
  <2>5. line' \in Lines /\ linePc' = "run" /\ AtEnd(line', buffer')
    BY <2>1, <2>2, <2>4, Zenon
  <2>. QED BY <2>5
<1>8. CASE UNCHANGED lineVars
  BY <1>8 DEF lineVars
<1>. QED BY <1>1, <1>2, <1>3, <1>4, <1>5, <1>6, <1>7, <1>8 DEF CommandNext

\* Whatever quotes, backslashes and spaces are in them, the program's runtime makes the
\* arguments of process_run again of its command line (ArgumentsArrive).
THEOREM ArgumentsAreRead == CommandSpec => []ArgumentsArrive
<1>1. CommandInit => LineInv
  BY LineBegins
<1>2. LineInv /\ [CommandNext]_lineVars => LineInv'
  BY LineGoesOn
<1>3. LineInv => ArgumentsArrive
  BY LineArrives
<1>. QED BY <1>1, <1>2, <1>3, PTL DEF CommandSpec
=============================================================================
