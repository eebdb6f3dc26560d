------------------------- MODULE RegularEventsProofs -------------------------
(***************************************************************************)
(* What the operations on a list of regular events do, for any finite set of *)
(* events: a list that is linked both ways stays one.  The event loop of a   *)
(* thread and the main loop are about such lists.                            *)
(***************************************************************************)
EXTENDS RegularEvents, SequenceTheorems, FiniteSetTheorems, WellFoundedInduction, TLAPS

-----------------------------------------------------------------------------
(* The list of regular events: what its walks and filters, which are         *)
(* recursive functions, compute.                                             *)

\* Induction over the numbers, for a set.
LEMMA NatSetInduction ==
    ASSUME NEW T, 0 \in T, \A n \in Nat : n \in T => n + 1 \in T
    PROVE  \A n \in Nat : n \in T
<1>. DEFINE Less == {ss \in Nat \X Nat : ss[1] < ss[2]}
<1>1. IsWellFoundedOn(Less, Nat)
  BY NatLessThanWellFounded DEF OpToRel
<1>. SUFFICES ASSUME Nat \ T # {} PROVE FALSE
  OBVIOUS
<1>2. PICK x \in Nat \ T : \A y \in Nat \ T : ~(<<y, x>> \in Less)
  BY <1>1, WFMin
<1>3. x # 0 /\ x - 1 \in Nat /\ x - 1 < x /\ x - 1 + 1 = x
  BY <1>2
<1>4. <<x - 1, x>> \in Less
  BY <1>3
<1>5. x - 1 \in T
  BY <1>2, <1>3, <1>4
<1>. QED BY <1>3, <1>5

\* The events of a list are finitely many, and none of them is null.
RegularFit == IsFiniteSet(Regular) /\ NoEvent \notin Regular

\* A walk of any length exists, so Visited is what its recursion says.
LEMMA VisitedValues ==
    ASSUME RegularFit, NEW list \in List(Regular)
    PROVE  /\ Visited(list) \in [0 .. Cardinality(Regular) -> Regular \cup {NoEvent}]
           /\ Visited(list)[0] = list.head
           /\ \A i \in 1 .. Cardinality(Regular) : Visited(list)[i] = After(list, Visited(list)[i - 1])
<1>. DEFINE N == Cardinality(Regular)
            RN == Regular \cup {NoEvent}
            Walk(g, n) == g[0] = list.head /\ \A i \in 1 .. n : g[i] = After(list, g[i - 1])
            T == {n \in Nat : \E g \in [0 .. n -> RN] : Walk(g, n)}
<1>0. N \in Nat
  BY FS_CardinalityType DEF RegularFit
<1>1. list.head \in RN /\ \A r \in RN : After(list, r) \in RN
  BY DEF List, After
<1>2. 0 \in T
  <2>. DEFINE h == [i \in 0 .. 0 |-> list.head]
  <2>1. h \in [0 .. 0 -> RN] /\ Walk(h, 0)
    BY <1>1
  <2>. QED BY <2>1
<1>3. ASSUME NEW n \in Nat, n \in T PROVE n + 1 \in T
  <2>1. PICK g \in [0 .. n -> RN] : Walk(g, n)
    BY <1>3
  <2>. DEFINE h == [i \in 0 .. n + 1 |-> IF i <= n THEN g[i] ELSE After(list, g[n])]
  <2>2. n \in 0 .. n /\ g[n] \in RN
    BY <2>1
  <2>3. h \in [0 .. n + 1 -> RN]
    BY <1>1, <2>1, <2>2
  <2>4. h[0] = list.head
    BY <2>1
  <2>5. ASSUME NEW i \in 1 .. n + 1 PROVE h[i] = After(list, h[i - 1])
    <3>1. i \in 0 .. n + 1 /\ i - 1 \in 0 .. n + 1 /\ i - 1 <= n
      OBVIOUS
    <3>2. h[i - 1] = g[i - 1]
      BY <3>1
    <3>3. CASE i <= n
      <4>1. i \in 1 .. n /\ h[i] = g[i]
        BY <3>1, <3>3
      <4>. QED BY <2>1, <3>2, <4>1
    <3>4. CASE ~(i <= n)
      <4>1. i - 1 = n /\ h[i] = After(list, g[n])
        BY <3>1, <3>4
      <4>. QED BY <3>2, <4>1
    <3>. QED BY <3>3, <3>4
  <2>6. n + 1 \in Nat
    OBVIOUS
  <2>. HIDE DEF h
  <2>. QED BY <2>3, <2>4, <2>5, <2>6
<1>4. N \in T
  <2>. HIDE DEF T
  <2>. QED BY <1>0, <1>2, <1>3, NatSetInduction
<1>5. PICK g \in [0 .. N -> RN] : Walk(g, N)
  BY <1>4
<1>6. g = [i \in 0 .. N |-> IF i = 0 THEN list.head ELSE After(list, g[i - 1])]
  <2>1. \A i \in 0 .. N : i # 0 => i \in 1 .. N
    BY <1>0
  <2>. QED BY <1>5, <2>1
<1>. DEFINE v == Visited(list)
<1>7. v = [i \in 0 .. N |-> IF i = 0 THEN list.head ELSE After(list, v[i - 1])]
  BY <1>6 DEF Visited
<1>8. v[0] = list.head /\ \A i \in 1 .. N : v[i] = After(list, v[i - 1])
  <2>1. 0 \in 0 .. N /\ \A i \in 1 .. N : i \in 0 .. N /\ i # 0
    BY <1>0
  <2>. HIDE DEF v
  <2>. QED BY <1>7, <2>1
<1>9. \A i \in Nat : i \in {n \in Nat : n <= N => v[n] \in RN}
  <2>. DEFINE U == {n \in Nat : n <= N => v[n] \in RN}
  <2>1. 0 \in U
    BY <1>1, <1>8
  <2>2. ASSUME NEW n \in Nat, n \in U PROVE n + 1 \in U
    <3>1. CASE n + 1 <= N
      <4>1. n <= N /\ n + 1 \in 1 .. N /\ n + 1 - 1 = n
        BY <1>0, <3>1
      <4>2. v[n] \in RN
        BY <2>2, <4>1
      <4>3. v[n + 1] = After(list, v[n])
        BY <1>8, <4>1
      <4>. QED BY <1>1, <4>2, <4>3
    <3>2. CASE ~(n + 1 <= N)
      BY <3>2
    <3>. QED BY <3>1, <3>2
  <2>. HIDE DEF U
  <2>3. \A i \in Nat : i \in U
    BY <2>1, <2>2, NatSetInduction
  <2>. QED BY <2>3 DEF U
<1>10. v \in [0 .. N -> RN]
  <2>1. \A i \in 0 .. N : v[i] \in RN
    BY <1>0, <1>9
  <2>. HIDE DEF v
  <2>. QED BY <1>7, <2>1
<1>. QED BY <1>8, <1>10

\* The filter's result is the last of its values, one for each beginning of the sequence.
Filtered(seq, set) ==
    \E g \in [0 .. Len(seq) -> Seq(set)] :
       /\ g[0] = <<>> /\ Kept(seq, set) = g[Len(seq)]
       /\ \A i \in 1 .. Len(seq) : g[i] = IF seq[i] \in set THEN Append(g[i - 1], seq[i])
                                          ELSE g[i - 1]

\* A filter goes through the sequence once, from its beginning.
LEMMA KeptValues ==
    ASSUME NEW seq, NEW set, Len(seq) \in Nat
    PROVE  Filtered(seq, set)
<1>. SUFFICES
       \E g \in [0 .. Len(seq) -> Seq(set)] :
          /\ g[0] = <<>> /\ Kept(seq, set) = g[Len(seq)]
          /\ \A i \in 1 .. Len(seq) : g[i] = IF seq[i] \in set THEN Append(g[i - 1], seq[i])
                                             ELSE g[i - 1]
  BY DEF Filtered
<1>. DEFINE N == Len(seq)
            More(s, i) == IF seq[i] \in set THEN Append(s, seq[i]) ELSE s
            Filter(g, n) == g[0] = <<>> /\ \A i \in 1 .. n : g[i] = More(g[i - 1], i)
            T == {n \in Nat : \E g \in [0 .. n -> Seq(set)] : Filter(g, n)}
<1>1. <<>> \in Seq(set) /\ \A s \in Seq(set), i \in Nat : More(s, i) \in Seq(set)
  BY EmptySeq, AppendProperties
<1>. HIDE DEF More
<1>2. 0 \in T
  <2>. DEFINE h == [i \in 0 .. 0 |-> <<>>]
  <2>1. h \in [0 .. 0 -> Seq(set)] /\ Filter(h, 0)
    BY <1>1
  <2>. QED BY <2>1
<1>3. ASSUME NEW n \in Nat, n \in T PROVE n + 1 \in T
  <2>1. PICK g \in [0 .. n -> Seq(set)] : Filter(g, n)
    BY <1>3
  <2>. DEFINE h == [i \in 0 .. n + 1 |-> IF i <= n THEN g[i] ELSE More(g[n], n + 1)]
  <2>2. n \in 0 .. n /\ g[n] \in Seq(set) /\ n + 1 \in Nat
    BY <2>1
  <2>3. h \in [0 .. n + 1 -> Seq(set)]
    <3>1. More(g[n], n + 1) \in Seq(set)
      BY <1>1, <2>2
    <3>2. \A i \in 0 .. n + 1 : i <= n => g[i] \in Seq(set)
      BY <2>1
    <3>. QED BY <3>1, <3>2
  <2>4. h[0] = <<>>
    BY <2>1
  <2>5. ASSUME NEW i \in 1 .. n + 1 PROVE h[i] = More(h[i - 1], i)
    <3>1. i \in 0 .. n + 1 /\ i - 1 \in 0 .. n + 1 /\ i - 1 <= n
      OBVIOUS
    <3>2. h[i - 1] = g[i - 1]
      BY <3>1
    <3>3. CASE i <= n
      <4>1. i \in 1 .. n /\ h[i] = g[i]
        BY <3>1, <3>3
      <4>. QED BY <2>1, <3>2, <4>1
    <3>4. CASE ~(i <= n)
      <4>1. i - 1 = n /\ i = n + 1 /\ h[i] = More(g[n], n + 1)
        BY <3>1, <3>4
      <4>. QED BY <3>2, <4>1
    <3>. QED BY <3>3, <3>4
  <2>. HIDE DEF h
  <2>. QED BY <2>2, <2>3, <2>4, <2>5
<1>4. N \in T
  <2>. HIDE DEF T
  <2>. QED BY <1>2, <1>3, NatSetInduction
<1>5. PICK g \in [0 .. N -> Seq(set)] : Filter(g, N)
  BY <1>4
<1>. DEFINE Body(f) == [i \in 0 .. N |-> IF i = 0 THEN <<>>
                                        ELSE IF seq[i] \in set THEN Append(f[i - 1], seq[i]) ELSE f[i - 1]]
            v == CHOOSE f : f = Body(f)
<1>6. g = Body(g)
  <2>1. \A i \in 0 .. N : i # 0 => i \in 1 .. N
    OBVIOUS
  <2>. QED BY <1>5, <2>1, Zenon DEF More
<1>7. v = Body(v) /\ Kept(seq, set) = v[N]
  BY <1>6, Zenon DEF Kept
<1>8. v[0] = <<>> /\ \A i \in 1 .. N : v[i] = More(v[i - 1], i)
  <2>1. 0 \in 0 .. N /\ \A i \in 1 .. N : i \in 0 .. N /\ i # 0
    OBVIOUS
  <2>. HIDE DEF v
  <2>. QED BY <1>7, <2>1 DEF More
<1>. HIDE DEF v
<1>9. \A i \in Nat : i \in {n \in Nat : n <= N => v[n] \in Seq(set)}
  <2>. DEFINE U == {n \in Nat : n <= N => v[n] \in Seq(set)}
  <2>1. 0 \in U
    BY <1>1, <1>8
  <2>2. ASSUME NEW n \in Nat, n \in U PROVE n + 1 \in U
    <3>1. CASE n + 1 <= N
      <4>1. n <= N /\ n + 1 \in 1 .. N /\ n + 1 - 1 = n
        BY <3>1
      <4>2. v[n] \in Seq(set)
        BY <2>2, <4>1
      <4>3. v[n + 1] = More(v[n], n + 1)
        BY <1>8, <4>1
      <4>4. n + 1 \in Nat
        OBVIOUS
      <4>5. v[n + 1] \in Seq(set)
        BY <1>1, <4>2, <4>3, <4>4
      <4>. QED BY <4>4, <4>5
    <3>2. CASE ~(n + 1 <= N)
      BY <3>2
    <3>. QED BY <3>1, <3>2
  <2>. HIDE DEF U
  <2>3. \A i \in Nat : i \in U
    BY <2>1, <2>2, NatSetInduction
  <2>. QED BY <2>3 DEF U
<1>10. v \in [0 .. N -> Seq(set)]
  <2>1. \A i \in 0 .. N : i \in Nat /\ i <= N
    OBVIOUS
  <2>2. \A i \in 0 .. N : v[i] \in Seq(set)
    BY <1>9, <2>1
  <2>. QED BY <1>7, <2>2
<1>11. \A i \in 1 .. N : v[i] = IF seq[i] \in set THEN Append(v[i - 1], seq[i]) ELSE v[i - 1]
  BY <1>8 DEF More
<1>. QED BY <1>7, <1>8, <1>10, <1>11

-----------------------------------------------------------------------------
(* The list of regular events: its links.                                   *)

\* The list has the events of s, in this order, and links them both ways.
Linked(list, s) ==
    /\ \A i, j \in 1 .. Len(s) : s[i] = s[j] => i = j
    /\ list.head = IF Len(s) = 0 THEN NoEvent ELSE s[1]
    /\ \A i \in 1 .. Len(s) : list.next[s[i]] = IF i = Len(s) THEN NoEvent ELSE s[i + 1]
    /\ \A i \in 1 .. Len(s) : list.previous[s[i]] = IF i = 1 THEN NoEvent ELSE s[i - 1]

\* A sequence is a function, and an interval from 1 has as many numbers as its end says.
LEMMA SeqIsFunction == \A s \in Seq(Regular) : Len(s) \in Nat /\ s \in [1 .. Len(s) -> Regular]
BY LenProperties

LEMMA IntervalSize == \A n \in Nat : Cardinality(1 .. n) = n
BY FS_Interval

\* A list of distinct events is no longer than there are events.
LEMMA LinkedLength ==
    ASSUME RegularFit, NEW list, NEW s \in Seq(Regular), Linked(list, s)
    PROVE  Len(s) \in Nat /\ Len(s) <= Cardinality(Regular) /\ Cardinality(Regular) \in Nat
<1>1. Len(s) \in Nat /\ s \in [1 .. Len(s) -> Regular]
  BY SeqIsFunction
<1>2. s \in Injection(1 .. Len(s), Regular)
  BY <1>1 DEF Linked, Injection, IsInjective
<1>3. Cardinality(1 .. Len(s)) <= Cardinality(Regular)
  BY <1>2, FS_Injection DEF RegularFit
<1>4. Cardinality(1 .. Len(s)) = Len(s)
  BY <1>1, IntervalSize
<1>. QED BY <1>1, <1>3, <1>4, FS_CardinalityType DEF RegularFit

\* A walk visits the events in their order, and is past the end after the last one.
LEMMA LinkedVisited ==
    ASSUME RegularFit, NEW list \in List(Regular), NEW s \in Seq(Regular), Linked(list, s)
    PROVE  \A i \in 0 .. Cardinality(Regular) :
              Visited(list)[i] = IF i < Len(s) THEN s[i + 1] ELSE NoEvent
<1>. DEFINE N == Cardinality(Regular)
            v == Visited(list)
            At(i) == IF i < Len(s) THEN s[i + 1] ELSE NoEvent
            T == {n \in Nat : n <= N => v[n] = At(n)}
<1>1. Len(s) \in Nat /\ Len(s) <= N /\ N \in Nat /\ \A i \in 1 .. Len(s) : s[i] \in Regular
  BY LinkedLength, LenProperties
<1>2. v[0] = list.head /\ \A i \in 1 .. N : v[i] = After(list, v[i - 1])
  BY VisitedValues
<1>. HIDE DEF v
<1>3. 0 \in T
  BY <1>1, <1>2 DEF Linked
<1>4. ASSUME NEW n \in Nat, n \in T PROVE n + 1 \in T
  <2>. SUFFICES ASSUME n + 1 <= N PROVE v[n + 1] = At(n + 1)
    OBVIOUS
  <2>1. n <= N /\ n + 1 \in 1 .. N /\ n + 1 - 1 = n
    BY <1>1
  <2>2. v[n + 1] = After(list, At(n))
    BY <1>2, <1>4, <2>1
  <2>3. CASE n < Len(s)
    <3>1. n + 1 \in 1 .. Len(s)
      BY <1>1, <2>3
    <3>2. s[n + 1] # NoEvent
      BY <1>1, <3>1 DEF RegularFit
    <3>3. After(list, s[n + 1]) = IF n + 1 = Len(s) THEN NoEvent ELSE s[n + 1 + 1]
      BY <3>1, <3>2 DEF Linked, After
    <3>. QED BY <1>1, <2>2, <2>3, <3>1, <3>3
  <2>4. CASE ~(n < Len(s))
    BY <1>1, <2>2, <2>4 DEF After
  <2>. QED BY <2>3, <2>4
<1>5. \A n \in Nat : n \in T
  <2>. HIDE DEF T
  <2>. QED BY <1>3, <1>4, NatSetInduction
<1>6. \A i \in 0 .. N : i \in Nat /\ i <= N
  BY <1>1
<1>. QED BY <1>5, <1>6 DEF v

\* So the chain from the head is these events, and the links back fit.
LEMMA LinkedChain ==
    ASSUME RegularFit, NEW list \in List(Regular), NEW s \in Seq(Regular), Linked(list, s)
    PROVE  /\ Chain(list) = s /\ Ends(list) /\ BackLinksFit(list)
           /\ Members(list) = {s[i] : i \in 1 .. Len(s)}
<1>. DEFINE N == Cardinality(Regular)
            n == Len(s)
            w == [i \in 1 .. N |-> Visited(list)[i - 1]]
<1>1. n \in Nat /\ n <= N /\ N \in Nat /\ \A i \in 1 .. n : s[i] \in Regular /\ s[i] # NoEvent
  BY LinkedLength, LenProperties DEF RegularFit
<1>2. \A i \in 0 .. N : Visited(list)[i] = IF i < n THEN s[i + 1] ELSE NoEvent
  BY LinkedVisited
<1>3. Len(w) = N /\ Len(w) \in Nat /\ \A i \in 1 .. N : w[i] = IF i <= n THEN s[i] ELSE NoEvent
  <2>1. \A i \in 1 .. N : /\ i - 1 \in 0 .. N /\ i - 1 + 1 = i /\ (i - 1 < n <=> i <= n)
                          /\ w[i] = Visited(list)[i - 1]
    BY <1>1
  <2>2. Len(w) = N
    BY <1>1
  <2>. HIDE DEF w
  <2>. QED BY <1>1, <1>2, <2>1, <2>2
<1>4. Chain(list) = Kept(w, Regular)
  BY DEF Chain
<1>. HIDE DEF w, n, N
<1>a. Filtered(w, Regular)
  BY <1>3, KeptValues
<1>5. PICK g \in [0 .. N -> Seq(Regular)] :
         /\ g[0] = <<>> /\ Kept(w, Regular) = g[N]
         /\ \A i \in 1 .. N : g[i] = IF w[i] \in Regular THEN Append(g[i - 1], w[i]) ELSE g[i - 1]
  BY <1>3, <1>a DEF Filtered
<1>. DEFINE m(k) == IF k <= n THEN k ELSE n
            First_(k) == Len(g[k]) = m(k) /\ \A j \in 1 .. m(k) : g[k][j] = s[j]
            T == {k \in Nat : k <= N => First_(k)}
<1>6. 0 \in T
  BY <1>1, <1>5, EmptySeq
<1>7. ASSUME NEW k \in Nat, k \in T PROVE k + 1 \in T
  <2>. SUFFICES ASSUME k + 1 <= N PROVE First_(k + 1)
    OBVIOUS
  <2>1. k <= N /\ k + 1 \in 1 .. N /\ k + 1 - 1 = k /\ k \in 0 .. N
    BY <1>1
  <2>2. First_(k) /\ g[k] \in Seq(Regular)
    BY <1>5, <1>7, <2>1
  <2>3. g[k + 1] = IF w[k + 1] \in Regular THEN Append(g[k], w[k + 1]) ELSE g[k]
    BY <1>5, <2>1
  <2>4. CASE k + 1 <= n
    <3>1. w[k + 1] = s[k + 1] /\ s[k + 1] \in Regular
      BY <1>1, <1>3, <2>1, <2>4
    <3>2. Len(g[k]) = k /\ \A j \in 1 .. k : g[k][j] = s[j]
      BY <1>1, <2>2, <2>4
    <3>3. /\ Len(g[k + 1]) = k + 1 /\ g[k + 1][k + 1] = s[k + 1]
          /\ \A j \in 1 .. k : g[k + 1][j] = g[k][j]
      BY <2>2, <2>3, <3>1, <3>2, AppendProperties
    <3>4. \A j \in 1 .. k + 1 : j = k + 1 \/ j \in 1 .. k
      OBVIOUS
    <3>. QED BY <2>4, <3>2, <3>3, <3>4
  <2>5. CASE ~(k + 1 <= n)
    <3>1. w[k + 1] = NoEvent /\ NoEvent \notin Regular
      BY <1>3, <2>1, <2>5 DEF RegularFit
    <3>2. g[k + 1] = g[k] /\ m(k + 1) = m(k)
      BY <1>1, <2>3, <2>5, <3>1
    <3>. QED BY <2>2, <3>2
  <2>. QED BY <2>4, <2>5
<1>8. \A k \in Nat : k \in T
  <2>. HIDE DEF T
  <2>. QED BY <1>6, <1>7, NatSetInduction
<1>9. First_(N) /\ m(N) = n /\ g[N] \in Seq(Regular)
  BY <1>1, <1>5, <1>8
<1>10. Chain(list) = s
  BY <1>4, <1>5, <1>9, SeqEqual DEF n
<1>11. Ends(list)
  BY <1>1, <1>2 DEF Ends, N
<1>12. BackLinksFit(list)
  BY <1>10, LenProperties DEF BackLinksFit, Linked
<1>13. Members(list) = {s[i] : i \in 1 .. n}
  <2>1. DOMAIN Visited(list) = 0 .. N
    BY VisitedValues DEF N
  <2>2. \A i \in 1 .. n : i - 1 \in 0 .. N /\ Visited(list)[i - 1] = s[i]
    BY <1>1, <1>2
  <2>3. \A i \in 0 .. N : Visited(list)[i] # NoEvent => i + 1 \in 1 .. n /\ Visited(list)[i] = s[i + 1]
    BY <1>1, <1>2
  <2>4. Members(list) = {Visited(list)[i] : i \in 0 .. N} \ {NoEvent}
    BY <2>1 DEF Members
  <2>5. Members(list) \subseteq {s[i] : i \in 1 .. n}
    BY <2>3, <2>4
  <2>6. {s[i] : i \in 1 .. n} \subseteq Members(list)
    BY <1>1, <2>2, <2>4
  <2>. QED BY <2>5, <2>6
<1>. QED BY <1>10, <1>11, <1>12, <1>13 DEF n

\* repeat: the new event becomes the first one.
LEMMA PrependLinks ==
    ASSUME RegularFit, NEW list \in List(Regular), NEW s \in Seq(Regular), Linked(list, s), NEW r \in Regular,
           \A i \in 1 .. Len(s) : s[i] # r, list.previous[r] = NoEvent
    PROVE  /\ Prepend(list, r) \in List(Regular) /\ Linked(Prepend(list, r), <<r>> \o s)
           /\ <<r>> \o s \in Seq(Regular)
           /\ {(<<r>> \o s)[i] : i \in 1 .. Len(<<r>> \o s)} = {s[i] : i \in 1 .. Len(s)} \cup {r}
<1>. DEFINE t == <<r>> \o s
            n == Len(s)
            new == Prepend(list, r)
<1>1. /\ list.head \in Regular \cup {NoEvent} /\ NoEvent \notin Regular
      /\ list.next \in [Regular -> Regular \cup {NoEvent}]
      /\ list.previous \in [Regular -> Regular \cup {NoEvent}]
  BY DEF RegularFit, List
<1>2. n \in Nat /\ \A i \in 1 .. n : s[i] \in Regular
  BY LenProperties
<1>3. t \in Seq(Regular) /\ Len(t) = n + 1 /\ t[1] = r /\ \A i \in 1 .. n : t[i + 1] = s[i]
  BY <1>2, ConcatProperties
<1>4. \A i \in 1 .. n + 1 : i = 1 \/ (i - 1 \in 1 .. n /\ t[i] = s[i - 1])
  BY <1>2, <1>3
<1>5. /\ new.head = r /\ new.next = [list.next EXCEPT ![r] = list.head]
      /\ new.previous = [x \in Regular |-> IF x = list.head THEN r ELSE list.previous[x]]
  BY DEF Prepend
<1>6. new \in List(Regular)
  BY <1>1 DEF Prepend, List
<1>. HIDE DEF t, new
<1>7. \A i, j \in 1 .. n + 1 : t[i] = t[j] => i = j
  <2>1. \A i, j \in 1 .. n : s[i] = s[j] => i = j
    BY DEF Linked
  <2>. SUFFICES ASSUME NEW i \in 1 .. n + 1, NEW j \in 1 .. n + 1, t[i] = t[j] PROVE i = j
    OBVIOUS
  <2>2. /\ i = 1 \/ (i - 1 \in 1 .. n /\ t[i] = s[i - 1] /\ s[i - 1] # r)
        /\ j = 1 \/ (j - 1 \in 1 .. n /\ t[j] = s[j - 1] /\ s[j - 1] # r)
    BY <1>4
  <2>3. CASE i = 1 \/ j = 1
    BY <1>3, <2>2, <2>3
  <2>4. CASE i # 1 /\ j # 1
    <3>1. i - 1 = j - 1
      BY <2>1, <2>2, <2>4
    <3>. QED BY <1>2, <3>1
  <2>. QED BY <2>3, <2>4
<1>8. ASSUME NEW i \in 1 .. n + 1 PROVE new.next[t[i]] = IF i = n + 1 THEN NoEvent ELSE t[i + 1]
  <2>1. CASE i = 1
    <3>1. new.next[t[i]] = list.head
      BY <1>1, <1>3, <1>5, <2>1
    <3>2. n # 0 => t[2] = s[1]
      <4>1. n # 0 => 1 \in 1 .. n
        BY <1>2
      <4>. QED BY <1>3, <4>1
    <3>. QED BY <1>2, <2>1, <3>1, <3>2 DEF Linked
  <2>2. CASE i # 1
    <3>1. i - 1 \in 1 .. n /\ t[i] = s[i - 1] /\ s[i - 1] # r /\ s[i - 1] \in Regular
      BY <1>2, <1>4, <2>2
    <3>2. new.next[t[i]] = list.next[s[i - 1]]
      BY <1>1, <1>5, <3>1
    <3>3. i # n + 1 => t[i + 1] = s[i]
      <4>1. i # n + 1 => i \in 1 .. n
        BY <1>2
      <4>. QED BY <1>3, <4>1
    <3>. QED BY <1>2, <3>1, <3>2, <3>3 DEF Linked
  <2>. QED BY <2>1, <2>2
<1>9. ASSUME NEW i \in 1 .. n + 1 PROVE new.previous[t[i]] = IF i = 1 THEN NoEvent ELSE t[i - 1]
  <2>1. CASE i = 1
    <3>1. r # list.head
      <4>1. n # 0 => 1 \in 1 .. n
        BY <1>2
      <4>. QED BY <1>1, <4>1 DEF Linked
    <3>. QED BY <1>1, <1>3, <1>5, <2>1, <3>1
  <2>2. CASE i # 1
    <3>1. i - 1 \in 1 .. n /\ t[i] = s[i - 1] /\ s[i - 1] \in Regular /\ n # 0 /\ 1 \in 1 .. n
      BY <1>2, <1>4, <2>2
    <3>2. new.previous[t[i]] = IF s[i - 1] = list.head THEN r ELSE list.previous[s[i - 1]]
      BY <1>5, <3>1
    <3>3. s[i - 1] = list.head <=> i - 1 = 1
      BY <1>2, <3>1 DEF Linked
    <3>4. i - 1 # 1 => t[i - 1] = s[i - 2] /\ list.previous[s[i - 1]] = s[i - 2]
      <4>1. i - 1 # 1 => i - 1 \in 1 .. n + 1 /\ i - 1 - 1 = i - 2
        BY <1>2, <3>1
      <4>2. i - 1 # 1 => t[i - 1] = s[i - 2]
        BY <1>4, <4>1
      <4>3. list.previous[s[i - 1]] = IF i - 1 = 1 THEN NoEvent ELSE s[i - 1 - 1]
        BY <3>1 DEF Linked
      <4>. QED BY <4>1, <4>2, <4>3
    <3>. QED BY <1>3, <2>2, <3>2, <3>3, <3>4
  <2>. QED BY <2>1, <2>2
<1>10. Linked(new, t)
  <2>1. Len(t) = n + 1 /\ n + 1 # 0 /\ new.head = t[1]
    BY <1>2, <1>3, <1>5
  <2>. QED BY <1>7, <1>8, <1>9, <2>1 DEF Linked
<1>11. {t[i] : i \in 1 .. Len(t)} = {s[i] : i \in 1 .. n} \cup {r}
  <2>1. \A i \in 1 .. n : i + 1 \in 1 .. n + 1
    BY <1>2
  <2>2. 1 \in 1 .. n + 1
    BY <1>2
  <2>3. {t[i] : i \in 1 .. n + 1} \subseteq {s[i] : i \in 1 .. n} \cup {r}
    <3>. SUFFICES ASSUME NEW i \in 1 .. n + 1 PROVE t[i] \in {s[k] : k \in 1 .. n} \cup {r}
      OBVIOUS
    <3>1. CASE i = 1
      BY <1>3, <3>1
    <3>2. CASE i - 1 \in 1 .. n /\ t[i] = s[i - 1]
      BY <3>2
    <3>. QED BY <1>4, <3>1, <3>2
  <2>4. {s[i] : i \in 1 .. n} \subseteq {t[i] : i \in 1 .. n + 1}
    BY <1>3, <2>1
  <2>5. r \in {t[i] : i \in 1 .. n + 1}
    BY <1>3, <2>2
  <2>. QED BY <1>3, <2>3, <2>4, <2>5
<1>. QED BY <1>3, <1>6, <1>10, <1>11 DEF t, new, n

\* The events of s but for the one at k.
Without(s, k) == [i \in 1 .. Len(s) - 1 |-> IF i < k THEN s[i] ELSE s[i + 1]]

\* What is left is a sequence of the same events, one shorter.
LEMMA WithoutSeq ==
    ASSUME NEW set, NEW s \in Seq(set), NEW k \in 1 .. Len(s)
    PROVE  /\ Without(s, k) \in Seq(set) /\ Len(Without(s, k)) = Len(s) - 1 /\ Len(s) \in Nat
           /\ \A i \in 1 .. Len(s) - 1 : Without(s, k)[i] = IF i < k THEN s[i] ELSE s[i + 1]
<1>1. Len(s) \in Nat /\ Len(s) - 1 \in Nat /\ \A i \in 1 .. Len(s) : s[i] \in set
  BY LenProperties
<1>2. \A i \in 1 .. Len(s) - 1 : i \in 1 .. Len(s) /\ i + 1 \in 1 .. Len(s)
  BY <1>1
<1>3. \A i \in 1 .. Len(s) - 1 : (IF i < k THEN s[i] ELSE s[i + 1]) \in set
  BY <1>1, <1>2
<1>. QED BY <1>1, <1>3 DEF Without

\* cancel: the others keep their order.
LEMMA UnlinkLinks ==
    ASSUME RegularFit, NEW list \in List(Regular), NEW s \in Seq(Regular), Linked(list, s), NEW k \in 1 .. Len(s)
    PROVE  /\ Linked(Unlink(list, s[k]), Without(s, k))
           /\ {Without(s, k)[i] : i \in 1 .. Len(Without(s, k))} = {s[i] : i \in 1 .. Len(s)} \ {s[k]}
<1>. DEFINE t == Without(s, k)
            n == Len(s)
            r == s[k]
            new == Unlink(list, s[k])
<1>1. /\ t \in Seq(Regular) /\ Len(t) = n - 1 /\ n \in Nat /\ k \in Nat /\ 1 <= k /\ k <= n
      /\ \A i \in 1 .. n - 1 : t[i] = IF i < k THEN s[i] ELSE s[i + 1]
  BY WithoutSeq
<1>2. /\ \A i, j \in 1 .. n : s[i] = s[j] => i = j
      /\ list.head = s[1]
      /\ \A i \in 1 .. n : list.next[s[i]] = IF i = n THEN NoEvent ELSE s[i + 1]
      /\ \A i \in 1 .. n : list.previous[s[i]] = IF i = 1 THEN NoEvent ELSE s[i - 1]
      /\ \A i \in 1 .. n : s[i] \in Regular /\ s[i] # NoEvent
  BY <1>1, LenProperties DEF RegularFit, Linked
<1>3. /\ new.head = IF list.head = r THEN list.next[r] ELSE list.head
      /\ \A x \in Regular : new.next[x] = IF x = list.previous[r] THEN list.next[r] ELSE list.next[x]
      /\ \A x \in Regular : new.previous[x] = IF x = list.next[r] THEN list.previous[r]
                                              ELSE list.previous[x]
  BY DEF Unlink
<1>4. /\ list.next[r] = IF k = n THEN NoEvent ELSE s[k + 1]
      /\ list.previous[r] = IF k = 1 THEN NoEvent ELSE s[k - 1]
  BY <1>2
<1>. HIDE DEF t, new
<1>. DEFINE at(i) == IF i < k THEN i ELSE i + 1
<1>5. \A i \in 1 .. n - 1 : at(i) \in 1 .. n /\ at(i) # k /\ t[i] = s[at(i)] /\ at(i) \in Nat
  <2>. SUFFICES ASSUME NEW i \in 1 .. n - 1
                PROVE  at(i) \in 1 .. n /\ at(i) # k /\ t[i] = s[at(i)] /\ at(i) \in Nat
    OBVIOUS
  <2>1. n \in Nat /\ k \in Nat
    BY <1>1
  <2>2. at(i) \in 1 .. n /\ at(i) # k /\ at(i) \in Nat
    BY <2>1
  <2>3. t[i] = IF i < k THEN s[i] ELSE s[i + 1]
    BY <1>1
  <2>. QED BY <2>2, <2>3
<1>6. \A i, j \in 1 .. n - 1 : t[i] = t[j] => i = j
  <2>. SUFFICES ASSUME NEW i \in 1 .. n - 1, NEW j \in 1 .. n - 1, t[i] = t[j] PROVE i = j
    OBVIOUS
  <2>1. at(i) = at(j)
    <3>1. at(i) \in 1 .. n /\ at(j) \in 1 .. n /\ s[at(i)] = s[at(j)]
      BY <1>5
    <3>2. \A a, b \in 1 .. n : s[a] = s[b] => a = b
      BY <1>2
    <3>. HIDE DEF at
    <3>. QED BY <3>1, <3>2
  <2>. QED BY <1>1, <2>1
<1>7. new.head = IF n - 1 = 0 THEN NoEvent ELSE t[1]
  <2>1. 1 \in 1 .. n
    BY <1>1
  <2>2. s[1] = r <=> k = 1
    BY <1>2, <2>1
  <2>3. n - 1 # 0 => t[1] = IF 1 < k THEN s[1] ELSE s[2]
    BY <1>1
  <2>4. CASE k = 1
    BY <1>1, <1>2, <1>3, <1>4, <2>2, <2>3, <2>4
  <2>5. CASE k # 1
    <3>1. 1 < k /\ n - 1 # 0
      BY <1>1, <2>5
    <3>. QED BY <1>2, <1>3, <2>2, <2>3, <3>1
  <2>. QED BY <2>4, <2>5
<1>8. ASSUME NEW i \in 1 .. n - 1 PROVE new.next[t[i]] = IF i = n - 1 THEN NoEvent ELSE t[i + 1]
  <2>1. at(i) \in 1 .. n /\ at(i) # k /\ t[i] = s[at(i)] /\ s[at(i)] \in Regular
    BY <1>2, <1>5
  <2>2. i # n - 1 => t[i + 1] = s[at(i + 1)]
    BY <1>1, <1>5
  <2>3. s[at(i)] = list.previous[r] <=> k # 1 /\ at(i) = k - 1
    <3>1. k # 1 => k - 1 \in 1 .. n
      BY <1>1
    <3>. QED BY <1>2, <1>4, <2>1, <3>1
  <2>4. CASE i = k - 1
    <3>1. new.next[t[i]] = list.next[r] /\ at(i) = i
      BY <1>1, <1>3, <2>1, <2>3, <2>4
    <3>. QED BY <1>1, <1>4, <2>2, <2>4, <3>1
  <2>5. CASE i # k - 1
    <3>1. ~(k # 1 /\ at(i) = k - 1)
      BY <1>1, <2>5
    <3>2. new.next[t[i]] = list.next[s[at(i)]]
      BY <1>3, <2>1, <2>3, <3>1
    <3>3. list.next[s[at(i)]] = IF at(i) = n THEN NoEvent ELSE s[at(i) + 1]
      BY <1>2, <2>1
    <3>4. (at(i) = n <=> i = n - 1) /\ (i # n - 1 => at(i) + 1 = at(i + 1))
      BY <1>1, <2>5
    <3>. QED BY <2>2, <3>2, <3>3, <3>4
  <2>. QED BY <2>4, <2>5
<1>9. ASSUME NEW i \in 1 .. n - 1 PROVE new.previous[t[i]] = IF i = 1 THEN NoEvent ELSE t[i - 1]
  <2>1. at(i) \in 1 .. n /\ at(i) # k /\ t[i] = s[at(i)] /\ s[at(i)] \in Regular
    BY <1>2, <1>5
  <2>2. i # 1 => t[i - 1] = s[at(i - 1)]
    BY <1>1, <1>5
  <2>3. s[at(i)] = list.next[r] <=> k # n /\ at(i) = k + 1
    <3>1. k # n => k + 1 \in 1 .. n
      <4>1. n \in Nat /\ k \in Nat /\ 1 <= k /\ k <= n
        BY <1>1
      <4>. QED BY <4>1
    <3>. QED BY <1>2, <1>4, <2>1, <3>1
  <2>4. CASE i = k
    <3>1. new.previous[t[i]] = list.previous[r] /\ at(i) = i + 1
      BY <1>1, <1>3, <2>1, <2>3, <2>4
    <3>. QED BY <1>1, <1>4, <2>2, <2>4, <3>1
  <2>5. CASE i # k
    <3>1. ~(k # n /\ at(i) = k + 1)
      BY <1>1, <2>5
    <3>2. new.previous[t[i]] = list.previous[s[at(i)]]
      BY <1>3, <2>1, <2>3, <3>1
    <3>3. list.previous[s[at(i)]] = IF at(i) = 1 THEN NoEvent ELSE s[at(i) - 1]
      BY <1>2, <2>1
    <3>4. (at(i) = 1 <=> i = 1) /\ (i # 1 => at(i) - 1 = at(i - 1))
      BY <1>1, <2>5
    <3>. QED BY <2>2, <3>2, <3>3, <3>4
  <2>. QED BY <2>4, <2>5
<1>10. Linked(new, t)
  BY <1>1, <1>6, <1>7, <1>8, <1>9 DEF Linked
<1>11. {t[i] : i \in 1 .. n - 1} = {s[i] : i \in 1 .. n} \ {r}
  <2>1. {t[i] : i \in 1 .. n - 1} \subseteq {s[i] : i \in 1 .. n} \ {r}
    <3>. SUFFICES ASSUME NEW i \in 1 .. n - 1 PROVE t[i] \in {s[j] : j \in 1 .. n} \ {r}
      OBVIOUS
    <3>1. at(i) \in 1 .. n /\ t[i] = s[at(i)] /\ s[at(i)] # s[k]
      BY <1>2, <1>5
    <3>. QED BY <3>1
  <2>2. ASSUME NEW j \in 1 .. n, s[j] # r PROVE s[j] \in {t[i] : i \in 1 .. n - 1}
    <3>1. CASE j < k
      <4>1. j \in 1 .. n - 1 /\ t[j] = s[j]
        BY <1>1, <3>1
      <4>. QED BY <4>1
    <3>2. CASE ~(j < k)
      <4>1. j - 1 \in 1 .. n - 1 /\ t[j - 1] = s[j]
        <5>1. j # k
          BY <2>2
        <5>2. j - 1 \in 1 .. n - 1 /\ ~(j - 1 < k) /\ j - 1 + 1 = j
          BY <1>1, <3>2, <5>1
        <5>. QED BY <1>1, <5>2
      <4>. QED BY <4>1
    <3>. QED BY <3>1, <3>2
  <2>. QED BY <2>1, <2>2
<1>. QED BY <1>1, <1>10, <1>11 DEF t, new

\* repeat and cancel give a list, whatever the links are.
LEMMA ListsOfRegular ==
    ASSUME NEW list \in List(Regular), NEW r \in Regular
    PROVE  Prepend(list, r) \in List(Regular) /\ Unlink(list, r) \in List(Regular)
<1>1. /\ list.head \in Regular \cup {NoEvent}
      /\ list.next \in [Regular -> Regular \cup {NoEvent}]
      /\ list.previous \in [Regular -> Regular \cup {NoEvent}]
  BY DEF List
<1>2. Prepend(list, r) \in List(Regular)
  BY <1>1 DEF Prepend, List
<1>3. Unlink(list, r) \in List(Regular)
  BY <1>1 DEF Unlink, List
<1>. QED BY <1>2, <1>3

\* What a walk finds is in the list's set of events, whatever the links are.
LEMMA ListedAreRegular ==
    ASSUME RegularFit, NEW list \in List(Regular)
    PROVE  Members(list) \subseteq Regular /\ Chain(list) \in Seq(Regular) /\ Len(Chain(list)) \in Nat
<1>. DEFINE w == [i \in 1 .. Cardinality(Regular) |-> Visited(list)[i - 1]]
<1>1. Len(w) \in Nat
  BY FS_CardinalityType DEF RegularFit
<1>2. Chain(list) = Kept(w, Regular)
  BY DEF Chain
<1>. HIDE DEF w
<1>3. Filtered(w, Regular)
  BY <1>1, KeptValues
<1>4. Chain(list) \in Seq(Regular)
  BY <1>1, <1>2, <1>3 DEF Filtered
<1>5. Members(list) \subseteq Regular
  BY VisitedValues DEF Members
<1>. QED BY <1>4, <1>5, LenProperties

\* A filter of the list's events has only events of the filter.
LEMMA KeptOfChain ==
    ASSUME RegularFit, NEW list \in List(Regular), NEW set
    PROVE  Kept(Chain(list), set) \in Seq(set)
<1>1. Len(Chain(list)) \in Nat
  BY ListedAreRegular
<1>2. Filtered(Chain(list), set)
  BY <1>1, KeptValues
<1>. QED BY <1>1, <1>2 DEF Filtered

\* The head is in the list.
LEMMA HeadIsListed ==
    ASSUME RegularFit, NEW list \in List(Regular), list.head # NoEvent
    PROVE  list.head \in Members(list)
<1>1. Cardinality(Regular) \in Nat
  BY FS_CardinalityType DEF RegularFit
<1>2. 0 \in DOMAIN Visited(list) /\ Visited(list)[0] = list.head
  BY <1>1, VisitedValues
<1>. QED BY <1>2 DEF Members

-----------------------------------------------------------------------------
(* An event that was put in front, and may have been cancelled since.       *)

\* r is the first event of the list of s, or it is out of it and its links are still
\* those it had in front of it.
FirstOrGone(list, s, r) ==
    \/ Len(s) # 0 /\ s[1] = r
    \/ /\ \A i \in 1 .. Len(s) : s[i] # r
       /\ list.next[r] = list.head /\ list.previous[r] = NoEvent

\* An event whose link back is cleared before it is put in front can have been used before.
LEMMA PrependAgain ==
    ASSUME RegularFit, NEW list \in List(Regular), NEW s \in Seq(Regular), Linked(list, s),
           NEW r \in Regular, \A i \in 1 .. Len(s) : s[i] # r
    PROVE  LET new == Prepend([list EXCEPT !.previous[r] = NoEvent], r)
           IN  /\ new \in List(Regular) /\ new.head = r
               /\ \E t \in Seq(Regular) : Linked(new, t) /\ FirstOrGone(new, t, r)
<1>. DEFINE cleared == [list EXCEPT !.previous[r] = NoEvent]
            new == Prepend(cleared, r)
            t == <<r>> \o s
<1>1. /\ cleared.head = list.head /\ cleared.next = list.next
      /\ cleared.previous = [list.previous EXCEPT ![r] = NoEvent]
      /\ cleared \in List(Regular)
  BY DEF List
<1>2. cleared.previous[r] = NoEvent /\ \A x \in Regular : x # r => cleared.previous[x] = list.previous[x]
  BY <1>1 DEF List
<1>. HIDE DEF cleared
<1>3. \A i \in 1 .. Len(s) : s[i] \in Regular /\ s[i] # r
  BY LenProperties
<1>4. Linked(cleared, s)
  <2>1. \A i \in 1 .. Len(s) : cleared.previous[s[i]] = list.previous[s[i]]
    BY <1>2, <1>3
  <2>. QED BY <1>1, <2>1 DEF Linked
<1>5. new \in List(Regular) /\ Linked(new, t) /\ t \in Seq(Regular)
  BY <1>1, <1>2, <1>3, <1>4, PrependLinks
<1>6. new.head = r
  BY DEF Prepend
<1>7. Len(t) # 0 /\ t[1] = r
  <2>1. Len(s) \in Nat /\ Len(t) = Len(s) + 1 /\ t[1] = r
    BY LenProperties, ConcatProperties
  <2>. QED BY <2>1
<1>. QED BY <1>5, <1>6, <1>7 DEF FirstOrGone, cleared

\* It can be cancelled, and cancelled again once it is gone: then nothing changes.
LEMMA UnlinkAgain ==
    ASSUME RegularFit, NEW list \in List(Regular), NEW s \in Seq(Regular), Linked(list, s),
           NEW r \in Regular, FirstOrGone(list, s, r)
    PROVE  /\ Unlink(list, r) \in List(Regular)
           /\ \E t \in Seq(Regular) : Linked(Unlink(list, r), t) /\ FirstOrGone(Unlink(list, r), t, r)
<1>. DEFINE new == Unlink(list, r)
<1>1. new \in List(Regular)
  BY ListsOfRegular
<1>2. /\ new.head = IF list.head = r THEN list.next[r] ELSE list.head
      /\ new.next = [x \in Regular |-> IF x = list.previous[r] THEN list.next[r] ELSE list.next[x]]
      /\ new.previous = [x \in Regular |-> IF x = list.next[r] THEN list.previous[r]
                                           ELSE list.previous[x]]
  BY DEF Unlink
<1>3. Len(s) \in Nat /\ NoEvent \notin Regular /\ \A i \in 1 .. Len(s) : s[i] \in Regular
  BY LenProperties DEF RegularFit
<1>. HIDE DEF new
<1>4. CASE Len(s) # 0 /\ s[1] = r
  <2>. DEFINE t == Without(s, 1)
  <2>1. 1 \in 1 .. Len(s)
    BY <1>3, <1>4
  <2>2. /\ t \in Seq(Regular) /\ Linked(new, t)
        /\ {t[i] : i \in 1 .. Len(t)} = {s[i] : i \in 1 .. Len(s)} \ {r}
    <3>1. t \in Seq(Regular)
      BY <2>1, WithoutSeq
    <3>2. /\ Linked(Unlink(list, s[1]), t)
          /\ {t[i] : i \in 1 .. Len(t)} = {s[i] : i \in 1 .. Len(s)} \ {s[1]}
      BY <2>1, UnlinkLinks
    <3>3. new = Unlink(list, s[1]) /\ s[1] = r
      BY <1>4 DEF new
    <3>. HIDE DEF t
    <3>. QED BY <3>1, <3>2, <3>3
  <2>3. list.head = r /\ list.previous[r] = NoEvent
    BY <1>4, <2>1 DEF Linked
  <2>4. new.next[r] = new.head /\ new.previous[r] = NoEvent
    BY <1>2, <1>3, <2>3
  <2>. HIDE DEF t
  <2>5. \A i \in 1 .. Len(t) : t[i] # r
    BY <2>2
  <2>. QED BY <1>1, <2>2, <2>4, <2>5 DEF FirstOrGone, new
<1>5. CASE /\ \A i \in 1 .. Len(s) : s[i] # r
           /\ list.next[r] = list.head /\ list.previous[r] = NoEvent
  <2>1. list.head # r /\ (list.head # NoEvent => list.previous[list.head] = NoEvent)
    <3>1. Len(s) # 0 => 1 \in 1 .. Len(s)
      BY <1>3
    <3>. QED BY <1>3, <1>5, <3>1 DEF Linked
  <2>2. new.head = list.head /\ new.next = list.next /\ new.previous = list.previous
    <3>1. new.head = list.head
      BY <1>2, <2>1
    <3>2. /\ list.next = [x \in Regular |-> list.next[x]]
          /\ list.previous = [x \in Regular |-> list.previous[x]]
      BY DEF List
    <3>3. new.next = [x \in Regular |-> list.next[x]]
      BY <1>2, <1>3, <1>5
    <3>4. new.previous = [x \in Regular |-> list.previous[x]]
      BY <1>2, <1>3, <1>5, <2>1
    <3>. QED BY <3>1, <3>2, <3>3, <3>4
  <2>3. Linked(new, s)
    BY <2>2 DEF Linked
  <2>4. FirstOrGone(new, s, r)
    BY <1>5, <2>2 DEF FirstOrGone
  <2>. QED BY <1>1, <2>3, <2>4 DEF new
<1>. QED BY <1>4, <1>5 DEF FirstOrGone
=============================================================================
