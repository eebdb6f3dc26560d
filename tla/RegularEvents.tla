---------------------------- MODULE RegularEvents ----------------------------
(***************************************************************************)
(* The list of regular events of sys.thread.EventLoop: RegularEvent objects  *)
(* linked by next and previous, with the loop's field regularEvents for its  *)
(* head.  An object keeps its links when it is taken out.                    *)
(***************************************************************************)
EXTENDS Naturals, Sequences, FiniteSets

CONSTANTS Regular,      \* RegularEvent objects
          NoEvent       \* null

\* Lists of the given objects.
List(objects) == [head : objects \cup {NoEvent},
                  next : [objects -> objects \cup {NoEvent}],
                  previous : [objects -> objects \cup {NoEvent}]]

EmptyList(objects) == [head |-> NoEvent,
                       next |-> [r \in objects |-> NoEvent],
                       previous |-> [r \in objects |-> NoEvent]]

\* repeat puts a new event in front.
Prepend(list, r) ==
    [head |-> r,
     next |-> [list.next EXCEPT ![r] = list.head],
     previous |-> [x \in Regular |-> IF x = list.head THEN r ELSE list.previous[x]]]

\* Mutant: only the forward links are mended.
Unlink_NoPrevious(list, r) ==
    [head |-> IF list.head = r THEN list.next[r] ELSE list.head,
     next |-> [x \in Regular |-> IF x = list.previous[r] THEN list.next[r] ELSE list.next[x]],
     previous |-> list.previous]

\* cancel takes an event out, by the links it has.
Unlink(list, r) ==
    [head |-> IF list.head = r THEN list.next[r] ELSE list.head,
     next |-> [x \in Regular |-> IF x = list.previous[r] THEN list.next[r] ELSE list.next[x]],
     previous |-> [x \in Regular |-> IF x = list.next[r] THEN list.previous[r]
                                                         ELSE list.previous[x]]]

After(list, r) == IF r = NoEvent THEN NoEvent ELSE list.next[r]

\* What a walk from the head visits, NoEvent once it is past the end.
Visited(list) ==
    LET at[i \in 0 .. Cardinality(Regular)] ==
            IF i = 0 THEN list.head ELSE After(list, at[i - 1])
    IN  at

Ends(list) == Visited(list)[Cardinality(Regular)] = NoEvent

\* The elements of a sequence that are in a set, in their order.  (SelectSeq, as a
\* recursive function, which can be reasoned about.)
Kept(seq, set) ==
    LET kept[i \in 0 .. Len(seq)] ==
            IF i = 0 THEN <<>>
            ELSE IF seq[i] \in set THEN Append(kept[i - 1], seq[i]) ELSE kept[i - 1]
    IN  kept[Len(seq)]

\* The events of the list, from its head on.
Chain(list) ==
    Kept([i \in 1 .. Cardinality(Regular) |-> Visited(list)[i - 1]], Regular)

Members(list) == {Visited(list)[i] : i \in DOMAIN Visited(list)} \ {NoEvent}

\* Every link back undoes a link forward.
BackLinksFit(list) ==
    \A i \in DOMAIN Chain(list) :
        list.previous[Chain(list)[i]] = IF i = 1 THEN NoEvent ELSE Chain(list)[i - 1]
=============================================================================
