------------------------------- MODULE ObjSize -------------------------------
(***************************************************************************)
(* objsize (libs/objsize/c_objsize.c): a value's size is measured by a walk *)
(* that paints each block of the OCaml heap blue, the garbage collector's   *)
(* mark for free blocks, and writes the colour it had into a log.  A second *)
(* walk takes the same way and puts the colours back.  The call holds the   *)
(* runtime from beginning to end: nobody sees a blue block but the walk.    *)
(***************************************************************************)
EXTENDS ColorLog, SequencesExt

CONSTANTS
    Block,      \* blocks of memory
    Val_unit,   \* no block
    Calls       \* the heaps and arguments: records of
                \*   fields: per block its fields, each a block
                \*   colors: per block the collector's colour
                \*   static: blocks that are neither in the heap nor young
                \*   opaque: blocks whose tag is No_scan_tag or above
                \*   start, scan, reach: the arguments, a block and two lists

VARIABLES
    arg,        \* the call
    color,      \* the colours in the headers
    log,
    phase,      \* "mark", "walk", "unmark", "reach", "restore", "done"
    rest,       \* what is left of the list a loop runs over
    stack,      \* the calls of c_rec_objsize or restore_colors under way
    acc,        \* acc_hdrs, acc_data and acc_depth
    reached

vars == <<arg, color, log, phase, rest, stack, acc, reached>>

InHeap(b) == b \notin arg.static

Init == /\ arg \in Calls
        /\ color = arg.colors
        /\ log = colors_init
        /\ phase = "mark"
        /\ rest = arg.scan
        /\ stack = <<>>
        /\ acc = [hdrs |-> 0, data |-> 0, depth |-> 0]
        /\ reached = FALSE

\* A list is walked; at its end comes the next phase.
Over(p, next) == /\ phase = p /\ rest # <<>> /\ ~log.aborted
                 /\ rest' = Tail(rest)
                 /\ UNCHANGED <<arg, stack, phase>>
                 /\ next

\* What scan lists is painted so that the walk does not enter it.
Mark == Over("mark",
    /\ IF color[Head(rest)] = Col_blue
         THEN UNCHANGED <<log, color>>
         ELSE /\ log' = writecolor(log, color[Head(rest)])
              /\ color' = [color EXCEPT ![Head(rest)] = Col_blue]
    /\ UNCHANGED <<acc, reached>>)

\* A block just entered: its fields from the first on, none behind it.
Frame(b, depth) == [v |-> b, i |-> IF b \in arg.opaque THEN Len(arg.fields[b]) + 1 ELSE 1,
                    prev_block |-> Val_unit, depth |-> depth]

\* c_rec_objsize up to its loop.
Enter(b, depth, below) ==
    /\ acc' = [hdrs |-> acc.hdrs + 1, data |-> acc.data + Len(arg.fields[b]),
               depth |-> IF depth > acc.depth THEN depth ELSE acc.depth]
    /\ log' = writecolor(log, color[b])
    /\ color' = [color EXCEPT ![b] = Col_blue]
    /\ stack' = Append(below, Frame(b, depth))

\* restore_colors up to its loop.
Restore(b, depth, below) ==
    LET read == readcolor(log)
    IN  /\ log' = read
        /\ color' = [color EXCEPT ![b] = read.prev_color]
        /\ stack' = Append(below, Frame(b, depth))
        /\ UNCHANGED acc

\* Does the walk that is under way enter a block?
NotVisited(b) == b # Val_unit /\ (phase = "walk" <=> color[b] # Col_blue)

Visit(b, depth, below) == IF phase = "walk" THEN Enter(b, depth, below)
                                            ELSE Restore(b, depth, below)

Top == Last(stack)

Walking == stack # <<>> /\ ~log.aborted /\ UNCHANGED <<arg, phase, rest, reached>>

\* REC_WALK: a field that is a block is entered when the next one is found.
Field ==
    /\ Walking /\ Top.i <= Len(arg.fields[Top.v])
    /\ LET f == arg.fields[Top.v][Top.i]
           seen == [Top EXCEPT !.i = @ + 1, !.prev_block = IF InHeap(f) THEN f ELSE @]
           here == Append(Front(stack), seen)
       IN  IF InHeap(f) /\ NotVisited(Top.prev_block)
             THEN Visit(Top.prev_block, Top.depth + 1, here)
             ELSE stack' = here /\ UNCHANGED <<acc, log, color>>

\* The last one is entered in place of its block, the goto of REC_WALK.
LastField ==
    /\ Walking /\ Top.i > Len(arg.fields[Top.v])
    /\ IF NotVisited(Top.prev_block)
         THEN Visit(Top.prev_block, Top.depth + 1, Front(stack))
         ELSE stack' = Front(stack) /\ UNCHANGED <<acc, log, color>>

\* Mutant: a block of the list that the walk has met is given a colour too.
Unmark_All == Over("unmark",
    /\ LET read == readcolor(log)
       IN  log' = read /\ color' = [color EXCEPT ![Head(rest)] = read.prev_color]
    /\ UNCHANGED <<acc, reached>>)

\* The colours of scan are the first ones in the log.
Unmark == Over("unmark",
    /\ IF color[Head(rest)] # Col_blue
         THEN UNCHANGED <<log, color>>
         ELSE LET read == readcolor(log)
              IN  log' = read /\ color' = [color EXCEPT ![Head(rest)] = read.prev_color]
    /\ UNCHANGED <<acc, reached>>)

\* Mutant: the loop looks at the first of reach for ever.
Reach_NoTail == /\ phase = "reach" /\ rest # <<>> /\ ~reached
                /\ reached' = (color[Head(rest)] = Col_blue)
                /\ UNCHANGED <<arg, color, log, phase, rest, stack, acc>>

Reach == /\ phase = "reach" /\ rest # <<>> /\ ~reached
         /\ IF color[Head(rest)] = Col_blue
              THEN reached' = TRUE /\ UNCHANGED rest
              ELSE rest' = Tail(rest) /\ UNCHANGED reached
         /\ UNCHANGED <<arg, color, log, phase, stack, acc>>

\* Between the loops.
BeginWalk ==
    /\ phase = "mark" /\ rest = <<>> /\ ~log.aborted
    /\ phase' = "walk"
    /\ IF InHeap(arg.start) /\ color[arg.start] # Col_blue
         THEN Enter(arg.start, 0, <<>>)
         ELSE UNCHANGED <<acc, log, color, stack>>
    /\ UNCHANGED <<arg, rest, reached>>

\* Mutant: reach is looked at while scan is still painted.
EndWalk_ReachFirst ==
    /\ phase = "walk" /\ stack = <<>> /\ ~log.aborted
    /\ phase' = "unmark" /\ rest' = arg.scan
    /\ log' = rle_init(rle_write_flush(log))
    /\ reached' = \E k \in DOMAIN arg.reach : color[arg.reach[k]] = Col_blue
    /\ UNCHANGED <<arg, color, stack, acc>>

EndWalk ==
    /\ phase = "walk" /\ stack = <<>> /\ ~log.aborted
    /\ phase' = "unmark" /\ rest' = arg.scan
    /\ log' = rle_init(rle_write_flush(log))
    /\ UNCHANGED <<arg, color, stack, acc, reached>>

EndUnmark ==
    /\ phase = "unmark" /\ rest = <<>> /\ ~log.aborted
    /\ phase' = "reach" /\ rest' = arg.reach
    /\ UNCHANGED <<arg, color, log, stack, acc, reached>>

BeginRestore ==
    /\ phase = "reach" /\ (rest = <<>> \/ reached)
    /\ phase' = "restore"
    /\ IF InHeap(arg.start) /\ color[arg.start] = Col_blue
         THEN Restore(arg.start, 0, <<>>)
         ELSE UNCHANGED <<acc, log, color, stack>>
    /\ UNCHANGED <<arg, rest, reached>>

\* rle_read_flush and colors_deinit.
Return ==
    /\ phase = "restore" /\ stack = <<>> /\ ~log.aborted
    /\ phase' = "done"
    /\ log' = [log EXCEPT !.aborted = @ \/ ~AllRead(log), !.colors = [i \in {} |-> Junk]]
    /\ UNCHANGED <<arg, color, rest, stack, acc, reached>>

Next == Mark \/ BeginWalk \/ Field \/ LastField \/ EndWalk \/ Unmark \/ EndUnmark
        \/ Reach \/ BeginRestore \/ Return

Spec == Init /\ [][Next]_vars /\ WF_vars(Next)

-----------------------------------------------------------------------------
(* Properties.                                                              *)

\* No assertion of the code fails, and the collector finds every header as it
\* was: blue blocks would be taken for free memory.
ColoursRestored == /\ ~log.aborted
                   /\ phase = "done" => color = arg.colors

Scan == {arg.scan[k] : k \in DOMAIN arg.scan}

\* The blocks the size speaks of: in the heap, and reachable from start by a
\* way that enters none of scan.
Reachable ==
    LET Counts(b) == InHeap(b) /\ b \notin Scan
        Next1(S) == S \union {arg.fields[b][k] : <<b, k>> \in
                      {p \in (S \ arg.opaque) \X (1..3) : p[2] <= Len(arg.fields[p[1]])}}
        R[n \in 0..Cardinality(Block)] ==
            IF n = 0 THEN {b \in {arg.start} : Counts(b)}
                     ELSE {b \in Next1(R[n - 1]) : Counts(b)}
    IN  R[Cardinality(Block)]

\* Each block counts once, and reached tells if one of reach is among them.
CountsReachable ==
    phase = "done" =>
        /\ acc.hdrs = Cardinality(Reachable)
        /\ acc.data = MapThenSumSet(LAMBDA b : Len(arg.fields[b]), Reachable)
        /\ reached <=> \E k \in DOMAIN arg.reach : arg.reach[k] \in Reachable

\* A call comes to its end whatever cycles the heap has.
Returns == <>(phase = "done")
=============================================================================
