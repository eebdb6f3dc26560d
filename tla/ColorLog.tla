------------------------------ MODULE ColorLog ------------------------------
(***************************************************************************)
(* The log of colours of libs/objsize (c_objsize.c over bitarray.c and      *)
(* alloc.c): a growing array of bits with an index for writing and one for  *)
(* reading, on top of it a run-length code.  A log is a record, and every   *)
(* function of the code is an operator from logs to logs.                   *)
(***************************************************************************)
EXTENDS Integers, Sequences, FiniteSets, FiniteSetsExt

CONSTANTS
    BITS_OF_CHAR, SizeofInt,            \* bits of a byte, bytes of an int
    COLORS_INIT_COUNT,                  \* colours the first array has room for
    BITS_FOR_COUNT, BITS_FOR_ORDER      \* widths of the two numbers of repeats

\* Colours are 0 to 3; gray and black are like any other here.
Col_white == 0
Col_blue == 2

MAX_REPEAT_COUNT == 2^BITS_FOR_COUNT
MAX_REPEAT_ORDER == 2^BITS_FOR_ORDER

Junk == 2       \* what malloc and realloc leave in a bit

-----------------------------------------------------------------------------
(* bitarray.c: bits in bytes.                                               *)

wordalign(n) == LET m == SizeofInt % n
                IN  IF m = 0 THEN n ELSE n + SizeofInt - m

sizebytes(n) == wordalign(n \div BITS_OF_CHAR)

Bits(n) == 0..sizebytes(n) * BITS_OF_CHAR - 1

alloc(n) == [i \in Bits(n) |-> Junk]

realloc(arr, n) == [i \in Bits(n) |-> IF i \in DOMAIN arr THEN arr[i] ELSE Junk]

-----------------------------------------------------------------------------
(* The log.  aborted: an ASSERT has failed, or an access was outside.       *)

colors_init == [colors |-> alloc(COLORS_INIT_COUNT * 2), bitcap |-> COLORS_INIT_COUNT * 2,
                writeindex |-> 0, readindex |-> 0,
                prev_color |-> Col_white, repeat_count |-> 0, aborted |-> FALSE]

rle_init(log) == [log EXCEPT !.prev_color = Col_white, !.repeat_count = 0]

\* Mutant: the array is full one bit later.
Room_Late(log, n) ==
    CHOOSE c \in {log.bitcap * 2^k : k \in 0..n} :
        c >= log.writeindex + n - 1 /\ (c = log.bitcap \/ c < 2 * (log.writeindex + n - 1))

\* The capacity after n more calls of writebit, each of which doubles a full array.
Room(log, n) ==
    CHOOSE c \in {log.bitcap * 2^k : k \in 0..n} :
        c >= log.writeindex + n /\ (c = log.bitcap \/ c < 2 * (log.writeindex + n))

\* A call of writebit per element of bits.
write(log, bits) ==
    LET from == log.writeindex
        to == from + Len(bits)
        cap == Room(log, Len(bits))
        arr == IF cap = log.bitcap THEN log.colors ELSE realloc(log.colors, cap)
    IN  [log EXCEPT
           !.colors = [i \in DOMAIN arr |-> IF from <= i /\ i < to THEN bits[i - from + 1] ELSE arr[i]],
           !.bitcap = cap,
           !.writeindex = to,
           !.aborted = @ \/ to > cap \/ to > Cardinality(DOMAIN arr) \/ Junk \in {bits[i] : i \in DOMAIN bits}]

\* writeint: the lowest bit comes first.  A number that does not fit fails the
\* assertion, here by a bit that is none.
Digits(arg, width) == [k \in 1..width |-> IF arg < 2^width THEN (arg \div 2^(k - 1)) % 2 ELSE Junk]

\* readint, from bit i on.
Number(log, i, width) ==
    LET bit(k) == IF i + k \in DOMAIN log.colors THEN log.colors[i + k] ELSE Junk
    IN  MapThenSumSet(LAMBDA k : bit(k) * 2^k, 0..width - 1)

-----------------------------------------------------------------------------
(* The run-length code: a colour, or blue and the length of a run.          *)

\* The exponent that rle_write_repeats settles on.
Order(count) == CHOOSE ord \in 0..MAX_REPEAT_ORDER - 1 :
                  /\ ord = MAX_REPEAT_ORDER - 1 \/ 2^ord > count \div 2
                  /\ \A o \in 0..ord - 1 : 2^o <= count \div 2

\* rle_write_repeats: powers of two while the rest is too long to be written out.
RECURSIVE Repeats(_)
Repeats(count) ==
    CASE count >= MAX_REPEAT_COUNT ->
            Digits(Col_blue, 2) \o <<1>> \o Digits(Order(count), BITS_FOR_ORDER)
              \o Repeats(count - 2^Order(count))
      [] count \in 1..MAX_REPEAT_COUNT - 1 ->
            Digits(Col_blue, 2) \o <<0>> \o Digits(count, BITS_FOR_COUNT)
      [] OTHER -> <<>>

rle_write_flush(log) == [write(log, Repeats(log.repeat_count)) EXCEPT !.repeat_count = 0]

\* Mutant: the run before a new colour is forgotten.
writecolor_NoFlush(log, col) ==
    IF log.prev_color = col
      THEN [log EXCEPT !.repeat_count = @ + 1]
      ELSE [write(log, Digits(col, 2)) EXCEPT !.prev_color = col, !.repeat_count = 0,
                                              !.aborted = @ \/ col = Col_blue]

writecolor(log, col) ==
    IF log.prev_color = col
      THEN [log EXCEPT !.repeat_count = @ + 1]
      ELSE [write(log, Repeats(log.repeat_count) \o Digits(col, 2))
              EXCEPT !.prev_color = col, !.repeat_count = 0, !.aborted = @ \/ col = Col_blue]

\* The log after a call of readcolor, which returns its prev_color.
readcolor(log) ==
    LET i == log.readindex
        col == Number(log, i, 2)
        long == Number(log, i + 2, 1) = 1
        width == IF long THEN BITS_FOR_ORDER ELSE BITS_FOR_COUNT
        count == IF long THEN 2^Number(log, i + 3, width) ELSE Number(log, i + 3, width)
        read(n) == [log EXCEPT !.readindex = i + n, !.aborted = @ \/ i + n > log.writeindex]
    IN  CASE log.repeat_count > 0 -> [log EXCEPT !.repeat_count = @ - 1]
          [] log.repeat_count = 0 /\ col # Col_blue -> [read(2) EXCEPT !.prev_color = col]
          [] OTHER -> [read(3 + width) EXCEPT !.repeat_count = count - 1,
                                              !.aborted = @ \/ count = 0]

\* The assertion of rle_read_flush.
AllRead(log) == log.repeat_count = 0 /\ log.readindex = log.writeindex
=============================================================================
