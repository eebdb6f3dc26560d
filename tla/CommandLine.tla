----------------------------- MODULE CommandLine -----------------------------
(***************************************************************************)
(* The command line of a sub process on Windows (libs/extc/process_stubs.c,  *)
(* process_run): one text, in which each argument is between quotes and      *)
(* backslashes are doubled where they come before one.  It is gathered in a  *)
(* buffer, a list of pieces that get longer.  Characters are strings.        *)
(***************************************************************************)
EXTENDS Integers, Sequences

CONSTANTS
    Byte,           \* characters; of cmd.exe and /C, each counts as one
    Lines,          \* the inputs: records of cmd, a text, and args, a sequence of texts or NoArgs
    NoArgs,         \* no arguments: cmd is for the shell
    FirstPiece      \* what blen is at first, 16 in the code

\* Arguments may be anything.  The program they are for is the name of a file, in which
\* Windows allows no quote.
LinesFit ==
    /\ FirstPiece \in Nat \ {0}
    /\ {"\"", "\\", " ", "cmd.exe", "/C"} \subseteq Byte
    /\ \A l \in Lines :
          /\ DOMAIN l = {"cmd", "args"} /\ l.cmd \in Seq(Byte)
          /\ \/ l.args = NoArgs
             \/ l.args \in Seq(Seq(Byte)) /\ \A k \in DOMAIN l.cmd : l.cmd[k] # "\""

ASSUME LineAssumption == LinesFit

VARIABLES
    line,       \* the input
    linePc,     \* "cmd", "args", "chars" or "run"
    argument, character,    \* the argument and its character that are next
    bs_count,   \* backslashes read and not yet written
    buffer

lineVars == <<line, linePc, argument, character, bs_count, buffer>>

-----------------------------------------------------------------------------
(* The buffer; its newest piece comes first.                                *)

\* (FoldLeft, as a recursive function, which can be reasoned about.)
Fold(step(_, _), start, seq) ==
    LET at[k \in 0 .. Len(seq)] == IF k = 0 THEN start ELSE step(at[k - 1], seq[k])
    IN  at[Len(seq)]

empty == [totlen |-> 0, blen |-> FirstPiece, data |-> <<>>]

\* blen is doubled while the text has four times its length, so as often as there are
\* characters at most.
Doubled(blen, totlen) ==
    LET at[k \in 0 .. totlen] == IF k = 0 THEN blen
                                 ELSE IF totlen >= 4 * at[k - 1] THEN 2 * at[k - 1] ELSE at[k - 1]
    IN  at[totlen]

buffer_append_new(buf, s) ==
    LET blen == Doubled(buf.blen, buf.totlen)
    IN  [buf EXCEPT !.blen = blen,
                    !.data = <<[str |-> s, size |-> IF Len(s) < blen THEN blen ELSE Len(s)]>> \o @]

\* The newest piece is filled up, the rest goes to a new one.
buffer_append_sub(buf, s) ==
    LET longer == [buf EXCEPT !.totlen = @ + Len(s)]
        it == Head(buf.data)
        free == it.size - Len(it.str)
        Filled(n) == [longer EXCEPT !.data[1].str = @ \o SubSeq(s, 1, n)]
    IN  CASE s = <<>> -> buf
          [] s # <<>> /\ buf.data = <<>> -> buffer_append_new(longer, s)
          [] s # <<>> /\ buf.data # <<>> /\ free >= Len(s) -> Filled(Len(s))
          [] OTHER -> buffer_append_new(Filled(free), SubSeq(s, free + 1, Len(s)))

buffer_append_char(buf, c) ==
    LET longer == [buf EXCEPT !.totlen = @ + 1]
    IN  IF buf.data # <<>> /\ Len(Head(buf.data).str) # Head(buf.data).size
          THEN [longer EXCEPT !.data[1].str = Append(@, c)]
          ELSE buffer_append_new(longer, <<c>>)

\* The text is put together from its end.
InFront(text, it) == it.str \o text

buffer_to_string(buf) == Fold(InFront, <<>>, buf.data)

Chars(buf, s) == Fold(buffer_append_char, buf, s)

Backslashes(n) == [k \in 1..n |-> "\\"]

-----------------------------------------------------------------------------
CommandInit == /\ line \in Lines
        /\ linePc = "cmd"
        /\ argument = 1 /\ character = 1 /\ bs_count = 0
        /\ buffer = empty

\* The program between quotes; or the shell, and cmd as its only argument.
Command ==
    /\ linePc = "cmd"
    /\ LET first == buffer_append_char(buffer, "\"")
       IN  IF line.args # NoArgs
             THEN /\ buffer' = buffer_append_char(buffer_append_sub(first, line.cmd), "\"")
                  /\ linePc' = "args"
             ELSE LET shell == buffer_append_char(buffer_append_sub(first, <<"cmd.exe">>), "\"")
                  IN  /\ buffer' = buffer_append_char(buffer_append_sub(
                                buffer_append_sub(shell, <<"/C", " ", "\"">>), line.cmd), "\"")
                      /\ linePc' = "run"
    /\ UNCHANGED <<line, argument, character, bs_count>>

\* The argument that is next.
word == line.args[argument]

BeginArg ==
    /\ linePc = "args" /\ argument <= Len(line.args)
    /\ buffer' = buffer_append_sub(buffer, <<" ", "\"">>)
    /\ character' = 1 /\ bs_count' = 0
    /\ linePc' = "chars"
    /\ UNCHANGED <<line, argument>>

\* At the next character of an argument.
At(chars) == linePc = "chars" /\ character <= Len(word) /\ word[character] \in chars

Go(text, count) == /\ buffer' = text /\ bs_count' = count
                   /\ character' = character + 1
                   /\ UNCHANGED <<line, linePc, argument>>

\* Mutant: the backslashes before a quote are not doubled.
Quote_Once ==
    /\ At({"\""})
    /\ Go(buffer_append_sub(Chars(buffer, Backslashes(bs_count)), <<"\\", "\"">>), 0)

Quote ==
    /\ At({"\""})
    /\ Go(buffer_append_sub(Chars(buffer, Backslashes(2 * bs_count)), <<"\\", "\"">>), 0)

Backslash == At({"\\"}) /\ Go(buffer, bs_count + 1)

Normal ==
    /\ linePc = "chars" /\ character <= Len(word) /\ word[character] \notin {"\"", "\\"}
    /\ Go(Chars(buffer, Append(Backslashes(bs_count), word[character])), 0)

\* Mutant: those before the closing quote are not doubled.
EndArg_Once ==
    /\ linePc = "chars" /\ character > Len(word)
    /\ buffer' = Chars(buffer, Append(Backslashes(bs_count), "\""))
    /\ argument' = argument + 1
    /\ linePc' = "args"
    /\ UNCHANGED <<line, character, bs_count>>

EndArg ==
    /\ linePc = "chars" /\ character > Len(word)
    /\ buffer' = Chars(buffer, Append(Backslashes(2 * bs_count), "\""))
    /\ argument' = argument + 1
    /\ linePc' = "args"
    /\ UNCHANGED <<line, character, bs_count>>

LastArg == /\ linePc = "args" /\ argument > Len(line.args)
           /\ linePc' = "run"
           /\ UNCHANGED <<line, argument, character, bs_count, buffer>>

CommandNext == Command \/ BeginArg \/ Quote \/ Backslash \/ Normal \/ EndArg \/ LastArg

CommandSpec == CommandInit /\ [][CommandNext]_lineVars

-----------------------------------------------------------------------------
(* What the program's runtime makes of the line: its name is what is between *)
(* the first two quotes; then backslashes before a quote count in pairs, an  *)
(* odd one takes the quote's meaning from it, and others are themselves.     *)

Reader == [args |-> <<>>, cur |-> <<>>, some |-> FALSE, quoted |-> FALSE, bs |-> 0]

Flush(r) == IF r.some \/ r.bs > 0
              THEN [Reader EXCEPT !.args = Append(r.args, r.cur \o Backslashes(r.bs))]
              ELSE r

ReadChar(r, c) ==
    CASE c = "\\" -> [r EXCEPT !.bs = @ + 1]
      [] c = "\"" -> [r EXCEPT !.bs = 0, !.some = TRUE,
                               !.cur = @ \o Backslashes(r.bs \div 2)
                                         \o (IF r.bs % 2 = 1 THEN <<"\"">> ELSE <<>>),
                               !.quoted = IF r.bs % 2 = 1 THEN @ ELSE ~@]
      [] c = " " /\ ~r.quoted -> Flush(r)
      [] OTHER -> [r EXCEPT !.bs = 0, !.some = TRUE, !.cur = Append(@ \o Backslashes(r.bs), c)]

Argv(text) ==
    LET second == CHOOSE k \in 2..Len(text) : text[k] = "\"" /\ \A h \in 2..k - 1 : text[h] # "\""
    IN  <<SubSeq(text, 2, second - 1)>>
        \o Flush(Fold(ReadChar, Reader, SubSeq(text, second + 1, Len(text)))).args

\* The program is started with the arguments process_run was given, whatever
\* quotes, backslashes and spaces are in them; the shell gets the whole command
\* between two quotes; and the text is as long as buffer_to_string takes it to be.
ArgumentsArrive ==
    linePc = "run" =>
        LET text == buffer_to_string(buffer)
        IN  /\ buffer.totlen = Len(text)
            /\ \A k \in DOMAIN buffer.data : Len(buffer.data[k].str) <= buffer.data[k].size
            /\ IF line.args # NoArgs THEN Argv(text) = <<line.cmd>> \o line.args
               ELSE text = <<"\"", "cmd.exe", "\"", "/C", " ", "\"">> \o line.cmd \o <<"\"">>
=============================================================================
