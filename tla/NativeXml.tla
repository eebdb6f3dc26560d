------------------------------ MODULE NativeXml ------------------------------
(***************************************************************************)
(* The XML parser of the cpp target (std/cpp/NativeXmlImport.cpp): a machine *)
(* that looks at one character at a time, calls back for what it has found   *)
(* and calls itself for the content of an element.  Characters are strings;  *)
(* "CDATA[" and "DOCTYPE" count as one.  Letter case, texts of errors and    *)
(* line numbers are left out.                                                *)
(***************************************************************************)
EXTENDS Integers, Sequences, SequencesExt

CONSTANTS
    Texts,      \* the inputs: records of text, a sequence of characters; verdict,
                \* "good", "bad" or "open"; and events, those of a good one
    NUL         \* what follows the text; also a null string and no state

Spaces == {"\n", " "}
Names == {"a", "b", "-"}        \* is_valid_char

VARIABLES
    arg,        \* the input
    p,          \* the next character
    calls,      \* the locals of each call of do_parse_xml under way
    events,     \* what has been called back
    outcome     \* "runs", "returned" or "error"

vars == <<arg, p, calls, events, outcome>>

Char(i) == IF i \in 1..Len(arg.text) THEN arg.text[i] ELSE NUL

c == Char(p)
me == Last(calls)

Locals(parent) == [parentname |-> parent, state |-> "BEGIN", next |-> "BEGIN", start |-> 1,
                   nodename |-> NUL, aname |-> NUL, attribs |-> {}, nsubs |-> 0, nbrackets |-> 0]

Init == /\ arg \in Texts
        /\ p = 1
        /\ calls = <<Locals(NUL)>>
        /\ events = <<>>
        /\ outcome = "runs"

\* From the start of the token up to the character before the i-th.
Upto(i) == SubSeq(arg.text, me.start, i - 1)

\* A state, while there are characters.
At(state) == outcome = "runs" /\ c # NUL /\ me.state = state

\* The locals become l, n characters are done with, and es is called back.
Go(l, n, es) == /\ calls' = Append(Front(calls), l)
                /\ p' = p + n
                /\ events' = events \o es
                /\ UNCHANGED <<arg, outcome>>

Stay == Go(me, 1, <<>>)

ERROR == outcome' = "error" /\ UNCHANGED <<arg, p, calls, events>>

Skip(l, next) == [l EXCEPT !.state = "IGNORE_SPACES", !.next = next]
To(l, state) == [l EXCEPT !.state = state]
From(l, i) == [l EXCEPT !.start = i]
Sub(l) == [l EXCEPT !.nsubs = @ + 1]

IgnoreSpaces ==
    /\ At("IGNORE_SPACES")
    /\ IF c \in Spaces THEN Stay ELSE Go(To(me, me.next), 0, <<>>)

Begin ==
    /\ At("BEGIN")
    /\ IF c = "<" THEN Go(Skip(me, "BEGIN_NODE"), 1, <<>>)
                  ELSE Go(From(To(me, "PCDATA"), p), 0, <<>>)

PcData ==
    /\ At("PCDATA")
    /\ IF c = "<" THEN Go(Sub(Skip(me, "BEGIN_NODE")), 1, <<<<"pcdata", Upto(p)>>>>) ELSE Stay

CData ==
    /\ At("CDATA")
    /\ IF c = "]" /\ Char(p + 1) = "]" /\ Char(p + 2) = ">"
         THEN Go(Sub(To(me, "BEGIN")), 3, <<<<"cdata", Upto(p)>>>>)
         ELSE Stay

BeginNode ==
    /\ At("BEGIN_NODE")
    /\ \/ c = "!" /\ LET Found(word, state, n) == IF word THEN Go(From(To(me, state), p + n), n, <<>>)
                                                          ELSE ERROR
                     IN  CASE Char(p + 1) = "[" -> Found(Char(p + 2) = "CDATA[", "CDATA", 3)
                           [] Char(p + 1) = "DOCTYPE" -> Found(TRUE, "DOCTYPE", 2)
                           [] OTHER -> Found(Char(p + 1) = "-" /\ Char(p + 2) = "-", "COMMENT", 3)
       \/ c = "?" /\ Go(From(To(me, "HEADER"), p), 1, <<>>)
       \/ c = "/" /\ IF me.parentname = NUL THEN ERROR
                                            ELSE Go(From(Skip(me, "CLOSE"), p + 1), 1, <<>>)
       \/ c \notin {"!", "?", "/"} /\ Go(From(To(me, "TAG_NAME"), p), 0, <<>>)

\* Mutant: the attributes of the element before are kept.
TagName_KeepsAttribs ==
    /\ At("TAG_NAME")
    /\ IF c \in Names THEN Stay
       ELSE IF p = me.start THEN ERROR
       ELSE Go([Skip(me, "BODY") EXCEPT !.nodename = Upto(p)], 0, <<>>)

TagName ==
    /\ At("TAG_NAME")
    /\ IF c \in Names THEN Stay
       ELSE IF p = me.start THEN ERROR
       ELSE Go([Skip(me, "BODY") EXCEPT !.nodename = Upto(p), !.attribs = {}], 0, <<>>)

Body ==
    /\ At("BODY")
    /\ LET found == <<<<"xml", me.nodename, me.attribs>>>>
       IN  CASE c = "/" -> Go(Sub(To(me, "WAIT_END")), 1, found)
             [] c = ">" -> Go(Sub(To(me, "CHILDS")), 1, found)
             [] OTHER -> Go(From(To(me, "ATTRIB_NAME"), p), 0, <<>>)

AttribName ==
    /\ At("ATTRIB_NAME")
    /\ IF c \in Names THEN Stay
       ELSE IF p = me.start \/ \E a \in me.attribs : a[1] = Upto(p) THEN ERROR
       ELSE Go([Skip(me, "EQUALS") EXCEPT !.aname = Upto(p)], 0, <<>>)

Equals ==
    /\ At("EQUALS")
    /\ IF c = "=" THEN Go(Skip(me, "ATTVAL_BEGIN"), 1, <<>>) ELSE ERROR

AttvalBegin ==
    /\ At("ATTVAL_BEGIN")
    /\ IF c \in {"\"", "'"} THEN Go(From(To(me, "ATTRIB_VAL"), p), 1, <<>>) ELSE ERROR

\* Mutant: any quote ends a value.
AttribVal_AnyQuote ==
    /\ At("ATTRIB_VAL")
    /\ IF c \in {"\"", "'"}
         THEN Go([Skip(me, "BODY") EXCEPT
                    !.attribs = @ \union {<<me.aname, SubSeq(arg.text, me.start + 1, p - 1)>>}], 1, <<>>)
         ELSE Stay

\* A value ends at the quote it begins with.
AttribVal ==
    /\ At("ATTRIB_VAL")
    /\ IF c = Char(me.start)
         THEN Go([Skip(me, "BODY") EXCEPT
                    !.attribs = @ \union {<<me.aname, SubSeq(arg.text, me.start + 1, p - 1)>>}], 1, <<>>)
         ELSE Stay

\* do_parse_xml is called for the content.
Childs ==
    /\ At("CHILDS")
    /\ calls' = Append(calls, Locals(me.nodename))
    /\ UNCHANGED <<arg, p, events, outcome>>

WaitEnd ==
    /\ At("WAIT_END")
    /\ IF c = ">" THEN Go(To(me, "BEGIN"), 1, <<<<"done">>>>) ELSE ERROR

\* Mutant: the caller does not go back to BEGIN.
WaitEndRet_NoBegin ==
    /\ At("WAIT_END_RET")
    /\ IF c # ">" THEN ERROR ELSE
         /\ events' = events \o (IF me.nsubs = 0 THEN <<<<"pcdata", <<>>>>>> ELSE <<>>)
         /\ calls' = [Front(calls) EXCEPT ![Len(calls) - 1] = From(@, p)]
         /\ p' = p + 1
         /\ UNCHANGED <<arg, outcome>>

\* The call returns at the end of the closing tag, and its caller goes on there.
WaitEndRet ==
    /\ At("WAIT_END_RET")
    /\ IF c # ">" THEN ERROR ELSE
         /\ events' = events \o (IF me.nsubs = 0 THEN <<<<"pcdata", <<>>>>>> ELSE <<>>)
         /\ calls' = [Front(calls) EXCEPT ![Len(calls) - 1] = From(To(@, "BEGIN"), p)]
         /\ p' = p + 1
         /\ UNCHANGED <<arg, outcome>>

\* Mutant: whatever name closes the element.
CloseTag_AnyName ==
    /\ At("CLOSE")
    /\ IF c \in Names THEN Stay
       ELSE IF p = me.start THEN ERROR
       ELSE Go(Skip(me, "WAIT_END_RET"), 0, <<>>)

CloseTag ==
    /\ At("CLOSE")
    /\ IF c \in Names THEN Stay
       ELSE IF p = me.start \/ Upto(p) # me.parentname THEN ERROR
       ELSE Go(Skip(me, "WAIT_END_RET"), 0, <<>>)

Comment ==
    /\ At("COMMENT")
    /\ IF c = "-" /\ Char(p + 1) = "-" /\ Char(p + 2) = ">"
         THEN Go(To(me, "BEGIN"), 3, <<<<"comment", Upto(p)>>>>)
         ELSE Stay

Doctype ==
    /\ At("DOCTYPE")
    /\ CASE c = "[" -> Go([me EXCEPT !.nbrackets = @ + 1], 1, <<>>)
         [] c = "]" -> Go([me EXCEPT !.nbrackets = @ - 1], 1, <<>>)
         [] c = ">" /\ me.nbrackets = 0 -> Go(To(me, "BEGIN"), 1, <<<<"doctype", Upto(p)>>>>)
         [] OTHER -> Stay

Header ==
    /\ At("HEADER")
    /\ IF c = "?" /\ Char(p + 1) = ">"
         THEN Go(To(me, "BEGIN"), 2, <<<<"comment", Upto(p + 1)>>>>)
         ELSE Stay

\* Behind the last character only the outermost call may end, between two nodes
\* or with a text.
TextEnds ==
    /\ outcome = "runs" /\ c = NUL
    /\ IF Len(calls) > 1 \/ me.state \notin {"BEGIN", "PCDATA"}
         THEN ERROR
         ELSE LET from == IF me.state = "BEGIN" THEN p ELSE me.start
              IN  /\ events' = events \o (IF from # p \/ me.nsubs = 0
                                            THEN <<<<"pcdata", SubSeq(arg.text, from, p - 1)>>>>
                                            ELSE <<>>)
                  /\ outcome' = "returned"
                  /\ UNCHANGED <<arg, p, calls>>

Next == \/ IgnoreSpaces \/ Begin \/ PcData \/ CData \/ BeginNode \/ TagName \/ Body
        \/ AttribName \/ Equals \/ AttvalBegin \/ AttribVal \/ Childs \/ WaitEnd \/ WaitEndRet
        \/ CloseTag \/ Comment \/ Doctype \/ Header \/ TextEnds

Spec == Init /\ [][Next]_vars /\ WF_vars(Next)

-----------------------------------------------------------------------------
(* Properties.                                                              *)

IsDone(e) == e[1] = "done"

\* A well-formed text calls back for what it was printed from, in order and with
\* its texts and attributes, but for the ends of its elements; one with an error
\* of nesting, of attributes or of its end is refused; and no text whatever takes
\* the parser past its end.
EventsOfText ==
    /\ p <= Len(arg.text) + 1
    /\ arg.verdict = "good" => /\ outcome # "error"
                               /\ outcome = "returned" =>
                                    SelectSeq(events, LAMBDA e : ~IsDone(e))
                                      = SelectSeq(arg.events, LAMBDA e : ~IsDone(e))
    /\ arg.verdict = "bad" => outcome # "returned"

\* Every text is parsed to its end or refused.
Returns == <>(outcome # "runs")

\* "[void done()] when an XML node is closed" (std/cpp/NativeXmlImport.cpp).
DoneCloses == outcome = "returned" =>
    Len(SelectSeq(events, IsDone)) = Len(SelectSeq(events, LAMBDA e : e[1] = "xml"))
=============================================================================
