---------------------------- MODULE MCNativeCalls ----------------------------
(* Native code that the compiler and its programs call, for TLC: sub         *)
(* processes and their command lines, objsize, regular expressions and the   *)
(* XML parser of cpp.  Each keeps the runtime to itself from its call to its *)
(* return, so that one is looked at alone; kind says which, and the others   *)
(* have not been called.                                                     *)
EXTENDS PcreExec, Process, CommandLine

CONSTANTS Block, Val_unit, BITS_OF_CHAR, SizeofInt, COLORS_INIT_COUNT, BITS_FOR_COUNT,
          BITS_FOR_ORDER, NUL

VARIABLES
    kind,       \* "process", "command", "objsize", "regexp" or "xml"
    sizeArg, color, log, sizePhase, rest, stack, acc, reached,
    xmlArg, xmlAt, xmlCalls, xmlEvents, outcome

sizeVars == <<sizeArg, color, log, sizePhase, rest, stack, acc, reached>>
xmlVars == <<xmlArg, xmlAt, xmlCalls, xmlEvents, outcome>>

\* Bounds: what is written to the input and to the output of a child.
OneByteEach == [input |-> 1, output |-> 1, error |-> 0]

-----------------------------------------------------------------------------
(* The heaps: three blocks of up to two fields that share, close cycles and  *)
(* point to a static one, and a chain of six, for a long log.  The names of  *)
(* the fields of a call are ObjSize's.                                       *)

Fields(k, to) == UNION {[1..n -> to] : n \in 0..k}

Heaps == {<<f1, f2, f3, <<1>>, <<>>, <<>>>> :
            f1 \in Fields(2, 1..4), f2 \in Fields(2, 1..3), f3 \in Fields(1, 1..2)}

Chain == <<<<2, 1>>, <<3>>, <<4, 4>>, <<5>>, <<6>>, <<>>>>

Measured(heaps, static, colors, scan, reach, opaque) ==
    [fields : heaps, colors : colors, static : {static}, opaque : {opaque},
     start : {1}, scan : {scan}, reach : {reach}]

SizeCalls ==
    Measured(Heaps, {4}, {<<0, 0, 0, 1, 0, 0>>}, <<>>, <<3>>, {})
    \union Measured(Heaps, {4}, {<<3, 0, 3, 1, 0, 0>>}, <<>>, <<4, 2>>, {2})
    \union Measured(Heaps, {4}, {<<0, 1, 1, 3, 0, 0>>}, <<2>>, <<2, 3>>, {})
    \union Measured(Heaps, {4}, {<<1, 0, 0, 3, 0, 0>>}, <<3, 4, 3>>, <<3, 2>>, {})
    \union Measured({Chain}, {}, [1..6 -> {0, 3}], <<>>, <<6>>, {})
    \union Measured({Chain}, {}, [1..6 -> {0, 1}], <<6, 3>>, <<6>>, {6})

Size == INSTANCE ObjSize WITH Calls <- SizeCalls, arg <- sizeArg, phase <- sizePhase

Printed == INSTANCE XmlTexts

XmlTextsOf == Printed!AllTexts

Xml == INSTANCE NativeXml WITH
    Texts <- XmlTextsOf, arg <- xmlArg, p <- xmlAt, calls <- xmlCalls, events <- xmlEvents

\* Characters; cmd.exe and /C count as one.
CommandChars == {"\"", "\\", " ", "a", "cmd.exe", "/C"}

\* Arguments of up to three characters, two of up to two, or none.
WordsOf(n) == UNION {[1..k -> {"\"", "\\", " ", "a"}] : k \in 0..n}

CommandLines == [cmd : {<<"a">>, <<"a", " ", "a">>},
                 args : {NoArgs, <<>>} \union {<<w>> : w \in WordsOf(3)}
                                    \union {<<v, w>> : v, w \in WordsOf(2)}]

-----------------------------------------------------------------------------
\* What is not called has one of its initial states.
SizeIdle == sizeArg = [fields |-> Chain, colors |-> <<0, 0, 0, 0, 0, 0>>, static |-> {},
                       opaque |-> {}, start |-> 1, scan |-> <<>>, reach |-> <<6>>]
RegexpIdle == asked = [study |-> FALSE, match_limit |-> NULL, match_limit_recursion |-> NULL]
NoText == CHOOSE t \in XmlTextsOf : t.text = <<>>
XmlIdle == xmlArg = NoText

LineIdle == line = [cmd |-> <<"a">>, args |-> <<>>]

CallsInit ==
    /\ kind \in {"process", "command", "objsize", "regexp", "xml"}
    /\ kind # "process" => limit = 10
    /\ kind # "command" => LineIdle
    /\ kind # "objsize" => SizeIdle
    /\ kind # "regexp" => RegexpIdle
    /\ kind # "xml" => XmlIdle
    /\ ProcessInit /\ CommandInit /\ Size!Init /\ Init /\ Xml!Init

CallsNext ==
    /\ UNCHANGED kind
    /\ \/ kind = "process" /\ ProcessNext /\ UNCHANGED <<lineVars, sizeVars, vars, xmlVars>>
       \/ kind = "command" /\ CommandNext /\ UNCHANGED <<subVars, sizeVars, vars, xmlVars>>
       \/ kind = "objsize" /\ Size!Next /\ UNCHANGED <<subVars, lineVars, vars, xmlVars>>
       \/ kind = "regexp" /\ Next /\ UNCHANGED <<subVars, lineVars, sizeVars, xmlVars>>
       \/ kind = "xml" /\ Xml!Next /\ UNCHANGED <<subVars, lineVars, sizeVars, vars>>

\* As in each module, for what is called.
CallsFairness ==
    /\ WF_subVars(kind = "process" /\ ProcessReturns)
    /\ WF_sizeVars(kind = "objsize" /\ Size!Next)
    /\ WF_vars(kind = "regexp" /\ Next)
    /\ WF_xmlVars(kind = "xml" /\ Xml!Next)

CallsSpec == /\ CallsInit
             /\ [][CallsNext]_<<kind, subVars, lineVars, sizeVars, vars, xmlVars>>
             /\ CallsFairness

-----------------------------------------------------------------------------
\* What the modules say of a call of objsize: every colour is put back, whatever
\* the log has gone through, and the sizes are those of what is reachable.
ColoursRestored == Size!ColoursRestored
CountsReachable == Size!CountsReachable

\* What they say of parse_xml: the callbacks are those of the text.
EventsOfText == Xml!EventsOfText

\* "[void done()] when an XML node is closed" (std/cpp/NativeXmlImport.cpp).
DoneCloses == Xml!DoneCloses

\* Those that wait for nobody return: the walk of objsize, each loop of
\* pcre_exec_stub and the parser come to their ends whatever they are given.
AllReturn == <>(CASE kind = "objsize" -> sizePhase = "done"
                  [] kind = "regexp" -> phase \in {"done", "raised"}
                  [] kind = "xml" -> outcome # "runs"
                  [] OTHER -> TRUE)
=============================================================================
