------------------------------ MODULE PcreExec ------------------------------
(***************************************************************************)
(* Regular expressions of the compiler and of its macros                    *)
(* (libs/pcre/pcre_stubs.c): a regexp with its pcre_extra, made by           *)
(* Pcre.regexp, and pcre_exec_stub, which lets the library write C offsets   *)
(* into an OCaml array and then converts them in place, each to a word that *)
(* is twice as wide, or, with a callout, copies them from an array of its   *)
(* own, before each callout and at the end.                                 *)
(***************************************************************************)
EXTENDS Integers, FiniteSets

CONSTANTS
    NULL,           \* a null pointer, None
    MaxCaptures,    \* bound: capturing groups of a pattern
    SubjectLen,     \* length of the subject
    MaxCallouts     \* bound: callouts of a match

ASSUME BoundsAssumption == MaxCaptures \in Nat /\ SubjectLen \in Nat /\ MaxCallouts \in Nat

Limits == {"match_limit", "match_limit_recursion"}

VARIABLES
    phase,          \* of regexp: "compile", "study", "limit", "recursion", "ready"; of
                    \* exec: "match", "copy", "callout", "clear", "done", "raised"
    asked,          \* the arguments of regexp: study, and per limit a number or NULL
    extra,          \* NULL or a record of flags, of the limits and study data
    studied,
    arg,            \* of exec: captures, pos, subj_start, callout
    given,          \* the pcre_extra the library gets
    words,          \* the OCaml array by its halves: <<"int", n>> is a C int, and
                    \* <<"low", n>> and <<"high", n>> are the halves of the OCaml n
    ovec,           \* the C array of a match with a callout
    unset,          \* groups that took no part, as far as the library has found
    top,            \* groups the library speaks of: capture_top, or ret
    at,             \* the next place of copy_ovector or of the loop that clears
    callouts

vars == <<phase, asked, extra, studied, arg, given, words, ovec, unset, top, at, callouts>>

exec == <<arg, given, words, ovec, unset, top, at, callouts>>

Init == /\ phase = "compile"
        /\ asked \in [study : BOOLEAN, match_limit : {NULL, 1}, match_limit_recursion : {NULL, 2}]
        /\ extra = NULL /\ studied = FALSE
        /\ arg = NULL /\ given = NULL
        /\ words = [h \in {} |-> NULL] /\ ovec = words
        /\ unset = {} /\ top = 0 /\ at = 0 /\ callouts = 0

-----------------------------------------------------------------------------
(* Pcre.regexp.                                                             *)

\* pcre_compile_stub: no extra, not studied; a bad pattern has no regexp.
Compile == /\ phase = "compile"
           /\ phase' = IF asked.study THEN "study" ELSE "limit"
           /\ UNCHANGED <<asked, extra, studied, exec>>

\* pcre_study may find nothing to say.
Study == /\ phase = "study"
         /\ IF studied
              THEN UNCHANGED <<extra, studied>>
              ELSE /\ \/ extra' = NULL
                      \/ extra' = [flags |-> {"study_data"}, study_data |-> TRUE,
                                   match_limit |-> 0, match_limit_recursion |-> 0]
                   /\ studied' = TRUE
         /\ phase' = "limit"
         /\ UNCHANGED <<asked, exec>>

\* Mutant: flags are not kept.
With_OneFlag(e, l, n) ==
    LET new == [study_data |-> FALSE, match_limit |-> 0, match_limit_recursion |-> 0, flags |-> {}]
    IN  [(IF e = NULL THEN new ELSE e) EXCEPT !.flags = {l}, ![l] = n]

\* A limit is set in the extra there is, or in a new one.
With(e, l, n) ==
    LET new == [flags |-> {}, study_data |-> FALSE, match_limit |-> 0, match_limit_recursion |-> 0]
    IN  [(IF e = NULL THEN new ELSE e) EXCEPT !.flags = @ \union {l}, ![l] = n]

\* pcre_set_imp_match_limit_stub and its like, where asked for.
SetLimit(p, l, next) ==
    /\ phase = p
    /\ extra' = IF asked[l] = NULL THEN extra ELSE With(extra, l, asked[l])
    /\ phase' = next
    /\ UNCHANGED <<asked, studied, exec>>

\* What pcre_get_match_limit_stub and its like say.
GetLimit(e, l) == IF e # NULL /\ l \in e.flags THEN e[l] ELSE NULL

-----------------------------------------------------------------------------
(* pcre_exec_stub.                                                          *)

\* The words of the array: three per group, of which the library uses one as
\* its workspace.
Words(a) == 3 * (a.captures + 1)

\* Mutant: only the recursion limit of the extra gets into the new one.
Given_Forgets(callout) ==
    IF ~callout THEN extra
    ELSE IF extra = NULL
      THEN [flags |-> {"callout"}, study_data |-> FALSE, match_limit |-> 0, match_limit_recursion |-> 0]
      ELSE [flags |-> {"callout"} \union extra.flags, study_data |-> extra.study_data,
            match_limit |-> 0, match_limit_recursion |-> extra.match_limit_recursion]

\* With a callout the library gets an extra of its own.
Given(callout) ==
    IF ~callout THEN extra
    ELSE IF extra = NULL
      THEN [flags |-> {"callout"}, study_data |-> FALSE, match_limit |-> 0, match_limit_recursion |-> 0]
      ELSE [extra EXCEPT !.flags = @ \union {"callout"}]

Exec(a) ==
    /\ phase = "ready"
    /\ IF a.pos > SubjectLen \/ a.pos < a.subj_start \/ a.subj_start > SubjectLen \/ a.subj_start < 0
         THEN phase' = "raised" /\ UNCHANGED exec
         ELSE /\ phase' = "match"
              /\ arg' = a
              /\ given' = Given(a.callout)
              /\ words' = [h \in 0..2 * Words(a) - 1 |-> <<IF h % 2 = 0 THEN "low" ELSE "high", 0>>]
              /\ ovec' = [h \in (IF a.callout THEN 0..Words(a) - 1 ELSE {}) |-> <<"int", 0>>]
              /\ UNCHANGED <<unset, top, at, callouts>>
    /\ UNCHANGED <<asked, extra, studied>>

\* Offsets the library finds in the part of the subject it sees: group g, if it
\* took part, is from g to g + 1.
Offset(i, none) == IF i \div 2 \in none THEN -1 ELSE (i + 1) \div 2

\* The library writes those of so many groups, and anything behind them.
Written(arr, groups, none) ==
    [h \in DOMAIN arr |-> IF h < 2 * groups THEN <<"int", Offset(h, none)>>
                          ELSE IF h < Words(arg) THEN <<"int", 77>> ELSE arr[h]]

Answer(groups, none) ==
    /\ phase = "match"
    /\ IF arg.callout THEN ovec' = Written(ovec, groups, none) /\ UNCHANGED words
                      ELSE words' = Written(words, groups, none) /\ UNCHANGED ovec
    /\ top' = groups /\ unset' = none
    /\ at' = 2 * groups - 1
    /\ phase' = "copy"
    /\ UNCHANGED <<asked, extra, studied, arg, given>>

CallsOut(groups, none) ==
    /\ phase = "match" /\ arg.callout /\ callouts < MaxCallouts
    /\ callouts' = callouts + 1
    /\ Answer(groups, none)

Ended == callouts = MaxCallouts + 1

Matches(groups, none) == callouts' = MaxCallouts + 1 /\ Answer(groups, none)

\* handle_exec_error: the array stays as the library has left it.
Fails == /\ phase = "match"
         /\ words' = IF arg.callout THEN words ELSE Written(words, 1, {})
         /\ phase' = "raised"
         /\ UNCHANGED <<asked, extra, studied, arg, given, ovec, unset, top, at, callouts>>

\* The source of a place: a C int, or half of a word that has been overwritten.
Source(i) == LET cell == IF arg.callout THEN ovec[i] ELSE words[i]
             IN  IF cell[1] = "int" THEN cell[2] ELSE 99

Store(i, n) == [words EXCEPT ![2 * i] = <<"low", n>>, ![2 * i + 1] = <<"high", n>>]

\* Mutant: from the first place on.
Copy_Forward ==
    /\ phase = "copy" /\ at >= 0
    /\ words' = Store(2 * top - 1 - at, Source(2 * top - 1 - at) + arg.subj_start)
    /\ at' = at - 1
    /\ UNCHANGED <<phase, asked, extra, studied, arg, given, ovec, unset, top, callouts>>

\* copy_ovector, from the last place down.
Copy == /\ phase = "copy" /\ at >= 0
        /\ words' = Store(at, Source(at) + arg.subj_start)
        /\ at' = at - 1
        /\ UNCHANGED <<phase, asked, extra, studied, arg, given, ovec, unset, top, callouts>>

Copied == /\ phase = "copy" /\ at < 0
          /\ IF Ended THEN phase' = "clear" /\ at' = 2 * top
                      ELSE phase' = "callout" /\ UNCHANGED at
          /\ UNCHANGED <<asked, extra, studied, arg, given, words, ovec, unset, top, callouts>>

\* The callout returns, or raises Backtrack, or an exception that ends the match.
Callout == /\ phase = "callout"
           /\ phase' \in {"match", "raised"}
           /\ UNCHANGED <<asked, extra, studied, exec>>

\* Mutant: the loop begins behind the place after the last.
Clear_Skips ==
    /\ phase = "clear"
    /\ IF at + 1 < (2 * Words(arg)) \div 3
         THEN words' = Store(at + 1, -1) /\ at' = at + 1 /\ UNCHANGED phase
         ELSE phase' = "done" /\ UNCHANGED <<words, at>>
    /\ UNCHANGED <<asked, extra, studied, arg, given, ovec, unset, top, callouts>>

\* Groups the library says nothing of are unset.
Clear == /\ phase = "clear"
         /\ IF at < (2 * Words(arg)) \div 3
              THEN words' = Store(at, -1) /\ at' = at + 1 /\ UNCHANGED phase
              ELSE phase' = "done" /\ UNCHANGED <<words, at>>
         /\ UNCHANGED <<asked, extra, studied, arg, given, ovec, unset, top, callouts>>

Args == [captures : 0..MaxCaptures, pos : 0..SubjectLen + 1, subj_start : -1..SubjectLen,
         callout : BOOLEAN]

Next == \/ Compile \/ Study \/ SetLimit("limit", "match_limit", "recursion")
        \/ SetLimit("recursion", "match_limit_recursion", "ready")
        \/ \E a \in Args : Exec(a)
        \/ phase = "match" /\ \E groups \in 1..arg.captures + 1 : \E none \in SUBSET (1..groups - 2) :
             CallsOut(groups, none) \/ Matches(groups, none)
        \/ Fails \/ Copy \/ Copied \/ Callout \/ Clear

Spec == Init /\ [][Next]_vars /\ WF_vars(Next)

-----------------------------------------------------------------------------
(* Properties.                                                              *)

\* A place of the array holds an OCaml integer.
Holds(i, n) == words[2 * i] = <<"low", n>> /\ words[2 * i + 1] = <<"high", n>>

\* The groups the callout or the caller looks at are the library's, counted in the
\* whole subject; those of the match that it says nothing of are unset; and no word
\* of the array is left that is not an OCaml integer.  (Groups in between that took
\* no part are shifted too, and look set unless subj_start is 0.)
OffsetsConverted ==
    /\ phase \in {"callout", "done"} =>
         \A i \in 0..2 * top - 1 :
             \/ i \div 2 \in unset /\ arg.subj_start > 0
             \/ Holds(i, Offset(i, unset) + arg.subj_start)
    /\ phase = "done" =>
         /\ \A i \in 2 * top..2 * (arg.captures + 1) - 1 : Holds(i, -1)
         /\ \A i \in 0..Words(arg) - 1 : \E n \in -1..SubjectLen + MaxCaptures + 1 : Holds(i, n)

\* Every match is bounded by the limits the regexp was made with.
LimitsApply == phase = "match" =>
    \A l \in Limits : GetLimit(given, l) = asked[l] /\ GetLimit(extra, l) = asked[l]

Returns == <>(phase \in {"done", "raised"})
=============================================================================
