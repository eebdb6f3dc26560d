----------------------------- MODULE FreshBuild -----------------------------
(***************************************************************************)
(* What `haxe --connect` promises: the compiler behind the server answers   *)
(* every compilation as a compiler started from nothing would.  The only    *)
(* state is the content of the source files and the outcome of the last     *)
(* compilation; no cache, no marks, no modification times.                  *)
(***************************************************************************)
CONSTANTS
    Path,       \* module paths; a module lives in the file of the same path
    Main,       \* the class named on the command line
    Decl,       \* contents a file may have
    NoDecl,     \* "content" of a file that does not exist
    Broken,     \* contents that do not type
    Imports,    \* Imports[p][d]: the modules that file p with content d names
    Failed      \* outcome of a compilation that reported an error

VARIABLES disk, built

vars == <<disk, built>>

\* Modules the compilation of Main has to load: the least set that holds Main
\* and what its members import.
Closure ==
    {p \in Path : \A S \in SUBSET Path :
        (Main \in S /\ \A q \in S : Imports[q][disk[q]] \subseteq S) => p \in S}

Compiles == \A p \in Closure : disk[p] \in Decl \ Broken

Result == IF Compiles THEN [p \in Closure |-> disk[p]] ELSE Failed

Init == /\ disk \in [Path -> Decl \cup {NoDecl}]
        /\ built = Failed

\* Somebody writes or deletes a file.
Edit == \E p \in Path, d \in Decl \cup {NoDecl} :
            /\ disk' = [disk EXCEPT ![p] = d]
            /\ UNCHANGED built

\* A whole compilation, from the files as they are.
Build == /\ built' = Result
         /\ UNCHANGED disk

Next == Edit \/ Build

Spec == Init /\ [][Next]_vars
=============================================================================
