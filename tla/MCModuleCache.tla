--------------------------- MODULE MCModuleCache ---------------------------
(***************************************************************************)
(* Instances of ModuleCache for TLC: three modules whose imports can form a *)
(* chain, a diamond or a cycle, depending on the contents of the files.     *)
(***************************************************************************)
EXTENDS ModuleCache

CONSTANTS A, B, C, v1, v2, bad

\* A imports B and C, or only B; B imports C, or A (a cycle); C imports nothing,
\* or A.
MCImports ==
    [p \in Path |-> [d \in Decl \cup {NoDecl} |->
        CASE p = A /\ d = v1 -> {B, C}
          [] p = A /\ d = v2 -> {B}
          [] p = B /\ d = v1 -> {C}
          [] p = B /\ d = v2 -> {A}
          [] p = C /\ d = v2 -> {A}
          [] OTHER -> {}]]

NoPolicy == [p \in Path |-> {}]

\* B is checked by content.
ContentPolicy ==
    [p \in Path |-> IF p = B THEN {"CheckFileContentModification"} ELSE {}]

\* The files start as the diamond A -> {B, C}, B -> C.
MCInit == Init /\ disk = [p \in Path |-> [time |-> 1, decl |-> v1]]

MCSpec == MCInit /\ [][Next]_vars /\ Fairness
=============================================================================
