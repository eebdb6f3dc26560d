-------------------------- MODULE MCClassPathCache --------------------------
(***************************************************************************)
(* ClassPathCache for TLC: two modules without a package and one in the     *)
(* package, in the second of two class paths.                               *)
(***************************************************************************)
EXTENDS ClassPathCache

CONSTANTS a, b, M, N, O

Both == {<<a, b>>, <<b>>}

Uses == {{M}, {M, N}, {O}}

\* The files are in b; a has the package's directory.
MCInit ==
    /\ Init
    /\ file_time = [f \in Root \X Module |-> IF f[1] = b THEN 1 ELSE 0]
    /\ \A d \in Dir : st_mtime[d] = 1

MCSpec == MCInit /\ [][Next]_vars
=============================================================================
