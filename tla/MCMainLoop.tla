----------------------------- MODULE MCMainLoop -----------------------------
(* MainLoop with events for TLC.                                             *)
EXTENDS MainLoop

CONSTANTS r1, r2, r3, r4, r5, r6, r7, m1, m2
=============================================================================
