----------------------------- MODULE MCJobQueue -----------------------------
(* Three jobs for TLC: each kind of job meets the two others.               *)
EXTENDS JobQueue

CONSTANTS j1, j2, j3
=============================================================================
