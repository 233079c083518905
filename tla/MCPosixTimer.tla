---------------------------- MODULE MCPosixTimer ----------------------------
(* PosixTimer with two of the three timers of main.c, and a duration below   *)
(* and one above a second.                                                   *)
EXTENDS PosixTimer
MCDurations == {500, 2000}
\* The shortest timer, for the run in which it expires too early.
MCShortest == {1}
=============================================================================
