----------------------------- MODULE MCFdWatch -----------------------------
(* FdWatch on a table small enough to fill, with one descriptor more than   *)
(* it holds; descriptor 0 is among them.                                    *)
EXTENDS FdWatch
MCFd == 0 .. 3
=============================================================================
