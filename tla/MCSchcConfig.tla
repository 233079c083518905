---------------------------- MODULE MCSchcConfig ----------------------------
(* SchcConfig with three parameters and two values, enough for one that is   *)
(* set again, one set earlier only and one never set.                        *)
EXTENDS SchcConfig
MCValues == {"here", "there"}
=============================================================================
