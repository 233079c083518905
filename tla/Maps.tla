-------------------------------- MODULE Maps --------------------------------
(***************************************************************************)
(* Functions with one value, and functions put together: :> and @@ as the  *)
(* module TLC has them, which are given here because what is proved of     *)
(* rules and profiles is proved from these definitions.                    *)
(***************************************************************************)

k :> v == [x \in {k} |-> v]

\* Where both have a value, the first one's counts.
f @@ g == [x \in DOMAIN f \union DOMAIN g |-> IF x \in DOMAIN f THEN f[x] ELSE g[x]]
=============================================================================
