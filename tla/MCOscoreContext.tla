-------------------------- MODULE MCOscoreContext --------------------------
(* The identifiers of the two builds of the worker, and identifiers of a *)
(* context besides, for each of the paddings of Base64.                  *)
EXTENDS OscoreContext

MCIdLens == {<<0, 1, 0>>, <<1, 0, 0>>, <<0, 0, 1>>, <<0, 1, 1>>, <<0, 1, 2>>}
MCSalt == <<>>
=============================================================================
