------------------------------ MODULE MCWorker ------------------------------
(* The worker with packets and frames of the kinds that take different paths *)
(* through it; SchcAl's own run has the others.                              *)
EXTENDS Worker
MCUpKinds == {"coap", "other"}
MCDownKinds == {"oscore"}
=============================================================================
