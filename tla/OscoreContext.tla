--------------------------- MODULE OscoreContext ---------------------------
(***************************************************************************)
(* The security context of OSCORE from start to crash: a process derives   *)
(* its keys with Hkdf, one expansion after another, and only then protects *)
(* messages, storing and reading sequence numbers with OscoreNvm.          *)
(***************************************************************************)
EXTENDS Hkdf, OscoreNvm

VARIABLE ready   \* oscore_security_context_init has returned true

vars == <<dVars, nvmVars, ready>>

Init == HkdfInit /\ NvmInit /\ ready = FALSE

-----------------------------------------------------------------------------
Boot == Start /\ UNCHANGED <<dVars, ready>>

\* oscore_context_init, which is external, asks for the keys and the IV in turn.
Ask ==
  /\ pc = "idle" /\ ~ready
  /\ \E len \in Lengths : Expand(len)
  /\ UNCHANGED <<nvmVars, ready>>

\* A step of hkdf_expand.
Derive == (Block \/ Return) /\ UNCHANGED <<nvmVars, ready>>

\* A key is there: it was the last one or not.
HasKey ==
  /\ Taken
  /\ ready' \in {FALSE, dState = "ok"}
  /\ UNCHANGED nvmVars

\* The calls of uoscore while it protects messages.
Serve ==
  /\ ready
  /\ (\E n \in Numbers : Write(n)) \/ Close \/ Read \/ ReadNew
  /\ UNCHANGED <<dVars, ready>>

\* The process dies, with the keys or before it has them.
Die == Crash /\ Forget /\ ready' = FALSE

Next == Boot \/ Ask \/ Derive \/ HasKey \/ Serve \/ Die

\* Only the derivation is a loop of the process's own: it keeps running.
Spec == Init /\ [][Next]_vars /\ WF_vars(Derive)

-----------------------------------------------------------------------------
\* A derivation ends, if only because the process dies, unless it is of CounterWidth
\* - 1 blocks.  Those, 255 in the code, are as many as ascon_integration.c:127
\* allows, and the counter, as narrow as their number, never passes it: after the
\* last block it is 0, that block is written before the buffer, and all begins again.
DerivationEnds ==
  (dState = "running" /\ iterations < CounterWidth - 1) ~> (dState # "running")

=============================================================================
