---------------------------- MODULE FdWatchSpec ----------------------------
(***************************************************************************)
(* What the platform layer promises to the code that watches descriptors   *)
(* (platforms/linux/inc/platform.h, "watch_fd_for_input"): a bounded map   *)
(* from descriptors to callbacks.  A wait reports some watched descriptors *)
(* as ready, and each of them gets its own callback, once.                 *)
(***************************************************************************)
EXTENDS Integers, FiniteSets

CONSTANTS
  MaxFds,     \* how many descriptors can be watched at a time
  Fd,         \* the descriptors the process can hold
  Callback,   \* the functions given to watch_fd_for_input
  NULL        \* no function: the descriptor only ends the wait

VARIABLES
  watched,    \* [descriptors being watched -> their callback]
  owed,       \* the descriptors the last wait found ready, not yet served
  result,     \* what the last call to watch or unwatch returned
  served      \* <<fd, callback>> of the last callback that was run

vars == <<watched, owed, result, served>>

None == <<>>

Init ==
  /\ watched = [fd \in {} |-> NULL]
  /\ owed = {}
  /\ result = TRUE
  /\ served = None

Register(fd, cb) ==
  /\ owed = {}
  /\ result' = /\ fd \in Fd \ DOMAIN watched
               /\ Cardinality(DOMAIN watched) < MaxFds
  /\ watched' = IF result' THEN [f \in DOMAIN watched \cup {fd} |->
                                   IF f = fd THEN cb ELSE watched[f]]
                           ELSE watched
  /\ UNCHANGED <<owed, served>>

Unregister(fd) ==
  /\ owed = {}
  /\ result' = (fd \in Fd /\ fd \in DOMAIN watched)
  /\ watched' = [f \in DOMAIN watched \ {fd} |-> watched[f]]
  /\ UNCHANGED <<owed, served>>

Wait ==
  /\ owed = {}
  /\ owed' \in SUBSET DOMAIN watched
  /\ UNCHANGED <<watched, result, served>>

Serve(fd) ==
  /\ owed' = owed \ {fd}
  /\ served' = IF watched[fd] = NULL THEN served ELSE <<fd, watched[fd]>>
  /\ UNCHANGED <<watched, result>>

Next ==
  \/ \E fd \in Fd \cup {-1}, cb \in Callback \cup {NULL} : Register(fd, cb)
  \/ \E fd \in Fd \cup {-1} : Unregister(fd)
  \/ Wait
  \/ \E fd \in owed : Serve(fd)

Spec == Init /\ [][Next]_vars
=============================================================================
