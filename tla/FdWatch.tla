------------------------------ MODULE FdWatch ------------------------------
(***************************************************************************)
(* The table of watched descriptors of platforms/linux/src/platform.c and  *)
(* the wait that polls it.  The table has no length field: the used slots  *)
(* are those before the first slot whose fd is -1, and there is no such    *)
(* slot when the table is full.  Slots behind the first free one hold      *)
(* whatever the static initialiser or an earlier entry left there.         *)
(*                                                                         *)
(* Main context only: nothing here runs in the timer's signal handler, and *)
(* none of the callbacks this repository registers edits the table, so     *)
(* watch and unwatch never come between a poll and its last callback.      *)
(***************************************************************************)
EXTENDS Integers, FiniteSets

CONSTANTS
  MaxFds,     \* MAX_WATCHED_FDS
  Fd,         \* descriptors open() may have returned; 0 is one of them
  Callback,   \* the callbacks of the watchers
  NULL        \* no callback

ASSUME FdWatchAssumption ==
  /\ MaxFds \in Nat \ {0}
  /\ Fd \subseteq Nat
  /\ NULL \notin Callback

VARIABLES
  table,      \* _watched_fds
  fds,        \* the fd poll() reported for each slot whose callback is still
              \* to run, NotPolled for the other slots
  result,     \* what the last call to watch or unwatch returned
  served      \* <<fd, callback>> of the last callback that was run

vars == <<table, fds, result, served>>

Slots == 0 .. MaxFds - 1
Free == -1
NotPolled == -2

Entry(fd, cb) == [fd |-> fd, cb |-> cb]

\* static struct {...} _watched_fds[MAX_WATCHED_FDS] = {{-1, NULL}}: C fills
\* the other slots with zeroes, and 0 is a valid descriptor.
InitialTable == [i \in Slots |-> Entry(IF i = 0 THEN Free ELSE 0, NULL)]

Init ==
  /\ table = InitialTable
  /\ fds = [i \in Slots |-> NotPolled]
  /\ result = TRUE
  /\ served = <<>>

-----------------------------------------------------------------------------
\* The search loop of both calls ends at idx: at the first slot that is free
\* or holds fd, or behind the last slot.
SearchEndsAt(idx, fd) ==
  /\ \A j \in 0 .. idx - 1 : table[j].fd \notin {Free, fd}
  /\ idx < MaxFds => table[idx].fd \in {Free, fd}

\* Slots that hold a watched descriptor.
Used == {i \in Slots : \A j \in 0 .. i : table[j].fd # Free}

\* Slots poll() set POLLIN for, and whose callback has not run yet.
Ready == {i \in Slots : fds[i] # NotPolled}

Refuse ==
  /\ result' = FALSE
  /\ UNCHANGED <<table, fds, served>>

\* Mutant: the next slot is not marked free.
StoreOnly(idx, fd, cb) == [table EXCEPT ![idx] = Entry(fd, cb)]

StoreAt(idx, fd, cb) ==
  [i \in Slots |-> CASE i = idx     -> Entry(fd, cb)
                     [] i = idx + 1 -> Entry(Free, table[i].cb)
                     [] OTHER       -> table[i]]

Watch(fd, cb) ==
  /\ Ready = {}
  /\ \/ fd < 0 /\ Refuse
     \/ /\ fd >= 0
        /\ \E idx \in 0 .. MaxFds :
             /\ SearchEndsAt(idx, fd)
             /\ IF idx = MaxFds \/ table[idx].fd = fd
                THEN Refuse
                ELSE /\ table' = StoreAt(idx, fd, cb)
                     /\ result' = TRUE
                     /\ UNCHANGED <<fds, served>>

\* The last used slot from idx on.
LastFrom(idx, last) ==
  /\ \A j \in idx + 1 .. last : table[j].fd # Free
  /\ last + 1 < MaxFds => table[last + 1].fd = Free

\* Mutant: the slot is freed where it is, and hides the entries behind it.
FreeInPlace(idx, last) == [table EXCEPT ![idx] = Entry(Free, NULL)]

\* Remove idx: the last entry takes its slot, and the last slot is freed.
MoveLast(idx, last) ==
  [table EXCEPT ![idx] = table[last], ![last] = Entry(Free, NULL)]

Unwatch(fd) ==
  /\ Ready = {}
  /\ \/ fd < 0 /\ Refuse
     \/ /\ fd >= 0
        /\ \E idx \in 0 .. MaxFds :
             /\ SearchEndsAt(idx, fd)
             /\ IF idx = MaxFds \/ table[idx].fd = Free
                THEN Refuse
                ELSE \E last \in idx .. MaxFds - 1 :
                       /\ LastFrom(idx, last)
                       /\ table' = MoveLast(idx, last)
                       /\ result' = TRUE
                       /\ UNCHANGED <<fds, served>>

\* Mutant: the copy for poll() does not stop at the first free slot.
EverySlot == Slots

\* Slots the copy for poll() is made of.
PolledSlots == Used

\* platform_enter_low_power_ll with something to watch: poll() returns because
\* of input, or with nothing ready (100 ms went by, or a signal came).
Poll ==
  /\ Ready = {}
  /\ table[0].fd # Free
  /\ \E revents \in SUBSET PolledSlots :
       fds' = [i \in Slots |-> IF i \in revents THEN table[i].fd ELSE NotPolled]
  /\ UNCHANGED <<table, result, served>>

\* The callbacks run in slot order, each read from the table when it is called.
Dispatch ==
  \E i \in Ready :
    /\ \A j \in Ready : i <= j
    /\ fds' = [fds EXCEPT ![i] = NotPolled]
    /\ served' = IF table[i].cb = NULL THEN served ELSE <<fds[i], table[i].cb>>
    /\ UNCHANGED <<table, result>>

Next ==
  \/ \E fd \in Fd \cup {-1}, cb \in Callback \cup {NULL} : Watch(fd, cb)
  \/ \E fd \in Fd \cup {-1} : Unwatch(fd)
  \/ Poll
  \/ Dispatch

Spec == Init /\ [][Next]_vars

-----------------------------------------------------------------------------
\* Types.  The poll set and the table hold the descriptors that were registered
\* and the fill of slots never used, and no poll entry is one of the latter.
TypeOK ==
  /\ table \in [Slots -> [fd : Fd \cup {Free, 0}, cb : Callback \cup {NULL}]]
  /\ fds \in [Slots -> Fd \cup {NotPolled}]
  /\ result \in BOOLEAN
  /\ served \in (Fd \X Callback) \cup {<<>>}

\* No descriptor is watched by two slots, and every used slot holds a real
\* descriptor: unwatch removes the first match only, so a second one would keep
\* calling the watcher of a closed descriptor (platform.c:59-84).
NoDuplicate ==
  /\ \A i, j \in Used : table[i].fd = table[j].fd => i = j
  /\ \A i \in Used : table[i].fd \in Fd

\* While callbacks run, the slot a callback is read from still is the slot of
\* the descriptor poll() reported (platform.c:284-286 indexes the live table
\* with an index of the copy).
DispatchMatchesPoll ==
  \A i \in Ready : i \in Used /\ fds[i] = table[i].fd

IInv == TypeOK /\ NoDuplicate /\ DispatchMatchesPoll

-----------------------------------------------------------------------------
\* Refinement: the table is the map from the descriptors of its used slots.
WatchedFds == {table[i].fd : i \in Used}
WatchedMap ==
  [fd \in WatchedFds |-> table[CHOOSE i \in Used : table[i].fd = fd].cb]
OwedFds == {fds[i] : i \in Ready}

Abs == INSTANCE FdWatchSpec WITH watched <- WatchedMap, owed <- OwedFds

\* watch, unwatch and the wait behave as the map platform.h documents.
ImplementsMap == Abs!Spec
=============================================================================
