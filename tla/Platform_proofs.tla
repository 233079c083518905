--------------------------- MODULE Platform_proofs ---------------------------
(***************************************************************************)
(* Proofs about the two parts of platforms/linux/src/platform.c, FdWatch   *)
(* and PosixTimer.                                                         *)
(*                                                                         *)
(* FdWatch, for any table size, set of descriptors and set of callbacks:   *)
(* the invariant that makes the table a map, and that the calls of         *)
(* platform.h behave as that map.                                          *)
(*                                                                         *)
(* PosixTimer, for any set of timers and durations: a stopped timer is     *)
(* silent however the expiry and the signal fall, and a started one is     *)
(* running as long as no timer expires inside TimerStart and none has a    *)
(* duration of zero.                                                       *)
(***************************************************************************)
EXTENDS FdWatch, PosixTimer, FiniteSetTheorems, FunctionTheorems, TLAPS

(***************************************************************************)
(* The used slots are an initial segment: the slots before the first free  *)
(* one.  Stated for any table, so that it applies to table and table'.     *)
(***************************************************************************)
LEMMA UsedSegment ==
  ASSUME NEW t, NEW n \in 0 .. MaxFds,
         \A j \in 0 .. n - 1 : t[j].fd # Free,
         n < MaxFds => t[n].fd = Free
  PROVE  {i \in Slots : \A j \in 0 .. i : t[j].fd # Free} = 0 .. n - 1
  BY FdWatchAssumption DEF Slots, Free

LEMMA UsedNotFree == \A i \in Used : table[i].fd # Free
  BY DEF Used, Slots

(***************************************************************************)
(* The loop of watch and unwatch finds what it looks for or the end of the *)
(* used slots, and the used slots before it do not hold the descriptor.    *)
(***************************************************************************)
LEMMA SearchResult ==
  ASSUME TypeOK, NEW fd, NEW idx \in 0 .. MaxFds, SearchEndsAt(idx, fd)
  PROVE  /\ idx \in Used => table[idx].fd = fd
         /\ idx \notin Used => /\ Used = 0 .. idx - 1
                               /\ \A i \in Used : table[i].fd # fd
         /\ idx < MaxFds /\ table[idx].fd # Free => idx \in Used
         /\ idx = MaxFds \/ table[idx].fd = Free => idx \notin Used
  <1>1. CASE idx = MaxFds \/ table[idx].fd = Free
    <2>1. Used = 0 .. idx - 1
      <3>1. \A j \in 0 .. idx - 1 : table[j].fd # Free
        BY DEF SearchEndsAt
      <3>2. idx < MaxFds => table[idx].fd = Free
        BY <1>1, FdWatchAssumption
      <3>3. QED
        BY <3>1, <3>2, UsedSegment DEF Used
    <2>2. QED
      BY <1>1, <2>1, FdWatchAssumption DEF SearchEndsAt
  <1>2. CASE idx < MaxFds /\ table[idx].fd # Free
    BY <1>2, FdWatchAssumption DEF SearchEndsAt, Used, Slots, Free
  <1>3. QED
    BY <1>1, <1>2, FdWatchAssumption

LEMMA LastSlot ==
  ASSUME NEW idx \in Used, NEW last \in idx .. MaxFds - 1, LastFrom(idx, last)
  PROVE  Used = 0 .. last
  <1>1. \A j \in 0 .. last : table[j].fd # Free
    BY FdWatchAssumption DEF Used, Slots, LastFrom
  <1>2. last + 1 \in 0 .. MaxFds /\ (last + 1) - 1 = last
    BY FdWatchAssumption DEF Used, Slots
  <1>3. Used = 0 .. (last + 1) - 1
    BY <1>1, <1>2, UsedSegment DEF LastFrom, Used
  <1>4. QED
    BY <1>2, <1>3

\* A store at the first free slot makes exactly that slot used.
LEMMA StoreUsed ==
  ASSUME NEW idx \in 0 .. MaxFds - 1, NEW fd \in Nat, NEW cb,
         Used = 0 .. idx - 1, table' = StoreAt(idx, fd, cb)
  PROVE  /\ Used' = 0 .. idx
         /\ table'[idx] = Entry(fd, cb)
         /\ \A i \in 0 .. idx - 1 : table'[i] = table[i]
  <1>1. /\ table'[idx] = Entry(fd, cb)
        /\ \A i \in 0 .. idx - 1 : table'[i] = table[i]
        /\ idx + 1 < MaxFds => table'[idx + 1].fd = Free
    BY FdWatchAssumption DEF StoreAt, Slots, Entry
  <1>2. \A j \in 0 .. (idx + 1) - 1 : table'[j].fd # Free
    <2>1. \A i \in 0 .. idx - 1 : table[i].fd # Free
      BY UsedNotFree
    <2>2. QED
      BY <1>1, <2>1, FdWatchAssumption DEF Entry, Free
  <1>3. Used' = 0 .. (idx + 1) - 1
    BY <1>1, <1>2, UsedSegment, FdWatchAssumption DEF Used
  <1>4. QED
    BY <1>1, <1>3, FdWatchAssumption

\* A removal frees the last used slot, and the entry that was there is at idx.
LEMMA MoveUsed ==
  ASSUME TypeOK, NEW last \in Slots, NEW idx \in 0 .. last,
         Used = 0 .. last, table' = MoveLast(idx, last)
  PROVE  /\ Used' = 0 .. last - 1
         /\ idx < last => table'[idx] = table[last]
         /\ \A i \in 0 .. last - 1 : i # idx => table'[i] = table[i]
  <1>1. /\ table'[last] = Entry(Free, NULL)
        /\ idx < last => table'[idx] = table[last]
        /\ \A i \in 0 .. last - 1 : i # idx => table'[i] = table[i]
    BY FdWatchAssumption DEF MoveLast, Slots, Entry, TypeOK
  <1>2. \A j \in 0 .. last - 1 : table'[j].fd # Free
    <2>1. \A i \in 0 .. last : table[i].fd # Free
      BY UsedNotFree
    <2>2. QED
      BY <1>1, <2>1, FdWatchAssumption DEF Slots
  <1>3. Used' = 0 .. last - 1
    BY <1>1, <1>2, UsedSegment, FdWatchAssumption DEF Used, Slots, Entry
  <1>4. QED
    BY <1>1, <1>3

-----------------------------------------------------------------------------
LEMMA InitInv == Init => IInv
  <1> SUFFICES ASSUME Init PROVE IInv
    OBVIOUS
  <1>1. Used = {}
    <2>1. table[0].fd = Free
      BY FdWatchAssumption DEF Init, InitialTable, Slots, Entry
    <2>2. Used = 0 .. 0 - 1
      BY <2>1, UsedSegment, FdWatchAssumption DEF Used
    <2>3. QED
      BY <2>2
  <1>2. TypeOK
    BY FdWatchAssumption
       DEF Init, InitialTable, TypeOK, Slots, Entry, Free, NotPolled
  <1>3. Ready = {}
    BY DEF Init, Ready, NotPolled, Slots
  <1>4. QED
    BY <1>1, <1>2, <1>3 DEF IInv, NoDuplicate, DispatchMatchesPoll

\* A call that refuses changes nothing the invariant reads but its result.
LEMMA RefuseInv == IInv /\ Refuse => IInv'
  <1> SUFFICES ASSUME IInv, Refuse PROVE IInv'
    OBVIOUS
  <1>1. UNCHANGED <<table, fds, served>> /\ result' \in BOOLEAN
    BY DEF Refuse
  <1>2. Used' = Used /\ Ready' = Ready
    BY <1>1 DEF Used, Ready
  <1>3. TypeOK'
    BY <1>1 DEF IInv, TypeOK
  <1>4. QED
    BY <1>1, <1>2, <1>3 DEF IInv, NoDuplicate, DispatchMatchesPoll

LEMMA WatchInv ==
  ASSUME IInv, NEW fd \in Fd \cup {-1}, NEW cb \in Callback \cup {NULL},
         Watch(fd, cb)
  PROVE  IInv'
  <1>1. CASE Refuse
    BY <1>1, RefuseInv
  <1>2. CASE ~Refuse
    <2>1. PICK idx \in 0 .. MaxFds :
            /\ SearchEndsAt(idx, fd)
            /\ ~(idx = MaxFds \/ table[idx].fd = fd)
            /\ table' = StoreAt(idx, fd, cb)
            /\ result' = TRUE
            /\ UNCHANGED <<fds, served>>
      BY <1>2 DEF Watch
    <2>2. fd \in Fd /\ fd \in Nat
      BY <1>2, FdWatchAssumption DEF Watch
    <2>3. idx \in 0 .. MaxFds - 1
      BY <2>1, FdWatchAssumption
    <2>4. Used = 0 .. idx - 1 /\ \A i \in Used : table[i].fd # fd
      BY <2>1, SearchResult DEF IInv
    <2>5. /\ Used' = 0 .. idx
          /\ table'[idx] = Entry(fd, cb)
          /\ \A i \in 0 .. idx - 1 : table'[i] = table[i]
      BY <2>1, <2>2, <2>3, <2>4, StoreUsed
    <2>6. TypeOK'
      <3>1. \A i \in Slots : StoreAt(idx, fd, cb)[i]
                 \in [fd : Fd \cup {Free, 0}, cb : Callback \cup {NULL}]
        BY <2>2, <2>3 DEF StoreAt, Slots, Entry, IInv, TypeOK
      <3>2. table' \in [Slots -> [fd : Fd \cup {Free, 0}, cb : Callback \cup {NULL}]]
        BY <2>1, <3>1 DEF StoreAt
      <3>3. QED
        BY <2>1, <3>2 DEF IInv, TypeOK
    <2>7. NoDuplicate'
      BY <2>2, <2>3, <2>4, <2>5 DEF NoDuplicate, IInv, Entry
    <2>8. DispatchMatchesPoll'
      <3>1. Ready' = {}
        BY <2>1 DEF Watch, Ready
      <3>2. QED
        BY <3>1 DEF DispatchMatchesPoll
    <2>9. QED
      BY <2>6, <2>7, <2>8 DEF IInv
  <1>3. QED
    BY <1>1, <1>2

LEMMA UnwatchInv ==
  ASSUME IInv, NEW fd \in Fd \cup {-1}, Unwatch(fd)
  PROVE  IInv'
  <1>1. CASE Refuse
    BY <1>1, RefuseInv
  <1>2. CASE ~Refuse
    <2>1. PICK idx \in 0 .. MaxFds :
            /\ SearchEndsAt(idx, fd)
            /\ ~(idx = MaxFds \/ table[idx].fd = Free)
            /\ \E last \in idx .. MaxFds - 1 :
                  /\ LastFrom(idx, last)
                  /\ table' = MoveLast(idx, last)
                  /\ result' = TRUE
                  /\ UNCHANGED <<fds, served>>
      BY <1>2 DEF Unwatch
    <2>2. PICK last \in idx .. MaxFds - 1 :
            /\ LastFrom(idx, last)
            /\ table' = MoveLast(idx, last)
            /\ result' = TRUE
            /\ UNCHANGED <<fds, served>>
      BY <2>1
    <2>3. idx \in Used
      BY <2>1, SearchResult, FdWatchAssumption DEF IInv
    <2>4. Used = 0 .. last
      BY <2>2, <2>3, LastSlot
    <2>5. last \in Slots /\ idx \in 0 .. last
      BY <2>2, FdWatchAssumption DEF Slots
    <2>6. /\ Used' = 0 .. last - 1
          /\ idx < last => table'[idx] = table[last]
          /\ \A i \in 0 .. last - 1 : i # idx => table'[i] = table[i]
      BY <2>2, <2>4, <2>5, MoveUsed DEF IInv
    <2>7. TypeOK'
      BY <2>2, <2>5 DEF IInv, TypeOK, MoveLast, Entry, Slots
    <2>8. NoDuplicate'
      BY <2>4, <2>5, <2>6, FdWatchAssumption DEF NoDuplicate, IInv, Slots
    <2>9. DispatchMatchesPoll'
      <3>1. Ready' = {}
        BY <2>2 DEF Unwatch, Ready
      <3>2. QED
        BY <3>1 DEF DispatchMatchesPoll
    <2>10. QED
      BY <2>7, <2>8, <2>9 DEF IInv
  <1>3. QED
    BY <1>1, <1>2

LEMMA PollInv == IInv /\ Poll => IInv'
  <1> SUFFICES ASSUME IInv, Poll PROVE IInv'
    OBVIOUS
  <1>1. PICK revents \in SUBSET PolledSlots :
          fds' = [i \in Slots |-> IF i \in revents THEN table[i].fd ELSE NotPolled]
    BY DEF Poll
  <1>2. Used' = Used /\ table' = table /\ UNCHANGED <<result, served>>
    BY DEF Poll, Used
  <1>3. \A i \in revents : i \in Used /\ table[i].fd \in Fd
    BY DEF IInv, NoDuplicate, PolledSlots
  <1>4. TypeOK'
    BY <1>1, <1>2, <1>3 DEF IInv, TypeOK
  <1>5. \A i \in Ready' : i \in revents /\ fds'[i] = table[i].fd
    BY <1>1 DEF Ready
  <1>6. QED
    BY <1>2, <1>3, <1>4, <1>5 DEF IInv, NoDuplicate, DispatchMatchesPoll

LEMMA DispatchInv == IInv /\ Dispatch => IInv'
  <1> SUFFICES ASSUME IInv, Dispatch PROVE IInv'
    OBVIOUS
  <1>1. PICK i \in Ready :
          /\ fds' = [fds EXCEPT ![i] = NotPolled]
          /\ served' = IF table[i].cb = NULL THEN served
                                             ELSE <<fds[i], table[i].cb>>
          /\ UNCHANGED <<table, result>>
    BY DEF Dispatch
  <1>2. /\ i \in Slots
        /\ fds[i] \in Fd
        /\ Used' = Used
    BY <1>1 DEF IInv, TypeOK, Ready, Used
  <1>3. TypeOK'
    BY <1>1, <1>2 DEF IInv, TypeOK
  <1>4. \A j \in Ready' : j \in Ready /\ fds'[j] = fds[j]
    BY <1>1, <1>2 DEF Ready, IInv, TypeOK
  <1>5. QED
    BY <1>1, <1>2, <1>3, <1>4 DEF IInv, NoDuplicate, DispatchMatchesPoll

(***************************************************************************)
(* Whatever sequence of watch, unwatch and waits the program makes, the    *)
(* table stays well formed: no descriptor twice, none of the stale entries *)
(* behind the first free slot is ever seen, and a callback is read from    *)
(* the slot poll() reported.                                               *)
(***************************************************************************)
THEOREM Invariance == Spec => []IInv
  <1>1. IInv /\ [Next]_vars => IInv'
    <2> SUFFICES ASSUME IInv, [Next]_vars PROVE IInv'
      OBVIOUS
    <2>1. CASE UNCHANGED vars
      BY <2>1 DEF vars, IInv, TypeOK, NoDuplicate, DispatchMatchesPoll, Used, Ready
    <2>2. QED
      BY <2>1, WatchInv, UnwatchInv, PollInv, DispatchInv DEF Next
  <1>2. QED
    BY <1>1, InitInv, PTL DEF Spec

\* What is in the table are slots with a descriptor or a mark, and poll() reports
\* only what it was given: the fill of slots never used is not looked at.
THEOREM TableTyped == Spec => []TypeOK
  BY Invariance, PTL DEF IInv

\* No descriptor is ever watched twice, for every table size.
THEOREM NeverDuplicate == Spec => []NoDuplicate
  BY Invariance, PTL DEF IInv

-----------------------------------------------------------------------------
(***************************************************************************)
(* The refinement.  Under IInv the map is exactly the used slots.          *)
(***************************************************************************)
MapIsSlots ==
  /\ DOMAIN WatchedMap = WatchedFds
  /\ \A i \in Used : WatchedMap[table[i].fd] = table[i].cb

LEMMA MapOfSlots == IInv => MapIsSlots
  <1> SUFFICES ASSUME IInv PROVE MapIsSlots
    OBVIOUS
  <1>1. DOMAIN WatchedMap = WatchedFds
    BY DEF WatchedMap
  <1>2. ASSUME NEW i \in Used PROVE WatchedMap[table[i].fd] = table[i].cb
    <2>1. table[i].fd \in WatchedFds
      BY DEF WatchedFds
    <2>2. (CHOOSE j \in Used : table[j].fd = table[i].fd) = i
      BY DEF IInv, NoDuplicate
    <2>3. QED
      BY <2>1, <2>2 DEF WatchedMap
  <1>3. QED
    BY <1>1, <1>2 DEF MapIsSlots

LEMMA MapOfSlotsNext == IInv' => MapIsSlots'
  BY MapOfSlots, PTL

\* As many descriptors are watched as slots are used.
LEMMA CountWatched ==
  ASSUME IInv, NEW n \in 0 .. MaxFds, Used = 0 .. n - 1
  PROVE  Cardinality(WatchedFds) = n
  <1> DEFINE f == [i \in 0 .. n - 1 |-> table[i].fd]
  <1>1. f \in Surjection(0 .. n - 1, WatchedFds)
    <2>1. f \in [0 .. n - 1 -> WatchedFds]
      BY DEF WatchedFds
    <2>2. \A fd \in WatchedFds : \E i \in 0 .. n - 1 : f[i] = fd
      BY DEF WatchedFds
    <2>3. QED
      BY <2>1, <2>2, Fun_IsSurj
  <1>2. f \in Injection(0 .. n - 1, WatchedFds)
    <2>1. \A i, j \in 0 .. n - 1 : f[i] = f[j] => i = j
      BY DEF IInv, NoDuplicate
    <2>2. QED
      BY <1>1, <2>1 DEF Surjection, Injection, IsInjective
  <1>3. IsFiniteSet(0 .. n - 1) /\ Cardinality(0 .. n - 1) = n
    BY FS_Interval, FdWatchAssumption
  <1>4. QED
    BY <1>1, <1>2, <1>3, FS_Surjection

\* The abstract module reaches FiniteSets on its own.
LEMMA SameCardinality == ASSUME NEW S PROVE Abs!Cardinality(S) = Cardinality(S)
  BY DEF Abs!Cardinality, Cardinality

LEMMA InitRefines == Init => Abs!Init
  <1> SUFFICES ASSUME Init PROVE Abs!Init
    OBVIOUS
  <1>1. table[0].fd = Free
    BY FdWatchAssumption DEF Init, InitialTable, Slots, Entry
  <1>2. Used = {}
    <2>1. Used = 0 .. 0 - 1
      BY <1>1, UsedSegment, FdWatchAssumption DEF Used
    <2>2. QED
      BY <2>1
  <1>3. WatchedMap = [fd \in {} |-> NULL]
    BY <1>2 DEF WatchedMap, WatchedFds
  <1>4. OwedFds = {}
    BY DEF Init, OwedFds, Ready, Slots, NotPolled
  <1>5. QED
    BY <1>3, <1>4 DEF Init, Abs!Init, Abs!None

LEMMA NothingOwed == Ready = {} => OwedFds = {}
  BY DEF OwedFds

\* A refused call leaves the map as it was.
LEMMA RefuseKeepsMap == Refuse => UNCHANGED <<WatchedMap, OwedFds, served>>
  BY DEF Refuse, WatchedMap, WatchedFds, Used, OwedFds, Ready

LEMMA WatchRefines ==
  ASSUME IInv, IInv', NEW fd \in Fd \cup {-1}, NEW cb \in Callback \cup {NULL},
         Watch(fd, cb)
  PROVE  Abs!Register(fd, cb)
  <1> USE FdWatchAssumption
  <1>0. Ready = {} /\ OwedFds = {}
    BY NothingOwed DEF Watch
  <1>1. CASE fd < 0
    <2>1. Refuse /\ fd \notin Fd
      BY <1>1 DEF Watch
    <2>2. QED
      BY <1>0, <2>1, RefuseKeepsMap DEF Abs!Register, Refuse
  <1>2. CASE fd >= 0
    <2>0. PICK idx \in 0 .. MaxFds :
            /\ SearchEndsAt(idx, fd)
            /\ IF idx = MaxFds \/ table[idx].fd = fd
               THEN Refuse
               ELSE /\ table' = StoreAt(idx, fd, cb)
                    /\ result' = TRUE
                    /\ UNCHANGED <<fds, served>>
      BY <1>2 DEF Watch
    <2>1. CASE idx = MaxFds \/ table[idx].fd = fd
      <3>1. Refuse
        BY <2>0, <2>1
      <3>2. ~(fd \in Fd \ DOMAIN WatchedMap /\ Cardinality(DOMAIN WatchedMap) < MaxFds)
        <4>1. CASE idx = MaxFds
          <5>1. Used = 0 .. MaxFds - 1
            BY <2>0, <4>1, SearchResult DEF IInv
          <5>2. Cardinality(WatchedFds) = MaxFds
            BY <5>1, CountWatched
          <5>3. QED
            BY <5>2, MapOfSlots DEF MapIsSlots
        <4>2. CASE idx # MaxFds
          <5>1. idx \in Used /\ table[idx].fd = fd
            BY <1>2, <2>0, <2>1, <4>2, SearchResult DEF IInv, Free
          <5>2. QED
            BY <5>1, MapOfSlots DEF MapIsSlots, WatchedFds
        <4>3. QED
          BY <4>1, <4>2
      <3>3. QED
        BY <1>0, <3>1, <3>2, RefuseKeepsMap, SameCardinality
           DEF Abs!Register, Refuse
    <2>2. CASE ~(idx = MaxFds \/ table[idx].fd = fd)
      <3>1. fd \in Fd /\ idx \in 0 .. MaxFds - 1
        BY <1>2, <2>2
      <3>2. Used = 0 .. idx - 1 /\ \A i \in Used : table[i].fd # fd
        BY <2>0, <2>2, SearchResult DEF IInv
      <3>3. /\ Used' = 0 .. idx
            /\ table'[idx] = Entry(fd, cb)
            /\ \A i \in 0 .. idx - 1 : table'[i] = table[i]
        BY <2>0, <2>2, <3>1, <3>2, StoreUsed
      <3>4. Cardinality(WatchedFds) < MaxFds
        BY <3>1, <3>2, CountWatched
      <3>5. fd \notin WatchedFds
        BY <3>2 DEF WatchedFds
      <3>6. WatchedFds' = WatchedFds \cup {fd}
        BY <3>1, <3>2, <3>3 DEF WatchedFds, Entry
      <3>7. WatchedMap'[fd] = cb
        BY <3>1, <3>3, MapOfSlotsNext DEF MapIsSlots, Entry
      <3>8. \A f \in WatchedFds : WatchedMap'[f] = WatchedMap[f]
        <4>1. TAKE f \in WatchedFds
        <4>2. PICK i \in Used : table[i].fd = f
          BY DEF WatchedFds
        <4>3. i \in Used' /\ table'[i] = table[i]
          BY <3>1, <3>2, <3>3
        <4>4. QED
          BY <4>2, <4>3, MapOfSlots, MapOfSlotsNext DEF MapIsSlots
      <3>9. WatchedMap' = [f \in WatchedFds \cup {fd} |->
                             IF f = fd THEN cb ELSE WatchedMap[f]]
        <4>1. WatchedMap' = [f \in WatchedFds' |-> WatchedMap'[f]]
          BY DEF WatchedMap
        <4>2. QED
          BY <3>5, <3>6, <3>7, <3>8, <4>1
      <3>10. OwedFds' = OwedFds
        BY <2>0, <2>2, <1>0 DEF OwedFds, Ready
      <3>11. QED
        BY <1>0, <2>0, <2>2, <3>1, <3>4, <3>5, <3>9, <3>10, MapOfSlots,
           SameCardinality
           DEF Abs!Register, MapIsSlots
    <2>3. QED
      BY <2>1, <2>2
  <1>3. QED
    BY <1>1, <1>2

LEMMA UnwatchRefines ==
  ASSUME IInv, IInv', NEW fd \in Fd \cup {-1}, Unwatch(fd)
  PROVE  Abs!Unregister(fd)
  <1> USE FdWatchAssumption
  <1>0. Ready = {} /\ OwedFds = {}
    BY NothingOwed DEF Unwatch
  <1>1. ASSUME Refuse, fd \notin WatchedFds PROVE Abs!Unregister(fd)
    <2>1. DOMAIN WatchedMap = WatchedFds
      BY MapOfSlots DEF MapIsSlots
    <2>2. WatchedMap = [f \in DOMAIN WatchedMap \ {fd} |-> WatchedMap[f]]
      BY <1>1, <2>1 DEF WatchedMap
    <2>3. UNCHANGED <<WatchedMap, OwedFds, served>>
      BY <1>1, RefuseKeepsMap
    <2>4. result' = (fd \in Fd /\ fd \in DOMAIN WatchedMap)
      BY <1>1, <2>1 DEF Refuse
    <2>5. WatchedMap' = [f \in DOMAIN WatchedMap \ {fd} |-> WatchedMap[f]]
      BY <2>2, <2>3
    <2>6. QED
      BY <1>0, <2>3, <2>4, <2>5 DEF Abs!Unregister
  <1>2. CASE fd < 0
    <2>1. Refuse
      BY <1>2 DEF Unwatch
    <2>2. fd \notin WatchedFds
      BY <1>2 DEF WatchedFds, IInv, NoDuplicate
    <2>3. QED
      BY <1>1, <2>1, <2>2
  <1>3. CASE fd >= 0
    <2>0. PICK idx \in 0 .. MaxFds :
            /\ SearchEndsAt(idx, fd)
            /\ IF idx = MaxFds \/ table[idx].fd = Free
               THEN Refuse
               ELSE \E last \in idx .. MaxFds - 1 :
                      /\ LastFrom(idx, last)
                      /\ table' = MoveLast(idx, last)
                      /\ result' = TRUE
                      /\ UNCHANGED <<fds, served>>
      BY <1>3 DEF Unwatch
    <2>1. CASE idx = MaxFds \/ table[idx].fd = Free
      <3>1. fd \notin WatchedFds
        BY <2>0, <2>1, SearchResult DEF WatchedFds, IInv
      <3>2. QED
        BY <1>1, <2>0, <2>1, <3>1
    <2>2. CASE ~(idx = MaxFds \/ table[idx].fd = Free)
      <3>1. PICK last \in idx .. MaxFds - 1 :
              /\ LastFrom(idx, last)
              /\ table' = MoveLast(idx, last)
              /\ result' = TRUE
              /\ UNCHANGED <<fds, served>>
        BY <2>0, <2>2
      <3>2. idx \in Used /\ table[idx].fd = fd
        BY <2>0, <2>2, SearchResult DEF IInv
      <3>3. Used = 0 .. last
        BY <3>1, <3>2, LastSlot
      <3>4. last \in Slots /\ idx \in 0 .. last
        BY <3>1 DEF Slots
      <3>5. /\ Used' = 0 .. last - 1
            /\ idx < last => table'[idx] = table[last]
            /\ \A i \in 0 .. last - 1 : i # idx => table'[i] = table[i]
        BY <3>1, <3>3, <3>4, MoveUsed DEF IInv
      <3>6. \A i \in Used : i # idx => table[i].fd # fd
        BY <3>2 DEF IInv, NoDuplicate
      <3>7. ASSUME NEW i \in Used, i # idx
            PROVE  \E j \in Used' : table'[j] = table[i]
        BY <3>3, <3>4, <3>5, <3>7
      <3>8. ASSUME NEW j \in Used'
            PROVE  \E i \in Used : i # idx /\ table'[j] = table[i]
        BY <3>3, <3>4, <3>5 DEF Slots
      <3>9. WatchedFds' = WatchedFds \ {fd}
        <4>1. \A f \in WatchedFds' : f \in WatchedFds /\ f # fd
          BY <3>6, <3>8 DEF WatchedFds
        <4>2. \A f \in WatchedFds : f # fd => f \in WatchedFds'
          BY <3>2, <3>7 DEF WatchedFds
        <4>3. QED
          BY <4>1, <4>2
      <3>10. \A f \in WatchedFds' : WatchedMap'[f] = WatchedMap[f]
        <4>1. TAKE f \in WatchedFds'
        <4>2. PICK j \in Used' : table'[j].fd = f
          BY DEF WatchedFds
        <4>3. PICK i \in Used : table'[j] = table[i]
          BY <3>8
        <4>4. QED
          BY <4>2, <4>3, MapOfSlots, MapOfSlotsNext DEF MapIsSlots
      <3>11. WatchedMap' = [f \in WatchedFds \ {fd} |-> WatchedMap[f]]
        <4>1. WatchedMap' = [f \in WatchedFds' |-> WatchedMap'[f]]
          BY DEF WatchedMap
        <4>2. QED
          BY <3>9, <3>10, <4>1
      <3>12. OwedFds' = OwedFds
        BY <3>1, <1>0 DEF OwedFds, Ready
      <3>13. fd \in WatchedFds
        BY <3>2 DEF WatchedFds
      <3>14. fd \in Fd /\ fd \in DOMAIN WatchedMap
        BY <1>3, <3>13, MapOfSlots DEF MapIsSlots
      <3>15. WatchedMap' = [f \in DOMAIN WatchedMap \ {fd} |-> WatchedMap[f]]
        BY <3>11, MapOfSlots DEF MapIsSlots
      <3>16. result' = (fd \in Fd /\ fd \in DOMAIN WatchedMap)
        BY <3>1, <3>14
      <3>17. QED
        BY <1>0, <3>1, <3>12, <3>15, <3>16 DEF Abs!Unregister
    <2>3. QED
      BY <2>1, <2>2
  <1>4. QED
    BY <1>2, <1>3

LEMMA PollRefines == IInv /\ Poll => Abs!Wait
  <1> SUFFICES ASSUME IInv, Poll PROVE Abs!Wait
    OBVIOUS
  <1>1. PICK revents \in SUBSET PolledSlots :
          fds' = [i \in Slots |-> IF i \in revents THEN table[i].fd ELSE NotPolled]
    BY DEF Poll
  <1>2. UNCHANGED <<WatchedMap, result, served>>
    BY DEF Poll, WatchedMap, WatchedFds, Used
  <1>3. OwedFds = {}
    BY NothingOwed DEF Poll
  <1>4. OwedFds' \in SUBSET WatchedFds
    <2>1. \A i \in Ready' : i \in Used /\ fds'[i] = table[i].fd
      BY <1>1 DEF Ready, PolledSlots
    <2>2. QED
      BY <2>1 DEF OwedFds, WatchedFds
  <1>5. QED
    BY <1>2, <1>3, <1>4, MapOfSlots DEF Abs!Wait, MapIsSlots

LEMMA DispatchRefines ==
  ASSUME IInv, Dispatch
  PROVE  \E fd \in OwedFds : Abs!Serve(fd)
  <1>1. PICK i \in Ready :
          /\ fds' = [fds EXCEPT ![i] = NotPolled]
          /\ served' = IF table[i].cb = NULL THEN served
                                             ELSE <<fds[i], table[i].cb>>
          /\ UNCHANGED <<table, result>>
    BY DEF Dispatch
  <1>2. i \in Slots /\ i \in Used /\ fds[i] = table[i].fd
    BY DEF IInv, DispatchMatchesPoll, Ready
  <1>3. WatchedMap[fds[i]] = table[i].cb
    BY <1>2, MapOfSlots DEF MapIsSlots
  <1>4. UNCHANGED <<WatchedMap, result>>
    BY <1>1 DEF WatchedMap, WatchedFds, Used
  <1>5. Ready' = Ready \ {i} /\ \A j \in Ready' : fds'[j] = fds[j]
    BY <1>1, <1>2 DEF Ready, IInv, TypeOK
  <1>6. \A j \in Ready' : fds[j] # fds[i]
    BY <1>2, <1>5 DEF IInv, DispatchMatchesPoll, NoDuplicate
  <1>7. OwedFds' = OwedFds \ {fds[i]}
    <2>1. \A f \in OwedFds' : f \in OwedFds /\ f # fds[i]
      BY <1>5, <1>6 DEF OwedFds
    <2>2. \A f \in OwedFds : f # fds[i] => f \in OwedFds'
      BY <1>5 DEF OwedFds
    <2>3. QED
      BY <2>1, <2>2
  <1>8. fds[i] \in OwedFds
    BY DEF OwedFds
  <1>9. QED
    BY <1>1, <1>3, <1>4, <1>7, <1>8 DEF Abs!Serve

(***************************************************************************)
(* The table implements the map of platform.h: registering fails exactly   *)
(* when the descriptor is invalid, watched already, or the table is full;  *)
(* and a wait runs the callback each ready descriptor was registered with. *)
(***************************************************************************)
THEOREM Refinement == Spec => ImplementsMap
  <1>1. ASSUME IInv, IInv', [Next]_vars PROVE [Abs!Next]_(Abs!vars)
    <2>1. CASE UNCHANGED vars
      BY <2>1 DEF vars, Abs!vars, WatchedMap, WatchedFds, Used, OwedFds, Ready
    <2>2. CASE Next
      BY <1>1, <2>2, WatchRefines, UnwatchRefines, PollRefines, DispatchRefines
         DEF Next, Abs!Next
    <2>3. QED
      BY <1>1, <2>1, <2>2
  <1>2. QED
    BY <1>1, InitRefines, Invariance, PTL DEF Spec, Abs!Spec, ImplementsMap

-----------------------------------------------------------------------------
\* The timers.

\* The it_value of a number of milliseconds is one timer_settime() accepts,
\* and is the one that disarms only for zero.
LEMMA ItValueRange ==
  ASSUME NEW value \in Nat
  PROVE  /\ ItValue(value) \in ItValues
         /\ value # 0 => ItValue(value) # ItZero
  <1>1. /\ value \div 1000 \in Nat
        /\ value % 1000 \in 0 .. 999
        /\ value # 0 => value \div 1000 # 0 \/ value % 1000 # 0
    OBVIOUS
  <1>2. QED
    BY <1>1 DEF ItValue, ItZero, ItValues

LEMMA TimerInitInv == TimerInit => TimerInv
  <1> SUFFICES ASSUME TimerInit PROVE TimerInv
    OBVIOUS
  <1> USE DEF TimerInit
  <1>1. [sec |-> 0, msec |-> 0] \in ItValues
    BY DEF ItValues
  <1>2. \A s, t : call # <<s, t>>
    BY DEF Returned
  <1>3. TimerTypeOK
    BY <1>1 DEF TimerTypeOK
  <1>4. StoppedIsSilent /\ StartedIsRunning
    BY DEF StoppedIsSilent, StartedIsRunning
  <1>5. InFlight
    BY <1>2 DEF InFlight
  <1>6. ArmedInTime
    BY <1>2 DEF ArmedInTime
  <1>7. QED
    BY <1>3, <1>4, <1>5, <1>6 DEF TimerInv

LEMMA TimerNextInv == TimerInv /\ [TimerNext]_timerVars => TimerInv'
  <1> SUFFICES ASSUME TimerInv, [TimerNext]_timerVars PROVE TimerInv'
    OBVIOUS
  <1> USE TimerAssumption DEF TimerInv, TimerTypeOK, StoppedIsSilent, InFlight,
          ArmedInTime, StartedIsRunning, SafeDurations, Busy, Steps, Returned,
          InUserMode
  <1>1. CASE UNCHANGED timerVars
    BY <1>1 DEF timerVars
  <1>2. ASSUME NEW t \in Timers, NEW value \in Durations, StartTimer(t, value)
        PROVE  TimerInv'
    <2>1. /\ ItValue(value) \in ItValues
          /\ value # 0 => ItValue(value) # ItZero
      BY ItValueRange
    <2>2. QED
      BY <1>2, <2>1 DEF StartTimer
  <1>3. ASSUME NEW t \in Timers, SetTime(t) PROVE TimerInv'
    BY <1>3 DEF SetTime
  <1>4. ASSUME NEW t \in Timers, StoreStarted(t) PROVE TimerInv'
    BY <1>4 DEF StoreStarted
  <1>5. ASSUME NEW t \in Timers, TimerStop(t) PROVE TimerInv'
    BY <1>5 DEF TimerStop
  <1>6. ASSUME NEW t \in Timers, Disarm(t) PROVE TimerInv'
    BY <1>6 DEF Disarm
  <1>7. ASSUME NEW t \in Timers, ClearStarted(t) PROVE TimerInv'
    BY <1>7 DEF ClearStarted
  <1>8. ASSUME NEW t \in Timers, TimerReset(t) PROVE TimerInv'
    BY <1>8 DEF TimerReset
  <1>9. ASSUME NEW t \in Timers, Expire(t) PROVE TimerInv'
    BY <1>9 DEF Expire
  <1>10. ASSUME NEW t \in Timers, SigHandler(t) PROVE TimerInv'
    BY <1>10 DEF SigHandler
  <1>11. QED
    BY <1>1, <1>2, <1>3, <1>4, <1>5, <1>6, <1>7, <1>8, <1>9, <1>10 DEF TimerNext

\* The invariant of the timers, whatever the durations and the expiry times.
THEOREM TimerInvariance == TimerSpec => []TimerInv
  BY TimerInitInv, TimerNextInv, PTL DEF TimerSpec

\* The arguments of timer_settime() are always what it accepts: tv_nsec stays below
\* one second for every duration (platform.c:157-161).
THEOREM TimerTyped == TimerSpec => []TimerTypeOK
  BY TimerInvariance, PTL DEF TimerInv

\* After TimerStop has returned, the callback cannot run until the next start
\* (platform.c:176-184).
THEOREM StopSilences == TimerSpec => []StoppedIsSilent
  BY TimerInvariance, PTL DEF TimerInv

\* When no timer can expire between timer_settime() and the store that follows
\* it, and no duration is zero, "timer already started" is the truth
\* (platform.c:163-174).
THEOREM StartRuns == ASSUME SafeDurations PROVE TimerSpec => []StartedIsRunning
  <1>1. TimerInv => StartedIsRunning
    BY DEF TimerInv
  <1>2. QED
    BY <1>1, TimerInvariance, PTL
=============================================================================
