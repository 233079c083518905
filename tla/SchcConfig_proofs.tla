------------------------- MODULE SchcConfig_proofs -------------------------
(***************************************************************************)
(* What the static table of parameters holds, for any number of parameters *)
(* and any values, in any order of the calls.                              *)
(***************************************************************************)
EXTENDS SchcConfig, TLAPS, FiniteSetTheorems

\* The crash is possible only with no table, and a started configuration has one.
TableComesFirst ==
  /\ InOrder => result # "crash"
  /\ initialized => table = "set"

\* The static table holds what was set since a configuration last ended, whether
\* or not one is started now.
TableIsStaged == params = staged

\* Nothing was set before there was a table.
NothingYet == table = "null" => params = NoneSet

IInv == TypeOK /\ TableComesFirst /\ TableIsStaged /\ NothingYet /\ EveryBlockOwned

-----------------------------------------------------------------------------
\* The entries with a value are finitely many.
LEMMA AllocatedFinite ==
  ASSUME NEW f
  PROVE  IsFiniteSet(Allocated(f)) /\ Cardinality(Allocated(f)) \in Nat
<1>1. IsFiniteSet(Params)
  BY ConfigAssumption, FS_Interval DEF Params
<1>2. Allocated(f) \subseteq Params
  BY DEF Allocated
<1> QED BY <1>1, <1>2, FS_Subset, FS_CardinalityType

\* An empty table owns nothing.
LEMMA NothingAllocated ==
  Allocated(NoneSet) = {} /\ Cardinality(Allocated(NoneSet)) = 0
<1>1. Allocated(NoneSet) = {}
  BY DEF Allocated, NoneSet
<1> QED BY <1>1, FS_EmptySet

\* clean_params() frees as many values as there are.
LEMMA CleanFreesAll ==
  ASSUME IInv, Clean
  PROVE  params' = NoneSet /\ blocks' = 0 /\ EveryBlockOwned'
<1>1. blocks = Cardinality(Allocated(params)) /\ blocks \in Nat
  BY DEF IInv, EveryBlockOwned, TypeOK
<1>2. params' = NoneSet /\ blocks' = 0
  BY <1>1 DEF Clean
<1>3. Cardinality(Allocated(params')) = 0
  BY <1>2, NothingAllocated
<1> QED BY <1>2, <1>3 DEF EveryBlockOwned, Allocated

LEMMA NoneSetType == NoneSet \in [Params -> Values \union {Unset}]
BY DEF NoneSet

\* What the SDK is given is made of values of the table and of what it had.
LEMMA GivenType ==
  ASSUME TypeOK, NEW n
  PROVE  GivenBelow(n) \in [Params -> Values \union {Unset}]
BY DEF TypeOK, GivenBelow

\* A parameter that is set owns one value, allocated now or before.
LEMMA SetOwnsOne ==
  ASSUME IInv, NEW p \in Params, NEW value \in Values, WithParam(p, value)
  PROVE  EveryBlockOwned'
<1>1. params \in [Params -> Values \union {Unset}] /\ value # Unset
  BY ConfigAssumption DEF IInv, TypeOK
<1>2. params' = [params EXCEPT ![p] = value]
  BY DEF WithParam
<1>3. Allocated(params') = Allocated(params) \union {p}
  BY <1>1, <1>2 DEF Allocated
<1>4. blocks = Cardinality(Allocated(params)) /\ blocks \in Nat
  BY DEF IInv, EveryBlockOwned, TypeOK
<1>5. Cardinality(Allocated(params) \union {p})
        = IF p \in Allocated(params) THEN blocks ELSE blocks + 1
  BY <1>4, AllocatedFinite, FS_AddElement
<1>6. blocks' = IF params[p] = Unset THEN blocks + 1 ELSE blocks
  BY DEF WithParam, AllocateFor
<1>7. blocks' = Cardinality(Allocated(params'))
  BY <1>3, <1>5, <1>6 DEF Allocated
<1> QED BY <1>7 DEF EveryBlockOwned, Allocated

-----------------------------------------------------------------------------
LEMMA InitIInv == Init => IInv
<1> SUFFICES ASSUME Init PROVE IInv
  OBVIOUS
<1>1. TypeOK
  BY NoneSetType DEF Init, TypeOK
<1>2. TableComesFirst /\ TableIsStaged /\ NothingYet
  BY DEF Init, TableComesFirst, TableIsStaged, NothingYet
<1>3. EveryBlockOwned
  BY NothingAllocated DEF Init, EveryBlockOwned
<1> QED BY <1>1, <1>2, <1>3 DEF IInv

\* Each call leaves the table as the invariant says.
LEMMA StepIInv == IInv /\ [Next]_vars => IInv'
<1> SUFFICES ASSUME IInv, [Next]_vars PROVE IInv'
  OBVIOUS
<1> USE DEF IInv
<1>1. CASE StartConfig
  <2>1. CASE initialized
    <3>1. params' = NoneSet /\ blocks' = 0 /\ EveryBlockOwned'
      BY <1>1, <2>1, CleanFreesAll DEF StartConfig
    <3>2. TypeOK'
      BY <1>1, <2>1, <3>1, NoneSetType DEF StartConfig, TypeOK
    <3>3. TableComesFirst' /\ TableIsStaged' /\ NothingYet'
      BY <1>1, <2>1, <3>1 DEF StartConfig, TableComesFirst, TableIsStaged, NothingYet
    <3> QED BY <3>1, <3>2, <3>3
  <2>2. CASE ~initialized
    BY <1>1, <2>2 DEF StartConfig, TypeOK, TableComesFirst, TableIsStaged, NothingYet,
                      EveryBlockOwned, Allocated
  <2> QED BY <2>1, <2>2
<1>2. ASSUME NEW p \in Params, NEW value \in Values, WithParam(p, value)
      PROVE  IInv'
  <2>1. EveryBlockOwned'
    BY <1>2, SetOwnsOne
  <2>2. TypeOK'
    BY <1>2 DEF WithParam, AllocateFor, TypeOK
  <2>3. TableComesFirst' /\ TableIsStaged' /\ NothingYet'
    BY <1>2 DEF WithParam, TableComesFirst, TableIsStaged, NothingYet
  <2> QED BY <2>1, <2>2, <2>3
<1>3. CASE ConfigNotStarted
  <2>1. CASE table = "null"
    <3>1. params = NoneSet
      BY <1>3, <2>1 DEF NothingYet
    <3>2. TypeOK' /\ TableComesFirst'
      BY <1>3, <2>1, NoneSetType DEF ConfigNotStarted, TableExpected, FinishFailure,
         TypeOK, TableComesFirst
    <3>3. TableIsStaged' /\ EveryBlockOwned' /\ NothingYet'
      BY <1>3, <2>1, <3>1 DEF ConfigNotStarted, FinishFailure, TableIsStaged, NothingYet,
         EveryBlockOwned, Allocated
    <3> QED BY <3>2, <3>3
  <2>2. CASE table # "null"
    <3>1. params' = NoneSet /\ blocks' = 0 /\ EveryBlockOwned'
      BY <1>3, <2>2, CleanFreesAll DEF ConfigNotStarted, FinishFailure
    <3>2. TypeOK'
      BY <1>3, <2>2, <3>1, NoneSetType DEF ConfigNotStarted, FinishFailure, TypeOK
    <3>3. TableComesFirst' /\ TableIsStaged' /\ NothingYet'
      BY <1>3, <2>2, <3>1 DEF ConfigNotStarted, FinishFailure, TableComesFirst,
                              TableIsStaged, NothingYet
    <3> QED BY <3>1, <3>2, <3>3
  <2> QED BY <2>1, <2>2
<1>4. CASE ConfigRefused
  <2>1. table = "set"
    BY <1>4 DEF ConfigRefused, TableComesFirst
  <2>2. params' = NoneSet /\ blocks' = 0 /\ EveryBlockOwned'
    BY <1>4, <2>1, CleanFreesAll DEF ConfigRefused, FinishFailure
  <2>3. sdk' \in [Params -> Values \union {Unset}]
    BY <1>4, GivenType DEF ConfigRefused
  <2>4. TypeOK'
    BY <1>4, <2>1, <2>2, <2>3, NoneSetType DEF ConfigRefused, FinishFailure, TypeOK
  <2>5. TableComesFirst' /\ TableIsStaged' /\ NothingYet'
    BY <1>4, <2>1, <2>2 DEF ConfigRefused, FinishFailure, TableComesFirst,
                                TableIsStaged, NothingYet
  <2> QED BY <2>2, <2>4, <2>5
<1>5. CASE ConfigNoNet
  <2>1. TypeOK'
    BY <1>5, GivenType DEF ConfigNoNet, TypeOK
  <2>2. TableComesFirst' /\ TableIsStaged' /\ NothingYet' /\ EveryBlockOwned'
    BY <1>5 DEF ConfigNoNet, TableComesFirst, TableIsStaged, NothingYet, EveryBlockOwned,
                   Allocated
  <2> QED BY <2>1, <2>2
<1>6. CASE ConfigDone
  <2>1. params' = NoneSet /\ blocks' = 0 /\ EveryBlockOwned'
    BY <1>6, CleanFreesAll DEF ConfigDone
  <2>2. TypeOK'
    BY <1>6, <2>1, GivenType, NoneSetType DEF ConfigDone, TypeOK
  <2>3. TableComesFirst' /\ TableIsStaged' /\ NothingYet'
    BY <1>6, <2>1 DEF ConfigDone, TableComesFirst, TableIsStaged, NothingYet
  <2> QED BY <2>1, <2>2, <2>3
<1>7. CASE WithParamNoTable
  BY <1>7 DEF WithParamNoTable, TypeOK, TableComesFirst, TableIsStaged, NothingYet,
              EveryBlockOwned, Allocated
<1>8. CASE UNCHANGED vars
  BY <1>8 DEF vars, TypeOK, TableComesFirst, TableIsStaged, NothingYet, EveryBlockOwned,
              Allocated
<1> QED BY <1>1, <1>2, <1>3, <1>4, <1>5, <1>6, <1>7, <1>8 DEF Next

-----------------------------------------------------------------------------
\* The table is what was staged, with one value on the heap for each entry, through
\* every order of start_config(), the with_*() functions and config_schc().
THEOREM ConfigInvariance == Spec => []IInv
<1>1. Init => IInv
  BY InitIInv
<1>2. IInv /\ [Next]_vars => IInv'
  BY StepIInv
<1> QED BY <1>1, <1>2, PTL DEF Spec

\* No value on the heap is lost or freed twice, whatever fails in config_schc().
THEOREM NoLeak == Spec => []EveryBlockOwned
<1>1. IInv => EveryBlockOwned
  BY DEF IInv
<1> QED BY <1>1, ConfigInvariance, PTL

\* With start_config() called once before, config_schc() always refuses in good order.
THEOREM RefusedInOrder == ASSUME InOrder PROVE Spec => []NotStartedIsRefused
<1>1. IInv => NotStartedIsRefused
  BY DEF IInv, TableComesFirst, NotStartedIsRefused
<1> QED BY <1>1, ConfigInvariance, PTL

\* mgt_set_template_param is given only what was set since a configuration last ended
\* or was given up, even by the with_*() calls made while none is started
\* (schc_helper.c:44-53, 217-226, 232-240).
THEOREM GivesStaged == Spec => GivesWhatIsStaged
<1>1. ASSUME IInv, [Next]_vars
      PROVE  [sdk' # sdk => \A p \in Params : sdk'[p] \in {sdk[p], staged[p]}]_vars
  <2> SUFFICES ASSUME Next, sdk' # sdk, NEW p \in Params
               PROVE  sdk'[p] \in {sdk[p], staged[p]}
    BY <1>1
  <2>1. initialized /\ \E n \in 0 .. NbParams : sdk' = GivenBelow(n)
    BY ConfigAssumption, <1>1 DEF Next, StartConfig, WithParam, WithParamNoTable,
       ConfigNotStarted, ConfigRefused, ConfigNoNet, ConfigDone, Params, Allocated
  <2>2. params = staged
    BY <1>1, <2>1 DEF IInv, TableIsStaged
  <2> QED BY <2>1, <2>2 DEF GivenBelow
<1> QED BY <1>1, ConfigInvariance, PTL DEF Spec, GivesWhatIsStaged
=============================================================================
