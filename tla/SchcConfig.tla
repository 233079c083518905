----------------------------- MODULE SchcConfig -----------------------------
(***************************************************************************)
(* The SDK configuration of libs/schc_commons/src/schc_helper.c, a builder *)
(* the demonstration applications use: start_config(), any of the with_*() *)
(* functions, config_schc().  A template parameter lives on the heap, in a *)
(* static table that outlives a configuration; what is modelled is which   *)
(* values that table holds when config_schc() gives them to the SDK.       *)
(***************************************************************************)
EXTENDS Integers, FiniteSets

CONSTANTS
  NbParams,     \* template parameters of the SDK, mgt_get_nb_template_params()
  Values,       \* what a parameter can be set to
  InOrder       \* TRUE: the first call is start_config(), as in the applications;
                \* after it any call may come at any time

Unset == "unset"   \* an entry of the table that is not initialized

ASSUME ConfigAssumption ==
  /\ NbParams \in Nat \ {0} /\ InOrder \in BOOLEAN
  /\ Unset \notin Values

VARIABLES
  initialized,  \* initialized: a configuration was started and not finished
  table,        \* staging_config.params: "null", or "set" to template_params
  params,       \* template_params: the value of each one initialized, or Unset
  blocks,       \* how many values are allocated on the heap
  staged,       \* history: what with_*() set since a configuration last ended
  sdk,          \* what the SDK was last given for each parameter
  result        \* what config_schc() last returned: "none", "ok" or "ko"; "crash",
                \* if it read the null table; "fault", if a with_*() wrote there

vars == <<initialized, table, params, blocks, staged, sdk, result>>

Params == 0 .. NbParams - 1
NoneSet == [p \in Params |-> Unset]
Allocated(f) == {p \in Params : f[p] # Unset}

Init ==
  /\ initialized = FALSE /\ table = "null"
  /\ params = NoneSet /\ blocks = 0
  /\ staged = NoneSet /\ sdk = NoneSet
  /\ result = "none"

\* The process has not followed the null table, and follows it only if any call
\* may be the first.
Alive == result \notin {"crash", "fault"}
TableExpected == InOrder => table = "set"

-----------------------------------------------------------------------------
\* Mutant: the values are freed and the entries keep them.
FreeOnly == params' = params /\ blocks' = blocks - Cardinality(Allocated(params))

\* clean_params: every value is freed and its entry zeroed.
Clean == /\ params' = NoneSet
         /\ blocks' = blocks - Cardinality(Allocated(params))

\* Mutant: a configuration that was not finished is forgotten and not cleaned.
StartOver ==
  /\ Alive
  /\ UNCHANGED <<params, blocks>>
  /\ initialized' = TRUE /\ table' = "set"
  /\ staged' = IF initialized THEN NoneSet ELSE staged
  /\ UNCHANGED <<sdk, result>>

\* start_config: what an unfinished configuration left is cleaned, and that
\* configuration is given up; what was set when none was started stays.
StartConfig ==
  /\ Alive
  /\ IF initialized THEN Clean /\ staged' = NoneSet
                    ELSE UNCHANGED <<params, blocks, staged>>
  /\ initialized' = TRUE /\ table' = "set"
  /\ UNCHANGED <<sdk, result>>

\* Mutant: INIT_PARAM allocates although the parameter has a value.
AllocateAgain(p) == blocks + 1

\* INIT_PARAM: a value is allocated only for a parameter that has none.
AllocateFor(p) == IF params[p] = Unset THEN blocks + 1 ELSE blocks

\* with_ipv6_src_param and the others, one parameter of theirs at a time.  They
\* do not ask whether a configuration is started.
WithParam(p, value) ==
  /\ Alive /\ table = "set"
  /\ params' = [params EXCEPT ![p] = value]
  /\ blocks' = AllocateFor(p)
  /\ staged' = [staged EXCEPT ![p] = value]
  /\ UNCHANGED <<initialized, table, sdk, result>>

\* The same before the first start_config(): written through a null pointer.
WithParamNoTable ==
  /\ Alive /\ TableExpected
  /\ table = "null"
  /\ result' = "fault"
  /\ UNCHANGED <<initialized, table, params, blocks, staged, sdk>>

\* mgt_set_template_param for the parameters below n that are initialized.
GivenBelow(n) == [p \in Params |-> IF p < n /\ params[p] # Unset THEN params[p]
                                                                 ELSE sdk[p]]

\* finish_failure: clean_params() is called even if there is no table, which is
\* then read through a null pointer.
FinishFailure ==
  /\ initialized' = FALSE
  /\ IF table = "null" THEN result' = "crash" /\ UNCHANGED <<params, blocks>>
                       ELSE result' = "ko" /\ Clean
  /\ staged' = NoneSet
  /\ UNCHANGED table

ConfigNotStarted ==
  /\ Alive /\ TableExpected
  /\ ~initialized
  /\ FinishFailure
  /\ UNCHANGED sdk

\* mgt_initialize fails, or mgt_set_template_param after some parameters are given.
ConfigRefused ==
  /\ Alive /\ initialized
  /\ \E n \in {0} \union Allocated(params) : sdk' = GivenBelow(n)
  /\ FinishFailure

\* net_initialize fails: nothing is cleaned and the configuration stays started.
ConfigNoNet ==
  /\ Alive /\ initialized
  /\ sdk' = GivenBelow(NbParams)
  /\ result' = "ko"
  /\ UNCHANGED <<initialized, table, params, blocks, staged>>

ConfigDone ==
  /\ Alive /\ initialized
  /\ sdk' = GivenBelow(NbParams)
  /\ result' = "ok"
  /\ initialized' = FALSE
  /\ Clean
  /\ staged' = NoneSet
  /\ UNCHANGED table

Next ==
  \/ StartConfig
  \/ \E p \in Params, value \in Values : WithParam(p, value)
  \/ WithParamNoTable
  \/ ConfigNotStarted \/ ConfigRefused \/ ConfigNoNet \/ ConfigDone

Spec == Init /\ [][Next]_vars

-----------------------------------------------------------------------------
\* The types; that blocks is never negative says that nothing is freed twice.
TypeOK ==
  /\ initialized \in BOOLEAN /\ table \in {"null", "set"}
  /\ params \in [Params -> Values \union {Unset}]
  /\ staged \in [Params -> Values \union {Unset}]
  /\ sdk \in [Params -> Values \union {Unset}]
  /\ blocks \in Nat
  /\ result \in {"none", "ok", "ko", "crash", "fault"}

\* Every value on the heap belongs to an entry of the table, through failures at
\* each point of config_schc() and configurations started over: none is lost,
\* and none is freed twice.
EveryBlockOwned == blocks = Cardinality(Allocated(params))

\* The SDK is given exactly what was set since a configuration last ended or was
\* given up: a value never outlives, in the static table, the configuration it was
\* set for, in whatever order the calls come.  (A value set while none is started
\* is for the next one: start_config() does not clean it.)
GivesWhatIsStaged ==
  [][sdk' # sdk => \A p \in Params : sdk'[p] \in {sdk[p], staged[p]}]_vars

\* config_schc() without start_config() says "Error : schc config is not
\* initialized!" and returns SCHC_CONFIG_KO (schc_helper.c:185-188, 237-240).
NotStartedIsRefused == result # "crash"
=============================================================================
