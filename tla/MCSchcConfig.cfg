\* A call that follows the null table ends the process.
CONSTANTS
  NbParams = 3
  Values <- MCValues
  InOrder = FALSE
SPECIFICATION Spec
INVARIANT EveryBlockOwned
PROPERTY GivesWhatIsStaged
CHECK_DEADLOCK FALSE
