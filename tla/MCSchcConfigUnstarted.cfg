CONSTANTS
  NbParams = 3
  Values <- MCValues
  InOrder = FALSE
SPECIFICATION Spec
INVARIANT NotStartedIsRefused
