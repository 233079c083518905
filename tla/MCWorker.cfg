CONSTANTS
  MaxUp = 2
  MaxFaults = 1
  OscoreProxy = TRUE
  DropOnError = TRUE
  DropNonCoap = TRUE
  UpKinds <- MCUpKinds
  DownKinds <- MCDownKinds
  MaxFrames = 2
  MaxL2Faults = 1
  MaxFragments = 2
SPECIFICATION FairSpec
INVARIANT WorkIsRequested
INVARIANT ResultIsOnItsWay
INVARIANT ConnectedFirst
INVARIANT NothingLeftOpen
PROPERTY Terminates
PROPERTY ResultComes
PROPERTY TunDrained
PROPERTY LinkDrained
