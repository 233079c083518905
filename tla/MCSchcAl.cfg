CONSTANTS
  MaxUp = 3
  MaxDown = 2
  MaxFaults = 2
  OscoreProxy = TRUE
  DropOnError = TRUE
  DropNonCoap = FALSE
  UpKinds <- MCUpKinds
  DownKinds <- MCDownKinds
SPECIFICATION Spec
INVARIANT TypeOK
INVARIANT OngoingMatchesSdk
INVARIANT FlagMeansPacket
INVARIANT NothingLost
INVARIANT ProxyFailsClosed
PROPERTY OneAtATime
