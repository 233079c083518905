CONSTANTS
  Timers = {tx}
  Durations <- MCShortest
  EarlyExpiry = TRUE
SPECIFICATION FairSpec
INVARIANT StartedIsRunning
