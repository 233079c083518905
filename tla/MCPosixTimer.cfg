CONSTANTS
  Timers = {tx, inactivity}
  Durations <- MCDurations
  EarlyExpiry = FALSE
SPECIFICATION FairSpec
INVARIANT TimerTypeOK
INVARIANT StoppedIsSilent
INVARIANT StartedIsRunning
PROPERTY StartedEnds
