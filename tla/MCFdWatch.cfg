CONSTANTS
  MaxFds = 3
  Fd <- MCFd
  Callback = {tun, l2}
  NULL = NULL
SPECIFICATION Spec
INVARIANT TypeOK
INVARIANT NoDuplicate
PROPERTY ImplementsMap
