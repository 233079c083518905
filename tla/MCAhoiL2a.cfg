CONSTANTS
  Kinds <- MCKinds
  MaxFrames = 3
  MaxL2Faults = 2
SPECIFICATION Spec
INVARIANT TypeOK
INVARIANT ResultKnownOnce
PROPERTY EventsActedOn
