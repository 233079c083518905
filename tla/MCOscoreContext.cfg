CONSTANTS
  HashSize = 3
  CounterWidth = 8
  Lengths = {0, 2, 3, 4, 12, 18, 19, 21}
  Salt <- MCSalt
  Numbers = {0, 3, 4, 5}
  Width = 4
  IdLens <- MCIdLens
  Junk = {60, 255}
SPECIFICATION Spec
INVARIANT ExpandsAsSpecified
INVARIANT FileHoldsLast
INVARIANT ReadsLastStored
INVARIANT KeyLineDecodes
PROPERTY DerivationEnds
