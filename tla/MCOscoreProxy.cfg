CONSTANTS
  AddressSum = 98648
  PortSum = 16001
  Payloads <- MCPayloads
  Capacity = 6
  TagLen = 1
  LenWidth = 64
  CipherOctets = {0, 252, 255}
  InnerDeltas <- MCInnerDeltas
SPECIFICATION Spec
INVARIANT StaysValid
INVARIANT ComesOutAsItWent
INVARIANT OthersByBuild
INVARIANT OpensWithinMessage
