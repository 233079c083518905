SPECIFICATION Spec
CONSTANTS
  DeviceAddr <- MCDeviceAddr
  PeerAddr <- MCPeerAddr
  Messages <- MCMessages
INVARIANTS
  Restores
  SameResidue
  FragmentsUnderstood
