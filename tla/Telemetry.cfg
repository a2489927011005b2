SPECIFICATION Spec
CONSTANTS
  WalLines <- MCWalLines
  ChannelCap = 1
  MaxUdp = 1
  MaxHeartbeats = 1
  Handlers = {h1, h2}
  Null = Null
SYMMETRY Symmetry
INVARIANTS TypeOK ResponseConsistent 
PROPERTIES ResponsesMonotone
