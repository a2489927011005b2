SPECIFICATION FairSpec
CONSTANTS
  b1 = b1
  b2 = b2
  Backends <- MCBackends
  Threshold = 2
  SocketBuf = 2
  ChannelCap = 1
  SendErrors = {"EAGAIN", "other"}
  MaxEmits = 3
  MaxStops = 1
INVARIANTS TypeOK FallbackLogsEvents BackendOrder
PROPERTIES DatagramReceived
