SPECIFICATION Spec
CONSTANTS
  PACKET_SIZE <- MCPacketSize
  MaxSize <- MCMaxSize
INVARIANT
  TextArrives
