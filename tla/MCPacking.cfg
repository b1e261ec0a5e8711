SPECIFICATION Spec
CONSTANTS
  PACKET_SIZE <- MCPacketSize
  MaxSize <- MCMaxSize
INVARIANTS
  TypeOK
  CopiesInBounds
  ListLongEnough
  UnpackFits
  OnlyBlockEndsLost
