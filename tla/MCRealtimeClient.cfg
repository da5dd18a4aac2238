CONSTANTS
  PingPackets = 2
  RegisterPackets = 2
  MaxId = 2
  MaxHandlers = 1
  MaxWire = 1
  BrokerIds <- MCBrokerIds

SPECIFICATION FairSpec

INVARIANTS
  TypeOK
  ConnectionIsKnown

PROPERTIES
  AcksFollowHandlers
  Terminates
