CONSTANTS
  ValuesOf <- MCValuesOf
  MaxEntries = 3
  Int16 = 8
  Int32 = 12
  Int64 = 16
  Protocol <- MCProtocol
  Topics <- MCTopics
  Payloads <- MCPayloads
  PacketIds <- MCPacketIds
  KeepAlives <- MCKeepAlives
  ReturnCodes <- MCReturnCodes
  MaxPackets = 2

SPECIFICATION CodecSpec

INVARIANTS
  ReadersAgree
  StreamStaysInStep

CHECK_DEADLOCK FALSE
