SPECIFICATION PairSpec
CONSTANTS
  Pdu = {p1, p2}
  NoFrame = NoFrame
  Payload <- MCPayload
  Short <- MCPayload
  Padded <- MCPadded
  Bytes <- MCBytes
  Joined <- MCJoined
  WireModulus <- MCWire
  Modulus = 4
  Window = 2
  MaxAuthFailures = 2
  ResyncValue = {}
  MaxSent = 2
  MaxFreshness = 2
  MaxRejections = 3
  MaxKeyEpoch = 1
  MaxQueue = 1
  MaxDropped = 1
INVARIANTS PairTypeOK AttemptsBounded NoDoubleDelivery LockoutJustified
PROPERTY LockoutQuiet
SYMMETRY Symmetry
VIEW Read
