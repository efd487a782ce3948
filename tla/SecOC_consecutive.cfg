SPECIFICATION Spec
CONSTANTS
  Pdu = {p1}
  NoFrame = NoFrame
  Payload <- MCPayload
  Short <- MCPayload
  Padded <- MCPadded
  Bytes <- MCBytes
  Joined <- MCJoined
  WireModulus <- MCWire
  Modulus = 4
  Window = 2
  MaxAuthFailures = 2
  ResyncValue = {}
  MaxSent = 1
  MaxFreshness = 2
  MaxRejections = 3
  MaxKeyEpoch = 1
  MaxQueue = 6
INVARIANT LockoutNeedsConsecutive
