SPECIFICATION ServerSpec
CONSTANTS
  Pdu = {p1}
  NoFrame = NoFrame
  Payload <- MCPayload
  Short <- MCShort
  Padded <- MCPadded
  Bytes <- MCBytes
  Joined <- MCJoined
  WireModulus <- MCWire
  ForgedPayload <- MCForged
  Modulus = 4
  Window = 2
  MaxAuthFailures = 2
  ResyncValue = {}
  MaxSent = 1
  MaxFreshness = 2
  MaxRejections = 3
  MaxKeyEpoch = 2
  MaxQueue = 2
INVARIANTS FailuresAudited LockoutNeedsFreshRun
PROPERTY AttackRejected
VIEW Read
