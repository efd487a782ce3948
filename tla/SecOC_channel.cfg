SPECIFICATION Spec
CONSTANTS
  Pdu = {p1}
  NoFrame = NoFrame
  Payload <- MCPayload
  Short <- MCPayload
  Padded <- MCPadded
  Bytes <- MCBytes
  Joined <- MCJoined
  WireModulus <- MCWire
  Modulus = 4
  Window = 2
  MaxAuthFailures = 2
  ResyncValue = {3}
  MaxSent = 3
  MaxFreshness = 5
  MaxRejections = 1
  MaxKeyEpoch = 2
  MaxQueue = 1
INVARIANTS TypeOK FreshnessRises AcceptedWasSent NoReacceptanceWithinModulus RoundTripFD RoundTripClassic StaleIsOutOfWindow
PROPERTY AntiReplaySpec
VIEW Read
