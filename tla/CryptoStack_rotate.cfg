SPECIFICATION StackSpec
CONSTANTS
  Pdu = {"brake", "steer"}
  KeyId = {"key_brake", "key_steer"}
  ProfileKey <- MCProfileKey
  NoKey = NoKey
  MaxMaterial = 4
  MaxVersion = 3
  Context = {"c1", "c2"}
  Data = {"x"}
  Chunk <- MCChunk
  NoContext = NoContext
  NoDigest = NoDigest
  MaxWork = 4
INVARIANTS StackTypeOK OldMacsDead AckedKeyDurable ServingHasKeys DigestsComplete
