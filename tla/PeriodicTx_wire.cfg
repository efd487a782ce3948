SPECIFICATION Spec
CONSTANTS
  Signal = {"speed", "brake", "level"}
  Layout <- MCLayout
  NoBuffer = NoBuffer
  FreshnessLength = 2
  AuthenticatorLength = 8
  TfvLength = 1
  TmacLength = 3
  Period <- MCPeriod
  Never = Never
  MaxGap = 2
  LongAgo = 5
  EntrySignal <- MCEntrySignal
  Value <- MCValue
  FreshnessSample = {65794}
  Unset = Unset
  MaxQueue = 2
INVARIANTS PeriodicTypeOK DecodedIsPacked ParsedAsBuilt TransportsApart LatenessBounded
