SPECIFICATION PersistSpec
CONSTANTS
  Pdu = {p1, p2}
  Window = 2
  MaxFreshness = 2
  Profile = {q1, q2}
  Version = {"1.0", "1.1"}
  Shipped <- MCShipped
  Component <- MCComponent
  Firmware = {f1, f2}
  NoHash = NoHash
INVARIANTS PersistTypeOK FileWhole DeliveredDurable DeliveredOnce ProfilesReturned TamperDetected
SYMMETRY Symmetry
