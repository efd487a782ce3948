SPECIFICATION Spec
CONSTANTS
  Event = {"AUTH_FAIL", "RESET"}
  MaxEntries = 3
  MaxLogged = 4
INVARIANTS TypeOK VerifiedIsGenuine KeepsNewest
CHECK_DEADLOCK FALSE
