SPECIFICATION Spec
CONSTANTS
  Event = {"AUTH_FAIL", "RESET"}
  MaxEntries = 3
  MaxLogged = 4
INVARIANT AlterationDetected
CHECK_DEADLOCK FALSE
