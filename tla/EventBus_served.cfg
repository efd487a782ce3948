SPECIFICATION Spec
CONSTANTS
  Client = {c1, c2}
  Handler = {h1, h2}
  MaxEvents = 1
PROPERTY EveryClientServed
CHECK_DEADLOCK FALSE
