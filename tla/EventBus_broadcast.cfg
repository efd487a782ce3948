SPECIFICATION Spec
CONSTANTS
  Client = {c1, c2}
  Handler = {h1, h2}
  MaxEvents = 1
INVARIANTS TypeOK EventSentOnce OpenStaysRegistered NoGhosts
PROPERTY BroadcastsEnd
VIEW Read
CHECK_DEADLOCK FALSE
