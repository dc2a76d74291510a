SPECIFICATION WorkSpec
CONSTANTS
  Processes = {p1}
  Gateways = {g1}
  MaxSessions = 1
  MaxOwners = 1
  MaxCrashes = 0
  Nothing = Nothing
INVARIANT MemoryIsNoPrecondition
CHECK_DEADLOCK FALSE
