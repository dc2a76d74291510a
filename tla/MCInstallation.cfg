SPECIFICATION InstallSpec
CONSTANTS
  Workers = {w1}
  Databases = {d1, d2}
  DefaultDb = d1
  MaxKeys = 2
  MaxSessions = 1
  MaxChanges = 1
  Unset = Unset
INVARIANT CommandsUseTheServersDatabase
CHECK_DEADLOCK FALSE
