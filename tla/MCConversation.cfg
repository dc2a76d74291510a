SPECIFICATION PartsSpec
CONSTANTS
  MaxRequests = 2
  MaxTurns = 3
  MaxSteps = 3
  KeepRecent = 3
  CompactAt = 6
  CompactTo = 4
  Long = 3
  Room = 1
  Workers = {w1, w2}
  Databases = {d1, d2}
  DefaultDb = d1
  MaxKeys = 2
  MaxSessions = 1
  MaxChanges = 1
  Unset = Unset
INVARIANTS ResultsFollowTheirCalls RequestInSight CompactsAllButTheFresh
  NeverOpenWithPlaceholder NoCollision OldSecretsAreDead
PROPERTY TypedAheadIsRun
CHECK_DEADLOCK FALSE
SYMMETRY Symmetry
