SPECIFICATION PartsSpec
CONSTANTS
  Keys = {k1, k2}
  Requests = {r1, r2, r3}
  Questions = {q1}
  NoQuota = NoQuota
  Quotas = {2}
  MaxTime = 2
  MaxEdits = 1
  Cost = 2
  Period = 2
  Window = 2
  Limit = 1
  SweepEvery = 2
  TTL = 1
  Capacity = 2
  None = None
  Turns = {r1, r2, r3}
  Threshold = 3
  KeepRecent = 1
INVARIANTS RateKept RepliesAreBilled SummariesKeepThePast
PROPERTIES OverrunOnlyTogether CachedRepliesFit
CHECK_DEADLOCK FALSE
SYMMETRY Symmetry
