SPECIFICATION PartsSpec
CONSTANTS
  a1 = a1
  a2 = a2
  b1 = b1
  b2 = b2
  c1 = c1
  c2 = c2
  ka = ka
  kb = kb
  kc = kc
  Key <- MCKey
  Request <- MCRequest
  KeyOf <- MCKeyOf
  LimitsOf <- MCLimitsOf
  MaxConcurrent = 2
  MaxQueue = 3
  gpu = gpu
  mac = mac
  Members <- MCMembers
  TakesOptions = {gpu}
  first = first
  second = second
  Askers = {first, second}
  Windows = {1, 2}
  DefaultCtx = 2
  Unknown = Unknown
  DISCOVERY_SECONDS = 1
  CACHE_SECONDS = 1
  ReplyTime = 1
  MaxNow = 4
  MaxDisturbances = 1
INVARIANTS SlotsConserved CapacityKept NoNeedlessWait
PROPERTIES NoOvertaking RoutedByWhatIsServed WindowsFit
SYMMETRY MCSymmetry
CHECK_DEADLOCK FALSE
