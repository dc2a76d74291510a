SPECIFICATION FairSpec
CONSTANTS
  a1 = a1
  a2 = a2
  b1 = b1
  b2 = b2
  c1 = c1
  c2 = c2
  ka = ka
  kb = kb
  kc = kc
  Key <- LiveKey
  Request <- LiveRequest
  KeyOf <- LiveKeyOf
  LimitsOf <- LiveLimitsOf
  MaxConcurrent = 1
  MaxQueue = 2
PROPERTIES NoStarvation RefinesPool
