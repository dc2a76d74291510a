SPECIFICATION Spec
CONSTANTS
  a1 = a1
  a2 = a2
  b1 = b1
  b2 = b2
  c1 = c1
  c2 = c2
  ka = ka
  kb = kb
  kc = kc
  Key <- MCKey
  Request <- EditedRequest
  KeyOf <- EditedKeyOf
  LimitsOf <- EditedLimitsOf
  MaxConcurrent = 2
  MaxQueue = 3
INVARIANT HeadsServed
