SPECIFICATION LeaseFairSpec
CONSTANTS
  t1 = t1
  t2 = t2
  Task <- TwoTasks
  Limit = 1
  Ttl = 2
  MaxLost = 1
PROPERTY NotStranded
