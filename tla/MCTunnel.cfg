SPECIFICATION PartsSpec
CONSTANTS
  o1 = o1
  o2 = o2
  o3 = o3
  None = None
  Opening <- MCOpening
  t1 = t1
  t2 = t2
  t3 = t3
  t4 = t4
  Task <- MCTask
  Limit = 2
  Ttl = 2
  MaxLost = 1
  s1 = s1
  s2 = s2
  gpu = gpu
  spare = spare
  Request <- MCRequest
  Streamed <- MCRequest
  Backend <- MCBackend
  Slots <- MCSlots
  Prompt <- MCPrompt
  PromptOf <- MCPromptOf
  MaxText = 1
  Tokens <- MCTokens
  Answers <- MCAnswers
INVARIANTS NoForgottenProcess NeverOverstated OverrunIsForgotten StreamedAsWhole
PROPERTIES OpeningEnds OffStaysOff TurnsEnd
CHECK_DEADLOCK FALSE
