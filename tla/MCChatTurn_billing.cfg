SPECIFICATION PartsSpec
CONSTANTS
  s1 = s1
  s2 = s2
  c1 = c1
  gpu = gpu
  spare = spare
  p = p
  Request <- MCRequest
  Streamed <- MCStreamed
  Backend <- MCBackend
  Slots <- MCSlots
  Prompt <- MCPrompt
  PromptOf <- MCPromptOf
  MaxText = 1
  one = one
  two = two
  home = home
  away = away
  Processes <- MCProcesses
  Gateways <- MCGateways
  Nothing = Nothing
  session1 = session1
  session2 = session2
  task1 = task1
  task2 = task2
  file = file
  Shells <- MCProcesses
  SessionIds <- MCSessions
  Tasks <- MCTasks
  Paths = {file}
  Absent = Absent
  MaxSessions = 2
  MaxOwners = 2
  MaxCrashes = 1
  Kinds = {"container", "sandbox", "shell"}
INVARIANT RepliesAreBilled
CHECK_DEADLOCK FALSE
