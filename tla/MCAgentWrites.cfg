SPECIFICATION ToolsSpec
CONSTANTS
  file1 = file1
  part1 = part1
  part2 = part2
  text1 = text1
  text2 = text2
  Path <- MCPath
  Part <- MCPart
  Value <- MCValue
  Proposed <- MCProposed
  NoFile = NoFile
  MAX_REWRITES_PER_FILE = 2
  MaxCalls = 4
  MaxMishaps = 1
  chat = chat
  agent = agent
  words = words
  page = page
  other = other
  web = web
  lan = lan
  duckduckgo = duckduckgo
  brave = brave
  Requests = {chat, agent}
  Agents = {agent}
  Queries = {words}
  QueryOf <- MCQueryOf
  Providers <- MCProviders
  Sites = {page, other}
  Results <- MCResults
  Hosts = {web, lan}
  Private = {lan}
  HostOf <- MCHostOf
  Nowhere = Nowhere
  AllowPrivate = FALSE
  MaxSources = 2
  MAX_REDIRECTS = 1
  TTL = 2
  CacheSize = 1
  MaxTick = 3
INVARIANTS RewindRestores AnswersAreRecent OnlyCheckedHostsAreReached
PROPERTIES ForeignWorkIsReadFirst RefusedForUnseenOnly
SYMMETRY MCSymmetry
CHECK_DEADLOCK FALSE
