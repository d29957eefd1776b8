SPECIFICATION Spec
CONSTANTS
  empty = empty
  start = start
  query = query
  rootless = rootless
  short = short
  host1 = host1
  host2 = host2
  agent = agent
  bare = bare
  payload = payload
  host = host
  agentName = agentName
  v1 = v1
  v2 = v2
  p1 = p1
  p2 = p2
  Texts <- MCTexts
  Empty = empty
  Size <- MCSize
  Colon <- MCColon
  Name <- MCName
  Value <- MCValue
  Words3 <- MCWords3
  Rooted <- MCRooted
  Query <- MCQuery
  Inputs <- MCInputs
INVARIANTS TypeOK PayloadKept LastHeaderWins HeadSuffices LastParamWins
CHECK_DEADLOCK FALSE
