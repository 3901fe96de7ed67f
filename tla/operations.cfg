SPECIFICATION FairSpec
CONSTANTS
  realtime = realtime
  supplement = supplement
  v1 = v1
  v2 = v2
  c1 = c1
  c2 = c2
  table = table
  record = record
  None = None
  Roles = {realtime, supplement}
  Realtime = realtime
  RoleRank <- TheRank
  Versions = {v1, v2}
  Configs = {c1, c2}
  Allows = {c2}
  Things = {table, record}
  Rows = {record}
  Tables = {table}
  ThingRank <- TheThings
  MaxCommands = 1
  MaxFaults = 2
INVARIANTS
  LifecycleTypeOK
  LiveIsVerified
  NoSecondResource
  JobsHaveDefinitions
PROPERTIES
  SetupRestores
  TrustIsApproved
  SwitchRestores
  PipelineSettles
CHECK_DEADLOCK FALSE
