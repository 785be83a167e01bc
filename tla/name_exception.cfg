\* README.md: exceptions are respected at both interception points.
SPECIFICATION ProxySpec
CONSTANTS
  l1 = l1
  l2 = l2
  n1 = n1
  v1 = v1
  v2 = v2
  c1 = c1
  c2 = c2
  Names = {n1}
  Versions = {v1, v2}
  NoVersion = NoVersion
  Packages <- MCOnlyBare
  Findings <- MCFindings
  ScanIds = {c1, c2}
  ExceptionIds = {e1}
  NoRow = NoRow
  Never = Never
  NoResult = NoResult
  TTLAllow = 2
  TTLFlag = 1
  HistoryLimit = 1
  Retention = 1
  MaxTime = 0
  Lists = {l1}
  BadlistFindings <- MCBadlist
  CVEFindings <- MCCVE
  HeuristicFindings <- MCNothing
  ClaudeFindings <- MCNothing
  HeuristicScore <- MCScore
  ClaudeTriggerScore = 30
  ClaudeEnabled = TRUE
  NoContent = {}
  Modes = {"enforce"}
  Faults = {}
  HasServer = FALSE
  ServerExceptionIds = {}
PROPERTIES
  ExceptionsRespectedByName
