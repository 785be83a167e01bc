\* The server's own proxy: one store with the API, two modes, two known-bad lists.
SPECIFICATION MCServerSpec
CONSTANTS
  l1 = l1
  l2 = l2
  n1 = n1
  v1 = v1
  v2 = v2
  c1 = c1
  c2 = c2
  Names = {n1}
  Versions = {v1}
  NoVersion = NoVersion
  Packages <- MCOnlyV1
  Findings <- MCFindings
  ScanIds = {c1, c2}
  ExceptionIds = {e1}
  NoRow = NoRow
  Never = Never
  NoResult = NoResult
  TTLAllow = 2
  TTLFlag = 1
  HistoryLimit = 1
  Retention = 1
  MaxTime = 0
  Lists = {l1, l2}
  BadlistFindings <- MCBadlist
  CVEFindings <- MCNothing
  HeuristicFindings <- MCNothing
  ClaudeFindings <- MCNothing
  HeuristicScore <- MCScore
  ClaudeTriggerScore = 30
  ClaudeEnabled = TRUE
  NoContent = {}
  Modes = {"enforce", "warn"}
  Faults = {"deadline"}
  HasServer = FALSE
  ServerExceptionIds = {}
INVARIANTS
  KnownBadNeverAllowed
PROPERTIES
  WarnRefusesNothing
