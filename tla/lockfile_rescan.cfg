\* handlers_scan.go: the second pass rescans what the first has flagged.
SPECIFICATION LockSpec
CONSTANTS
  l1 = l1
  n1 = n1
  n2 = n2
  v1 = v1
  a1 = a1
  a2 = a2
  b1 = b1
  b2 = b2
  other = other
  Names = {n1, n2}
  Versions = {v1}
  NoVersion = NoVersion
  Packages <- MCOnlyBad
  Findings <- MCFindings
  ScanIds = {a1, a2}
  ExceptionIds = {}
  NoRow = NoRow
  Never = Never
  NoResult = NoResult
  TTLAllow = 2
  TTLFlag = 1
  HistoryLimit = 1
  Retention = 1
  MaxTime = 0
  Lists = {l1}
  BadlistFindings <- MCNoList
  CVEFindings <- MCCVE
  HeuristicFindings <- MCHeuristic
  ClaudeFindings <- MCNoFindings
  HeuristicScore <- MCScore
  ClaudeTriggerScore = 30
  ClaudeEnabled = FALSE
  NoContent = {}
  Modes = {"enforce"}
  Faults = {}
  NumRefs = 1
  First <- MCFirst
  Second <- MCSecond
INVARIANTS
  FlaggedAreRescanned
CHECK_DEADLOCK FALSE
