\* A lock file of two packages is scanned while another call goes on.
SPECIFICATION MCLockSpec
CONSTANTS
  l1 = l1
  n1 = n1
  n2 = n2
  v1 = v1
  a1 = a1
  a2 = a2
  b1 = b1
  b2 = b2
  other = other
  Names = {n1, n2}
  Versions = {v1}
  NoVersion = NoVersion
  Packages <- MCPackages
  Findings <- MCFindings
  ScanIds = {a1, a2, b1, b2, other}
  ExceptionIds = {}
  NoRow = NoRow
  Never = Never
  NoResult = NoResult
  TTLAllow = 2
  TTLFlag = 1
  HistoryLimit = 1
  Retention = 1
  MaxTime = 0
  Lists = {l1}
  BadlistFindings <- MCNoList
  CVEFindings <- MCCVE
  HeuristicFindings <- MCNoFindings
  ClaudeFindings <- MCNoFindings
  HeuristicScore <- MCScore
  ClaudeTriggerScore = 30
  ClaudeEnabled = FALSE
  NoContent = {}
  Modes = {"enforce"}
  Faults = {"cache", "deadline"}
  NumRefs = 2
  First <- MCFirst
  Second <- MCSecond
INVARIANTS
  EntriesMatchRefs
  FlagSurvivesRescan
PROPERTIES
  ScanIsAnswered
CHECK_DEADLOCK FALSE
