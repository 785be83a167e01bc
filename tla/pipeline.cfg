\* Two concurrent calls over one store: failures, expiries, pruning, restarts.
SPECIFICATION Spec
CONSTANTS
  l1 = l1
  l2 = l2
  n1 = n1
  v1 = v1
  c1 = c1
  c2 = c2
  c3 = c3
  Names = {n1}
  Versions = {v1}
  NoVersion = NoVersion
  Packages <- MCPackages
  Findings <- MCFindings
  ScanIds = {c1, c2}
  ExceptionIds = {e1}
  NoRow = NoRow
  Never = Never
  NoResult = NoResult
  TTLAllow = 2
  TTLFlag = 1
  HistoryLimit = 1
  Retention = 1
  MaxTime = 2
  Lists = {l1}
  BadlistFindings <- MCBadlist
  CVEFindings <- MCCVE
  HeuristicFindings <- MCHeuristic
  ClaudeFindings <- MCClaude
  HeuristicScore <- MCScore
  ClaudeTriggerScore = 30
  ClaudeEnabled = TRUE
  NoContent = {}
  Modes = {"enforce"}
  Faults = {"cve", "exception", "heuristic", "claude", "deadline"}
SYMMETRY MCSymmetry
INVARIANTS
  OnlyFinishedScansPersisted
  EveryGapHasACause
  CachedAnswerIsAScan
PROPERTIES
  ImplementsStore
  CachedAnswerIsFresh
