\* Two reporters with retries over one server: late, lost and repeated reports.
SPECIFICATION FairTeamSpec
CONSTANTS
  n1 = n1
  v1 = v1
  s1 = s1
  s2 = s2
  s3 = s3
  Names = {n1}
  Versions = {v1}
  NoVersion = NoVersion
  Packages <- MCPackages
  Findings <- MCFindings
  ScanIds = {s1, s2}
  ExceptionIds = {}
  NoRow = NoRow
  Never = Never
  NoScan = NoScan
  TTLAllow = 2
  TTLFlag = 1
  HistoryLimit = 1
  Retention = 0
  MaxTime = 1
  Jobs = {j1, j2}
  MaxAttempts = 2
  ProxyModes = {"enforce"}
INVARIANTS
  ReportedIsStored
  HistoryKeepsNewest
  CacheLifeFromScan
PROPERTIES
  DismissedStaysDismissed
  ImplementsStore
  EveryReportSettles
CHECK_DEADLOCK FALSE
