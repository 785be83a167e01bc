\* Every algorithm on every input within the bounds.
SPECIFICATION AlgorithmsSpec
CONSTANTS
  Letters <- MCLetters
  Lower <- MCLower
  MaxWord = 4
  MinTypoLength = 3
  LongName = 4
  Versions <- MCVersions
  Entries <- MCEntries
  BlockCVSSThreshold = 70
  Scores = {0, 1, 39, 40, 69, 70, 75, 89, 90, 100}
  MaxFiles = 2
  MaxArchiveFiles = 4
  ArchiveFiles <- MCArchiveFiles
  MaxSnippets = 5
  ClaudeFiles <- MCClaudeFiles
  PoetryLines <- MCPoetryLines
  YarnLines <- MCYarnLines
  MaxLines = 6
  NPMEntries <- MCNPMEntries
  PyPINames <- MCPyPINames
  Piece <- MCPiece
  Numeric = {"1.0", "2"}
  ScopeNames = {"@s"}
  Normal <- MCNormal
  NPMNames <- MCNPMNames
  NPMVersions <- MCNPMVersions
  PyPIFiles <- MCPyPIFiles
  MaxPyPIFiles = 3
  MaxFindings = 3
INVARIANTS
  NameCheckIsSound
  SeverityFollowsScore
  MoreCodeScoresMore
  ScriptsAreShown
  ClaudesWordCounts
  PoetryReadsSections
  YarnPairsHeaderAndVersion
  NPMKeepsEveryPackage
  FormatsNameAlike
  DownloadsAreRecognised
  RetriesAreWhole
CHECK_DEADLOCK FALSE
