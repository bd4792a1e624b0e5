CONSTANTS
  Function <- MCFunction
  Variable <- MCVariable
  Value <- MCValue
  Expr <- MCExpr
  Height <- MCHeight
  Programs <- MCPrograms
  Contexts <- MCContexts
  Unknown = "?"
  Placeholder = "<type: ...>"
  Rendered = "f(...)"
  Source = "a + b"
  NoEntry = NoEntry
  MaxResolve = 3
  MaxInline = 2
  A = A
  B = B
  C = C
  Any = Any
  OnlyA = OnlyA
  N = N
  M = M
  NoName = NoName
  BadEntry = BadEntry
  File <- MCFile
  Name <- MCName
  Fragment <- MCFragment
  Contains <- MCContains
  Inputs <- MCInputs
  Known <- MCKnown
  Databases <- MCDatabases
  RatedFile <- MCRatedFile
  TestFile <- MCTestFile
  NetworkFile <- MCNetworkFile
  StorageFile <- MCStorageFile
  BusyFile <- MCBusyFile
  Scans <- MCScans
  CertScores <- MCCertScores
  TopN = 2
  HighLimit = 1
  MediumLimit = 1
SPECIFICATION DataSpec
INVARIANTS
  CountsAddUp
  EarlierEntriesChooseFirst
  AtLeastHalf
  AssessmentIsSound
  NamesFindTheLast
  ArgumentsFollowExecution
