CONSTANTS
  None = None
  DefaultDb = "db"
  DefaultOutput = "report.json"
  DefaultCbom = "cbom.json"
  Sources = {1, 2}
  Path <- MCPath
  Inputs <- MCInputs
SPECIFICATION FairSpec
INVARIANTS
  ExitTellsOutput
PROPERTIES
  FilesWrittenLast
  RunEnds
