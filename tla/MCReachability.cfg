CONSTANTS
  m = m
  f1 = f1
  f2 = f2
  g = g
  MainName = "main"
  Def <- MCDef
  Name <- MCName
  Qual <- MCQual
  Simple <- MCSimple
  Line <- MCLine
  CallSets <- MCCalls
  Linkages = {"external", "static"}
SPECIFICATION FairSpec
INVARIANTS
  TypeOK
  SearchInvariant
PROPERTIES
  ReachRefinesAbstract
  SearchTerminates
