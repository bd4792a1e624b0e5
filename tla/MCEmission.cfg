CONSTANTS
  a = a
  b = b
  c = c
  Fn <- MCFn
  Callee <- MCCallee
  Keys <- MCKeys
  Db <- MCDb
  Programs <- MCPrograms
  Field0 <- MCField0
  MaxDepth = 6
SPECIFICATION FairSpec
INVARIANTS
  ContextsAreRight
  EverySiteReported
  RiskFollowsReach
  ValueBeatsPlaceholder
PROPERTIES
  WalkTerminates
