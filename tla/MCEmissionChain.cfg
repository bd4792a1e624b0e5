CONSTANTS
  Fn <- MCFn
  Callee <- MCCallee
  Keys <- MCKeys
  Db <- MCDb
  Programs <- MCPrograms
  Field0 <- MCField0
  MaxDepth = 8
SPECIFICATION Spec
INVARIANT ChainsWithinLimitFollowed
