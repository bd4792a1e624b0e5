CONSTANTS
  w = w
  a = a
  b = b
  c = c
  f = f
  g = g
  NoValue = NoValue
  Placeholder = "unknown"
  MaxDepth = 2
  Method <- MCMethod
  Field <- MCField
  Value <- MCValue
  Programs <- MCPrograms
SPECIFICATION FairSpec
INVARIANTS
  TypeOK
  FieldsFollowExecution
  NothingInvented
PROPERTIES
  WalkEnds
