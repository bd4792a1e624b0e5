CONSTANTS
  Length = 6
  Letters = {"dquote", "squote", "newline", "backslash", "call", "/", "*"}
  Texts <- MCTexts
  Ext <- MCExt
  Lower <- MCLower
  Roots <- MCRoots
  Kinds <- MCKinds
  CertFile = {"c1", "c2"}
  Bundles <- MCBundles
SPECIFICATION Spec
INVARIANTS
  PlacesKept
  ExactOnPlainText
  OnlyLiteralsMislead
  InventoryIsTheTree
  ReportIsEveryFilesHead
CHECK_DEADLOCK FALSE
