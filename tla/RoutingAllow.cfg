SPECIFICATION Spec
CONSTANTS
  EmptyLast = TRUE
  Rules <- RuleSet
  OtherSets <- OtherRoutes
  Methods = {"GET", "HEAD", "POST"}
  Paths <- RequestPaths
  MaxRules = 3
INVARIANT AllowComplete
CHECK_DEADLOCK FALSE
