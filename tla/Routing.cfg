SPECIFICATION Spec
CONSTANTS
  EmptyLast = TRUE
  Rules <- RuleSet
  OtherSets <- OtherRoutes
  Methods = {"GET", "HEAD", "POST"}
  Paths <- RequestPaths
  MaxRules = 3
INVARIANTS DirectServesAsRouter AnswersMatch UrlOwned ConstrainedFirst OthersNotOvertaken
CHECK_DEADLOCK FALSE
