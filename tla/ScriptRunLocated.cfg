CONSTANTS
  Scripts <- MCScripts
  Lists <- MCLists
  MaxRetry = 1
  MaxCrashes = 1
SPECIFICATION Spec
INVARIANT AnswerLocated
