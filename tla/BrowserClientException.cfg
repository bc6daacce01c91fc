CONSTANTS
  MaxActions = 1
  Kinds = {"read", "click", "back"}
  InputSent = {FALSE}
  Faults = {}
SPECIFICATION Spec
INVARIANT ExceptionMeansFailed
