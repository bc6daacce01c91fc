\* Three actions: one that ends in an exception, one whose answer may be
\* taken for that of another, and one after it.
CONSTANTS
  MaxActions = 3
  Kinds = {"read", "click", "back"}
  InputSent = {TRUE, FALSE}
  Faults = {"window_closed", "no_worker"}
SPECIFICATION FairSpec
INVARIANTS
  TypeOK
  HandledAlone
  OwnJobs
  AnswerMeansHandled
  OwnAnswer
PROPERTIES
  UsesQueue
  ActionAnswered
