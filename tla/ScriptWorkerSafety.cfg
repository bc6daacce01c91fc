CONSTANT MaxStarts = 3
SPECIFICATION FairSpec
INVARIANTS
  TypeOK
  StateMeansIdle
  HandlesOutliveThread
  ReleasedOnce
  DeletedAlone
  CleanStart
PROPERTIES
  ClickEnds
  StopEnds
  StartTaken
