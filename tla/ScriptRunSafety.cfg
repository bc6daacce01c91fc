CONSTANTS
  Scripts <- MCScripts
  Lists <- MCLists
  MaxRetry = 1
  MaxCrashes = 1
SPECIFICATION FairSpec
INVARIANTS
  TypeOK
  OneBrowser
  ActsOnLocated
  AttemptsBounded
  LinksInOrder
  PagesSaved
PROPERTIES
  UrlWithFirst
  RunEnds
  StopEnds
  BrowsersEnd
