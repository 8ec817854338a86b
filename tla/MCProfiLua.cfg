CONSTANTS
  NULL = NULL
  UcharSize = 5
  NPUser = 2
  NMarkers = 3
  Scripts <- MCScripts
SPECIFICATION FairSpec
INVARIANTS
  TypeOK
  StateWhenNeeded
  ConformingRuns
  MarkersMatch
  StackSteady
  OutputsFresh
  ErrorPinFollows
  ConsoleMatches
  PUserAllOrNothing
PROPERTIES
  ErrorFreezesState
  ErrorReported
