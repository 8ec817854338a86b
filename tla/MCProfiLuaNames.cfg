CONSTANTS
  NULL = NULL
  UcharSize = 5
  NPUser = 2
  NMarkers = 3
  Scripts <- MCScripts
SPECIFICATION Spec
INVARIANT NamesComeBack
