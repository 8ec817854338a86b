CONSTANTS
  Numbers = {1, 2}
  Msgs = {note, bend, clock}
  Kept = {note, bend}
  Voice = {note, bend}
  DevBlocks = {d1, d2}
  EvBlocks = {e1, e2, e3}
  NULL = NULL
  NoEvent = NoEvent
SPECIFICATION Spec
SYMMETRY Blocks
CONSTRAINT Followed
INVARIANTS
  TypeOK
  StrayNeedsRace
  MemoryAccounted
PROPERTIES
  ImplementsQueue
  WalkShortens
