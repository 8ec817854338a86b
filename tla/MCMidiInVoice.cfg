CONSTANTS
  Numbers = {1, 2}
  Msgs = {note, noteCh2, clock}
  Kept = {note}
  Voice = {note, noteCh2}
  DevBlocks = {d1, d2}
  EvBlocks = {e1, e2, e3}
  NULL = NULL
  NoEvent = NoEvent
SPECIFICATION Spec
CHECK_DEADLOCK FALSE
INVARIANTS
  SavesVoice
