SPECIFICATION Spec
CONSTANTS
    Main = Main
    Globals = g
    Registry = g
    Tables = {g, t}
    Keyed = {}
    Udatas = {u}
    Finalizable = {u}
    Strings = {s}
    Nil = Nil
    MaxStack = 2
INVARIANTS
    TypeOK
    NoDangling
    TriColour
    ListsDisjoint
    FinalizedOnce
PROPERTIES
    FinalizedFirst
