SPECIFICATION FairSpec
CONSTANTS
    Main = Main
    Globals = g
    Registry = g
    Tables = {g, t}
    Keyed = {t}
    Udatas = {u}
    Finalizable = {u}
    Strings = {}
    Nil = Nil
    MaxStack = 2
PROPERTIES
    GarbageFreed
