CONSTANTS
    Nil = Nil
    Num = Num
    str = str
    g = g
    t1 = t1
    t2 = t2
    u1 = u1
    c1 = c1
    v1 = v1
    main = main
    co = co
    Tables = {g, t1, t2}
    Strings = {str}
    Udatas = {u1}
    Closures = {c1}
    UpVals = {v1}
    Threads = {main, co}
    Globals = g
    Main = main
    Slots = {1, 2}
    Worlds <- MCWorlds
SPECIFICATION Spec
INVARIANTS
    TypeOK
    NoDangling
    ColoursTell
    GarbageGoes
PROPERTIES
    FinalizedOnce
