SPECIFICATION FairSpec
CONSTANTS
    c1 = c1
    c2 = c2
    s1 = s1
    s2 = s2
    Users = {c1, c2, s1, s2}
    SideOf <- MCSideOf
    Menus <- Mixed
    Timed = {c2, s2}
    Mortal = {"server"}
    IdSpace = 2
INVARIANTS Paired NumbersKnown InStep NoLostAccept
PROPERTIES OpenEnds
CHECK_DEADLOCK FALSE
