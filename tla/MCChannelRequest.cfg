SPECIFICATION FairSpec
CONSTANTS
    c1 = c1
    c2 = c2
    s1 = s1
    s2 = s2
    Users = {c1, s2}
    SideOf <- MCSideOf
    Menu <- RequestMenu
    MaxCalls <- CloseCalls
    Timed = {}
    Mortal = {}
    Window = 1
    MaxPayload = 1
    SendSizes = {2}
    ReadSizes = {1}
PROPERTIES RequestEnds
CHECK_DEADLOCK FALSE
