SPECIFICATION FairSpec
CONSTANTS
    c1 = c1
    c2 = c2
    s1 = s1
    s2 = s2
    Users = {c1, c2, s2}
    SideOf <- MCSideOf
    Menu <- CloseMenu
    MaxCalls <- CloseCalls
    Timed = {c1}
    Mortal = {"server"}
    Window = 1
    MaxPayload = 1
    SendSizes = {2}
    ReadSizes = {1}
INVARIANTS RequestOutstanding OneEofOneClose
PROPERTIES CloseReleasesCallers CloseCompletes
CHECK_DEADLOCK FALSE
