SPECIFICATION Spec
CONSTANTS
    c1 = c1
    c2 = c2
    s1 = s1
    s2 = s2
    Users = {c1, c2, s1, s2}
    SideOf <- MCSideOf
    Menu <- DataMenu
    MaxCalls <- DataCalls
    Timed = {}
    Mortal = {}
    Window = 10
    MaxPayload = 8
    SendSizes = {12}
    ReadSizes = {1, 10}
INVARIANTS NoLostWindowWakeup NoCreditLost NoWindowStall
PROPERTIES ImplementsFlowControl
CHECK_DEADLOCK FALSE
