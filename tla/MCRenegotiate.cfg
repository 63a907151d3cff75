SPECIFICATION Spec
CONSTANTS
    uc = uc
    us = us
    Users = {uc, us}
    SideOf <- MCSideOf
    MaxMessages = 2
    OverflowMax = 8
    Never = 99
    Setups <- AtOnce
INVARIANT RenegotiateWhenever
CHECK_DEADLOCK FALSE
