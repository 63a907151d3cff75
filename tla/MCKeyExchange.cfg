SPECIFICATION FairSpec
CONSTANTS
    uc = uc
    us = us
    Users = {uc, us}
    SideOf <- MCSideOf
    MaxMessages = 2
    OverflowMax = 8
    Never = 99
    Setups <- AllSetups
INVARIANTS SessionSurvives KeyAgreement SessionIdAgreed
PROPERTIES CounterNeverReused RenegotiateReturnsFresh SendersUnblocked
CHECK_DEADLOCK FALSE
