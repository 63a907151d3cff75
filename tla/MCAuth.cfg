SPECIFICATION FairSpec
CONSTANTS
    Flavours = {"Transport", "ServiceRequesting", "Foreign"}
    me = me
    you = you
    Me = me
    Usernames = {me, you}
    AllowedAuths <- MCAllowed
    HasBanner = TRUE
    Delayed = TRUE
    MaxAttempts = 3
    MaxFailures = 2
    MaxQueries = 1
    Programs <- MCPrograms
INVARIANTS OwnVerdict OutcomeHonest AnswerWakesCaller CompressionInStep
PROPERTIES OneUser CallEndsOrPolls
CHECK_DEADLOCK FALSE
