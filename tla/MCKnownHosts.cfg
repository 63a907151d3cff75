SPECIFICATION Spec
CONSTANTS
    p1 = p1
    p2 = p2
    alpha = alpha
    beta = beta
    Clients = {p1, p2}
    Names = {alpha, beta}
    NameLength <- MCNameLength
    Endings <- MCEndings
    ServerKeys <- MCServerKeys
    SystemLines <- MCSystemLines
    Files <- MCFiles
    Disabled <- MCDisabled
    Programs <- MCPrograms
    MaxRolls = 1
    MaxCrashes = 1
INVARIANTS TrustHasOrigin FirstUseSticks
PROPERTIES SavesMerge
CHECK_DEADLOCK FALSE
