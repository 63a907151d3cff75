SPECIFICATION FairSpec
CONSTANTS
    DefaultBuf = 4
    Entries <- MCEntries
    Batch = 2
    HashChunk = 2
    MinBlock = 1
    Refusals = {"FAILURE"}
    ReadAheads = 2
    MaxRequest = 3
    MaxReqs = 1
    Scenarios <- MCScenarios
INVARIANTS  LinesFaithful WriteLanded ListComplete HandlesSound
PROPERTIES OwnOutcome CallEnds
CHECK_DEADLOCK FALSE
