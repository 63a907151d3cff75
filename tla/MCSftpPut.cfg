SPECIFICATION FairSpec
CONSTANTS
    DefaultBuf = 4
    Entries <- MCEntries
    Batch = 2
    HashChunk = 2
    MinBlock = 1
    Refusals = {"FAILURE"}
    ReadAheads = 2
    MaxRequest = 2
    MaxReqs = 3
    Scenarios <- MCPutters
INVARIANT PutHonest
CHECK_DEADLOCK FALSE
