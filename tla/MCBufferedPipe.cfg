SPECIFICATION FairSpec
CONSTANTS
    Readers = {r1, r2}
    ChunkSizes = {0, 1, 2}
    ReadSizes = {1, 2}
    MaxFed = 3
INVARIANTS FifoIntegrity NoLostWakeup EventNeverMissed
PROPERTIES EofOnlyAtEnd CloseReleasesReaders
