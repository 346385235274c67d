CONSTANTS
    f1 = f1  f2 = f2  a1 = a1  a2 = a2  c1 = c1
    None = None
    Finalizers = {f1, f2}
    Appends = {a1, a2}
    Chunks = {c1}
    ChunkOf <- SameChunk
    LeaseLen = 2
SPECIFICATION FairSpec
INVARIANTS CompletedMeansLanded PlainMeansUntouched ReviewKeepsChunks
PROPERTIES NoSecondWriter ImplementsUpload WritesUnderLease FrozenChunks EveryFinalizationSettles
