\* Both filters of one connection: three reads, two writes of a five-byte
\* response into a four-byte buffer, resets and engine errors.
CONSTANTS
    Records <- MCRecords
    MaxInRustls = 2
    ReadBufLen = 2
    EngineMayFail = TRUE
    ClientMayReset = TRUE
    ReadBytes = {1, 2}
    MaxCalls = 3
    PrefWrite = 2
    RustlsBufLimit = 8
    NResp = 5
    MaxBuckets = 2
    MaxBucketLen = 3
    MaxOutCalls = 2
SPECIFICATION SpecConn
INVARIANT BothDirectionsIntact
PROPERTY DoneIsFinal
PROPERTY ConnectionStreams
