\* rustls' buffer limit below fout_max_in_rustls: rustls fills up before
\* the loop takes TLS out of it.
CONSTANTS
    Records <- MCRecords
    MaxInRustls = 2
    ReadBufLen = 2
    EngineMayFail = FALSE
    ClientMayReset = FALSE
    PrefWrite = 1
    RustlsBufLimit = 2
    NResp = 4
    MaxBuckets = 2
    MaxBucketLen = 2
    MaxOutCalls = 2
SPECIFICATION SpecOut
PROPERTY OutputCallReturns
