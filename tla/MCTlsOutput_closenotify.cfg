\* EOC after a short data bucket: close_notify is queued before the data
\* still in fout_buf_plain goes to rustls.
CONSTANTS
    Records <- MCRecords
    MaxInRustls = 2
    ReadBufLen = 2
    EngineMayFail = FALSE
    ClientMayReset = FALSE
    PrefWrite = 1
    RustlsBufLimit = 4
    NResp = 2
    MaxBuckets = 2
    MaxBucketLen = 1
    MaxOutCalls = 2
SPECIFICATION SpecOut
INVARIANT CloseNotifyLast
