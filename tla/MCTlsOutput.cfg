\* The output filter with rustls' buffer limit equal to fout_max_in_rustls,
\* six response bytes in up to three calls, the input side aborting.
CONSTANTS
    Records <- MCRecords
    MaxInRustls = 2
    ReadBufLen = 2
    EngineMayFail = TRUE
    ClientMayReset = TRUE
    PrefWrite = 1
    RustlsBufLimit = 4
    NResp = 6
    MaxBuckets = 2
    MaxBucketLen = 3
    MaxOutCalls = 3
SPECIFICATION SpecOut
INVARIANT TypeOKOut
INVARIANT NoPlaintextOnWire
INVARIANT ResponseIntact
PROPERTY OutputCallReturns
