\* Plaintext left inside rustls after a read, between calls.
CONSTANTS
    Records <- MCRecords
    MaxInRustls = 2
    ReadBufLen = 2
    EngineMayFail = TRUE
    ClientMayReset = TRUE
    ReadBytes = {1, 2}
    MaxCalls = 4
SPECIFICATION Spec
INVARIANT InputPendingSound
