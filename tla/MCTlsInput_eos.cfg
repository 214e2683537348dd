\* The client closes its side after the handshake while a read blocks.
CONSTANTS
    Records <- MCRecords
    MaxInRustls = 2
    ReadBufLen = 2
    EngineMayFail = TRUE
    ClientMayReset = TRUE
    ReadBytes = {1, 2}
    MaxCalls = 4
SPECIFICATION Spec
INVARIANT NoNullBufferUse
