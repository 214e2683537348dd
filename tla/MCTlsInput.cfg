\* Input path with hook_connection's blocking INIT read.
CONSTANTS
    Records <- MCRecords
    MaxInRustls = 2
    ReadBufLen = 2
    EngineMayFail = TRUE
    ClientMayReset = TRUE
    ReadBytes = {1, 2}
    MaxCalls = 4

SPECIFICATION Spec

INVARIANT TypeOK
INVARIANT ReplayIntact
INVARIANT PlaintextInOrder
 
PROPERTY AbortIsFinal
PROPERTY HandshakeEnds
PROPERTY CallReturnsUnlessClientSilent
