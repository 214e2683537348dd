\* A primary connection to the enabled server s1.
CONSTANTS
    s1 = s1  s2 = s2  s3 = s3  s4 = s4  c1 = c1  c2 = c2  c3 = c3  c4 = c4  c5 = c5
    ServerList <- MCServerList
    ServerAddrs <- MCServerAddrs
    Protocol <- MCProtocol
    EnabledConf <- MCEnabledConf
    HasCert <- MCHasCert
    InitMayFail = TRUE
    Conns = {c1, c2, c3, c4, c5}
    ConnServer <- MCConnServer
    IsSecondary <- MCIsSecondary
    ConnDisabled <- MCConnDisabled
    TlsAddresses = {}
SPECIFICATION Spec
INVARIANT NoAssertFailure
