\* TLSListen on A1: s2 listens on A2, the same port and length.
CONSTANTS
    s1 = s1  s2 = s2  s3 = s3  s4 = s4  c1 = c1  c2 = c2  c3 = c3  c4 = c4  c5 = c5
    ServerList <- MCServerList
    ServerAddrs <- MCServerAddrs
    Protocol <- MCProtocol
    EnabledConf <- MCEnabledConf
    HasCert <- MCHasCert
    InitMayFail = TRUE
    Conns = {c1, c2, c3, c4, c5}
    ConnServer <- MCConnServer
    IsSecondary <- MCIsSecondary
    ConnDisabled <- MCConnDisabled
    TlsAddresses <- MCTlsListen
SPECIFICATION Spec
INVARIANT EnabledAsConfigured
