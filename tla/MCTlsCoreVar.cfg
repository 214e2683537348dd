\* Enablement by protocol and configuration (no TLSListen), every failure
\* of the config build, then the connections; beside it the SSL_* variables
\* of a handshaking connection, a stream on it, an ignored one and one
\* without TLS.
CONSTANTS
    v1 = v1  v2 = v2  v3 = v3  v4 = v4  r1 = r1  r2 = r2  r3 = r3  r4 = r4
    s1 = s1  s2 = s2  s3 = s3  s4 = s4  c1 = c1  c2 = c2  c3 = c3  c4 = c4  c5 = c5
    ServerList <- MCServerList
    ServerAddrs <- MCServerAddrs
    Protocol <- MCProtocol
    EnabledConf <- MCEnabledConf
    HasCert <- MCHasCert
    InitMayFail = TRUE
    Conns = {c1, c2, c3, c4, c5}
    ConnServer <- MCConnServer
    IsSecondary <- MCIsSecondary
    ConnDisabled <- MCConnDisabled
    TlsAddresses = {}
    VarConns <- MCVarConns
    Master <- MCMaster
    ConnConf <- MCConnConf
    Requests <- MCRequests
    ReqConn <- MCReqConn
SPECIFICATION SpecCoreVar
INVARIANT TypeOK
INVARIANT EnabledAsConfigured
INVARIANT TypeOKVar
INVARIANT LookupSound
INVARIANT RequestEnvMatchesLookup
INVARIANT ConfigsFreedWithPool
