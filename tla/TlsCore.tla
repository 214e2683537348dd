------------------------------- MODULE TlsCore -------------------------------
(***************************************************************************)
(* Server enablement and connection setup (tls_core.c, mod_tls.c):         *)
(* tls_post_config runs tls_core_init once for httpd's configuration dry   *)
(* run and once for real.  In between httpd clears its configuration      *)
(* pool, whose cleanup tls_core_free frees the rustls configs of the dry   *)
(* run, and reads the configuration anew; it clears the pool again when it *)
(* exits after a failed run or shuts down.  Then                           *)
(* connections arrive and hook_pre_connection decides whether to take      *)
(* them, installing the filters through tls_filter_conn_init.              *)
(*                                                                         *)
(* An address is a record [port, len, ip]: host_port, ipaddr_len and the   *)
(* bytes at ipaddr_ptr.  A server's sc->enabled starts as configured       *)
(* ("unset", "on", "off"); tls_core_init turns it into "on" or "off".      *)
(***************************************************************************)
EXTENDS Naturals, Sequences, FiniteSets

CONSTANTS
    ServerList,     \* base_server and its virtual hosts, in s->next order
    ServerAddrs,    \* s -> the set of addresses in s->addrs
    TlsAddresses,   \* gc->tls_addresses (TLSListen); {} when not configured
    Protocol,       \* s -> ap_get_server_protocol(s)
    EnabledConf,    \* s -> sc->enabled as read from the configuration
    HasCert,        \* s -> sc->certificates->nelts > 0
    InitMayFail,    \* whether rustls and certificate loading may fail
    Conns,          \* connections accepted after startup
    ConnServer,     \* c -> c->base_server
    IsSecondary,    \* c -> c->master != NULL
    ConnDisabled    \* c -> a tls_conf_conn_t with flag_disabled was attached

Servers == {ServerList[i] : i \in DOMAIN ServerList}

\* The ways the second loop of tls_core_init can leave a server: builder_new
\* NULL, tls_util_load_pem failing, set_single_cert_pem failing, build NULL.
FailKinds == IF InitMayFail THEN {"none", "builder", "pem", "cert", "build"} ELSE {"none"}

VARIABLES
    initKey,        \* "mod_tls_init_counter" in the process pool
    runs,           \* how often tls_post_config ran
    enabled,        \* s -> sc->enabled
    rustlsConfig,   \* the servers whose sc->rustls_config is set
    initRv,         \* what the last tls_core_init returned
    handled,        \* connections hook_pre_connection ran for
    asserted,       \* an ap_assert failed: the child process aborted
    pconf,          \* the configuration pool: "read", "run" (post_config ran), "gone"
    cleanupReg,     \* tls_core_free is registered on pconf
    cfgLive         \* rustls configs allocated and not freed: <<run, server>>

vars == <<initKey, runs, enabled, rustlsConfig, initRv, handled, asserted,
          pconf, cleanupReg, cfgLive>>

-----------------------------------------------------------------------------
(***************************************************************************)
(* we_listen_on: some TLSListen address la matches some address sa of s.   *)
(* The memcmp compares la's address bytes with themselves, so the bytes of *)
(* sa play no part.                                                        *)
(***************************************************************************)
WeListenOn(s) ==
    \E la \in TlsAddresses, sa \in ServerAddrs[s] :
        /\ la.port = sa.port
        /\ la.len = sa.len
        /\ la.ip = la.ip

\* (mutant) a server left unset without https stays unset.
EnabledFlagNoFallback(s) ==
    IF TlsAddresses # {} THEN IF WeListenOn(s) THEN "on" ELSE "off"
    ELSE IF EnabledConf[s] = "unset" /\ Protocol[s] = "https" THEN "on"
    ELSE EnabledConf[s]

\* (mutant) an https server is enabled even when configured off.
EnabledFlagIgnoresConf(s) ==
    IF TlsAddresses # {} THEN IF WeListenOn(s) THEN "on" ELSE "off"
    ELSE IF Protocol[s] = "https" THEN "on"
    ELSE IF EnabledConf[s] = "unset" THEN "off" ELSE EnabledConf[s]

\* The first loop of tls_core_init: sc->enabled from TLSListen, else from
\* the https protocol when unset, and disabled when still unset.
EnabledFlag(s) ==
    IF TlsAddresses # {} THEN IF WeListenOn(s) THEN "on" ELSE "off"
    ELSE IF EnabledConf[s] = "unset" /\ Protocol[s] = "https" THEN "on"
    ELSE IF EnabledConf[s] = "unset" THEN "off" ELSE EnabledConf[s]

(***************************************************************************)
(* The second loop of tls_core_init from server i on, with the enabled     *)
(* flags en, the failures fail and the status rv so far: it builds a       *)
(* rustls config for every enabled server and stops at the first failure,  *)
(* returning rv as it then is.  rv starts as APR_ENOMEM and becomes the    *)
(* status of tls_util_load_pem.  Results are [cfg, rv].                    *)
(***************************************************************************)
RECURSIVE BuildConfigs(_, _, _, _, _)
BuildConfigs(i, en, fail, cfg, rv) ==
    IF i > Len(ServerList) THEN [cfg |-> cfg, rv |-> "SUCCESS"]
    ELSE LET s   == ServerList[i]
             rv1 == IF HasCert[s] THEN "SUCCESS" ELSE rv
         IN  CASE en[s] # "on"                      -> BuildConfigs(i + 1, en, fail, cfg, rv)
               [] fail[s] = "builder"               -> [cfg |-> cfg, rv |-> rv]
               [] HasCert[s] /\ fail[s] = "pem"     -> [cfg |-> cfg, rv |-> "EPEM"]
               [] HasCert[s] /\ fail[s] = "cert"    -> [cfg |-> cfg, rv |-> "ERUSTLS"]
               [] fail[s] = "build"                 -> [cfg |-> cfg, rv |-> rv1]
               [] OTHER -> BuildConfigs(i + 1, en, fail, cfg \cup {s}, rv1)

(***************************************************************************)
(* tls_core_init with the failures fail: tls_core_free is registered on    *)
(* pconf before anything is built, then the two loops run.                 *)
(***************************************************************************)
TlsCoreInit(fail) ==
    LET en == [s \in Servers |-> EnabledFlag(s)]
        r  == BuildConfigs(1, en, fail, {}, "ENOMEM")
    IN  [en |-> en, cfg |-> r.cfg, rv |-> r.rv, cleanup |-> TRUE]

\* (mutant) the loop starts at base_server->next.
TlsCoreFreeSkipBase(live, n, held) == live \ {<<n, s>> : s \in held \ {ServerList[1]}}

\* tls_core_free: for every server of the configuration, free the rustls
\* config it holds (built by run n) and set it NULL.
TlsCoreFree(live, n, held) == live \ {<<n, s>> : s \in held}

-----------------------------------------------------------------------------
Init ==
    /\ initKey = FALSE /\ runs = 0
    /\ enabled = EnabledConf /\ rustlsConfig = {} /\ initRv = "NONE"
    /\ handled = {} /\ asserted = FALSE
    /\ pconf = "read" /\ cleanupReg = FALSE /\ cfgLive = {}

(***************************************************************************)
(* tls_post_config: the first run is the dry run and sets the init key;    *)
(* either run is tls_core_init on a configuration read anew, the previous  *)
(* run's configs freed by tls_core_free.  httpd stops when it fails.       *)
(***************************************************************************)
PostConfig ==
    /\ pconf = "read" /\ runs < 2
    /\ initKey' = TRUE
    /\ runs' = runs + 1
    /\ \E fail \in [Servers -> FailKinds] :
         LET r == TlsCoreInit(fail)
         IN  /\ enabled' = r.en /\ rustlsConfig' = r.cfg /\ initRv' = r.rv
             /\ cleanupReg' = (cleanupReg \/ r.cleanup)
             /\ cfgLive' = cfgLive \cup {<<runs + 1, s>> : s \in r.cfg}
    /\ pconf' = "run"
    /\ UNCHANGED <<handled, asserted>>

(***************************************************************************)
(* httpd clears the configuration pool, running its cleanups: after a      *)
(* successful dry run, to read the configuration anew (every sc fresh, no  *)
(* rustls config, enabled as configured); after a failed run, when it      *)
(* exits; after the real run, at shutdown once the connections were served *)
(* or a child aborted.                                                     *)
(***************************************************************************)
ClearConfigPool ==
    /\ pconf = "run"
    /\ runs = 2 /\ initRv = "SUCCESS" => handled = Conns \/ asserted
    /\ cfgLive' = IF cleanupReg THEN TlsCoreFree(cfgLive, runs, rustlsConfig) ELSE cfgLive
    /\ cleanupReg' = FALSE /\ rustlsConfig' = {}
    /\ IF runs = 1 /\ initRv = "SUCCESS"
       THEN pconf' = "read" /\ enabled' = EnabledConf
       ELSE pconf' = "gone" /\ UNCHANGED enabled
    /\ UNCHANGED <<initKey, runs, initRv, handled, asserted>>

\* tls_core_conn_init: OK when c's server is enabled.  The tls_conf_conn_t
\* it allocates stays in a local variable: nothing attaches it to c.
TlsCoreConnInit(c) == IF enabled[ConnServer[c]] = "on" THEN "OK" ELSE "DECLINED"

(***************************************************************************)
(* hook_pre_connection: declined for a secondary connection, for one that  *)
(* was disabled, and when tls_core_conn_init declines (the server is not   *)
(* enabled).  Otherwise tls_filter_conn_init asserts that a                *)
(* tls_conf_conn_t with a rustls session is attached to c: the one         *)
(* tls_core_conn_init allocates is never attached, and no session is made. *)
(***************************************************************************)
PreConnection(c) ==
    /\ runs = 2 /\ pconf = "run" /\ initRv = "SUCCESS" /\ ~asserted /\ c \notin handled
    /\ handled' = handled \cup {c}
    /\ IF IsSecondary[c] \/ ConnDisabled[c] \/ TlsCoreConnInit(c) # "OK"
       THEN UNCHANGED asserted
       ELSE asserted' = TRUE
    /\ UNCHANGED <<initKey, runs, enabled, rustlsConfig, initRv, pconf, cleanupReg, cfgLive>>

\* httpd exited: startup failed, or it shut down.
Stopped == pconf = "gone" /\ UNCHANGED vars

Next == PostConfig \/ ClearConfigPool \/ (\E c \in Conns : PreConnection(c)) \/ Stopped

Spec == Init /\ [][Next]_vars

-----------------------------------------------------------------------------
TypeOK ==
    /\ initKey \in BOOLEAN /\ runs \in 0..2
    /\ enabled \in [Servers -> IF pconf = "read" THEN {"unset", "on", "off"} ELSE {"on", "off"}]
    /\ rustlsConfig \subseteq Servers
    /\ initRv \in {"NONE", "SUCCESS", "ENOMEM", "EPEM", "ERUSTLS"}
    /\ handled \subseteq Conns /\ asserted \in BOOLEAN
    /\ pconf \in {"read", "run", "gone"} /\ cleanupReg \in BOOLEAN
    /\ cfgLive \subseteq (1..2) \X Servers

\* An address of s equals a TLSListen address in port, length and bytes.
ListensOn(s) == \E la \in TlsAddresses : la \in ServerAddrs[s]

(***************************************************************************)
(* After tls_core_init, a server is enabled exactly when it listens on a   *)
(* TLSListen address, or, without TLSListen, when it is configured on or   *)
(* left unset with protocol https (the two loops of tls_core_init and      *)
(* we_listen_on).                                                          *)
(***************************************************************************)
EnabledAsConfigured ==
    pconf = "run" =>
        \A s \in Servers :
            enabled[s] = "on" <=>
                IF TlsAddresses # {} THEN ListensOn(s)
                ELSE EnabledConf[s] = "on" \/ (EnabledConf[s] = "unset" /\ Protocol[s] = "https")

(***************************************************************************)
(* When tls_core_init reports success, every enabled server has its rustls *)
(* config, so connections to it can get a session.                         *)
(***************************************************************************)
InitSuccessMeansConfigured ==
    pconf = "run" /\ initRv = "SUCCESS" => \A s \in Servers : enabled[s] = "on" => s \in rustlsConfig

(***************************************************************************)
(* A connection hook_pre_connection takes on never aborts the child: the   *)
(* asserts of tls_filter_conn_init hold.                                   *)
(***************************************************************************)
NoAssertFailure == ~asserted

(***************************************************************************)
(* No rustls config leaks across configuration reloads or exits, and none  *)
(* is freed while a server still holds it: the configs allocated and not  *)
(* freed are exactly those the servers of the current configuration hold, *)
(* built by the last run (tls_core_free registered on pconf before the     *)
(* loops, also when a later server fails).                                 *)
(***************************************************************************)
ConfigsFreedWithPool == cfgLive = {<<runs, s>> : s \in rustlsConfig}

=============================================================================
