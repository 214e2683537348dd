------------------------------- MODULE TlsVar -------------------------------
(***************************************************************************)
(* The SSL_* variables of a connection (src/src/tls_var.c).  A connection  *)
(* with a tls_conf_conn_t learns facts as its handshake goes on: the SNI   *)
(* host name while the ClientHello is sniffed, protocol, cipher and client *)
(* certificate when it completes.  tls_var_handshake_done then stores a    *)
(* table of the variables in cc->subprocess_env; tls_var_lookup answers    *)
(* from that table or from the live facts; tls_var_request_fixup copies    *)
(* the table into a request's environment.  A secondary connection (an     *)
(* HTTP/2 stream) has no tls_conf_conn_t of its own and uses its master's. *)
(*                                                                         *)
(* Values are abstracted: the value of variable n on connection c is       *)
(* <<c, n>>, NULL is <<>>, and the strings the code puts in are tuples of  *)
(* themselves.                                                             *)
(***************************************************************************)
EXTENDS FiniteSets, TLC

CONSTANTS
    VarConns,   \* connections whose variables are asked for
    Master,     \* c -> c->master ? c->master : c
    ConnConf,   \* c -> tls_conf_conn_get(c): "none", "ignored" (IGNORED) or "tls"
    Requests,   \* requests
    ReqConn     \* r -> r->connection

\* VAR_DEFS; TlsAlwaysVars lists the same four names.
VarDefs == {"SSL_PROTOCOL", "SSL_CIPHER", "SSL_TLS_SNI", "SSL_CLIENT_S_DN_CN"}
TlsAlwaysVars == VarDefs
\* The names asked for: HTTPS, which the table holds but VAR_DEFS lacks, and
\* any other name.
Names == VarDefs \cup {"HTTPS", "OTHER"}

NULL == <<>>
On == <<"on">>
NotImplemented == <<"Not Implemented">>
Values == {<<c, n>> : c \in VarConns, n \in VarDefs} \cup {On, NotImplemented}
\* An apr_table_t of these variables: names to non-empty values.
IsTable(t) == DOMAIN t \subseteq Names /\ \A n \in DOMAIN t : t[n] \in Values

VARIABLES
    fields,   \* c -> the facts of c's tls_conf_conn_t that are set
    env,      \* c -> cc->subprocess_env, when c is in envSet
    envSet,   \* connections whose cc->subprocess_env is not NULL
    hsDone,   \* connections whose handshake completed
    renv,     \* r -> r->subprocess_env
    fixedUp   \* requests tls_var_request_fixup ran for

varVars == <<fields, env, envSet, hsDone, renv, fixedUp>>

-----------------------------------------------------------------------------
\* The var_get_* function of n on the tls_conf_conn_t of c, with facts fl.
VarFn(fl, c, n) ==
    CASE n \notin fl[c]            -> NULL
      [] n = "SSL_CLIENT_S_DN_CN"  -> NotImplemented
      [] OTHER                     -> <<c, n>>

\* apr_table_get: the value of n in table t, NULL when absent.
TableGet(t, n) == IF n \in DOMAIN t THEN t[n] ELSE NULL

\* invoke: nothing without a tls_conf_conn_t or on an IGNORED one; else the
\* value in cc->subprocess_env if there is one, else the live fact.
Invoke(fl, n, cc) ==
    IF cc \in VarConns /\ ConnConf[cc] = "tls"
    THEN LET v == IF cc \in envSet THEN TableGet(env[cc], n) ELSE NULL
         IN  IF v # NULL THEN v ELSE VarFn(fl, cc, n)
    ELSE NULL

\* tls_conf_conn_get(c): c itself if it has a tls_conf_conn_t, else none.
ConnGet(c) == IF ConnConf[c] = "none" THEN "none" ELSE c

\* (mutant) the tls_conf_conn_t of c itself, not of its master.
TlsVarLookupNoMaster(c, n) ==
    IF n \in VarDefs THEN Invoke(fields, n, ConnGet(c)) ELSE NULL

\* tls_var_lookup: only names in VAR_DEFS, on the master's tls_conf_conn_t.
TlsVarLookup(c, n) ==
    IF n \in VarDefs THEN Invoke(fields, n, ConnGet(Master[c])) ELSE NULL

\* (mutant) set_var stores what invoke returned even when it is NULL.
SetVarsNoValueCheck(fl, cc, t, names) ==
    [n \in names |-> Invoke(fl, n, cc)] @@ t

\* set_var for each of names into table t: a variable is set, replacing an
\* entry, only when invoke gives a non-empty value.
SetVars(fl, cc, t, names) ==
    LET set == {n \in names : Invoke(fl, n, cc) # NULL}
    IN  [n \in set |-> Invoke(fl, n, cc)] @@ t

-----------------------------------------------------------------------------
InitVar ==
    /\ fields = [c \in VarConns |-> {}]
    /\ env = [c \in VarConns |-> NULL] /\ envSet = {} /\ hsDone = {}
    /\ renv = [r \in Requests |-> NULL] /\ fixedUp = {}

\* A connection whose handshake mod_tls runs: a primary one with a
\* tls_conf_conn_t that is not IGNORED.
Handshakes(c) == ConnConf[c] = "tls" /\ Master[c] = c

\* While the ClientHello is sniffed, cc->sni_hostname is set when the
\* client sent a server name.
Hello(c) ==
    /\ Handshakes(c) /\ c \notin hsDone /\ "SSL_TLS_SNI" \notin fields[c]
    /\ fields' = [fields EXCEPT ![c] = @ \cup {"SSL_TLS_SNI"}]
    /\ UNCHANGED <<env, envSet, hsDone, renv, fixedUp>>

(***************************************************************************)
(* tls_var_handshake_done(c) with facts fl: no table for an IGNORED       *)
(* connection; else HTTPS=on and every variable of TlsAlwaysVars set_var   *)
(* finds (invoke reads the table c had before).  The result is c's new     *)
(* cc->subprocess_env, or NULL.  Without a tls_conf_conn_t the code stores *)
(* through a NULL cc; its caller runs only on connections that have one.   *)
(***************************************************************************)
TlsVarHandshakeDone(fl, c) ==
    IF ConnConf[c] = "ignored" THEN NULL
    ELSE SetVars(fl, c, "HTTPS" :> On, TlsAlwaysVars)

(***************************************************************************)
(* The handshake completes: the negotiated protocol and cipher are set,    *)
(* and the client certificate if the client sent one; then                 *)
(* tls_var_handshake_done computes the variables.                          *)
(***************************************************************************)
PostHandshake(c) ==
    /\ Handshakes(c) /\ c \notin hsDone
    /\ \E cert \in BOOLEAN :
         LET fl == [fields EXCEPT ![c] = @ \cup {"SSL_PROTOCOL", "SSL_CIPHER"}
                                          \cup (IF cert THEN {"SSL_CLIENT_S_DN_CN"} ELSE {})]
             t  == TlsVarHandshakeDone(fl, c)
         IN  /\ fields' = fl
             /\ env' = [env EXCEPT ![c] = t]
             /\ envSet' = IF t = NULL THEN envSet \ {c} ELSE envSet \cup {c}
    /\ hsDone' = hsDone \cup {c}
    /\ UNCHANGED <<renv, fixedUp>>

(***************************************************************************)
(* tls_var_request_fixup(r): on the master's tls_conf_conn_t, unless there *)
(* is none or it is IGNORED, copy cc->subprocess_env into the request's    *)
(* environment, its entries replacing those of the same name.  With        *)
(* SSLOptions StdEnvVars set_var runs for each of StdEnvVars, which is     *)
(* empty.  A request on a connection mod_tls handshakes is read after the  *)
(* handshake.                                                              *)
(***************************************************************************)
\* (mutant) the tls_conf_conn_t of r->connection, not of its master.
RequestFixupNoMaster(r) ==
    LET cc == ConnGet(ReqConn[r])
    IN  /\ r \notin fixedUp
        /\ ConnConf[Master[ReqConn[r]]] = "tls" => Master[ReqConn[r]] \in hsDone
        /\ fixedUp' = fixedUp \cup {r}
        /\ renv' = IF cc # "none" /\ ConnConf[cc] = "tls" /\ cc \in envSet
                   THEN [renv EXCEPT ![r] = env[cc] @@ @] ELSE renv
        /\ UNCHANGED <<fields, env, envSet, hsDone>>

RequestFixup(r) ==
    LET cc == ConnGet(Master[ReqConn[r]])
    IN  /\ r \notin fixedUp
        /\ ConnConf[Master[ReqConn[r]]] = "tls" => Master[ReqConn[r]] \in hsDone
        /\ fixedUp' = fixedUp \cup {r}
        /\ renv' = IF cc # "none" /\ ConnConf[cc] = "tls" /\ cc \in envSet
                   THEN [renv EXCEPT ![r] = env[cc] @@ @] ELSE renv
        /\ UNCHANGED <<fields, env, envSet, hsDone>>

NextVar ==
    \/ \E c \in VarConns : Hello(c) \/ PostHandshake(c)
    \/ \E r \in Requests : RequestFixup(r)

SpecVar == InitVar /\ [][NextVar]_varVars

-----------------------------------------------------------------------------
TypeOKVar ==
    /\ fields \in [VarConns -> SUBSET VarDefs]
    /\ envSet \subseteq hsDone /\ hsDone \subseteq VarConns
    /\ \A c \in envSet : IsTable(env[c])
    /\ \A r \in Requests : IsTable(renv[r])
    /\ fixedUp \subseteq Requests

(***************************************************************************)
(* tls_var_lookup keeps the promise of the variable exporter: a known name *)
(* on a connection (or on a stream of one) that mod_tls serves gives the   *)
(* fact as it is now, whether it comes from the table stored at handshake  *)
(* completion or from the live field; any other lookup gives nothing.      *)
(***************************************************************************)
LookupSound ==
    \A c \in VarConns, n \in Names :
        TlsVarLookup(c, n) =
            IF n \in VarDefs /\ ConnConf[Master[c]] = "tls"
            THEN VarFn(fields, Master[c], n) ELSE NULL

(***************************************************************************)
(* A request's environment after tls_var_request_fixup agrees with         *)
(* tls_var_lookup on the request's connection: HTTPS is on, and every      *)
(* known variable is set exactly when the lookup finds it, to the same     *)
(* value (the table of tls_var_handshake_done against the live facts).    *)
(***************************************************************************)
RequestEnvMatchesLookup ==
    \A r \in fixedUp :
        LET m == Master[ReqConn[r]]
        IN  ConnConf[m] = "tls" =>
                /\ TableGet(renv[r], "HTTPS") = On
                /\ \A n \in VarDefs : TableGet(renv[r], n) = TlsVarLookup(ReqConn[r], n)

=============================================================================
