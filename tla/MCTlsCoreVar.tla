----------------------------- MODULE MCTlsCoreVar -----------------------------
(***************************************************************************)
(* The server side by side with the variables of its connections: TlsCore  *)
(* as in MCTlsCore, and TlsVar over four connections.  v1 is a connection  *)
(* mod_tls handshakes, v2 an HTTP/2 stream on it (no tls_conf_conn_t of    *)
(* its own), v3 one mod_tls ignores, v4 one without a tls_conf_conn_t.     *)
(* r1 is a request on v1, r2 on the stream v2, r3 on v3, r4 on v4.         *)
(***************************************************************************)
EXTENDS MCTlsCore, TlsVar

CONSTANTS v1, v2, v3, v4, r1, r2, r3, r4

MCVarConns == {v1, v2, v3, v4}
MCMaster   == [c \in MCVarConns |-> IF c = v2 THEN v1 ELSE c]
MCConnConf == [c \in MCVarConns |-> CASE c = v1 -> "tls" [] c = v3 -> "ignored" [] OTHER -> "none"]
MCRequests == {r1, r2, r3, r4}
MCReqConn  == [r \in MCRequests |-> CASE r = r1 -> v1 [] r = r2 -> v2 [] r = r3 -> v3 [] OTHER -> v4]

\* Startup and the connections' variables, their steps interleaved.
InitCoreVar == Init /\ InitVar

SpecCoreVar ==
    /\ InitCoreVar
    /\ [][(Next /\ UNCHANGED varVars) \/ (NextVar /\ UNCHANGED vars)]_<<vars, varVars>>

=============================================================================
