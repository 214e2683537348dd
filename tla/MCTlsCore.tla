------------------------------ MODULE MCTlsCore ------------------------------
(***************************************************************************)
(* TlsCore for TLC: four servers and five connections.  s1 speaks https    *)
(* with its enablement unset and a certificate; s2 speaks https but is     *)
(* configured off; s3 speaks http, is left unset and has a certificate;   *)
(* s4 speaks https, is configured on and has none.  A1 and A2 are two IPv4 *)
(* addresses on port 443, A3 is A1 on port 80.  c1 is a primary connection *)
(* to s1, c2 a secondary one to s3, c3 goes to s2, c4 to s1 with mod_tls   *)
(* disabled on it by another module, c5 is a secondary one to s4.         *)
(***************************************************************************)
EXTENDS TlsCore

CONSTANTS s1, s2, s3, s4, c1, c2, c3, c4, c5

A1 == [port |-> 443, len |-> 4, ip |-> 1]
A2 == [port |-> 443, len |-> 4, ip |-> 2]
A3 == [port |-> 80, len |-> 4, ip |-> 1]

MCServerList   == <<s1, s2, s3, s4>>
MCServerAddrs  == [s \in {s1, s2, s3, s4} |-> CASE s = s1 -> {A1} [] s = s2 -> {A2} [] s = s3 -> {A3} [] s = s4 -> {A1}]
MCProtocol     == [s \in {s1, s2, s3, s4} |-> IF s = s3 THEN "http" ELSE "https"]
MCEnabledConf  == [s \in {s1, s2, s3, s4} |-> CASE s = s1 -> "unset" [] s = s2 -> "off" [] s = s3 -> "unset" [] s = s4 -> "on"]
MCHasCert      == [s \in {s1, s2, s3, s4} |-> s \in {s1, s3}]
MCConnServer   == [c \in {c1, c2, c3, c4, c5} |-> CASE c = c2 -> s3 [] c = c3 -> s2 [] c = c5 -> s4 [] OTHER -> s1]
MCIsSecondary  == [c \in {c1, c2, c3, c4, c5} |-> c \in {c2, c5}]
MCConnDisabled == [c \in {c1, c2, c3, c4, c5} |-> c = c4]

\* TLSListen on A1 only.
MCTlsListen == {A1}

=============================================================================
