--------------------------- MODULE MCTlsConnection ---------------------------
(***************************************************************************)
(* TlsConnection for TLC: a one-byte ClientHello, a one-byte Finished and  *)
(* one two-byte application record (the request); a three-byte response.  *)
(***************************************************************************)
EXTENDS TlsConnection

MCRecords == <<1, 1, 2>>

=============================================================================
