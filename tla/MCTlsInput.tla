----------------------------- MODULE MCTlsInput -----------------------------
(***************************************************************************)
(* TlsInput for TLC: a two-byte ClientHello (so it can arrive in parts), a *)
(* one-byte Finished and one three-byte application record.  A read of the *)
(* network passes at most two bytes to rustls and rustls hands out at most *)
(* two plaintext bytes per read, so buckets are cut and plaintext is left  *)
(* in the session.                                                         *)
(***************************************************************************)
EXTENDS TlsInput

MCRecords == <<2, 1, 3>>

=============================================================================
