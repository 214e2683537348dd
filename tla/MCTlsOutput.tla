----------------------------- MODULE MCTlsOutput -----------------------------
(***************************************************************************)
(* TlsOutput for TLC, on the connection of MCTlsInput after its handshake: *)
(* TLS_PREF_WRITE_SIZE of one byte makes fout_buf_plain two bytes and the  *)
(* high-water mark fout_max_in_rustls four; data buckets of up to three    *)
(* bytes are split, copied or written directly, and rustls' limit of four *)
(* queued items makes it take part of a write.                            *)
(***************************************************************************)
EXTENDS TlsOutput

MCRecords == <<2, 1, 3>>

=============================================================================
