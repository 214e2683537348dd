--------------------------- MODULE TlsFilterCore ---------------------------
(***************************************************************************)
(* State of one TLS connection of mod_tls (tls_conf_conn_t and the filter  *)
(* context tls_filter_ctx_t of src/src/tls_filter.c), its peer, and the    *)
(* helpers both connection filters call: read_tls_to_rustls,               *)
(* brigade_tls_from_rustls, write_all_tls_from_rustls,                     *)
(* flush_tls_from_rustls and filter_abort.                                 *)
(*                                                                         *)
(* Data abstraction.  The client's TLS byte stream is the sequence of byte *)
(* ids 1..NBytes, cut into TLS records of the lengths in Records: record 1 *)
(* is the ClientHello, record 2 the rest of the client's handshake         *)
(* (Finished), the others carry application data.  Decryption maps a byte *)
(* of an application record to the plaintext byte with the same id.       *)
(*                                                                         *)
(* The helpers are written as functions from a snapshot of the connection  *)
(* (a record with one field per variable they touch) to the set of        *)
(* outcomes [ctx, rv] they may produce, so that an action composes them in *)
(* the order the C code calls them and commits the final snapshot.         *)
(***************************************************************************)
EXTENDS Naturals, Sequences, SequencesExt, FiniteSetsExt, Functions

CONSTANTS
    Records,        \* lengths of the client's TLS records, in order
    MaxInRustls,    \* fctx->fin_max_in_rustls: len given to read_tls_to_rustls
    ReadBufLen,     \* APR_BUCKET_BUFF_SIZE: plaintext per rustls_server_session_read
    EngineMayFail,  \* whether rustls may reject what the client sent
    ClientMayReset  \* whether the peer may reset the TCP connection

ASSUME /\ Records \in Seq(Nat \ {0}) /\ Len(Records) >= 3
       /\ MaxInRustls \in Nat \ {0} /\ ReadBufLen \in Nat \ {0}
       /\ EngineMayFail \in BOOLEAN /\ ClientMayReset \in BOOLEAN

\* End (last byte id) of the client's i-th record.
RecEnd(i) == SumFunction(SubSeq(Records, 1, i))

NBytes   == RecEnd(Len(Records))
HelloEnd == RecEnd(1)
HsEnd    == RecEnd(2)
Stream   == [i \in 1..NBytes |-> i]
AppStream == [i \in 1..(NBytes - HsEnd) |-> HsEnd + i]

\* The end of the last complete record among the first k bytes.
Complete(k) == Max({0} \cup {RecEnd(i) : i \in {j \in 1..Len(Records) : RecEnd(j) <= k}})

\* An EOS bucket in a brigade (byte ids start at 1).
EOS == 0

(***************************************************************************)
(* Items of the server's output, as buckets of fout_tls_bb and on the      *)
(* wire: the handshake flight, the close_notify alert, the encryption of   *)
(* response byte b ("app"), response byte b unencrypted ("plain"), and the *)
(* metadata buckets FLUSH and EOC.  Every item is a record, so that items  *)
(* of different kinds compare.                                             *)
(***************************************************************************)
ItemKinds == {"flight", "close_notify", "app", "plain", "FLUSH", "EOC"}
Items     == [k : ItemKinds, b : Nat]
Item(k)     == [k |-> k, b |-> 0]
AppItem(j)  == [k |-> "app", b |-> j]

States == {"PRE_HANDSHAKE", "HANDSHAKE", "TRAFFIC", "NOTIFIED", "DONE"}

-----------------------------------------------------------------------------
(***************************************************************************)
(* The rustls server session (external, crustls).  pre marks the           *)
(* provisional session used only to read the ClientHello; fed is every     *)
(* byte given to rustls_server_session_read_tls, proc the bytes handled by *)
(* process_new_packets, nread the plaintext bytes taken out with           *)
(* rustls_server_session_read, out the TLS output not yet taken with       *)
(* rustls_server_session_write_tls.                                        *)
(***************************************************************************)
NewSession(isPre) ==
    [pre |-> isPre, fed |-> <<>>, proc |-> 0, nread |-> 0, out |-> <<>>, flight |-> FALSE]

Sessions == [pre : BOOLEAN, fed : Seq(1..NBytes), proc : 0..NBytes,
             nread : 0..NBytes, out : Seq(Items), flight : BOOLEAN]

Handshaking(s) == s.pre \/ s.proc < HsEnd
WantsWrite(s)  == s.out # <<>>
\* Decrypted bytes waiting inside the session.
Plain(s) == IF s.pre \/ s.proc <= HsEnd THEN 0 ELSE s.proc - HsEnd - s.nread

\* rustls_server_session_process_new_packets: every complete record is
\* handled; once the ClientHello is handled the real session queues its
\* flight, the provisional one calls the hello callback (which sets
\* cc->client_hello_seen) and may then fail.  Bytes
\* that are not the client's stream make it fail.
Process(s) ==
    LET n    == Complete(Len(s.fed))
        fl   == ~s.pre /\ n >= HelloEnd
        s2   == [s EXCEPT !.proc = n, !.flight = @ \/ fl,
                          !.out = IF fl /\ ~s.flight THEN Append(@, Item("flight")) ELSE @]
        hello == s.pre /\ n >= HelloEnd
    IN  IF ~IsPrefix(s.fed, Stream) THEN {[s |-> s, ok |-> FALSE, hello |-> FALSE]}
        ELSE {[s |-> s2, ok |-> ok, hello |-> hello] :
                ok \in IF EngineMayFail \/ hello THEN BOOLEAN ELSE {TRUE}}

-----------------------------------------------------------------------------
VARIABLES
    state,            \* cc->state
    aborted,          \* c->aborted
    sess,             \* cc->rustls_session
    helloSeen,        \* cc->client_hello_seen
    finBlock,         \* fctx->fin_block
    finTlsBB,         \* fctx->fin_tls_bb: TLS bytes (and EOS) not yet fed
    finBuf,           \* fctx->fin_tls_buffer_bb: bytes fed to the pre session
    hasBuf,           \* fctx->fin_tls_buffer_bb # NULL
    finPlainBB,       \* fctx->fin_plain_bb: decrypted bytes for the caller
    finBytesInRustls, \* fctx->fin_bytes_in_rustls > 0
    foutTlsBB,        \* fctx->fout_tls_bb: TLS output not yet passed down
    foutBytesInRustls,\* fctx->fout_bytes_in_rustls
    foutBytesInTlsBB, \* fctx->fout_bytes_in_tls_bb
    facts,            \* times tls_core_conn_post_handshake ran
    fault,            \* the process crashed (NULL dereference)
    taken,            \* client bytes taken from the network by the filter
    wire,             \* TLS output passed to the network, in order
    appIn,            \* plaintext consumed by the filters above
    sent,             \* client bytes put on the network
    peer              \* "open", "fin" (client closed) or "rst" (reset)

ctxVars == <<state, aborted, sess, helloSeen, finBlock, finTlsBB, finBuf, hasBuf,
             finPlainBB, finBytesInRustls, foutTlsBB, foutBytesInRustls,
             foutBytesInTlsBB, facts,
             fault, taken, wire, appIn>>
peerVars == <<sent, peer>>

\* The connection as a record, and the step that makes a record current.
Cur == [state |-> state, aborted |-> aborted, sess |-> sess, helloSeen |-> helloSeen,
        finBlock |-> finBlock, finTlsBB |-> finTlsBB, finBuf |-> finBuf,
        hasBuf |-> hasBuf, finPlainBB |-> finPlainBB,
        finBytesInRustls |-> finBytesInRustls, foutTlsBB |-> foutTlsBB,
        foutBytesInRustls |-> foutBytesInRustls,
        foutBytesInTlsBB |-> foutBytesInTlsBB, facts |-> facts,
        fault |-> fault, taken |-> taken, wire |-> wire, appIn |-> appIn]

Commit(c) ==
    /\ state' = c.state /\ aborted' = c.aborted /\ sess' = c.sess
    /\ helloSeen' = c.helloSeen /\ finBlock' = c.finBlock /\ finTlsBB' = c.finTlsBB
    /\ finBuf' = c.finBuf /\ hasBuf' = c.hasBuf /\ finPlainBB' = c.finPlainBB
    /\ finBytesInRustls' = c.finBytesInRustls /\ foutTlsBB' = c.foutTlsBB
    /\ foutBytesInRustls' = c.foutBytesInRustls
    /\ foutBytesInTlsBB' = c.foutBytesInTlsBB /\ facts' = c.facts
    /\ fault' = c.fault /\ taken' = c.taken /\ wire' = c.wire /\ appIn' = c.appIn

\* The data bytes of a brigade (without its EOS bucket).
Data(bb) == SelectSeq(bb, LAMBDA b : b # EOS)

-----------------------------------------------------------------------------
(***************************************************************************)
(* The network below the filters (httpd's core filters).  A READBYTES read *)
(* returns one bucket of 1..len of the bytes that arrived; with nothing    *)
(* arrived a non-blocking read returns an empty brigade and a blocking one *)
(* waits, or returns an EOS bucket once the client closed.  A reset        *)
(* connection fails reads, and fails writes and sets c->aborted.           *)
(***************************************************************************)
NetRead(c, len) ==
    CASE peer = "rst" -> {[ctx |-> c, rv |-> "ECONNRESET"]}
      [] sent > c.taken ->
            {[ctx |-> [c EXCEPT !.finTlsBB = [i \in 1..k |-> c.taken + i],
                                !.taken = c.taken + k], rv |-> "SUCCESS"] :
                k \in 1..Min({sent - c.taken, len})}
      [] ~c.finBlock -> {[ctx |-> c, rv |-> "SUCCESS"]}
      [] peer = "fin" -> {[ctx |-> [c EXCEPT !.finTlsBB = <<EOS>>], rv |-> "SUCCESS"]}
      [] OTHER -> {}

NetPass(c, items) ==
    IF peer = "rst" THEN [ctx |-> [c EXCEPT !.aborted = TRUE], rv |-> "ECONNRESET"]
    ELSE [ctx |-> [c EXCEPT !.wire = @ \o items], rv |-> "SUCCESS"]

(***************************************************************************)
(* read_tls_to_rustls(fctx, len): take buckets from fin_tls_bb (reading    *)
(* the network first when it is empty) and feed them to the session until  *)
(* len bytes were passed; rustls may take a bucket in parts, so the bytes  *)
(* passed are any count from len up to the end of the data.  Bytes fed to  *)
(* the provisional session are copied to fin_tls_buffer_bb.  An EOS bucket *)
(* cleans up fin_tls_buffer_bb, NULL after the pre-handshake, and ends the *)
(* read with APR_EOF, a success when bytes were passed, in which case      *)
(* process_new_packets is skipped.  A non-blocking read passing nothing is *)
(* APR_EAGAIN.                                                             *)
(***************************************************************************)
\* (mutant) a non-blocking read that passes nothing is a success, not
\* APR_EAGAIN.
FeedOutcomesNoEagain(c, len) ==
    LET bb    == c.finTlsBB
        L     == Len(Data(bb))
        eos   == L < Len(bb)
    IN  { LET fedb   == SubSeq(bb, 1, p)
              c1     == [c EXCEPT !.finTlsBB = SubSeq(bb, p + 1, Len(bb)),
                                  !.sess.fed = @ \o fedb,
                                  !.finBuf = IF c.hasBuf THEN @ \o fedb ELSE @,
                                  !.finBytesInRustls = @ \/ p > 0]
              eosHit == eos /\ p < len
          IN  CASE eosHit /\ ~c.hasBuf -> {[ctx |-> [c1 EXCEPT !.fault = TRUE], rv |-> "CRASH"]}
                [] eosHit -> {[ctx |-> [c1 EXCEPT !.finBuf = <<>>],
                               rv |-> IF p > 0 THEN "SUCCESS" ELSE "EOF"]}
                [] p > 0  -> {[ctx |-> [c1 EXCEPT !.sess = r.s,
                                                  !.helloSeen = @ \/ r.hello],
                               rv |-> IF r.ok THEN "SUCCESS" ELSE "ECONNRESET"] :
                                r \in Process(c1.sess)}
                [] OTHER  -> {[ctx |-> c1, rv |-> "SUCCESS"]}
        : p \in IF L <= len THEN {L} ELSE len..L }

FeedOutcomes(c, len) ==
    LET bb    == c.finTlsBB
        L     == Len(Data(bb))
        eos   == L < Len(bb)
    IN  { LET fedb   == SubSeq(bb, 1, p)
              c1     == [c EXCEPT !.finTlsBB = SubSeq(bb, p + 1, Len(bb)),
                                  !.sess.fed = @ \o fedb,
                                  !.finBuf = IF c.hasBuf THEN @ \o fedb ELSE @,
                                  !.finBytesInRustls = @ \/ p > 0]
              eosHit == eos /\ p < len
          IN  CASE eosHit /\ ~c.hasBuf -> {[ctx |-> [c1 EXCEPT !.fault = TRUE], rv |-> "CRASH"]}
                [] eosHit -> {[ctx |-> [c1 EXCEPT !.finBuf = <<>>],
                               rv |-> IF p > 0 THEN "SUCCESS" ELSE "EOF"]}
                [] p > 0  -> {[ctx |-> [c1 EXCEPT !.sess = r.s,
                                                  !.helloSeen = @ \/ r.hello],
                               rv |-> IF r.ok THEN "SUCCESS" ELSE "ECONNRESET"] :
                                r \in Process(c1.sess)}
                [] OTHER  -> {[ctx |-> c1, rv |-> IF c.finBlock THEN "SUCCESS" ELSE "EAGAIN"]}
        : p \in IF L <= len THEN {L} ELSE len..L }

ReadTlsToRustls(c, len) ==
    IF c.finTlsBB # <<>> THEN UNION FeedOutcomes(c, len)
    ELSE UNION { IF g.rv = "SUCCESS" THEN UNION FeedOutcomes(g.ctx, len) ELSE {g} :
                 g \in NetRead(c, len) }

(***************************************************************************)
(* brigade_tls_from_rustls: while the session wants to write, take its TLS *)
(* output into fout_tls_bb, counting it in fout_bytes_in_tls_bb; then      *)
(* fout_bytes_in_rustls is 0.  (The size of each chunk is abstracted: the  *)
(* loop ends when the session has nothing left to write.)                 *)
(***************************************************************************)
BrigadeTlsFromRustls(c) ==
    IF WantsWrite(c.sess)
    THEN [c EXCEPT !.foutTlsBB = @ \o c.sess.out, !.sess.out = <<>>,
                   !.foutBytesInTlsBB = @ + Len(c.sess.out), !.foutBytesInRustls = 0]
    ELSE c

\* write_all_tls_from_rustls: pass fout_tls_bb down when it holds data;
\* a success on an aborted connection is APR_ECONNRESET.
WriteAllTlsFromRustls(c) ==
    LET b == BrigadeTlsFromRustls(c)
        r == NetPass([b EXCEPT !.foutTlsBB = <<>>, !.foutBytesInTlsBB = 0], b.foutTlsBB)
    IN  IF b.foutTlsBB = <<>> THEN [ctx |-> b, rv |-> "SUCCESS"]
        ELSE [r EXCEPT !.rv = IF @ = "SUCCESS" /\ r.ctx.aborted THEN "ECONNRESET" ELSE @]

\* flush_tls_from_rustls: pass fout_tls_bb down with a FLUSH bucket.
FlushTlsFromRustls(c) ==
    LET b == BrigadeTlsFromRustls(c)
    IN  NetPass([b EXCEPT !.foutTlsBB = <<>>, !.foutBytesInTlsBB = 0],
                Append(b.foutTlsBB, Item("FLUSH")))

\* (mutant) filter_abort without its DONE check.
FilterAbortUnguarded(c) ==
    [FlushTlsFromRustls([c EXCEPT !.sess.out = Append(@, Item("close_notify"))]).ctx
        EXCEPT !.aborted = TRUE, !.state = "DONE"]

\* filter_abort: unless DONE already, send close_notify, flush, and mark
\* the connection aborted and DONE.  Returns APR_ECONNABORTED.
FilterAbort(c) ==
    IF c.state # "DONE"
    THEN [FlushTlsFromRustls([c EXCEPT !.sess.out = Append(@, Item("close_notify"))]).ctx
            EXCEPT !.aborted = TRUE, !.state = "DONE"]
    ELSE c

=============================================================================
