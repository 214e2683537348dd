------------------------------ MODULE TlsOutput ------------------------------
(***************************************************************************)
(* The output side of a mod_tls connection after its handshake:            *)
(* filter_conn_output (src/src/tls_filter.c) takes the brigades the        *)
(* filters above write, collects small data buckets in the plaintext       *)
(* buffer fout_buf_plain, hands large ones to rustls directly, and passes  *)
(* the TLS rustls produces down to the network; a metadata bucket first    *)
(* drains the buffer and rustls, then follows the data; EOC sends          *)
(* close_notify.                                                           *)
(*                                                                         *)
(* One call is a sequence of steps, one per iteration of its bucket loop,  *)
(* since the client may reset the connection between the network writes.  *)
(* The response is the byte ids 1..NResp; the filters above write them in  *)
(* order, in brigades of at most MaxBuckets buckets.                       *)
(***************************************************************************)
EXTENDS TlsFilterCore

CONSTANTS
    PrefWrite,      \* TLS_PREF_WRITE_SIZE
    RustlsBufLimit, \* TLS bytes rustls queues before it accepts less plaintext
    NResp,          \* bytes of the response
    MaxBuckets,     \* buckets per brigade
    MaxBucketLen,   \* bytes per data bucket
    MaxOutCalls     \* bound on the number of filter_conn_output calls

ASSUME /\ PrefWrite \in Nat \ {0} /\ RustlsBufLimit \in Nat \ {0}
       /\ NResp \in Nat /\ MaxBuckets \in Nat \ {0}
       /\ MaxBucketLen \in Nat \ {0} /\ MaxOutCalls \in Nat \ {0}

\* fctx->fout_buf_plain_size.
BufSize == 2 * PrefWrite

\* fctx->fout_max_in_rustls: two buffers' worth of plaintext in rustls.
MaxOutInRustls == 2 * 2 * PrefWrite

VARIABLES
    pcOut,        \* "idle" or "loop": where the current output call is
    bb,           \* the buckets of its brigade not yet consumed
    foutBufPlain, \* fctx->fout_buf_plain[0 .. fout_buf_plain_len)
    nWritten,     \* response bytes the filters above have written
    outCalls,     \* filter_conn_output calls so far
    outErr,       \* some call returned a status other than APR_SUCCESS
    eocWritten    \* the EOC bucket was written

outVars == <<ctxVars, peerVars, pcOut, bb, foutBufPlain, nWritten, outCalls, outErr, eocWritten>>

\* A bucket: its kind and the response bytes it holds.
Bucket(k, d) == [k |-> k, d |-> d]
IsMeta(b)    == b.k \in {"FLUSH", "EOC"}
AppItems(ids) == [i \in DOMAIN ids |-> AppItem(ids[i])]
\* The response bytes encrypted in a sequence of items.
AppIds(s) == LET a == SelectSeq(s, LAMBDA x : x.k = "app") IN [i \in DOMAIN a |-> a[i].b]
BucketsIds(s) == FlattenSeq([i \in DOMAIN s |-> s[i].d])

\* Brigade shapes the filters above write, and the brigade of a shape whose
\* data starts after response byte base.  EOC is the last bucket httpd writes.
Shapes == [k : {"data", "file"}, n : 1..MaxBucketLen] \cup [k : {"FLUSH", "EOC"}, n : {0}]
Materialize(sh, base) ==
    [i \in DOMAIN sh |->
        Bucket(sh[i].k, [j \in 1..sh[i].n |->
                            base + SumFunction([x \in 1..(i - 1) |-> sh[x].n]) + j])]
Brigades(base) ==
    { Materialize(sh, base) :
        sh \in { sh \in UNION {[1..l -> Shapes] : l \in 1..MaxBuckets} :
                   /\ SumFunction([i \in DOMAIN sh |-> sh[i].n]) <= NResp - base
                   /\ \A i \in DOMAIN sh : sh[i].k = "EOC" => i = Len(sh) } }

\* The brigade as it reaches the network unencrypted.
Raw(b) == FlattenSeq([i \in DOMAIN b |->
             IF IsMeta(b[i]) THEN <<Item(b[i].k)>>
             ELSE [j \in DOMAIN b[i].d |-> [k |-> "plain", b |-> b[i].d[j]]]])

-----------------------------------------------------------------------------
\* rustls_server_session_write: the plaintext rustls takes, encrypted at once,
\* while its queue of TLS output is below its buffer limit.
Accepted(s, n) == Min({n, Max({0, RustlsBufLimit - Len(s.out)})})

\* The rustls write of the first w of ids, counted in fout_bytes_in_rustls.
RustlsWrite(c, ids, w) ==
    [c EXCEPT !.sess.out = @ \o AppItems(SubSeq(ids, 1, w)), !.foutBytesInRustls = @ + w]

\* (mutant) a partial write empties the buffer instead of moving the rest.
FoutPlainBufToRustlsDropRest(c, buf) ==
    LET w == Accepted(c.sess, Len(buf))
        c1 == RustlsWrite(c, buf, w)
    IN  CASE buf = <<>> -> [ctx |-> c, buf |-> buf, rv |-> "SUCCESS"]
          [] w = 0 -> [ctx |-> c1, buf |-> buf, rv |-> "EAGAIN"]
          [] OTHER -> [ctx |-> c1, buf |-> <<>>, rv |-> "SUCCESS"]

(***************************************************************************)
(* fout_plain_buf_to_rustls: write the buffer to rustls; keep what it did  *)
(* not take at the start of the buffer, or return APR_EAGAIN if it took    *)
(* nothing.  Results are [ctx, buf, rv].                                   *)
(***************************************************************************)
FoutPlainBufToRustls(c, buf) ==
    LET w == Accepted(c.sess, Len(buf))
        c1 == RustlsWrite(c, buf, w)
    IN  CASE buf = <<>> -> [ctx |-> c, buf |-> buf, rv |-> "SUCCESS"]
          [] w >= Len(buf) -> [ctx |-> c1, buf |-> <<>>, rv |-> "SUCCESS"]
          [] w = 0 -> [ctx |-> c1, buf |-> buf, rv |-> "EAGAIN"]
          [] OTHER -> [ctx |-> c1, buf |-> SubSeq(buf, w + 1, Len(buf)), rv |-> "SUCCESS"]

\* (mutant) fout_plain_buf_append without the split at the room left.
FoutPlainBufAppendNoSplit(c, buf, b) ==
    LET r      == IF Len(buf) = BufSize THEN FoutPlainBufToRustls(c, buf)
                  ELSE [ctx |-> c, buf |-> buf, rv |-> "SUCCESS"]
        dlen   == Len(b.d)
        direct == b.k = "data" /\ r.buf = <<>> /\ (dlen >= BufSize \/ dlen > PrefWrite)
        w      == Accepted(r.ctx.sess, dlen)
    IN  CASE r.rv # "SUCCESS" -> [ctx |-> r.ctx, buf |-> r.buf, front |-> <<b>>, rv |-> r.rv]
          [] direct ->
               [ctx |-> RustlsWrite(r.ctx, b.d, w), buf |-> r.buf, rv |-> "SUCCESS",
                front |-> IF w >= dlen THEN <<>> ELSE <<Bucket(b.k, SubSeq(b.d, w + 1, dlen))>>]
          [] OTHER -> [ctx |-> r.ctx, buf |-> r.buf \o b.d, front |-> <<>>, rv |-> "SUCCESS"]

\* (mutant) a large data bucket goes to rustls even when the buffer holds data.
FoutPlainBufAppendDirectAlways(c, buf, b) ==
    LET r      == IF Len(buf) = BufSize THEN FoutPlainBufToRustls(c, buf)
                  ELSE [ctx |-> c, buf |-> buf, rv |-> "SUCCESS"]
        dlen   == Min({Len(b.d), BufSize - Len(r.buf)})
        cur    == SubSeq(b.d, 1, dlen)
        split  == IF dlen < Len(b.d) THEN <<Bucket(b.k, SubSeq(b.d, dlen + 1, Len(b.d)))>> ELSE <<>>
        direct == b.k = "data" /\ (dlen >= BufSize \/ dlen > PrefWrite)
        w      == Accepted(r.ctx.sess, dlen)
    IN  CASE r.rv # "SUCCESS" -> [ctx |-> r.ctx, buf |-> r.buf, front |-> <<b>>, rv |-> r.rv]
          [] direct ->
               [ctx |-> RustlsWrite(r.ctx, cur, w), buf |-> r.buf, rv |-> "SUCCESS",
                front |-> (IF w >= dlen THEN <<>> ELSE <<Bucket(b.k, SubSeq(cur, w + 1, dlen))>>)
                          \o split]
          [] OTHER -> [ctx |-> r.ctx, buf |-> r.buf \o cur, front |-> split, rv |-> "SUCCESS"]

(***************************************************************************)
(* fout_plain_buf_append(b): if the buffer is full, write it to rustls     *)
(* first; split b at the room left; a file bucket is read into the buffer; *)
(* a data bucket that is large while the buffer is empty goes to rustls    *)
(* directly (what rustls did not take stays first in the brigade); any     *)
(* other is copied into the buffer.  Results are [ctx, buf, front, rv]:    *)
(* front is what is left of b, the buckets that replace it in the brigade. *)
(***************************************************************************)
FoutPlainBufAppend(c, buf, b) ==
    LET r      == IF Len(buf) = BufSize THEN FoutPlainBufToRustls(c, buf)
                  ELSE [ctx |-> c, buf |-> buf, rv |-> "SUCCESS"]
        dlen   == Min({Len(b.d), BufSize - Len(r.buf)})
        cur    == SubSeq(b.d, 1, dlen)
        split  == IF dlen < Len(b.d) THEN <<Bucket(b.k, SubSeq(b.d, dlen + 1, Len(b.d)))>> ELSE <<>>
        direct == b.k = "data" /\ r.buf = <<>> /\ (dlen >= BufSize \/ dlen > PrefWrite)
        w      == Accepted(r.ctx.sess, dlen)
    IN  CASE r.rv # "SUCCESS" -> [ctx |-> r.ctx, buf |-> r.buf, front |-> <<b>>, rv |-> r.rv]
          [] direct ->
               [ctx |-> RustlsWrite(r.ctx, cur, w), buf |-> r.buf, rv |-> "SUCCESS",
                front |-> (IF w >= dlen THEN <<>> ELSE <<Bucket(b.k, SubSeq(cur, w + 1, dlen))>>)
                          \o split]
          [] OTHER -> [ctx |-> r.ctx, buf |-> r.buf \o cur, front |-> split, rv |-> "SUCCESS"]

-----------------------------------------------------------------------------
\* (mutant) the loop never takes TLS out of rustls on fout_bytes_in_rustls.
OutIterationEndNoBrigade(c, buf, rest) ==
    LET w == WriteAllTlsFromRustls(c)
    IN  IF c.foutBytesInTlsBB >= MaxOutInRustls
        THEN [ctx |-> w.ctx, buf |-> buf, rest |-> rest, rv |-> w.rv]
        ELSE [ctx |-> c, buf |-> buf, rest |-> rest, rv |-> "SUCCESS"]

\* The end of a loop iteration: take TLS out of rustls when enough plaintext
\* went in, pass fout_tls_bb down when it holds enough.  Results are
\* [ctx, buf, rest, rv], rest being the brigade left to consume.
OutIterationEnd(c, buf, rest) ==
    LET c1 == IF c.foutBytesInRustls >= MaxOutInRustls THEN BrigadeTlsFromRustls(c) ELSE c
        w  == WriteAllTlsFromRustls(c1)
    IN  IF c1.foutBytesInTlsBB >= MaxOutInRustls
        THEN [ctx |-> w.ctx, buf |-> buf, rest |-> rest, rv |-> w.rv]
        ELSE [ctx |-> c1, buf |-> buf, rest |-> rest, rv |-> "SUCCESS"]

\* The step ends with result r: on success the brigade is r.rest, otherwise
\* the call returns r.rv and its caller drops the brigade.
OutStepEnd(r) ==
    /\ Commit(r.ctx) /\ foutBufPlain' = r.buf
    /\ IF r.rv = "SUCCESS" THEN bb' = r.rest /\ UNCHANGED <<pcOut, outErr>>
       ELSE bb' = <<>> /\ pcOut' = "idle" /\ outErr' = TRUE

\* (mutant) the DONE pass-through is checked before c->aborted.
ConnOutputDoneFirst(b) ==
    /\ pcOut = "idle" /\ outCalls < MaxOutCalls /\ ~eocWritten
    /\ nWritten' = nWritten + Len(BucketsIds(b))
    /\ outCalls' = outCalls + 1
    /\ eocWritten' = (b[Len(b)].k = "EOC")
    /\ CASE state = "DONE" ->
              \E r \in {NetPass(Cur, Raw(b))} :
                  Commit(r.ctx) /\ outErr' = (outErr \/ r.rv # "SUCCESS")
                  /\ UNCHANGED <<pcOut, bb, foutBufPlain>>
         [] aborted -> UNCHANGED <<ctxVars, pcOut, bb, foutBufPlain>> /\ outErr' = TRUE
         [] OTHER -> bb' = b /\ pcOut' = "loop" /\ UNCHANGED <<ctxVars, foutBufPlain, outErr>>
    /\ UNCHANGED peerVars

(***************************************************************************)
(* filter_conn_output entry: an aborted connection drops the brigade and   *)
(* returns APR_ECONNABORTED; in DONE the brigade passes through as it is;  *)
(* otherwise the bucket loop starts.                                       *)
(***************************************************************************)
ConnOutput(b) ==
    /\ pcOut = "idle" /\ outCalls < MaxOutCalls /\ ~eocWritten
    /\ nWritten' = nWritten + Len(BucketsIds(b))
    /\ outCalls' = outCalls + 1
    /\ eocWritten' = (b[Len(b)].k = "EOC")
    /\ CASE aborted -> UNCHANGED <<ctxVars, pcOut, bb, foutBufPlain>> /\ outErr' = TRUE
         [] state = "DONE" ->
              \E r \in {NetPass(Cur, Raw(b))} :
                  Commit(r.ctx) /\ outErr' = (outErr \/ r.rv # "SUCCESS")
                  /\ UNCHANGED <<pcOut, bb, foutBufPlain>>
         [] OTHER -> bb' = b /\ pcOut' = "loop" /\ UNCHANGED <<ctxVars, foutBufPlain, outErr>>
    /\ UNCHANGED peerVars

(***************************************************************************)
(* One iteration of the bucket loop.  A metadata bucket: EOC queues        *)
(* close_notify and moves to NOTIFIED; then the buffer goes to rustls,     *)
(* rustls' output to fout_tls_bb, and the bucket after it.  A data bucket: *)
(* fout_plain_buf_append.                                                  *)
(***************************************************************************)
BucketStep(c, buf, b, rest) ==
    LET e == IF b.k = "EOC"
             THEN [c EXCEPT !.sess.out = Append(@, Item("close_notify")), !.state = "NOTIFIED"]
             ELSE c
        r == FoutPlainBufToRustls(e, buf)
        a == FoutPlainBufAppend(c, buf, b)
    IN  IF IsMeta(b)
        THEN IF r.rv # "SUCCESS" THEN [ctx |-> r.ctx, buf |-> r.buf, rest |-> rest, rv |-> r.rv]
             ELSE OutIterationEnd([BrigadeTlsFromRustls(r.ctx)
                                     EXCEPT !.foutTlsBB = Append(@, Item(b.k))], r.buf, rest)
        ELSE IF a.rv # "SUCCESS" THEN [ctx |-> a.ctx, buf |-> a.buf, rest |-> rest, rv |-> a.rv]
             ELSE OutIterationEnd(a.ctx, a.buf, a.front \o rest)

OutBucket ==
    /\ pcOut = "loop" /\ bb # <<>>
    /\ \E r \in {BucketStep(Cur, foutBufPlain, Head(bb), Tail(bb))} : OutStepEnd(r)
    /\ UNCHANGED <<peerVars, nWritten, outCalls, eocWritten>>

\* The brigade is consumed: write everything rustls holds to the network.
OutFinish ==
    /\ pcOut = "loop" /\ bb = <<>>
    /\ \E w \in {WriteAllTlsFromRustls(Cur)} :
         Commit(w.ctx) /\ outErr' = (outErr \/ w.rv # "SUCCESS")
    /\ pcOut' = "idle"
    /\ UNCHANGED <<peerVars, bb, foutBufPlain, nWritten, outCalls, eocWritten>>

\* The client resets the connection.
PeerReset ==
    /\ ClientMayReset /\ peer # "rst" /\ peer' = "rst"
    /\ UNCHANGED <<ctxVars, sent, pcOut, bb, foutBufPlain, nWritten, outCalls, outErr, eocWritten>>

(***************************************************************************)
(* A read between two output calls ends in filter_abort: filter_conn_input *)
(* aborts on c->aborted, and on a TLS error of the client when rustls may  *)
(* reject input.  close_notify is flushed, the connection is DONE.         *)
(***************************************************************************)
InputAbort ==
    /\ pcOut = "idle" /\ state # "DONE" /\ (aborted \/ EngineMayFail)
    /\ Commit(FilterAbort(Cur))
    /\ UNCHANGED <<peerVars, pcOut, bb, foutBufPlain, nWritten, outCalls, outErr, eocWritten>>

\* The filters above stopped writing.
OutDone ==
    /\ pcOut = "idle" /\ (outCalls = MaxOutCalls \/ eocWritten)
    /\ UNCHANGED outVars

OutStep == OutBucket \/ OutFinish

NextOut ==
    \/ \E b \in Brigades(nWritten) : ConnOutput(b)
    \/ OutStep
    \/ PeerReset
    \/ InputAbort
    \/ OutDone

(***************************************************************************)
(* The state after a handshake as TlsInput reaches it: the real session    *)
(* processed the client's handshake, its flight was flushed.               *)
(***************************************************************************)
InitOut ==
    /\ state = "TRAFFIC" /\ aborted = FALSE
    /\ sess = [NewSession(FALSE) EXCEPT !.fed = SubSeq(Stream, 1, HsEnd), !.proc = HsEnd,
                                        !.flight = TRUE]
    /\ helloSeen = TRUE /\ finBlock = TRUE /\ finTlsBB = <<>> /\ finBuf = <<>>
    /\ hasBuf = FALSE /\ finPlainBB = <<>> /\ finBytesInRustls = FALSE
    /\ foutTlsBB = <<>> /\ foutBytesInRustls = 0 /\ foutBytesInTlsBB = 0 /\ facts = 1
    /\ fault = FALSE /\ taken = HsEnd /\ wire = <<Item("flight"), Item("FLUSH")>>
    /\ appIn = <<>> /\ sent = HsEnd /\ peer = "open"
    /\ pcOut = "idle" /\ bb = <<>> /\ foutBufPlain = <<>> /\ nWritten = 0
    /\ outCalls = 0 /\ outErr = FALSE /\ eocWritten = FALSE

\* A call in progress is the connection's thread running on; the filters
\* above and the client are not assumed to act.
FairnessOut == WF_outVars(OutStep)

SpecOut == InitOut /\ [][NextOut]_outVars /\ FairnessOut

-----------------------------------------------------------------------------
\* The server's output in the order it reaches the network: the wire, then
\* fout_tls_bb, then what rustls still queues.
OutPipeline == wire \o foutTlsBB \o sess.out

TypeOKOut ==
    /\ state \in States /\ aborted \in BOOLEAN /\ sess \in Sessions
    /\ foutTlsBB \in Seq(Items) /\ wire \in Seq(Items)
    /\ foutBytesInRustls \in Nat /\ foutBytesInTlsBB \in Nat
    /\ peer \in {"open", "fin", "rst"} /\ pcOut \in {"idle", "loop"}
    /\ bb \in Seq([k : {"data", "file", "FLUSH", "EOC"}, d : Seq(1..NResp)])
    /\ foutBufPlain \in Seq(1..NResp) /\ Len(foutBufPlain) <= BufSize
    /\ nWritten \in 0..NResp /\ outCalls \in 0..MaxOutCalls
    /\ outErr \in BOOLEAN /\ eocWritten \in BOOLEAN

(***************************************************************************)
(* Plaintext never reaches the network: every response byte on the wire is *)
(* encrypted (the pass-through of filter_conn_output in DONE is only       *)
(* reached after filter_abort has set c->aborted, which is checked first). *)
(***************************************************************************)
NoPlaintextOnWire == \A i \in DOMAIN wire : wire[i].k # "plain"

(***************************************************************************)
(* Nothing the filters above wrote is lost while no call failed: the       *)
(* response bytes on the wire, in fout_tls_bb, in rustls, in fout_buf_plain *)
(* and in the brigade being consumed are, in this order, the whole         *)
(* response written so far (the split, partial writes and buffer           *)
(* compaction of fout_plain_buf_append and fout_plain_buf_to_rustls).      *)
(***************************************************************************)
ResponseIntact ==
    ~outErr => AppIds(OutPipeline) \o foutBufPlain \o BucketsIds(bb)
                 = [i \in 1..nWritten |-> i]

(***************************************************************************)
(* close_notify is the last thing the server sends: no response data       *)
(* follows it on its way to the network (EOC in filter_conn_output).       *)
(***************************************************************************)
CloseNotifyLast ==
    \A i, j \in DOMAIN OutPipeline :
        i < j /\ OutPipeline[i].k = "close_notify" => OutPipeline[j].k # "app"

(***************************************************************************)
(* Every filter_conn_output call returns: the bucket loop makes progress   *)
(* whatever rustls accepts.                                                *)
(***************************************************************************)
OutputCallReturns == (pcOut = "loop") ~> (pcOut = "idle")

=============================================================================
