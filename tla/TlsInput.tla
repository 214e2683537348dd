------------------------------ MODULE TlsInput ------------------------------
(***************************************************************************)
(* The input side of a mod_tls connection: hook_connection's AP_MODE_INIT  *)
(* read, then the reads of the filters above, each served by              *)
(* filter_conn_input (src/src/tls_filter.c), which runs the pre-handshake  *)
(* (sniffing the ClientHello with a provisional session, then replaying    *)
(* every byte into the session of the selected server), the handshake, and *)
(* the decryption of application data.                                     *)
(*                                                                         *)
(* One call of filter_conn_input is a sequence of steps named by pc: each  *)
(* loop iteration of the C code is one step, since the client acts between *)
(* them (a blocking network read waits for it).  The client sends its      *)
(* ClientHello, and the rest of its stream once the server's flight has    *)
(* reached the wire; it may close or reset the connection at any time.     *)
(***************************************************************************)
EXTENDS TlsFilterCore

CONSTANTS
    ReadBytes,    \* readbytes values the callers pass
    MaxCalls      \* bound on the number of filter_conn_input calls

ASSUME /\ ReadBytes \subseteq Nat \ {0} /\ MaxCalls \in Nat \ {0}

\* Modes of ap_get_brigade; EATCRLF stands for every mode the filter
\* does not implement.
Modes == {"INIT", "READBYTES", "GETLINE", "SPECULATIVE", "EXHAUSTIVE", "EATCRLF"}

VARIABLES
    pc,       \* where the current filter_conn_input call is
    call,     \* its mode and readbytes
    calls,    \* calls made so far
    lastRv    \* status the last call returned

vars == <<ctxVars, peerVars, pc, call, calls, lastRv>>

Init ==
    /\ state = "PRE_HANDSHAKE" /\ aborted = FALSE /\ sess = NewSession(TRUE)
    /\ helloSeen = FALSE /\ finBlock = TRUE /\ finTlsBB = <<>> /\ finBuf = <<>>
    /\ hasBuf = FALSE /\ finPlainBB = <<>> /\ finBytesInRustls = FALSE
    /\ foutTlsBB = <<>> /\ foutBytesInRustls = 0 /\ foutBytesInTlsBB = 0 /\ facts = 0 /\ fault = FALSE
    /\ taken = 0 /\ wire = <<>> /\ appIn = <<>> /\ sent = 0 /\ peer = "open"
    /\ pc = "idle" /\ call = [mode |-> "INIT", rb |-> 0] /\ calls = 0
    /\ lastRv = "NONE"

\* Make c current and return rv to the caller.
Return(c, rv) == Commit(c) /\ pc' = "idle" /\ lastRv' = rv
\* Make c current and continue the call at step p.
Goto(c, p) == Commit(c) /\ pc' = p /\ UNCHANGED lastRv
\* The process died: nothing runs any more.
Crash(c) == Commit(c) /\ pc' = "crashed" /\ UNCHANGED lastRv

-----------------------------------------------------------------------------
(***************************************************************************)
(* filter_conn_input entry: record the block mode; an aborted connection   *)
(* is aborted (filter_abort); otherwise run the pre-handshake, the         *)
(* handshake, or go to the plaintext loop, by cc->state.  The              *)
(* pre-handshake starts by creating a new fin_tls_buffer_bb.               *)
(***************************************************************************)
Enter(m, blk, rb) ==
    LET c == [Cur EXCEPT !.finBlock = blk]
    IN  /\ call' = [mode |-> m, rb |-> rb]
        /\ calls' = calls + 1
        /\ CASE aborted -> Return(FilterAbort(c), "ECONNABORTED")
             [] state = "PRE_HANDSHAKE" ->
                    Goto([c EXCEPT !.finBuf = <<>>, !.hasBuf = TRUE], "pre")
             [] state = "HANDSHAKE" -> Goto(c, "hs")
             [] m = "INIT" -> Return(c, "SUCCESS")
             [] OTHER -> Goto(c, IF finPlainBB = <<>> THEN "traffic" ELSE "deliver")

\* hook_connection: the blocking AP_MODE_INIT read that starts the handshake.
HookConnection ==
    /\ pc = "idle" /\ calls = 0
    /\ Enter("INIT", TRUE, 0)
    /\ UNCHANGED peerVars

\* A read by the filters above (HTTP/1.x, mod_http2, ...).
ConnInput(m, blk, rb) ==
    /\ pc = "idle" /\ 0 < calls /\ calls < MaxCalls
    /\ Enter(m, blk, rb)
    /\ UNCHANGED peerVars

(***************************************************************************)
(* filter_do_pre_handshake, one iteration of its loop: read TLS into the   *)
(* provisional session.  Once the hello was seen (also when the read       *)
(* failed after the hello callback ran) the loop ends; a failure before    *)
(* it returns APR_EAGAIN as such and aborts on anything else.              *)
(***************************************************************************)
PreHandshakeRead ==
    /\ pc = "pre"
    /\ \E o \in ReadTlsToRustls(Cur, MaxInRustls) :
         CASE o.ctx.fault -> Crash(o.ctx)
           [] o.ctx.helloSeen -> Goto(o.ctx, "rebind")
           [] o.rv = "SUCCESS" -> Goto(o.ctx, "pre")
           [] o.rv = "EAGAIN" -> Return(o.ctx, "EAGAIN")
           [] OTHER -> Return(FilterAbort(o.ctx), "ECONNABORTED")
    /\ UNCHANGED <<peerVars, call, calls>>

(***************************************************************************)
(* The end of filter_do_pre_handshake: tls_core_conn_init_server sets up   *)
(* the session of the selected server, fin_tls_bb becomes the bytes fed to *)
(* the provisional session followed by those not yet fed, and              *)
(* filter_conn_input moves to HANDSHAKE.  A failure to set up aborts.      *)
(***************************************************************************)
\* (mutant) the swap of fin_tls_bb and fin_tls_buffer_bb left out.
PreHandshakeRebindNoReplay ==
    /\ pc = "rebind"
    /\ \/ Goto([Cur EXCEPT !.sess = NewSession(FALSE), !.finBuf = <<>>, !.hasBuf = FALSE,
                           !.state = "HANDSHAKE"], "hs")
       \/ EngineMayFail /\ Return(FilterAbort(Cur), "ECONNABORTED")
    /\ UNCHANGED <<peerVars, call, calls>>

PreHandshakeRebind ==
    /\ pc = "rebind"
    /\ \/ Goto([Cur EXCEPT !.sess = NewSession(FALSE), !.finTlsBB = finBuf \o finTlsBB,
                           !.finBuf = <<>>, !.hasBuf = FALSE, !.state = "HANDSHAKE"], "hs")
       \/ EngineMayFail /\ Return(FilterAbort(Cur), "ECONNABORTED")
    /\ UNCHANGED <<peerVars, call, calls>>

(***************************************************************************)
(* filter_do_handshake, one iteration: the session wants to read during    *)
(* the whole handshake (no plaintext is readable before it completes), so  *)
(* read TLS into it, then flush what it wants to write.  APR_EAGAIN is     *)
(* returned as such, every other failure aborts.                           *)
(***************************************************************************)
\* (mutant) the handshake loop never flushes what the session wants to write.
HandshakeStepNoFlush ==
    /\ pc = "hs" /\ Handshaking(sess)
    /\ \E o \in ReadTlsToRustls(Cur, MaxInRustls) :
         CASE o.ctx.fault -> Crash(o.ctx)
           [] o.rv = "SUCCESS" -> Goto(o.ctx, "hs")
           [] o.rv = "EAGAIN" -> Return(o.ctx, "EAGAIN")
           [] OTHER -> Return(FilterAbort(o.ctx), "ECONNABORTED")
    /\ UNCHANGED <<peerVars, call, calls>>

HandshakeStep ==
    /\ pc = "hs" /\ Handshaking(sess)
    /\ \E o \in ReadTlsToRustls(Cur, MaxInRustls) :
         LET f == IF WantsWrite(o.ctx.sess) THEN FlushTlsFromRustls(o.ctx)
                  ELSE [ctx |-> o.ctx, rv |-> "SUCCESS"]
         IN  CASE o.ctx.fault -> Crash(o.ctx)
               [] o.rv = "SUCCESS" /\ f.rv = "SUCCESS" -> Goto(f.ctx, "hs")
               [] o.rv = "SUCCESS" -> Return(FilterAbort(f.ctx), "ECONNABORTED")
               [] o.rv = "EAGAIN" -> Return(o.ctx, "EAGAIN")
               [] OTHER -> Return(FilterAbort(o.ctx), "ECONNABORTED")
    /\ UNCHANGED <<peerVars, call, calls>>

\* The loop ends: tls_core_conn_post_handshake computes the session facts,
\* cc->state becomes TRAFFIC, and an INIT call returns.  When it fails the
\* connection is aborted.
HandshakeDone ==
    /\ pc = "hs" /\ ~Handshaking(sess)
    /\ LET c == [Cur EXCEPT !.facts = @ + 1, !.state = "TRAFFIC"]
       IN  \/ IF call.mode = "INIT" THEN Return(c, "SUCCESS") ELSE Goto(c, "traffic")
           \/ EngineMayFail /\ Return(FilterAbort(Cur), "ECONNABORTED")
    /\ UNCHANGED <<peerVars, call, calls>>

(***************************************************************************)
(* The plaintext loop of filter_conn_input, one iteration: when bytes went *)
(* into the session since the last empty read, ask it for plaintext; if    *)
(* that gives nothing, clear fin_bytes_in_rustls and read more TLS.  Any   *)
(* failure of the read (APR_EAGAIN included), and a failure of             *)
(* rustls_server_session_read (e.g. the client's close_notify), is         *)
(* returned without abort.                                                 *)
(***************************************************************************)
\* (mutant) the plaintext bucket made of in_buf_len bytes instead of rlen.
ReadPlainWholeBuffer(c) ==
    LET k == IF c.finBytesInRustls /\ Plain(c.sess) > 0 THEN ReadBufLen ELSE 0
    IN  [c EXCEPT !.sess.nread = @ + k,
                  !.finPlainBB = [i \in 1..k |-> HsEnd + c.sess.nread + i]]

ReadPlain(c) ==
    LET k == IF c.finBytesInRustls THEN Min({Plain(c.sess), ReadBufLen}) ELSE 0
    IN  [c EXCEPT !.sess.nread = @ + k,
                  !.finPlainBB = [i \in 1..k |-> HsEnd + c.sess.nread + i]]

TrafficStep ==
    /\ pc = "traffic" /\ finPlainBB = <<>>
    /\ LET c == ReadPlain(Cur)
       IN  \/ EngineMayFail /\ finBytesInRustls /\ Return(Cur, "ERUSTLS")
           \/ c.finPlainBB # <<>> /\ Goto(c, "deliver")
           \/ /\ c.finPlainBB = <<>>
              /\ \E o \in ReadTlsToRustls([c EXCEPT !.finBytesInRustls = FALSE], MaxInRustls) :
                   CASE o.ctx.fault -> Crash(o.ctx)
                     [] o.rv = "SUCCESS" -> Goto(o.ctx, "traffic")
                     [] OTHER -> Return(o.ctx, o.rv)
    /\ UNCHANGED <<peerVars, call, calls>>

(***************************************************************************)
(* Hand plaintext to the caller by mode (tls_util_brigade_split_line,      *)
(* _transfer, _copy, or all of it), then write_all_tls_from_rustls, whose  *)
(* status is ignored.  Other modes are APR_ENOTIMPL.                       *)
(***************************************************************************)
Moved(m, rb, L) ==
    CASE m = "GETLINE" -> 1..Min({rb, L})
      [] m = "READBYTES" -> {Min({rb, L})}
      [] m = "SPECULATIVE" -> {0}
      [] m = "EXHAUSTIVE" -> {L}

\* (mutant) READBYTES copies fin_plain_bb (as SPECULATIVE does) instead of
\* transferring from it.
DeliverCopying ==
    /\ pc = "deliver"
    /\ \/ /\ call.mode # "EATCRLF"
          /\ \E n \in Moved(call.mode, call.rb, Len(finPlainBB)) :
               LET m == IF call.mode = "READBYTES" THEN 0 ELSE n
               IN  Return(WriteAllTlsFromRustls(
                            [Cur EXCEPT !.finPlainBB = SubSeq(@, m + 1, Len(@)),
                                        !.appIn = @ \o SubSeq(finPlainBB, 1, n)]).ctx,
                          "SUCCESS")
       \/ call.mode = "EATCRLF" /\ Return(Cur, "ENOTIMPL")
    /\ UNCHANGED <<peerVars, call, calls>>

Deliver ==
    /\ pc = "deliver"
    /\ \/ /\ call.mode # "EATCRLF"
          /\ \E n \in Moved(call.mode, call.rb, Len(finPlainBB)) :
               Return(WriteAllTlsFromRustls(
                        [Cur EXCEPT !.finPlainBB = SubSeq(@, n + 1, Len(@)),
                                    !.appIn = @ \o SubSeq(finPlainBB, 1, n)]).ctx,
                      "SUCCESS")
       \/ call.mode = "EATCRLF" /\ Return(Cur, "ENOTIMPL")
    /\ UNCHANGED <<peerVars, call, calls>>

-----------------------------------------------------------------------------
(***************************************************************************)
(* The client: it sends its ClientHello, and the rest of its stream only   *)
(* after the server's flight reached the wire; it may close or reset.      *)
(***************************************************************************)
ClientSend ==
    /\ peer = "open"
    /\ sent < IF Item("flight") \in ToSet(wire) THEN NBytes ELSE HelloEnd
    /\ sent' = sent + 1
    /\ UNCHANGED <<ctxVars, peer, pc, call, calls, lastRv>>

ClientClose ==
    /\ peer = "open" /\ peer' = "fin"
    /\ UNCHANGED <<ctxVars, sent, pc, call, calls, lastRv>>

ClientReset ==
    /\ ClientMayReset /\ peer # "rst" /\ peer' = "rst"
    /\ UNCHANGED <<ctxVars, sent, pc, call, calls, lastRv>>

\* The connection is over: the callers made their calls, or the process died.
Finished ==
    /\ (pc = "idle" /\ calls = MaxCalls) \/ pc = "crashed"
    /\ UNCHANGED vars

InputStep ==
    \/ PreHandshakeRead \/ PreHandshakeRebind \/ HandshakeStep \/ HandshakeDone
    \/ TrafficStep \/ Deliver

Next ==
    \/ HookConnection
    \/ \E m \in Modes \ {"INIT"}, blk \in BOOLEAN, rb \in ReadBytes : ConnInput(m, blk, rb)
    \/ InputStep
    \/ ClientSend \/ ClientClose \/ ClientReset
    \/ Finished

(***************************************************************************)
(* Fairness: hook_connection always issues its INIT read, a call in        *)
(* progress is one thread running on, and the client keeps sending what   *)
(* it may.  The callers' later reads and the client's close or reset are   *)
(* not assumed.                                                            *)
(***************************************************************************)
Fairness == WF_vars(HookConnection) /\ WF_vars(InputStep) /\ WF_vars(ClientSend)

Spec == Init /\ [][Next]_vars /\ Fairness

-----------------------------------------------------------------------------
(***************************************************************************)
(* tls_filter_input_pending: the hook the MPM asks whether the connection  *)
(* has input to process before it polls the socket.                        *)
(***************************************************************************)
TlsFilterInputPending == ~aborted /\ finPlainBB # <<>>

-----------------------------------------------------------------------------
TypeOK ==
    /\ state \in States /\ aborted \in BOOLEAN /\ sess \in Sessions
    /\ helloSeen \in BOOLEAN /\ finBlock \in BOOLEAN
    /\ finTlsBB \in Seq(0..NBytes) /\ finBuf \in Seq(1..NBytes) /\ hasBuf \in BOOLEAN
    /\ finPlainBB \in Seq(1..NBytes) /\ finBytesInRustls \in BOOLEAN
    /\ foutTlsBB \in Seq(Items) /\ foutBytesInRustls \in Nat /\ facts \in Nat
    /\ foutBytesInTlsBB \in Nat
    /\ fault \in BOOLEAN /\ taken \in 0..sent /\ wire \in Seq(Items)
    /\ appIn \in Seq(1..NBytes) /\ sent \in 0..NBytes /\ peer \in {"open", "fin", "rst"}
    /\ pc \in {"idle", "pre", "rebind", "hs", "traffic", "deliver", "crashed"}
    /\ call \in [mode : Modes, rb : {0} \cup ReadBytes] /\ calls \in 0..MaxCalls

(***************************************************************************)
(* Sniffing replays the client's bytes intact: once the session of the     *)
(* selected server is in place, what it was fed followed by what waits in  *)
(* fin_tls_bb is exactly the bytes taken from the network, in order, with  *)
(* none lost or doubled (filter_do_pre_handshake and read_tls_to_rustls's  *)
(* copy into fin_tls_buffer_bb).                                           *)
(***************************************************************************)
ReplayIntact ==
    ~sess.pre => sess.fed \o Data(finTlsBB) = [i \in 1..taken |-> i]

(***************************************************************************)
(* The callers above receive the client's plaintext in order: what they    *)
(* consumed followed by fin_plain_bb is exactly the plaintext taken out of *)
(* the session so far (the plaintext loop and the mode dispatch of         *)
(* filter_conn_input).                                                     *)
(***************************************************************************)
PlaintextInOrder ==
    ~sess.pre => appIn \o finPlainBB = SubSeq(AppStream, 1, sess.nread)

AbortIsFinal ==
    [][state = "DONE" => state' = "DONE" /\ UNCHANGED <<sess, wire, appIn>>]_vars

(***************************************************************************)
(* With a responsive client the handshake started by hook_connection ends: *)
(* the connection reaches TRAFFIC, is aborted, or the process died.        *)
(***************************************************************************)
HandshakeEnds ==
    <>(state \notin {"PRE_HANDSHAKE", "HANDSHAKE"} \/ pc = "crashed")

\* The call waits in a blocking network read on a client that is connected
\* but has sent nothing the filter has not taken.
BlockedOnClient ==
    finBlock /\ finTlsBB = <<>> /\ sent = taken /\ peer = "open"

(***************************************************************************)
(* A call of filter_conn_input returns unless it waits on a silent client: *)
(* the only place a call may hang is a blocking read of the network (the   *)
(* INIT read of hook_connection has no deadline of its own).  The loops of *)
(* the pre-handshake, the handshake and the plaintext never spin without   *)
(* progress, also when a non-blocking read brings nothing.                 *)
(***************************************************************************)
CallReturnsUnlessClientSilent ==
    pc \notin {"idle", "crashed"} ~> (pc \in {"idle", "crashed"} \/ BlockedOnClient)

(***************************************************************************)
(* The process never dereferences a NULL fin_tls_buffer_bb: read_tls_to_   *)
(* rustls meets an EOS bucket only while the buffer exists.                *)
(***************************************************************************)
NoNullBufferUse == pc # "crashed"

(***************************************************************************)
(* Between calls, tls_filter_input_pending reports input whenever the      *)
(* session holds decrypted bytes the callers have not read, so the MPM     *)
(* does not wait on the socket for data it already has.                    *)
(***************************************************************************)
InputPendingSound ==
    (pc = "idle" /\ ~aborted /\ Plain(sess) > 0) => TlsFilterInputPending


(***************************************************************************)
(* An engine error ends the connection: when filter_conn_input returns a  *)
(* rustls failure to its caller, the abort sequence has run and the       *)
(* connection is DONE (spec section 7: an EngineError during the handshake *)
(* or traffic phases forces close-notify and the terminal state).  The     *)
(* plaintext loop's rustls_server_session_read failure is the case at     *)
(* issue.                                                                  *)
(***************************************************************************)
EngineErrorsAbort ==
    (pc = "idle" /\ lastRv = "ERUSTLS") => state = "DONE"

=============================================================================
