---------------------------- MODULE TlsConnection ----------------------------
(***************************************************************************)
(* Both connection filters on one connection: hook_connection's INIT read  *)
(* and the callers' reads (TlsInput) interleave with the callers' writes   *)
(* (TlsOutput).  They share the rustls session, fout_tls_bb, its byte      *)
(* counters, cc->state and c->aborted.  httpd runs a connection's filters  *)
(* on the one thread that serves it, so a call of either filter runs to    *)
(* its end before the other filter is called; the client acts at any time. *)
(***************************************************************************)
EXTENDS TlsInput, TlsOutput

inOnly  == <<pc, call, calls, lastRv>>
outOnly == <<pcOut, bb, foutBufPlain, nWritten, outCalls, outErr, eocWritten>>
connVars == <<ctxVars, peerVars, inOnly, outOnly>>

InitConn ==
    /\ Init
    /\ pcOut = "idle" /\ bb = <<>> /\ foutBufPlain = <<>> /\ nWritten = 0
    /\ outCalls = 0 /\ outErr = FALSE /\ eocWritten = FALSE

(***************************************************************************)
(* The callers write once hook_connection's INIT read returned (it         *)
(* declines, and httpd's connection handler runs).  Response data follows *)
(* a request, so plaintext was read; a FLUSH or EOC may come at any time,  *)
(* e.g. when the connection is closed after a failed read.  After EOC      *)
(* httpd reads nothing more through the filters.                           *)
(***************************************************************************)
WriteAllowed(b) == calls > 0 /\ (BucketsIds(b) = <<>> \/ appIn # <<>>)

InStart ==
    /\ pcOut = "idle"
    /\ \/ HookConnection
       \/ /\ ~eocWritten
          /\ \E m \in Modes \ {"INIT"}, blk \in BOOLEAN, rb \in ReadBytes : ConnInput(m, blk, rb)
    /\ UNCHANGED outOnly

InRun == InputStep /\ UNCHANGED outOnly

OutStart ==
    /\ pc = "idle"
    /\ \E b \in Brigades(nWritten) : WriteAllowed(b) /\ ConnOutput(b)
    /\ UNCHANGED inOnly

OutRun == OutStep /\ UNCHANGED inOnly

Client == (ClientSend \/ ClientClose \/ ClientReset) /\ UNCHANGED outOnly

\* The connection is over: the callers stopped reading and writing, or the
\* process died.
Closed ==
    /\ pcOut = "idle"
    /\ \/ /\ pc = "idle"
          /\ calls = MaxCalls \/ eocWritten
          /\ outCalls = MaxOutCalls \/ eocWritten
       \/ pc = "crashed"
    /\ UNCHANGED connVars

NextConn == InStart \/ InRun \/ OutStart \/ OutRun \/ Client \/ Closed

(***************************************************************************)
(* A call in progress is the connection's thread running on; hook_         *)
(* connection issues its INIT read; the client keeps sending what it may.  *)
(***************************************************************************)
FairnessConn ==
    /\ WF_connVars(HookConnection /\ pcOut = "idle" /\ UNCHANGED outOnly)
    /\ WF_connVars(InRun) /\ WF_connVars(OutRun)
    /\ WF_connVars(ClientSend /\ UNCHANGED outOnly)

SpecConn == InitConn /\ [][NextConn]_connVars /\ FairnessConn

-----------------------------------------------------------------------------
(***************************************************************************)
(* Both directions at once: sniffing replays intact, the plaintext the     *)
(* callers read is in order, and the response on its way to the client is *)
(* complete while no write failed, whatever the order of reads, writes and *)
(* the client's steps (they share the session's queued output and          *)
(* fout_bytes_in_rustls, which the input side resets when it brigades the  *)
(* handshake or flushes after delivering plaintext).                       *)
(***************************************************************************)
BothDirectionsIntact == ReplayIntact /\ PlaintextInOrder /\ ResponseIntact

(***************************************************************************)
(* DONE is final for both filters: after filter_abort, from either side,   *)
(* no call touches the session, sends anything, or hands plaintext up.    *)
(***************************************************************************)
DoneIsFinal ==
    [][state = "DONE" => state' = "DONE" /\ UNCHANGED <<sess, wire, appIn>>]_connVars

\* The input direction as an ordered stream: the client's application
\* bytes it sent, and those the callers consumed.
ISt == INSTANCE OrderedStream
         WITH N <- NBytes - HsEnd,
              accepted <- IF sent > HsEnd THEN sent - HsEnd ELSE 0,
              delivered <- [i \in DOMAIN appIn |-> appIn[i] - HsEnd]
\* The response direction: the bytes the filters above wrote, and those
\* encrypted on the network.
OSt == INSTANCE OrderedStream WITH N <- NResp, accepted <- nWritten, delivered <- AppIds(wire)

(***************************************************************************)
(* The connection implements a pair of ordered byte streams, one in each   *)
(* direction: no byte reaches the other end twice or out of order, also    *)
(* when a large bucket goes to rustls directly past fout_buf_plain.        *)
(***************************************************************************)
ConnectionStreams == ISt!Spec /\ OSt!Spec

=============================================================================
