---------------------------- MODULE OrderedStream ----------------------------
(***************************************************************************)
(* What one direction of a TLS connection promises: bytes 1..N are         *)
(* accepted from the writer in order, and the reader receives accepted     *)
(* bytes in order and each at most once.  Bytes may be lost (a failed      *)
(* write drops them); they are never reordered or duplicated.              *)
(***************************************************************************)
EXTENDS Naturals, Sequences

CONSTANT N            \* bytes of the stream

VARIABLES
    accepted,         \* bytes the writer handed over: 1..accepted
    delivered         \* bytes the reader received, in order

Init == accepted = 0 /\ delivered = <<>>

\* The writer hands over more bytes.
Accept ==
    /\ \E n \in (accepted + 1)..N : accepted' = n
    /\ UNCHANGED delivered

\* Some accepted bytes reach the reader: delivered grows, each new byte
\* comes after the one before it (possibly skipping lost ones) and was
\* accepted.
Deliver ==
    /\ Len(delivered') > Len(delivered)
    /\ SubSeq(delivered', 1, Len(delivered)) = delivered
    /\ \A i \in (Len(delivered) + 1)..Len(delivered') :
         /\ delivered'[i] <= accepted
         /\ delivered'[i] > IF i = 1 THEN 0 ELSE delivered'[i - 1]
    /\ UNCHANGED accepted

Next == Accept \/ Deliver

Spec == Init /\ [][Next]_<<accepted, delivered>>

=============================================================================
