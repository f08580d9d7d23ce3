----------------------------- MODULE RtpDelivery ----------------------------
(***************************************************************************)
(* RtpPacketizer seen by its receivers: which NAL units a session has been *)
(* sent in full, and NalChannel, which this implements.                    *)
(***************************************************************************)
EXTENDS RtpPacketizer, SequencesExt

\* the fragments of the NAL unit that packet k of w ends
ChainOf(w, k) ==
  {i \in 1 .. k : w[i].payload.kind = "fu" /\ w[i].payload.nals = w[k].payload.nals}

\* a receiver has the whole NAL unit when its last fragment comes: the NAL unit
\* header is in the FU headers, and every byte after it is in one fragment
Reassembled(w, k) ==
  LET size == sizes[FirstNal(w[k])] IN
  \A b \in NalHdr + 1 .. size :
    \E i \in ChainOf(w, k) : w[i].payload.from < b /\ b <= w[i].payload.upto

CompletedBy(w, k) ==
  IF w[k].payload.kind # "fu" THEN w[k].payload.nals
  ELSE IF w[k].payload.end /\ Reassembled(w, k) THEN w[k].payload.nals
  ELSE <<>>

Delivered(s) == FlattenSeq([k \in 1 .. Len(wire[s]) |-> CompletedBy(wire[s], k)])

Channel == INSTANCE NalChannel WITH
  count     <- Current,
  pending   <- IF stage = "idle" THEN queued ELSE Append(queued, Current),
  delivered <- [s \in Sessions |-> Delivered(s)]

\* Without aggregation every NAL unit handed over is delivered, whole, once and in
\* order, to each session that streams (rtpSendNALH265, rtpSendData).
DeliversAll == Channel!Spec

\* With aggregation the last ones may wait in buf for the next call: the same,
\* but for the promise that they leave it.
DeliversInOrder == Channel!SafeSpec
=============================================================================
