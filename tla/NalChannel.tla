----------------------------- MODULE NalChannel -----------------------------
(***************************************************************************)
(* What the packetizer promises: the NAL units handed over go through one  *)
(* queue, and each leaves it once and whole, in order, to every session    *)
(* that is streaming at that time.                                         *)
(***************************************************************************)
EXTENDS Naturals, Sequences

CONSTANTS Sessions, MaxNals

VARIABLES
  count,      \* NAL units handed over
  pending,    \* those not delivered yet
  streaming,  \* the sessions that take part
  delivered   \* what each session has been given

vars == <<count, pending, streaming, delivered>>

Init ==
  /\ count = 0
  /\ pending = <<>>
  /\ streaming = {}
  /\ delivered = [s \in Sessions |-> <<>>]

Submit ==
  /\ count < MaxNals
  /\ count' = count + 1
  /\ pending' = Append(pending, count + 1)
  /\ UNCHANGED <<streaming, delivered>>

\* the first n NAL units of the queue go out, n > 1 when they are aggregated
Deliver(n) ==
  /\ n \in 1 .. Len(pending)
  /\ pending' = SubSeq(pending, n + 1, Len(pending))
  /\ delivered' = [s \in Sessions |->
       IF s \in streaming THEN delivered[s] \o SubSeq(pending, 1, n) ELSE delivered[s]]
  /\ UNCHANGED <<count, streaming>>

Play(s) ==
  /\ s \notin streaming /\ delivered[s] = <<>>
  /\ streaming' = streaming \cup {s}
  /\ UNCHANGED <<count, pending, delivered>>

Stop(s) ==
  /\ s \in streaming
  /\ streaming' = streaming \ {s}
  /\ UNCHANGED <<count, pending, delivered>>

DeliverSome == \E n \in 1 .. MaxNals : Deliver(n)

Next == Submit \/ DeliverSome \/ \E s \in Sessions : Play(s) \/ Stop(s)

SafeSpec == Init /\ [][Next]_vars

\* no NAL unit stays in the queue for ever
Spec == SafeSpec /\ WF_vars(DeliverSome)
=============================================================================
