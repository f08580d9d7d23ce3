---------------------------- MODULE RtspDialogue ----------------------------
(***************************************************************************)
(* What the RTSP side of a session promises a client that waits for each   *)
(* answer: every request is answered once, in order, with its own CSeq; a  *)
(* method that is not served is refused; TEARDOWN ends the session and has *)
(* no answer; the stream plays from the answer to PLAY on.  RtspReceive    *)
(* implements it as long as each read returns whole requests.              *)
(***************************************************************************)
EXTENDS Naturals, Sequences

CONSTANTS Sessions, Requests, Served, MaxRequests

VARIABLES phase, hungUp, asked, answers, playing

vars == <<phase, hungUp, asked, answers, playing>>

Refused == 0   \* in place of the CSeq

Pending(s) == Len(answers[s]) < Len(asked[s])

Init ==
  /\ phase = [s \in Sessions |-> "none"]
  /\ hungUp = [s \in Sessions |-> FALSE]
  /\ asked = [s \in Sessions |-> <<>>]
  /\ answers = [s \in Sessions |-> <<>>]
  /\ playing = [s \in Sessions |-> FALSE]

Open(s) ==
  /\ phase[s] = "none"
  /\ phase' = [phase EXCEPT ![s] = "live"]
  /\ UNCHANGED <<hungUp, asked, answers, playing>>

Ask(s, r) ==
  /\ phase[s] = "live" /\ ~hungUp[s] /\ ~Pending(s)
  /\ Len(asked[s]) < MaxRequests
  /\ asked' = [asked EXCEPT ![s] = Append(@, r)]
  /\ UNCHANGED <<phase, hungUp, answers, playing>>

Answer(s) ==
  LET n == Len(answers[s]) + 1
      m == asked[s][n].method
  IN  /\ phase[s] = "live" /\ Pending(s) /\ m # "TEARDOWN"
      /\ answers' = [answers EXCEPT ![s] = Append(@, IF m \in Served THEN n ELSE Refused)]
      /\ playing' = [playing EXCEPT ![s] = @ \/ m = "PLAY"]
      /\ UNCHANGED <<phase, hungUp, asked>>

HangUp(s) ==
  /\ phase[s] = "live" /\ ~hungUp[s]
  /\ hungUp' = [hungUp EXCEPT ![s] = TRUE]
  /\ UNCHANGED <<phase, asked, answers, playing>>

End(s) ==
  /\ phase[s] = "live"
  /\ hungUp[s] \/ (Pending(s) /\ asked[s][Len(asked[s])].method = "TEARDOWN")
  /\ phase' = [phase EXCEPT ![s] = "gone"]
  /\ UNCHANGED <<hungUp, asked, answers, playing>>

Next ==
  \E s \in Sessions :
    Open(s) \/ (\E r \in Requests : Ask(s, r)) \/ Answer(s) \/ HangUp(s) \/ End(s)

Spec == Init /\ [][Next]_vars /\ \A s \in Sessions : WF_vars(Answer(s) \/ End(s))
=============================================================================
