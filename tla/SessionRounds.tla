---------------------------- MODULE SessionRounds ---------------------------
(***************************************************************************)
(* What the streamer promises its sessions: they stand in the order they   *)
(* came in; every round of requests and every packet goes to each of them, *)
(* once and in this order; and a session leaves only in its turn of a      *)
(* round of requests.  All of it ends when the process is killed.          *)
(***************************************************************************)
EXTENDS Naturals, SequencesExt

CONSTANT Sessions

VARIABLES
  order,  \* the sessions, as they came
  work,   \* "none", "requests", "packet" or "killed"
  todo    \* the sessions that this round has not reached

vars == <<order, work, todo>>

Init == (\E s \in Sessions : order = <<s>>) /\ work = "none" /\ todo = <<>>

Come(s) ==
  /\ work = "none" /\ \A i \in DOMAIN order : order[i] # s
  /\ order' = Append(order, s)
  /\ UNCHANGED <<work, todo>>

Begin(kind) ==
  /\ work # "killed" /\ todo = <<>>
  /\ work' = kind /\ todo' = order
  /\ UNCHANGED order

\* it stays, or in a round of requests it may leave
Turn ==
  /\ todo # <<>>
  /\ todo' = Tail(todo)
  /\ \/ order' = order
     \/ /\ work = "requests"
        /\ \E i \in DOMAIN order : order[i] = Head(todo) /\ order' = RemoveAt(order, i)
  /\ UNCHANGED work

End ==
  /\ work # "killed" /\ todo = <<>>
  /\ work' = "none"
  /\ UNCHANGED <<order, todo>>

Kill ==
  /\ work' = "killed" /\ todo' = <<>>
  /\ UNCHANGED order

Next ==
  \/ \E s \in Sessions : Come(s)
  \/ Begin("requests") \/ Begin("packet")
  \/ Turn \/ End \/ Kill

Spec == Init /\ [][Next]_vars
=============================================================================
