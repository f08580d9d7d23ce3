------------------------------ MODULE Streamer ------------------------------
(***************************************************************************)
(* workerThread (main.cpp) with CStreamer::handleRequests and the loop of  *)
(* rtpSendData: rounds over the sessions of a streamer.  Each round reads  *)
(* from every session; when one of them had nothing to say, or was refused *)
(* a request, the next NAL unit goes out, one packet after another, each   *)
(* to every session that plays.                                            *)
(*                                                                         *)
(* The list is SessionList, with its pointers.  A session reads whole      *)
(* requests and answers them, as RtspDialogue promises; UDP sockets are    *)
(* UdpTransport's.  A connection has room for a few messages: a send to a  *)
(* client that does not read waits, and the worker with it.                *)
(***************************************************************************)
EXTENDS SessionList, Integers, Sequences

CONSTANTS
  Requests,    \* what clients send
  Room,        \* messages that fit in a connection
  MaxPackets   \* bound: packets of a NAL unit

Answered == {"options", "setupTcp", "setupUdp", "play"}
Known    == Answered \cup {"teardown", "bad"}

ASSUME StreamerAssumption ==
  /\ Requests \subseteq Known
  /\ Room \in Nat \ {0} /\ MaxPackets \in Nat \ {0}

VARIABLES
  pc,         \* where the worker is
  element,    \* the loop variable of handleRequests and rtpSendData
  retVal,     \* what handleRequests will return
  packets,    \* packets of the NAL unit that are not sent to everyone yet
  given,      \* history: the sessions the current packet was sent to
  tcp,        \* m_TcpTransport
  streaming,  \* m_streaming
  stopped,    \* m_stopped
  inbox,      \* the request in the connection, "none" if there is none
  closed,     \* has the client closed its connection?
  space       \* room left in the connection

worker     == <<pc, element, retVal, packets, given>>
session    == <<tcp, streaming, stopped>>
connection == <<inbox, closed, space>>
vars       == <<list, worker, session, connection>>

TypeOK ==
  /\ ListTypeOK
  /\ pc \in {"loop", "requests", "handled", "packet", "ended", "killed"}
  /\ element \in Element \cup {Freed}
  /\ retVal \in BOOLEAN
  /\ packets \in 0 .. MaxPackets
  /\ given \subseteq Sessions
  /\ tcp \in [Sessions -> BOOLEAN]
  /\ streaming \in [Sessions -> BOOLEAN]
  /\ stopped \in [Sessions -> BOOLEAN]
  /\ inbox \in [Sessions -> Requests \cup {"none"}]
  /\ closed \in [Sessions -> BOOLEAN]
  /\ space \in [Sessions -> 0 .. Room]

-----------------------------------------------------------------------------
(* The connections.                                                        *)

\* a session and its connection as they begin; also what is left of a deleted one
Fresh(s) ==
  /\ tcp' = [tcp EXCEPT ![s] = FALSE]
  /\ streaming' = [streaming EXCEPT ![s] = FALSE]
  /\ stopped' = [stopped EXCEPT ![s] = FALSE]
  /\ inbox' = [inbox EXCEPT ![s] = "none"]
  /\ closed' = [closed EXCEPT ![s] = FALSE]
  /\ space' = [space EXCEPT ![s] = Room]

\* a session of a new connection, between two rounds
AddSession(s) ==
  /\ pc = "loop" /\ s \notin alive
  /\ AppendElement(s)
  /\ Fresh(s)
  /\ UNCHANGED worker

Request(s, r) ==
  /\ s \in alive /\ ~closed[s] /\ inbox[s] = "none"
  /\ inbox' = [inbox EXCEPT ![s] = r]
  /\ UNCHANGED <<list, worker, session, closed, space>>

Close(s) ==
  /\ s \in alive /\ ~closed[s]
  /\ closed' = [closed EXCEPT ![s] = TRUE]
  /\ UNCHANGED <<list, worker, session, inbox, space>>

\* the client reads what it was sent
Read(s) ==
  /\ s \in alive /\ ~closed[s] /\ space[s] < Room
  /\ space' = [space EXCEPT ![s] = Room]
  /\ UNCHANGED <<list, worker, session, inbox, closed>>

\* socketsend: it waits for room; what is sent to a closed connection is lost
CanSend(s) == space[s] > 0 \/ closed[s]

SocketSend(s) ==
  /\ CanSend(s)
  /\ space' = [space EXCEPT ![s] = IF closed[s] THEN @ ELSE @ - 1]

-----------------------------------------------------------------------------
(* handleRequests: one round.                                              *)

\* anySessions() is true, and handleRequests starts with the first
BeginRound ==
  /\ pc = "loop" /\ NotEmpty
  /\ pc' = "requests" /\ retVal' = TRUE
  /\ element' = next[Clients]
  /\ UNCHANGED <<list, packets, given, session, connection>>

\* session->handleRequests returns ret, and the round goes on behind it
Handled(ret) ==
  /\ pc = "requests" /\ element # Clients
  /\ pc' = "handled"
  /\ retVal' = (retVal /\ ret)
  /\ UNCHANGED <<list, element, packets, given>>

\* a request that is answered, and its effect on the session
HandleAnswered(s) ==
  /\ element = s /\ inbox[s] \in Answered
  /\ Handled(TRUE)
  /\ SocketSend(s)
  /\ tcp' = [tcp EXCEPT ![s] = (@ \/ inbox[s] = "setupTcp") /\ inbox[s] # "setupUdp"]
  /\ streaming' = [streaming EXCEPT ![s] = @ \/ inbox[s] = "play"]
  /\ inbox' = [inbox EXCEPT ![s] = "none"]
  /\ UNCHANGED <<stopped, closed>>

\* 400 Bad Request, and false like a timeout
HandleBad(s) ==
  /\ element = s /\ inbox[s] = "bad"
  /\ Handled(FALSE)
  /\ SocketSend(s)
  /\ inbox' = [inbox EXCEPT ![s] = "none"]
  /\ UNCHANGED <<session, closed>>

HandleTeardown(s) ==
  /\ element = s /\ inbox[s] = "teardown"
  /\ Handled(TRUE)
  /\ stopped' = [stopped EXCEPT ![s] = TRUE]
  /\ inbox' = [inbox EXCEPT ![s] = "none"]
  /\ UNCHANGED <<tcp, streaming, closed, space>>

\* the client has closed; an error drops what it sent before
HandleClosed(s) ==
  /\ element = s /\ closed[s]
  /\ Handled(TRUE)
  /\ stopped' = [stopped EXCEPT ![s] = TRUE]
  /\ UNCHANGED <<tcp, streaming, connection>>

HandleTimeout(s) ==
  /\ element = s /\ inbox[s] = "none" /\ ~closed[s]
  /\ Handled(FALSE)
  /\ UNCHANGED <<session, connection>>

Delete(s) == RemoveElement(s) /\ Fresh(s)
Keep      == UNCHANGED <<list, session, connection>>

\* mutant: m_stopped is looked at in the next session
NextSessionSwapped ==
  /\ pc = "handled"
  /\ pc' = "requests"
  /\ element' = next[element]
  /\ IF element' \in alive /\ stopped[element'] THEN Delete(element') ELSE Keep
  /\ UNCHANGED <<retVal, packets, given>>

\* mutant: next is read after the delete
NextSessionLate ==
  /\ pc = "handled"
  /\ pc' = "requests"
  /\ IF stopped[element] THEN Delete(element) ELSE Keep
  /\ element' = next'[element]
  /\ UNCHANGED <<retVal, packets, given>>

\* next is taken, then the session is deleted if it has stopped
NextSession ==
  /\ pc = "handled"
  /\ pc' = "requests"
  /\ element' = next[element]
  /\ IF stopped[element] THEN Delete(element) ELSE Keep
  /\ UNCHANGED <<retVal, packets, given>>

\* mutant: handleRequests returns true when one session had something to say
EndRoundAny ==
  /\ pc = "requests" /\ element = Clients
  /\ \/ ~retVal /\ (\A s \in alive : inbox[s] = "none") /\ pc' = "packet"
        /\ packets' \in 1 .. MaxPackets
        /\ element' = next[Clients]
     \/ (retVal \/ \E s \in alive : inbox[s] # "none") /\ pc' = "loop"
        /\ UNCHANGED <<element, packets>>
  /\ retVal' = TRUE
  /\ UNCHANGED <<list, given, session, connection>>

\* handleRequests returns: with false the next NAL unit is streamed
EndRound ==
  /\ pc = "requests" /\ element = Clients
  /\ \/ ~retVal /\ pc' = "packet"
        /\ packets' \in 1 .. MaxPackets
        /\ element' = next[Clients]
     \/ retVal /\ pc' = "loop"
        /\ UNCHANGED <<element, packets>>
  /\ retVal' = TRUE
  /\ UNCHANGED <<list, given, session, connection>>

-----------------------------------------------------------------------------
(* rtpSendData: one packet to all.                                         *)

Plays(s) == streaming[s] /\ ~stopped[s]

\* mutant: the loop ends with the first session that got the packet
SendPacketOnce(s) ==
  /\ pc = "packet" /\ element = s /\ Plays(s)
  /\ IF tcp[s] THEN SocketSend(s) ELSE UNCHANGED space
  /\ given' = given \cup {s}
  /\ element' = Clients
  /\ UNCHANGED <<list, pc, retVal, packets, session, inbox, closed>>

\* in the connection, or in a UDP datagram, which never waits
SendPacket(s) ==
  /\ pc = "packet" /\ element = s /\ Plays(s)
  /\ IF tcp[s] THEN SocketSend(s) ELSE UNCHANGED space
  /\ given' = given \cup {s}
  /\ element' = next[s]
  /\ UNCHANGED <<list, pc, retVal, packets, session, inbox, closed>>

PassOver(s) ==
  /\ pc = "packet" /\ element = s /\ ~Plays(s)
  /\ element' = next[s]
  /\ UNCHANGED <<list, pc, retVal, packets, given, session, connection>>

\* mutant: one packet too many
EndPacketPast ==
  /\ pc = "packet" /\ element = Clients
  /\ packets' = packets - 1
  /\ \/ packets > 0 /\ element' = next[Clients] /\ UNCHANGED pc
     \/ packets = 0 /\ pc' = "loop" /\ UNCHANGED element
  /\ given' = {}
  /\ UNCHANGED <<list, retVal, session, connection>>

\* mutant: the next NAL unit follows at once
EndPacketOn ==
  /\ pc = "packet" /\ element = Clients
  /\ packets' = IF packets > 1 THEN packets - 1 ELSE MaxPackets
  /\ element' = next[Clients] /\ given' = {}
  /\ UNCHANGED <<list, pc, retVal, session, connection>>

\* the next packet of the NAL unit, or StreamNal returns
EndPacket ==
  /\ pc = "packet" /\ element = Clients
  /\ packets' = packets - 1
  /\ \/ packets > 1 /\ element' = next[Clients] /\ UNCHANGED pc
     \/ packets = 1 /\ pc' = "loop" /\ UNCHANGED element
  /\ given' = {}
  /\ UNCHANGED <<list, retVal, session, connection>>

-----------------------------------------------------------------------------
(* The end of the worker.                                                  *)

\* anySessions() is false
Exit ==
  /\ pc = "loop" /\ ~NotEmpty
  /\ pc' = "ended"
  /\ UNCHANGED <<list, element, retVal, packets, given, session, connection>>

\* about to send in the connection of s
Sending(s) ==
  /\ element = s
  /\ \/ pc = "requests" /\ inbox[s] \in Answered \cup {"bad"}
     \/ pc = "packet" /\ Plays(s) /\ tcp[s]

\* SIGPIPE: the client has reset the connection that is written to
BrokenPipe(s) ==
  /\ Sending(s) /\ closed[s]
  /\ pc' = "killed"
  /\ UNCHANGED <<list, element, retVal, packets, given, session, connection>>

-----------------------------------------------------------------------------
(* The streamer begins with the session of the connection it was forked    *)
(* for.                                                                    *)
Init ==
  /\ \E s \in Sessions :
       /\ alive = {s}
       /\ next = [[e \in Element |-> Freed] EXCEPT ![s] = Clients, ![Clients] = s]
       /\ prev = next
  /\ pc = "loop" /\ element = Clients /\ retVal = TRUE
  /\ packets = 0 /\ given = {}
  /\ tcp = [s \in Sessions |-> FALSE]
  /\ streaming = [s \in Sessions |-> FALSE]
  /\ stopped = [s \in Sessions |-> FALSE]
  /\ inbox = [s \in Sessions |-> "none"]
  /\ closed = [s \in Sessions |-> FALSE]
  /\ space = [s \in Sessions |-> Room]

Handle(s) ==
  \/ HandleAnswered(s) \/ HandleBad(s) \/ HandleTeardown(s)
  \/ HandleClosed(s) \/ HandleTimeout(s)

Work ==
  \/ BeginRound \/ NextSession \/ EndRound \/ EndPacket \/ Exit
  \/ \E s \in Sessions : Handle(s) \/ SendPacket(s) \/ PassOver(s) \/ BrokenPipe(s)

Client(s) ==
  Close(s) \/ Read(s) \/ \E r \in Requests : Request(s, r)

Next == Work \/ \E s \in Sessions : AddSession(s) \/ Client(s)

\* the worker executes its next instruction unless it waits in a send
Spec == Init /\ [][Next]_vars /\ WF_vars(Work)

-----------------------------------------------------------------------------
(* Properties.                                                             *)

\* No loop over m_Clients follows a pointer into a deleted session, although
\* sessions are deleted in the middle of it (handleRequests, rtpSendData).
NoDangling ==
  pc \in {"requests", "handled", "packet"} => element \in Linked

\* "remove session here, so we wont have to send to it" (handleRequests): a
\* session that has stopped is gone before anything else is done.
StoppedGone ==
  \A s \in alive : stopped[s] => pc = "handled" /\ element = s

\* Each packet was sent to all sessions that play and to no other when the next
\* one begins (rtpSendData).
AllGiven ==
  pc = "packet" /\ element = Clients => given = {s \in alive : Plays(s)}

Rounds == INSTANCE SessionRounds WITH
  order <- ChainFrom(next[Clients]),
  work  <- CASE pc \in {"requests", "handled"} -> "requests"
             [] pc \in {"packet", "killed"} -> pc
             [] OTHER -> "none",
  todo  <- IF pc \in {"requests", "handled", "packet"} THEN ChainFrom(element) ELSE <<>>

\* The rounds over the pointers keep what SessionRounds promises: each session
\* once, in the order of arrival, whoever leaves on the way.
RoundsInOrder == Rounds!Spec

\* the worker waits in a send to a client that does not read, or is dead
Stuck ==
  \/ pc = "killed"
  \/ \E s \in Sessions : Sending(s) /\ ~CanSend(s)

\* Every session is read from again and again as long as it lives: no other
\* session, and no NAL unit, keeps it waiting for ever, unless the worker is stuck.
Polled ==
  \/ \A s \in Sessions : []<>(s \notin alive \/ (pc = "requests" /\ element = s))
  \/ <>[]Stuck

\* A closed connection costs its session in the end: it is deleted, unless the
\* worker is stuck.
ClosedLeaves ==
  \/ \A s \in Sessions : (s \in alive /\ closed[s]) ~> s \notin alive
  \/ <>[]Stuck

Silent(s) == s \in alive /\ inbox[s] = "none" /\ ~closed[s]

\* One client that is silent for good is enough for the stream to go on for all,
\* however the others keep asking; unless the worker is stuck.
StreamGoesOn ==
  \/ \A s \in Sessions : <>[]Silent(s) => []<>(pc = "packet")
  \/ <>[]Stuck
=============================================================================
