---------------------------- MODULE RtspReceive -----------------------------
(***************************************************************************)
(* How a streamer receives and answers RTSP requests:                      *)
(* CRtspSession::handleRequests, ParseRtspRequest, Handle_RtspRequest and  *)
(* the handlers, called for each session by CStreamer::handleRequests.     *)
(*                                                                         *)
(* A request is a sequence of parts, which TCP may deliver in any pieces.  *)
(* The buffer, the position in it and the header state are static: one of  *)
(* each for all the sessions of a process.  A part is a run of bytes that  *)
(* the code treats alike, and the buffer size is counted in parts:         *)
(*   method     the command name and the space after it                    *)
(*   uri        the rest of the request line, with its CRLF                *)
(*   cseq, transport, header    a header line, with its CRLF               *)
(*   end        the empty line                                             *)
(***************************************************************************)
EXTENDS Integers, Sequences, FiniteSets, SequencesExt, FiniteSetsExt

CONSTANTS
  Sessions,      \* connections to one streamer; one in testserver
  Methods,       \* the methods the clients use
  Modes,         \* the transports they ask for: "tcp", "udp"
  HeaderLines,   \* the header lines that requests have, in their order
  Spacings,      \* is there a space behind "CSeq:"? TRUE, FALSE or both
  MaxRequests,   \* bound: requests a client sends
  BufSize,       \* parts that fit in RecvBuf, RTSP_BUFFER_SIZE
  Sequential,    \* does a client wait for a reply before its next request?
  Segmented      \* does TCP split what is sent?

Known == {"OPTIONS", "DESCRIBE", "SETUP", "PLAY", "TEARDOWN"}

ASSUME ReceiveAssumption ==
  /\ Methods \subseteq STRING /\ "UNKNOWN" \notin Methods
  /\ Modes \subseteq {"tcp", "udp"}
  /\ HeaderLines \subseteq Seq({"cseq", "transport", "header"})
  /\ \A lines \in HeaderLines :
       /\ \E i \in DOMAIN lines : lines[i] = "cseq"
       /\ \A i, j \in DOMAIN lines : lines[i] = lines[j] /\ lines[i] # "header" => i = j
  /\ Spacings \subseteq BOOLEAN /\ MaxRequests \in Nat
  /\ BufSize \in Nat /\ BufSize > 3
  /\ Sequential \in BOOLEAN /\ Segmented \in BOOLEAN

\* a SETUP, and no other request, has a Transport line; CSeq may stand anywhere
Requests ==
  {r \in [method : Methods, mode : Modes \cup {"none"},
          lines : HeaderLines, spaced : Spacings] :
     /\ r.method = "SETUP" <=> r.mode # "none"
     /\ r.method = "SETUP" <=> \E i \in DOMAIN r.lines : r.lines[i] = "transport"}

Parts(r) == <<"method", "uri">> \o r.lines \o <<"end">>

VARIABLES
  sent,       \* requests each client has sent; its CSeq counts them
  inbox,      \* parts in the connection, not read yet
  closed,     \* has the client closed its connection?
  phase,      \* a session: "none" before accept, "live", "gone" when deleted
  cmdType,    \* m_RtspCmdType
  cseq,       \* m_CSeq
  tcp,        \* m_TcpTransport
  streaming,  \* m_streaming
  replies,    \* replies sent on each connection
  recvBuf,    \* static RecvBuf up to the static bufPos
  hdrState    \* static state

client  == <<sent, inbox, closed>>
session == <<phase, cmdType, cseq, tcp, streaming, replies>>
vars    == <<client, session, recvBuf, hdrState>>

Part == [part : {"method", "uri", "cseq", "transport", "header", "end"},
         by : Sessions, n : 1 .. MaxRequests]
Reply == [ok : BOOLEAN, method : Known \cup {"UNKNOWN"}, cseq : 0 .. MaxRequests]

TypeOK ==
  /\ sent \in [Sessions -> Seq(Requests)]
  /\ inbox \in [Sessions -> Seq(Part)]
  /\ closed \in [Sessions -> BOOLEAN]
  /\ phase \in [Sessions -> {"none", "live", "gone"}]
  /\ cmdType \in [Sessions -> Known \cup {"UNKNOWN"}]
  /\ cseq \in [Sessions -> 0 .. MaxRequests]
  /\ tcp \in [Sessions -> BOOLEAN]
  /\ streaming \in [Sessions -> BOOLEAN]
  /\ replies \in [Sessions -> Seq(Reply)]
  /\ recvBuf \in Seq(Part) /\ Len(recvBuf) <= BufSize
  /\ hdrState \in {"Unknown", "GotMethod", "Invalid"}

RequestOf(p) == sent[p.by][p.n]

-----------------------------------------------------------------------------
(* The clients and their connections.                                      *)

\* main accepts the connection, addSession makes the session
Connect(s) ==
  /\ phase[s] = "none"
  /\ phase' = [phase EXCEPT ![s] = "live"]
  /\ cmdType' = [cmdType EXCEPT ![s] = "UNKNOWN"]
  /\ cseq' = [cseq EXCEPT ![s] = 0]
  /\ tcp' = [tcp EXCEPT ![s] = FALSE]
  /\ streaming' = [streaming EXCEPT ![s] = FALSE]
  /\ UNCHANGED <<client, replies, recvBuf, hdrState>>

Waiting(s) == Sequential /\ Len(replies[s]) < Len(sent[s])

Send(s, r) ==
  LET n == Len(sent[s]) + 1 IN
  /\ phase[s] = "live" /\ ~closed[s] /\ ~Waiting(s)
  /\ n <= MaxRequests
  /\ sent' = [sent EXCEPT ![s] = Append(@, r)]
  /\ inbox' = [inbox EXCEPT ![s] = @ \o
                 [i \in 1 .. Len(Parts(r)) |-> [part |-> Parts(r)[i], by |-> s, n |-> n]]]
  /\ UNCHANGED <<closed, session, recvBuf, hdrState>>

Close(s) ==
  /\ phase[s] = "live" /\ ~closed[s]
  /\ closed' = [closed EXCEPT ![s] = TRUE]
  /\ UNCHANGED <<sent, inbox, session, recvBuf, hdrState>>

-----------------------------------------------------------------------------
(* handleRequests: the buffer and the header state.                        *)

\* on entry an empty or a full buffer is cleared, "in case of bad client"
Restart  == Len(recvBuf) \in {0, BufSize}
OldBuf   == IF Restart THEN <<>> ELSE recvBuf
OldState == IF Restart THEN "Unknown" ELSE hdrState

\* mutant: bufPos is not subtracted from the room in the buffer
ReadSizesWhole(s) ==
  LET all == Min({Len(inbox[s]), BufSize}) IN
  IF Segmented THEN 1 .. all ELSE {all} \ {0}

\* what socketread may return: all there is, or less when TCP splits it
ReadSizes(s) ==
  LET all == Min({Len(inbox[s]), BufSize - Len(OldBuf)}) IN
  IF Segmented THEN 1 .. all ELSE {all} \ {0}

Glued(s, res) == OldBuf \o SubSeq(inbox[s], 1, res)

\* six bytes or more, and a CRLF somewhere
HasLine(buf) ==
  /\ \E i \in DOMAIN buf : buf[i].part # "end"
  /\ \E i \in DOMAIN buf : buf[i].part # "method"

\* one empty line is allowed before the method
Skipped(buf) == IF buf[1].part = "end" THEN 1 ELSE 0

\* mutant: one letter is enough to tell the method
MethodByLetter(buf) ==
  LET p == buf[Skipped(buf) + 1]
      m == IF p.part = "method" THEN RequestOf(p).method ELSE "UNKNOWN"
  IN  IF m = "PAUSE" THEN "PLAY" ELSE IF m \in Known THEN m ELSE "UNKNOWN"

MethodIn(buf) ==
  LET p == buf[Skipped(buf) + 1] IN
  IF p.part = "method" /\ RequestOf(p).method \in Known
    THEN RequestOf(p).method ELSE "UNKNOWN"

Classifies(buf) == OldState = "Unknown" /\ HasLine(buf)
NewCmd(s, buf)  == IF Classifies(buf) THEN MethodIn(buf) ELSE cmdType[s]
NewState(buf) ==
  IF ~Classifies(buf) THEN OldState
  ELSE IF MethodIn(buf) = "UNKNOWN" THEN "Invalid" ELSE "GotMethod"

\* the end of the header is looked for in the last four bytes only
HeaderEnds(buf) == Last(buf).part = "end"

-----------------------------------------------------------------------------
(* ParseRtspRequest.  Its size argument is what the last read returned, not *)
(* what the buffer holds.  parse_numeric_header looks no further: a CSeq   *)
(* line past that many bytes fails with a space behind its colon, which is *)
(* not skipped, and without one is 0, since none of its digits is read; a  *)
(* line whose digits lie across the size fails ("across").                 *)

LineParses(buf) ==
  LET k == Skipped(buf) IN
  Len(buf) >= k + 2 /\ buf[k + 1].part = "method" /\ buf[k + 2].part = "uri"

PartsOf(buf, kind) == {i \in DOMAIN buf : buf[i].part = kind}

OutOfSize(buf, res, across) ==
  {i \in PartsOf(buf, "cseq") :
     i > res /\ (RequestOf(buf[i]).spaced \/ (across /\ i = res + 1))}

\* mutant: what ParseRtspRequest returns is not looked at
ParseIgnored(buf, res, across) == TRUE

ParseSucceeds(buf, res, across) == LineParses(buf) /\ OutOfSize(buf, res, across) = {}

\* the headers of this kind that are read before the parse ends or fails
Scanned(buf, res, across, kind) ==
  {i \in PartsOf(buf, kind) : LineParses(buf) /\ \A j \in OutOfSize(buf, res, across) : i < j}

\* the headers of a request that was read together with the first are its
\* headers too: the last CSeq line wins
ParsedCSeq(s, buf, res, across) ==
  LET at == Scanned(buf, res, across, "cseq") IN
  IF at = {} THEN cseq[s] ELSE IF Max(at) <= res THEN buf[Max(at)].n ELSE 0

\* mutant: a Transport header without /TCP does not clear m_TcpTransport
ParsedTcpSticky(s, buf, res, across) ==
  LET at == Scanned(buf, res, across, "transport") IN
  IF NewCmd(s, buf) # "SETUP" \/ at = {} THEN tcp[s]
  ELSE tcp[s] \/ RequestOf(buf[Max(at)]).mode = "tcp"

ParsedTcp(s, buf, res, across) ==
  LET at == Scanned(buf, res, across, "transport") IN
  IF NewCmd(s, buf) # "SETUP" \/ at = {} THEN tcp[s]
  ELSE RequestOf(buf[Max(at)]).mode = "tcp"

-----------------------------------------------------------------------------
(* handleRequests: its returns.                                            *)

Consume(s, res) ==
  /\ phase[s] = "live"
  /\ inbox' = [inbox EXCEPT ![s] = SubSeq(@, res + 1, Len(@))]
  /\ UNCHANGED <<sent, closed>>

Answer(s, reply) == replies' = [replies EXCEPT ![s] = Append(@, reply)]

\* the method is known, or the first line is not a request: wait for the rest
ReceivePart(s, res) ==
  LET buf == Glued(s, res) IN
  /\ NewState(buf) # "Unknown" /\ ~HeaderEnds(buf)
  /\ Consume(s, res)
  /\ recvBuf' = buf /\ hdrState' = NewState(buf)
  /\ cmdType' = [cmdType EXCEPT ![s] = NewCmd(s, buf)]
  /\ UNCHANGED <<phase, cseq, tcp, streaming, replies>>

\* mutant: bufPos is not reset after the 400
ReceiveInvalidKept(s, res) ==
  LET buf == Glued(s, res) IN
  /\ NewState(buf) = "Invalid" /\ HeaderEnds(buf)
  /\ Consume(s, res)
  /\ Answer(s, [ok |-> FALSE, method |-> "UNKNOWN", cseq |-> cseq[s]])
  /\ recvBuf' = buf /\ hdrState' = "Invalid"
  /\ cmdType' = [cmdType EXCEPT ![s] = NewCmd(s, buf)]
  /\ UNCHANGED <<phase, cseq, tcp, streaming>>

\* 400 Bad Request, with whatever m_CSeq is
ReceiveInvalid(s, res) ==
  LET buf == Glued(s, res) IN
  /\ NewState(buf) = "Invalid" /\ HeaderEnds(buf)
  /\ Consume(s, res)
  /\ Answer(s, [ok |-> FALSE, method |-> "UNKNOWN", cseq |-> cseq[s]])
  /\ recvBuf' = <<>> /\ hdrState' = "Invalid"
  /\ cmdType' = [cmdType EXCEPT ![s] = NewCmd(s, buf)]
  /\ UNCHANGED <<phase, cseq, tcp, streaming>>

\* Handle_RtspRequest: a request, or a piece too short to tell, is parsed and
\* dropped; the command takes effect even when the parse fails.  A stopped
\* session is deleted by the caller, CStreamer::handleRequests, at once.
ReceiveRequest(s, res) ==
  LET buf == Glued(s, res)
      cmd == NewCmd(s, buf)
  IN  /\ \/ NewState(buf) = "Unknown"
         \/ NewState(buf) = "GotMethod" /\ HeaderEnds(buf)
      /\ Consume(s, res)
      /\ cmdType' = [cmdType EXCEPT ![s] = cmd]
      /\ \E across \in BOOLEAN :
           LET n == ParsedCSeq(s, buf, res, across) IN
           /\ cseq' = [cseq EXCEPT ![s] = n]
           /\ tcp' = [tcp EXCEPT ![s] = ParsedTcp(s, buf, res, across)]
           /\ IF ParseSucceeds(buf, res, across) /\ cmd \in Known \ {"TEARDOWN"}
                THEN Answer(s, [ok |-> TRUE, method |-> cmd, cseq |-> n])
                ELSE UNCHANGED replies
      /\ streaming' = [streaming EXCEPT ![s] = @ \/ cmd = "PLAY"]
      /\ phase' = [phase EXCEPT ![s] = IF cmd = "TEARDOWN" THEN "gone" ELSE @]
      /\ recvBuf' = <<>> /\ hdrState' = "Unknown"

Receive(s) ==
  \E res \in ReadSizes(s) :
    ReceivePart(s, res) \/ ReceiveInvalid(s, res) \/ ReceiveRequest(s, res)

\* the client has closed; an error drops what it sent before
ReceiveClosed(s) ==
  /\ phase[s] = "live" /\ closed[s]
  /\ phase' = [phase EXCEPT ![s] = "gone"]
  /\ recvBuf' = OldBuf /\ hdrState' = OldState
  /\ UNCHANGED <<client, cmdType, cseq, tcp, streaming, replies>>

\* nothing has arrived within readTimeoutMs
ReceiveTimeout(s) ==
  /\ phase[s] = "live"
  /\ recvBuf' = OldBuf /\ hdrState' = OldState
  /\ UNCHANGED <<client, session>>

-----------------------------------------------------------------------------
Init ==
  /\ sent = [s \in Sessions |-> <<>>]
  /\ inbox = [s \in Sessions |-> <<>>]
  /\ closed = [s \in Sessions |-> FALSE]
  /\ phase = [s \in Sessions |-> "none"]
  /\ cmdType = [s \in Sessions |-> "UNKNOWN"]
  /\ cseq = [s \in Sessions |-> 0]
  /\ tcp = [s \in Sessions |-> FALSE]
  /\ streaming = [s \in Sessions |-> FALSE]
  /\ replies = [s \in Sessions |-> <<>>]
  /\ recvBuf = <<>>
  /\ hdrState = "Unknown"

handleRequests(s) == Receive(s) \/ ReceiveClosed(s) \/ ReceiveTimeout(s)

Client(s) == Close(s) \/ \E r \in Requests : Send(s, r)

Next == \E s \in Sessions : Connect(s) \/ Client(s) \/ handleRequests(s)

\* the worker's loop calls handleRequests for every session again and again,
\* and what was sent arrives in the end
Fairness == \A s \in Sessions : WF_vars(Receive(s) \/ ReceiveClosed(s))

Spec == Init /\ [][Next]_vars /\ Fairness

-----------------------------------------------------------------------------
(* Properties.                                                             *)

\* Every 200 OK answers a request of its own client: the reply at place i of a
\* connection has the method of the request at place i, and its CSeq, or 0 when
\* that was written without a space, whatever pieces the requests arrive in
\* (handleRequests, ParseRtspRequest).
OkMatches ==
  \A s \in Sessions : \A i \in DOMAIN replies[s] :
    replies[s][i].ok =>
      /\ i <= Len(sent[s])
      /\ replies[s][i].cseq = i \/ (replies[s][i].cseq = 0 /\ ~sent[s][i].spaced)
      /\ replies[s][i].method = sent[s][i].method

TransportFirst(r) ==
  \E i, j \in DOMAIN r.lines : r.lines[i] = "transport" /\ r.lines[j] = "cseq" /\ i < j

\* the last request is a SETUP without an answer that was read up to its Transport
SetupDropped(s) ==
  /\ Len(replies[s]) < Len(sent[s])
  /\ LET r == Last(sent[s]) IN
     r.method = "SETUP" /\ TransportFirst(r) /\ (tcp[s] <=> r.mode = "tcp")

\* A session uses the transport that its last 200 OK to a SETUP agreed on, but
\* for one case: a later SETUP whose CSeq line, behind its Transport line, did
\* not parse (ParseRtspRequest sets m_TcpTransport before it fails).
TransportAgreed ==
  \A s \in Sessions :
    LET setups == {i \in DOMAIN replies[s] : replies[s][i].ok /\ replies[s][i].method = "SETUP"}
    IN  setups # {} =>
          (tcp[s] <=> sent[s][Max(setups)].mode = "tcp") \/ SetupDropped(s)

\* A session streams only when its own client has sent PLAY, and is ended only
\* by its own client: a TEARDOWN that it sent, or a closed connection.
OwnCommand ==
  \A s \in Sessions :
    LET asked == {sent[s][i].method : i \in DOMAIN sent[s]} IN
    /\ streaming[s] => "PLAY" \in asked
    /\ phase[s] = "gone" => "TEARDOWN" \in asked \/ closed[s]

\* "used to glue split requests" (the comment on bufPos): a request whose pieces
\* have all been read, with none of them kept to be glued, has had its answer.
SplitAnswered ==
  \A s \in Sessions :
    phase[s] = "live" /\ inbox[s] = <<>> /\ recvBuf = <<>>
      => Len(replies[s]) = Len(sent[s])

-----------------------------------------------------------------------------
(* What the sessions promise, see RtspDialogue.                            *)

Dialogue == INSTANCE RtspDialogue WITH
  Served  <- Known,
  hungUp  <- closed,
  asked   <- sent,
  answers <- [s \in Sessions |-> [i \in DOMAIN replies[s] |->
                IF replies[s][i].ok THEN replies[s][i].cseq ELSE 0]],
  playing <- [s \in Sessions |-> streaming[s]]

\* Each session keeps the promises of RtspDialogue: in-order answers with the
\* client's own CSeq, and an answer to each request in the end.
KeepsDialogue == Dialogue!Spec
=============================================================================
