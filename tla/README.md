# A verification of RTSP-H265 in TLA+

RTSP-H265 is a small RTSP server in C++.  `testserver` (`src/main/main.cpp`)
reads one `.hevc` file, listens on port 554, forks a worker process for each
connection, and streams the file's NAL units over RTP to the client of that
connection, on UDP or inside the RTSP connection (TCP).  This directory models
its core with TLA+, checks small instances with TLC, and proves the main
safety properties for every instance with TLAPS.

1. [Inventory](#1-inventory)
2. [The modules and the code](#2-the-modules-and-the-code)
3. [The runs](#3-the-runs)
4. [Fairness](#4-fairness)
5. [The proofs](#5-the-proofs)
6. [What the models show of the code](#6-what-the-models-show-of-the-code)
7. [What is not modelled](#7-what-is-not-modelled)
8. [Plan](#8-plan)
9. [Running it](#9-running-it)

## 1. Inventory

Paths are below `src/`.

| component | source | state | operations |
|---|---|---|---|
| UDP transport | `src/CStreamer.cpp:145-189`, `src/platglue-posix.h` | `m_udpRefCount`, `m_RtpSocket`, `m_RtcpSocket`, the two server ports; the process's descriptors, the host's ports | `InitUdpTransport`, `ReleaseUdpTransport`, `udpsocketcreate`, `udpsocketclose` |
| RTSP receiver, request parser | `src/CRtspSession.cpp` | per session `m_RtspCmdType`, `m_CSeq`, `m_TcpTransport`, `m_streaming`, `m_stopped`; static in `handleRequests`: `RecvBuf`, `bufPos`, `state` | `handleRequests`, `ParseRtspRequest`, `Handle_Rtsp*`, `InitTransport` |
| RTP packetizer | `src/CStreamer.cpp:59-366`, `src/RTPEnc.h` | `RTPMuxContext`: `buf`, `buf_ptr`, `cache`, `seq`, `timestamp`, `aggregation` | `rtpSendNALH265`, `rtpSendData`, `StreamNal` |
| NAL reader | `src/AVC.cpp`, `src/SimStreamer.cpp`, `main/main.cpp:34-51` | the position and the bytes left of the stream | `ff_avc_find_startcode`, `SelectNextNal`, restart of the file |
| Session list | `src/LinkedListElement.h` | `m_Next`, `m_Prev` of the streamer and of each session | insert, remove (in the destructor), walk |
| Streamer loop | `src/CStreamer.cpp:194-213`, `main/main.cpp:24-55` | the streamer, its sessions, the stream position | `handleRequests`, `workerThread` |
| Fork server | `main/main.cpp:57-111` | listening socket, descriptors, children | `bind`, `listen`, `accept`, `fork` |
| Legacy muxer | `src/RTPEnc.cpp`, `src/Network.cpp` | `RTPMuxContext`, a `UDPContext` | `rtpSendH264AVC`, `rtpSendH265HEVC`, `udpInit` |
| Helpers, other platforms | `src/Utils.cpp`, `src/platglue-{esp32,mbed}.h` | none | file reading, byte order, printing |

**How they interact.**  A worker is one thread.  `workerThread` calls
`CStreamer::handleRequests`, which calls `CRtspSession::handleRequests` for
each session in the list and deletes those that stopped; SETUP calls
`InitTransport`, which for UDP calls the streamer's `InitUdpTransport`, and the
session's destructor calls `ReleaseUdpTransport`.  When some session had
nothing to say within the timeout, or was refused its request
(`handleRequests` returned false: it is the conjunction over the sessions), the
loop takes the next NAL unit from the reader, gives it to `rtpSendNALH265`, and steps the timestamp; `rtpSendData`
walks the same session list and writes each packet to those that stream.
Workers share no memory; they share the UDP ports of the host, and inherit the
listening socket and every connection that their parent accepted before them.

**What is hard.**

* *Concurrency.* The port scans of the workers interleave with each other and
  with every other program that binds ports, one `bind` at a time; the sessions
  of one streamer share the static receive buffer.
* *Ordering and protocol sequences.* Requests come in any pieces; SETUP may be
  repeated; sessions of both transports come and go in any order and the count
  of UDP users must follow; a session may start or stop between any two NAL
  units; sessions are deleted while the list is walked.
* *Progress.* One thread serves all sessions of a worker and sends the stream:
  a busy client, or one that does not read, holds up the others.
* *Failure.* The second of two binds fails; no pair is free; a worker is killed
  by the operator in the middle of a scan, or by SIGPIPE in a send; the client
  closes in the middle of a request; `accept` and `fork` fail; the server is killed and
  started again while its workers live on.
* *Numbers.* Sequence numbers of 16 bits and timestamps of 32 wrap; payloads of
  exactly `RTP_PAYLOAD_MAX` bytes and one more; the port counter is a `u_short`;
  start codes have three or four bytes and lie across the words of the search.
* *Conventions.* Descriptor 0 is the failure value of a socket.

**What makes each component correct.**

* UDP transport: a session that is told a `server_port` has the pair, keeps it
  as long as it lives, and nobody else is told the same; the scan ends; a scan
  keeps no port it gave up.
* Receiver: each request is answered once, in order, with its own CSeq; no 200 OK answers the wrong request; the transport
  is the one agreed on; a session is played or ended by its own client only.
* Packetizer: what a session is sent is an unbroken stream, from the first
  packet after PLAY on, from which every NAL unit can be put together again;
  no payload exceeds the limit.
* NAL reader: it returns the NAL units of the file, all of them, whole, in
  order, and again from the start; the search misses no start code and reads
  nothing outside of its range.
* Session list: a walk visits each session once, in the order of arrival,
  although some are deleted under it; no deleted session is touched.
* Streamer loop: every session is read from, and every closed one leaves; the
  stream goes on while other clients talk, and each packet goes to all that play.
* Fork server: each connection gets exactly one worker, one process accepts, and
  the server comes back after it was killed.

## 2. The modules and the code

`PROJECT.json` maps each definition to its lines.  Definitions whose comment
begins with "mutant:" are bugs a programmer could have made in the definition
after them; the properties are shown to notice them.

### UdpTransport (MCUdpTransport, UdpTransportProofs)

State: for each worker its program counter, the five fields of the streamer,
the loop variable `P` (`scanPort`), and its descriptor table `fdPort`; what each
client was told (`agreed`, `advertised`); and the ports of other programs
(`foreign`).  Actions:

| action | code |
|---|---|
| `Fork`, `AddSession` | `main` accepts and forks; `CStreamer::addSession` |
| `SetupTcp`, `SetupUdpCounted`, `SetupUdpScan` | `Handle_RtspSETUP` by the transport and by `m_udpRefCount` |
| `BindRtp`, `BindRtcp`, `BindRtcpFails` | one `udpsocketcreate` of the scan each, with what follows up to the next |
| `ScanExhausted` | the loop ends at `0xFFFE`; the reply is 200 OK all the same |
| `EndSession` | `~CRtspSession` with its `ReleaseUdpTransport` |
| `Exit`, `Killed` | `workerThread` returns; a signal |
| `ForeignBind`, `ForeignClose` | other programs |

A `bind` is atomic in the kernel, and everything between two binds touches only
the process, so a bind with the code after it is one step.  `LowestFd` is the
rule of POSIX that a new socket gets the lowest closed descriptor: the code
depends on it through `NULLSOCKET`, which is 0.  A socket whose `bind` failed
is closed by `udpsocketcreate` in the same step.  `Closed` descriptors may run
out (`MaxFd`), as `socket` may fail.  Of the descriptors a child inherits only
0 is kept, the one with a meaning; the others never change.

### RtspReceive, RtspDialogue (MCRtspReceive, RtspReceiveProofs)

A request is a sequence of parts (`method`, `uri`, `cseq`, `transport`,
`header`, `end`): runs of bytes that the code treats alike.  Its header lines
stand in any order (`HeaderLines`), as the loop of `ParseRtspRequest` takes
them, and its CSeq is written with or without a space behind the colon
(`Spacings`).  A read returns any number of parts up to the room in the buffer, or, with `Segmented = FALSE`, all
there is.  `Receive` is one call of `handleRequests` that got bytes, its three
disjuncts its three ways out: wait for the rest (`ReceivePart`), 400
(`ReceiveInvalid`), or `Handle_RtspRequest` (`ReceiveRequest`, which includes
the parse, the handler, the reply, and the deletion of a stopped session by the
caller).  `ReceiveClosed` and `ReceiveTimeout` are the other results of
`socketread`.  `recvBuf` and `hdrState` are the statics, one for all sessions.
The parser's size argument is the size of the last read and not of the buffer;
`OutOfSize`, `Scanned`, `ParseSucceeds` and `ParsedCSeq` say what that does to a
CSeq line that lies past it.  With a space, which `parse_numeric_header` does
not skip then, the parse fails, and the lines before it have had their effect:
a Transport line has set `m_TcpTransport`.  Without a space the loop over the
digits ends before the first, which is not an error, and `m_CSeq` becomes
`atoi("")`, 0.  When the size falls among the digits themselves, the parse fails
(`across`, which is possible for the first line past the size).

`RtspDialogue` is the promise to a client: each request is answered once, in
order and with its CSeq, or refused; TEARDOWN ends the session.  The property
`KeepsDialogue` says that `RtspReceive` implements it, under the refinement
mapping at the end of the module: `answers` is the sequence of CSeqs of the
replies, a 400 becoming `Refused`.

### RtpPacketizer, RtpDelivery, NalChannel (RtpPacketizerProofs, RtpDeliveryProofs)

A NAL unit is its number and its size.  A packet says which bytes of which NAL
units it carries, its length, sequence number and timestamp.  `Submit` is the
call of `StreamNal`; one action stands for each branch of `rtpSendNALH265`, and
each `rtpSendData` is a step of its own:

| action | branch of `rtpSendNALH265` |
|---|---|
| `FlushBuffer` | buf is sent because the NAL unit does not fit, or will be fragmented |
| `Aggregate`, `AggregateLast` | the NAL unit is copied to buf; with `last` buf is sent |
| `SendSingle` | a single NAL unit packet, from where the data is |
| `BeginFragments`, `SendFragment`, `SendLastFragment` | the FU headers and the loop |
| `Play`, `Stop` | PLAY; the session stopped: between two NAL units, as the loop is |

The last step of a call also returns to `workerThread`, which steps the
timestamp.  `timestamp += 90000.0 / 30` is computed in double; out of the range
of `uint32_t` the conversion is undefined, and `NextTimestamps` has the two
outcomes that processors give.  `testserver` runs without aggregation and with
`last` = 0; both are fields or parameters of the code, and constants here.

`NalChannel` is what the packetizer promises: a queue of NAL units, from which
they leave once, whole and in order, to all sessions streaming at that time.
`RtpDelivery` says which NAL units a receiver can put together from its packets
(`Delivered`: every byte after the NAL header is in a fragment) and states that
`RtpPacketizer` implements `NalChannel`: `DeliversAll` with liveness,
`DeliversInOrder` its safety part.

### NalReader, StartcodeSearch (MCNalReader, NalReaderProofs)

A file is a sequence of bytes, of which only 00 and 01 are told apart from the
others.  `StartcodeSearch` has one action for each loop of
`ff_avc_find_startcode_internal`, one step for each turn: `Align` (byte by byte
to an aligned address), `Words` (four bytes at a time), `TailBytes` (to the
end); `Return` includes the look-back of `ff_avc_find_startcode` to the zero of
a four-byte code.  The bit trick that finds a zero byte in a word is
`ZeroInWord`.  `NalReader` calls the search twice in each `SelectNextNal`
(`SearchFirst`, `Skip`), hands the NAL unit over (`Deliver`), counts down `size`
as the code does, and begins the file again (`RestartFile`).  When the result
depends on memory outside of the file, or a length is negative, what the worker
does is undefined: it is "lost", and stays so.  `FileUnits` is the reference,
the NAL units that the byte stream format sees in the file, defined by where
the start codes are and without a search.

### SessionList, SessionRounds, Streamer (StreamerProofs, RoundsProofs)

`SessionList` has the pointers of `LinkedListElement`: the constructor
(`AppendElement`) and the destructor (`RemoveElement`); a pointer of a deleted
object reads as `Freed`.  `Streamer` adds the worker and its clients:

| action | code |
|---|---|
| `BeginRound`, `Handle*`, `NextSession`, `EndRound` | `CStreamer::handleRequests`: the loop, one call of the session's `handleRequests` by its outcome, `next` and the delete, the return |
| `SendPacket`, `PassOver`, `EndPacket` | the loop of `rtpSendData` over the sessions, for each packet of the NAL unit |
| `AddSession`, `Exit` | `addSession`; `anySessions()` is false |
| `BrokenPipe` | SIGPIPE in a send to a closed connection |
| `Request`, `Close`, `Read` | a client |

A session's own part is what `RtspDialogue` promises (each request answered
once), and the contents of packets are `RtpPacketizer`'s, so requests are whole
here and packets are counted.  What is kept is what the two loops can get wrong
together: the order of reading `next` and deleting, the conjunction in `retVal`,
`m_stopped` and `m_streaming`, and `socketsend`, which waits for room in the
connection.  Once a session is deleted its fields are reset (`Fresh`), since the
next object begins with the same values.  `SessionRounds` is the abstract
specification: the sessions in a sequence, and each round of requests and each
packet a walk through what the sequence was when the walk began; leaving is part
of one's own turn.  `RoundsInOrder` states that `Streamer` implements it, the
sequence being what the pointers lead to (`ChainFrom`).

### ForkServer (ForkServerProofs)

Processes with their descriptors: the listening socket (`master`), the
connections (`open`), and `ClientSocket` (`socket`).  `Accept` and `AcceptFails`
are the two outcomes of `accept`, `Fork` and `ForkFails` of `fork`; the code
looks at neither result, and its loop goes on as the model does: with -1 for a
connection, or with a connection and no worker.  A worker whose `recv` fails
with EBADF takes this for the end of its session, as `socketread` does.
`SessionEnds` is the end of a worker that nothing prevents: its client has
closed the connection (`Finished`), so the next read, or the send that the worker
is blocked in, fails.  `Teardown` is the end by a TEARDOWN, which may come or
not: the worker may be blocked in `socketsend` for as long as the client keeps
the connection without reading it (`Streamer`), or the request may be dropped
(`RtspReceive`).  `Ends`
is what the system does at the end of a process: descriptors are closed, and
with the last descriptor of the listening socket those that wait in it are
reset; a child is a zombie until its parent, which never waits, ends.  `Killed`
is any signal to any process, `Start` the program started again, which `bind`
allows only when nobody has the port.

## 3. The runs

| run | instance | shows |
|---|---|---|
| `udp_workers` | 2 workers, 1 session each; port pairs 4, 6; 2 ports that others take and free | `TypeOK`, `AdvertisedPair`, `DistinctPairs`, `SocketKept` |
| `udp_scan_ends` | 1 worker, 2 sessions; others take and free one port of each pair | `ScanEnds`, `ScanLeaksOnlyStdin` |
| `rtsp_dialogue` | 2 sessions, 2 requests each of 5 methods, reads return whole requests | `KeepsDialogue` (refinement, with liveness) |
| `rtsp_segmented` | 1 session, 3 requests with headers in several orders and both spacings, any pieces, a buffer they overflow | `TypeOK`, `OkMatches`, `TransportAgreed` |
| `rtsp_crosstalk` | 2 sessions, 2 requests each, any pieces, pipelined | `OwnCommand` |
| `rtsp_glue` | 1 session, split requests | refutes `SplitAnswered` |
| `rtp_plain` | 2 sessions, 3 NAL units of 4 sizes, no aggregation | `TypeOK`, `Unbroken`, `FitsBuffer`, `FragmentFlags`, `DeliversAll` (refinement, with liveness) |
| `rtp_aggregated` | the same with aggregation and `last` | `Unbroken`, `FitsBuffer`, `DeliversInOrder` |
| `nal_reader` | every string of up to 8 bytes, and files of up to 4 NAL units with start codes of both lengths | `TypeOK`, `FoundFirst`, `WordsInside`, `EveryUnit`, `UnitsInOrder`, `FileRestarts` (liveness) |
| `nal_short_codes` | the files only | refutes `AllUnits` |
| `streamer` | 2 sessions that come, ask, stop reading, close and come back; NAL units of 1 or 2 packets | `TypeOK`, `Ring`, `NoDangling`, `StoppedGone`, `AllGiven`, `RoundsInOrder` (refinement), `Polled`, `ClosedLeaves`, `StreamGoesOn` (liveness) |
| `fork_server` | 4 connections, 4 processes, 2 descriptors for connections, a backlog of 2 | `OneWorker`, `OneAcceptor`, `ClientsServed`, `ComesBack` (liveness) |

**The bounds, and why they are enough.**

* Ports are `1 .. PortMod - 1` with `PortMod` = 10 for 2^16 and `FirstPort` = 4
  for 6970: two pairs below the end of the loop.  That is enough for a pair to
  be taken entirely, in its first half only or in its second only, for the scan
  to go on to another, and to run out.  `ForeignPorts` is chosen so that halves
  of both pairs are contested.  Two workers suffice for every race between
  scans: the properties speak of two workers, and the proofs of section 5 hold
  of any number.
* `MaxFd` = 2 or 3: descriptor 0 and the two sockets of a pair, with or without
  one to spare.  With 2, the table is full while a pair is open.
* `MaxSetups` = 2 bounds the count in both directions; the count matters at 0
  only, and both signs are reached.
* Requests: `MaxRequests` = 2 or 3, enough for a request, one that follows on
  what the first left behind, and one more.  `BufSize` is counted in parts and
  is 6 in `rtsp_segmented`, where requests have 4 to 8: they fit, fill the
  buffer exactly, or overflow it; Transport stands before CSeq in some SETUPs and
  behind it in others, and each request comes with both spacings.  The other rtsp
  runs have Transport behind CSeq and, but for `rtsp_dialogue`, the space, as most
  clients write them.  In `rtsp_crosstalk` requests have 4 parts and
  the buffer has room for one and a half, so that the rest of one session's
  request and the beginning of another's meet in it, and one read may return
  the end of a request and the beginning of the next.  The method PAUSE stands for one that the server
  does not know.
* `MaxPayload` = 8 for 1400, and sizes 1, 8 (the largest single packet), 9 (two
  fragments) and 14 (three; FU payloads of 5 bytes: 5, 5, 2).  `SeqWrap` = 4 and
  `TsWrap` = 8 are passed by 3 NAL units of up to 3 packets, within a NAL unit too.
  With aggregation the sizes are 1, 2, 4 (the largest that is aggregated) and
  14; 5 to 8 is the gap of section 6, in which `Unbroken` is false.
* `MaxLen` = 8: a search in 8 bytes goes through all three loops, the words at
  every distance from both ends.  The files have up to 17 or more bytes, several
  words between two start codes, and NAL units that begin with 00, contain
  00 00 02, or have the least length of 2; up to four start codes of three bytes
  bring the end of the file back by up to four bytes, past a whole NAL unit.
  `PaddedFiles` begin with something else than a start code, which moves the end
  that the search is given behind the end of the file.
* Two sessions of a streamer: each may be first, last, or the only one when it
  is deleted or added, and the other is then its neighbour on both sides;
  longer rings are section 5's.  `Room` = 1: an answer fills a connection, and
  the next send waits.  `MaxPackets` = 2: a NAL unit goes on after its first
  packet.
* `fork_server`: the parent runs out of descriptors with its third client and
  out of processes with its fourth child, whichever comes first after kills and
  restarts; the backlog is full with two of four clients.

`CHECK_DEADLOCK FALSE` is set in the rtsp and rtp runs: clients stop sending
when their bounded requests are spent, and the packetizer when its bounded
stream is; in the nal runs, where a lost worker does nothing the model knows;
and in `streamer`, whose worker ends with its last session or is killed.  In
the udp runs and in `fork_server` deadlock is checked.

Symmetry is used in `udp_workers` (workers) and in `rtsp_crosstalk` (sessions),
whose properties are invariants or action properties; the runs with liveness
have none.

## 4. Fairness

* `UdpTransport`: `WF(Scan(w))`, the instructions of a worker that runs.  A
  `bind` never waits, so a process that is not killed executes the next one;
  being killed disables the scan.  Nothing is assumed of clients or of other
  programs.
* `RtspReceive`: `WF(Receive(s) \/ ReceiveClosed(s))`: `workerThread` calls
  `handleRequests` for every session again and again, `socketread` has a timeout,
  and TCP delivers what was sent.  It also assumes that `socketsend` returns,
  that is, that clients read what they are sent; a client that does not blocks
  its worker, which is `Streamer`'s to show.  Clients need not send anything.
* `RtpPacketizer`: `WF(rtpSendNALH265)`: a call that began runs to its end,
  with the same assumption on `socketsend`.  That the loop calls it again is not
  assumed, so `DeliversAll` is about the NAL units that were handed over.
* `NalReader`: `WF(Next)`, the instructions of a loop that runs.
* `Streamer`: `WF(Work)`: the worker executes its next instruction unless it
  waits in a send.  Nothing is assumed of clients: they need not read, ask or
  close.  The liveness properties have the way out that the code has: the worker
  may be stuck for ever in a send, or dead (`Stuck`).
* `ForkServer`: `WF(Step(p))` for each process: it executes its next instruction
  unless it waits in `accept` or for its client, or is killed.  A client that has
  closed its connection is noticed by the next `recv` or `send`, a blocked one
  included.  `Teardown` has no fairness: no TEARDOWN needs to be parsed.  `WF(Start)`: the
  operator starts the program again when it is down and can be started.  Clients
  need not close, and the ways in which they are not served for good are in the
  properties: `Exhausted` (nothing gives a descriptor of the parent back) and
  `Orphaned` (the parent is dead and a worker whose client keeps its connection keeps the
  port).

## 5. The proofs

`UdpTransportProofs`, `RtspReceiveProofs`, `RtpPacketizerProofs`,
`RtpDeliveryProofs`, `NalReaderProofs`, `StreamerProofs`, `RoundsProofs` and
`ForkServerProofs`; every theorem is for all values of the constants that the
assumptions in the modules, and those named in the theorem, allow.  Every
invariant that a run checks is a theorem, and so is the safety part of each of
the three refinements.

**The assumptions.**  `PortAssumption`: the first port is even, positive and
below the end of the loop, and the range of `u_short` is even: 6970 and 2^16 are
instances.  `PacketizerAssumption`: a payload limit above 4 (the headers of an
aggregation packet), NAL units that are not empty, a timestamp step within the
range of timestamps.  `StreamsAssumption`: files are finite sequences of bytes.
`ListAssumption` and `StreamerAssumption`: finitely many sessions, `m_Clients`
not among them, room for at least one message, NAL units of at least one packet.
`ReceiveAssumption`: a buffer of more than three parts, and any methods, number
of requests and header lines, in any order and with or without a space, with one
CSeq line among them and at most one Transport line.
`ForkAssumption`: limits of at least 1, and -1 is not a connection; there may be
infinitely many connections.
TLC evaluates them in each run.

**UdpTransport.**  `TypeCorrect`; `PortsExclusive`: no port is bound to two
descriptors, in one process or in two; and, under `OneSession` (a streamer has
at most one session, as in `testserver`), `PairAdvertised`, `PairsDistinct`
and `SocketStable`, which state `AdvertisedPair`, `DistinctPairs`
and `SocketKept`.  `OneSession` is needed: with two, the count goes
below zero (section 6), and what holds then is left to TLC.  The inductive
invariant, `WorkerInv`, relates the program counter, the count, the
advertisement and the descriptors of each worker: a scan runs for a live session
with nothing counted yet (`ScanOwner`); between the two binds the RTP socket is
bound to `P` (`HalfPair`); what a session was told is nothing or the current port
(`Told`); and a streamer with a port is in its loop, has counted the session, and
holds the pair (`PairBound`).  The last is what keeps a second SETUP from
scanning again, and what makes the `close(0)` after a failed second bind
harmless to the pair: that step only happens while there is no pair.
`DistinctPairs` then follows from the pair each session has and `PortsExclusive`.

`ScanHoldsNothing` (`ScanLeaksOnlyStdin`) needs no `OneSession`: it is about
what a worker holds whatever its count says.  Its invariant, `LeakInv`, says
that besides descriptor 0 the open descriptors are those that the fields of the
streamer name (`HeldFds`), and that the count is 0 during a scan: that is where a
scan would otherwise overwrite the only name of an open socket.

**RtspReceive.**  `TypeCorrect`; `CommandsAreOwn` (`OwnCommand`) for any number
of sessions that share the buffer, with requests pipelined and cut anywhere.
Its invariant, `OwnInv`, says that every part a client has under way is of its
own requests, that a buffer that is not empty has been classified, and that
`m_RtspCmdType` is a method this client has asked for (`CmdAsked`): a method is
only parsed from a read that begins with nothing kept, hence from the session's
own connection, which is why mixed pieces never start a foreign command.

`RepliesMatch` (`OkMatches`) and `TransportIsAgreed` (`TransportAgreed`) are for
clients that wait for each reply (`Sequential`) and assume one of two things:
`Alone`, there is one session in the process, as in `testserver`, which forks a
child for each client; or `ReadWhole`, each request comes in one read and fits
in the buffer.  Both are false without (two requests in one read, or pieces of
two sessions in the buffer, as section 6 says), so these are conditions on the
clients and not on the proof.  Under `Alone` requests may be cut anywhere and
overflow the buffer.  The invariant, `TurnInv`, says where a session stands:
every request has its reply and nothing is left (`Idle`), or the kept
parts followed by the unread ones are the last stretch of the one unanswered
request (`Stretch`), whose method, if already read, is in `m_RtspCmdType`
(`Busy`, `CmdKnown`).  When the end of the request is in the buffer, either
the request is there from its first line, and is parsed with its own CSeq (or 0)
and transport or not at all, or its first line was dropped, and it does not parse.
`TransportAgreed` has one exception, which the code has (section 6): the client's
last request is a SETUP without an answer, whose Transport line came before its
CSeq line (`SetupDropped`).  It is dropped with its last piece, and as the client
waits for the reply, there is no request after it: `Agreed`.
`ImplementsDialogue` is the safety part of `KeepsDialogue` under
`ReadWhole`, the mode of the run: the initial states are RtspDialogue's, and
each step is one of its steps or a stutter.

**RtpPacketizer.**  `TypeCorrect`; `PacketsFit` (`FitsBuffer`); `FlagsCorrect`
(`FragmentFlags`); `StreamUnbroken` (`Unbroken`) under `NoGap`, which says
that with aggregation no NAL unit is both too long to aggregate and too short
to fragment; without aggregation it is true.  `TypeInv` adds to the types what
the fragment loop keeps: it has covered between 2 and size - 1 bytes,
buf is empty, and the S bit is set exactly before the first fragment.
`FragmentFlags` needs that fragments are of NAL units already handed over
(`GoodFragment`).  `Unbroken` speaks of what was sent, and is not inductive: it
needs to know what the next packet will be.  `StreamInv` adds `QueueInv`, that
buf holds the NAL units right before the current one, and `TailInv`, that the
last packet of each streaming session is the one the next packet follows: the
same for all sessions whenever they joined.  Each action is then shown
to send a payload that `ComesNext` after such a packet, and that
`Leaves` the invariant behind it.

`DeliveryKept` (`DeliversInOrder`) is the refinement of `NalChannel`, under
`NoGap` as well.  `Delivered` is a fold over all packets a session was sent, so
the lemmas say what a fold is when one more is appended (`FlattenAppend`,
from the equation of the recursive function and a least counterexample), that
a new packet does not change what the earlier ones completed (`PutAppend`), and
that nor does a NAL unit handed over later (`PutAllLonger`, which needs
`GoodFragment`).  What a step gives the sessions (`Gives`) is then nothing for a
fragment, what is in buf for an aggregation packet, and the NAL unit for its
last fragment; that one needs `CoverInv`: every session that streams has, of the
current NAL unit, each byte up to the offset, because nobody joins in the
middle of one.  `QueueInv` gives the length of the queue.

**NalReader.**  `TypeCorrect`; `SearchCorrect` (`FoundFirst`) and `ReadsInside`
(`WordsInside`), for files of any length.  `LoopInv` is the invariant of the
three loops: no start code begins before the loop variable (`NoneBefore`), and
the words begin at an aligned address unless the end is so near that none is
read.  A word without a zero byte contains no beginning of a start code, which
is why the search may skip it, and the three bytes of `end` that are given up
cannot hold a code that a byte follows.  `TypeOK` is not trivial here: the
length handed over is a natural number because `Deliver` is only taken when
the second search ended behind the first.

`PassInOrder` (`UnitsInOrder`) and `PassIsComplete` (`EveryUnit`) compare with
`FileUnits`, in which the n-th NAL unit is the one with n - 1 start codes before
it.  The invariant, `UnitInv`, speaks of positions instead: the buffer begins
at a start code that has as many start codes before it as NAL units were handed
over (`Stands`), all handed over so far are whole, and the bytes left reach
to the end of the file, or to less when start codes have three bytes.
One step from a start code to the next counts one more (`NextCodeCount`), and
what `SelectNextNal` takes off the size is what `buf` moves, or more, so
the end is never behind the end of the file (`NextStands`).  With codes of four
bytes it is exactly there, so that the pass only ends when no start code
is left, which is `Complete`.

**Streamer.**  `TypeCorrect`, `RingKept` (`Ring`), `WalksAreSafe`
(`NoDangling`), `StoppedLeaves` (`StoppedGone`) and `PacketsForAll`
(`AllGiven`), for any number of sessions.  `Ring` by itself is not
inductive: two rings, one of them without `m_Clients`, satisfy it too.  The
invariant says in addition that there is one ring only: there are ages that grow
along `m_Next` until `m_Clients` is reached, with no session in between
(`Aged`).  A new session gets an age above all others (`AppendKeeps`), and the
ages of the others stand when one is deleted.  With ages, "the loop has passed
s" is a comparison, and `GivenSoFar` says that the packet was sent to exactly
those that play and were passed; at `m_Clients` these are all, which is
`AllGiven`.

`RoundsKept` (`RoundsInOrder`) is the refinement of `SessionRounds`.  The
mapping follows the pointers with a recursive function (`ChainFrom`).
The invariant says that there is a sequence of different sessions through which
`m_Next` goes (`IsList`); what the function yields is then that sequence
(`ChainOfList`, by a least counterexample, since the function is only
known by its equation).  `AppendList` and `RemoveList` say what the constructor
and the destructor do to it, and what is left of a walk is the part of the
sequence behind the place of the loop (`Standing`): a deletion in one's turn takes
out the element before that part and nothing of it.

**ForkServer.**  `AcceptorUnique` (`OneAcceptor`) and `WorkerUnique`
(`OneWorker`), on top of the types (the lemma `TypeCorrect`).  `OneAcceptor` needs `Inherited`: whoever runs has
the listening socket, so that a restart, which needs the port, finds nobody in
the loop.  `OneWorker` says nothing of the process between `accept` and `fork`;
`OneHolder` does: a connection is held by the listening process before the fork
and by its child behind it, never by two, and nobody holds one that waits in the
queue, in which each is once (`QueueWaits`).

**Only model-checked.**  Liveness (`ScanEnds`, `FileRestarts`, `Polled`,
`ClosedLeaves`, `StreamGoesOn`, `ClientsServed`, `ComesBack`, the liveness in
`KeepsDialogue` and in `DeliversAll`): fairness is defined with `ENABLED`, which
the prover does not handle.  What holds outside of `OneSession`, `NoGap`,
`Alone` and `ReadWhole` is in section 6.

## 6. What the models show of the code

Two runs refute what the repository says of itself (PROJECT.json quotes the
lines):

* `rtsp_glue`: a request in two pieces is glued together, but parsed with the
  size of the last piece: no answer, although its effects (PLAY starts to
  stream) take place.
* `nal_short_codes`: `SelectNextNal` takes 4 bytes off the size for each start
  code.  Each code of three bytes brings the end a byte nearer, and the last
  NAL unit of each pass is cut by as many bytes, or left out.
  `sample_1280x720.hevc` has 6 such codes, `sample_960x540.hevc` has 4.
  `UnitsInOrder` shows that nothing else is harmed.

Behaviours of the models that the properties had to leave room for:

* With two sessions in a streamer, which `testserver` never has,
  `~CRtspSession` releases the UDP transport even if the session never used it.
  The count becomes -1, and the next UDP SETUP, finding it not zero, opens
  nothing and is answered 200 OK with `server_port=0-0`.  `AdvertisedPair` is
  therefore about one session.
* After a failed second bind, `udpsocketclose(m_RtcpSocket)` is `close(0)`.  The
  next socket is descriptor 0, which `InitUdpTransport` takes for a failure: its
  port stays bound until the worker exits.  `ScanLeaksOnlyStdin` shows that
  descriptor 0 is all that is ever left over.
* A request in two pieces whose CSeq line came with the last, "CSeq:3" without a
  space, is answered with CSeq 0, while a comment asks that the sequence "must be
  kept through the whole session" (`src/CRtspSession.cpp:30`).  `OkMatches` leaves
  room for this and for nothing else.
* A split SETUP with Transport before CSeq fails at its CSeq line, and has
  changed the transport by then: the client has no answer, and a session that
  streams already goes on over the other transport.  `TransportAgreed` names
  this as its one exception.
* Of two requests in one read, the first is answered with the CSeq of the
  second, and the second not at all.
* With aggregation on, a NAL unit of 1397 to 1400 bytes is sent at once, and
  the NAL units that wait in buf are lost (`NoGap` in section 5).
* When the static buffer mixes the pieces of two sessions, one may be answered
  with the reply of an earlier command of its own; `OwnCommand` shows that this
  never plays or ends a session whose client did not ask for it.
* A client that does not read stops its worker in `socketsend`, and one that
  resets its connection may kill it (SIGPIPE is not ignored), with all sessions
  of the worker.  The stream goes on only in rounds in which some session had
  nothing to say or was refused a request; when all keep asking, it waits.
* A session that plays without SETUP has its packets sent to descriptor 0 and
  port 0.
* The parent never closes a connection it accepted.  After as many clients as
  it may have descriptors, `accept` fails at once, for ever, and the loop forks
  children that end at once and stay zombies.  When `fork` fails, the client's
  connection stays open without a worker.  `ClientsServed` excuses both
  (`Exhausted`); `OneWorker` shows that no other connection is harmed.  Children inherit the connections
  of the clients before them, so a connection whose session ended is not closed
  towards its client as long as the parent or a later worker lives.
* A child inherits the listening socket too.  When the parent dies, clients go
  on connecting to a port that nobody accepts from, and a restart fails in
  `bind` until the last worker has ended.  A TEARDOWN does not always end one: it
  may not be read, by a worker blocked in a send, or be dropped in pieces or behind
  another request.  Only the end of the connection is sure to.

Seen while modelling, and not in a model:

* `rtpSendData` is always called with `mark` 0, while a comment in it says
  "RTP marker bit must be set on last fragment" (`src/CStreamer.cpp:100`).
* The reply to OPTIONS offers PAUSE (`src/CRtspSession.cpp:398`), which gets
  400 Bad Request.

## 7. What is not modelled

* In the modelled parts: the wording of replies; the URL, hence 404 replies;
  malformed headers, other than a method that is not known; Content-Length lines,
  which `parse_numeric_header` reads too; the contents of the
  bytes of NAL units, but for start codes; SSRC and payload type; `usleep`.
  Parts of a request are not split further, so a read that ends inside of a line
  is represented by one that ends before or after it.  Sizes are counted in parts
  as if all were equally long: which header lines lie past the size of the last
  read depends on their number and not on their lengths.
* Whether packets arrive: RTP over UDP promises nothing, and what the
  packetizer does does not depend on it.  `wire` is what was sent.
* In `Streamer`: a request that a client sent before it closed may be read
  before or after the close is noticed, but not in part; a part of a message in
  a full connection.  `~CStreamer` deletes the sessions that are left; a worker
  leaves its loop only when none is.
* In `ForkServer`: the failure of `setsockopt` or `listen`, which ends the
  program before it begins; descriptors other than connections and the
  listening socket, which `UdpTransport` has.
* The legacy muxer (`src/RTPEnc.cpp` but for `initRTPMuxContext`,
  `src/Network.cpp`) is dead code: the declarations of `rtpSendH264AVC` and
  `rtpSendH265HEVC` are commented out in `src/RTPEnc.h:40-44`, and nothing calls
  them or `udpInit`.
* `readFile` reads the file once, before the program has a client; `Load16`,
  `Load32` and `dumpHex` keep no state.  The socket glue of ESP32 and mbed is
  not compiled by `main/Makefile`.

## 8. Plan

Every component that has state and is in use is modelled and checked, and the
safety properties of the runs are proved.  What is left:

1. `UdpTransport`: what holds of a streamer with any number of sessions, by an
   invariant that relates the count to the sessions that ended.
2. `RtspReceive`: that a request in pieces is answered or dropped as a whole,
   which is what `rtsp_glue` leaves of the promise of `RtspDialogue`.
3. `ForkServer`: a bound on the zombies and the descriptors of the parent by the
   number of clients it accepted.

## 9. Running it

    tlc -config udp_workers.cfg MCUdpTransport.tla
    tlapm RtpPacketizerProofs.tla

`PROJECT.json` says which module each `.cfg` is for.  The modules use the
community modules SequencesExt and FiniteSetsExt.
