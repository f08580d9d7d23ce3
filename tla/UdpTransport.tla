---------------------------- MODULE UdpTransport ----------------------------
(***************************************************************************)
(* The UDP transport of the streamer: CStreamer::InitUdpTransport and      *)
(* ReleaseUdpTransport, the calls CRtspSession makes to them (InitTransport*)
(* in SETUP, the destructor), and the sockets of platglue-posix.h they     *)
(* open and close.                                                         *)
(*                                                                         *)
(* main() forks one worker process for each connection, and each worker    *)
(* owns a streamer with its own descriptor table; UDP ports belong to the  *)
(* host, so the port scans of the workers race with each other and with    *)
(* the other programs of the host.  Every bind() is therefore a step of    *)
(* its own.  testserver puts one session in a worker; the class keeps a    *)
(* list of them and counts its users, so the number is a parameter here.   *)
(***************************************************************************)
EXTENDS Integers, FiniteSets

CONSTANTS
  Workers,     \* slots for worker processes
  Sessions,    \* sessions a streamer can have; one in testserver
  FirstPort,   \* 6970 in the code
  PortMod,     \* 2^16, the range of u_short
  MaxFd,       \* bound: the largest descriptor of a process
  MaxSetups,   \* bound: the largest absolute value of m_udpRefCount
  ForeignPorts \* bound: ports that other programs of the host may use

PortLimit    == PortMod - 2            \* 0xFFFE
Port         == 1 .. PortMod - 1
Fd           == 0 .. MaxFd
NULLSOCKET   == 0
Closed       == -1                     \* the descriptor is not open
NotUdp       == 0                      \* open, but not a UDP socket (stdin)

ASSUME PortAssumption ==
  /\ PortMod \in Nat /\ FirstPort \in Nat
  /\ 0 < FirstPort /\ FirstPort < PortLimit
  /\ FirstPort % 2 = 0 /\ PortMod % 2 = 0
ASSUME BoundAssumption == MaxFd \in Nat /\ MaxSetups \in Nat \ {0}
ASSUME ForeignAssumption == ForeignPorts \subseteq Port

VARIABLES
  pc,          \* what a worker does: no process, its loop, or the port scan
  live,        \* the sessions in m_Clients of each streamer
  agreed,      \* transport in the last reply to SETUP, as the client knows it
  advertised,  \* server_port in that reply; 0 when it names none
  refCount,    \* m_udpRefCount
  rtpSocket,   \* m_RtpSocket
  rtcpSocket,  \* m_RtcpSocket
  rtpPort,     \* m_RtpServerPort
  rtcpPort,    \* m_RtcpServerPort
  scanPort,    \* the loop variable P of the port scan
  setupBy,     \* the session whose SETUP runs the port scan
  fdPort,      \* descriptor table: Closed, NotUdp, or the port bound
  foreign      \* ports bound by other programs

streamer == <<refCount, rtpSocket, rtcpSocket, rtpPort, rtcpPort>>
session  == <<live, agreed, advertised>>
vars     == <<pc, session, streamer, scanPort, setupBy, fdPort, foreign>>

TypeOK ==
  /\ pc \in [Workers -> {"down", "loop", "bindRtp", "bindRtcp"}]
  /\ live \in [Workers -> SUBSET Sessions]
  /\ agreed \in [Workers -> [Sessions -> {"none", "tcp", "udp"}]]
  /\ advertised \in [Workers -> [Sessions -> Port \cup {0}]]
  /\ refCount \in [Workers -> Int]
  /\ rtpSocket \in [Workers -> Fd]
  /\ rtcpSocket \in [Workers -> Fd]
  /\ rtpPort \in [Workers -> Port \cup {0}]
  /\ rtcpPort \in [Workers -> Port \cup {0}]
  /\ scanPort \in [Workers -> 0 .. PortMod - 1]
  /\ setupBy \in [Workers -> Sessions]
  /\ fdPort \in [Workers -> [Fd -> Port \cup {Closed, NotUdp}]]
  /\ foreign \subseteq ForeignPorts

-----------------------------------------------------------------------------
(* The sockets of the host.                                                *)

StartTable == [f \in Fd |-> IF f = 0 THEN NotUdp ELSE Closed]
EmptyTable == [f \in Fd |-> Closed]

PortFree(p) ==
  /\ p \notin foreign
  /\ \A w \in Workers : \A f \in Fd : fdPort[w][f] # p

ClosedFds(w) == {f \in Fd : fdPort[w][f] = Closed}

Bindable(w, p) == PortFree(p) /\ ClosedFds(w) # {}

(* POSIX gives a new socket the lowest descriptor that is not open: after  *)
(* a close(0) that is 0, the number udpsocketcreate returns for a failure. *)
LowestFd(w) ==
  CHOOSE f \in ClosedFds(w) : \A g \in ClosedFds(w) : f <= g

\* mutant: the failure of bind() is passed on as -1
UdpSocketCreateRaw(w, p) == IF Bindable(w, p) THEN LowestFd(w) ELSE -1

\* what udpsocketcreate(p) returns, and the table it leaves
UdpSocketCreate(w, p) == IF Bindable(w, p) THEN LowestFd(w) ELSE NULLSOCKET
TableWith(w, p) ==
  IF Bindable(w, p) THEN [fdPort[w] EXCEPT ![LowestFd(w)] = p] ELSE fdPort[w]

UdpSocketClose(table, f, g) == [table EXCEPT ![f] = Closed, ![g] = Closed]

\* the socket rtpSendData writes the packets of a UDP session to
RtpTarget(w) == fdPort[w][rtpSocket[w]]

-----------------------------------------------------------------------------
(* A worker process starts, ends or is killed.                             *)

FreshStreamer(w) ==
  /\ refCount'   = [refCount EXCEPT ![w] = 0]
  /\ rtpSocket'  = [rtpSocket EXCEPT ![w] = NULLSOCKET]
  /\ rtcpSocket' = [rtcpSocket EXCEPT ![w] = NULLSOCKET]
  /\ rtpPort'    = [rtpPort EXCEPT ![w] = 0]
  /\ rtcpPort'   = [rtcpPort EXCEPT ![w] = 0]

FreshSession(w, s) ==
  /\ agreed'     = [agreed EXCEPT ![w][s] = "none"]
  /\ advertised' = [advertised EXCEPT ![w][s] = 0]

\* a client connects: main() forks, the child makes a streamer and a session
Fork(w, s) ==
  /\ pc[w] = "down"
  /\ pc' = [pc EXCEPT ![w] = "loop"]
  /\ live' = [live EXCEPT ![w] = {s}]
  /\ fdPort' = [fdPort EXCEPT ![w] = StartTable]
  /\ FreshStreamer(w)
  /\ FreshSession(w, s)
  /\ UNCHANGED <<scanPort, setupBy, foreign>>

\* CStreamer::addSession for one more connection of the same streamer
AddSession(w, s) ==
  /\ pc[w] = "loop"
  /\ live[w] # {} /\ s \notin live[w]
  /\ live' = [live EXCEPT ![w] = @ \cup {s}]
  /\ FreshSession(w, s)
  /\ UNCHANGED <<pc, streamer, scanPort, setupBy, fdPort, foreign>>

ProcessEnds(w) ==
  /\ pc' = [pc EXCEPT ![w] = "down"]
  /\ live' = [live EXCEPT ![w] = {}]
  /\ fdPort' = [fdPort EXCEPT ![w] = EmptyTable]
  /\ UNCHANGED <<agreed, advertised, streamer, scanPort, setupBy, foreign>>

\* workerThread returns when anySessions() is false; the child then exits
Exit(w) == pc[w] = "loop" /\ live[w] = {} /\ ProcessEnds(w)

\* a signal ends it: the operator's at any point, and in the sends of the loop
\* SIGPIPE, which nobody handles
Killed(w) == pc[w] # "down" /\ ProcessEnds(w)

-----------------------------------------------------------------------------
(* SETUP.                                                                  *)

\* ++m_udpRefCount, return true, and the reply with the server_port
SetupDone(w, s, port) ==
  /\ refCount' = [refCount EXCEPT ![w] = @ + 1]
  /\ agreed' = [agreed EXCEPT ![w][s] = "udp"]
  /\ advertised' = [advertised EXCEPT ![w][s] = port]

\* InitTransport of a session in TCP mode opens nothing
SetupTcp(w, s) ==
  /\ pc[w] = "loop" /\ s \in live[w]
  /\ agreed' = [agreed EXCEPT ![w][s] = "tcp"]
  /\ advertised' = [advertised EXCEPT ![w][s] = 0]
  /\ UNCHANGED <<pc, live, streamer, scanPort, setupBy, fdPort, foreign>>

\* InitUdpTransport with a count that is not zero only counts
SetupUdpCounted(w, s) ==
  /\ pc[w] = "loop" /\ s \in live[w]
  /\ refCount[w] # 0 /\ refCount[w] < MaxSetups
  /\ SetupDone(w, s, rtpPort[w])
  /\ UNCHANGED <<pc, live, rtpSocket, rtcpSocket, rtpPort, rtcpPort,
                 scanPort, setupBy, fdPort, foreign>>

\* mutant: every SETUP scans, not only the first
SetupUdpScanAgain(w, s) ==
  /\ pc[w] = "loop" /\ s \in live[w]
  /\ pc' = [pc EXCEPT ![w] = "bindRtp"]
  /\ scanPort' = [scanPort EXCEPT ![w] = FirstPort]
  /\ setupBy' = [setupBy EXCEPT ![w] = s]
  /\ UNCHANGED <<live, agreed, advertised, streamer, fdPort, foreign>>

\* with a zero count it starts the port scan
SetupUdpScan(w, s) ==
  /\ pc[w] = "loop" /\ s \in live[w]
  /\ refCount[w] = 0
  /\ pc' = [pc EXCEPT ![w] = "bindRtp"]
  /\ scanPort' = [scanPort EXCEPT ![w] = FirstPort]
  /\ setupBy' = [setupBy EXCEPT ![w] = s]
  /\ UNCHANGED <<live, agreed, advertised, streamer, fdPort, foreign>>

NextScanPort(w) == (scanPort[w] + 2) % PortMod

\* mutant: m_RtpServerPort is set before the pair is known to be bound
BindRtpEager(w) ==
  LET p  == scanPort[w]
      fd == UdpSocketCreate(w, p)
  IN  /\ pc[w] = "bindRtp" /\ p < PortLimit
      /\ rtpSocket' = [rtpSocket EXCEPT ![w] = fd]
      /\ rtpPort' = [rtpPort EXCEPT ![w] = p]
      /\ fdPort' = [fdPort EXCEPT ![w] = TableWith(w, p)]
      /\ pc' = IF fd # NULLSOCKET THEN [pc EXCEPT ![w] = "bindRtcp"] ELSE pc
      /\ scanPort' = IF fd # NULLSOCKET THEN scanPort
                     ELSE [scanPort EXCEPT ![w] = NextScanPort(w)]
      /\ UNCHANGED <<session, refCount, rtcpSocket, rtcpPort, setupBy, foreign>>

\* mutant: the port is tried again until it is free
BindRtpRetry(w) ==
  LET p  == scanPort[w]
      fd == UdpSocketCreate(w, p)
  IN  /\ pc[w] = "bindRtp" /\ p < PortLimit
      /\ rtpSocket' = [rtpSocket EXCEPT ![w] = fd]
      /\ fdPort' = [fdPort EXCEPT ![w] = TableWith(w, p)]
      /\ pc' = IF fd # NULLSOCKET THEN [pc EXCEPT ![w] = "bindRtcp"] ELSE pc
      /\ UNCHANGED <<session, refCount, rtcpSocket, rtpPort, rtcpPort,
                     scanPort, setupBy, foreign>>

\* m_RtpSocket = udpsocketcreate(P), taken for a failure when it is 0
BindRtp(w) ==
  LET p  == scanPort[w]
      fd == UdpSocketCreate(w, p)
  IN  /\ pc[w] = "bindRtp" /\ p < PortLimit
      /\ rtpSocket' = [rtpSocket EXCEPT ![w] = fd]
      /\ fdPort' = [fdPort EXCEPT ![w] = TableWith(w, p)]
      /\ \/ /\ fd # NULLSOCKET
            /\ pc' = [pc EXCEPT ![w] = "bindRtcp"]
            /\ UNCHANGED scanPort
         \/ /\ fd = NULLSOCKET
            /\ scanPort' = [scanPort EXCEPT ![w] = NextScanPort(w)]
            /\ UNCHANGED pc
      /\ UNCHANGED <<session, refCount, rtcpSocket, rtpPort, rtcpPort, setupBy, foreign>>

\* mutant: the result of the second udpsocketcreate is not looked at
BindRtcpUnchecked(w) ==
  LET p  == scanPort[w]
      fd == UdpSocketCreate(w, p + 1)
  IN  /\ pc[w] = "bindRtcp"
      /\ rtcpSocket' = [rtcpSocket EXCEPT ![w] = fd]
      /\ fdPort' = [fdPort EXCEPT ![w] = TableWith(w, p + 1)]
      /\ rtpPort' = [rtpPort EXCEPT ![w] = p]
      /\ rtcpPort' = [rtcpPort EXCEPT ![w] = p + 1]
      /\ SetupDone(w, setupBy[w], p)
      /\ pc' = [pc EXCEPT ![w] = "loop"]
      /\ UNCHANGED <<live, rtpSocket, scanPort, setupBy, foreign>>

\* m_RtcpSocket = udpsocketcreate(P + 1) succeeds: the scan is over
BindRtcp(w) ==
  LET p  == scanPort[w]
      fd == UdpSocketCreate(w, p + 1)
  IN  /\ pc[w] = "bindRtcp" /\ fd # NULLSOCKET
      /\ rtcpSocket' = [rtcpSocket EXCEPT ![w] = fd]
      /\ fdPort' = [fdPort EXCEPT ![w] = TableWith(w, p + 1)]
      /\ rtpPort' = [rtpPort EXCEPT ![w] = p]
      /\ rtcpPort' = [rtcpPort EXCEPT ![w] = p + 1]
      /\ SetupDone(w, setupBy[w], p)
      /\ pc' = [pc EXCEPT ![w] = "loop"]
      /\ UNCHANGED <<live, rtpSocket, scanPort, setupBy, foreign>>

\* mutant: the first socket of the pair is not closed
BindRtcpFailsKeeps(w) ==
  LET p  == scanPort[w]
      fd == UdpSocketCreate(w, p + 1)
  IN  /\ pc[w] = "bindRtcp" /\ fd = NULLSOCKET
      /\ rtcpSocket' = [rtcpSocket EXCEPT ![w] = fd]
      /\ fdPort' = [fdPort EXCEPT ![w] = UdpSocketClose(TableWith(w, p + 1), fd, fd)]
      /\ scanPort' = [scanPort EXCEPT ![w] = NextScanPort(w)]
      /\ pc' = [pc EXCEPT ![w] = "bindRtp"]
      /\ UNCHANGED <<session, refCount, rtpSocket, rtpPort, rtcpPort, setupBy, foreign>>

\* it fails: both sockets are closed, the second being NULLSOCKET, that is 0
BindRtcpFails(w) ==
  LET p  == scanPort[w]
      fd == UdpSocketCreate(w, p + 1)
  IN  /\ pc[w] = "bindRtcp" /\ fd = NULLSOCKET
      /\ rtcpSocket' = [rtcpSocket EXCEPT ![w] = fd]
      /\ fdPort' = [fdPort EXCEPT ![w] =
                      UdpSocketClose(TableWith(w, p + 1), rtpSocket[w], fd)]
      /\ scanPort' = [scanPort EXCEPT ![w] = NextScanPort(w)]
      /\ pc' = [pc EXCEPT ![w] = "bindRtp"]
      /\ UNCHANGED <<session, refCount, rtpSocket, rtpPort, rtcpPort, setupBy, foreign>>

\* no port pair: counted, and answered 200 OK, all the same
ScanExhausted(w) ==
  /\ pc[w] = "bindRtp" /\ scanPort[w] >= PortLimit
  /\ SetupDone(w, setupBy[w], rtpPort[w])
  /\ pc' = [pc EXCEPT ![w] = "loop"]
  /\ UNCHANGED <<live, rtpSocket, rtcpSocket, rtpPort, rtcpPort,
                 scanPort, setupBy, fdPort, foreign>>

-----------------------------------------------------------------------------
(* The end of a session.                                                   *)

\* the destructor calls ReleaseUdpTransport, whatever the transport was
ReleaseUdpTransport(w) ==
  LET count == refCount[w] - 1 IN
  /\ refCount' = [refCount EXCEPT ![w] = count]
  /\ \/ /\ count = 0
        /\ fdPort' = [fdPort EXCEPT ![w] = UdpSocketClose(fdPort[w], rtpSocket[w], rtcpSocket[w])]
        /\ rtpSocket'  = [rtpSocket EXCEPT ![w] = NULLSOCKET]
        /\ rtcpSocket' = [rtcpSocket EXCEPT ![w] = NULLSOCKET]
        /\ rtpPort'    = [rtpPort EXCEPT ![w] = 0]
        /\ rtcpPort'   = [rtcpPort EXCEPT ![w] = 0]
     \/ /\ count # 0
        /\ UNCHANGED <<rtpSocket, rtcpSocket, rtpPort, rtcpPort, fdPort>>

\* TEARDOWN, or the client has closed: m_stopped, and the session is deleted
EndSession(w, s) ==
  /\ pc[w] = "loop" /\ s \in live[w]
  /\ refCount[w] > -MaxSetups
  /\ live' = [live EXCEPT ![w] = @ \ {s}]
  /\ ReleaseUdpTransport(w)
  /\ UNCHANGED <<pc, agreed, advertised, scanPort, setupBy, foreign>>

-----------------------------------------------------------------------------
(* Other programs of the host.                                             *)

ForeignBind(p) ==
  /\ PortFree(p)
  /\ foreign' = foreign \cup {p}
  /\ UNCHANGED <<pc, session, streamer, scanPort, setupBy, fdPort>>

ForeignClose(p) ==
  /\ p \in foreign
  /\ foreign' = foreign \ {p}
  /\ UNCHANGED <<pc, session, streamer, scanPort, setupBy, fdPort>>

-----------------------------------------------------------------------------
Init ==
  /\ pc = [w \in Workers |-> "down"]
  /\ live = [w \in Workers |-> {}]
  /\ agreed = [w \in Workers |-> [s \in Sessions |-> "none"]]
  /\ advertised = [w \in Workers |-> [s \in Sessions |-> 0]]
  /\ refCount = [w \in Workers |-> 0]
  /\ rtpSocket = [w \in Workers |-> NULLSOCKET]
  /\ rtcpSocket = [w \in Workers |-> NULLSOCKET]
  /\ rtpPort = [w \in Workers |-> 0]
  /\ rtcpPort = [w \in Workers |-> 0]
  /\ scanPort = [w \in Workers |-> FirstPort]
  /\ setupBy \in [Workers -> Sessions]
  /\ fdPort = [w \in Workers |-> EmptyTable]
  /\ foreign \in SUBSET ForeignPorts

\* what a worker process does by itself once a SETUP has started the scan
Scan(w) == BindRtp(w) \/ BindRtcp(w) \/ BindRtcpFails(w) \/ ScanExhausted(w)

Command(w, s) ==
  \/ SetupTcp(w, s) \/ SetupUdpCounted(w, s) \/ SetupUdpScan(w, s)
  \/ EndSession(w, s)

Process(w) ==
  \/ \E s \in Sessions : Fork(w, s) \/ AddSession(w, s) \/ Command(w, s)
  \/ Scan(w) \/ Exit(w) \/ Killed(w)

Host == \E p \in ForeignPorts : ForeignBind(p) \/ ForeignClose(p)

Next == Host \/ \E w \in Workers : Process(w)

\* a running process executes its next instruction: the scan is never blocked
Fairness == \A w \in Workers : WF_vars(Scan(w))

Spec == Init /\ [][Next]_vars /\ Fairness

\* the same with the ports of the other programs fixed for the whole run
QuietSpec == Init /\ [][\E w \in Workers : Process(w)]_vars /\ Fairness

-----------------------------------------------------------------------------
(* Properties.                                                             *)

\* A live session that was told a server_port in its SETUP reply has it: the
\* sockets rtpSendData uses are bound to that port and to the next one
\* (InitUdpTransport, ReleaseUdpTransport and the reply agree).
AdvertisedPair ==
  \A w \in Workers : \A s \in live[w] :
    LET p == advertised[w][s] IN
    p # 0 => RtpTarget(w) = p /\ fdPort[w][rtcpSocket[w]] = p + 1

\* Clients of different workers are never told the same server_port, however
\* the workers' port scans interleave.
DistinctPairs ==
  \A v, w \in Workers : \A r \in live[v], s \in live[w] :
    v # w /\ advertised[v][r] # 0 => advertised[v][r] # advertised[w][s]

\* As long as a session that has a port pair lives, no command replaces or
\* closes the socket its packets are sent from: a second SETUP counts, it
\* does not scan again.
SocketKept ==
  [][\A w \in Workers : \A s \in live[w] \cap live'[w] :
       advertised[w][s] # 0 =>
         /\ rtpSocket'[w] = rtpSocket[w]
         /\ RtpTarget(w)' = RtpTarget(w)]_vars

\* A SETUP that started the port scan is answered, or the process is gone:
\* the loop over u_short ports ends whatever the other programs hold.
ScanEnds ==
  \A w \in Workers : pc[w] = "bindRtp" ~> pc[w] \in {"loop", "down"}

\* The scan gives up every pair it cannot complete, and starts with no pair of
\* an earlier one, however SETUPs and sessions came and went: while it looks for
\* a port the worker holds none, except one that it got as descriptor 0 and took
\* for a failure.
ScanLeaksOnlyStdin ==
  \A w \in Workers : pc[w] = "bindRtp" =>
    \A f \in Fd \ {NULLSOCKET} : fdPort[w][f] = Closed
=============================================================================
