------------------------- MODULE UdpTransportProofs -------------------------
(* Theorems about UdpTransport, for any number of workers, any range of     *)
(* ports and any behaviour of the other programs of the host.               *)
EXTENDS UdpTransport, TLAPS, WellFoundedInduction

(* What the program counter says of the scan's loop variable.  The type     *)
(* invariant is inductive only together with it: P + 1 has to be a port.    *)
ScanRange ==
  \A w \in Workers :
    /\ scanPort[w] > 0
    /\ pc[w] = "bindRtcp" => scanPort[w] < PortLimit

TypeInv == TypeOK /\ ScanRange

(* No two descriptors, of one worker or of two, hold the same port.         *)
PortExclusive ==
  \A v, w \in Workers : \A f, g \in Fd :
    fdPort[v][f] = fdPort[w][g] /\ fdPort[v][f] \notin {Closed, NotUdp}
      => v = w /\ f = g

-----------------------------------------------------------------------------
(* The descriptor a new socket gets.                                        *)

LEMMA LowestFdFact ==
  ASSUME TypeOK, NEW w \in Workers, ClosedFds(w) # {}
  PROVE  LowestFd(w) \in Fd /\ fdPort[w][LowestFd(w)] = Closed
<1>1. ClosedFds(w) \subseteq Nat
  BY BoundAssumption DEF ClosedFds, Fd
<1>2. IsWellFoundedOn(OpToRel(<, Nat), Nat)
  BY NatLessThanWellFounded
<1>3. \E f \in ClosedFds(w) : \A g \in ClosedFds(w) : ~(<<g, f>> \in OpToRel(<, Nat))
  BY <1>1, <1>2, WFMin, Zenon
<1>4. \E f \in ClosedFds(w) : \A g \in ClosedFds(w) : f <= g
  <2>1. OpToRel(<, Nat) = {ss \in Nat \X Nat : ss[1] < ss[2]}
    BY DEF OpToRel
  <2>2. \A f, g \in Nat : g < f => <<g, f>> \in OpToRel(<, Nat)
    BY <2>1, Zenon
  <2>3. \A f, g \in Nat : ~(g < f) => f <= g
    OBVIOUS
  <2> QED
    BY <1>1, <1>3, <2>2, <2>3, Zenon
<1>5. LowestFd(w) \in ClosedFds(w)
  BY <1>4 DEF LowestFd
<1> QED
  BY <1>5 DEF ClosedFds

(* udpsocketcreate opens one closed descriptor on a port nobody holds, or   *)
(* leaves the table alone.  When it reports success it has opened it; the   *)
(* converse fails for descriptor 0.                                         *)
LEMMA CreateFact ==
  ASSUME TypeOK, NEW w \in Workers, NEW p \in Port
  PROVE  LET fd == UdpSocketCreate(w, p) IN
         /\ fd \in Fd
         /\ \/ TableWith(w, p) = fdPort[w] /\ fd = NULLSOCKET
            \/ /\ TableWith(w, p) = [fdPort[w] EXCEPT ![fd] = p]
               /\ fdPort[w][fd] = Closed
               /\ PortFree(p)
<1>1. CASE Bindable(w, p)
  BY <1>1, LowestFdFact DEF Bindable, UdpSocketCreate, TableWith
<1>2. CASE ~Bindable(w, p)
  BY <1>2, BoundAssumption DEF UdpSocketCreate, TableWith, Fd, NULLSOCKET
<1> QED
  BY <1>1, <1>2

LEMMA TableType ==
  ASSUME TypeOK, NEW w \in Workers, NEW p \in Port
  PROVE  TableWith(w, p) \in [Fd -> Port \cup {Closed, NotUdp}]
<1>1. fdPort[w] \in [Fd -> Port \cup {Closed, NotUdp}]
  BY DEF TypeOK
<1> QED
  BY <1>1, CreateFact

-----------------------------------------------------------------------------
(* Type correctness.                                                        *)

LEMMA PortFacts ==
  /\ FirstPort \in Port /\ FirstPort \in 0 .. PortMod - 1
  /\ PortLimit \in Int /\ PortLimit = PortMod - 2
  /\ Port = 1 .. PortMod - 1 /\ PortMod \in Nat
BY PortAssumption DEF PortLimit, Port

LEMMA FdFacts == NULLSOCKET \in Fd /\ 0 \in Fd /\ NULLSOCKET = 0
BY BoundAssumption DEF Fd, NULLSOCKET

(* The addition in the scan's loop never wraps u_short round, since the     *)
(* loop condition stops it two short of the end.                            *)
LEMMA NextScanPortFact ==
  ASSUME TypeInv, NEW w \in Workers, scanPort[w] < PortLimit
  PROVE  /\ NextScanPort(w) = scanPort[w] + 2
         /\ NextScanPort(w) \in Port
<1>1. scanPort[w] \in Nat /\ scanPort[w] + 2 < PortMod /\ PortMod \in Nat
  BY PortFacts DEF TypeInv, TypeOK
<1>2. \A a, b \in Nat : a < b => a % b = a
  OBVIOUS
<1> QED
  BY <1>1, <1>2, PortFacts DEF NextScanPort

LEMMA TypeInit == Init => TypeInv
<1> SUFFICES ASSUME Init PROVE TypeInv
  OBVIOUS
<1>1. foreign \subseteq ForeignPorts
  BY DEF Init
<1>2. EmptyTable \in [Fd -> Port \cup {Closed, NotUdp}]
  BY DEF EmptyTable
<1> QED
  BY <1>1, <1>2, PortFacts, FdFacts, PortAssumption DEF Init, TypeInv, TypeOK, ScanRange

LEMMA TypeStep == TypeInv /\ [Next]_vars => TypeInv'
<1> SUFFICES ASSUME TypeInv, [Next]_vars PROVE TypeInv'
  OBVIOUS
<1> USE DEF TypeInv, TypeOK, ScanRange
<1> USE PortFacts, FdFacts
<1>1. ASSUME NEW w \in Workers, NEW s \in Sessions, Fork(w, s) PROVE TypeInv'
  <2>1. StartTable \in [Fd -> Port \cup {Closed, NotUdp}]
    BY DEF StartTable
  <2> QED
    BY <1>1, <2>1 DEF Fork, FreshStreamer, FreshSession
<1>2. ASSUME NEW w \in Workers, NEW s \in Sessions, AddSession(w, s) PROVE TypeInv'
  BY <1>2 DEF AddSession, FreshSession, streamer
<1>3. ASSUME NEW w \in Workers, ProcessEnds(w) PROVE TypeInv'
  <2>1. EmptyTable \in [Fd -> Port \cup {Closed, NotUdp}]
    BY DEF EmptyTable
  <2> QED
    BY <1>3, <2>1 DEF ProcessEnds, streamer
<1>4. ASSUME NEW w \in Workers, NEW s \in Sessions, SetupTcp(w, s) PROVE TypeInv'
  BY <1>4 DEF SetupTcp, streamer
<1>5. ASSUME NEW w \in Workers, NEW s \in Sessions, SetupUdpCounted(w, s) PROVE TypeInv'
  BY <1>5 DEF SetupUdpCounted, SetupDone
<1>6. ASSUME NEW w \in Workers, NEW s \in Sessions, SetupUdpScan(w, s) PROVE TypeInv'
  BY <1>6, PortAssumption DEF SetupUdpScan, streamer
<1>7. ASSUME NEW w \in Workers, BindRtp(w) PROVE TypeInv'
  <2>1. scanPort[w] \in Port
    BY <1>7
  <2>2. /\ UdpSocketCreate(w, scanPort[w]) \in Fd
        /\ TableWith(w, scanPort[w]) \in [Fd -> Port \cup {Closed, NotUdp}]
    BY <2>1, CreateFact, TableType
  <2>3. NextScanPort(w) \in Port
    BY <1>7, NextScanPortFact DEF BindRtp
  <2>4. CASE UdpSocketCreate(w, scanPort[w]) # NULLSOCKET
    BY <1>7, <2>2, <2>4 DEF BindRtp, session
  <2>5. CASE UdpSocketCreate(w, scanPort[w]) = NULLSOCKET
    <3>1. /\ scanPort' = [scanPort EXCEPT ![w] = NextScanPort(w)]
          /\ UNCHANGED <<pc, session, refCount, rtcpSocket, rtpPort, rtcpPort, setupBy, foreign>>
      BY <1>7, <2>5 DEF BindRtp
    <3>2. /\ rtpSocket' \in [Workers -> Fd]
          /\ fdPort' \in [Workers -> [Fd -> Port \cup {Closed, NotUdp}]]
      BY <1>7, <2>2 DEF BindRtp
    <3>3. scanPort' \in [Workers -> 0 .. PortMod - 1]
      BY <2>3, <3>1
    <3>4. ScanRange'
      BY <1>7, <2>3, <3>1 DEF BindRtp
    <3> QED
      BY <3>1, <3>2, <3>3, <3>4 DEF session
  <2> QED
    BY <2>4, <2>5
<1>8. ASSUME NEW w \in Workers, BindRtcp(w) PROVE TypeInv'
  <2>1. scanPort[w] \in Port /\ scanPort[w] + 1 \in Port
    BY <1>8 DEF BindRtcp
  <2>2. /\ UdpSocketCreate(w, scanPort[w] + 1) \in Fd
        /\ TableWith(w, scanPort[w] + 1) \in [Fd -> Port \cup {Closed, NotUdp}]
    BY <2>1, CreateFact, TableType
  <2> QED
    BY <1>8, <2>1, <2>2 DEF BindRtcp, SetupDone
<1>9. ASSUME NEW w \in Workers, BindRtcpFails(w) PROVE TypeInv'
  <2>1. scanPort[w] + 1 \in Port
    BY <1>9 DEF BindRtcpFails
  <2>2. TableWith(w, scanPort[w] + 1) \in [Fd -> Port \cup {Closed, NotUdp}]
    BY <2>1, TableType
  <2>3. UdpSocketClose(TableWith(w, scanPort[w] + 1), rtpSocket[w], NULLSOCKET)
          \in [Fd -> Port \cup {Closed, NotUdp}]
    BY <2>2 DEF UdpSocketClose
  <2>4. NextScanPort(w) \in Port
    BY <1>9, NextScanPortFact DEF BindRtcpFails
  <2> QED
    BY <1>9, <2>3, <2>4 DEF BindRtcpFails, session
<1>10. ASSUME NEW w \in Workers, ScanExhausted(w) PROVE TypeInv'
  BY <1>10 DEF ScanExhausted, SetupDone
<1>11. ASSUME NEW w \in Workers, NEW s \in Sessions, EndSession(w, s) PROVE TypeInv'
  <2>1. UdpSocketClose(fdPort[w], rtpSocket[w], rtcpSocket[w])
          \in [Fd -> Port \cup {Closed, NotUdp}]
    BY DEF UdpSocketClose
  <2>2. CASE refCount[w] - 1 = 0
    <3>1. /\ fdPort' = [fdPort EXCEPT ![w] =
                         UdpSocketClose(fdPort[w], rtpSocket[w], rtcpSocket[w])]
          /\ refCount' = [refCount EXCEPT ![w] = refCount[w] - 1]
          /\ live' = [live EXCEPT ![w] = live[w] \ {s}]
          /\ rtpSocket' = [rtpSocket EXCEPT ![w] = NULLSOCKET]
          /\ rtcpSocket' = [rtcpSocket EXCEPT ![w] = NULLSOCKET]
          /\ rtpPort' = [rtpPort EXCEPT ![w] = 0]
          /\ rtcpPort' = [rtcpPort EXCEPT ![w] = 0]
          /\ UNCHANGED <<pc, agreed, advertised, scanPort, setupBy, foreign>>
      BY <1>11, <2>2 DEF EndSession, ReleaseUdpTransport
    <3>2. fdPort' \in [Workers -> [Fd -> Port \cup {Closed, NotUdp}]]
      BY <2>1, <3>1
    <3> QED
      BY <3>1, <3>2
  <2>3. CASE refCount[w] - 1 # 0
    BY <1>11, <2>3 DEF EndSession, ReleaseUdpTransport
  <2> QED
    BY <2>2, <2>3
<1>12. CASE Host
  BY <1>12 DEF Host, ForeignBind, ForeignClose, session, streamer
<1>13. CASE UNCHANGED vars
  BY <1>13 DEF vars, session, streamer
<1> QED
  BY <1>1, <1>2, <1>3, <1>4, <1>5, <1>6, <1>7, <1>8, <1>9, <1>10, <1>11, <1>12, <1>13
  DEF Next, Process, Command, Scan, Exit, Killed

(* Every variable keeps its type and the scan never leaves the range of a   *)
(* port number, for any number of workers and sessions (InitUdpTransport's  *)
(* u_short P and what the socket calls are given).                          *)
THEOREM TypeCorrect == Spec => []TypeOK
<1>1. TypeInv => TypeOK
  BY DEF TypeInv
<1> QED
  BY <1>1, TypeInit, TypeStep, PTL DEF Spec

-----------------------------------------------------------------------------
(* No port is held twice.                                                   *)

LEMMA ExclusiveStep ==
  ASSUME TypeInv, PortExclusive, [Next]_vars
  PROVE  PortExclusive'
<1> USE DEF PortExclusive, Closed, NotUdp
<1>0. \A w \in Workers : fdPort[w] \in [Fd -> Port \cup {Closed, NotUdp}]
  BY DEF TypeInv, TypeOK
<1>t. fdPort \in [Workers -> [Fd -> Port \cup {Closed, NotUdp}]]
  BY DEF TypeInv, TypeOK
(* a step that opens no port preserves it ... *)
<1>1. ASSUME NEW w \in Workers, NEW table \in [Fd -> Port \cup {Closed, NotUdp}],
             \A f \in Fd : table[f] \in {fdPort[w][f], Closed, NotUdp},
             fdPort' = [fdPort EXCEPT ![w] = table]
      PROVE  PortExclusive'
  BY <1>0, <1>t, <1>1
(* ... and so does one that opens a free port *)
<1>2. ASSUME NEW w \in Workers, NEW p \in Port,
             fdPort' = [fdPort EXCEPT ![w] = TableWith(w, p)]
      PROVE  PortExclusive'
  <2>1. CASE TableWith(w, p) = fdPort[w]
    BY <1>0, <1>1, <1>2, <2>1
  <2>2. CASE PortFree(p) /\ \E fd \in Fd : TableWith(w, p) = [fdPort[w] EXCEPT ![fd] = p]
    <3>1. PICK fd \in Fd : TableWith(w, p) = [fdPort[w] EXCEPT ![fd] = p]
      BY <2>2
    <3>2. \A v \in Workers : \A f \in Fd :
            fdPort'[v][f] = IF v = w /\ f = fd THEN p ELSE fdPort[v][f]
      BY <1>0, <1>t, <1>2, <3>1
    <3>3. \A v \in Workers : \A f \in Fd : fdPort[v][f] # p
      BY <2>2 DEF PortFree
    <3> QED
      BY <3>2, <3>3
  <2> QED
    BY <2>1, <2>2, CreateFact DEF TypeInv
<1>3. ASSUME NEW w \in Workers, NEW s \in Sessions, Fork(w, s) PROVE PortExclusive'
  <2>1. StartTable \in [Fd -> Port \cup {Closed, NotUdp}]
    BY DEF StartTable
  <2>2. \A f \in Fd : StartTable[f] \in {fdPort[w][f], Closed, NotUdp}
    BY DEF StartTable
  <2> QED
    BY <1>1, <1>3, <2>1, <2>2 DEF Fork
<1>4. ASSUME NEW w \in Workers, ProcessEnds(w) PROVE PortExclusive'
  <2>1. EmptyTable \in [Fd -> Port \cup {Closed, NotUdp}]
    BY DEF EmptyTable
  <2>2. \A f \in Fd : EmptyTable[f] \in {fdPort[w][f], Closed, NotUdp}
    BY DEF EmptyTable
  <2> QED
    BY <1>1, <1>4, <2>1, <2>2 DEF ProcessEnds
<1>5. ASSUME NEW w \in Workers, BindRtp(w) PROVE PortExclusive'
  <2>1. scanPort[w] \in Port
    BY <1>5, PortFacts DEF TypeInv, TypeOK, ScanRange
  <2> QED
    BY <1>2, <1>5, <2>1 DEF BindRtp
<1>6. ASSUME NEW w \in Workers, BindRtcp(w) PROVE PortExclusive'
  <2>1. scanPort[w] + 1 \in Port
    BY <1>6, PortFacts DEF BindRtcp, TypeInv, TypeOK, ScanRange
  <2> QED
    BY <1>2, <1>6, <2>1 DEF BindRtcp
<1>7. ASSUME NEW w \in Workers, BindRtcpFails(w) PROVE PortExclusive'
  <2> DEFINE table == UdpSocketClose(TableWith(w, scanPort[w] + 1), rtpSocket[w], NULLSOCKET)
  <2>1. scanPort[w] + 1 \in Port
    BY <1>7, PortFacts DEF BindRtcpFails, TypeInv, TypeOK, ScanRange
  <2>2. TableWith(w, scanPort[w] + 1) \in [Fd -> Port \cup {Closed, NotUdp}]
    BY <2>1, TableType DEF TypeInv
  <2>3. \A f \in Fd : TableWith(w, scanPort[w] + 1)[f] = fdPort[w][f] \/ f = NULLSOCKET
    <3>1. UdpSocketCreate(w, scanPort[w] + 1) = NULLSOCKET
      BY <1>7 DEF BindRtcpFails
    <3> QED
      BY <1>0, <2>1, <3>1, CreateFact DEF TypeInv
  <2>4. /\ table \in [Fd -> Port \cup {Closed, NotUdp}]
        /\ \A f \in Fd : table[f] \in {fdPort[w][f], Closed, NotUdp}
    BY <2>2, <2>3 DEF UdpSocketClose
  <2>5. fdPort' = [fdPort EXCEPT ![w] = table]
    BY <1>7 DEF BindRtcpFails
  <2> QED
    BY <1>1, <2>4, <2>5
<1>8. ASSUME NEW w \in Workers, NEW s \in Sessions, EndSession(w, s) PROVE PortExclusive'
  <2> DEFINE table == UdpSocketClose(fdPort[w], rtpSocket[w], rtcpSocket[w])
  <2>1. /\ table \in [Fd -> Port \cup {Closed, NotUdp}]
        /\ \A f \in Fd : table[f] \in {fdPort[w][f], Closed, NotUdp}
    BY <1>0 DEF UdpSocketClose
  <2>2. fdPort' = [fdPort EXCEPT ![w] = table] \/ UNCHANGED fdPort
    BY <1>8 DEF EndSession, ReleaseUdpTransport
  <2> QED
    BY <1>1, <2>1, <2>2
<1>9. ASSUME UNCHANGED fdPort PROVE PortExclusive'
  BY <1>9
<1> QED
  BY <1>3, <1>4, <1>5, <1>6, <1>7, <1>8, <1>9
  DEF Next, Host, Process, Command, Scan, Exit, Killed, AddSession, SetupTcp,
      SetupUdpCounted, SetupUdpScan, ScanExhausted, ForeignBind, ForeignClose, vars

(* However the port scans of any number of workers interleave, no two       *)
(* descriptors, of one worker or of two, are bound to the same port.        *)
THEOREM PortsExclusive == Spec => []PortExclusive
<1>1. Init => PortExclusive
  BY FdFacts DEF Init, PortExclusive, EmptyTable, Closed
<1>2. TypeInv /\ PortExclusive /\ [Next]_vars => PortExclusive'
  BY ExclusiveStep
<1> QED
  BY <1>1, <1>2, TypeInit, TypeStep, PTL DEF Spec

-----------------------------------------------------------------------------
(* One session in a streamer, as testserver runs it: m_udpRefCount is then  *)
(* the number of SETUPs the session has had, and the pair it was told is    *)
(* bound for as long as it lives.  (With two sessions neither holds: the    *)
(* end of one that never used UDP takes the count below zero.)              *)

OneSession == \E s : Sessions = {s}

(* The scan runs on behalf of a live session, with nothing counted yet.     *)
ScanOwner(w) ==
  pc[w] \in {"bindRtp", "bindRtcp"} => refCount[w] = 0 /\ setupBy[w] \in live[w]

(* Between the two binds the RTP socket already holds P.                    *)
HalfPair(w) ==
  pc[w] = "bindRtcp" => rtpSocket[w] # NULLSOCKET /\ RtpTarget(w) = scanPort[w]

(* What a session was told is nothing, or the streamer's current port.      *)
Told(w) == \A s \in live[w] : advertised[w][s] \in {0, rtpPort[w]}

(* A streamer with a port has bound the pair, counted it, and scans no more.*)
PairBound(w) ==
  live[w] # {} /\ rtpPort[w] # 0 =>
    /\ pc[w] = "loop" /\ refCount[w] > 0
    /\ RtpTarget(w) = rtpPort[w]
    /\ fdPort[w][rtcpSocket[w]] = rtpPort[w] + 1

CountSane(w) == live[w] # {} => pc[w] # "down" /\ refCount[w] >= 0

WorkerInv(w) ==
  ScanOwner(w) /\ HalfPair(w) /\ Told(w) /\ PairBound(w) /\ CountSane(w)

WorkerState(w) ==
  <<pc[w], live[w], advertised[w], refCount[w], rtpSocket[w], rtcpSocket[w],
    rtpPort[w], scanPort[w], setupBy[w], fdPort[w]>>

LEMMA WorkerFrame ==
  ASSUME NEW v \in Workers, WorkerInv(v), UNCHANGED WorkerState(v)
  PROVE  WorkerInv(v)'
BY DEF WorkerInv, WorkerState, ScanOwner, HalfPair, Told, PairBound, CountSane, RtpTarget

(* A step of one worker leaves the streamers of the others alone.           *)
LEMMA OthersKept ==
  ASSUME TypeInv, NEW w \in Workers, Process(w), NEW v \in Workers \ {w}
  PROVE  UNCHANGED WorkerState(v)
<1> USE DEF WorkerState, streamer, session, TypeInv, TypeOK
<1>1. ASSUME NEW s \in Sessions, Fork(w, s) PROVE UNCHANGED WorkerState(v)
  BY <1>1 DEF Fork, FreshStreamer, FreshSession
<1>2. ASSUME NEW s \in Sessions, AddSession(w, s) PROVE UNCHANGED WorkerState(v)
  BY <1>2 DEF AddSession, FreshSession
<1>3. CASE ProcessEnds(w)
  BY <1>3 DEF ProcessEnds
<1>4. ASSUME NEW s \in Sessions, SetupTcp(w, s) \/ SetupUdpScan(w, s)
      PROVE  UNCHANGED WorkerState(v)
  BY <1>4 DEF SetupTcp, SetupUdpScan
<1>5. ASSUME NEW s \in Sessions, SetupUdpCounted(w, s) PROVE UNCHANGED WorkerState(v)
  BY <1>5 DEF SetupUdpCounted, SetupDone
<1>6. CASE BindRtp(w)
  BY <1>6 DEF BindRtp
<1>7. CASE BindRtcp(w)
  BY <1>7 DEF BindRtcp, SetupDone
<1>8. CASE BindRtcpFails(w)
  BY <1>8 DEF BindRtcpFails
<1>9. CASE ScanExhausted(w)
  BY <1>9 DEF ScanExhausted, SetupDone
<1>10. ASSUME NEW s \in Sessions, EndSession(w, s) PROVE UNCHANGED WorkerState(v)
  <2>1. CASE refCount[w] - 1 = 0
    BY <1>10, <2>1 DEF EndSession, ReleaseUdpTransport
  <2>2. CASE refCount[w] - 1 # 0
    BY <1>10, <2>2 DEF EndSession, ReleaseUdpTransport
  <2> QED
    BY <2>1, <2>2
<1> QED
  BY <1>1, <1>2, <1>3, <1>4, <1>5, <1>6, <1>7, <1>8, <1>9, <1>10
  DEF Process, Command, Scan, Exit, Killed

PairInv == \A w \in Workers : WorkerInv(w)

LEMMA OwnStep ==
  ASSUME OneSession, TypeInv, NEW w \in Workers, WorkerInv(w), Process(w)
  PROVE  WorkerInv(w)'
<1> USE DEF WorkerInv, ScanOwner, HalfPair, Told, PairBound, CountSane, RtpTarget,
            streamer, session, TypeInv, TypeOK, OneSession
<1> USE PortFacts, FdFacts
<1>1. ASSUME NEW s \in Sessions, Fork(w, s) PROVE WorkerInv(w)'
  BY <1>1 DEF Fork, FreshStreamer, FreshSession
<1>2. ASSUME NEW s \in Sessions, AddSession(w, s) PROVE WorkerInv(w)'
  BY <1>2 DEF AddSession
<1>3. CASE ProcessEnds(w)
  BY <1>3 DEF ProcessEnds
<1>4. ASSUME NEW s \in Sessions, SetupTcp(w, s) PROVE WorkerInv(w)'
  BY <1>4 DEF SetupTcp
<1>5. ASSUME NEW s \in Sessions, SetupUdpCounted(w, s) PROVE WorkerInv(w)'
  BY <1>5 DEF SetupUdpCounted, SetupDone
<1>6. ASSUME NEW s \in Sessions, SetupUdpScan(w, s) PROVE WorkerInv(w)'
  BY <1>6 DEF SetupUdpScan
<1>7. CASE BindRtp(w)
  <2> DEFINE fd == UdpSocketCreate(w, scanPort[w])
  <2>1. scanPort[w] \in Port
    BY <1>7 DEF ScanRange
  <2>2. fd # NULLSOCKET => TableWith(w, scanPort[w])[fd] = scanPort[w]
    <3>1. /\ fd \in Fd
          /\ fd # NULLSOCKET => TableWith(w, scanPort[w]) = [fdPort[w] EXCEPT ![fd] = scanPort[w]]
      BY <2>1, CreateFact
    <3>2. fdPort[w] \in [Fd -> Port \cup {Closed, NotUdp}]
      OBVIOUS
    <3> HIDE DEF fd
    <3> QED
      BY <3>1, <3>2
  <2>3. rtpPort[w] = 0
    BY <1>7 DEF BindRtp
  <2>4. /\ rtpSocket'[w] = fd /\ fdPort'[w] = TableWith(w, scanPort[w])
        /\ \/ fd # NULLSOCKET /\ pc'[w] = "bindRtcp" /\ scanPort'[w] = scanPort[w]
           \/ pc'[w] = "bindRtp"
        /\ UNCHANGED <<live, advertised, refCount, rtpPort, setupBy>>
    BY <1>7 DEF BindRtp
  <2> HIDE DEF fd
  <2>5. pc[w] = "bindRtp"
    BY <1>7 DEF BindRtp
  <2> QED
    BY <2>2, <2>3, <2>4, <2>5
<1>8. CASE BindRtcp(w)
  <2> DEFINE p == scanPort[w]
             fd == UdpSocketCreate(w, p + 1)
  <2>1. p \in Port /\ p + 1 \in Port
    BY <1>8 DEF BindRtcp, ScanRange
  <2>2. /\ fd # NULLSOCKET /\ fd \in Fd
        /\ fdPort[w][fd] = Closed
        /\ TableWith(w, p + 1) = [fdPort[w] EXCEPT ![fd] = p + 1]
    BY <1>8, <2>1, CreateFact DEF BindRtcp
  <2>3. rtpSocket[w] # fd
    BY <1>8, <2>1, <2>2 DEF BindRtcp, Closed
  <2>4. /\ fdPort'[w] = TableWith(w, p + 1) /\ rtpPort'[w] = p
        /\ rtcpSocket'[w] = fd /\ rtpSocket'[w] = rtpSocket[w]
        /\ refCount'[w] = refCount[w] + 1 /\ pc'[w] = "loop"
        /\ live' = live /\ advertised'[w] = [advertised[w] EXCEPT ![setupBy[w]] = p]
    BY <1>8 DEF BindRtcp, SetupDone
  <2>5. refCount[w] = 0 /\ RtpTarget(w) = p /\ setupBy[w] \in Sessions
    BY <1>8 DEF BindRtcp
  <2> HIDE DEF fd
  <2>6. fdPort'[w][rtpSocket[w]] = p /\ fdPort'[w][fd] = p + 1
    BY <2>2, <2>3, <2>4, <2>5
  <2>7. \A s \in live'[w] : advertised'[w][s] = p
    BY <2>4, <2>5
  <2> QED
    BY <2>1, <2>4, <2>5, <2>6, <2>7
<1>9. CASE BindRtcpFails(w)
  BY <1>9 DEF BindRtcpFails
<1>10. CASE ScanExhausted(w)
  BY <1>10 DEF ScanExhausted, SetupDone
<1>11. ASSUME NEW s \in Sessions, EndSession(w, s) PROVE WorkerInv(w)'
  <2>1. live'[w] = {}
    BY <1>11 DEF EndSession
  <2>2. pc'[w] = "loop"
    BY <1>11 DEF EndSession
  <2> QED
    BY <2>1, <2>2
<1> QED
  BY <1>1, <1>2, <1>3, <1>4, <1>5, <1>6, <1>7, <1>8, <1>9, <1>10, <1>11
  DEF Process, Command, Scan, Exit, Killed

LEMMA PairStep ==
  ASSUME OneSession, TypeInv, PairInv, [Next]_vars
  PROVE  PairInv'
<1>1. ASSUME NEW w \in Workers, Process(w) PROVE PairInv'
  BY <1>1, OwnStep, OthersKept, WorkerFrame DEF PairInv
<1>2. CASE Host \/ UNCHANGED vars
  <2>1. \A w \in Workers : UNCHANGED WorkerState(w)
    BY <1>2 DEF Host, ForeignBind, ForeignClose, WorkerState, vars, streamer, session
  <2> QED
    BY <2>1, WorkerFrame DEF PairInv
<1> QED
  BY <1>1, <1>2 DEF Next

(* The theorems below assume OneSession of the constants.                   *)
LEMMA PairInvariant == ASSUME OneSession PROVE Spec => []PairInv
<1>1. Init => PairInv
  BY DEF Init, PairInv, WorkerInv, ScanOwner, HalfPair, Told, PairBound, CountSane
<1>2. TypeInv /\ PairInv /\ [Next]_vars => PairInv'
  BY PairStep
<1> QED
  BY <1>1, <1>2, TypeInit, TypeStep, PTL DEF Spec

(* With one session in a streamer, as testserver runs it, a live session    *)
(* that was told a server_port has the pair bound to that port and the next *)
(* (InitUdpTransport and the SETUP reply agree), whatever other workers and *)
(* other programs do with the ports of the host.                            *)
THEOREM PairAdvertised == ASSUME OneSession PROVE Spec => []AdvertisedPair
<1>1. PairInv => AdvertisedPair
  BY DEF PairInv, WorkerInv, Told, PairBound, AdvertisedPair
<1> QED
  BY <1>1, PairInvariant, PTL

(* With one session in a streamer, the clients of different workers are     *)
(* never told the same server_port, however their scans interleave.         *)
THEOREM PairsDistinct == ASSUME OneSession PROVE Spec => []DistinctPairs
<1>1. TypeInv /\ PortExclusive /\ PairInv => DistinctPairs
  <2> SUFFICES ASSUME TypeInv, PortExclusive, PairInv,
                      NEW v \in Workers, NEW w \in Workers, v # w,
                      NEW r \in live[v], NEW s \in live[w],
                      advertised[v][r] # 0, advertised[v][r] = advertised[w][s]
               PROVE  FALSE
    BY DEF DistinctPairs
  <2>1. RtpTarget(v) = advertised[v][r] /\ RtpTarget(w) = advertised[w][s]
    BY DEF PairInv, WorkerInv, Told, PairBound
  <2>2. /\ rtpSocket[v] \in Fd /\ rtpSocket[w] \in Fd
        /\ advertised[v][r] \in Port
    BY DEF TypeInv, TypeOK
  <2>3. advertised[v][r] \notin {Closed, NotUdp}
    BY <2>2, PortFacts DEF Closed, NotUdp
  <2> QED
    BY <2>1, <2>2, <2>3 DEF PortExclusive, RtpTarget
<1>2. TypeInv /\ PortExclusive /\ [Next]_vars => PortExclusive'
  BY ExclusiveStep
<1>3. Init => PortExclusive
  BY FdFacts DEF Init, PortExclusive, EmptyTable, Closed
<1> QED
  BY <1>1, <1>2, <1>3, PairInvariant, TypeInit, TypeStep, PTL DEF Spec

(* With one session in a streamer, no step replaces or closes the socket    *)
(* that the packets of a live session with a port pair are sent from.       *)
THEOREM SocketStable == ASSUME OneSession PROVE Spec => SocketKept
<1> DEFINE Kept == \A w \in Workers : \A s \in live[w] \cap live'[w] :
                     advertised[w][s] # 0 =>
                       /\ rtpSocket'[w] = rtpSocket[w]
                       /\ RtpTarget(w)' = RtpTarget(w)
<1>1. TypeInv /\ PairInv /\ [Next]_vars => Kept
  <2> SUFFICES ASSUME TypeInv, PairInv, [Next]_vars, NEW w \in Workers,
                      NEW s \in live[w] \cap live'[w], advertised[w][s] # 0
               PROVE  rtpSocket'[w] = rtpSocket[w] /\ RtpTarget(w)' = RtpTarget(w)
    OBVIOUS
  <2>1. pc[w] = "loop" /\ refCount[w] > 0
    BY DEF PairInv, WorkerInv, Told, PairBound
  <2>2. CASE Process(w)
    <3>1. ~ProcessEnds(w)
      BY DEF ProcessEnds, TypeInv, TypeOK
    <3>2. ~ \E t \in Sessions : EndSession(w, t)
      BY DEF EndSession, OneSession, TypeInv, TypeOK
    <3>3. \E t \in Sessions : AddSession(w, t) \/ SetupTcp(w, t) \/ SetupUdpCounted(w, t)
      BY <2>1, <2>2, <3>1, <3>2
      DEF Process, Command, Scan, Exit, Killed, Fork, SetupUdpScan, BindRtp, BindRtcp,
          BindRtcpFails, ScanExhausted
    <3> QED
      BY <3>3 DEF AddSession, SetupTcp, SetupUdpCounted, RtpTarget, streamer
  <2>3. ASSUME NEW v \in Workers, v # w, Process(v)
        PROVE  rtpSocket'[w] = rtpSocket[w] /\ RtpTarget(w)' = RtpTarget(w)
    BY <2>3, OthersKept DEF WorkerState, RtpTarget
  <2>4. CASE Host \/ UNCHANGED vars
    BY <2>4 DEF Host, ForeignBind, ForeignClose, vars, streamer, RtpTarget
  <2> QED
    BY <2>2, <2>3, <2>4 DEF Next
<1>2. Spec => [][Kept]_vars
  BY <1>1, PairInvariant, TypeInit, TypeStep, PTL DEF Spec
<1> QED
  BY <1>2 DEF SocketKept

-----------------------------------------------------------------------------
(* ScanLeaksOnlyStdin, for any number of sessions.  It needs no bound pair  *)
(* and no sane count: what is open besides descriptor 0 is one of the two   *)
(* sockets of the streamer, and a count that is not above zero means that   *)
(* nothing is open at all.  A count below zero comes up to zero without a   *)
(* socket, since only a zero count scans.                                   *)

OpenFds(w) == {f \in Fd \ {NULLSOCKET} : fdPort[w][f] # Closed}

HeldFds(w) ==
  CASE pc[w] = "bindRtcp"                -> {rtpSocket[w]}
    [] pc[w] = "loop" /\ refCount[w] > 0 -> {rtpSocket[w], rtcpSocket[w]}
    [] OTHER                             -> {}

LeakInv(w) ==
  /\ pc[w] # "down" => OpenFds(w) \subseteq HeldFds(w)
  /\ pc[w] \in {"bindRtp", "bindRtcp"} => refCount[w] = 0

LEMMA LeakFrame ==
  ASSUME NEW v \in Workers, LeakInv(v), UNCHANGED WorkerState(v)
  PROVE  LeakInv(v)'
BY DEF LeakInv, OpenFds, HeldFds, WorkerState

(* A bind opens at most the socket that it returns, or descriptor 0.        *)
LEMMA BindOpens ==
  ASSUME TypeInv, NEW w \in Workers, NEW p \in Port,
         fdPort'[w] = TableWith(w, p)
  PROVE  OpenFds(w)' \subseteq OpenFds(w) \cup ({UdpSocketCreate(w, p)} \ {NULLSOCKET})
<1> DEFINE fd == UdpSocketCreate(w, p)
<1>1. /\ fd \in Fd
      /\ \/ fdPort'[w] = fdPort[w]
         \/ fdPort'[w] = [fdPort[w] EXCEPT ![fd] = p]
  BY CreateFact DEF TypeInv
<1>2. fdPort[w] \in [Fd -> Port \cup {Closed, NotUdp}]
  BY DEF TypeInv, TypeOK
<1> HIDE DEF fd
<1>3. \A f \in Fd \ {fd} : fdPort'[w][f] = fdPort[w][f]
  BY <1>1, <1>2
<1> QED
  BY <1>3 DEF OpenFds, fd

LEMMA LeakOwnStep ==
  ASSUME TypeInv, NEW w \in Workers, LeakInv(w), Process(w)
  PROVE  LeakInv(w)'
<1> USE DEF LeakInv, TypeInv, TypeOK
<1>0. refCount[w] \in Int /\ NULLSOCKET = 0 /\ NULLSOCKET \in Fd
  BY FdFacts
<1>1. ASSUME NEW s \in Sessions, Fork(w, s) PROVE LeakInv(w)'
  <2>1. pc'[w] = "loop" /\ fdPort'[w] = StartTable
    BY <1>1 DEF Fork
  <2>2. OpenFds(w)' = {}
    BY <2>1, <1>0 DEF OpenFds, StartTable, Closed
  <2> QED
    BY <2>1, <2>2
<1>2. ASSUME NEW s \in Sessions, AddSession(w, s) \/ SetupTcp(w, s) PROVE LeakInv(w)'
  BY <1>2 DEF AddSession, SetupTcp, streamer, OpenFds, HeldFds
<1>3. CASE ProcessEnds(w)
  BY <1>3 DEF ProcessEnds
<1>4. ASSUME NEW s \in Sessions, SetupUdpCounted(w, s) PROVE LeakInv(w)'
  <2>1. /\ pc[w] = "loop" /\ pc'[w] = "loop" /\ refCount[w] # 0
        /\ refCount'[w] = refCount[w] + 1
        /\ UNCHANGED <<rtpSocket, rtcpSocket, fdPort>>
    BY <1>4 DEF SetupUdpCounted, SetupDone
  <2>2. OpenFds(w)' = OpenFds(w)
    BY <2>1 DEF OpenFds
  <2>3. CASE refCount[w] > 0
    BY <1>0, <2>1, <2>2, <2>3 DEF HeldFds
  <2>4. CASE ~(refCount[w] > 0)
    BY <1>0, <2>1, <2>2, <2>4 DEF HeldFds
  <2> QED
    BY <2>3, <2>4
<1>5. ASSUME NEW s \in Sessions, SetupUdpScan(w, s) PROVE LeakInv(w)'
  <2>1. /\ pc[w] = "loop" /\ pc'[w] = "bindRtp" /\ refCount[w] = 0
        /\ UNCHANGED <<refCount, fdPort>>
    BY <1>5 DEF SetupUdpScan, streamer
  <2>2. OpenFds(w)' = OpenFds(w) /\ HeldFds(w) = {}
    BY <2>1 DEF OpenFds, HeldFds
  <2> QED
    BY <2>1, <2>2
<1>6. CASE BindRtp(w)
  <2> DEFINE fd == UdpSocketCreate(w, scanPort[w])
  <2>1. /\ pc[w] = "bindRtp" /\ refCount'[w] = 0 /\ rtpSocket'[w] = fd
        /\ fdPort'[w] = TableWith(w, scanPort[w])
        /\ \/ fd # NULLSOCKET /\ pc'[w] = "bindRtcp"
           \/ fd = NULLSOCKET /\ pc'[w] = "bindRtp"
    BY <1>6 DEF BindRtp
  <2>2. OpenFds(w) = {}
    BY <2>1 DEF HeldFds
  <2>3. scanPort[w] \in Port
    BY <1>6, PortFacts DEF BindRtp, ScanRange
  <2>4. OpenFds(w)' \subseteq {fd} \ {NULLSOCKET}
    BY <2>1, <2>2, <2>3, BindOpens
  <2> HIDE DEF fd
  <2> QED
    BY <2>1, <2>4 DEF HeldFds
<1>7. CASE BindRtcp(w)
  <2> DEFINE p  == scanPort[w] + 1
             fd == UdpSocketCreate(w, p)
  <2>1. /\ pc[w] = "bindRtcp" /\ pc'[w] = "loop" /\ refCount[w] = 0
        /\ refCount'[w] = refCount[w] + 1
        /\ rtpSocket'[w] = rtpSocket[w] /\ rtcpSocket'[w] = fd
        /\ fdPort'[w] = TableWith(w, p)
    BY <1>7 DEF BindRtcp, SetupDone
  <2>2. p \in Port
    BY <2>1, PortFacts DEF ScanRange
  <2>3. OpenFds(w) \subseteq {rtpSocket[w]}
    BY <2>1 DEF HeldFds
  <2>4. OpenFds(w)' \subseteq OpenFds(w) \cup {fd}
    BY <2>1, <2>2, BindOpens
  <2> HIDE DEF fd
  <2>5. HeldFds(w)' = {rtpSocket[w], fd}
    BY <2>1 DEF HeldFds
  <2> QED
    BY <2>1, <2>3, <2>4, <2>5
<1>8. CASE BindRtcpFails(w)
  <2> DEFINE p  == scanPort[w] + 1
             fd == UdpSocketCreate(w, p)
             table == TableWith(w, p)
  <2>1. /\ pc[w] = "bindRtcp" /\ pc'[w] = "bindRtp" /\ refCount'[w] = 0
        /\ fd = NULLSOCKET /\ rtpSocket[w] \in Fd
        /\ fdPort'[w] = UdpSocketClose(table, rtpSocket[w], fd)
    BY <1>8 DEF BindRtcpFails
  <2>2. p \in Port
    BY <2>1, PortFacts DEF ScanRange
  <2>3. /\ table \in [Fd -> Port \cup {Closed, NotUdp}]
        /\ \/ table = fdPort[w]
           \/ table = [fdPort[w] EXCEPT ![fd] = p]
    BY <2>2, TableType, CreateFact
  <2>4. OpenFds(w) \subseteq {rtpSocket[w]}
    BY <2>1 DEF HeldFds
  <2> HIDE DEF fd, table
  <2>5. \A f \in Fd \ {rtpSocket[w], NULLSOCKET} : fdPort[w][f] = Closed
    BY <2>4 DEF OpenFds
  <2>6. \A f \in Fd \ {rtpSocket[w], NULLSOCKET} : table[f] = Closed
    BY <2>1, <2>3, <2>5
  <2>7. fdPort'[w][rtpSocket[w]] = Closed
        /\ \A f \in Fd \ {rtpSocket[w], NULLSOCKET} : fdPort'[w][f] = Closed
    BY <1>0, <2>1, <2>3, <2>6 DEF UdpSocketClose
  <2>8. OpenFds(w)' = {}
    BY <2>7 DEF OpenFds
  <2> QED
    BY <2>1, <2>8
<1>9. CASE ScanExhausted(w)
  <2>1. pc[w] = "bindRtp" /\ pc'[w] = "loop" /\ fdPort' = fdPort
    BY <1>9 DEF ScanExhausted
  <2>2. OpenFds(w)' = {}
    BY <2>1 DEF HeldFds, OpenFds
  <2> QED
    BY <2>1, <2>2
<1>10. ASSUME NEW s \in Sessions, EndSession(w, s) PROVE LeakInv(w)'
  <2>1. /\ pc[w] = "loop" /\ pc'[w] = "loop" /\ refCount'[w] = refCount[w] - 1
        /\ ReleaseUdpTransport(w)
    BY <1>10 DEF EndSession, ReleaseUdpTransport
  <2>2. CASE refCount[w] - 1 = 0
    <3>1. /\ OpenFds(w) \subseteq {rtpSocket[w], rtcpSocket[w]}
          /\ rtpSocket[w] \in Fd /\ rtcpSocket[w] \in Fd
      BY <1>0, <2>1, <2>2 DEF HeldFds
    <3>2. fdPort'[w] = UdpSocketClose(fdPort[w], rtpSocket[w], rtcpSocket[w])
      BY <2>1, <2>2 DEF ReleaseUdpTransport
    <3>3. fdPort[w] \in [Fd -> Port \cup {Closed, NotUdp}]
      OBVIOUS
    <3>4. OpenFds(w)' = {}
      BY <3>1, <3>2, <3>3 DEF OpenFds, UdpSocketClose
    <3> QED
      BY <2>1, <3>4
  <2>3. CASE refCount[w] - 1 # 0
    <3>1. UNCHANGED <<rtpSocket, rtcpSocket, fdPort>>
      BY <2>1, <2>3 DEF ReleaseUdpTransport
    <3>2. OpenFds(w)' = OpenFds(w)
      BY <3>1 DEF OpenFds
    <3>3. CASE refCount[w] > 0
      BY <1>0, <2>1, <2>3, <3>1, <3>2, <3>3 DEF HeldFds
    <3>4. CASE ~(refCount[w] > 0)
      BY <1>0, <2>1, <3>1, <3>2, <3>4 DEF HeldFds
    <3> QED
      BY <3>3, <3>4
  <2> QED
    BY <2>2, <2>3
<1> QED
  BY <1>1, <1>2, <1>3, <1>4, <1>5, <1>6, <1>7, <1>8, <1>9, <1>10
  DEF Process, Command, Scan, Exit, Killed

(* While it looks for a port a worker holds none, except one that it got as *)
(* descriptor 0: whatever SETUPs, TEARDOWNs and failed scans came before,   *)
(* of any number of sessions of any number of workers.                      *)
THEOREM ScanHoldsNothing == Spec => []ScanLeaksOnlyStdin
<1> DEFINE J == \A w \in Workers : LeakInv(w)
<1>1. Init => J
  BY DEF Init, LeakInv
<1>2. TypeInv /\ J /\ [Next]_vars => J'
  <2> SUFFICES ASSUME TypeInv, J, [Next]_vars PROVE J'
    OBVIOUS
  <2>1. ASSUME NEW w \in Workers, Process(w) PROVE J'
    BY <2>1, LeakOwnStep, OthersKept, LeakFrame
  <2>2. CASE Host \/ UNCHANGED vars
    <3>1. \A w \in Workers : UNCHANGED WorkerState(w)
      BY <2>2 DEF Host, ForeignBind, ForeignClose, WorkerState, vars, streamer, session
    <3> QED
      BY <3>1, LeakFrame
  <2> QED
    BY <2>1, <2>2 DEF Next
<1>3. J => ScanLeaksOnlyStdin
  BY DEF LeakInv, OpenFds, HeldFds, ScanLeaksOnlyStdin
<1> QED
  BY <1>1, <1>2, <1>3, TypeInit, TypeStep, PTL DEF Spec
=============================================================================
