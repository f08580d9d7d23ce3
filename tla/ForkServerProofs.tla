-------------------------- MODULE ForkServerProofs --------------------------
(***************************************************************************)
(* Theorems about ForkServer, for any connections, any limits of processes *)
(* and descriptors, and whatever is killed and started again.              *)
(*                                                                         *)
(* OneWorker says nothing of the process between accept() and fork(), and  *)
(* is not inductive: a connection has one holder, the listening process    *)
(* before the fork and its child behind it, and nobody holds one that      *)
(* still waits to be accepted.                                             *)
(***************************************************************************)
EXTENDS ForkServer, FiniteSetTheorems, WellFoundedInduction, TLAPS

\* the descriptors of a process are finitely many
TypeInv == TypeOK /\ \A p \in Process : IsFiniteSet(open[p])

\* who runs has the listening socket open
Inherited == \A p \in Process : Runs(p) => master[p]

\* p is to fork a worker for c, or is its worker
Holds(p, c) == pc[p] \in {"fork", "serve"} /\ socket[p] = c

OneHolder ==
  \A p, q \in Process, c \in Connections :
    Holds(p, c) => c \in open[p] /\ conn[c] = "accepted" /\ (Holds(q, c) => p = q)

\* the connections in the queue wait, each once
QueueWaits ==
  \A i, j \in 1 .. Len(queue) :
    conn[queue[i]] = "waiting" /\ (queue[i] = queue[j] => i = j)

IInv == TypeInv /\ Inherited /\ OneAcceptor /\ OneHolder /\ QueueWaits

-----------------------------------------------------------------------------
(* The new process.                                                        *)

LEMMA NewProcessFact ==
  ASSUME Free # {}
  PROVE  NewProcess \in Process /\ pc[NewProcess] = "none"
<1>1. Free \subseteq Nat
  BY ForkAssumption DEF Free, Process
<1>2. IsWellFoundedOn(OpToRel(<, Nat), Nat)
  BY NatLessThanWellFounded
<1>3. \E f \in Free : \A g \in Free : ~(<<g, f>> \in OpToRel(<, Nat))
  BY <1>1, <1>2, WFMin, Zenon
<1>4. \E f \in Free : \A g \in Free : f <= g
  <2>1. OpToRel(<, Nat) = {ss \in Nat \X Nat : ss[1] < ss[2]}
    BY DEF OpToRel
  <2>2. \A f, g \in Nat : g < f => <<g, f>> \in OpToRel(<, Nat)
    BY <2>1, Zenon
  <2>3. \A f, g \in Nat : ~(g < f) => f <= g
    OBVIOUS
  <2> QED
    BY <1>1, <1>3, <2>2, <2>3, Zenon
<1>5. NewProcess \in Free
  BY <1>4 DEF NewProcess
<1> QED
  BY <1>5 DEF Free

-----------------------------------------------------------------------------
(* Type correctness.                                                       *)

LEMMA TypeInit == Init => TypeInv
<1> SUFFICES ASSUME Init PROVE TypeInv
  OBVIOUS
<1>1. IsFiniteSet({}) /\ Cardinality({}) = 0
  BY FS_EmptySet
<1> QED
  BY <1>1, ForkAssumption DEF Init, TypeInv, TypeOK

LEMMA TypeStep == TypeInv /\ [Next]_vars => TypeInv'
<1> SUFFICES ASSUME TypeInv, [Next]_vars PROVE TypeInv'
  OBVIOUS
<1> USE DEF TypeInv, TypeOK
<1>1. ASSUME NEW c \in Connections, Connect(c) PROVE TypeInv'
  <2>1. queue' \in Seq(Connections) /\ Len(queue') <= Backlog
    BY <1>1, ForkAssumption DEF Connect
  <2>2. conn' \in [Connections -> {"new", "waiting", "accepted", "reset"}]
    BY <1>1 DEF Connect
  <2> QED
    BY <1>1, <2>1, <2>2 DEF Connect, process
<1>2. ASSUME NEW c \in Connections, Close(c) PROVE TypeInv'
  BY <1>2 DEF Close, process
<1>3. CASE Start
  BY <1>3, NewProcessFact DEF Start
<1>4. ASSUME NEW p \in Process, Accept(p) PROVE TypeInv'
  <2>1. Head(queue) \in Connections /\ Tail(queue) \in Seq(Connections)
        /\ Len(Tail(queue)) <= Backlog
    BY <1>4, ForkAssumption DEF Accept
  <2>2. LET o == open[p] \cup {Head(queue)} IN
        o \in SUBSET Connections /\ IsFiniteSet(o) /\ Cardinality(o) <= MaxOpen
    <3>1. /\ IsFiniteSet(open[p] \cup {Head(queue)})
          /\ \/ Cardinality(open[p] \cup {Head(queue)}) = Cardinality(open[p])
             \/ Cardinality(open[p] \cup {Head(queue)}) = Cardinality(open[p]) + 1
      BY FS_AddElement
    <3>2. Cardinality(open[p]) \in Nat /\ Cardinality(open[p]) < MaxOpen
      BY <1>4, FS_CardinalityType DEF Accept
    <3> QED
      BY <2>1, <3>1, <3>2, ForkAssumption
  <2>3. \A q \in Process : open'[q] = IF q = p THEN open[p] \cup {Head(queue)} ELSE open[q]
    BY <1>4 DEF Accept
  <2>4. \A q \in Process :
          /\ open'[q] \in SUBSET Connections /\ IsFiniteSet(open'[q])
          /\ Cardinality(open'[q]) <= MaxOpen
    BY <2>2, <2>3
  <2> QED
    BY <1>4, <2>1, <2>4 DEF Accept
<1>5. ASSUME NEW p \in Process, AcceptFails(p) PROVE TypeInv'
  BY <1>5 DEF AcceptFails
<1>6. ASSUME NEW p \in Process, Fork(p) PROVE TypeInv'
  BY <1>6, NewProcessFact DEF Fork
<1>7. ASSUME NEW p \in Process, ForkFails(p) PROVE TypeInv'
  BY <1>7 DEF ForkFails
<1>8. ASSUME NEW p \in Process, WorkerReturns(p) PROVE TypeInv'
  <2>1. LET o == open[p] \ {socket[p]} IN
        o \in SUBSET Connections /\ IsFiniteSet(o) /\ Cardinality(o) <= MaxOpen
    <3>1. /\ IsFiniteSet(open[p] \ {socket[p]})
          /\ \/ Cardinality(open[p] \ {socket[p]}) = Cardinality(open[p])
             \/ Cardinality(open[p] \ {socket[p]}) = Cardinality(open[p]) - 1
      BY FS_RemoveElement
    <3>2. Cardinality(open[p]) \in Nat /\ Cardinality(open[p]) <= MaxOpen
      BY FS_CardinalityType
    <3> QED
      BY <3>1, <3>2, ForkAssumption
  <2>2. \A q \in Process : open'[q] = IF q = p THEN open[p] \ {socket[p]} ELSE open[q]
    BY <1>8 DEF WorkerReturns
  <2>3. \A q \in Process :
          /\ open'[q] \in SUBSET Connections /\ IsFiniteSet(open'[q])
          /\ Cardinality(open'[q]) <= MaxOpen
    BY <2>1, <2>2
  <2> QED
    BY <1>8, <2>3 DEF WorkerReturns
<1>9. ASSUME NEW p \in Process, Ends(p) PROVE TypeInv'
  <2>1. IsFiniteSet({}) /\ Cardinality({}) = 0
    BY FS_EmptySet
  <2>2. pc' \in [Process -> {"none", "accept", "fork", "serve", "break", "zombie"}]
    BY <1>9 DEF Ends
  <2>3. conn' \in [Connections -> {"new", "waiting", "accepted", "reset"}]
    BY <1>9 DEF Ends
  <2>4. queue' \in Seq(Connections) /\ Len(queue') <= Backlog
    BY <1>9, ForkAssumption DEF Ends
  <2> QED
    BY <1>9, <2>1, <2>2, <2>3, <2>4, ForkAssumption DEF Ends
<1>10. CASE UNCHANGED vars
  BY <1>10 DEF vars, process
<1> QED
  BY <1>1, <1>2, <1>3, <1>4, <1>5, <1>6, <1>7, <1>8, <1>9, <1>10
  DEF Next, Step, SessionEnds, Teardown, Exit, Killed

-----------------------------------------------------------------------------
(* One process accepts.                                                    *)

\* A process gets into the loop only by Start, when nobody has the port.
LEMMA AcceptorStep ==
  TypeInv /\ Inherited /\ OneAcceptor /\ [Next]_vars => (Inherited /\ OneAcceptor)'
<1> SUFFICES ASSUME TypeInv, Inherited, OneAcceptor, [Next]_vars
             PROVE  (Inherited /\ OneAcceptor)'
  OBVIOUS
<1> USE DEF TypeInv, TypeOK, Inherited, OneAcceptor, Runs, Accepts
<1>1. ASSUME NEW c \in Connections, Connect(c) \/ Close(c)
      PROVE  (Inherited /\ OneAcceptor)'
  BY <1>1 DEF Connect, Close, process
<1>2. CASE Start
  <2>1. \A q \in Process : ~Runs(q)
    BY <1>2 DEF Start
  <2> QED
    BY <1>2, <2>1, NewProcessFact DEF Start
<1>3. ASSUME NEW p \in Process, Accept(p) \/ AcceptFails(p) \/ ForkFails(p)
      PROVE  (Inherited /\ OneAcceptor)'
  BY <1>3 DEF Accept, AcceptFails, ForkFails
<1>4. ASSUME NEW p \in Process, Fork(p) PROVE (Inherited /\ OneAcceptor)'
  BY <1>4, NewProcessFact DEF Fork
<1>5. ASSUME NEW p \in Process, pc[p] = "serve", WorkerReturns(p)
      PROVE  (Inherited /\ OneAcceptor)'
  BY <1>5 DEF WorkerReturns
<1>6. ASSUME NEW p \in Process, Ends(p) PROVE (Inherited /\ OneAcceptor)'
  <2>1. \A q \in Process : Runs(q)' => q # p /\ pc'[q] = pc[q] /\ master'[q] = master[q]
    BY <1>6 DEF Ends
  <2> QED
    BY <2>1
<1>7. CASE UNCHANGED vars
  BY <1>7 DEF vars, process
<1> QED
  BY <1>1, <1>2, <1>3, <1>4, <1>5, <1>6, <1>7 DEF Next, Step, SessionEnds, Teardown, Exit, Killed

-----------------------------------------------------------------------------
(* One worker serves.                                                      *)

LEMMA HolderStep ==
  TypeInv /\ OneHolder /\ QueueWaits /\ [Next]_vars => (OneHolder /\ QueueWaits)'
<1> SUFFICES ASSUME TypeInv, OneHolder, QueueWaits, [Next]_vars
             PROVE  (OneHolder /\ QueueWaits)'
  OBVIOUS
<1> USE DEF TypeInv, TypeOK, OneHolder, Holds
<1>1. ASSUME NEW c \in Connections, Connect(c) PROVE (OneHolder /\ QueueWaits)'
  <2>1. OneHolder'
    BY <1>1 DEF Connect, process
  <2>2. \A i \in 1 .. Len(queue) : queue'[i] = queue[i] /\ queue[i] # c
    BY <1>1 DEF Connect, QueueWaits
  <2>3. Len(queue') = Len(queue) + 1 /\ queue'[Len(queue) + 1] = c
    BY <1>1 DEF Connect
  <2>4. conn'[c] = "waiting" /\ \A d \in Connections : d # c => conn'[d] = conn[d]
    BY <1>1 DEF Connect
  <2>5. QueueWaits'
    BY <2>2, <2>3, <2>4 DEF QueueWaits
  <2> QED
    BY <2>1, <2>5
<1>2. ASSUME NEW c \in Connections, Close(c) PROVE (OneHolder /\ QueueWaits)'
  BY <1>2 DEF Close, process, QueueWaits
<1>3. CASE Start
  <2>1. \A q \in Process, c \in Connections : Holds(q, c)' => Holds(q, c)
    BY <1>3, NewProcessFact DEF Start
  <2> QED
    BY <1>3, <2>1 DEF Start, QueueWaits
<1>4. ASSUME NEW p \in Process, Accept(p) PROVE (OneHolder /\ QueueWaits)'
  <2> DEFINE h == Head(queue)
  <2>1. Len(queue) \in Nat \ {0} /\ h = queue[1] /\ h \in Connections
    BY <1>4 DEF Accept
  <2>2. conn[h] = "waiting"
    BY <2>1 DEF QueueWaits
  <2>3. \A q \in Process : ~Holds(q, h)
    BY <2>1, <2>2
  <2>4. \A q \in Process, c \in Connections : Holds(q, c)' <=>
          IF q = p THEN c = h ELSE Holds(q, c)
    BY <1>4 DEF Accept
  <2>5. /\ \A q \in Process : open[q] \subseteq open'[q]
        /\ h \in open'[p]
        /\ \A c \in Connections : conn'[c] = IF c = h THEN "accepted" ELSE conn[c]
    BY <1>4 DEF Accept
  <2>6. OneHolder'
    BY <2>1, <2>3, <2>4, <2>5
  <2>7. Len(queue') = Len(queue) - 1
        /\ \A i \in 1 .. Len(queue') : queue'[i] = queue[i + 1]
    <3>1. queue' = Tail(queue) /\ queue \in Seq(Connections)
      BY <1>4 DEF Accept
    <3> HIDE DEF TypeInv, TypeOK, OneHolder
    <3> QED
      BY <2>1, <3>1
  <2>8. ASSUME NEW i \in 1 .. Len(queue')
        PROVE  /\ i + 1 \in 1 .. Len(queue) /\ queue[i + 1] \in Connections
               /\ queue[i + 1] # h /\ conn'[queue[i + 1]] = "waiting"
    <3>1. i \in Nat \ {0} /\ i + 1 \in 1 .. Len(queue) /\ 1 \in 1 .. Len(queue)
      BY <2>1, <2>7
    <3>2. queue[i + 1] \in Connections
      BY <3>1
    <3>3. queue[i + 1] # queue[1] /\ conn[queue[i + 1]] = "waiting"
      BY <3>1 DEF QueueWaits
    <3> QED
      BY <2>1, <2>5, <3>1, <3>2, <3>3
  <2>9. QueueWaits'
    <3> SUFFICES ASSUME NEW i \in 1 .. Len(queue'), NEW j \in 1 .. Len(queue')
                 PROVE  /\ conn'[queue'[i]] = "waiting"
                        /\ queue'[i] = queue'[j] => i = j
      BY DEF QueueWaits
    <3>1. /\ queue'[i] = queue[i + 1] /\ queue'[j] = queue[j + 1]
          /\ i \in Int /\ j \in Int
      BY <2>7
    <3>2. queue[i + 1] = queue[j + 1] => i + 1 = j + 1
      BY <2>8 DEF QueueWaits
    <3> QED
      BY <2>8, <3>1, <3>2
  <2> QED
    BY <2>6, <2>9
<1>5. ASSUME NEW p \in Process, AcceptFails(p) PROVE (OneHolder /\ QueueWaits)'
  <2>1. \A q \in Process, c \in Connections : Holds(q, c)' => Holds(q, c)
    BY <1>5, ForkAssumption DEF AcceptFails
  <2> QED
    BY <1>5, <2>1 DEF AcceptFails, QueueWaits
<1>6. ASSUME NEW p \in Process, Fork(p) PROVE (OneHolder /\ QueueWaits)'
  <2> DEFINE n == NewProcess
  <2>1. n \in Process /\ pc[n] = "none" /\ n # p
    BY <1>6, NewProcessFact DEF Fork
  <2>2. \A q \in Process, c \in Connections : Holds(q, c)' <=>
          IF q = n THEN Holds(p, c) ELSE q # p /\ Holds(q, c)
    BY <1>6, <2>1 DEF Fork
  <2>3. open'[n] = open[p] /\ \A q \in Process \ {n} : open'[q] = open[q]
    BY <1>6, <2>1 DEF Fork
  <2>4. OneHolder'
    BY <1>6, <2>1, <2>2, <2>3 DEF Fork
  <2> QED
    BY <1>6, <2>4 DEF Fork, QueueWaits
<1>7. ASSUME NEW p \in Process, ForkFails(p) PROVE (OneHolder /\ QueueWaits)'
  BY <1>7 DEF ForkFails, QueueWaits
<1>8. ASSUME NEW p \in Process, WorkerReturns(p) PROVE (OneHolder /\ QueueWaits)'
  <2>1. \A q \in Process, c \in Connections : Holds(q, c)' => q # p /\ Holds(q, c)
    BY <1>8 DEF WorkerReturns
  <2> QED
    BY <1>8, <2>1 DEF WorkerReturns, QueueWaits
<1>9. ASSUME NEW p \in Process, Ends(p) PROVE (OneHolder /\ QueueWaits)'
  <2>1. \A q \in Process, c \in Connections :
          Holds(q, c)' => Holds(q, c) /\ open'[q] = open[q]
    BY <1>9, ForkAssumption DEF Ends
  <2>2. \A c \in Connections : conn[c] = "accepted" => conn'[c] = "accepted"
    BY <1>9 DEF Ends
  <2>3. OneHolder'
    BY <2>1, <2>2
  <2>4. queue' = <<>> \/ (queue' = queue /\ \A c \in Connections : conn'[c] = conn[c])
    BY <1>9 DEF Ends
  <2>5. QueueWaits'
    BY <2>4 DEF QueueWaits
  <2> QED
    BY <2>3, <2>5
<1>10. CASE UNCHANGED vars
  BY <1>10 DEF vars, process, QueueWaits
<1> QED
  BY <1>1, <1>2, <1>3, <1>4, <1>5, <1>6, <1>7, <1>8, <1>9, <1>10
  DEF Next, Step, SessionEnds, Teardown, Exit, Killed

-----------------------------------------------------------------------------
(* The theorems.                                                           *)

LEMMA Inductive == Spec => []IInv
<1>1. Init => IInv
  BY TypeInit
  DEF Init, IInv, Inherited, Runs, OneAcceptor, Accepts, OneHolder, Holds, QueueWaits
<1>2. IInv /\ [Next]_vars => IInv'
  BY TypeStep, AcceptorStep, HolderStep DEF IInv
<1> QED
  BY <1>1, <1>2, PTL DEF Spec

\* Every variable keeps its type: no process has more descriptors, and the
\* queue no more connections, than the limits allow.
LEMMA TypeCorrect == Spec => []TypeOK
<1>1. IInv => TypeOK
  BY DEF IInv, TypeInv
<1> QED
  BY <1>1, Inductive, PTL

\* However the server is killed and started again, one process accepts: a child
\* never gets back into the loop, and bind() fails while anyone has the port.
THEOREM AcceptorUnique == Spec => []OneAcceptor
<1>1. IInv => OneAcceptor
  BY DEF IInv
<1> QED
  BY <1>1, Inductive, PTL

\* A connection has at most one worker, who has it open, though the results of
\* accept() and fork() are not looked at and ClientSocket is used again.
THEOREM WorkerUnique == Spec => []OneWorker
<1>1. IInv => OneWorker
  BY DEF IInv, OneHolder, Holds, OneWorker, Serves
<1> QED
  BY <1>1, Inductive, PTL
=============================================================================
