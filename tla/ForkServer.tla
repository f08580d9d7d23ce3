----------------------------- MODULE ForkServer -----------------------------
(***************************************************************************)
(* main(): one process listens on the RTSP port and forks a worker for     *)
(* each connection it accepts.  A child inherits every descriptor of its   *)
(* parent, the listening socket too; the parent closes nothing and waits   *)
(* for nobody.  Any process may be killed, and the program may be started  *)
(* again.  What a worker does with its connection is Streamer's.           *)
(***************************************************************************)
EXTENDS Naturals, Sequences, FiniteSets

CONSTANTS
  Connections, \* what clients open, each once
  MaxProcs,    \* processes the user may have (RLIMIT_NPROC)
  MaxOpen,     \* connections a process may have open (RLIMIT_NOFILE)
  Backlog,     \* of listen(); 5 in the code
  Failed       \* -1, what accept() returns when it fails

ASSUME ForkAssumption ==
  /\ MaxProcs \in Nat \ {0} /\ MaxOpen \in Nat \ {0} /\ Backlog \in Nat \ {0}
  /\ Failed \notin Connections

Process == 1 .. MaxProcs

VARIABLES
  pc,      \* where a process is, "none" without one, "zombie" until waited for
  socket,  \* its ClientSocket
  open,    \* the connections it has a descriptor of
  master,  \* has it the listening socket open?
  queue,   \* connections that wait in the listening socket
  conn,    \* state of a connection
  closed   \* has its client closed it?

process == <<pc, socket, open, master>>
vars    == <<process, queue, conn, closed>>

TypeOK ==
  /\ pc \in [Process -> {"none", "accept", "fork", "serve", "break", "zombie"}]
  /\ socket \in [Process -> Connections \cup {Failed}]
  /\ open \in [Process -> SUBSET Connections]
  /\ \A p \in Process : Cardinality(open[p]) <= MaxOpen
  /\ master \in [Process -> BOOLEAN]
  /\ queue \in Seq(Connections) /\ Len(queue) <= Backlog
  /\ conn \in [Connections -> {"new", "waiting", "accepted", "reset"}]
  /\ closed \in [Connections -> BOOLEAN]

Runs(p)    == pc[p] \in {"accept", "fork", "serve", "break"}
Accepts(p) == pc[p] \in {"accept", "fork"}

Free == {p \in Process : pc[p] = "none"}
NewProcess == CHOOSE p \in Free : \A q \in Free : p <= q

-----------------------------------------------------------------------------
(* The clients.                                                            *)

Connect(c) ==
  /\ conn[c] = "new" /\ (\E p \in Process : master[p]) /\ Len(queue) < Backlog
  /\ conn' = [conn EXCEPT ![c] = "waiting"]
  /\ queue' = Append(queue, c)
  /\ UNCHANGED <<process, closed>>

Close(c) ==
  /\ conn[c] \in {"waiting", "accepted"} /\ ~closed[c]
  /\ closed' = [closed EXCEPT ![c] = TRUE]
  /\ UNCHANGED <<process, queue, conn>>

-----------------------------------------------------------------------------
(* The process that listens.                                               *)

\* bind() fails, and the program returns, while anyone has the port open
Start ==
  /\ Free # {} /\ ~ \E p \in Process : master[p]
  /\ pc' = [pc EXCEPT ![NewProcess] = "accept"]
  /\ master' = [master EXCEPT ![NewProcess] = TRUE]
  /\ socket' = [socket EXCEPT ![NewProcess] = Failed]
  /\ UNCHANGED <<open, queue, conn, closed>>

Accept(p) ==
  /\ pc[p] = "accept" /\ Cardinality(open[p]) < MaxOpen /\ queue # <<>>
  /\ pc' = [pc EXCEPT ![p] = "fork"]
  /\ socket' = [socket EXCEPT ![p] = Head(queue)]
  /\ open' = [open EXCEPT ![p] = @ \cup {Head(queue)}]
  /\ queue' = Tail(queue)
  /\ conn' = [conn EXCEPT ![Head(queue)] = "accepted"]
  /\ UNCHANGED <<master, closed>>

\* mutant: ClientSocket is not assigned
AcceptFailsKeeps(p) ==
  /\ pc[p] = "accept" /\ Cardinality(open[p]) = MaxOpen
  /\ pc' = [pc EXCEPT ![p] = "fork"]
  /\ UNCHANGED <<socket, open, master, queue, conn, closed>>

\* without a free descriptor it fails at once, which nobody looks at
AcceptFails(p) ==
  /\ pc[p] = "accept" /\ Cardinality(open[p]) = MaxOpen
  /\ pc' = [pc EXCEPT ![p] = "fork"]
  /\ socket' = [socket EXCEPT ![p] = Failed]
  /\ UNCHANGED <<open, master, queue, conn, closed>>

\* mutant: workerThread(MasterSocket), from which recv() fails
ForkMaster(p) ==
  /\ pc[p] = "fork" /\ Free # {}
  /\ pc' = [pc EXCEPT ![p] = "accept", ![NewProcess] = "serve"]
  /\ socket' = [socket EXCEPT ![NewProcess] = Failed]
  /\ open' = [open EXCEPT ![NewProcess] = open[p]]
  /\ master' = [master EXCEPT ![NewProcess] = master[p]]
  /\ UNCHANGED <<queue, conn, closed>>

Fork(p) ==
  /\ pc[p] = "fork" /\ Free # {}
  /\ pc' = [pc EXCEPT ![p] = "accept", ![NewProcess] = "serve"]
  /\ socket' = [socket EXCEPT ![NewProcess] = socket[p]]
  /\ open' = [open EXCEPT ![NewProcess] = open[p]]
  /\ master' = [master EXCEPT ![NewProcess] = master[p]]
  /\ UNCHANGED <<queue, conn, closed>>

\* -1 is not 0: the parent goes on
ForkFails(p) ==
  /\ pc[p] = "fork" /\ Free = {}
  /\ pc' = [pc EXCEPT ![p] = "accept"]
  /\ UNCHANGED <<socket, open, master, queue, conn, closed>>

-----------------------------------------------------------------------------
(* The workers.                                                            *)

\* Its client has closed the connection, which ends a send that is blocked too, or
\* recv() fails with EBADF, which socketread takes for a closed connection.
Finished(p) == socket[p] # Failed => closed[socket[p]]

\* mutant: no break behind workerThread
WorkerReturnsInLoop(p) ==
  /\ pc' = [pc EXCEPT ![p] = "accept"]
  /\ open' = [open EXCEPT ![p] = @ \ {socket[p]}]
  /\ UNCHANGED <<socket, master, queue, conn, closed>>

\* workerThread returns, and the destructor of the session has closed the socket
WorkerReturns(p) ==
  /\ pc' = [pc EXCEPT ![p] = "break"]
  /\ open' = [open EXCEPT ![p] = @ \ {socket[p]}]
  /\ UNCHANGED <<socket, master, queue, conn, closed>>

\* mutant: an error of recv() is taken for a timeout
SessionEndsGone(p) ==
  /\ pc[p] = "serve" /\ socket[p] # Failed /\ closed[socket[p]]
  /\ WorkerReturns(p)

SessionEnds(p) == pc[p] = "serve" /\ Finished(p) /\ WorkerReturns(p)

\* A TEARDOWN was parsed.  None that is sent has to be: the worker may be blocked
\* in a send (Streamer), or drop the request (RtspReceive).
Teardown(p) == pc[p] = "serve" /\ ~Finished(p) /\ WorkerReturns(p)

\* A process ends and its descriptors are closed.  A child stays a zombie as
\* long as its parent lives; those that wait in a listening socket that nobody
\* has open any more are reset.
Ends(p) ==
  LET orphans == {q \in Process : pc[q] = "zombie" /\ Accepts(p)}
      last    == ~ \E q \in Process \ {p} : master[q]
      zombie  == \E q \in Process \ {p} : Accepts(q)
  IN  /\ pc' = [q \in Process |->
                  IF q \in orphans \/ (q = p /\ ~zombie) THEN "none"
                  ELSE IF q = p THEN "zombie" ELSE pc[q]]
      /\ socket' = [socket EXCEPT ![p] = Failed]
      /\ open' = [open EXCEPT ![p] = {}]
      /\ master' = [master EXCEPT ![p] = FALSE]
      /\ queue' = IF last THEN <<>> ELSE queue
      /\ conn' = [c \in Connections |->
                    IF last /\ conn[c] = "waiting" THEN "reset" ELSE conn[c]]
      /\ UNCHANGED closed

\* closesocket(MasterSocket) and return, in the child
Exit(p) == pc[p] = "break" /\ Ends(p)

\* by a signal: SIGPIPE in a send, or the operator
Killed(p) == Runs(p) /\ Ends(p)

-----------------------------------------------------------------------------
Init ==
  /\ pc = [p \in Process |-> "none"]
  /\ socket = [p \in Process |-> Failed]
  /\ open = [p \in Process |-> {}]
  /\ master = [p \in Process |-> FALSE]
  /\ queue = <<>>
  /\ conn = [c \in Connections |-> "new"]
  /\ closed = [c \in Connections |-> FALSE]

Step(p) ==
  \/ Accept(p) \/ AcceptFails(p) \/ Fork(p) \/ ForkFails(p)
  \/ SessionEnds(p) \/ Exit(p)

Next ==
  \/ Start
  \/ \E p \in Process : Step(p) \/ Teardown(p) \/ Killed(p)
  \/ \E c \in Connections : Connect(c) \/ Close(c)

\* processes run, and the operator starts the program again when it is down; no
\* client has to close its connection, and no TEARDOWN to be parsed
Spec ==
  /\ Init /\ [][Next]_vars
  /\ WF_vars(Start) /\ \A p \in Process : WF_vars(Step(p))

-----------------------------------------------------------------------------
(* Properties.                                                             *)

Serves(p, c) == pc[p] = "serve" /\ socket[p] = c

\* Every connection has at most one worker, and it is one that the worker has
\* open, although accept() may fail and its result is not looked at.
OneWorker ==
  \A p, q \in Process, c \in Connections :
    Serves(p, c) => c \in open[p] /\ (Serves(q, c) => p = q)

\* Only one process ever accepts: a child leaves the loop when its session ends
\* ("break"), and the program does not start twice.
OneAcceptor ==
  \A p, q \in Process : Accepts(p) /\ Accepts(q) => p = q

\* the parent has used up its descriptors or the processes it may have
Exhausted ==
  \E p \in Process : Accepts(p) /\ (Cardinality(open[p]) = MaxOpen \/ Free = {})

\* nobody accepts, but a worker whose client keeps its connection keeps the port
Orphaned ==
  /\ ~ \E p \in Process : Accepts(p)
  /\ \E p \in Process, c \in Connections : Serves(p, c) /\ ~closed[c]

\* it got a worker, or the server has closed it
Settled(c) ==
  \/ \E p \in Process : Serves(p, c)
  \/ conn[c] = "reset"
  \/ conn[c] = "accepted" /\ ~ \E p \in Process : c \in open[p]

\* "loop forever to accept client connections" (main): a client that connects
\* gets a worker, or is told that the server is gone, unless the parent has run
\* out of descriptors or processes, or is dead with a worker closed, for good.
ClientsServed ==
  \/ \A c \in Connections : conn[c] = "waiting" ~> Settled(c)
  \/ <>[](Exhausted \/ Orphaned)

\* A server that was killed is back some time, although its workers have the
\* port open: each of them ends when its client closes the connection, unless one
\* keeps it for ever and its worker, blocked or not, parses no TEARDOWN of it.
ComesBack ==
  \/ []<>(\E p \in Process : Accepts(p))
  \/ <>[]Orphaned
=============================================================================
