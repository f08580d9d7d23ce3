--------------------------- MODULE StreamerProofs ---------------------------
(***************************************************************************)
(* Proofs about Streamer for any number of sessions, any room in the       *)
(* connections and NAL units of any number of packets.                     *)
(*                                                                         *)
(* The ring of pointers by itself is not inductive: two rings, one of them *)
(* without m_Clients, satisfy Ring too, and removing the second last       *)
(* session of the lost one leaves a session that is its own neighbour.     *)
(* The strengthening gives every element an age that grows along m_Next    *)
(* until m_Clients is reached again, so there is one ring only; the ages   *)
(* also say which sessions a loop has passed.                              *)
(***************************************************************************)
EXTENDS Streamer, TLAPS

Ages == [Element -> Nat]

\* ages grow along m_Next, and no session is skipped
Aged(age) ==
  /\ age[Clients] = 0
  /\ \A e \in Linked, t \in Linked : age[e] = age[t] => e = t
  /\ \A e \in Linked : next[e] # Clients => age[e] < age[next[e]]
  /\ \A e \in Linked, t \in alive :
       age[e] < age[t] => next[e] # Clients /\ age[next[e]] <= age[t]

\* the loop of rtpSendData has passed s
Passed(age, s) == element = Clients \/ age[s] < age[element]

GivenSoFar(age) ==
  /\ pc \in {"loop", "requests", "handled"} => given = {}
  /\ pc = "packet" => given = {s \in alive : Plays(s) /\ Passed(age, s)}

\* the session whose request was handled is not m_Clients
HandledSession == pc = "handled" => element # Clients

Inv(age) ==
  /\ TypeOK /\ Ring /\ Aged(age)
  /\ NoDangling /\ HandledSession /\ StoppedGone
  /\ GivenSoFar(age)

IInv == \E age \in Ages : Inv(age)

-----------------------------------------------------------------------------
(* The list.                                                               *)

\* A session that is its own neighbour does not exist.
LEMMA NotAlone ==
  ASSUME ListTypeOK, NEW age \in Ages, Aged(age), NEW s \in alive
  PROVE  next[s] # s
<1>1. s \in Linked /\ s \in Element /\ s # Clients
  BY ListAssumption DEF ListTypeOK, Linked, Element
<1>2. next[s] = s => age[s] < age[s]
  BY <1>1 DEF Aged
<1>3. age[s] \in Nat
  BY <1>1 DEF Ages
<1> QED
  BY <1>2, <1>3

\* The constructor keeps one ring.
LEMMA AppendKeeps ==
  ASSUME ListTypeOK, Ring, NEW age \in Ages, Aged(age),
         NEW s \in Sessions, s \notin alive, AppendElement(s)
  PROVE  /\ ListTypeOK' /\ Ring'
         /\ \E a \in Ages : Aged(a)'
<1>1. /\ s # Clients /\ s \in Element /\ s \notin Linked
      /\ Clients \in Linked /\ Linked \subseteq Element
  BY ListAssumption DEF ListTypeOK, Linked, Element
<1>0. PICK last \in Linked : last = prev[Clients]
  BY <1>1 DEF Ring
<1>2. last \in Linked /\ last # s /\ next[last] = Clients
  BY <1>0, <1>1 DEF Ring
<1>3. Linked' = Linked \cup {s} /\ alive' = alive \cup {s}
  BY DEF AppendElement, Linked
<1>4. /\ next' = [next EXCEPT ![last] = s, ![s] = Clients]
      /\ prev' = [prev EXCEPT ![s] = last, ![Clients] = s]
  BY <1>0 DEF AppendElement
<1>5. ListTypeOK'
  BY <1>1, <1>2, <1>3, <1>4 DEF ListTypeOK, Element
<1>6. /\ next'[s] = Clients /\ next'[last] = s
      /\ \A e \in Linked : e # last => next'[e] = next[e]
  BY <1>1, <1>2, <1>4 DEF ListTypeOK
<1>7. /\ prev'[s] = last /\ prev'[Clients] = s
      /\ \A e \in Linked : e # Clients => prev'[e] = prev[e]
  BY <1>1, <1>2, <1>4 DEF ListTypeOK
<1>8. Ring'
  <2> SUFFICES ASSUME NEW e \in Linked'
               PROVE  /\ next'[e] \in Linked' /\ prev'[e] \in Linked'
                      /\ next'[prev'[e]] = e /\ prev'[next'[e]] = e
    BY DEF Ring
  <2>1. CASE e = s
    BY <2>1, <1>1, <1>2, <1>3, <1>6, <1>7
  <2>2. CASE e \in Linked
    <3>1. next'[e] \in Linked' /\ prev'[e] \in Linked'
      BY <2>2, <1>1, <1>2, <1>3, <1>6, <1>7 DEF Ring
    <3>2. prev'[next'[e]] = e
      <4>1. CASE e = last
        BY <4>1, <1>6, <1>7
      <4>2. CASE e # last
        <5>1. next[e] \in Linked /\ next[e] # Clients /\ prev[next[e]] = e
          BY <2>2, <4>2, <1>2 DEF Ring
        <5> QED
          BY <5>1, <4>2, <2>2, <1>6, <1>7
      <4> QED
        BY <4>1, <4>2
    <3>3. next'[prev'[e]] = e
      <4>1. CASE e = Clients
        BY <4>1, <1>6, <1>7
      <4>2. CASE e # Clients
        <5>1. prev[e] \in Linked /\ next[prev[e]] = e /\ prev[e] # last
          BY <2>2, <4>2, <1>2 DEF Ring
        <5> QED
          BY <5>1, <4>2, <2>2, <1>6, <1>7
      <4> QED
        BY <4>1, <4>2
    <3> QED
      BY <3>1, <3>2, <3>3
  <2> QED
    BY <2>1, <2>2, <1>3
<1>20. PICK a \in Ages : a = [age EXCEPT ![s] = age[last] + 1]
  <2>1. age[last] + 1 \in Nat
    BY <1>1, <1>2 DEF Ages
  <2>2. [age EXCEPT ![s] = age[last] + 1] \in Ages
    BY <2>1 DEF Ages
  <2> QED
    BY <2>2
<1>9. /\ a[s] = age[last] + 1 /\ age[last] \in Nat
      /\ \A e \in Linked : a[e] = age[e] /\ age[e] \in Nat
  BY <1>1, <1>2, <1>20 DEF Ages
<1>10. \A t \in Linked : age[t] <= age[last]
  <2> SUFFICES ASSUME NEW t \in Linked PROVE age[t] <= age[last]
    OBVIOUS
  <2>1. CASE t = Clients
    BY <2>1, <1>9 DEF Aged
  <2>2. CASE t \in alive
    BY <2>2, <1>2, <1>9 DEF Aged
  <2> QED
    BY <2>1, <2>2 DEF Linked
<1>11. a[Clients] = 0
  BY <1>1, <1>9 DEF Aged
<1>12. \A e \in Linked', t \in Linked' : a[e] = a[t] => e = t
  <2> SUFFICES ASSUME NEW e \in Linked', NEW t \in Linked', a[e] = a[t]
               PROVE  e = t
    OBVIOUS
  <2>1. CASE e \in Linked /\ t \in Linked
    BY <2>1, <1>9 DEF Aged
  <2>2. CASE e = s /\ t \in Linked
    BY <2>2, <1>9, <1>10
  <2>3. CASE e \in Linked /\ t = s
    BY <2>3, <1>9, <1>10
  <2> QED
    BY <2>1, <2>2, <2>3, <1>3
<1>13. \A e \in Linked' : next'[e] # Clients => a[e] < a[next'[e]]
  <2> SUFFICES ASSUME NEW e \in Linked', next'[e] # Clients
               PROVE  a[e] < a[next'[e]]
    OBVIOUS
  <2>1. e \in Linked
    BY <1>3, <1>6
  <2>2. CASE e = last
    BY <2>2, <1>2, <1>6, <1>9
  <2>3. CASE e # last
    <3>1. next'[e] = next[e] /\ next[e] \in Linked /\ next[e] # Clients
      BY <2>1, <2>3, <1>6 DEF Ring
    <3> QED
      BY <3>1, <2>1, <1>9 DEF Aged
  <2> QED
    BY <2>2, <2>3
<1>14. \A e \in Linked', t \in alive' :
         a[e] < a[t] => next'[e] # Clients /\ a[next'[e]] <= a[t]
  <2> SUFFICES ASSUME NEW e \in Linked', NEW t \in alive', a[e] < a[t]
               PROVE  next'[e] # Clients /\ a[next'[e]] <= a[t]
    OBVIOUS
  <2>1. t \in Linked \cup {s} /\ (t # s => t \in alive)
    BY <1>3 DEF Linked
  <2>2. e \in Linked
    <3>1. CASE e = s
      BY <3>1, <2>1, <1>9, <1>10
    <3> QED
      BY <3>1, <1>3
  <2>3. CASE e = last
    <3>1. t = s
      BY <2>3, <2>1, <1>2, <1>9, <1>10
    <3> QED
      BY <3>1, <2>3, <1>1, <1>6, <1>9
  <2>4. CASE e # last
    <3>1. next'[e] = next[e] /\ next[e] \in Linked /\ next[e] # Clients
      BY <2>2, <2>4, <1>2, <1>6 DEF Ring
    <3>2. CASE t = s
      <4>1. age[next[e]] <= age[last]
        BY <3>1, <1>10
      <4> QED
        BY <4>1, <3>1, <3>2, <1>9
    <3>3. CASE t # s
      BY <3>1, <3>3, <2>1, <2>2, <1>9 DEF Aged, Linked
    <3> QED
      BY <3>2, <3>3
  <2> QED
    BY <2>3, <2>4
<1>15. Aged(a)'
  BY <1>11, <1>12, <1>13, <1>14 DEF Aged
<1> QED
  BY <1>5, <1>8, <1>15

\* The destructor keeps one ring, and what was behind the session stays in it.
LEMMA RemoveKeeps ==
  ASSUME ListTypeOK, Ring, NEW age \in Ages, Aged(age),
         NEW s \in alive, RemoveElement(s)
  PROVE  /\ ListTypeOK' /\ Ring' /\ Aged(age)'
         /\ next[s] \in Linked'
<1>1. /\ s # Clients /\ s \in Element /\ s \in Linked
      /\ Clients \in Linked /\ Linked \subseteq Element
  BY ListAssumption DEF ListTypeOK, Linked, Element
<1>2. PICK p \in Linked, n \in Linked : p = prev[s] /\ n = next[s]
  BY <1>1 DEF Ring
<1>3. /\ n # s /\ p # s
      /\ next[p] = s /\ prev[n] = s
  <2>1. n # s /\ next[p] = s /\ prev[n] = s
    BY <1>1, <1>2, NotAlone DEF Ring
  <2> QED
    BY <2>1, <1>2
<1>4. /\ Linked' = Linked \ {s} /\ alive' = alive \ {s}
      /\ next' = [next EXCEPT ![p] = n, ![s] = Freed]
      /\ prev' = [prev EXCEPT ![n] = p, ![s] = Freed]
  BY <1>1, <1>2 DEF RemoveElement, Linked
<1>5. ListTypeOK'
  BY <1>1, <1>2, <1>4 DEF ListTypeOK, Linked, Element
<1>6. /\ next'[p] = n
      /\ \A e \in Linked' : e # p => next'[e] = next[e]
  BY <1>1, <1>2, <1>3, <1>4 DEF ListTypeOK
<1>7. /\ prev'[n] = p
      /\ \A e \in Linked' : e # n => prev'[e] = prev[e]
  BY <1>1, <1>2, <1>3, <1>4 DEF ListTypeOK
<1>8. \A e \in Linked' : e # p => next[e] \in Linked' /\ next[e] # n
  BY <1>2, <1>3, <1>4 DEF Ring
<1>9. \A e \in Linked' : e # n => prev[e] \in Linked' /\ prev[e] # p
  BY <1>2, <1>3, <1>4 DEF Ring
<1>10. p \in Linked' /\ n \in Linked'
  BY <1>2, <1>3, <1>4
<1>11. Ring'
  <2> SUFFICES ASSUME NEW e \in Linked'
               PROVE  /\ next'[e] \in Linked' /\ prev'[e] \in Linked'
                      /\ next'[prev'[e]] = e /\ prev'[next'[e]] = e
    BY DEF Ring
  <2>1. e \in Linked
    BY <1>4
  <2>2. next'[e] \in Linked' /\ prev'[e] \in Linked'
    BY <1>6, <1>7, <1>8, <1>9, <1>10
  <2>3. prev'[next'[e]] = e
    BY <2>1, <1>6, <1>7, <1>8 DEF Ring
  <2>4. next'[prev'[e]] = e
    BY <2>1, <1>6, <1>7, <1>9 DEF Ring
  <2> QED
    BY <2>2, <2>3, <2>4
<1>12. \A e \in Linked : age[e] \in Nat
  BY <1>1 DEF Ages
<1>13. age[p] < age[s] /\ (n # Clients => age[s] < age[n])
  BY <1>1, <1>2, <1>3 DEF Aged
<1>14. Aged(age)'
  <2>1. age[Clients] = 0
    BY DEF Aged
  <2>2. \A e \in Linked', t \in Linked' : age[e] = age[t] => e = t
    BY <1>4 DEF Aged
  <2>3. \A e \in Linked' : next'[e] # Clients => age[e] < age[next'[e]]
    <3> SUFFICES ASSUME NEW e \in Linked', next'[e] # Clients
                 PROVE  age[e] < age[next'[e]]
      OBVIOUS
    <3>1. CASE e = p
      BY <3>1, <1>2, <1>6, <1>12, <1>13, <1>1
    <3>2. CASE e # p
      BY <3>2, <1>4, <1>6 DEF Aged
    <3> QED
      BY <3>1, <3>2
  <2>4. \A e \in Linked', t \in alive' :
          age[e] < age[t] => next'[e] # Clients /\ age[next'[e]] <= age[t]
    <3> SUFFICES ASSUME NEW e \in Linked', NEW t \in alive', age[e] < age[t]
                 PROVE  next'[e] # Clients /\ age[next'[e]] <= age[t]
      OBVIOUS
    <3>1. e \in Linked /\ t \in alive /\ t # s /\ t \in Linked
      BY <1>4 DEF Linked
    <3>2. CASE e = p
      <4>1. age[s] <= age[t]
        BY <3>1, <3>2, <1>3 DEF Aged
      <4>2. age[s] < age[t]
        BY <4>1, <3>1, <1>1, <1>12 DEF Aged
      <4>3. next[s] # Clients /\ age[next[s]] <= age[t]
        BY <4>2, <3>1, <1>1 DEF Aged
      <4> QED
        BY <4>3, <3>2, <1>2, <1>6
    <3>3. CASE e # p
      BY <3>3, <3>1, <1>6 DEF Aged
    <3> QED
      BY <3>2, <3>3
  <2> QED
    BY <2>1, <2>2, <2>3, <2>4 DEF Aged
<1> QED
  BY <1>2, <1>5, <1>10, <1>11, <1>14

LEMMA ListKept ==
  ASSUME UNCHANGED list
  PROVE  /\ alive' = alive /\ Linked' = Linked
         /\ ListTypeOK => ListTypeOK'
         /\ Ring => Ring'
         /\ \A age \in Ages : Aged(age) => Aged(age)'
<1>1. alive' = alive /\ next' = next /\ prev' = prev
  BY DEF list
<1>2. Linked' = Linked
  BY <1>1 DEF Linked
<1>3. ListTypeOK => ListTypeOK'
  BY <1>1 DEF ListTypeOK
<1>4. Ring => Ring'
  BY <1>1, <1>2 DEF Ring
<1>5. ASSUME NEW age \in Ages, Aged(age) PROVE Aged(age)'
  BY <1>1, <1>2, <1>5 DEF Aged
<1> QED
  BY <1>1, <1>2, <1>3, <1>4, <1>5

-----------------------------------------------------------------------------
(* The loop of rtpSendData.                                                *)

\* A packet begins: no session is passed.
LEMMA FirstElement ==
  ASSUME ListTypeOK, Ring, NEW age \in Ages, Aged(age),
         element' = next[Clients], NEW s \in alive
  PROVE  ~ Passed(age, s)'
<1>1. /\ s \in Linked /\ s # Clients /\ Clients \in Linked /\ Linked \subseteq Element
  BY ListAssumption DEF ListTypeOK, Linked, Element
<1>2. age[s] \in Nat /\ age[Clients] = 0 /\ age[s] # age[Clients]
  BY <1>1 DEF Aged, Ages
<1>3. next[Clients] # Clients /\ age[next[Clients]] <= age[s]
  BY <1>1, <1>2 DEF Aged
<1>4. age[next[Clients]] \in Nat
  BY <1>1 DEF Ring, Ages
<1> QED
  BY <1>2, <1>3, <1>4 DEF Passed

\* One step of the loop passes one session.
LEMMA NextElement ==
  ASSUME ListTypeOK, Ring, NEW age \in Ages, Aged(age),
         element \in alive, element' = next[element], NEW s \in alive
  PROVE  Passed(age, s)' <=> Passed(age, s) \/ s = element
<1>1. /\ element \in Linked /\ element # Clients
      /\ s \in Linked /\ s # Clients /\ Linked \subseteq Element
  BY ListAssumption DEF ListTypeOK, Linked, Element
<1>2. next[element] \in Linked
  BY <1>1 DEF Ring
<1>3. age[element] \in Nat /\ age[s] \in Nat /\ age[next[element]] \in Nat
  BY <1>1, <1>2 DEF Ages
<1>4. next[element] # Clients => age[element] < age[next[element]]
  BY <1>1 DEF Aged
<1>5. age[element] < age[s] => next[element] # Clients /\ age[next[element]] <= age[s]
  BY <1>1 DEF Aged
<1>6. age[s] = age[element] => s = element
  BY <1>1 DEF Aged
<1>7. Passed(age, s) <=> age[s] < age[element]
  BY <1>1 DEF Passed
<1>8. Passed(age, s)' <=> next[element] = Clients \/ age[s] < age[next[element]]
  BY DEF Passed
<1> QED
  BY <1>3, <1>4, <1>5, <1>6, <1>7, <1>8

-----------------------------------------------------------------------------
(* The actions.                                                            *)

\* The type invariant without the list.
StateOK ==
  /\ pc \in {"loop", "requests", "handled", "packet", "ended", "killed"}
  /\ element \in Element \cup {Freed}
  /\ retVal \in BOOLEAN
  /\ packets \in 0 .. MaxPackets
  /\ given \subseteq Sessions
SessionOK ==
  /\ tcp \in [Sessions -> BOOLEAN]
  /\ streaming \in [Sessions -> BOOLEAN]
  /\ stopped \in [Sessions -> BOOLEAN]
ConnectionOK ==
  /\ inbox \in [Sessions -> Requests \cup {"none"}]
  /\ closed \in [Sessions -> BOOLEAN]
  /\ space \in [Sessions -> 0 .. Room]

LEMMA TypeParts == TypeOK <=> ListTypeOK /\ StateOK /\ SessionOK /\ ConnectionOK
  BY DEF TypeOK, StateOK, SessionOK, ConnectionOK

LEMMA InListRange ==
  ASSUME ListTypeOK
  PROVE  /\ alive \subseteq Sessions /\ Sessions \subseteq Element
         /\ Linked \subseteq Element /\ Clients \in Linked /\ Clients \notin alive
         /\ \A e \in Linked : e # Clients => e \in alive
  BY ListAssumption DEF ListTypeOK, Linked, Element

LEMMA SocketSendType ==
  ASSUME ConnectionOK, NEW s \in Sessions, SocketSend(s)
  PROVE  space' \in [Sessions -> 0 .. Room]
<1>1. space[s] \in 0 .. Room /\ closed[s] \in BOOLEAN /\ Room \in Nat
  BY StreamerAssumption DEF ConnectionOK
<1>2. (IF closed[s] THEN space[s] ELSE space[s] - 1) \in 0 .. Room
  BY <1>1 DEF SocketSend, CanSend
<1> QED
  BY <1>2 DEF SocketSend, ConnectionOK

LEMMA FreshType ==
  ASSUME SessionOK, ConnectionOK, NEW s \in Sessions, Fresh(s)
  PROVE  SessionOK' /\ ConnectionOK' /\ stopped' = [stopped EXCEPT ![s] = FALSE]
<1>1. Room \in 0 .. Room
  BY StreamerAssumption
<1> QED
  BY <1>1 DEF Fresh, SessionOK, ConnectionOK

\* Clients do not disturb the worker.
LEMMA ClientStep ==
  ASSUME NEW age \in Ages, Inv(age), NEW s \in Sessions, Client(s)
  PROVE  Inv(age)'
<1>1. UNCHANGED <<list, worker, session>> /\ ConnectionOK'
  <2>1. ConnectionOK /\ Room \in Nat
    BY TypeParts, StreamerAssumption DEF Inv
  <2>2. CASE Close(s)
    BY <2>1, <2>2 DEF Close, ConnectionOK
  <2>3. CASE Read(s)
    <3>1. Room \in 0 .. Room
      BY <2>1
    <3> QED
      BY <2>1, <2>3, <3>1 DEF Read, ConnectionOK
  <2>4. CASE \E r \in Requests : Request(s, r)
    BY <2>1, <2>4 DEF Request, ConnectionOK
  <2> QED
    BY <2>2, <2>3, <2>4 DEF Client
<1>2. /\ pc' = pc /\ element' = element /\ retVal' = retVal
      /\ packets' = packets /\ given' = given
      /\ tcp' = tcp /\ streaming' = streaming /\ stopped' = stopped
  BY <1>1 DEF worker, session
<1>3. /\ ListTypeOK' /\ Ring' /\ Aged(age)'
      /\ alive' = alive /\ Linked' = Linked
  BY <1>1, ListKept, TypeParts DEF Inv
<1>4. TypeOK'
  <2>1. StateOK' /\ SessionOK'
    BY <1>2, TypeParts DEF Inv, StateOK, SessionOK
  <2> QED
    BY <1>1, <1>3, <2>1 DEF TypeOK, StateOK, SessionOK, ConnectionOK
<1>5. NoDangling' /\ HandledSession' /\ StoppedGone'
  BY <1>2, <1>3 DEF Inv, NoDangling, HandledSession, StoppedGone
<1>6. GivenSoFar(age)'
  BY <1>2, <1>3 DEF Inv, GivenSoFar, Plays, Passed
<1> QED
  BY <1>3, <1>4, <1>5, <1>6 DEF Inv

\* handleRequests of one session: only this session may have stopped.
LEMMA HandleStep ==
  ASSUME NEW age \in Ages, Inv(age), NEW s \in Sessions, Handle(s)
  PROVE  Inv(age)'
<1>1. /\ pc = "requests" /\ element = s /\ s # Clients
      /\ pc' = "handled" /\ retVal' \in BOOLEAN
      /\ element' = element /\ packets' = packets /\ given' = given
      /\ UNCHANGED list
  <2>1. retVal \in BOOLEAN
    BY DEF Inv, TypeOK
  <2>2. \E ret \in BOOLEAN : Handled(ret)
    BY DEF Handle, HandleAnswered, HandleBad, HandleTeardown, HandleClosed, HandleTimeout
  <2>3. element = s
    BY DEF Handle, HandleAnswered, HandleBad, HandleTeardown, HandleClosed, HandleTimeout
  <2> QED
    BY <2>1, <2>2, <2>3 DEF Handled
<1>2. /\ SessionOK' /\ ConnectionOK'
      /\ \A t \in Sessions : t # s => stopped'[t] = stopped[t]
  <2>1. SessionOK /\ ConnectionOK
    BY TypeParts DEF Inv
  <2>2. CASE HandleAnswered(s)
    BY <2>1, <2>2, SocketSendType DEF HandleAnswered, SessionOK, ConnectionOK
  <2>3. CASE HandleBad(s)
    BY <2>1, <2>3, SocketSendType DEF HandleBad, SessionOK, ConnectionOK, session
  <2>4. CASE HandleTeardown(s)
    BY <2>1, <2>4 DEF HandleTeardown, SessionOK, ConnectionOK
  <2>5. CASE HandleClosed(s)
    BY <2>1, <2>5 DEF HandleClosed, SessionOK, ConnectionOK, connection
  <2>6. CASE HandleTimeout(s)
    BY <2>1, <2>6 DEF HandleTimeout, SessionOK, ConnectionOK, session, connection
  <2> QED
    BY <2>2, <2>3, <2>4, <2>5, <2>6 DEF Handle
<1>3. /\ ListTypeOK' /\ Ring' /\ Aged(age)'
      /\ alive' = alive /\ Linked' = Linked
  BY <1>1, ListKept, TypeParts DEF Inv
<1>4. TypeOK'
  <2>1. StateOK'
    BY <1>1, TypeParts DEF Inv, StateOK
  <2> QED
    BY <1>2, <1>3, <2>1 DEF TypeOK, StateOK, SessionOK, ConnectionOK
<1>5. NoDangling' /\ HandledSession'
  BY <1>1, <1>3 DEF Inv, NoDangling, HandledSession
<1>6. StoppedGone'
  BY <1>1, <1>2, <1>3, InListRange DEF Inv, StoppedGone, TypeOK
<1>7. GivenSoFar(age)'
  BY <1>1 DEF Inv, GivenSoFar
<1> QED
  BY <1>3, <1>4, <1>5, <1>6, <1>7 DEF Inv

\* A session that has stopped is deleted behind the back of the loop.
LEMMA NextSessionStep ==
  ASSUME NEW age \in Ages, Inv(age), NextSession
  PROVE  Inv(age)'
<1>1. /\ pc = "handled" /\ pc' = "requests" /\ element' = next[element]
      /\ retVal' = retVal /\ packets' = packets /\ given' = given
  BY DEF NextSession
<1>2. PICK s \in alive : s = element
  BY <1>1, InListRange, TypeParts DEF Inv, NoDangling, HandledSession
<1>3. s \in Sessions /\ s \in Linked /\ ListTypeOK /\ Ring /\ Aged(age)
  BY <1>2, InListRange, TypeParts DEF Inv, Linked
<1>4. /\ ListTypeOK' /\ Ring' /\ Aged(age)' /\ next[s] \in Linked'
      /\ SessionOK' /\ ConnectionOK'
      /\ \A t \in alive' : ~ stopped'[t]
  <2>1. CASE stopped[element]
    <3>1. RemoveElement(s) /\ Fresh(s)
      BY <1>2, <2>1 DEF NextSession, Delete
    <3>2. ListTypeOK' /\ Ring' /\ Aged(age)' /\ next[s] \in Linked'
      BY <1>2, <1>3, <3>1, RemoveKeeps
    <3>3. SessionOK' /\ ConnectionOK' /\ stopped' = [stopped EXCEPT ![s] = FALSE]
      BY <1>3, <3>1, FreshType, TypeParts DEF Inv
    <3>4. alive' = alive \ {s}
      BY <3>1 DEF RemoveElement
    <3> QED
      BY <1>1, <1>2, <1>3, <3>2, <3>3, <3>4, InListRange DEF Inv, StoppedGone, SessionOK
  <2>2. CASE ~ stopped[element]
    <3>1. UNCHANGED <<list, session, connection>>
      BY <2>2 DEF NextSession, Keep
    <3>2. ListTypeOK' /\ Ring' /\ Aged(age)' /\ Linked' = Linked /\ alive' = alive
      BY <1>3, <3>1, ListKept
    <3>3. SessionOK' /\ ConnectionOK' /\ stopped' = stopped
      BY <3>1, TypeParts DEF Inv, SessionOK, ConnectionOK, session, connection
    <3>4. next[s] \in Linked'
      BY <1>3, <3>2 DEF Ring
    <3> QED
      BY <1>2, <2>2, <3>2, <3>3, <3>4 DEF Inv, StoppedGone
  <2> QED
    BY <2>1, <2>2
<1>5. element' \in Linked'
  BY <1>1, <1>2, <1>4
<1>6. TypeOK'
  <2>1. Linked' \subseteq Element
    BY <1>4 DEF ListTypeOK, Linked, Element
  <2>2. StateOK'
    BY <1>1, <1>5, <2>1, TypeParts DEF Inv, StateOK
  <2> QED
    BY <1>4, <2>2 DEF TypeOK, StateOK, SessionOK, ConnectionOK
<1>7. NoDangling' /\ HandledSession' /\ StoppedGone'
  BY <1>1, <1>4, <1>5 DEF NoDangling, HandledSession, StoppedGone
<1>8. GivenSoFar(age)'
  BY <1>1 DEF Inv, GivenSoFar
<1> QED
  BY <1>4, <1>6, <1>7, <1>8 DEF Inv

\* What the steps have in common that leave the list, the sessions and all but
\* the room in the connections alone.
LEMMA WorkerStep ==
  ASSUME NEW age \in Ages, Inv(age), UNCHANGED <<list, session, inbox, closed>>,
         space' \in [Sessions -> 0 .. Room],
         pc' \in {"loop", "requests", "packet", "ended", "killed"},
         retVal' \in BOOLEAN, packets' \in 0 .. MaxPackets,
         element' \in Linked \cup {element},
         pc' \in {"requests", "packet"} => element' \in Linked,
         pc # "handled",
         given' \subseteq Sessions, GivenSoFar(age)'
  PROVE  Inv(age)'
<1>1. /\ ListTypeOK' /\ Ring' /\ Aged(age)'
      /\ alive' = alive /\ Linked' = Linked
  BY ListKept, TypeParts DEF Inv
<1>2. tcp' = tcp /\ streaming' = streaming /\ stopped' = stopped
  BY DEF session
<1>3. SessionOK' /\ ConnectionOK'
  BY <1>2, TypeParts DEF Inv, SessionOK, ConnectionOK
<1>4. StateOK'
  BY InListRange, TypeParts DEF Inv, StateOK
<1>5. TypeOK'
  BY <1>1, <1>3, <1>4 DEF TypeOK, StateOK, SessionOK, ConnectionOK
<1>6. NoDangling' /\ HandledSession' /\ StoppedGone'
  BY <1>1, <1>2 DEF Inv, NoDangling, HandledSession, StoppedGone
<1> QED
  BY <1>1, <1>5, <1>6 DEF Inv

LEMMA RoundStep ==
  ASSUME NEW age \in Ages, Inv(age), BeginRound \/ EndRound \/ Exit
  PROVE  Inv(age)'
<1>1. /\ UNCHANGED <<list, session, inbox, closed>> /\ given' = given
      /\ space' \in [Sessions -> 0 .. Room]
  BY TypeParts DEF BeginRound, EndRound, Exit, Inv, ConnectionOK, connection
<1>2. ListTypeOK /\ Ring /\ Aged(age) /\ StateOK /\ GivenSoFar(age)
  BY TypeParts DEF Inv
<1>3. next[Clients] \in Linked /\ Clients \in Linked
  BY <1>2, InListRange DEF Ring
<1>4. given' \subseteq Sessions
  BY <1>1, <1>2 DEF StateOK
<1>5. CASE BeginRound
  <2>1. /\ pc = "loop" /\ pc' = "requests" /\ retVal' = TRUE
        /\ element' \in Linked /\ packets' = packets
    BY <1>3, <1>5 DEF BeginRound
  <2>2. GivenSoFar(age)'
    BY <1>1, <1>2, <2>1 DEF GivenSoFar
  <2> QED
    BY <1>1, <1>2, <1>4, <2>1, <2>2, WorkerStep DEF StateOK
<1>6. CASE EndRound
  <2>1. /\ pc = "requests" /\ pc' \in {"loop", "packet"} /\ retVal' = TRUE
        /\ element' \in Linked /\ packets' \in 0 .. MaxPackets
    BY <1>2, <1>3, <1>6, StreamerAssumption DEF EndRound, StateOK
  <2>2. given' = {}
    BY <1>1, <1>2, <2>1 DEF GivenSoFar
  <2>3. ASSUME pc' = "packet", NEW s \in alive PROVE ~ Passed(age, s)'
    <3>1. element' = next[Clients]
      BY <1>6, <2>3 DEF EndRound
    <3> QED
      BY <1>2, <3>1, FirstElement
  <2>4. GivenSoFar(age)'
    BY <1>1, <2>2, <2>3, ListKept DEF GivenSoFar
  <2> QED
    BY <1>1, <1>4, <2>1, <2>4, WorkerStep
<1>7. CASE Exit
  <2>1. /\ pc = "loop" /\ pc' = "ended" /\ retVal' = retVal
        /\ element' = element /\ packets' = packets
    BY <1>7 DEF Exit
  <2>2. GivenSoFar(age)'
    BY <2>1 DEF GivenSoFar
  <2> QED
    BY <1>1, <1>2, <1>4, <2>1, <2>2, WorkerStep DEF StateOK
<1> QED
  BY <1>5, <1>6, <1>7

\* One turn of the loop of rtpSendData: the session got the packet, or does not play.
LEMMA PacketStep ==
  ASSUME NEW age \in Ages, Inv(age), NEW s \in Sessions,
         SendPacket(s) \/ PassOver(s)
  PROVE  Inv(age)'
<1>1. ListTypeOK /\ Ring /\ Aged(age) /\ StateOK /\ ConnectionOK /\ GivenSoFar(age)
  BY TypeParts DEF Inv
<1>2. /\ pc = "packet" /\ element = s /\ pc' = "packet"
      /\ element' = next[s] /\ retVal' = retVal /\ packets' = packets
      /\ UNCHANGED <<list, session, inbox, closed>>
  BY DEF SendPacket, PassOver, connection
<1>3. s \in alive /\ next[s] \in Linked
  <2>1. s \in Linked /\ s # Clients
    BY <1>2, ListAssumption DEF Inv, NoDangling
  <2> QED
    BY <1>1, <2>1, InListRange DEF Ring
<1>4. space' \in [Sessions -> 0 .. Room]
  BY <1>1, SocketSendType DEF SendPacket, PassOver, ConnectionOK, connection
<1>5. given' = given \cup {t \in {s} : Plays(t)}
  <2>1. CASE SendPacket(s)
    BY <2>1 DEF SendPacket
  <2>2. CASE PassOver(s)
    BY <2>2 DEF PassOver
  <2> QED
    BY <2>1, <2>2
<1>6. GivenSoFar(age)'
  <2>1. alive' = alive /\ \A t \in alive : Plays(t)' <=> Plays(t)
    BY <1>2, ListKept DEF Plays, session
  <2>2. \A t \in alive : Passed(age, t)' <=> Passed(age, t) \/ t = s
    BY <1>1, <1>2, <1>3, NextElement
  <2>3. given = {t \in alive : Plays(t) /\ Passed(age, t)}
    BY <1>1, <1>2 DEF GivenSoFar
  <2>4. given' = {t \in alive : Plays(t) /\ (Passed(age, t) \/ t = s)}
    BY <1>3, <1>5, <2>3
  <2>5. given' = {t \in alive' : Plays(t)' /\ Passed(age, t)'}
    BY <2>1, <2>2, <2>4
  <2> QED
    BY <1>2, <2>5 DEF GivenSoFar
<1>7. given' \subseteq Sessions
  BY <1>1, <1>5 DEF StateOK
<1> QED
  BY <1>1, <1>2, <1>3, <1>4, <1>6, <1>7, WorkerStep DEF StateOK

LEMMA EndPacketStep ==
  ASSUME NEW age \in Ages, Inv(age), EndPacket
  PROVE  Inv(age)'
<1>1. ListTypeOK /\ Ring /\ Aged(age) /\ StateOK /\ ConnectionOK
  BY TypeParts DEF Inv
<1>2. /\ pc = "packet" /\ given' = {} /\ retVal' = retVal
      /\ element' \in {element, next[Clients]} /\ element = Clients
      /\ pc' \in {"packet", "loop"}
      /\ pc' = "packet" => element' = next[Clients]
      /\ UNCHANGED <<list, session, inbox, closed>> /\ space' = space
  BY DEF EndPacket, connection
<1>3. element' \in Linked
  BY <1>1, <1>2, InListRange DEF Ring
<1>4. packets' \in 0 .. MaxPackets
  BY <1>1, StreamerAssumption DEF EndPacket, StateOK
<1>5. ASSUME pc' = "packet", NEW s \in alive PROVE ~ Passed(age, s)'
  BY <1>1, <1>2, <1>5, FirstElement
<1>6. GivenSoFar(age)'
  BY <1>2, <1>5, ListKept DEF GivenSoFar
<1> QED
  BY <1>1, <1>2, <1>3, <1>4, <1>6, WorkerStep DEF StateOK, ConnectionOK

LEMMA BrokenPipeStep ==
  ASSUME NEW age \in Ages, Inv(age), NEW s \in Sessions, BrokenPipe(s)
  PROVE  Inv(age)'
<1>1. /\ pc # "handled" /\ pc' = "killed" /\ element' = element
      /\ UNCHANGED <<list, session, inbox, closed, space, retVal, packets, given>>
  BY DEF BrokenPipe, Sending, connection
<1>2. GivenSoFar(age)'
  BY <1>1 DEF GivenSoFar
<1> QED
  BY <1>1, <1>2, WorkerStep, TypeParts DEF Inv, StateOK, ConnectionOK

\* A new session comes last: its age is the greatest.
LEMMA AddSessionStep ==
  ASSUME NEW age \in Ages, Inv(age), NEW s \in Sessions, AddSession(s)
  PROVE  IInv'
<1>1. ListTypeOK /\ Ring /\ Aged(age) /\ StateOK /\ SessionOK /\ ConnectionOK
  BY TypeParts DEF Inv
<1>2. /\ pc = "loop" /\ pc' = "loop" /\ s \notin alive
      /\ element' = element /\ retVal' = retVal
      /\ packets' = packets /\ given' = given
      /\ AppendElement(s) /\ Fresh(s)
  BY DEF AddSession, worker
<1>3. /\ ListTypeOK' /\ Ring' /\ \E a \in Ages : Aged(a)'
  BY <1>1, <1>2, AppendKeeps
<1>4. PICK a \in Ages : Aged(a)'
  BY <1>3
<1>5. SessionOK' /\ ConnectionOK' /\ stopped' = [stopped EXCEPT ![s] = FALSE]
  BY <1>1, <1>2, FreshType
<1>6. TypeOK'
  <2>1. StateOK'
    BY <1>1, <1>2 DEF StateOK
  <2> QED
    BY <1>3, <1>5, <2>1 DEF TypeOK, StateOK, SessionOK, ConnectionOK
<1>7. NoDangling' /\ HandledSession'
  BY <1>2 DEF NoDangling, HandledSession
<1>8. StoppedGone'
  <2>1. alive' = alive \cup {s}
    BY <1>2 DEF AppendElement
  <2> QED
    BY <1>1, <1>2, <1>5, <2>1, InListRange DEF Inv, StoppedGone, SessionOK
<1>9. GivenSoFar(a)'
  BY <1>2 DEF Inv, GivenSoFar
<1>10. Inv(a)'
  BY <1>3, <1>4, <1>6, <1>7, <1>8, <1>9 DEF Inv
<1> QED
  BY <1>10 DEF IInv

-----------------------------------------------------------------------------
(* The invariant.                                                          *)

LEMMA InvInit ==
  ASSUME Init PROVE IInv
<1>1. PICK s \in Sessions :
        /\ alive = {s} /\ prev = next
        /\ next = [[e \in Element |-> Freed] EXCEPT ![s] = Clients, ![Clients] = s]
  BY DEF Init
<1>2. s # Clients /\ s \in Element /\ Clients \in Element /\ Linked = {s, Clients}
  BY <1>1, ListAssumption DEF Element, Linked
<1>3. next[s] = Clients /\ next[Clients] = s
  BY <1>1, <1>2
<1>4. next \in [Element -> Element \cup {Freed}]
  BY <1>1, <1>2
<1>5. ListTypeOK
  BY <1>1, <1>4 DEF ListTypeOK
<1>6. Ring
  BY <1>1, <1>2, <1>3 DEF Ring
<1>7. PICK age \in Ages : age = [e \in Element |-> IF e = s THEN 1 ELSE 0]
  BY DEF Ages
<1>8. age[s] = 1 /\ age[Clients] = 0
  BY <1>2, <1>7
<1>9. Aged(age)
  BY <1>1, <1>2, <1>3, <1>8 DEF Aged
<1>10. TypeOK
  <2>1. StateOK
    BY StreamerAssumption DEF Init, StateOK, Element
  <2>2. SessionOK
    BY DEF Init, SessionOK
  <2>3. Room \in 0 .. Room
    BY StreamerAssumption
  <2>4. ConnectionOK
    BY <2>3 DEF Init, ConnectionOK
  <2> QED
    BY <1>5, <2>1, <2>2, <2>4, TypeParts
<1>11. NoDangling /\ HandledSession /\ GivenSoFar(age)
  BY DEF Init, NoDangling, HandledSession, GivenSoFar
<1>12. StoppedGone
  BY <1>1 DEF Init, StoppedGone
<1>13. Inv(age)
  BY <1>6, <1>9, <1>10, <1>11, <1>12 DEF Inv
<1> QED
  BY <1>13 DEF IInv

LEMMA InvNext ==
  ASSUME IInv, [Next]_vars PROVE IInv'
<1>1. PICK age \in Ages : Inv(age)
  BY DEF IInv
<1>2. CASE UNCHANGED vars
  <2>1. UNCHANGED <<list, session, inbox, closed, space, pc, element, retVal, packets, given>>
    BY <1>2 DEF vars, worker, connection
  <2>2. alive' = alive /\ next' = next /\ prev' = prev
        /\ tcp' = tcp /\ streaming' = streaming /\ stopped' = stopped
    BY <2>1 DEF list, session
  <2>3. Inv(age)'
    BY <1>1, <2>1, <2>2 DEF Inv, TypeOK, ListTypeOK, Ring, Linked, Aged, NoDangling,
         HandledSession, StoppedGone, GivenSoFar, Passed, Plays
  <2> QED
    BY <2>3 DEF IInv
<1>3. CASE \E s \in Sessions : AddSession(s)
  BY <1>1, <1>3, AddSessionStep
<1>4. CASE \E s \in Sessions : Client(s)
  BY <1>1, <1>4, ClientStep DEF IInv
<1>5. CASE Work
  <2>1. CASE BeginRound \/ EndRound \/ Exit
    BY <1>1, <2>1, RoundStep DEF IInv
  <2>2. CASE NextSession
    BY <1>1, <2>2, NextSessionStep DEF IInv
  <2>3. CASE EndPacket
    BY <1>1, <2>3, EndPacketStep DEF IInv
  <2>4. CASE \E s \in Sessions : Handle(s)
    BY <1>1, <2>4, HandleStep DEF IInv
  <2>5. CASE \E s \in Sessions : SendPacket(s) \/ PassOver(s)
    BY <1>1, <2>5, PacketStep DEF IInv
  <2>6. CASE \E s \in Sessions : BrokenPipe(s)
    BY <1>1, <2>6, BrokenPipeStep DEF IInv
  <2> QED
    BY <1>5, <2>1, <2>2, <2>3, <2>4, <2>5, <2>6 DEF Work
<1> QED
  BY <1>2, <1>3, <1>4, <1>5 DEF Next

LEMMA Always == Spec => []IInv
<1>1. Init => IInv
  BY InvInit
<1>2. IInv /\ [Next]_vars => IInv'
  BY InvNext
<1> QED
  BY <1>1, <1>2, PTL DEF Spec

LEMMA InvParts ==
  ASSUME IInv
  PROVE  TypeOK /\ Ring /\ NoDangling /\ StoppedGone /\ AllGiven
<1>1. PICK age \in Ages : Inv(age)
  BY DEF IInv
<1>2. TypeOK /\ Ring /\ NoDangling /\ StoppedGone
  BY <1>1 DEF Inv
<1>3. ASSUME pc = "packet", element = Clients
      PROVE  given = {s \in alive : Plays(s)}
  <2>1. given = {s \in alive : Plays(s) /\ Passed(age, s)}
    BY <1>1, <1>3 DEF Inv, GivenSoFar
  <2>2. \A s \in alive : Passed(age, s)
    BY <1>3 DEF Passed
  <2> QED
    BY <2>1, <2>2
<1> QED
  BY <1>2, <1>3 DEF AllGiven

\* For any number of sessions the variables keep their types, and the packets
\* of a NAL unit and the room of a connection stay in their ranges.
THEOREM TypeCorrect == Spec => []TypeOK
  BY Always, InvParts, PTL

\* The constructor and the destructor of LinkedListElement keep one ring with
\* m_Clients in it, whatever sessions come and go.
THEOREM RingKept == Spec => []Ring
  BY Always, InvParts, PTL

\* No loop of the streamer stands at a deleted session, although
\* handleRequests deletes sessions while it walks.
THEOREM WalksAreSafe == Spec => []NoDangling
  BY Always, InvParts, PTL

\* A session that has stopped is deleted before the next one is looked at, and
\* before anything is sent.
THEOREM StoppedLeaves == Spec => []StoppedGone
  BY Always, InvParts, PTL

\* Each packet reaches all sessions that play, and no other, before the next one.
THEOREM PacketsForAll == Spec => []AllGiven
  BY Always, InvParts, PTL
=============================================================================
