------------------------- MODULE RtspReceiveProofs -------------------------
(***************************************************************************)
(* Theorems about RtspReceive, for any sessions, methods, header lines in  *)
(* any order, numbers of requests, and any size of the buffer.             *)
(***************************************************************************)
EXTENDS RtspReceive, SequenceTheorems, WellFoundedInduction, NaturalsInduction, TLAPS

Kind == {"method", "uri", "cseq", "transport", "header", "end"}

-----------------------------------------------------------------------------
(* Sequences.                                                              *)

LEMMA ConcatFact ==
  ASSUME NEW S, NEW u \in Seq(S), NEW v \in Seq(S)
  PROVE  /\ u \o v \in Seq(S) /\ Len(u \o v) = Len(u) + Len(v)
         /\ \A i \in 1 .. Len(u) + Len(v) :
              (u \o v)[i] = IF i <= Len(u) THEN u[i] ELSE v[i - Len(u)]
OBVIOUS

-----------------------------------------------------------------------------
(* The parts of a request.                                                 *)

\* Where the parts of a request are: the request line, the header lines, the end.
LEMMA PartsFact ==
  ASSUME NEW r \in Requests
  PROVE  /\ Parts(r) \in Seq(Kind) /\ Len(Parts(r)) = Len(r.lines) + 3
         /\ r.lines \in Seq({"cseq", "transport", "header"}) /\ Len(r.lines) \in Nat
         /\ Len(Parts(r)) \in Nat /\ Len(Parts(r)) >= 3
         /\ Parts(r)[1] = "method" /\ Parts(r)[2] = "uri"
         /\ Parts(r)[Len(Parts(r))] = "end"
         /\ \A i \in DOMAIN r.lines : Parts(r)[i + 2] = r.lines[i]
         /\ \A i \in 3 .. Len(Parts(r)) - 1 :
              i - 2 \in DOMAIN r.lines /\ Parts(r)[i] = r.lines[i - 2]
<1> DEFINE a == <<"method", "uri">>
           h == r.lines
           e == <<"end">>
           n == Len(h)
           p == Parts(r)
<1>1. h \in HeaderLines
  BY DEF Requests
<1>2. h \in Seq({"cseq", "transport", "header"})
  BY <1>1, ReceiveAssumption
<1>3. h \in Seq(Kind) /\ n \in Nat /\ DOMAIN h = 1 .. n
  BY <1>2 DEF Kind
<1>4. a \in Seq(Kind) /\ Len(a) = 2 /\ a[1] = "method" /\ a[2] = "uri"
  BY DEF Kind
<1>5. e \in Seq(Kind) /\ Len(e) = 1 /\ e[1] = "end"
  BY DEF Kind
<1>6. p = (a \o h) \o e
  BY DEF Parts
<1> HIDE DEF a, h, e, n, p
<1>7. /\ a \o h \in Seq(Kind) /\ Len(a \o h) = 2 + n
      /\ \A i \in 1 .. 2 + n : (a \o h)[i] = IF i <= 2 THEN a[i] ELSE h[i - 2]
  <2>1. Len(h) = n
    BY DEF n
  <2>2. /\ a \o h \in Seq(Kind) /\ Len(a \o h) = Len(a) + Len(h)
        /\ \A i \in 1 .. Len(a) + Len(h) :
             (a \o h)[i] = IF i <= Len(a) THEN a[i] ELSE h[i - Len(a)]
    BY <1>3, <1>4, ConcatFact
  <2> QED
    BY <1>4, <2>1, <2>2
<1> DEFINE ah == a \o h
<1> HIDE DEF ah
<1>8. /\ ah \o e \in Seq(Kind) /\ Len(ah \o e) = 2 + n + 1
      /\ \A i \in 1 .. 2 + n + 1 : (ah \o e)[i] = IF i <= 2 + n THEN ah[i] ELSE e[i - (2 + n)]
  <2>1. ah \in Seq(Kind) /\ Len(ah) = 2 + n
    BY <1>7 DEF ah
  <2>2. /\ ah \o e \in Seq(Kind) /\ Len(ah \o e) = Len(ah) + Len(e)
        /\ \A i \in 1 .. Len(ah) + Len(e) :
             (ah \o e)[i] = IF i <= Len(ah) THEN ah[i] ELSE e[i - Len(ah)]
    BY <1>5, <2>1, ConcatFact
  <2> QED
    BY <1>5, <2>1, <2>2
<1>9. /\ p \in Seq(Kind) /\ Len(p) = n + 3
      /\ \A i \in 1 .. n + 3 : p[i] = IF i <= 2 + n THEN ah[i] ELSE e[i - (2 + n)]
  <2>1. p = ah \o e /\ 2 + n + 1 = n + 3
    BY <1>3, <1>6 DEF ah
  <2> QED
    BY <1>8, <2>1
<1>10. \A i \in 1 .. 2 + n : p[i] = IF i <= 2 THEN a[i] ELSE h[i - 2]
  BY <1>3, <1>7, <1>9 DEF ah
<1>11. p[1] = "method" /\ p[2] = "uri" /\ p[n + 3] = "end"
  <2>1. 1 \in 1 .. 2 + n /\ 2 \in 1 .. 2 + n /\ n + 3 \in 1 .. n + 3
        /\ ~(n + 3 <= 2 + n) /\ (n + 3) - (2 + n) = 1
    BY <1>3
  <2>2. p[1] = a[1] /\ p[2] = a[2]
    BY <1>10, <2>1
  <2>3. p[n + 3] = e[1]
    BY <1>9, <2>1
  <2> QED
    BY <1>4, <1>5, <2>2, <2>3
<1>12. \A i \in 1 .. n : p[i + 2] = h[i]
  <2> SUFFICES ASSUME NEW i \in 1 .. n PROVE p[i + 2] = h[i]
    OBVIOUS
  <2>1. i + 2 \in 1 .. 2 + n /\ ~(i + 2 <= 2) /\ (i + 2) - 2 = i
    BY <1>3
  <2> QED
    BY <1>10, <2>1
<1>13. \A i \in 3 .. (n + 3) - 1 : i - 2 \in 1 .. n /\ p[i] = h[i - 2]
  <2> SUFFICES ASSUME NEW i \in 3 .. (n + 3) - 1 PROVE i - 2 \in 1 .. n /\ p[i] = h[i - 2]
    OBVIOUS
  <2>1. i \in 1 .. 2 + n /\ ~(i <= 2) /\ i - 2 \in 1 .. n
    BY <1>3
  <2> QED
    BY <1>10, <2>1
<1>14. n + 3 \in Nat /\ n + 3 >= 3
  BY <1>3
<1> QED
  BY <1>2, <1>3, <1>9, <1>11, <1>12, <1>13, <1>14 DEF n, p, h

\* What they are: the method and the end once, and in their places; CSeq once,
\* Transport at most once, and exactly in a SETUP, wherever they are.
LEMMA KindsFact ==
  ASSUME NEW r \in Requests
  PROVE  LET p == Parts(r)
             l == Len(p)
         IN  /\ \A i \in 1 .. l : p[i] = "method" <=> i = 1
             /\ \A i \in 1 .. l : p[i] = "end" <=> i = l
             /\ \E i \in 1 .. l : p[i] = "cseq"
             /\ \A i, j \in 1 .. l : p[i] = "cseq" /\ p[j] = "cseq" => i = j
             /\ \A i, j \in 1 .. l : p[i] = "transport" /\ p[j] = "transport" => i = j
             /\ r.method = "SETUP" <=> \E i \in 1 .. l : p[i] = "transport"
<1> DEFINE p == Parts(r)
           l == Len(p)
           h == r.lines
<1>1. /\ h \in Seq({"cseq", "transport", "header"}) /\ Len(h) \in Nat /\ l = Len(h) + 3
      /\ l \in Nat /\ l >= 3 /\ p[1] = "method" /\ p[2] = "uri" /\ p[l] = "end"
      /\ \A i \in DOMAIN h : p[i + 2] = h[i]
      /\ \A i \in 3 .. l - 1 : i - 2 \in DOMAIN h /\ p[i] = h[i - 2]
  BY PartsFact
<1>2. /\ \E i \in DOMAIN h : h[i] = "cseq"
      /\ \A i, j \in DOMAIN h : h[i] = h[j] /\ h[i] # "header" => i = j
      /\ r.method = "SETUP" <=> \E i \in DOMAIN h : h[i] = "transport"
  BY ReceiveAssumption DEF Requests
<1> HIDE DEF p, l, h
<1>3. DOMAIN h = 1 .. l - 3 /\ \A i \in DOMAIN h : h[i] \in {"cseq", "transport", "header"}
  <2>1. DOMAIN h = 1 .. Len(h) /\ Len(h) = l - 3
    BY <1>1
  <2> QED
    BY <1>1, <2>1
<1>4. \A i \in 1 .. l : i = 1 \/ i = 2 \/ i \in 3 .. l - 1 \/ i = l
  BY <1>1
<1>5. \A i \in 3 .. l - 1 : p[i] \in {"cseq", "transport", "header"}
  BY <1>1, <1>3
<1>6. \A i \in 1 .. l : p[i] = "method" <=> i = 1
  BY <1>1, <1>4, <1>5
<1>7. \A i \in 1 .. l : p[i] = "end" <=> i = l
  BY <1>1, <1>4, <1>5
<1>8. \A k \in {"cseq", "transport"} : \A i \in 1 .. l :
        p[i] = k => i \in 3 .. l - 1 /\ i - 2 \in DOMAIN h /\ h[i - 2] = k
  BY <1>1, <1>4
<1>9. \A k \in {"cseq", "transport"} : \A i, j \in 1 .. l : p[i] = k /\ p[j] = k => i = j
  <2> SUFFICES ASSUME NEW k \in {"cseq", "transport"}, NEW i \in 1 .. l, NEW j \in 1 .. l,
                      p[i] = k, p[j] = k
               PROVE  i = j
    OBVIOUS
  <2>1. /\ i - 2 \in DOMAIN h /\ h[i - 2] = k
        /\ j - 2 \in DOMAIN h /\ h[j - 2] = k
    BY <1>8
  <2>2. i - 2 = j - 2
    BY <1>2, <2>1
  <2> QED
    BY <1>1, <2>2
<1>10. \A k \in {"cseq", "transport"} :
         (\E i \in DOMAIN h : h[i] = k) <=> \E i \in 1 .. l : p[i] = k
  <2> SUFFICES ASSUME NEW k \in {"cseq", "transport"}
               PROVE  (\E i \in DOMAIN h : h[i] = k) <=> \E i \in 1 .. l : p[i] = k
    OBVIOUS
  <2>1. ASSUME NEW i \in DOMAIN h, h[i] = k PROVE \E j \in 1 .. l : p[j] = k
    <3>1. i + 2 \in 1 .. l /\ p[i + 2] = k
      BY <1>1, <1>3, <2>1
    <3> QED
      BY <3>1
  <2>2. ASSUME NEW i \in 1 .. l, p[i] = k PROVE \E j \in DOMAIN h : h[j] = k
    BY <1>8, <2>2
  <2> QED
    BY <2>1, <2>2
<1>11. \E i \in 1 .. l : p[i] = "cseq"
  BY <1>2, <1>10
<1>12. r.method = "SETUP" <=> \E i \in 1 .. l : p[i] = "transport"
  BY <1>2, <1>10
<1>13. /\ \A i, j \in 1 .. l : p[i] = "cseq" /\ p[j] = "cseq" => i = j
       /\ \A i, j \in 1 .. l : p[i] = "transport" /\ p[j] = "transport" => i = j
  BY <1>9
<1> QED
  BY <1>6, <1>7, <1>11, <1>12, <1>13 DEF p, l, h

-----------------------------------------------------------------------------
(* One read.                                                               *)

LEMMA MinFact ==
  ASSUME NEW m \in Int, NEW n \in Int
  PROVE  Min({m, n}) \in {m, n} /\ Min({m, n}) <= m /\ Min({m, n}) <= n
<1>1. \E x \in {m, n} : \A y \in {m, n} : x <= y
  OBVIOUS
<1> QED
  BY <1>1 DEF Min

\* What is in the buffer when a call begins.
LEMMA OldFact ==
  ASSUME TypeOK
  PROVE  /\ OldBuf \in Seq(Part) /\ Len(OldBuf) \in Nat /\ Len(OldBuf) < BufSize
         /\ OldState \in {"Unknown", "GotMethod", "Invalid"}
         /\ OldBuf = recvBuf \/ (OldBuf = <<>> /\ OldState = "Unknown")
<1>1. Len(recvBuf) \in Nat /\ BufSize \in Nat /\ BufSize > 3
  BY ReceiveAssumption DEF TypeOK
<1>2. CASE Restart
  BY <1>1, <1>2 DEF OldBuf, OldState
<1>3. CASE ~Restart
  BY <1>1, <1>3 DEF OldBuf, OldState, Restart, TypeOK
<1> QED
  BY <1>2, <1>3

\* What is in it when the call has read res parts.
LEMMA ReadFact ==
  ASSUME TypeOK, NEW s \in Sessions, NEW res \in ReadSizes(s)
  PROVE  LET buf == Glued(s, res)
             old == Len(OldBuf)
         IN  /\ res \in 1 .. Len(inbox[s])
             /\ inbox[s] \in Seq(Part) /\ Len(inbox[s]) \in Nat
             /\ buf \in Seq(Part) /\ Len(buf) = old + res /\ Len(buf) <= BufSize
             /\ \A i \in 1 .. old : buf[i] = OldBuf[i]
             /\ \A i \in 1 .. res : buf[old + i] = inbox[s][i]
<1> DEFINE room == BufSize - Len(OldBuf)
           all  == Min({Len(inbox[s]), room})
           new  == SubSeq(inbox[s], 1, res)
<1>1. inbox[s] \in Seq(Part) /\ Len(inbox[s]) \in Nat
  BY DEF TypeOK
<1>2. room \in Nat /\ OldBuf \in Seq(Part) /\ Len(OldBuf) \in Nat
  BY OldFact, ReceiveAssumption
<1>3. all \in Nat /\ all <= Len(inbox[s]) /\ all <= room
  <2>1. /\ all \in {Len(inbox[s]), room}
        /\ all <= Len(inbox[s]) /\ all <= room
    <3>1. Len(inbox[s]) \in Int /\ room \in Int
      BY <1>1, <1>2
    <3> HIDE DEF room
    <3> QED
      BY <3>1, MinFact, Zenon
  <2> HIDE DEF all, room
  <2> QED
    BY <1>1, <1>2, <2>1
<1>4. res \in 1 .. all
  BY <1>3 DEF ReadSizes
<1>5. res \in 1 .. Len(inbox[s]) /\ Len(OldBuf) + res <= BufSize
  BY <1>1, <1>2, <1>3, <1>4, ReceiveAssumption
<1>6. /\ new \in Seq(Part) /\ Len(new) = res
      /\ \A i \in 1 .. res : new[i] = inbox[s][i]
  <2>1. \A i \in 1 .. res : inbox[s][i] \in Part
    BY <1>1, <1>5
  <2> QED
    BY <1>5, <2>1, SubSeqProperties
<1> HIDE DEF new
<1>7. /\ OldBuf \o new \in Seq(Part) /\ Len(OldBuf \o new) = Len(OldBuf) + res
      /\ \A i \in 1 .. Len(OldBuf) + res :
           (OldBuf \o new)[i] = IF i <= Len(OldBuf) THEN OldBuf[i] ELSE new[i - Len(OldBuf)]
  BY <1>2, <1>6, ConcatFact
<1>8. Glued(s, res) = OldBuf \o new
  BY DEF Glued, new
<1> HIDE DEF room, all
<1> QED
  BY <1>1, <1>2, <1>5, <1>6, <1>7, <1>8

\* What is left in the connection.
LEMMA ConsumeFact ==
  ASSUME TypeOK, NEW s \in Sessions, NEW res \in 1 .. Len(inbox[s]), Consume(s, res)
  PROVE  /\ inbox' \in [Sessions -> Seq(Part)]
         /\ \A t \in Sessions \ {s} : inbox'[t] = inbox[t]
         /\ Len(inbox'[s]) = Len(inbox[s]) - res
         /\ \A i \in 1 .. Len(inbox'[s]) : inbox'[s][i] = inbox[s][res + i]
<1> DEFINE rest == SubSeq(inbox[s], res + 1, Len(inbox[s]))
<1>1. inbox[s] \in Seq(Part) /\ Len(inbox[s]) \in Nat
  BY DEF TypeOK
<1>2. \A i \in res + 1 .. Len(inbox[s]) : inbox[s][i] \in Part
  BY <1>1
<1>3. /\ rest \in Seq(Part) /\ Len(rest) = Len(inbox[s]) - res
      /\ \A i \in 1 .. Len(rest) : rest[i] = inbox[s][res + i]
  <2>1. /\ rest \in Seq(Part)
        /\ Len(rest) = IF res + 1 <= Len(inbox[s]) THEN Len(inbox[s]) - (res + 1) + 1 ELSE 0
        /\ \A i \in 1 .. Len(inbox[s]) - (res + 1) + 1 : rest[i] = inbox[s][(res + 1) + i - 1]
    BY <1>1, <1>2, SubSeqProperties
  <2>2. Len(rest) = Len(inbox[s]) - res
    BY <1>1, <2>1
  <2>3. ASSUME NEW i \in 1 .. Len(rest) PROVE rest[i] = inbox[s][res + i]
    <3>1. i \in 1 .. Len(inbox[s]) - (res + 1) + 1 /\ (res + 1) + i - 1 = res + i
      BY <1>1, <2>2
    <3> QED
      BY <2>1, <3>1
  <2> QED
    BY <2>1, <2>2, <2>3
<1>4. inbox' = [inbox EXCEPT ![s] = rest]
  BY DEF Consume
<1> HIDE DEF rest
<1> QED
  BY <1>3, <1>4 DEF TypeOK

\* The largest of some places in a sequence.
LEMMA MaxFact ==
  ASSUME NEW n \in Nat, NEW at \in SUBSET (1 .. n), at # {}
  PROVE  Max(at) \in at /\ \A i \in at : i <= Max(at)
<1> DEFINE far == {n - i : i \in at}
<1>1. far \subseteq Nat /\ far # {}
  <2>1. \A i \in at : n - i \in Nat
    OBVIOUS
  <2>2. PICK i \in at : TRUE
    OBVIOUS
  <2>3. n - i \in far
    OBVIOUS
  <2> QED
    BY <2>1, <2>3
<1>2. \E m \in far : \A k \in far : ~(<<k, m>> \in OpToRel(<, Nat))
  BY <1>1, NatLessThanWellFounded, WFMin, Zenon
<1>3. \E m \in far : \A k \in far : m <= k
  <2>1. OpToRel(<, Nat) = {ss \in Nat \X Nat : ss[1] < ss[2]}
    BY DEF OpToRel
  <2>2. \A k, m \in Nat : k < m => <<k, m>> \in OpToRel(<, Nat)
    BY <2>1, Zenon
  <2>3. \A k, m \in Nat : ~(k < m) => m <= k
    OBVIOUS
  <2> QED
    BY <1>1, <1>2, <2>2, <2>3
<1>4. PICK x \in at : \A i \in at : n - x <= n - i
  BY <1>3
<1>5. \A i \in at : i <= x
  BY <1>4
<1> QED
  BY <1>5 DEF Max

-----------------------------------------------------------------------------
(* What a client sends, and what the server reads in it.                   *)

\* Request r as the n-th of client s, in parts.
Wire(s, r, n) ==
  [i \in 1 .. Len(Parts(r)) |-> [part |-> Parts(r)[i], by |-> s, n |-> n]]

LEMMA WireFact ==
  ASSUME NEW s \in Sessions, NEW r \in Requests, NEW n \in 1 .. MaxRequests
  PROVE  /\ Wire(s, r, n) \in Seq(Part) /\ Len(Wire(s, r, n)) = Len(Parts(r))
         /\ \A i \in 1 .. Len(Parts(r)) :
              Wire(s, r, n)[i] = [part |-> Parts(r)[i], by |-> s, n |-> n]
<1>1. Parts(r) \in Seq(Kind) /\ Len(Parts(r)) \in Nat
  BY PartsFact
<1>2. \A i \in 1 .. Len(Parts(r)) : [part |-> Parts(r)[i], by |-> s, n |-> n] \in Part
  BY <1>1 DEF Part, Kind
<1> QED
  BY <1>1, <1>2 DEF Wire

\* A method that the server took is a method that it knows.
LEMMA NewCmdFact ==
  ASSUME TypeOK, NEW s \in Sessions, NEW buf
  PROVE  /\ NewCmd(s, buf) \in Known \cup {"UNKNOWN"}
         /\ NewState(buf) \in {"Unknown", "GotMethod", "Invalid"}
<1>1. MethodIn(buf) \in Known \cup {"UNKNOWN"}
  BY DEF MethodIn
<1>2. cmdType[s] \in Known \cup {"UNKNOWN"}
  BY DEF TypeOK
<1>3. OldState \in {"Unknown", "GotMethod", "Invalid"}
  BY OldFact
<1> QED
  BY <1>1, <1>2, <1>3 DEF NewCmd, NewState

\* A CSeq that the server took is one that a client sent, or 0.
LEMMA ParsedCSeqFact ==
  ASSUME TypeOK, NEW s \in Sessions, NEW res, NEW across, NEW buf \in Seq(Part)
  PROVE  ParsedCSeq(s, buf, res, across) \in 0 .. MaxRequests
<1> DEFINE at == Scanned(buf, res, across, "cseq")
<1>1. at \in SUBSET (1 .. Len(buf)) /\ Len(buf) \in Nat
  BY DEF Scanned, PartsOf
<1>2. CASE at = {}
  BY <1>2 DEF ParsedCSeq, TypeOK
<1>3. CASE at # {}
  <2>1. Max(at) \in 1 .. Len(buf)
    BY <1>1, <1>3, MaxFact
  <2>2. buf[Max(at)] \in Part
    BY <1>1, <2>1
  <2>3. buf[Max(at)].n \in 0 .. MaxRequests /\ 0 \in 0 .. MaxRequests
    BY <2>2, ReceiveAssumption DEF Part
  <2> QED
    BY <1>3, <2>3 DEF ParsedCSeq
<1> QED
  BY <1>2, <1>3

-----------------------------------------------------------------------------
(* Type correctness.                                                       *)

LEMMA TypeInit == Init => TypeOK
  BY ReceiveAssumption DEF Init, TypeOK, Known

LEMMA TypeSend ==
  ASSUME TypeOK, NEW s \in Sessions, NEW r \in Requests, Send(s, r)
  PROVE  TypeOK'
<1> DEFINE n == Len(sent[s]) + 1
<1>1. sent[s] \in Seq(Requests) /\ inbox[s] \in Seq(Part)
  BY DEF TypeOK
<1>2. n \in 1 .. MaxRequests
  BY <1>1, ReceiveAssumption DEF Send
<1>3. Append(sent[s], r) \in Seq(Requests)
  BY <1>1
<1>4. Wire(s, r, n) \in Seq(Part)
  BY <1>2, WireFact
<1>5. inbox[s] \o Wire(s, r, n) \in Seq(Part)
  BY <1>1, <1>4, ConcatFact
<1>6. /\ sent' = [sent EXCEPT ![s] = Append(sent[s], r)]
      /\ inbox' = [inbox EXCEPT ![s] = inbox[s] \o Wire(s, r, n)]
      /\ UNCHANGED <<closed, session, recvBuf, hdrState>>
  BY DEF Send, Wire
<1> HIDE DEF n
<1> QED
  BY <1>3, <1>5, <1>6 DEF TypeOK, session

LEMMA TypeReceive ==
  ASSUME TypeOK, NEW s \in Sessions, Receive(s)
  PROVE  TypeOK'
<1>1. PICK res \in ReadSizes(s) :
        ReceivePart(s, res) \/ ReceiveInvalid(s, res) \/ ReceiveRequest(s, res)
  BY DEF Receive
<1> DEFINE buf == Glued(s, res)
<1>2. buf \in Seq(Part) /\ Len(buf) <= BufSize /\ res \in 1 .. Len(inbox[s])
  BY ReadFact
<1>3. Consume(s, res)
  BY <1>1 DEF ReceivePart, ReceiveInvalid, ReceiveRequest
<1>4. inbox' \in [Sessions -> Seq(Part)] /\ UNCHANGED <<sent, closed>>
  BY <1>2, <1>3, ConsumeFact DEF Consume
<1>5. /\ NewCmd(s, buf) \in Known \cup {"UNKNOWN"}
      /\ NewState(buf) \in {"Unknown", "GotMethod", "Invalid"}
  BY NewCmdFact
<1>6. /\ \A across \in BOOLEAN : ParsedCSeq(s, buf, res, across) \in 0 .. MaxRequests
      /\ cseq[s] \in 0 .. MaxRequests
  BY <1>2, ParsedCSeqFact DEF TypeOK
<1>7. \A across \in BOOLEAN : ParsedTcp(s, buf, res, across) \in BOOLEAN
  BY DEF ParsedTcp, TypeOK
<1>8. <<>> \in Seq(Part) /\ Len(<<>>) <= BufSize
  BY ReceiveAssumption
<1> HIDE DEF buf
<1>9. CASE ReceivePart(s, res)
  <2>1. /\ recvBuf' = buf /\ hdrState' = NewState(buf)
        /\ cmdType' = [cmdType EXCEPT ![s] = NewCmd(s, buf)]
        /\ UNCHANGED <<phase, cseq, tcp, streaming, replies>>
    BY <1>9 DEF ReceivePart, buf
  <2> QED
    BY <1>2, <1>4, <1>5, <2>1 DEF TypeOK
<1>10. CASE ReceiveInvalid(s, res)
  <2>1. /\ replies' = [replies EXCEPT ![s] =
             Append(replies[s], [ok |-> FALSE, method |-> "UNKNOWN", cseq |-> cseq[s]])]
        /\ recvBuf' = <<>> /\ hdrState' = "Invalid"
        /\ cmdType' = [cmdType EXCEPT ![s] = NewCmd(s, buf)]
        /\ UNCHANGED <<phase, cseq, tcp, streaming>>
    BY <1>10 DEF ReceiveInvalid, Answer, buf
  <2>2. [ok |-> FALSE, method |-> "UNKNOWN", cseq |-> cseq[s]] \in Reply
    BY <1>6 DEF Reply
  <2>3. replies' \in [Sessions -> Seq(Reply)]
    BY <2>1, <2>2 DEF TypeOK
  <2> QED
    BY <1>4, <1>5, <1>8, <2>1, <2>3 DEF TypeOK
<1>11. CASE ReceiveRequest(s, res)
  <2> DEFINE cmd == NewCmd(s, buf)
  <2>0. PICK across \in BOOLEAN :
          /\ cseq' = [cseq EXCEPT ![s] = ParsedCSeq(s, buf, res, across)]
          /\ tcp' = [tcp EXCEPT ![s] = ParsedTcp(s, buf, res, across)]
          /\ IF ParseSucceeds(buf, res, across) /\ cmd \in Known \ {"TEARDOWN"}
               THEN Answer(s, [ok |-> TRUE, method |-> cmd,
                               cseq |-> ParsedCSeq(s, buf, res, across)])
               ELSE UNCHANGED replies
    BY <1>11 DEF ReceiveRequest, buf
  <2> DEFINE ans == [ok |-> TRUE, method |-> cmd, cseq |-> ParsedCSeq(s, buf, res, across)]
  <2>1. /\ cmdType' = [cmdType EXCEPT ![s] = cmd]
        /\ streaming' = [streaming EXCEPT ![s] = streaming[s] \/ cmd = "PLAY"]
        /\ phase' = [phase EXCEPT ![s] = IF cmd = "TEARDOWN" THEN "gone" ELSE phase[s]]
        /\ recvBuf' = <<>> /\ hdrState' = "Unknown"
    BY <1>11 DEF ReceiveRequest, buf
  <2>2. replies' = [replies EXCEPT ![s] = Append(replies[s], ans)] \/ UNCHANGED replies
    BY <2>0 DEF Answer
  <2>3. ans \in Reply
    BY <1>5, <1>6 DEF Reply
  <2> HIDE DEF ans
  <2>4. replies' \in [Sessions -> Seq(Reply)]
    <3>1. replies \in [Sessions -> Seq(Reply)]
      BY DEF TypeOK
    <3>2. Append(replies[s], ans) \in Seq(Reply)
      BY <2>3, <3>1
    <3> QED
      BY <2>2, <3>1, <3>2
  <2> USE DEF ans
  <2>5. /\ phase' \in [Sessions -> {"none", "live", "gone"}]
        /\ streaming' \in [Sessions -> BOOLEAN]
    BY <2>1 DEF TypeOK
  <2>6. /\ cmdType' \in [Sessions -> Known \cup {"UNKNOWN"}]
        /\ cseq' \in [Sessions -> 0 .. MaxRequests]
        /\ tcp' \in [Sessions -> BOOLEAN]
    BY <1>5, <1>6, <1>7, <2>0, <2>1 DEF TypeOK
  <2> QED
    BY <1>4, <1>8, <2>1, <2>4, <2>5, <2>6 DEF TypeOK
<1> QED
  BY <1>1, <1>9, <1>10, <1>11

LEMMA TypeNext == TypeOK /\ [Next]_vars => TypeOK'
<1> SUFFICES ASSUME TypeOK, [Next]_vars PROVE TypeOK'
  OBVIOUS
<1>1. CASE UNCHANGED vars
  BY <1>1 DEF TypeOK, vars, client, session
<1>2. ASSUME NEW s \in Sessions, Connect(s) PROVE TypeOK'
  BY <1>2, ReceiveAssumption DEF Connect, TypeOK, client
<1>3. ASSUME NEW s \in Sessions, NEW r \in Requests, Send(s, r) PROVE TypeOK'
  BY <1>3, TypeSend
<1>4. ASSUME NEW s \in Sessions, Close(s) PROVE TypeOK'
  BY <1>4 DEF Close, TypeOK, session
<1>5. ASSUME NEW s \in Sessions, Receive(s) PROVE TypeOK'
  BY <1>5, TypeReceive
<1>6. OldBuf \in Seq(Part) /\ Len(OldBuf) <= BufSize
      /\ OldState \in {"Unknown", "GotMethod", "Invalid"}
  BY OldFact, ReceiveAssumption
<1>7. ASSUME NEW s \in Sessions, ReceiveClosed(s) PROVE TypeOK'
  BY <1>6, <1>7 DEF ReceiveClosed, TypeOK, client
<1>8. ASSUME NEW s \in Sessions, ReceiveTimeout(s) PROVE TypeOK'
  BY <1>6, <1>8 DEF ReceiveTimeout, TypeOK, client, session
<1> QED
  BY <1>1, <1>2, <1>3, <1>4, <1>5, <1>7, <1>8 DEF Next, Client, handleRequests

\* Every state of the receiver is type-correct: the static buffer never holds
\* more than its size, and every CSeq is one that a client has sent.
THEOREM TypeCorrect == Spec => []TypeOK
<1> QED
  BY TypeInit, TypeNext, PTL DEF Spec

-----------------------------------------------------------------------------
(* OwnCommand, for any sessions, however the requests arrive.  A method is *)
(* only taken from a buffer that was empty, so from what the session's own *)
(* client sent; a buffer that is not empty has a header state of its own.  *)

MethodsOf(s) == {sent[s][i].method : i \in DOMAIN sent[s]}

OwnParts ==
  \A s \in Sessions : \A i \in DOMAIN inbox[s] :
    inbox[s][i].by = s /\ inbox[s][i].n \in DOMAIN sent[s]

NonEmptyState == recvBuf # <<>> => hdrState # "Unknown"

CmdAsked == \A s \in Sessions : cmdType[s] # "UNKNOWN" => cmdType[s] \in MethodsOf(s)

OwnInv == OwnParts /\ NonEmptyState /\ CmdAsked /\ OwnCommand

\* A method is only read when nothing was kept, so from this read.
LEMMA MethodPlace ==
  ASSUME TypeOK, NonEmptyState, NEW s \in Sessions, NEW res \in ReadSizes(s),
         Classifies(Glued(s, res))
  PROVE  LET buf == Glued(s, res)
             k   == Skipped(buf) + 1
         IN  /\ k \in 1 .. res /\ Len(buf) = res /\ res \in 1 .. Len(inbox[s])
             /\ buf[k] = inbox[s][k] /\ k \in DOMAIN inbox[s]
             /\ MethodIn(buf) \in {"UNKNOWN", RequestOf(buf[k]).method}
<1> DEFINE buf == Glued(s, res)
           k   == Skipped(buf) + 1
<1>1. OldBuf = <<>>
  BY OldFact DEF Classifies, NonEmptyState, OldState, OldBuf
<1>2. /\ res \in 1 .. Len(inbox[s]) /\ buf \in Seq(Part) /\ Len(buf) = res
      /\ \A i \in 1 .. res : buf[i] = inbox[s][i]
  <2>1. Len(OldBuf) = 0 /\ \A i \in 1 .. res : 0 + i = i
    BY <1>1
  <2> QED
    BY <2>1, ReadFact
<1>3. Len(inbox[s]) \in Nat /\ DOMAIN inbox[s] = 1 .. Len(inbox[s])
  BY DEF TypeOK
<1>4. k \in 1 .. res
  <2>1. PICK i \in 1 .. res : buf[i].part # "end"
    BY <1>2, <1>3 DEF Classifies, HasLine
  <2>2. CASE buf[1].part = "end"
    <3>1. i # 1 /\ Skipped(buf) = 1
      BY <2>1, <2>2 DEF Skipped
    <3> QED
      BY <1>2, <1>3, <3>1
  <2>3. CASE buf[1].part # "end"
    BY <1>2, <1>3, <2>3 DEF Skipped
  <2> QED
    BY <2>2, <2>3
<1>5. buf[k] = inbox[s][k] /\ k \in DOMAIN inbox[s]
  BY <1>2, <1>3, <1>4
<1>6. MethodIn(buf) \in {"UNKNOWN", RequestOf(buf[k]).method}
  BY DEF MethodIn
<1> QED
  BY <1>2, <1>4, <1>5, <1>6

\* The method a session takes is one its client asked for.
LEMMA MethodInFact ==
  ASSUME TypeOK, OwnParts, NonEmptyState, NEW s \in Sessions, NEW res \in ReadSizes(s),
         Classifies(Glued(s, res)), MethodIn(Glued(s, res)) # "UNKNOWN"
  PROVE  MethodIn(Glued(s, res)) \in MethodsOf(s)
<1> DEFINE buf == Glued(s, res)
           k   == Skipped(buf) + 1
<1>1. /\ k \in DOMAIN inbox[s] /\ buf[k] = inbox[s][k]
      /\ MethodIn(buf) = RequestOf(buf[k]).method
  BY MethodPlace
<1> HIDE DEF k
<1>2. inbox[s][k].by = s /\ inbox[s][k].n \in DOMAIN sent[s]
  BY <1>1 DEF OwnParts
<1> QED
  BY <1>1, <1>2 DEF RequestOf, MethodsOf

\* What a call leaves of the buffer: nothing, or it knows what the state is.
LEMMA NonEmptyNext ==
  ASSUME TypeOK, NonEmptyState, [Next]_vars
  PROVE  NonEmptyState'
<1>1. OldBuf # <<>> => OldState # "Unknown"
  BY OldFact DEF NonEmptyState, OldBuf, OldState
<1>2. ASSUME NEW s \in Sessions, Receive(s) PROVE NonEmptyState'
  BY <1>2 DEF Receive, ReceivePart, ReceiveInvalid, ReceiveRequest, NonEmptyState
<1>3. ASSUME NEW s \in Sessions, ReceiveClosed(s) \/ ReceiveTimeout(s) PROVE NonEmptyState'
  BY <1>1, <1>3 DEF ReceiveClosed, ReceiveTimeout, NonEmptyState
<1>4. CASE UNCHANGED <<recvBuf, hdrState>>
  BY <1>4 DEF NonEmptyState
<1> QED
  BY <1>2, <1>3, <1>4
  DEF Next, Client, handleRequests, Connect, Send, Close, vars

LEMMA OwnPartsNext ==
  ASSUME TypeOK, OwnParts, [Next]_vars
  PROVE  OwnParts'
<1> USE DEF OwnParts
<1>1. ASSUME NEW s \in Sessions, NEW r \in Requests, Send(s, r) PROVE OwnParts'
  <2> DEFINE n == Len(sent[s]) + 1
             w == Wire(s, r, n)
             q == inbox[s] \o w
  <2>1. /\ sent[s] \in Seq(Requests) /\ Len(sent[s]) \in Nat
        /\ inbox[s] \in Seq(Part) /\ Len(inbox[s]) \in Nat
    BY DEF TypeOK
  <2>2. n \in 1 .. MaxRequests
    BY <1>1, <2>1, ReceiveAssumption DEF Send
  <2>3. /\ w \in Seq(Part) /\ Len(w) \in Nat
        /\ \A i \in 1 .. Len(w) : w[i].by = s /\ w[i].n = n
    <3> HIDE DEF n
    <3>1. /\ Wire(s, r, n) \in Seq(Part) /\ Len(Wire(s, r, n)) = Len(Parts(r))
          /\ \A i \in 1 .. Len(Parts(r)) :
               Wire(s, r, n)[i] = [part |-> Parts(r)[i], by |-> s, n |-> n]
      BY <2>2, WireFact
    <3>2. Len(Parts(r)) \in Nat
      BY PartsFact
    <3>3. ASSUME NEW i \in 1 .. Len(Parts(r)) PROVE w[i].by = s /\ w[i].n = n
      <4>1. w[i] = [part |-> Parts(r)[i], by |-> s, n |-> n]
        BY <3>1
      <4> HIDE DEF w
      <4> QED
        BY <4>1
    <3>4. w \in Seq(Part) /\ Len(w) = Len(Parts(r))
      BY <3>1
    <3> QED
      BY <3>2, <3>3, <3>4
  <2>4. sent' = [sent EXCEPT ![s] = Append(sent[s], r)] /\ inbox' = [inbox EXCEPT ![s] = q]
    BY <1>1 DEF Send, Wire
  <2> HIDE DEF n, w
  <2>5. q \in Seq(Part) /\ Len(q) = Len(inbox[s]) + Len(w)
        /\ \A i \in 1 .. Len(inbox[s]) + Len(w) :
             q[i] = IF i <= Len(inbox[s]) THEN inbox[s][i] ELSE w[i - Len(inbox[s])]
    BY <2>1, <2>3, ConcatFact
  <2> HIDE DEF q
  <2>6. DOMAIN sent'[s] = 1 .. Len(sent[s]) + 1
    BY <2>1, <2>4 DEF TypeOK
  <2>7. \A i \in DOMAIN q : q[i].by = s /\ q[i].n \in DOMAIN sent'[s]
    <3> SUFFICES ASSUME NEW i \in 1 .. Len(q)
                 PROVE  q[i].by = s /\ q[i].n \in DOMAIN sent'[s]
      BY <2>5
    <3>1. CASE i <= Len(inbox[s])
      <4>1. i \in DOMAIN inbox[s] /\ q[i] = inbox[s][i]
        BY <2>1, <2>5, <3>1
      <4>2. inbox[s][i].by = s /\ inbox[s][i].n \in 1 .. Len(sent[s])
        BY <2>1, <4>1
      <4> QED
        BY <2>1, <2>6, <4>1, <4>2
    <3>2. CASE i > Len(inbox[s])
      <4>1. i - Len(inbox[s]) \in 1 .. Len(w) /\ q[i] = w[i - Len(inbox[s])]
        BY <2>1, <2>3, <2>5, <3>2
      <4> QED
        BY <2>1, <2>3, <2>6, <4>1 DEF n
    <3> QED
      BY <2>1, <3>1, <3>2
  <2> QED
    BY <2>4, <2>7 DEF TypeOK
<1>2. ASSUME NEW s \in Sessions, NEW res \in ReadSizes(s), Consume(s, res) PROVE OwnParts'
  <2>1. /\ \A t \in Sessions \ {s} : inbox'[t] = inbox[t]
        /\ Len(inbox'[s]) = Len(inbox[s]) - res
        /\ \A i \in 1 .. Len(inbox'[s]) : inbox'[s][i] = inbox[s][res + i]
        /\ inbox' \in [Sessions -> Seq(Part)]
    BY <1>2, ReadFact, ConsumeFact
  <2>2. res \in 1 .. Len(inbox[s]) /\ sent' = sent
        /\ inbox[s] \in Seq(Part) /\ Len(inbox[s]) \in Nat
    BY <1>2, ReadFact DEF Consume
  <2>3. ASSUME NEW i \in DOMAIN inbox'[s]
        PROVE  inbox'[s][i].by = s /\ inbox'[s][i].n \in DOMAIN sent'[s]
    <3>1. i \in 1 .. Len(inbox'[s])
      BY <2>1
    <3>2. inbox'[s][i] = inbox[s][res + i]
      BY <2>1, <3>1
    <3>3. res + i \in DOMAIN inbox[s]
      <4> DEFINE l == Len(inbox[s])
      <4>1. l \in Nat /\ res \in 1 .. l /\ i \in 1 .. l - res
        BY <2>1, <2>2, <3>1
      <4>2. DOMAIN inbox[s] = 1 .. l
        BY <2>2
      <4> HIDE DEF l
      <4>3. res + i \in 1 .. l
        BY <4>1
      <4> QED
        BY <4>2, <4>3
    <3> QED
      BY <2>2, <3>2, <3>3
  <2> QED
    BY <2>1, <2>2, <2>3
<1>3. ASSUME NEW s \in Sessions, Receive(s) PROVE OwnParts'
  BY <1>2, <1>3 DEF Receive, ReceivePart, ReceiveInvalid, ReceiveRequest
<1>4. CASE UNCHANGED <<sent, inbox>>
  BY <1>4
<1> QED
  BY <1>1, <1>3, <1>4
  DEF Next, Client, handleRequests, Connect, Close, ReceiveClosed, ReceiveTimeout, vars, client

\* What a client has asked for only grows.
LEMMA MethodsGrow ==
  ASSUME TypeOK, [Next]_vars, NEW s \in Sessions
  PROVE  MethodsOf(s) \subseteq MethodsOf(s)' /\ (closed[s] => closed'[s])
<1>1. ASSUME NEW t \in Sessions, NEW r \in Requests, Send(t, r)
      PROVE  MethodsOf(s) \subseteq MethodsOf(s)' /\ closed' = closed
  <2>1. sent[s] \in Seq(Requests) /\ sent[t] \in Seq(Requests)
    BY DEF TypeOK
  <2>2. sent' = [sent EXCEPT ![t] = Append(sent[t], r)] /\ closed' = closed
    BY <1>1 DEF Send
  <2>3. \A i \in DOMAIN sent[s] : i \in DOMAIN sent'[s] /\ sent'[s][i] = sent[s][i]
    BY <2>1, <2>2 DEF TypeOK
  <2> QED
    BY <2>2, <2>3 DEF MethodsOf
<1>2. ASSUME NEW t \in Sessions, Close(t)
      PROVE  sent' = sent /\ (closed[s] => closed'[s])
  BY <1>2 DEF Close, TypeOK
<1>3. CASE UNCHANGED <<sent, closed>>
  BY <1>3 DEF MethodsOf
<1> QED
  BY <1>1, <1>2, <1>3
  DEF MethodsOf, Next, Client, handleRequests, Connect, Receive, ReceivePart, ReceiveInvalid,
      ReceiveRequest, Consume, ReceiveClosed, ReceiveTimeout, vars, client

LEMMA CmdAskedNext ==
  ASSUME TypeOK, OwnParts, NonEmptyState, CmdAsked, [Next]_vars
  PROVE  CmdAsked'
<1> SUFFICES ASSUME NEW t \in Sessions, cmdType'[t] # "UNKNOWN"
             PROVE  cmdType'[t] \in MethodsOf(t)'
  BY DEF CmdAsked
<1>1. cmdType[t] # "UNKNOWN" => cmdType[t] \in MethodsOf(t)'
  BY MethodsGrow DEF CmdAsked
<1>2. CASE cmdType'[t] = cmdType[t]
  BY <1>1, <1>2
<1>3. ASSUME NEW s \in Sessions, Connect(s) PROVE cmdType'[t] \in {"UNKNOWN", cmdType[t]}
  BY <1>3 DEF Connect, TypeOK
<1>4. ASSUME NEW s \in Sessions, Receive(s) PROVE cmdType'[t] \in MethodsOf(t)'
  <2>1. PICK res \in ReadSizes(s) : cmdType' = [cmdType EXCEPT ![s] = NewCmd(s, Glued(s, res))]
    BY <1>4 DEF Receive, ReceivePart, ReceiveInvalid, ReceiveRequest
  <2>2. CASE t = s /\ Classifies(Glued(s, res))
    <3>1. cmdType'[t] = MethodIn(Glued(s, res))
      BY <2>1, <2>2 DEF TypeOK, NewCmd
    <3>2. MethodIn(Glued(s, res)) \in MethodsOf(s)
      BY <2>2, <3>1, MethodInFact
    <3> QED
      BY <2>2, <3>1, <3>2, MethodsGrow
  <2>3. CASE ~(t = s /\ Classifies(Glued(s, res)))
    BY <1>1, <2>1, <2>3 DEF TypeOK, NewCmd
  <2> QED
    BY <2>2, <2>3
<1> QED
  BY <1>1, <1>2, <1>3, <1>4
  DEF Next, Client, handleRequests, Send, Close, ReceiveClosed, ReceiveTimeout, vars, session

LEMMA OwnCommandNext ==
  ASSUME TypeOK, OwnInv, CmdAsked', [Next]_vars
  PROVE  OwnCommand'
<1> SUFFICES ASSUME NEW t \in Sessions
             PROVE  /\ streaming'[t] => "PLAY" \in MethodsOf(t)'
                    /\ phase'[t] = "gone" => "TEARDOWN" \in MethodsOf(t)' \/ closed'[t]
  BY DEF OwnCommand, MethodsOf
<1>1. /\ streaming[t] => "PLAY" \in MethodsOf(t)'
      /\ phase[t] = "gone" => "TEARDOWN" \in MethodsOf(t)' \/ closed'[t]
  BY MethodsGrow DEF OwnInv, OwnCommand, MethodsOf
<1>2. CASE streaming'[t] = streaming[t] /\ phase'[t] = phase[t]
  BY <1>1, <1>2
<1>3. ASSUME NEW s \in Sessions, Connect(s)
      PROVE  streaming'[t] \in {FALSE, streaming[t]} /\ phase'[t] \in {"live", phase[t]}
  BY <1>3 DEF Connect, TypeOK
<1>4. ASSUME NEW s \in Sessions, NEW res \in ReadSizes(s), ReceiveRequest(s, res)
      PROVE  /\ streaming'[t] => "PLAY" \in MethodsOf(t)'
             /\ phase'[t] = "gone" => "TEARDOWN" \in MethodsOf(t)' \/ closed'[t]
  <2> DEFINE cmd == NewCmd(s, Glued(s, res))
  <2>1. /\ cmdType' = [cmdType EXCEPT ![s] = cmd]
        /\ streaming' = [streaming EXCEPT ![s] = streaming[s] \/ cmd = "PLAY"]
        /\ phase' = [phase EXCEPT ![s] = IF cmd = "TEARDOWN" THEN "gone" ELSE phase[s]]
    BY <1>4 DEF ReceiveRequest
  <2> HIDE DEF cmd
  <2>2. CASE t # s
    BY <1>2, <2>1, <2>2 DEF TypeOK
  <2>3. CASE t = s
    <3>1. cmd # "UNKNOWN" => cmd \in MethodsOf(t)'
      BY <2>1, <2>3 DEF CmdAsked, TypeOK
    <3>2. /\ streaming'[t] => streaming[t] \/ cmd = "PLAY"
          /\ phase'[t] = "gone" => phase[t] = "gone" \/ cmd = "TEARDOWN"
      BY <2>1, <2>3 DEF TypeOK
    <3> QED
      BY <1>1, <3>1, <3>2
  <2> QED
    BY <2>2, <2>3
<1>5. ASSUME NEW s \in Sessions, ReceiveClosed(s)
      PROVE  streaming' = streaming /\ (phase'[t] = "gone" => phase[t] = "gone" \/ closed'[t])
  BY <1>5 DEF ReceiveClosed, TypeOK, client
<1>6. ASSUME NEW s \in Sessions, Receive(s)
      PROVE  /\ streaming'[t] => "PLAY" \in MethodsOf(t)'
             /\ phase'[t] = "gone" => "TEARDOWN" \in MethodsOf(t)' \/ closed'[t]
  BY <1>2, <1>4, <1>6 DEF Receive, ReceivePart, ReceiveInvalid
<1> QED
  BY <1>1, <1>2, <1>3, <1>5, <1>6
  DEF Next, Client, handleRequests, Send, Close, ReceiveTimeout, vars, session

\* A session streams, or is ended, only at its own client's request, although
\* all the sessions of a process share one receive buffer and one header state.
THEOREM CommandsAreOwn == Spec => []OwnCommand
<1>1. Init => OwnInv
  BY DEF Init, OwnInv, OwnParts, NonEmptyState, CmdAsked, OwnCommand
<1>2. TypeOK /\ OwnInv /\ [Next]_vars => OwnInv'
  <2> SUFFICES ASSUME TypeOK, OwnInv, [Next]_vars PROVE OwnInv'
    OBVIOUS
  <2>1. OwnParts' /\ NonEmptyState' /\ CmdAsked'
    BY OwnPartsNext, NonEmptyNext, CmdAskedNext DEF OwnInv
  <2>2. OwnCommand'
    BY <2>1, OwnCommandNext
  <2> QED
    BY <2>1, <2>2 DEF OwnInv
<1>3. OwnInv => OwnCommand
  BY DEF OwnInv
<1> QED
  BY <1>1, <1>2, <1>3, TypeCorrect, PTL DEF Spec

-----------------------------------------------------------------------------
(* OkMatches and TransportAgreed.  They are about a client that waits for  *)
(* each reply, served alone in its process or read in whole requests: with *)
(* pipelined requests, or two sessions in pieces, neither holds.           *)

\* A process that serves one client, as testserver's does.
Alone == Sequential /\ \E s \in Sessions : Sessions = {s}

\* TCP delivers each request in one piece, and it fits in the buffer.
ReadWhole == Sequential /\ ~Segmented /\ \A r \in Requests : Len(Parts(r)) <= BufSize

\* The parts that are not answered are a last stretch of the n-th request r:
\* what came before it has been read and dropped.
Stretch(s, r, n, q) ==
  \E k \in 0 .. Len(Parts(r)) :
    /\ Len(q) = Len(Parts(r)) - k
    /\ \A i \in 1 .. Len(q) : q[i] = [part |-> Parts(r)[k + i], by |-> s, n |-> n]

Unread(s) == recvBuf \o inbox[s]

\* Every request has its reply, and nothing is left.
Idle(s) == Len(replies[s]) = Len(sent[s]) /\ inbox[s] = <<>> /\ recvBuf = <<>>

\* The last request has no reply, and its end may be in the connection.
Busy(s) ==
  LET n == Len(sent[s]) IN
  n = Len(replies[s]) + 1 /\ Stretch(s, sent[s][n], n, Unread(s))

\* The method of a request that is in the buffer has been read.
CmdKnown(s) ==
  recvBuf # <<>> /\ hdrState = "GotMethod" => cmdType[s] = sent[s][Len(sent[s])].method

Fresh(s) == phase[s] = "none" => sent[s] = <<>> /\ replies[s] = <<>>

Turn(s) == (Idle(s) \/ Busy(s)) /\ CmdKnown(s) /\ Fresh(s)

\* Nothing is kept from one read to the next.
NothingKept ==
  /\ recvBuf = <<>>
  /\ \A s \in Sessions :
       inbox[s] # <<>> => inbox[s] = Wire(s, sent[s][Len(sent[s])], Len(sent[s]))

TurnInv ==
  /\ NonEmptyState
  /\ \A s \in Sessions : Turn(s)
  /\ ReadWhole => NothingKept

\* The parts of the request are where they are in it, behind the k dropped
\* parts: those in the buffer, and behind them those that are left unread.
Aligned(s, r, n, buf, res, k) ==
  /\ k + Len(buf) + (Len(inbox[s]) - res) = Len(Parts(r))
  /\ \A i \in 1 .. Len(buf) : buf[i] = [part |-> Parts(r)[k + i], by |-> s, n |-> n]
  /\ \A i \in 1 .. Len(inbox[s]) - res :
       inbox[s][res + i] = [part |-> Parts(r)[k + Len(buf) + i], by |-> s, n |-> n]

LEMMA StretchTail ==
  ASSUME NEW s, NEW r \in Requests, NEW n, NEW q \in Seq(Part), Stretch(s, r, n, q),
         NEW d \in 0 .. Len(q), NEW p \in Seq(Part), Len(p) = Len(q) - d,
         \A i \in 1 .. Len(p) : p[i] = q[d + i]
  PROVE  Stretch(s, r, n, p)
<1>1. Len(Parts(r)) \in Nat /\ Len(q) \in Nat /\ Len(p) \in Nat
  BY PartsFact
<1>2. PICK k \in 0 .. Len(Parts(r)) :
        /\ Len(q) = Len(Parts(r)) - k
        /\ \A i \in 1 .. Len(q) : q[i] = [part |-> Parts(r)[k + i], by |-> s, n |-> n]
  BY DEF Stretch
<1>3. k + d \in 0 .. Len(Parts(r)) /\ Len(p) = Len(Parts(r)) - (k + d)
  BY <1>1, <1>2
<1>4. ASSUME NEW i \in 1 .. Len(p)
      PROVE  p[i] = [part |-> Parts(r)[(k + d) + i], by |-> s, n |-> n]
  <2>1. d + i \in 1 .. Len(q) /\ k + (d + i) = (k + d) + i
    BY <1>1, <1>2
  <2>2. p[i] = q[d + i]
    OBVIOUS
  <2>3. q[d + i] = [part |-> Parts(r)[k + (d + i)], by |-> s, n |-> n]
    BY <1>2, <2>1
  <2> QED
    BY <2>1, <2>2, <2>3
<1> QED
  BY <1>3, <1>4 DEF Stretch

\* The last request of a client whose turn it is.
LEMMA LastRequestFact ==
  ASSUME TypeOK, NEW s \in Sessions, Len(sent[s]) = Len(replies[s]) + 1
  PROVE  LET n == Len(sent[s])
             r == sent[s][n]
         IN  /\ sent[s] \in Seq(Requests) /\ n \in Nat \ {0} /\ r \in Requests
             /\ Len(replies[s]) \in Nat /\ replies[s] \in Seq(Reply)
             /\ Parts(r) \in Seq(Kind) /\ Len(Parts(r)) \in Nat
<1>1. sent[s] \in Seq(Requests) /\ replies[s] \in Seq(Reply)
  BY DEF TypeOK
<1>2. Len(sent[s]) \in Nat \ {0} /\ Len(replies[s]) \in Nat
  BY <1>1
<1>3. sent[s][Len(sent[s])] \in Requests
  BY <1>1, <1>2
<1> QED
  BY <1>1, <1>2, <1>3, PartsFact

LEMMA UnreadFact ==
  ASSUME TypeOK, NEW s \in Sessions
  PROVE  /\ Unread(s) \in Seq(Part)
         /\ Len(Unread(s)) = Len(recvBuf) + Len(inbox[s])
         /\ Len(recvBuf) \in Nat /\ Len(inbox[s]) \in Nat
         /\ \A i \in 1 .. Len(recvBuf) : Unread(s)[i] = recvBuf[i]
         /\ \A i \in 1 .. Len(inbox[s]) : Unread(s)[Len(recvBuf) + i] = inbox[s][i]
<1>1. /\ recvBuf \in Seq(Part) /\ Len(recvBuf) \in Nat
      /\ inbox[s] \in Seq(Part) /\ Len(inbox[s]) \in Nat
  BY DEF TypeOK
<1> DEFINE u == Unread(s)
<1>2. /\ u \in Seq(Part) /\ Len(u) = Len(recvBuf) + Len(inbox[s])
      /\ \A i \in 1 .. Len(recvBuf) + Len(inbox[s]) :
           u[i] = IF i <= Len(recvBuf) THEN recvBuf[i] ELSE inbox[s][i - Len(recvBuf)]
  BY <1>1, ConcatFact DEF Unread
<1> HIDE DEF u
<1>3. \A i \in 1 .. Len(inbox[s]) : u[Len(recvBuf) + i] = inbox[s][i]
  BY <1>1, <1>2
<1>4. \A i \in 1 .. Len(recvBuf) : u[i] = recvBuf[i]
  BY <1>1, <1>2
<1> QED
  BY <1>1, <1>2, <1>3, <1>4 DEF u

LEMMA AlignedFact ==
  ASSUME TypeOK, NEW s \in Sessions, Busy(s), NEW res \in ReadSizes(s)
  PROVE  LET n == Len(sent[s])
             r == sent[s][n]
         IN  \E k \in 0 .. Len(Parts(r)) : Aligned(s, r, n, Glued(s, res), res, k)
<1> DEFINE n   == Len(sent[s])
           r   == sent[s][n]
           buf == Glued(s, res)
           old == Len(OldBuf)
<1>1. r \in Requests /\ Len(Parts(r)) \in Nat
  BY LastRequestFact DEF Busy
<1>2. Stretch(s, r, n, Unread(s))
  BY DEF Busy
<1> HIDE DEF n, r
<1>3. PICK j \in 0 .. Len(Parts(r)) :
        /\ Len(Unread(s)) = Len(Parts(r)) - j
        /\ \A i \in 1 .. Len(Unread(s)) :
             Unread(s)[i] = [part |-> Parts(r)[j + i], by |-> s, n |-> n]
  BY <1>2 DEF Stretch
<1>4. /\ res \in 1 .. Len(inbox[s]) /\ Len(buf) = old + res /\ old \in Nat
      /\ \A i \in 1 .. old : buf[i] = OldBuf[i]
      /\ \A i \in 1 .. res : buf[old + i] = inbox[s][i]
  BY ReadFact, OldFact
<1> HIDE DEF buf
<1>5. PICK d \in 0 .. Len(recvBuf) :
        d + old = Len(recvBuf) /\ \A i \in 1 .. old : OldBuf[i] = recvBuf[d + i]
  <2>1. CASE OldBuf = recvBuf
    BY <2>1, UnreadFact
  <2>2. CASE OldBuf = <<>>
    BY <2>2, UnreadFact
  <2> QED
    BY <2>1, <2>2, OldFact
<1> DEFINE k == j + d
<1>6. /\ Len(Unread(s)) = Len(recvBuf) + Len(inbox[s])
      /\ Len(recvBuf) \in Nat /\ Len(inbox[s]) \in Nat
  BY UnreadFact
<1> HIDE DEF old
<1>11. /\ res \in 1 .. Len(inbox[s]) /\ Len(buf) = old + res /\ old \in Nat
      /\ d \in 0 .. Len(recvBuf) /\ d + old = Len(recvBuf)
      /\ j \in 0 .. Len(Parts(r)) /\ Len(Parts(r)) \in Nat
      /\ Len(Unread(s)) = Len(Parts(r)) - j
      /\ Len(Unread(s)) = Len(recvBuf) + Len(inbox[s])
      /\ Len(recvBuf) \in Nat /\ Len(inbox[s]) \in Nat
  BY <1>1, <1>3, <1>4, <1>5, <1>6
<1>7. k \in 0 .. Len(Parts(r)) /\ k + Len(buf) + (Len(inbox[s]) - res) = Len(Parts(r))
  <2> DEFINE li == Len(inbox[s])
             lr == Len(recvBuf)
             lb == Len(buf)
             lp == Len(Parts(r))
  <2>1. /\ res \in 1 .. li /\ lb = old + res /\ old \in Nat
        /\ d \in 0 .. lr /\ d + old = lr
        /\ j \in 0 .. lp /\ lp \in Nat
        /\ lr + li = lp - j
        /\ lr \in Nat /\ li \in Nat
    BY <1>11
  <2> HIDE DEF li, lr, lb, lp
  <2>2. k \in 0 .. lp /\ k + lb + (li - res) = lp
    BY <2>1
  <2> QED
    BY <2>2 DEF li, lb, lp
<1>8. ASSUME NEW i \in 1 .. Len(buf)
      PROVE  buf[i] = [part |-> Parts(r)[k + i], by |-> s, n |-> n]
  <2>1. d + i \in 1 .. Len(Unread(s)) /\ j + (d + i) = k + i
    BY <1>4, <1>5, <1>6
  <2>2. Unread(s)[d + i] = [part |-> Parts(r)[k + i], by |-> s, n |-> n]
    BY <1>3, <2>1
  <2>3. buf[i] = Unread(s)[d + i]
    <3>1. CASE i <= old
      <4>1. buf[i] = recvBuf[d + i] /\ d + i \in 1 .. Len(recvBuf)
        BY <1>4, <1>5, <1>6, <3>1
      <4> QED
        BY <4>1, UnreadFact
    <3>2. CASE i > old
      <4>1. i - old \in 1 .. res /\ old + (i - old) = i
        BY <1>4, <3>2
      <4>2. buf[i] = inbox[s][i - old]
        BY <1>4, <4>1
      <4>3. Unread(s)[Len(recvBuf) + (i - old)] = inbox[s][i - old]
        BY <1>4, <1>6, <4>1, UnreadFact
      <4>4. Len(recvBuf) + (i - old) = d + i
        BY <1>11
      <4> QED
        BY <4>2, <4>3, <4>4
    <3> QED
      BY <1>4, <3>1, <3>2
  <2> QED
    BY <2>2, <2>3
<1>9. ASSUME NEW i \in 1 .. Len(inbox[s]) - res
      PROVE  inbox[s][res + i] = [part |-> Parts(r)[k + Len(buf) + i], by |-> s, n |-> n]
  <2> DEFINE a == Len(recvBuf) + (res + i)
  <2>1. /\ a \in 1 .. Len(Unread(s)) /\ j + a = k + Len(buf) + i
        /\ res + i \in 1 .. Len(inbox[s])
    BY <1>11
  <2>2. Unread(s)[a] = inbox[s][res + i]
    BY <2>1, UnreadFact
  <2>3. Unread(s)[a] = [part |-> Parts(r)[j + a], by |-> s, n |-> n]
    BY <1>3, <2>1
  <2> QED
    BY <2>1, <2>2, <2>3
<1>10. Aligned(s, r, n, buf, res, k)
  BY <1>7, <1>8, <1>9 DEF Aligned
<1> QED
  BY <1>7, <1>10 DEF n, r, buf

\* When the last four bytes are the end of a header, they are the end of the
\* request, and nothing of it is left in the connection.
LEMMA EndsFact ==
  ASSUME TypeOK, NEW s \in Sessions, NEW res \in ReadSizes(s), NEW r \in Requests, NEW n,
         NEW k \in 0 .. Len(Parts(r)), Aligned(s, r, n, Glued(s, res), res, k),
         HeaderEnds(Glued(s, res))
  PROVE  Len(inbox[s]) = res /\ k + Len(Glued(s, res)) = Len(Parts(r))
<1> DEFINE buf == Glued(s, res)
           lp  == Len(Parts(r))
           lb  == Len(buf)
<1>1. /\ buf \in Seq(Part) /\ lb \in Nat /\ lb >= 1
      /\ res \in 1 .. Len(inbox[s]) /\ Len(inbox[s]) \in Nat
  BY ReadFact, OldFact
<1>2. lp \in Nat
  BY PartsFact
<1>3. buf[lb].part = "end"
  BY <1>1 DEF HeaderEnds, Last
<1>4. /\ k + lb + (Len(inbox[s]) - res) = lp
      /\ \A i \in 1 .. lb : buf[i] = [part |-> Parts(r)[k + i], by |-> s, n |-> n]
  BY DEF Aligned
<1>5. lb \in 1 .. lb
  BY <1>1
<1>6. Parts(r)[k + lb] = "end"
  <2>1. buf[lb] = [part |-> Parts(r)[k + lb], by |-> s, n |-> n]
    BY <1>4, <1>5
  <2> HIDE DEF buf, lb
  <2> QED
    BY <1>3, <2>1
<1>7. k + lb \in 1 .. lp
  BY <1>1, <1>2, <1>4
<1> HIDE DEF buf, lb
<1>8. k + lb = lp
  <2> DEFINE i == k + lb
  <2>1. i \in 1 .. lp /\ Parts(r)[i] = "end"
    BY <1>6, <1>7
  <2> HIDE DEF i
  <2>2. i = lp
    BY <2>1, KindsFact
  <2> QED
    BY <2>2 DEF i
<1> DEFINE li == Len(inbox[s])
<1>9. k + lb + (li - res) = lp /\ res \in 1 .. li /\ li \in Nat /\ lb \in Nat
  BY <1>1, <1>4
<1> HIDE DEF li, lp
<1>10. li = res
  BY <1>2, <1>8, <1>9
<1> QED
  BY <1>8, <1>10 DEF buf, lb, lp, li

\* A buffer that begins with a request line holds the request from its start.
LEMMA LineFact ==
  ASSUME TypeOK, NEW s \in Sessions, NEW res \in ReadSizes(s), NEW r \in Requests, NEW n,
         NEW k \in 0 .. Len(Parts(r)), Aligned(s, r, n, Glued(s, res), res, k),
         LineParses(Glued(s, res))
  PROVE  LET buf == Glued(s, res) IN
         /\ k = 0 /\ Len(buf) <= Len(Parts(r))
         /\ \A i \in 1 .. Len(buf) : buf[i] = [part |-> Parts(r)[i], by |-> s, n |-> n]
         /\ \A kind : PartsOf(buf, kind) = {i \in 1 .. Len(buf) : Parts(r)[i] = kind}
<1> DEFINE buf == Glued(s, res)
           lp  == Len(Parts(r))
           lb  == Len(buf)
<1>1. /\ buf \in Seq(Part) /\ lb \in Nat /\ DOMAIN buf = 1 .. lb
      /\ res \in 1 .. Len(inbox[s]) /\ Len(inbox[s]) \in Nat
  BY ReadFact, OldFact
<1>2. lp \in Nat
  BY PartsFact
<1>3. /\ k + lb + (Len(inbox[s]) - res) = lp
      /\ \A i \in 1 .. lb : buf[i] = [part |-> Parts(r)[k + i], by |-> s, n |-> n]
  BY DEF Aligned
<1>4. k + lb <= lp
  <2> DEFINE li == Len(inbox[s])
  <2>1. k + lb + (li - res) = lp /\ res \in 1 .. li /\ li \in Nat /\ lb \in Nat /\ lp \in Nat
    BY <1>1, <1>2, <1>3
  <2> HIDE DEF li, lp, lb
  <2> QED
    BY <2>1
<1>5. lb >= Skipped(buf) + 2 /\ buf[Skipped(buf) + 1].part = "method"
  BY DEF LineParses
<1>6. \A i \in 1 .. lp : Parts(r)[i] = "method" <=> i = 1
  BY KindsFact
<1>7. Skipped(buf) \in {0, 1}
  BY DEF Skipped
<1> HIDE DEF buf, lb, lp
<1> DEFINE j == Skipped(buf) + 1
<1>8. j \in 1 .. lb /\ k + j \in 1 .. lp
  BY <1>1, <1>2, <1>4, <1>5, <1>7
<1>9. buf[j] = [part |-> Parts(r)[k + j], by |-> s, n |-> n]
  BY <1>3, <1>8
<1>10. k + j = 1
  <2>1. Parts(r)[k + j] = "method"
    BY <1>5, <1>9
  <2> HIDE DEF j
  <2> QED
    BY <1>6, <1>8, <2>1
<1>11. k = 0 /\ lb <= lp
  BY <1>1, <1>2, <1>4, <1>7, <1>10
<1>12. ASSUME NEW i \in 1 .. lb
       PROVE  buf[i] = [part |-> Parts(r)[i], by |-> s, n |-> n]
  <2>1. k + i = i
    BY <1>11
  <2> QED
    BY <1>3, <2>1
<1>13. ASSUME NEW kind PROVE PartsOf(buf, kind) = {i \in 1 .. lb : Parts(r)[i] = kind}
  <2>1. ASSUME NEW i \in 1 .. lb PROVE buf[i].part = Parts(r)[i]
    <3>1. buf[i] = [part |-> Parts(r)[i], by |-> s, n |-> n]
      BY <1>12
    <3> QED
      BY <3>1
  <2> QED
    BY <1>1, <2>1 DEF PartsOf
<1> QED
  BY <1>11, <1>12, <1>13 DEF buf, lb, lp

\* A state that says the method is known says so of the client's last request.
LEMMA CmdFact ==
  ASSUME TypeOK, NonEmptyState, NEW s \in Sessions, NEW res \in ReadSizes(s), CmdKnown(s),
         NEW r, NEW n, NEW k \in Nat, Aligned(s, r, n, Glued(s, res), res, k),
         n = Len(sent[s]), r = sent[s][n], NewState(Glued(s, res)) = "GotMethod"
  PROVE  NewCmd(s, Glued(s, res)) = r.method
<1> DEFINE buf == Glued(s, res)
<1>1. CASE Classifies(buf)
  <2> DEFINE j == Skipped(buf) + 1
  <2>1. MethodIn(buf) # "UNKNOWN" /\ NewCmd(s, buf) = MethodIn(buf)
    BY <1>1 DEF NewState, NewCmd
  <2>2. j \in 1 .. Len(buf) /\ MethodIn(buf) = RequestOf(buf[j]).method
    BY <1>1, <2>1, MethodPlace
  <2> HIDE DEF j
  <2>3. buf[j] = [part |-> Parts(r)[k + j], by |-> s, n |-> n]
    BY <2>2 DEF Aligned
  <2>4. RequestOf(buf[j]) = r
    BY <2>3 DEF RequestOf
  <2> QED
    BY <2>1, <2>2, <2>4
<1>2. CASE ~Classifies(buf)
  <2>1. OldState = "GotMethod" /\ NewCmd(s, buf) = cmdType[s]
    BY <1>2 DEF NewState, NewCmd
  <2>2. recvBuf # <<>> /\ hdrState = "GotMethod"
    BY <2>1 DEF OldState, Restart
  <2> QED
    BY <2>1, <2>2 DEF CmdKnown
<1> QED
  BY <1>1, <1>2

\* What a request is parsed to: its own transport, or what was there; when it
\* has ended in the buffer and parses, its own transport and CSeq, or 0 for that.
LEMMA ParsedFact ==
  ASSUME TypeOK, NEW s \in Sessions, NEW res \in ReadSizes(s), NEW r \in Requests, NEW n,
         NEW k \in 0 .. Len(Parts(r)), Aligned(s, r, n, Glued(s, res), res, k),
         r = sent[s][n], NEW across \in BOOLEAN
  PROVE  LET buf == Glued(s, res) IN
         /\ NewCmd(s, buf) # "SETUP" \/ ~LineParses(buf) => ParsedTcp(s, buf, res, across) = tcp[s]
         /\ ~ParseSucceeds(buf, res, across) =>
              \/ ParsedTcp(s, buf, res, across) = tcp[s]
              \/ TransportFirst(r) /\ ParsedTcp(s, buf, res, across) = (r.mode = "tcp")
         /\ ParseSucceeds(buf, res, across) /\ HeaderEnds(buf) =>
              /\ \/ ParsedCSeq(s, buf, res, across) = n
                 \/ ParsedCSeq(s, buf, res, across) = 0 /\ ~r.spaced /\ Len(buf) > res
              /\ NewCmd(s, buf) = "SETUP" /\ r.method = "SETUP" =>
                   ParsedTcp(s, buf, res, across) = (r.mode = "tcp")
<1> DEFINE buf == Glued(s, res)
           l   == Len(buf)
           p   == Parts(r)
           at  == Scanned(buf, res, across, "transport")
           cs  == Scanned(buf, res, across, "cseq")
<1>1. /\ l \in Nat /\ res \in Nat /\ Len(p) \in Nat
  BY ReadFact, OldFact, PartsFact
<1>2. ASSUME LineParses(buf)
      PROVE  /\ k = 0 /\ l <= Len(p)
             /\ \A i \in 1 .. l : buf[i] = [part |-> p[i], by |-> s, n |-> n]
             /\ \A kind : PartsOf(buf, kind) = {i \in 1 .. l : p[i] = kind}
  BY <1>2, LineFact
<1>3. ASSUME LineParses(buf), NEW i \in 1 .. l PROVE buf[i].n = n /\ RequestOf(buf[i]) = r
  <2>1. buf[i] = [part |-> p[i], by |-> s, n |-> n]
    BY <1>2, <1>3
  <2> HIDE DEF buf, p
  <2> QED
    BY <2>1 DEF RequestOf
<1>4. at \in SUBSET (1 .. l) /\ (~LineParses(buf) => at = {})
  BY <1>2 DEF Scanned
<1>5. cs \in SUBSET (1 .. l) /\ (~LineParses(buf) => cs = {})
  BY <1>2 DEF Scanned
<1>6. NewCmd(s, buf) # "SETUP" \/ ~LineParses(buf) => ParsedTcp(s, buf, res, across) = tcp[s]
  BY <1>4 DEF ParsedTcp
<1>7. \/ ParsedTcp(s, buf, res, across) = tcp[s]
      \/ at # {} /\ ParsedTcp(s, buf, res, across) = (r.mode = "tcp")
  <2>1. CASE NewCmd(s, buf) # "SETUP" \/ at = {}
    BY <2>1 DEF ParsedTcp
  <2>2. CASE NewCmd(s, buf) = "SETUP" /\ at # {}
    <3>1. Max(at) \in 1 .. l /\ LineParses(buf)
      BY <1>1, <1>4, <2>2, MaxFact
    <3>2. RequestOf(buf[Max(at)]) = r
      BY <1>3, <3>1
    <3> QED
      BY <2>2, <3>2 DEF ParsedTcp
  <2> QED
    BY <2>1, <2>2
<1>8. ASSUME ~ParseSucceeds(buf, res, across), at # {} PROVE TransportFirst(r)
  <2>1. LineParses(buf)
    BY <1>4, <1>8
  <2>2. PICK j \in OutOfSize(buf, res, across) : TRUE
    BY <1>8, <2>1 DEF ParseSucceeds
  <2>3. PICK i \in at : TRUE
    BY <1>8
  <2>4. i < j /\ i \in PartsOf(buf, "transport")
    BY <2>2, <2>3 DEF Scanned
  <2>5. j \in PartsOf(buf, "cseq")
    BY <2>2 DEF OutOfSize
  <2>6. i \in 1 .. l /\ p[i] = "transport" /\ j \in 1 .. l /\ p[j] = "cseq"
    <3>1. /\ PartsOf(buf, "transport") = {x \in 1 .. l : p[x] = "transport"}
          /\ PartsOf(buf, "cseq") = {x \in 1 .. l : p[x] = "cseq"}
      BY <1>2, <2>1
    <3> QED
      BY <2>4, <2>5, <3>1
  <2>7. ASSUME NEW x \in 1 .. l, p[x] \in {"transport", "cseq"}
        PROVE  x - 2 \in DOMAIN r.lines /\ r.lines[x - 2] = p[x]
    <3>1. x \in 1 .. Len(p) /\ x # 1 /\ x # 2 /\ x # Len(p)
      BY <1>1, <1>2, <2>1, <2>7, PartsFact
    <3>2. x \in 3 .. Len(p) - 1
      BY <1>1, <3>1
    <3> QED
      BY <3>2, PartsFact
  <2>8. i - 2 < j - 2
    BY <2>4, <2>6
  <2> QED
    BY <2>6, <2>7, <2>8 DEF TransportFirst
<1>9. ASSUME ParseSucceeds(buf, res, across), HeaderEnds(buf)
      PROVE  /\ \/ ParsedCSeq(s, buf, res, across) = n
                \/ ParsedCSeq(s, buf, res, across) = 0 /\ ~r.spaced /\ l > res
             /\ NewCmd(s, buf) = "SETUP" /\ r.method = "SETUP" =>
                  ParsedTcp(s, buf, res, across) = (r.mode = "tcp")
  <2>1. LineParses(buf) /\ OutOfSize(buf, res, across) = {}
    BY <1>9 DEF ParseSucceeds
  <2>2. \A kind : Scanned(buf, res, across, kind) = PartsOf(buf, kind)
    BY <2>1 DEF Scanned, PartsOf
  <2>3. l = Len(p)
    <3>1. k = 0 /\ k + l = Len(p)
      BY <1>2, <1>9, <2>1, EndsFact
    <3> QED
      BY <1>1, <3>1
  <2>4. cs = {i \in 1 .. l : p[i] = "cseq"} /\ at = {i \in 1 .. l : p[i] = "transport"}
    BY <1>2, <2>1, <2>2
  <2>5. cs # {} /\ (r.method = "SETUP" => at # {})
    BY <2>3, <2>4, KindsFact
  <2>6. ASSUME NEW i \in cs
        PROVE  buf[i].n = n /\ (i <= res \/ (~r.spaced /\ l > res))
    <3>1. i \in 1 .. l /\ p[i] = "cseq" /\ i \in PartsOf(buf, "cseq")
      BY <2>2, <2>4
    <3>2. buf[i].n = n /\ RequestOf(buf[i]) = r
      BY <1>3, <2>1, <3>1
    <3>3. i <= res \/ (i > res /\ l > res)
      BY <1>1, <3>1
    <3>4. i > res => ~r.spaced
      BY <2>1, <3>1, <3>2 DEF OutOfSize
    <3> QED
      BY <3>2, <3>3, <3>4
  <2>7. Max(cs) \in cs
    BY <1>1, <1>5, <2>5, MaxFact
  <2>8. ParsedCSeq(s, buf, res, across) = IF Max(cs) <= res THEN buf[Max(cs)].n ELSE 0
    BY <2>5 DEF ParsedCSeq
  <2> HIDE DEF buf, l, cs, at
  <2>9. \/ ParsedCSeq(s, buf, res, across) = n
        \/ ParsedCSeq(s, buf, res, across) = 0 /\ ~r.spaced /\ l > res
    BY <2>6, <2>7, <2>8
  <2>10. ASSUME NewCmd(s, buf) = "SETUP", r.method = "SETUP"
         PROVE  ParsedTcp(s, buf, res, across) = (r.mode = "tcp")
    <3>1. Max(at) \in 1 .. l
      BY <1>1, <1>4, <2>5, <2>10, MaxFact
    <3>2. RequestOf(buf[Max(at)]) = r
      BY <1>3, <2>1, <3>1
    <3> QED
      BY <2>5, <2>10, <3>2 DEF ParsedTcp, at, buf
  <2> QED
    BY <2>9, <2>10
<1> QED
  BY <1>6, <1>7, <1>8, <1>9

\* A request line is a line, so the call has tried to read the method in it.
LEMMA LineTells ==
  ASSUME NEW buf \in Seq(Part), LineParses(buf)
  PROVE  NewState(buf) # "Unknown"
<1>1. /\ Skipped(buf) + 1 \in DOMAIN buf /\ Skipped(buf) + 2 \in DOMAIN buf
      /\ buf[Skipped(buf) + 1].part = "method" /\ buf[Skipped(buf) + 2].part = "uri"
  <2>1. Skipped(buf) \in {0, 1} /\ Len(buf) \in Nat
    BY DEF Skipped
  <2> QED
    BY <2>1 DEF LineParses
<1>2. HasLine(buf)
  BY <1>1 DEF HasLine
<1> QED
  BY <1>2 DEF NewState, Classifies

\* What is aligned is a stretch, and what is left behind the buffer is one.
LEMMA AlignedStretch ==
  ASSUME NEW s \in Sessions, NEW res \in Nat, NEW r \in Requests, NEW n,
         NEW buf \in Seq(Part), NEW k \in 0 .. Len(Parts(r)), Aligned(s, r, n, buf, res, k),
         inbox[s] \in Seq(Part), NEW p \in Seq(Part), res <= Len(inbox[s]),
         Len(p) = Len(inbox[s]) - res, \A i \in 1 .. Len(p) : p[i] = inbox[s][res + i]
  PROVE  Stretch(s, r, n, p) /\ Stretch(s, r, n, buf \o p)
<1> DEFINE lp == Len(Parts(r))
           lb == Len(buf)
           l  == Len(p)
           q  == buf \o p
<1>1. lp \in Nat /\ lb \in Nat /\ l \in Nat /\ k \in Nat /\ k + lb + l = lp
  <2>1. k + lb + (Len(inbox[s]) - res) = lp
    BY DEF Aligned
  <2>2. lp \in Nat /\ lb \in Nat /\ l \in Nat
    BY PartsFact
  <2>3. k + lb + l = lp
    BY <2>1
  <2>4. k \in Nat
    OBVIOUS
  <2> HIDE DEF lp, lb, l
  <2> QED
    BY <2>2, <2>3, <2>4
<1>2. \A i \in 1 .. lb : buf[i] = [part |-> Parts(r)[k + i], by |-> s, n |-> n]
  BY DEF Aligned
<1>3. \A i \in 1 .. l : p[i] = [part |-> Parts(r)[k + lb + i], by |-> s, n |-> n]
  BY DEF Aligned
<1>4. q \in Seq(Part) /\ Len(q) = lb + l
      /\ \A i \in 1 .. lb + l : q[i] = IF i <= lb THEN buf[i] ELSE p[i - lb]
  BY ConcatFact
<1> HIDE DEF lp, lb, l, q
<1>5. Stretch(s, r, n, p)
  <2>1. k + lb \in 0 .. lp /\ l = lp - (k + lb)
    BY <1>1
  <2> QED
    BY <1>3, <2>1 DEF Stretch, lp, l
<1>6. ASSUME NEW i \in 1 .. lb + l
      PROVE  q[i] = [part |-> Parts(r)[k + i], by |-> s, n |-> n]
  <2>1. CASE i <= lb
    <3>1. i \in 1 .. lb /\ q[i] = buf[i]
      BY <1>1, <1>4, <2>1
    <3> QED
      BY <1>2, <3>1
  <2>2. CASE i > lb
    <3>1. i - lb \in 1 .. l /\ k + lb + (i - lb) = k + i
      BY <1>1, <2>2
    <3>2. q[i] = p[i - lb]
      BY <1>1, <1>4, <2>2
    <3> QED
      BY <1>3, <3>1, <3>2
  <2> QED
    BY <1>1, <2>1, <2>2
<1>7. Stretch(s, r, n, q)
  <2>1. k \in 0 .. lp /\ Len(q) = lp - k
    BY <1>1, <1>4
  <2> QED
    BY <1>4, <1>6, <2>1 DEF Stretch, lp
<1> QED
  BY <1>5, <1>7 DEF q

-----------------------------------------------------------------------------
(* One call of handleRequests on a session whose turn it is.               *)

\* It is the call of one session.
LEMMA ReceiveOther ==
  ASSUME TypeOK, NEW s \in Sessions, NEW t \in Sessions \ {s}, NEW res,
         ReceivePart(s, res) \/ ReceiveInvalid(s, res) \/ ReceiveRequest(s, res)
  PROVE  /\ sent'[t] = sent[t] /\ inbox'[t] = inbox[t] /\ replies'[t] = replies[t]
         /\ tcp'[t] = tcp[t] /\ phase'[t] = phase[t]
<1>1. CASE ReceivePart(s, res)
  BY <1>1 DEF ReceivePart, Consume, TypeOK
<1>2. CASE ReceiveInvalid(s, res)
  BY <1>2 DEF ReceiveInvalid, Consume, Answer, TypeOK
<1>3. CASE ReceiveRequest(s, res)
  <2> DEFINE buf == Glued(s, res)
             cmd == NewCmd(s, buf)
  <2>1. PICK across \in BOOLEAN :
          /\ tcp' = [tcp EXCEPT ![s] = ParsedTcp(s, buf, res, across)]
          /\ IF ParseSucceeds(buf, res, across) /\ cmd \in Known \ {"TEARDOWN"}
               THEN Answer(s, [ok |-> TRUE, method |-> cmd,
                               cseq |-> ParsedCSeq(s, buf, res, across)])
               ELSE UNCHANGED replies
    BY <1>3 DEF ReceiveRequest
  <2>2. replies'[t] = replies[t] /\ tcp'[t] = tcp[t]
    BY <2>1 DEF Answer, TypeOK
  <2>3. /\ Consume(s, res)
        /\ phase' = [phase EXCEPT ![s] = IF cmd = "TEARDOWN" THEN "gone" ELSE phase[s]]
    BY <1>3 DEF ReceiveRequest
  <2> QED
    BY <2>2, <2>3 DEF Consume, TypeOK
<1> QED
  BY <1>1, <1>2, <1>3

\* A 200 OK that tells of the n-th request, r.
Tells(a, r, n) ==
  a.ok => /\ a.cseq = n \/ (a.cseq = 0 /\ ~r.spaced)
          /\ a.method = r.method

\* A call that reads keeps the turn, and gives the reply of the last request
\* when it gives a 200 OK at all.  Without a reply the transport changes only
\* when the whole request, a SETUP, was read and did not parse.
LEMMA TurnReceive ==
  ASSUME TypeOK, TypeOK', NonEmptyState, NEW s \in Sessions, Turn(s), NEW res \in ReadSizes(s),
         ReceivePart(s, res) \/ ReceiveInvalid(s, res) \/ ReceiveRequest(s, res)
  PROVE  LET n == Len(sent[s])
             r == sent[s][n]
         IN  /\ Turn(s)'
             /\ n = Len(replies[s]) + 1 /\ UNCHANGED sent /\ inbox[s] # <<>>
             /\ \/ UNCHANGED <<replies, tcp>>
                \/ /\ UNCHANGED replies /\ inbox'[s] = <<>>
                   /\ r.method = "SETUP" /\ TransportFirst(r)
                   /\ tcp'[s] = (r.mode = "tcp")
                \/ \E a \in Reply :
                     /\ Answer(s, a) /\ Tells(a, r, n)
                     /\ a.ok /\ a.method = "SETUP" => tcp'[s] = (r.mode = "tcp")
                     /\ ~(a.ok /\ a.method = "SETUP") => tcp'[s] = tcp[s]
<1> DEFINE n   == Len(sent[s])
           r   == sent[s][n]
           buf == Glued(s, res)
<1>1. /\ res \in 1 .. Len(inbox[s]) /\ inbox[s] \in Seq(Part) /\ Len(inbox[s]) \in Nat
      /\ buf \in Seq(Part)
  BY ReadFact
<1>2. Busy(s) /\ CmdKnown(s) /\ Fresh(s)
  BY <1>1 DEF Turn, Idle
<1>3. n = Len(replies[s]) + 1
  BY <1>2 DEF Busy
<1>4. r \in Requests /\ n \in Nat \ {0} /\ replies[s] \in Seq(Reply) /\ Len(replies[s]) \in Nat
  BY <1>3, LastRequestFact
<1>5. PICK k \in 0 .. Len(Parts(r)) : Aligned(s, r, n, buf, res, k)
  BY <1>2, AlignedFact
<1>6. Consume(s, res)
  BY DEF ReceivePart, ReceiveInvalid, ReceiveRequest
<1>7. /\ inbox'[s] \in Seq(Part) /\ Len(inbox'[s]) = Len(inbox[s]) - res
      /\ \A i \in 1 .. Len(inbox'[s]) : inbox'[s][i] = inbox[s][res + i]
  BY <1>1, <1>6, ConsumeFact
<1>8. Stretch(s, r, n, inbox'[s]) /\ Stretch(s, r, n, buf \o inbox'[s])
  <2>1. res \in Nat /\ res <= Len(inbox[s])
    BY <1>1
  <2> HIDE DEF n, r, buf
  <2> QED
    BY <1>1, <1>4, <1>5, <1>7, <2>1, AlignedStretch
<1>9. sent' = sent /\ phase[s] = "live"
  BY <1>6 DEF Consume
<1>10. HeaderEnds(buf) => inbox'[s] = <<>>
  BY <1>1, <1>4, <1>5, <1>7, EndsFact
<1>11. ASSUME recvBuf' = <<>> PROVE Unread(s)' = inbox'[s]
  BY <1>7, <1>11 DEF Unread
<1>12. NewState(buf) = "GotMethod" => NewCmd(s, buf) = r.method
  BY <1>2, <1>5, CmdFact
<1>13. phase'[s] # "none"
  BY <1>9 DEF ReceivePart, ReceiveInvalid, ReceiveRequest, TypeOK
<1>14. Fresh(s)'
  BY <1>13 DEF Fresh
<1>18. inbox[s] # <<>>
  BY <1>1
<1>15. CASE ReceivePart(s, res)
  <2>1. /\ recvBuf' = buf /\ hdrState' = NewState(buf) /\ cmdType'[s] = NewCmd(s, buf)
        /\ UNCHANGED <<replies, tcp>>
    BY <1>15 DEF ReceivePart, TypeOK
  <2>2. Busy(s)'
    BY <1>3, <1>8, <1>9, <2>1 DEF Busy, Unread
  <2>3. CmdKnown(s)'
    BY <1>9, <1>12, <2>1 DEF CmdKnown
  <2> QED
    BY <1>3, <1>9, <1>14, <1>18, <2>1, <2>2, <2>3 DEF Turn
<1>16. CASE ReceiveInvalid(s, res)
  <2> DEFINE a == [ok |-> FALSE, method |-> "UNKNOWN", cseq |-> cseq[s]]
  <2>1. Answer(s, a) /\ recvBuf' = <<>> /\ UNCHANGED tcp /\ HeaderEnds(buf)
    BY <1>16 DEF ReceiveInvalid
  <2>2. a \in Reply
    BY DEF Reply, TypeOK
  <2>3. Len(replies'[s]) = Len(replies[s]) + 1
    BY <1>4, <2>1, <2>2 DEF Answer, TypeOK
  <2>4. Idle(s)'
    BY <1>3, <1>9, <1>10, <2>1, <2>3 DEF Idle
  <2>5. CmdKnown(s)'
    BY <2>1 DEF CmdKnown
  <2> QED
    BY <1>3, <1>9, <1>14, <1>18, <2>1, <2>2, <2>4, <2>5 DEF Turn, Tells
<1>17. CASE ReceiveRequest(s, res)
  <2> DEFINE cmd == NewCmd(s, buf)
  <2>0. PICK across \in BOOLEAN :
          /\ tcp' = [tcp EXCEPT ![s] = ParsedTcp(s, buf, res, across)]
          /\ IF ParseSucceeds(buf, res, across) /\ cmd \in Known \ {"TEARDOWN"}
               THEN Answer(s, [ok |-> TRUE, method |-> cmd,
                               cseq |-> ParsedCSeq(s, buf, res, across)])
               ELSE UNCHANGED replies
    BY <1>17 DEF ReceiveRequest
  <2> DEFINE a   == [ok |-> TRUE, method |-> cmd, cseq |-> ParsedCSeq(s, buf, res, across)]
             ok  == ParseSucceeds(buf, res, across) /\ cmd \in Known \ {"TEARDOWN"}
  <2>1. /\ recvBuf' = <<>> /\ tcp' = [tcp EXCEPT ![s] = ParsedTcp(s, buf, res, across)]
        /\ ok => Answer(s, a)
        /\ ~ok => UNCHANGED replies
        /\ \/ NewState(buf) = "Unknown"
           \/ NewState(buf) = "GotMethod" /\ HeaderEnds(buf)
    BY <1>17, <2>0 DEF ReceiveRequest
  <2>2. CmdKnown(s)'
    BY <2>1 DEF CmdKnown
  <2>3. CASE ok
    <3>1. NewState(buf) = "GotMethod" /\ HeaderEnds(buf) /\ ParseSucceeds(buf, res, across)
      BY <1>1, <2>1, <2>3, LineTells DEF ParseSucceeds
    <3>2. cmd = r.method
      BY <1>12, <3>1
    <3>3. /\ \/ ParsedCSeq(s, buf, res, across) = n
             \/ ParsedCSeq(s, buf, res, across) = 0 /\ ~r.spaced
          /\ cmd = "SETUP" => ParsedTcp(s, buf, res, across) = (r.mode = "tcp")
          /\ cmd # "SETUP" => ParsedTcp(s, buf, res, across) = tcp[s]
      BY <1>4, <1>5, <3>1, <3>2, ParsedFact
    <3>4. a \in Reply
      BY <1>1, <2>3, ParsedCSeqFact DEF Reply
    <3>5. Len(replies'[s]) = Len(replies[s]) + 1
      BY <1>4, <2>1, <2>3, <3>4 DEF Answer, TypeOK
    <3>6. Idle(s)'
      BY <1>3, <1>9, <1>10, <2>1, <3>1, <3>5 DEF Idle
    <3>7. tcp'[s] = ParsedTcp(s, buf, res, across)
      BY <2>1 DEF TypeOK
    <3>8. /\ Answer(s, a) /\ Tells(a, r, n)
          /\ a.ok /\ a.method = "SETUP" => tcp'[s] = (r.mode = "tcp")
          /\ ~(a.ok /\ a.method = "SETUP") => tcp'[s] = tcp[s]
      BY <2>1, <2>3, <3>2, <3>3, <3>7 DEF Tells
    <3> QED
      BY <1>3, <1>9, <1>14, <1>18, <2>2, <3>4, <3>6, <3>8 DEF Turn
  <2>4. CASE ~ok
    <3>1. Busy(s)'
      BY <1>3, <1>8, <1>9, <1>11, <2>1, <2>4 DEF Busy
    <3>2. CASE ParsedTcp(s, buf, res, across) = tcp[s]
      <4>1. UNCHANGED <<replies, tcp>>
        BY <2>1, <2>4, <3>2 DEF TypeOK
      <4> QED
        BY <1>3, <1>9, <1>14, <1>18, <2>2, <3>1, <4>1 DEF Turn
    <3>3. CASE ParsedTcp(s, buf, res, across) # tcp[s]
      <4>1. cmd = "SETUP" /\ LineParses(buf)
        BY <1>4, <1>5, <3>3, ParsedFact
      <4>2. ~ParseSucceeds(buf, res, across)
        BY <2>4, <4>1 DEF Known
      <4>3. TransportFirst(r) /\ ParsedTcp(s, buf, res, across) = (r.mode = "tcp")
        BY <1>4, <1>5, <3>3, <4>2, ParsedFact
      <4>4. NewState(buf) = "GotMethod" /\ HeaderEnds(buf)
        BY <1>1, <2>1, <4>1, LineTells
      <4>5. r.method = "SETUP" /\ inbox'[s] = <<>>
        BY <1>10, <1>12, <4>1, <4>4
      <4>6. UNCHANGED replies /\ tcp'[s] = ParsedTcp(s, buf, res, across)
        BY <2>1, <2>4 DEF TypeOK
      <4> QED
        BY <1>3, <1>9, <1>14, <1>18, <2>2, <3>1, <4>3, <4>5, <4>6 DEF Turn
    <3> QED
      BY <3>2, <3>3
  <2> QED
    BY <2>3, <2>4
<1> QED
  BY <1>15, <1>16, <1>17

\* When each read returns a whole request, that is what a call finds in its
\* buffer: it parses, and its method is what the session takes.
LEMMA WholeFact ==
  ASSUME TypeOK, TurnInv, ReadWhole, NEW s \in Sessions, NEW res \in ReadSizes(s)
  PROVE  LET n   == Len(sent[s])
             r   == sent[s][n]
             buf == Glued(s, res)
         IN  /\ n = Len(replies[s]) + 1 /\ r \in Requests /\ n \in Nat
             /\ res = Len(inbox[s]) /\ Len(buf) = res /\ HeaderEnds(buf)
             /\ NewState(buf) # "Unknown"
             /\ \A across \in BOOLEAN : ParseSucceeds(buf, res, across)
             /\ NewCmd(s, buf) = IF r.method \in Known THEN r.method ELSE "UNKNOWN"
             /\ NewState(buf) = IF r.method \in Known THEN "GotMethod" ELSE "Invalid"
<1> DEFINE n   == Len(sent[s])
           r   == sent[s][n]
           buf == Glued(s, res)
           lp  == Len(Parts(r))
<1>1. recvBuf = <<>> /\ OldBuf = <<>> /\ OldState = "Unknown"
  BY DEF TurnInv, NothingKept, OldBuf, OldState, Restart
<1>2. /\ res \in 1 .. Len(inbox[s]) /\ inbox[s] \in Seq(Part) /\ Len(inbox[s]) \in Nat
      /\ buf \in Seq(Part) /\ Len(buf) = res /\ \A i \in 1 .. res : buf[i] = inbox[s][i]
  <2>1. Len(OldBuf) = 0 /\ \A i \in 1 .. res : 0 + i = i
    BY <1>1, ReadFact
  <2> QED
    BY <2>1, ReadFact
<1>3. inbox[s] # <<>> /\ Busy(s)
  BY <1>2 DEF TurnInv, Turn, Idle
<1>4. n = Len(replies[s]) + 1 /\ n \in Nat \ {0} /\ r \in Requests
  BY <1>3, LastRequestFact DEF Busy
<1>5. inbox[s] = Wire(s, r, n)
  BY <1>3 DEF TurnInv, NothingKept
<1>6. sent[s] \in Seq(Requests) /\ lp \in Nat /\ lp >= 3 /\ lp <= BufSize
  BY <1>4, PartsFact DEF TypeOK, ReadWhole
<1> HIDE DEF n, r, buf
<1>7. /\ Len(inbox[s]) = lp
      /\ \A i \in 1 .. lp : inbox[s][i] = [part |-> Parts(r)[i], by |-> s, n |-> n]
  BY <1>5, <1>6 DEF Wire
<1>8. res = lp
  <2>1. Len(inbox[s]) \in Int /\ BufSize - Len(OldBuf) \in Int
        /\ BufSize - Len(OldBuf) = BufSize
    BY <1>1, <1>2, ReceiveAssumption
  <2>2. Min({Len(inbox[s]), BufSize}) \in {Len(inbox[s]), BufSize}
        /\ Min({Len(inbox[s]), BufSize}) <= Len(inbox[s])
        /\ Min({Len(inbox[s]), BufSize}) <= BufSize
    BY <2>1, ReceiveAssumption, MinFact, Zenon
  <2>3. res = Min({Len(inbox[s]), BufSize})
    BY <2>1 DEF ReadSizes, ReadWhole
  <2> DEFINE all == Min({Len(inbox[s]), BufSize})
  <2>4. all \in {lp, BufSize} /\ all <= lp /\ all <= BufSize
    BY <1>7, <2>2
  <2> HIDE DEF all, lp
  <2>5. all = lp
    BY <1>6, <2>4, ReceiveAssumption
  <2> QED
    BY <2>3, <2>5 DEF all
<1>9. \A i \in 1 .. lp : buf[i] = [part |-> Parts(r)[i], by |-> s, n |-> n]
  BY <1>2, <1>7, <1>8
<1>10. Len(buf) = lp
  BY <1>2, <1>8
<1>11. /\ buf[1].part = "method" /\ buf[2].part = "uri"
       /\ buf[lp].part = "end" /\ RequestOf(buf[1]) = r
  <2>1. 1 \in 1 .. lp /\ 2 \in 1 .. lp /\ lp \in 1 .. lp
    BY <1>6
  <2>2. Parts(r)[1] = "method" /\ Parts(r)[2] = "uri" /\ Parts(r)[lp] = "end"
    BY <1>4, PartsFact
  <2> HIDE DEF lp
  <2>3. /\ buf[1] = [part |-> Parts(r)[1], by |-> s, n |-> n]
        /\ buf[2] = [part |-> Parts(r)[2], by |-> s, n |-> n]
        /\ buf[lp] = [part |-> Parts(r)[lp], by |-> s, n |-> n]
    BY <1>9, <2>1
  <2>4. RequestOf(buf[1]) = r
    BY <2>3 DEF RequestOf, n, r
  <2> QED
    BY <2>2, <2>3, <2>4
<1>12. HeaderEnds(buf)
  BY <1>10, <1>11 DEF HeaderEnds, Last
<1>13. Skipped(buf) = 0
  BY <1>11 DEF Skipped
<1>14. LineParses(buf)
  BY <1>6, <1>10, <1>11, <1>13 DEF LineParses
<1>15. Classifies(buf)
  <2>1. 1 \in DOMAIN buf /\ 2 \in DOMAIN buf
    BY <1>2, <1>6, <1>10
  <2> QED
    BY <1>1, <1>11, <2>1 DEF Classifies, HasLine
<1>16. MethodIn(buf) = IF r.method \in Known THEN r.method ELSE "UNKNOWN"
  BY <1>11, <1>13 DEF MethodIn
<1>17. r.method # "UNKNOWN"
  BY <1>4, ReceiveAssumption DEF Requests
<1>18. /\ NewCmd(s, buf) = IF r.method \in Known THEN r.method ELSE "UNKNOWN"
       /\ NewState(buf) = IF r.method \in Known THEN "GotMethod" ELSE "Invalid"
  BY <1>15, <1>16, <1>17 DEF NewCmd, NewState
<1>19. ASSUME NEW across \in BOOLEAN PROVE OutOfSize(buf, res, across) = {}
  <2>1. \A i \in DOMAIN buf : i <= res
    BY <1>2
  <2> QED
    BY <1>2, <2>1 DEF OutOfSize, PartsOf
<1>20. Len(inbox[s]) = res
  BY <1>7, <1>8
<1> QED
  BY <1>2, <1>4, <1>12, <1>14, <1>18, <1>19, <1>20 DEF ParseSucceeds, n, r, buf

LEMMA TurnOther ==
  ASSUME NEW t \in Sessions, Turn(t), recvBuf = <<>>, recvBuf' = <<>>,
         sent'[t] = sent[t], inbox'[t] = inbox[t], replies'[t] = replies[t],
         phase'[t] = "none" => phase[t] = "none"
  PROVE  Turn(t)'
<1>1. Idle(t) => Idle(t)'
  BY DEF Idle
<1>2. Busy(t) => Busy(t)'
  BY DEF Busy, Unread
<1>3. Fresh(t)'
  BY DEF Turn, Fresh
<1>4. CmdKnown(t)'
  BY DEF CmdKnown
<1> QED
  BY <1>1, <1>2, <1>3, <1>4 DEF Turn

\* A client sends only when it has nothing to wait for.
LEMMA TurnSend ==
  ASSUME TypeOK, TypeOK', NEW s \in Sessions, Turn(s), Sequential,
         NEW r \in Requests, Send(s, r)
  PROVE  /\ Turn(s)' /\ recvBuf = <<>> /\ UNCHANGED <<recvBuf, tcp, replies>>
         /\ Len(sent[s]) = Len(replies[s]) /\ Len(sent'[s]) = Len(sent[s]) + 1
         /\ \A i \in 1 .. Len(sent[s]) : sent'[s][i] = sent[s][i]
         /\ inbox'[s] = Wire(s, sent'[s][Len(sent'[s])], Len(sent'[s]))
<1> DEFINE n == Len(sent[s]) + 1
           w == Wire(s, r, n)
<1>1. /\ sent[s] \in Seq(Requests) /\ Len(sent[s]) \in Nat
      /\ replies[s] \in Seq(Reply) /\ Len(replies[s]) \in Nat
  BY DEF TypeOK
<1>2. n \in 1 .. MaxRequests /\ phase[s] = "live"
  BY <1>1, ReceiveAssumption DEF Send
<1>3. Idle(s)
  BY <1>1 DEF Send, Waiting, Turn, Busy
<1>4. /\ sent' = [sent EXCEPT ![s] = Append(sent[s], r)]
      /\ inbox' = [inbox EXCEPT ![s] = <<>> \o w]
      /\ UNCHANGED <<replies, recvBuf, phase, tcp>>
  BY <1>3 DEF Send, Wire, Idle, session
<1>5. /\ sent'[s] = Append(sent[s], r) /\ inbox'[s] = <<>> \o w
  BY <1>4 DEF TypeOK
<1>6. /\ Len(sent'[s]) = n /\ sent'[s][n] = r
      /\ \A i \in 1 .. Len(sent[s]) : sent'[s][i] = sent[s][i]
  BY <1>1, <1>5
<1> HIDE DEF n
<1>7. /\ w \in Seq(Part) /\ Len(w) = Len(Parts(r)) /\ Len(Parts(r)) \in Nat
      /\ \A i \in 1 .. Len(Parts(r)) : w[i] = [part |-> Parts(r)[i], by |-> s, n |-> n]
  BY <1>2, WireFact, PartsFact
<1> HIDE DEF w
<1>8. inbox'[s] = w
  BY <1>5, <1>7
<1>9. Unread(s)' = w
  BY <1>3, <1>4, <1>7, <1>8 DEF Unread, Idle
<1>10. Stretch(s, r, n, w)
  <2>1. 0 \in 0 .. Len(Parts(r)) /\ Len(w) = Len(Parts(r)) - 0
        /\ \A i \in 1 .. Len(w) : w[i] = [part |-> Parts(r)[0 + i], by |-> s, n |-> n]
    BY <1>7
  <2> QED
    BY <2>1 DEF Stretch
<1>11. Len(sent'[s]) = Len(replies'[s]) + 1
  BY <1>1, <1>3, <1>4, <1>6 DEF Idle, n
<1>12. Busy(s)'
  BY <1>6, <1>9, <1>10, <1>11 DEF Busy
<1>13. CmdKnown(s)' /\ Fresh(s)'
  BY <1>2, <1>3, <1>4 DEF CmdKnown, Fresh, Idle
<1> QED
  BY <1>3, <1>4, <1>6, <1>8, <1>12, <1>13 DEF Turn, Idle, w, n

\* A call on s, and what it leaves of the other sessions and of the buffer.
LEMMA ReceiveTurn ==
  ASSUME TypeOK, TypeOK', TurnInv, NonEmptyState', Alone \/ ReadWhole,
         NEW s \in Sessions, Receive(s)
  PROVE  TurnInv'
<1>1. PICK res \in ReadSizes(s) :
        ReceivePart(s, res) \/ ReceiveInvalid(s, res) \/ ReceiveRequest(s, res)
  BY DEF Receive
<1>2. Turn(s)'
  <2>1. Turn(s) /\ NonEmptyState
    BY DEF TurnInv
  <2> QED
    BY <1>1, <2>1, TurnReceive
<1>3. ASSUME ReadWhole PROVE recvBuf = <<>> /\ recvBuf' = <<>> /\ inbox'[s] = <<>>
  <2>1. /\ res = Len(inbox[s]) /\ HeaderEnds(Glued(s, res))
        /\ NewState(Glued(s, res)) # "Unknown"
    BY <1>3, WholeFact
  <2>2. recvBuf' = <<>> /\ Consume(s, res)
    BY <1>1, <2>1 DEF ReceivePart, ReceiveInvalid, ReceiveRequest
  <2>3. inbox'[s] \in Seq(Part) /\ Len(inbox'[s]) = Len(inbox[s]) - res
        /\ res \in 1 .. Len(inbox[s]) /\ Len(inbox[s]) \in Nat
    BY <2>2, ReadFact, ConsumeFact
  <2>4. Len(inbox'[s]) = 0
    BY <2>1, <2>3
  <2> QED
    BY <1>3, <2>2, <2>3, <2>4 DEF TurnInv, NothingKept
<1>4. ASSUME NEW t \in Sessions \ {s}
      PROVE  /\ sent'[t] = sent[t] /\ inbox'[t] = inbox[t] /\ replies'[t] = replies[t]
             /\ phase'[t] = phase[t]
  BY <1>1, ReceiveOther
<1>5. ASSUME NEW t \in Sessions PROVE Turn(t)'
  <2>1. CASE t = s
    BY <1>2, <2>1
  <2>2. CASE t # s
    <3>1. ReadWhole
      BY <2>2 DEF Alone
    <3> QED
      BY <1>3, <1>4, <2>2, <3>1, TurnOther DEF TurnInv
  <2> QED
    BY <2>1, <2>2
<1>6. ReadWhole => NothingKept'
  BY <1>3, <1>4 DEF TurnInv, NothingKept
<1> QED
  BY <1>5, <1>6 DEF TurnInv

LEMMA SendTurn ==
  ASSUME TypeOK, TypeOK', TurnInv, NonEmptyState', Alone \/ ReadWhole,
         NEW s \in Sessions, NEW r \in Requests, Send(s, r)
  PROVE  TurnInv'
<1>1. /\ Turn(s)' /\ recvBuf = <<>> /\ recvBuf' = <<>>
      /\ inbox'[s] = Wire(s, sent'[s][Len(sent'[s])], Len(sent'[s]))
  <2>1. Turn(s) /\ Sequential
    BY DEF TurnInv, Alone, ReadWhole
  <2> QED
    BY <2>1, TurnSend
<1>2. ASSUME NEW t \in Sessions \ {s}
      PROVE  /\ sent'[t] = sent[t] /\ inbox'[t] = inbox[t] /\ replies'[t] = replies[t]
             /\ phase'[t] = phase[t]
  BY DEF Send, session, TypeOK
<1>3. ASSUME NEW t \in Sessions PROVE Turn(t)'
  BY <1>1, <1>2, TurnOther DEF TurnInv
<1>4. ReadWhole => NothingKept'
  BY <1>1, <1>2 DEF TurnInv, NothingKept
<1> QED
  BY <1>3, <1>4 DEF TurnInv

\* A call that reads nothing only clears a full buffer.
LEMMA ClearTurn ==
  ASSUME TypeOK, TypeOK', TurnInv, NonEmptyState', Alone \/ ReadWhole,
         recvBuf' = OldBuf, hdrState' = OldState,
         UNCHANGED <<sent, inbox, replies, cmdType>>,
         \A t \in Sessions : phase'[t] = "none" => phase[t] = "none"
  PROVE  TurnInv'
<1>1. recvBuf = <<>> => OldBuf = <<>>
  BY OldFact
<1>2. ASSUME NEW t \in Sessions PROVE Turn(t)'
  <2>1. Turn(t)
    BY DEF TurnInv
  <2>2. Idle(t) => Idle(t)'
    BY <1>1 DEF Idle
  <2>3. Fresh(t)'
    BY <2>1 DEF Turn, Fresh
  <2>4. CmdKnown(t)'
    <3>1. CASE OldBuf = <<>>
      BY <3>1 DEF CmdKnown
    <3>2. CASE OldBuf # <<>>
      <4>1. recvBuf' = recvBuf /\ hdrState' = hdrState
        BY <3>2 DEF OldBuf, OldState
      <4> QED
        BY <2>1, <4>1 DEF Turn, CmdKnown
    <3> QED
      BY <3>1, <3>2
  <2>5. Busy(t) => Busy(t)'
    <3> SUFFICES ASSUME Busy(t) PROVE Busy(t)'
      OBVIOUS
    <3> DEFINE n == Len(sent[t])
               r == sent[t][n]
               q == Unread(t)
               d == IF OldBuf = recvBuf THEN 0 ELSE Len(recvBuf)
    <3>1. n = Len(replies[t]) + 1 /\ Stretch(t, r, n, q) /\ r \in Requests
      BY LastRequestFact DEF Busy
    <3> HIDE DEF n, r
    <3>2. /\ q \in Seq(Part) /\ Len(q) = Len(recvBuf) + Len(inbox[t])
          /\ Len(recvBuf) \in Nat /\ Len(inbox[t]) \in Nat /\ inbox[t] \in Seq(Part)
          /\ \A i \in 1 .. Len(inbox[t]) : q[Len(recvBuf) + i] = inbox[t][i]
      BY UnreadFact DEF TypeOK
    <3>3. CASE OldBuf = recvBuf
      BY <3>1, <3>3 DEF Busy, Unread, n, r
    <3>4. CASE OldBuf = <<>>
      <4>1. Unread(t)' = inbox[t]
        BY <3>2, <3>4 DEF Unread
      <4> HIDE DEF q
      <4>2. Stretch(t, r, n, inbox[t])
        <5>1. Len(recvBuf) \in 0 .. Len(q) /\ Len(inbox[t]) = Len(q) - Len(recvBuf)
          BY <3>2
        <5> QED
          BY <3>1, <3>2, <5>1, StretchTail
      <4> QED
        BY <3>1, <4>1, <4>2 DEF Busy, n, r
    <3> QED
      BY <3>3, <3>4, OldFact
  <2> QED
    BY <2>1, <2>2, <2>3, <2>4, <2>5 DEF Turn
<1>3. ReadWhole => NothingKept'
  BY <1>1 DEF TurnInv, NothingKept
<1> QED
  BY <1>2, <1>3 DEF TurnInv

LEMMA TurnNext ==
  ASSUME TypeOK, TypeOK', TurnInv, Alone \/ ReadWhole, [Next]_vars
  PROVE  TurnInv'
<1>1. NonEmptyState'
  BY NonEmptyNext DEF TurnInv
<1>2. ASSUME NEW s \in Sessions, Connect(s) PROVE TurnInv'
  <2>1. /\ UNCHANGED <<sent, inbox, closed, replies, recvBuf, hdrState>>
        /\ phase[s] = "none" /\ phase' = [phase EXCEPT ![s] = "live"]
        /\ \A t \in Sessions \ {s} : cmdType'[t] = cmdType[t]
    BY <1>2 DEF Connect, client, TypeOK
  <2>2. ASSUME NEW t \in Sessions PROVE Turn(t)'
    <3>1. Turn(t)
      BY DEF TurnInv
    <3>2. (Idle(t) \/ Busy(t))'
      BY <2>1, <3>1 DEF Turn, Idle, Busy, Unread
    <3>3. Fresh(t)'
      BY <2>1, <3>1 DEF Turn, Fresh, TypeOK
    <3>4. CmdKnown(t)'
      <4>1. CASE t = s
        <5>1. Idle(s) \/ Len(sent[s]) = Len(replies[s]) + 1
          BY <3>1, <4>1 DEF Turn, Busy
        <5>2. sent[s] = <<>> /\ replies[s] = <<>>
          BY <2>1, <3>1, <4>1 DEF Turn, Fresh
        <5>3. recvBuf = <<>>
          BY <5>1, <5>2 DEF Idle
        <5> QED
          BY <2>1, <5>3 DEF CmdKnown
      <4>2. CASE t # s
        BY <2>1, <3>1, <4>2 DEF Turn, CmdKnown
      <4> QED
        BY <4>1, <4>2
    <3> QED
      BY <3>2, <3>3, <3>4 DEF Turn
  <2>3. ReadWhole => NothingKept'
    BY <2>1 DEF TurnInv, NothingKept
  <2> QED
    BY <1>1, <2>2, <2>3 DEF TurnInv
<1>3. ASSUME NEW s \in Sessions, NEW r \in Requests, Send(s, r) PROVE TurnInv'
  BY <1>1, <1>3, SendTurn
<1>4. ASSUME NEW s \in Sessions, Receive(s) PROVE TurnInv'
  BY <1>1, <1>4, ReceiveTurn
<1>5. ASSUME NEW s \in Sessions, ReceiveClosed(s) \/ ReceiveTimeout(s) PROVE TurnInv'
  <2>1. /\ recvBuf' = OldBuf /\ hdrState' = OldState
        /\ UNCHANGED <<sent, inbox, replies, cmdType>>
        /\ \A t \in Sessions : phase'[t] = "none" => phase[t] = "none"
    BY <1>5 DEF ReceiveClosed, ReceiveTimeout, client, session, TypeOK
  <2> QED
    BY <1>1, <2>1, ClearTurn
<1>6. CASE UNCHANGED <<sent, inbox, session, recvBuf, hdrState>>
  <2>1. UNCHANGED <<phase, cmdType, replies>>
    BY <1>6 DEF session
  <2>2. \A t \in Sessions : Turn(t)'
    BY <1>6, <2>1 DEF TurnInv, Turn, Idle, Busy, Unread, CmdKnown, Fresh
  <2>3. ReadWhole => NothingKept'
    BY <1>6 DEF TurnInv, NothingKept
  <2> QED
    BY <1>1, <2>2, <2>3 DEF TurnInv
<1> QED
  BY <1>2, <1>3, <1>4, <1>5, <1>6 DEF Next, Client, handleRequests, Close, vars, client

-----------------------------------------------------------------------------
(* The replies of a session, given that it was its turn.                   *)

OkReplies(s) ==
  \A i \in DOMAIN replies[s] :
    replies[s][i].ok =>
      /\ i <= Len(sent[s])
      /\ replies[s][i].cseq = i \/ (replies[s][i].cseq = 0 /\ ~sent[s][i].spaced)
      /\ replies[s][i].method = sent[s][i].method

Setups(s) == {i \in DOMAIN replies[s] : replies[s][i].ok /\ replies[s][i].method = "SETUP"}

\* A SETUP is dropped with its last piece: nothing of it is left to read.
Agreed(s) ==
  Setups(s) # {} =>
    \/ tcp[s] <=> sent[s][Max(Setups(s))].mode = "tcp"
    \/ SetupDropped(s) /\ inbox[s] = <<>>

LEMMA SetupsFact ==
  ASSUME TypeOK, NEW s \in Sessions, OkReplies(s), Setups(s) # {}
  PROVE  /\ Max(Setups(s)) \in 1 .. Len(sent[s]) /\ Max(Setups(s)) \in DOMAIN replies[s]
         /\ Max(Setups(s)) \in Setups(s) /\ \A i \in Setups(s) : i <= Max(Setups(s))
<1>1. /\ Len(replies[s]) \in Nat /\ DOMAIN replies[s] = 1 .. Len(replies[s])
      /\ Len(sent[s]) \in Nat
  BY DEF TypeOK
<1>2. Setups(s) \in SUBSET (1 .. Len(replies[s]))
  BY <1>1 DEF Setups
<1>3. Max(Setups(s)) \in Setups(s) /\ \A i \in Setups(s) : i <= Max(Setups(s))
  BY <1>1, <1>2, MaxFact
<1>4. \A i \in Setups(s) : i <= Len(sent[s])
  BY DEF Setups, OkReplies
<1> QED
  BY <1>1, <1>2, <1>3, <1>4

\* A new request changes nothing of the replies that were given.
LEMMA RepliesKeptBySend ==
  ASSUME TypeOK, NEW s \in Sessions, OkReplies(s), Agreed(s), Len(sent[s]) = Len(replies[s]),
         replies'[s] = replies[s], tcp'[s] = tcp[s], Len(sent'[s]) = Len(sent[s]) + 1,
         \A i \in 1 .. Len(sent[s]) : sent'[s][i] = sent[s][i]
  PROVE  OkReplies(s)' /\ Agreed(s)'
<1>1. /\ Len(replies[s]) \in Nat /\ DOMAIN replies[s] = 1 .. Len(replies[s])
      /\ Len(sent[s]) \in Nat
  BY DEF TypeOK
<1>2. OkReplies(s)'
  <2> SUFFICES ASSUME NEW i \in DOMAIN replies[s], replies[s][i].ok
               PROVE  /\ i <= Len(sent'[s])
                      /\ \/ replies[s][i].cseq = i
                         \/ replies[s][i].cseq = 0 /\ ~sent'[s][i].spaced
                      /\ replies[s][i].method = sent'[s][i].method
    BY DEF OkReplies
  <2>1. i <= Len(sent[s]) /\ i \in 1 .. Len(sent[s])
    BY <1>1 DEF OkReplies
  <2> QED
    BY <1>1, <2>1 DEF OkReplies
<1>3. Setups(s)' = Setups(s)
  BY DEF Setups
<1>4. Agreed(s)'
  <2>1. ~SetupDropped(s)
    BY <1>1 DEF SetupDropped
  <2> QED
    BY <1>3, <2>1, SetupsFact DEF Agreed
<1> QED
  BY <1>2, <1>4

\* A reply that is given in turn.
LEMMA RepliesKeptByAnswer ==
  ASSUME TypeOK, NEW s \in Sessions, OkReplies(s), Agreed(s), sent' = sent,
         NEW a \in Reply, Answer(s, a), inbox[s] # <<>>,
         NEW n, n = Len(sent[s]), n = Len(replies[s]) + 1, Tells(a, sent[s][n], n),
         a.ok /\ a.method = "SETUP" => tcp'[s] = (sent[s][n].mode = "tcp"),
         ~(a.ok /\ a.method = "SETUP") => tcp'[s] = tcp[s]
  PROVE  OkReplies(s)' /\ Agreed(s)'
<1>1. /\ replies[s] \in Seq(Reply) /\ Len(replies[s]) \in Nat
      /\ DOMAIN replies[s] = 1 .. Len(replies[s])
      /\ replies'[s] = Append(replies[s], a)
  BY DEF TypeOK, Answer
<1>2. /\ DOMAIN replies'[s] = 1 .. n /\ replies'[s][n] = a /\ n \in Nat
      /\ \A i \in 1 .. n - 1 : replies'[s][i] = replies[s][i] /\ i \in DOMAIN replies[s]
  BY <1>1
<1>3. OkReplies(s)'
  <2> SUFFICES ASSUME NEW i \in 1 .. n, replies'[s][i].ok
               PROVE  /\ i <= Len(sent[s])
                      /\ \/ replies'[s][i].cseq = i
                         \/ replies'[s][i].cseq = 0 /\ ~sent[s][i].spaced
                      /\ replies'[s][i].method = sent[s][i].method
    BY <1>2 DEF OkReplies
  <2>1. CASE i = n
    BY <1>2, <2>1 DEF Tells
  <2>2. CASE i # n
    <3>1. i \in 1 .. n - 1
      BY <1>2, <2>2
    <3> QED
      BY <1>2, <3>1 DEF OkReplies
  <2> QED
    BY <2>1, <2>2
<1>4. CASE a.ok /\ a.method = "SETUP"
  <2>1. n \in Setups(s)' /\ Setups(s)' \in SUBSET (1 .. n)
    BY <1>1, <1>2, <1>4 DEF Setups
  <2>2. Max(Setups(s)') = n
    <3>1. Max(Setups(s)') \in Setups(s)' /\ n <= Max(Setups(s)')
      BY <1>2, <2>1, MaxFact
    <3>2. Max(Setups(s)') \in 1 .. n
      BY <2>1, <3>1
    <3> QED
      BY <1>2, <3>1, <3>2
  <2>3. tcp'[s] = (sent'[s][n].mode = "tcp")
    BY <1>4
  <2> QED
    BY <1>3, <2>2, <2>3 DEF Agreed
<1>5. CASE ~(a.ok /\ a.method = "SETUP")
  <2>1. n \notin Setups(s)'
    BY <1>2, <1>5 DEF Setups
  <2>2. Setups(s)' = Setups(s)
    <3>1. \A i : i \in Setups(s)' <=> i \in Setups(s)
      <4> SUFFICES ASSUME NEW i PROVE i \in Setups(s)' <=> i \in Setups(s)
        OBVIOUS
      <4>1. i \in 1 .. n <=> (i \in 1 .. n - 1 \/ i = n)
        BY <1>2
      <4>2. 1 .. n - 1 = DOMAIN replies[s]
        BY <1>1
      <4> QED
        BY <1>2, <2>1, <4>1, <4>2 DEF Setups
    <3> QED
      BY <3>1
  <2> QED
    BY <1>3, <1>5, <2>2 DEF Agreed
<1> QED
  BY <1>4, <1>5

LEMMA RepliesNext ==
  ASSUME TypeOK, TypeOK', TurnInv, Alone \/ ReadWhole, [Next]_vars,
         NEW t \in Sessions, OkReplies(t), Agreed(t)
  PROVE  OkReplies(t)' /\ Agreed(t)'
<1>1. CASE /\ sent'[t] = sent[t] /\ replies'[t] = replies[t]
           /\ tcp'[t] = tcp[t] /\ inbox'[t] = inbox[t]
  BY <1>1 DEF OkReplies, Agreed, Setups, SetupDropped
<1>2. ASSUME NEW s \in Sessions, Connect(s)
      PROVE  OkReplies(t)' /\ Agreed(t)'
  <2>1. sent' = sent /\ replies' = replies /\ inbox' = inbox
    BY <1>2 DEF Connect, client
  <2>2. CASE t = s
    <3>1. replies[t] = <<>>
      BY <1>2, <2>2 DEF Connect, TurnInv, Turn, Fresh
    <3> QED
      BY <2>1, <3>1 DEF OkReplies, Agreed, Setups
  <2>3. CASE t # s
    BY <1>1, <1>2, <2>1, <2>3 DEF Connect, TypeOK
  <2> QED
    BY <2>2, <2>3
<1>3. ASSUME NEW s \in Sessions, NEW r \in Requests, Send(s, r)
      PROVE  OkReplies(t)' /\ Agreed(t)'
  <2>1. CASE t = s
    <3>1. /\ Len(sent[s]) = Len(replies[s]) /\ Len(sent'[s]) = Len(sent[s]) + 1
          /\ \A i \in 1 .. Len(sent[s]) : sent'[s][i] = sent[s][i]
          /\ UNCHANGED <<tcp, replies>>
      <4>1. Turn(s) /\ Sequential
        BY DEF TurnInv, Alone, ReadWhole
      <4> QED
        BY <1>3, <4>1, TurnSend
    <3> QED
      BY <2>1, <3>1, RepliesKeptBySend
  <2>2. CASE t # s
    BY <1>1, <1>3, <2>2 DEF Send, session, TypeOK
  <2> QED
    BY <2>1, <2>2
<1>4. ASSUME NEW s \in Sessions, Receive(s)
      PROVE  OkReplies(t)' /\ Agreed(t)'
  <2>1. PICK res \in ReadSizes(s) :
          ReceivePart(s, res) \/ ReceiveInvalid(s, res) \/ ReceiveRequest(s, res)
    BY <1>4 DEF Receive
  <2>2. CASE t # s
    BY <1>1, <2>1, <2>2, ReceiveOther
  <2>3. CASE t = s
    <3> DEFINE n == Len(sent[s])
               r == sent[s][n]
    <3>1. /\ n = Len(replies[s]) + 1 /\ sent' = sent /\ inbox[s] # <<>>
          /\ \/ UNCHANGED <<replies, tcp>>
             \/ /\ UNCHANGED replies /\ inbox'[s] = <<>>
                /\ r.method = "SETUP" /\ TransportFirst(r)
                /\ tcp'[s] = (r.mode = "tcp")
             \/ \E a \in Reply :
                  /\ Answer(s, a) /\ Tells(a, r, n)
                  /\ a.ok /\ a.method = "SETUP" => tcp'[s] = (r.mode = "tcp")
                  /\ ~(a.ok /\ a.method = "SETUP") => tcp'[s] = tcp[s]
      <4>1. Turn(s) /\ NonEmptyState
        BY DEF TurnInv
      <4> QED
        BY <2>1, <4>1, TurnReceive
    <3>2. CASE UNCHANGED <<replies, tcp>>
      <4>1. ~(SetupDropped(s) /\ inbox[s] = <<>>)
        BY <3>1
      <4> QED
        BY <2>3, <3>1, <3>2, <4>1 DEF OkReplies, Agreed, Setups
    <3>3. CASE /\ UNCHANGED replies /\ inbox'[s] = <<>>
               /\ r.method = "SETUP" /\ TransportFirst(r)
               /\ tcp'[s] = (r.mode = "tcp")
      <4>1. Len(replies'[s]) < Len(sent'[s]) /\ Last(sent'[s]) = r
        <5>1. Len(replies[s]) \in Nat
          BY DEF TypeOK
        <5> QED
          BY <3>1, <3>3, <5>1 DEF Last
      <4>2. SetupDropped(s)'
        BY <3>3, <4>1 DEF SetupDropped
      <4> QED
        BY <2>3, <3>1, <3>3, <4>2 DEF OkReplies, Agreed, Setups
    <3>4. ASSUME NEW a \in Reply, Answer(s, a), Tells(a, r, n),
                 a.ok /\ a.method = "SETUP" => tcp'[s] = (r.mode = "tcp"),
                 ~(a.ok /\ a.method = "SETUP") => tcp'[s] = tcp[s]
          PROVE  OkReplies(s)' /\ Agreed(s)'
      BY <2>3, <3>1, <3>4, RepliesKeptByAnswer
    <3> QED
      BY <2>3, <3>1, <3>2, <3>3, <3>4
  <2> QED
    BY <2>2, <2>3
<1> QED
  BY <1>1, <1>2, <1>3, <1>4
  DEF Next, Client, handleRequests, Close, ReceiveClosed, ReceiveTimeout, vars, client, session

LEMMA RepliesInit ==
  Init => TurnInv /\ \A s \in Sessions : OkReplies(s) /\ Agreed(s)
<1> SUFFICES ASSUME Init PROVE TurnInv /\ \A s \in Sessions : OkReplies(s) /\ Agreed(s)
  OBVIOUS
<1>1. ASSUME NEW s \in Sessions PROVE Turn(s) /\ OkReplies(s) /\ Agreed(s)
  BY DEF Init, Turn, Idle, CmdKnown, Fresh, OkReplies, Agreed, Setups
<1> QED
  BY <1>1 DEF Init, TurnInv, NonEmptyState, NothingKept

\* What both theorems say, together with what they rest on.
LEMMA RepliesInTurn ==
  ASSUME Alone \/ ReadWhole
  PROVE  Spec => [](TypeOK /\ TurnInv /\ \A s \in Sessions : OkReplies(s) /\ Agreed(s))
<1> DEFINE J == TurnInv /\ \A s \in Sessions : OkReplies(s) /\ Agreed(s)
<1>1. Init => J
  BY RepliesInit
<1>2. TypeOK /\ TypeOK' /\ J /\ [Next]_vars => J'
  BY TurnNext, RepliesNext
<1> QED
  BY <1>1, <1>2, TypeCorrect, PTL DEF Spec

\* Every 200 OK has the method of the request it answers and its CSeq, or 0 when
\* that was written without a space, wherever TCP splits the requests, for a
\* client that waits for each reply and is alone in its process, and for any
\* clients when every request arrives in one read.
THEOREM RepliesMatch ==
  ASSUME Alone \/ ReadWhole
  PROVE  Spec => []OkMatches
<1>1. (\A s \in Sessions : OkReplies(s) /\ Agreed(s)) => OkMatches
  BY DEF OkReplies, OkMatches
<1> QED
  BY <1>1, RepliesInTurn, PTL

\* Under the same conditions a session uses the transport of its last 200 OK to
\* a SETUP, unless the client's last request is a SETUP that was dropped because
\* its CSeq line did not parse, after its Transport line had.
THEOREM TransportIsAgreed ==
  ASSUME Alone \/ ReadWhole
  PROVE  Spec => []TransportAgreed
<1>1. (\A s \in Sessions : OkReplies(s) /\ Agreed(s)) => TransportAgreed
  BY DEF Setups, Agreed, TransportAgreed
<1> QED
  BY <1>1, RepliesInTurn, PTL

-----------------------------------------------------------------------------
(* When every request arrives in one read, the sessions of a process keep  *)
(* the promises of RtspDialogue: each step is a step of it, or none.       *)

AnswerOf(a) == IF a.ok THEN a.cseq ELSE 0
Answers == [s \in Sessions |-> [i \in DOMAIN replies[s] |-> AnswerOf(replies[s][i])]]
Playing == [s \in Sessions |-> streaming[s]]

DialogueInv == TypeOK /\ TurnInv /\ OwnCommand

LEMMA AnswersFact ==
  ASSUME TypeOK, NEW s \in Sessions
  PROVE  /\ Len(Answers[s]) = Len(replies[s]) /\ Len(replies[s]) \in Nat
         /\ Answers[s] \in Seq(0 .. MaxRequests)
<1>1. /\ replies[s] \in Seq(Reply) /\ Len(replies[s]) \in Nat
      /\ DOMAIN replies[s] = 1 .. Len(replies[s])
  BY DEF TypeOK
<1>2. ASSUME NEW i \in 1 .. Len(replies[s])
      PROVE  AnswerOf(replies[s][i]) \in 0 .. MaxRequests
  <2>1. replies[s][i] \in Reply
    BY <1>1
  <2>2. replies[s][i].cseq \in 0 .. MaxRequests
    BY <2>1 DEF Reply
  <2>3. 0 \in 0 .. MaxRequests
    BY ReceiveAssumption
  <2> QED
    BY <2>2, <2>3 DEF AnswerOf
<1>3. Answers[s] = [i \in 1 .. Len(replies[s]) |-> AnswerOf(replies[s][i])]
  BY <1>1 DEF Answers
<1> QED
  BY <1>1, <1>2, <1>3

\* One more reply is one more answer.
LEMMA AppendAnswer ==
  ASSUME TypeOK, NEW s \in Sessions, NEW a \in Reply, Answer(s, a)
  PROVE  Answers' = [Answers EXCEPT ![s] = Append(Answers[s], AnswerOf(a))]
<1>1. /\ replies[s] \in Seq(Reply) /\ Len(replies[s]) \in Nat
      /\ DOMAIN replies[s] = 1 .. Len(replies[s])
      /\ replies' = [replies EXCEPT ![s] = Append(replies[s], a)]
      /\ replies \in [Sessions -> Seq(Reply)]
  BY DEF TypeOK, Answer
<1> DEFINE m == Len(replies[s])
           g == Append(Answers[s], AnswerOf(a))
<1>2. /\ replies'[s] = Append(replies[s], a) /\ DOMAIN replies'[s] = 1 .. m + 1
      /\ replies'[s][m + 1] = a
      /\ \A i \in 1 .. m : replies'[s][i] = replies[s][i]
  BY <1>1
<1>3. /\ DOMAIN g = 1 .. m + 1 /\ g[m + 1] = AnswerOf(a)
      /\ \A i \in 1 .. m : g[i] = AnswerOf(replies[s][i])
      /\ g = [i \in 1 .. m + 1 |-> g[i]]
  <2>1. \A i \in 1 .. m : Answers[s][i] = AnswerOf(replies[s][i])
    BY <1>1 DEF Answers
  <2>2. Answers[s] \in Seq(0 .. MaxRequests) /\ Len(Answers[s]) = m /\ m \in Nat
    BY AnswersFact
  <2>3. AnswerOf(a) \in 0 .. MaxRequests
    BY ReceiveAssumption DEF Reply, AnswerOf
  <2> HIDE DEF m
  <2>4. /\ g \in Seq(0 .. MaxRequests) /\ Len(g) = m + 1 /\ g[m + 1] = AnswerOf(a)
        /\ \A i \in 1 .. m : g[i] = Answers[s][i]
    BY <2>2, <2>3
  <2> HIDE DEF g
  <2>5. DOMAIN g = 1 .. m + 1 /\ g = [i \in 1 .. m + 1 |-> g[i]]
    BY <2>4
  <2> QED
    BY <2>1, <2>4, <2>5
<1>4. [i \in DOMAIN replies'[s] |-> AnswerOf(replies'[s][i])] = g
  <2> HIDE DEF g, m
  <2>1. ASSUME NEW i \in 1 .. m + 1 PROVE AnswerOf(replies'[s][i]) = g[i]
    <3>1. i \in 1 .. m \/ i = m + 1
      BY <1>1 DEF m
    <3> QED
      BY <1>2, <1>3, <3>1
  <2> QED
    BY <1>2, <1>3, <2>1
<1> HIDE DEF g
<1>5. \A t \in Sessions \ {s} : replies'[t] = replies[t]
  BY <1>1
<1> QED
  BY <1>4, <1>5 DEF Answers, g

LEMMA DialogueInit == Init => Dialogue!Init
<1> SUFFICES ASSUME Init PROVE Dialogue!Init
  OBVIOUS
<1>1. Answers = [s \in Sessions |-> <<>>]
  BY DEF Init, Answers
<1>2. Playing = [s \in Sessions |-> FALSE]
  BY DEF Init, Playing
<1> QED
  BY <1>1, <1>2 DEF Init, Dialogue!Init, Answers, AnswerOf, Playing

\* A step of RtspDialogue in the names of this module.
LEMMA DialogueAnswer ==
  ASSUME NEW s \in Sessions, NEW n, NEW m, n = Len(Answers[s]) + 1, m = sent[s][n].method,
         Len(Answers[s]) < Len(sent[s]), phase[s] = "live", m # "TEARDOWN",
         Answers' = [Answers EXCEPT ![s] = Append(Answers[s], IF m \in Known THEN n ELSE 0)],
         Playing' = [Playing EXCEPT ![s] = Playing[s] \/ m = "PLAY"],
         UNCHANGED <<phase, closed, sent>>
  PROVE  Dialogue!Answer(s)
<1>1. Dialogue!Pending(s)
  BY DEF Dialogue!Pending, Answers, AnswerOf
<1> DEFINE as == [t \in Sessions |-> [i \in DOMAIN replies[t] |->
                    IF replies[t][i].ok THEN replies[t][i].cseq ELSE 0]]
           k  == Len(as[s]) + 1
           c  == sent[s][k].method
<1>2. as = Answers /\ as' = Answers' /\ k = n /\ c = m
  BY DEF Answers, AnswerOf
<1>3. as' = [as EXCEPT ![s] = Append(as[s], IF c \in Known THEN k ELSE Dialogue!Refused)]
  <2> HIDE DEF as, k, c
  <2> QED
    BY <1>2 DEF Dialogue!Refused
<1>4. Playing' = [Playing EXCEPT ![s] = Playing[s] \/ c = "PLAY"] /\ c # "TEARDOWN"
  <2> HIDE DEF as, k, c
  <2> QED
    BY <1>2
<1> QED
  BY <1>1, <1>3, <1>4 DEF Dialogue!Answer, Playing

LEMMA DialogueReceive ==
  ASSUME DialogueInv, ReadWhole, NEW s \in Sessions, Receive(s)
  PROVE  Dialogue!Answer(s) \/ Dialogue!End(s)
<1> DEFINE n == Len(sent[s])
           r == sent[s][n]
<1>0. TypeOK /\ TurnInv
  BY DEF DialogueInv
<1>1. PICK res \in ReadSizes(s) :
        ReceivePart(s, res) \/ ReceiveInvalid(s, res) \/ ReceiveRequest(s, res)
  BY DEF Receive
<1> DEFINE buf == Glued(s, res)
<1>2. /\ n = Len(replies[s]) + 1 /\ r \in Requests /\ n \in Nat
      /\ HeaderEnds(buf) /\ NewState(buf) # "Unknown"
      /\ \A across \in BOOLEAN : ParseSucceeds(buf, res, across)
      /\ NewCmd(s, buf) = IF r.method \in Known THEN r.method ELSE "UNKNOWN"
      /\ NewState(buf) = IF r.method \in Known THEN "GotMethod" ELSE "Invalid"
  BY <1>0, WholeFact
<1>3. Len(Answers[s]) = Len(replies[s]) /\ Len(replies[s]) \in Nat
  BY <1>0, AnswersFact
<1>4. Len(Answers[s]) < n /\ Len(Answers[s]) + 1 = n
  BY <1>2, <1>3
<1>5. CASE r.method \notin Known
  <2> DEFINE a == [ok |-> FALSE, method |-> "UNKNOWN", cseq |-> cseq[s]]
  <2>1. ReceiveInvalid(s, res)
    BY <1>1, <1>2, <1>5 DEF ReceivePart, ReceiveRequest
  <2>2. /\ Answer(s, a) /\ phase[s] = "live"
        /\ UNCHANGED <<sent, closed, phase, streaming>>
    BY <2>1 DEF ReceiveInvalid, Consume
  <2>3. a \in Reply /\ AnswerOf(a) = 0
    BY <1>0 DEF Reply, TypeOK, AnswerOf
  <2>4. Answers' = [Answers EXCEPT ![s] = Append(Answers[s], 0)]
    BY <1>0, <2>2, <2>3, AppendAnswer
  <2>5. r.method # "TEARDOWN" /\ r.method # "PLAY"
    BY <1>5 DEF Known
  <2>6. Playing' = [Playing EXCEPT ![s] = Playing[s] \/ r.method = "PLAY"]
    BY <1>0, <2>2, <2>5 DEF Playing, TypeOK
  <2>7. Dialogue!Answer(s)
    BY <1>4, <1>5, <2>2, <2>4, <2>5, <2>6
    DEF Dialogue!Answer, Dialogue!Pending, Dialogue!Refused, Answers, AnswerOf, Playing
  <2> QED
    BY <2>7
<1>6. CASE r.method \in Known
  <2> DEFINE cmd == NewCmd(s, buf)
  <2>1. ReceiveRequest(s, res) /\ cmd = r.method
    BY <1>1, <1>2, <1>6 DEF ReceivePart, ReceiveInvalid
  <2>0. PICK across \in BOOLEAN :
          IF ParseSucceeds(buf, res, across) /\ cmd \in Known \ {"TEARDOWN"}
            THEN Answer(s, [ok |-> TRUE, method |-> cmd,
                            cseq |-> ParsedCSeq(s, buf, res, across)])
            ELSE UNCHANGED replies
    BY <2>1 DEF ReceiveRequest
  <2> DEFINE a == [ok |-> TRUE, method |-> cmd, cseq |-> ParsedCSeq(s, buf, res, across)]
  <2>2. /\ phase[s] = "live" /\ UNCHANGED <<sent, closed>>
        /\ streaming' = [streaming EXCEPT ![s] = streaming[s] \/ r.method = "PLAY"]
        /\ phase' = [phase EXCEPT ![s] = IF r.method = "TEARDOWN" THEN "gone" ELSE phase[s]]
    BY <2>1 DEF ReceiveRequest, Consume
  <2>3. Playing' = [Playing EXCEPT ![s] = Playing[s] \/ r.method = "PLAY"]
    BY <1>0, <2>2 DEF Playing, TypeOK
  <2>4. CASE r.method = "TEARDOWN"
    <3>1. UNCHANGED replies
      BY <2>0, <2>1, <2>4
    <3>2. Answers' = Answers
      BY <3>1 DEF Answers
    <3>3. Playing' = Playing
      BY <1>0, <2>2, <2>4 DEF Playing, TypeOK
    <3>4. phase' = [phase EXCEPT ![s] = "gone"]
      BY <2>2, <2>4
    <3>5. Dialogue!End(s)
      BY <1>4, <2>2, <2>4, <3>2, <3>3, <3>4
      DEF Dialogue!End, Dialogue!Pending, Answers, AnswerOf, Playing
    <3> QED
      BY <3>5
  <2>5. CASE r.method # "TEARDOWN"
    <3>1. Answer(s, a)
      BY <1>2, <1>6, <2>0, <2>1, <2>5
    <3>2. ParsedCSeq(s, buf, res, across) = n
      <4>1. Busy(s)
        <5>1. res \in 1 .. Len(inbox[s])
          BY <1>0, ReadFact
        <5> QED
          BY <1>0, <5>1 DEF TurnInv, Turn, Idle
      <4>2. PICK k \in 0 .. Len(Parts(r)) : Aligned(s, r, n, buf, res, k)
        BY <1>0, <4>1, AlignedFact
      <4>3. Len(buf) = res /\ res \in Nat
        BY <1>0, WholeFact, ReadFact
      <4>4. ~(Len(buf) > res)
        BY <4>3
      <4> QED
        BY <1>0, <1>2, <4>2, <4>4, ParsedFact
    <3>3. a \in Reply /\ AnswerOf(a) = n
      <4>1. /\ buf \in Seq(Part)
            /\ ParsedCSeq(s, buf, res, across) \in 0 .. MaxRequests
        BY <1>0, ReadFact, ParsedCSeqFact
      <4> QED
        BY <1>6, <2>1, <3>2, <4>1 DEF Reply, AnswerOf
    <3>4. Answers' = [Answers EXCEPT ![s] = Append(Answers[s], n)]
      BY <1>0, <3>1, <3>3, AppendAnswer
    <3>5. phase' = phase
      BY <1>0, <2>2, <2>5 DEF TypeOK
    <3>6. Answers' =
            [Answers EXCEPT ![s] = Append(Answers[s], IF r.method \in Known THEN n ELSE 0)]
      BY <1>6, <3>4
    <3>7. Playing' = [Playing EXCEPT ![s] = Playing[s] \/ r.method = "PLAY"]
      BY <2>3
    <3> HIDE DEF n, r
    <3>8. r.method = sent[s][n].method /\ n = Len(Answers[s]) + 1
          /\ Len(Answers[s]) < Len(sent[s])
      BY <1>4 DEF n, r
    <3>9. phase[s] = "live" /\ UNCHANGED <<phase, closed, sent>>
      BY <2>2, <3>5
    <3> QED
      BY <2>5, <3>6, <3>7, <3>8, <3>9, DialogueAnswer
  <2> QED
    BY <2>4, <2>5
<1> QED
  BY <1>5, <1>6

LEMMA DialogueNext ==
  ASSUME DialogueInv, ReadWhole, [Next]_vars
  PROVE  [Dialogue!Next]_(Dialogue!vars)
<1>0. TypeOK /\ TurnInv /\ OwnCommand
  BY DEF DialogueInv
<1>1. CASE UNCHANGED <<sent, closed, phase, replies, streaming>>
  BY <1>1 DEF Dialogue!vars
<1>2. ASSUME NEW s \in Sessions, Connect(s) PROVE Dialogue!Open(s)
  <2>1. sent[s] = <<>>
    BY <1>0, <1>2 DEF Connect, TurnInv, Turn, Fresh
  <2>2. streaming[s] = FALSE
    BY <1>0, <2>1 DEF OwnCommand, TypeOK
  <2>3. streaming' = streaming
    BY <1>0, <1>2, <2>2 DEF Connect, TypeOK
  <2> QED
    BY <1>2, <2>3 DEF Connect, client, Dialogue!Open
<1>3. ASSUME NEW s \in Sessions, NEW r \in Requests, Send(s, r) PROVE Dialogue!Ask(s, r)
  <2>1. /\ UNCHANGED <<closed, phase, streaming, replies>>
        /\ sent' = [sent EXCEPT ![s] = Append(@, r)]
        /\ phase[s] = "live" /\ ~closed[s]
    BY <1>3 DEF Send, session
  <2>2. Len(replies[s]) \in Nat /\ Len(sent[s]) \in Nat /\ Len(Answers[s]) = Len(replies[s])
    BY <1>0, AnswersFact DEF TypeOK
  <2>3. ~(Len(Answers[s]) < Len(sent[s])) /\ Len(sent[s]) < MaxRequests
    BY <1>3, <2>2, ReceiveAssumption DEF Send, Waiting, ReadWhole
  <2>4. Answers' = Answers /\ Playing' = Playing
    BY <2>1 DEF Answers, Playing
  <2> QED
    BY <2>1, <2>3, <2>4
    DEF Dialogue!Ask, Dialogue!Pending, Answers, AnswerOf, Playing
<1>4. ASSUME NEW s \in Sessions, Close(s) PROVE Dialogue!HangUp(s)
  BY <1>4 DEF Close, session, Dialogue!HangUp
<1>5. ASSUME NEW s \in Sessions, ReceiveClosed(s) PROVE Dialogue!End(s)
  BY <1>5 DEF ReceiveClosed, client, Dialogue!End
<1>6. ASSUME NEW s \in Sessions, ReceiveTimeout(s) PROVE UNCHANGED Dialogue!vars
  BY <1>6 DEF ReceiveTimeout, client, session, Dialogue!vars
<1>7. ASSUME NEW s \in Sessions, Receive(s) PROVE Dialogue!Answer(s) \/ Dialogue!End(s)
  BY <1>7, DialogueReceive
<1>8. CASE UNCHANGED vars
  BY <1>1, <1>8 DEF vars, client, session
<1> QED
  BY <1>2, <1>3, <1>4, <1>5, <1>6, <1>7, <1>8
  DEF Next, Client, handleRequests, Dialogue!Next

\* Every step of the sessions is a step of RtspDialogue, or changes nothing
\* that it speaks of: in-order answers, one for each request, refusals of what
\* is not served, and no end that the client did not ask for.
THEOREM ImplementsDialogue ==
  ASSUME ReadWhole
  PROVE  Spec => Dialogue!Init /\ [][Dialogue!Next]_(Dialogue!vars)
<1>1. Init => Dialogue!Init
  BY DialogueInit
<1>2. DialogueInv /\ [Next]_vars => [Dialogue!Next]_(Dialogue!vars)
  BY DialogueNext
<1>3. Spec => []DialogueInv
  <2>1. TypeOK /\ TurnInv /\ OwnCommand => DialogueInv
    BY DEF DialogueInv
  <2>2. Spec => [](TypeOK /\ TurnInv /\ \A s \in Sessions : OkReplies(s) /\ Agreed(s))
    BY RepliesInTurn
  <2> QED
    BY <2>1, <2>2, CommandsAreOwn, PTL
<1> QED
  BY <1>1, <1>2, <1>3, PTL DEF Spec
=============================================================================
