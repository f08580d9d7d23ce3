-------------------------- MODULE RtpDeliveryProofs -------------------------
(***************************************************************************)
(* RtpPacketizer implements the safety part of NalChannel, for any sizes   *)
(* of NAL units, any payload limit and any number of sessions.             *)
(*                                                                         *)
(* What a session was delivered is computed from all packets it was sent.  *)
(* The lemmas say what one more packet adds to it: nothing, until the last *)
(* fragment completes its NAL unit.                                        *)
(***************************************************************************)
EXTENDS RtpDelivery, RtpPacketizerProofs, WellFoundedInduction, NaturalsInduction

\* what packet k of w completes when the NAL units have the sizes z, and what
\* all packets do
Joined(w, z, k) ==
  \A b \in NalHdr + 1 .. z[FirstNal(w[k])] :
    \E i \in ChainOf(w, k) : w[i].payload.from < b /\ b <= w[i].payload.upto

Put(w, z, k) ==
  IF w[k].payload.kind # "fu" THEN w[k].payload.nals
  ELSE IF w[k].payload.end /\ Joined(w, z, k) THEN w[k].payload.nals
  ELSE <<>>

PutAll(w, z) == FlattenSeq([k \in 1 .. Len(w) |-> Put(w, z, k)])

LEMMA DeliveredFact ==
  ASSUME NEW s
  PROVE  Delivered(s) = PutAll(wire[s], sizes) /\ Delivered(s)' = PutAll(wire'[s], sizes')
BY DEF Delivered, PutAll, Put, Joined, CompletedBy, Reassembled

-----------------------------------------------------------------------------
(* FlattenSeq, packet by packet.                                           *)

LEMMA LeastFact ==
  ASSUME NEW S \in SUBSET Nat, S # {}
  PROVE  \E m \in S : \A k \in S : m <= k
<1>1. \E m \in S : \A k \in S : ~(<<k, m>> \in OpToRel(<, Nat))
  BY NatLessThanWellFounded, WFMin, Zenon
<1>2. OpToRel(<, Nat) = {ss \in Nat \X Nat : ss[1] < ss[2]}
  BY DEF OpToRel
<1>3. \A k, m \in Nat : k < m => <<k, m>> \in OpToRel(<, Nat)
  BY <1>2, Zenon
<1>4. \A k, m \in Nat : ~(k < m) => m <= k
  OBVIOUS
<1> QED
  BY <1>1, <1>3, <1>4

Solves(f, v, n) == f = [i \in 1 .. n |-> IF i = 1 THEN v[i] ELSE f[i - 1] \o v[i]]

\* What a solution is at its first index and behind it.
LEMMA SolvedFact ==
  ASSUME NEW f, NEW v, NEW n, Solves(f, v, n), NEW i \in 1 .. n
  PROVE  f[i] = IF i = 1 THEN v[i] ELSE f[i - 1] \o v[i]
<1> DEFINE body(j) == IF j = 1 THEN v[j] ELSE f[j - 1] \o v[j]
<1>1. f = [j \in 1 .. n |-> body(j)]
  BY DEF Solves
<1> HIDE DEF body
<1>2. f[i] = body(i)
  BY <1>1
<1> QED
  BY <1>2 DEF body

LEMMA Solvable ==
  ASSUME NEW v, NEW n \in Nat
  PROVE  \E f : Solves(f, v, n)
<1> DEFINE S == {m \in Nat : ~\E f : Solves(f, v, m)}
<1> SUFFICES ASSUME S # {} PROVE FALSE
  OBVIOUS
<1>1. S \in SUBSET Nat
  OBVIOUS
<1>2. PICK m \in S : \A k \in S : m <= k
  BY <1>1, LeastFact
<1>3. ASSUME NEW f, f = [i \in 1 .. m |-> IF i = 1 THEN v[i] ELSE f[i - 1] \o v[i]] PROVE FALSE
  BY <1>3 DEF Solves
<1>4. CASE m \in {0, 1}
  <2> DEFINE f == [i \in 1 .. m |-> v[i]]
  <2>1. f = [i \in 1 .. m |-> IF i = 1 THEN v[i] ELSE f[i - 1] \o v[i]]
    BY <1>4
  <2> QED
    BY <1>3, <2>1
<1>5. CASE m \notin {0, 1}
  <2>1. m \in Nat /\ m - 1 \in Nat /\ ~(m <= m - 1) /\ m > 1
    BY <1>5
  <2>2. PICK g : Solves(g, v, m - 1)
    BY <1>2, <2>1
  <2> DEFINE f == [i \in 1 .. m |-> IF i < m THEN g[i] ELSE g[m - 1] \o v[m]]
  <2>3. (\A i \in 1 .. m - 1 : f[i] = g[i]) /\ f[m] = g[m - 1] \o v[m]
    <3>1. \A i \in 1 .. m - 1 : i \in 1 .. m /\ i < m
      BY <2>1
    <3>2. m \in 1 .. m /\ ~(m < m)
      BY <2>1
    <3> QED
      BY <3>1, <3>2, Zenon
  <2>4. \A i \in 1 .. m - 1 : g[i] = IF i = 1 THEN v[i] ELSE g[i - 1] \o v[i]
    BY <2>2, SolvedFact
  <2>5. DOMAIN f = 1 .. m /\ f = [i \in 1 .. m |-> f[i]]
    OBVIOUS
  <2> HIDE DEF f
  <2>6. ASSUME NEW i \in 1 .. m
        PROVE  f[i] = IF i = 1 THEN v[i] ELSE f[i - 1] \o v[i]
    <3>1. CASE i = m
      <4>1. i - 1 = m - 1 /\ m - 1 \in 1 .. m - 1 /\ i # 1
        BY <2>1, <3>1
      <4>2. f[m - 1] = g[m - 1]
        BY <2>3, <4>1
      <4> QED
        BY <2>3, <3>1, <4>1, <4>2
    <3>2. CASE i # m
      <4>1. i \in 1 .. m - 1 /\ (i # 1 => i - 1 \in 1 .. m - 1)
        BY <2>1, <3>2
      <4>2. f[i] = g[i] /\ (i # 1 => f[i - 1] = g[i - 1])
        BY <2>3, <4>1
      <4>3. g[i] = IF i = 1 THEN v[i] ELSE g[i - 1] \o v[i]
        BY <2>4, <4>1
      <4> QED
        BY <4>2, <4>3
    <3> QED
      BY <3>1, <3>2
  <2> DEFINE body(i) == IF i = 1 THEN v[i] ELSE f[i - 1] \o v[i]
  <2>7. \A i \in 1 .. m : f[i] = body(i)
    BY <2>6
  <2> HIDE DEF body
  <2>8. f = [i \in 1 .. m |-> body(i)]
    BY <2>5, <2>7
  <2> QED
    BY <1>3, <2>8 DEF body
<1> QED
  BY <1>4, <1>5

LEMMA FlattenFact ==
  ASSUME NEW v, NEW n \in Nat \ {0}, Len(v) = n
  PROVE  \E f : Solves(f, v, n) /\ FlattenSeq(v) = f[n]
<1> DEFINE f == CHOOSE h : h = [i \in 1 .. n |-> IF i = 1 THEN v[i] ELSE h[i - 1] \o v[i]]
<1>1. f = [i \in 1 .. n |-> IF i = 1 THEN v[i] ELSE f[i - 1] \o v[i]]
  <2>1. \E h : h = [i \in 1 .. n |-> IF i = 1 THEN v[i] ELSE h[i - 1] \o v[i]]
    BY Solvable DEF Solves
  <2> QED
    BY <2>1
<1>2. FlattenSeq(v) = f[n]
  BY DEF FlattenSeq
<1> HIDE DEF f
<1> QED
  BY <1>1, <1>2 DEF Solves

LEMMA FlattenAppend ==
  ASSUME NEW v, NEW u, NEW n \in Nat \ {0}, Len(v) = n, Len(u) = n + 1,
         \A i \in 1 .. n : u[i] = v[i]
  PROVE  FlattenSeq(u) = FlattenSeq(v) \o u[n + 1]
<1>0. PICK k \in Nat \ {0} :
        k = n + 1 /\ k \in 1 .. k /\ k - 1 = n /\ k # 1 /\ n \in 1 .. n /\ n \in Nat
  <2>1. n + 1 \in Nat \ {0} /\ n + 1 \in 1 .. n + 1 /\ (n + 1) - 1 = n /\ n + 1 # 1
        /\ n \in 1 .. n /\ n \in Nat
    OBVIOUS
  <2> QED
    BY <2>1
<1>1. PICK f : Solves(f, v, n) /\ FlattenSeq(v) = f[n]
  BY FlattenFact
<1>2. PICK g : Solves(g, u, k) /\ FlattenSeq(u) = g[k]
  BY <1>0, FlattenFact
<1>3. ASSUME NEW i \in 1 .. n, i # 1 => f[i - 1] = g[i - 1]
      PROVE  f[i] = g[i]
  <2>1. i \in 1 .. k
    BY <1>0
  <2>2. f[i] = IF i = 1 THEN v[i] ELSE f[i - 1] \o v[i]
    BY <1>1, SolvedFact
  <2>3. g[i] = IF i = 1 THEN u[i] ELSE g[i - 1] \o u[i]
    BY <1>2, <2>1, SolvedFact
  <2>4. u[i] = v[i]
    OBVIOUS
  <2> QED
    BY <1>3, <2>2, <2>3, <2>4, Zenon
<1>4. f[n] = g[n]
  <2> DEFINE S == {i \in 1 .. n : f[i] # g[i]}
  <2> SUFFICES ASSUME S # {} PROVE FALSE
    BY <1>0
  <2>1. S \in SUBSET Nat
    OBVIOUS
  <2>2. PICK m \in S : \A j \in S : m <= j
    BY <2>1, LeastFact
  <2>3. m \in 1 .. n /\ f[m] # g[m]
    BY <2>2
  <2>4. m # 1 => m - 1 \in 1 .. n /\ ~(m <= m - 1)
    BY <2>3
  <2>5. m # 1 => f[m - 1] = g[m - 1]
    BY <2>2, <2>4
  <2> QED
    BY <1>3, <2>3, <2>5
<1>5. g[k] = g[n] \o u[k]
  <2>1. ASSUME NEW i \in 1 .. k PROVE g[i] = IF i = 1 THEN u[i] ELSE g[i - 1] \o u[i]
    BY <1>2, SolvedFact
  <2>2. g[k] = IF k = 1 THEN u[k] ELSE g[k - 1] \o u[k]
    BY <1>0, <2>1
  <2> QED
    BY <1>0, <2>2
<1> QED
  BY <1>0, <1>1, <1>2, <1>4, <1>5

LEMMA FlattenOne ==
  ASSUME NEW u, Len(u) = 1
  PROVE  FlattenSeq(u) = u[1]
<1>1. 1 \in Nat \ {0}
  OBVIOUS
<1>2. PICK f : Solves(f, u, 1) /\ FlattenSeq(u) = f[1]
  BY <1>1, FlattenFact
<1>3. 1 \in 1 .. 1
  OBVIOUS
<1>4. f[1] = u[1]
  BY <1>2, <1>3, SolvedFact
<1> QED
  BY <1>2, <1>4

-----------------------------------------------------------------------------
(* What one more packet, or one more NAL unit handed over, changes.        *)

LEMMA PutAppend ==
  ASSUME NEW w \in Seq(Packet), NEW q \in Packet, NEW z, NEW k \in 1 .. Len(w)
  PROVE  Put(Append(w, q), z, k) = Put(w, z, k)
<1> DEFINE v == Append(w, q)
<1>1. \A i \in 1 .. Len(w) : v[i] = w[i]
  OBVIOUS
<1>2. \A i \in 1 .. k : i \in 1 .. Len(w)
  OBVIOUS
<1> HIDE DEF v
<1>3. v[k] = w[k] /\ ChainOf(v, k) = ChainOf(w, k)
  BY <1>1, <1>2 DEF ChainOf
<1>4. \A i \in ChainOf(w, k) : v[i] = w[i]
  BY <1>1, <1>2 DEF ChainOf
<1>5. Joined(v, z, k) <=> Joined(w, z, k)
  BY <1>3, <1>4 DEF Joined, FirstNal
<1>6. Put(v, z, k) = Put(w, z, k)
  BY <1>3, <1>5 DEF Put
<1> QED
  BY <1>6 DEF v

LEMMA PutType ==
  ASSUME NEW w \in Seq(Packet), NEW z, NEW k \in 1 .. Len(w)
  PROVE  Put(w, z, k) \in Seq(Nal)
<1>1. w[k].payload.nals \in Seq(Nal)
  <2>1. w[k] \in Packet
    OBVIOUS
  <2>2. w[k].payload \in Payload
    BY <2>1 DEF Packet
  <2> QED
    BY <2>2 DEF Payload
<1>2. <<>> \in Seq(Nal)
  OBVIOUS
<1> QED
  BY <1>1, <1>2 DEF Put

LEMMA PutAllAppend ==
  ASSUME NEW w \in Seq(Packet), NEW q \in Packet, NEW z
  PROVE  PutAll(Append(w, q), z) = PutAll(w, z) \o Put(Append(w, q), z, Len(w) + 1)
<1> DEFINE x == Append(w, q)
           n == Len(w)
           v == [k \in 1 .. n |-> Put(w, z, k)]
           u == [k \in 1 .. n + 1 |-> Put(x, z, k)]
<1>1. x \in Seq(Packet) /\ Len(x) = n + 1 /\ n \in Nat /\ n + 1 \in 1 .. n + 1
  OBVIOUS
<1>2. \A k \in 1 .. n : Put(x, z, k) = Put(w, z, k)
  BY PutAppend
<1>3. Put(x, z, n + 1) \in Seq(Nal)
  BY <1>1, PutType
<1> HIDE DEF x, n
<1>4. PutAll(x, z) = FlattenSeq(u) /\ PutAll(w, z) = FlattenSeq(v)
  BY <1>1 DEF PutAll, n
<1>5. Len(u) = n + 1 /\ Len(v) = n /\ u[n + 1] = Put(x, z, n + 1)
      /\ \A i \in 1 .. n : u[i] = v[i]
  BY <1>1, <1>2
<1>6. CASE n = 0
  <2>1. v = <<>>
    BY <1>6
  <2>2. FlattenSeq(v) = <<>>
    BY <1>5, <1>6, <2>1 DEF FlattenSeq
  <2>3. Len(u) = 1 /\ u[1] = Put(x, z, n + 1)
    BY <1>5, <1>6
  <2> HIDE DEF u, v
  <2>4. FlattenSeq(u) = Put(x, z, n + 1)
    BY <2>3, FlattenOne
  <2>5. <<>> \o Put(x, z, n + 1) = Put(x, z, n + 1)
    BY <1>3
  <2> QED
    BY <1>4, <2>2, <2>4, <2>5 DEF x, n
<1>7. CASE n # 0
  <2>1. n \in Nat \ {0}
    BY <1>1, <1>7
  <2> HIDE DEF u, v
  <2>2. FlattenSeq(u) = FlattenSeq(v) \o u[n + 1]
    BY <1>5, <2>1, FlattenAppend
  <2> QED
    BY <1>4, <1>5, <2>2 DEF x, n
<1> QED
  BY <1>6, <1>7

\* The sizes of the NAL units of fragments do not change when one is added.
LEMMA PutAllLonger ==
  ASSUME NEW w \in Seq(Packet), NEW z, NEW y,
         \A k \in 1 .. Len(w) :
           w[k].payload.kind = "fu" => y[FirstNal(w[k])] = z[FirstNal(w[k])]
  PROVE  PutAll(w, y) = PutAll(w, z)
<1>1. ASSUME NEW k \in 1 .. Len(w) PROVE Put(w, y, k) = Put(w, z, k)
  <2>1. w[k].payload.kind = "fu" => (Joined(w, y, k) <=> Joined(w, z, k))
    BY DEF Joined
  <2> QED
    BY <2>1 DEF Put
<1>2. [k \in 1 .. Len(w) |-> Put(w, y, k)] = [k \in 1 .. Len(w) |-> Put(w, z, k)]
  BY <1>1
<1> QED
  BY <1>2 DEF PutAll

LEMMA FlattenType ==
  ASSUME NEW T, NEW v, NEW n \in Nat, v \in [1 .. n -> Seq(T)]
  PROVE  FlattenSeq(v) \in Seq(T)
<1>0. v \in Seq(Seq(T)) /\ Len(v) = n
  OBVIOUS
<1>1. CASE n = 0
  <2>1. v = <<>>
    BY <1>0, <1>1
  <2>2. FlattenSeq(v) = <<>>
    BY <2>1 DEF FlattenSeq
  <2> QED
    BY <2>2
<1>2. CASE n # 0
  <2>0. n \in Nat \ {0} /\ n \in 1 .. n
    BY <1>2
  <2>1. PICK f : Solves(f, v, n) /\ FlattenSeq(v) = f[n]
    BY <1>0, <2>0, FlattenFact
  <2>2. ASSUME NEW i \in 1 .. n, i # 1 => f[i - 1] \in Seq(T)
        PROVE  f[i] \in Seq(T)
    <3>1. f[i] = IF i = 1 THEN v[i] ELSE f[i - 1] \o v[i]
      BY <2>1, SolvedFact
    <3>2. v[i] \in Seq(T)
      OBVIOUS
    <3>3. i # 1 => f[i - 1] \o v[i] \in Seq(T)
      BY <2>2, <3>2
    <3> QED
      BY <3>1, <3>2, <3>3
  <2>3. f[n] \in Seq(T)
    <3> DEFINE S == {i \in 1 .. n : f[i] \notin Seq(T)}
    <3> SUFFICES ASSUME S # {} PROVE FALSE
      BY <2>0
    <3>1. S \in SUBSET Nat
      OBVIOUS
    <3>2. PICK m \in S : \A k \in S : m <= k
      BY <3>1, LeastFact
    <3>3. m \in 1 .. n /\ f[m] \notin Seq(T)
      BY <3>2
    <3>4. m # 1 => m - 1 \in 1 .. n /\ ~(m <= m - 1)
      BY <3>3
    <3>5. m # 1 => f[m - 1] \in Seq(T)
      BY <3>2, <3>4
    <3> QED
      BY <2>2, <3>3, <3>5
  <2> QED
    BY <2>1, <2>3
<1> QED
  BY <1>1, <1>2

LEMMA PutAllType ==
  ASSUME NEW w \in Seq(Packet), NEW z
  PROVE  PutAll(w, z) \in Seq(Nal)
<1> DEFINE v == [k \in 1 .. Len(w) |-> Put(w, z, k)]
<1>1. v \in [1 .. Len(w) -> Seq(Nal)] /\ Len(w) \in Nat
  BY PutType
<1> HIDE DEF v
<1>2. FlattenSeq(v) \in Seq(Nal)
  BY <1>1, FlattenType
<1> QED
  BY <1>2 DEF PutAll, v

-----------------------------------------------------------------------------
(* What the steps hand to the sessions.                                    *)

\* Bytes NalHdr + 1 to o of NAL unit n are in the fragments of w.
Covered(w, n, o) ==
  \A b \in NalHdr + 1 .. o :
    \E i \in 1 .. Len(w) : /\ w[i].payload.kind = "fu" /\ w[i].payload.nals = <<n>>
                           /\ w[i].payload.from < b /\ b <= w[i].payload.upto

\* A session that streams has all that was sent of the current NAL unit.
CoverInv ==
  stage = "fragment" => \A s \in streaming : Covered(wire[s], Current, offset)

\* What a payload completes at the session that it is sent to.
Completes(payload, len, c) ==
  \A s \in streaming :
    Put(Append(wire[s], PacketOf(payload, len)), sizes, Len(wire[s]) + 1) = c

\* The streaming sessions are given c, and the others nothing.
Gives(c) ==
  \A s \in Sessions :
    /\ s \in streaming => Delivered(s)' = Delivered(s) \o c
    /\ s \notin streaming => Delivered(s)' = Delivered(s)

LEMMA DeliveredType ==
  ASSUME TypeInv, NEW s \in Sessions
  PROVE  Delivered(s) \in Seq(Nal)
BY PutAllType, DeliveredFact DEF TypeInv, TypeOK

LEMMA SendGives ==
  ASSUME TypeInv, NEW payload \in Payload, NEW len \in Nat, rtpSendData(payload, len),
         sizes' = sizes, NEW c, Completes(payload, len, c)
  PROVE  Gives(c)
<1>1. PacketOf(payload, len) \in Packet /\ streaming \subseteq Sessions
  BY SendType DEF TypeInv, TypeOK
<1>2. ASSUME NEW s \in Sessions
      PROVE  /\ s \in streaming => Delivered(s)' = Delivered(s) \o c
             /\ s \notin streaming => Delivered(s)' = Delivered(s)
  <2>1. Delivered(s) = PutAll(wire[s], sizes) /\ Delivered(s)' = PutAll(wire'[s], sizes)
    BY DeliveredFact
  <2>2. wire[s] \in Seq(Packet)
    BY DEF TypeInv, TypeOK
  <2>3. /\ s \in streaming => wire'[s] = Append(wire[s], PacketOf(payload, len))
        /\ s \notin streaming => wire'[s] = wire[s]
    BY SentFact
  <2>4. s \in streaming =>
          PutAll(Append(wire[s], PacketOf(payload, len)), sizes) = PutAll(wire[s], sizes) \o c
    BY <1>1, <2>2, PutAllAppend DEF Completes
  <2> QED
    BY <2>1, <2>3, <2>4
<1> QED
  BY <1>2 DEF Gives

\* Nothing is given to anyone when nothing is sent, whatever is handed over.
LEMMA QuietGives ==
  ASSUME TypeInv, FlagsInv, wire' = wire,
         sizes' = sizes \/ \E size \in NalSizes : sizes' = Append(sizes, size),
         NEW s \in Sessions
  PROVE  Delivered(s)' = Delivered(s)
<1>1. Delivered(s) = PutAll(wire[s], sizes) /\ Delivered(s)' = PutAll(wire[s], sizes')
  BY DeliveredFact
<1>2. CASE sizes' = sizes
  BY <1>1, <1>2
<1>3. CASE \E size \in NalSizes : sizes' = Append(sizes, size)
  <2>1. wire[s] \in Seq(Packet) /\ sizes \in Seq(NalSizes)
    BY DEF TypeInv, TypeOK
  <2>2. \A n \in 1 .. Len(sizes) : sizes'[n] = sizes[n]
    BY <1>3, <2>1
  <2>3. \A k \in 1 .. Len(wire[s]) :
          wire[s][k].payload.kind = "fu" => FirstNal(wire[s][k]) \in 1 .. Len(sizes)
    BY DEF FlagsInv, GoodFragment, FirstNal
  <2>4. \A k \in 1 .. Len(wire[s]) :
          wire[s][k].payload.kind = "fu" =>
            sizes'[FirstNal(wire[s][k])] = sizes[FirstNal(wire[s][k])]
    BY <2>2, <2>3
  <2>5. PutAll(wire[s], sizes') = PutAll(wire[s], sizes)
    BY <2>1, <2>4, PutAllLonger
  <2> QED
    BY <1>1, <2>5
<1> QED
  BY <1>2, <1>3

\* The last packet of a session that was sent one more.
LEMMA LastPacket ==
  ASSUME TypeInv, NEW payload \in Payload, NEW len \in Nat, rtpSendData(payload, len),
         NEW s \in streaming
  PROVE  /\ wire[s] \in Seq(Packet) /\ PacketOf(payload, len) \in Packet
         /\ PacketOf(payload, len).payload = payload
         /\ Len(Append(wire[s], PacketOf(payload, len))) = Len(wire[s]) + 1
         /\ Append(wire[s], PacketOf(payload, len))[Len(wire[s]) + 1] = PacketOf(payload, len)
         /\ \A i \in 1 .. Len(wire[s]) :
              Append(wire[s], PacketOf(payload, len))[i] = wire[s][i]
<1>1. wire[s] \in Seq(Packet) /\ PacketOf(payload, len) \in Packet
  BY SendType DEF TypeInv, TypeOK
<1>2. PICK q \in Packet : q = PacketOf(payload, len)
  BY <1>1
<1>3. /\ Len(Append(wire[s], q)) = Len(wire[s]) + 1
      /\ Append(wire[s], q)[Len(wire[s]) + 1] = q
      /\ \A i \in 1 .. Len(wire[s]) : Append(wire[s], q)[i] = wire[s][i]
  BY <1>1
<1>4. PacketOf(payload, len).payload = payload
  BY DEF PacketOf
<1> QED
  BY <1>1, <1>2, <1>3, <1>4

LEMMA WholeCompletes ==
  ASSUME TypeInv, NEW kind \in {"single", "ap"}, NEW nals, NEW len \in Nat,
         Whole(kind, nals) \in Payload, rtpSendData(Whole(kind, nals), len)
  PROVE  Completes(Whole(kind, nals), len, nals)
<1>1. Whole(kind, nals).kind # "fu" /\ Whole(kind, nals).nals = nals
  BY DEF Whole
<1>2. PICK f \in Payload : f = Whole(kind, nals)
  OBVIOUS
<1>3. ASSUME NEW s \in streaming
      PROVE  Put(Append(wire[s], PacketOf(f, len)), sizes, Len(wire[s]) + 1) = nals
  <2>1. Append(wire[s], PacketOf(f, len))[Len(wire[s]) + 1].payload = f
    BY <1>2, LastPacket
  <2> QED
    BY <1>1, <1>2, <2>1 DEF Put
<1> QED
  BY <1>2, <1>3 DEF Completes

LEMMA FragmentCompletes ==
  ASSUME TypeInv, NEW from, NEW upto, NEW len \in Nat,
         Fragment(from, upto, FALSE) \in Payload,
         rtpSendData(Fragment(from, upto, FALSE), len)
  PROVE  Completes(Fragment(from, upto, FALSE), len, <<>>)
<1>1. Fragment(from, upto, FALSE).kind = "fu" /\ Fragment(from, upto, FALSE).end = FALSE
  BY DEF Fragment
<1>2. PICK f \in Payload : f = Fragment(from, upto, FALSE)
  OBVIOUS
<1>3. ASSUME NEW s \in streaming
      PROVE  Put(Append(wire[s], PacketOf(f, len)), sizes, Len(wire[s]) + 1) = <<>>
  <2>1. Append(wire[s], PacketOf(f, len))[Len(wire[s]) + 1].payload = f
    BY <1>2, LastPacket
  <2> QED
    BY <1>1, <1>2, <2>1 DEF Put
<1> QED
  BY <1>2, <1>3 DEF Completes

\* The bytes a fragment adds to those that are covered.
LEMMA CoverMore ==
  ASSUME TypeInv, CoverInv, stage = "fragment", NEW upto \in Nat, NEW end \in BOOLEAN,
         NEW len \in Nat, Fragment(offset, upto, end) \in Payload,
         rtpSendData(Fragment(offset, upto, end), len), NEW s \in streaming
  PROVE  Covered(Append(wire[s], PacketOf(Fragment(offset, upto, end), len)), Current, upto)
<1>1. PICK f \in Payload : f = Fragment(offset, upto, end)
  OBVIOUS
<1>2. f.kind = "fu" /\ f.nals = <<Current>> /\ f.from = offset /\ f.upto = upto
  BY <1>1 DEF Fragment
<1> DEFINE v == Append(wire[s], PacketOf(f, len))
<1>3. /\ Len(wire[s]) \in Nat /\ Len(v) = Len(wire[s]) + 1
      /\ v[Len(wire[s]) + 1].payload = f
      /\ \A i \in 1 .. Len(wire[s]) : v[i] = wire[s][i]
  BY <1>1, LastPacket
<1> HIDE DEF v
<1>4. Covered(wire[s], Current, offset) /\ offset \in Nat
  BY DEF CoverInv, TypeInv, TypeOK
<1>5. ASSUME NEW b \in NalHdr + 1 .. upto
      PROVE  \E i \in 1 .. Len(v) :
               /\ v[i].payload.kind = "fu" /\ v[i].payload.nals = <<Current>>
               /\ v[i].payload.from < b /\ b <= v[i].payload.upto
  <2>0. b \in Int /\ NalHdr + 1 <= b /\ b <= upto
    BY Constants
  <2>1. CASE b <= offset
    <3>1. b \in NalHdr + 1 .. offset
      BY <1>4, <2>0, <2>1, Constants
    <3>2. PICK i \in 1 .. Len(wire[s]) :
            /\ wire[s][i].payload.kind = "fu" /\ wire[s][i].payload.nals = <<Current>>
            /\ wire[s][i].payload.from < b /\ b <= wire[s][i].payload.upto
      BY <1>4, <3>1 DEF Covered
    <3>3. i \in 1 .. Len(v) /\ v[i] = wire[s][i]
      BY <1>3
    <3> QED
      BY <3>2, <3>3
  <2>2. CASE ~(b <= offset)
    <3>1. offset < b
      BY <1>4, <2>0, <2>2
    <3>2. Len(wire[s]) + 1 \in 1 .. Len(v)
      BY <1>3
    <3> QED
      BY <1>2, <1>3, <2>0, <3>1, <3>2
  <2> QED
    BY <2>1, <2>2
<1> QED
  BY <1>1, <1>5 DEF Covered, v

LEMMA LastFragmentCompletes ==
  ASSUME TypeInv, CoverInv, stage = "fragment", NEW len \in Nat,
         Fragment(offset, Size, TRUE) \in Payload,
         rtpSendData(Fragment(offset, Size, TRUE), len)
  PROVE  Completes(Fragment(offset, Size, TRUE), len, <<Current>>)
<1>1. PICK f \in Payload : f = Fragment(offset, Size, TRUE)
  OBVIOUS
<1>2. f.kind = "fu" /\ f.nals = <<Current>> /\ f.end
  BY <1>1 DEF Fragment
<1>3. ASSUME NEW s \in streaming
      PROVE  Put(Append(wire[s], PacketOf(f, len)), sizes, Len(wire[s]) + 1) = <<Current>>
  <2> DEFINE v == Append(wire[s], PacketOf(f, len))
             k == Len(wire[s]) + 1
  <2>1. k \in Nat /\ Len(v) = k /\ v[k].payload = f
    <3>1. rtpSendData(f, len)
      BY <1>1
    <3>2. wire[s] \in Seq(Packet) /\ Len(v) = k /\ v[k].payload = f
      BY <3>1, LastPacket
    <3>3. k \in Nat
      BY <3>2
    <3> QED
      BY <3>2, <3>3
  <2>2. Covered(v, Current, Size)
    <3>1. Size \in Nat
      BY CurrentFact
    <3> QED
      BY <1>1, <3>1, CoverMore
  <2> HIDE DEF v, k
  <2>3. FirstNal(v[k]) = Current /\ sizes[Current] = Size
    BY <1>2, <2>1 DEF FirstNal, Size
  <2>4. Joined(v, sizes, k)
    <3>1. ASSUME NEW b \in NalHdr + 1 .. Size
          PROVE  \E i \in ChainOf(v, k) : v[i].payload.from < b /\ b <= v[i].payload.upto
      <4>1. PICK i \in 1 .. Len(v) :
              /\ v[i].payload.kind = "fu" /\ v[i].payload.nals = <<Current>>
              /\ v[i].payload.from < b /\ b <= v[i].payload.upto
        BY <2>2 DEF Covered
      <4>2. i \in ChainOf(v, k)
        BY <1>2, <2>1, <4>1 DEF ChainOf
      <4> QED
        BY <4>1, <4>2
    <3> QED
      BY <2>3, <3>1 DEF Joined
  <2>5. Put(v, sizes, k) = <<Current>>
    BY <1>2, <2>1, <2>4 DEF Put
  <2> QED
    BY <2>5 DEF v, k
<1> QED
  BY <1>1, <1>3 DEF Completes

LEMMA StepCover == CoverInv /\ TypeInv /\ [Next]_vars => CoverInv'
<1> SUFFICES ASSUME CoverInv, TypeInv, [Next]_vars, stage' = "fragment",
                    NEW s \in streaming'
             PROVE  Covered(wire'[s], Current', offset')
  BY DEF CoverInv, Covered
<1>1. UNCHANGED vars \/ BeginFragments \/ SendFragment
  BY DEF Next, rtpSendNALH265, Submit, Play, Stop, FlushBuffer, Aggregate, AggregateLast,
         SendSingle, SendLastFragment, Return
<1>2. CASE UNCHANGED vars
  <2>1. stage = "fragment" /\ UNCHANGED <<wire, sizes, offset, streaming>>
    BY <1>2 DEF vars, context
  <2>2. Current' = Current /\ Covered(wire[s], Current, offset)
    BY <2>1 DEF Current, CoverInv
  <2> QED
    BY <2>1, <2>2
<1>3. CASE BeginFragments
  <2>1. offset' = NalHdr /\ NalHdr \in Nat
    BY <1>3, Constants DEF BeginFragments
  <2>2. NalHdr + 1 .. offset' = {}
    BY <2>1
  <2> QED
    BY <2>2 DEF Covered
<1>4. CASE SendFragment
  <2> DEFINE upto == offset + MaxPayload - FuHdr
  <2>1. /\ stage = "fragment" /\ sizes' = sizes /\ offset' = upto /\ streaming' = streaming
        /\ rtpSendData(Fragment(offset, upto, FALSE), MaxPayload)
    BY <1>4 DEF SendFragment
  <2>2. offset \in Nat /\ upto \in Nat /\ MaxPayload \in Nat
    BY Constants DEF TypeInv, TypeOK
  <2> HIDE DEF upto
  <2>3. \A from, to \in Nat, end \in BOOLEAN : Fragment(from, to, end) \in Payload
    BY <2>1, PayloadTypes
  <2>4. Fragment(offset, upto, FALSE) \in Payload
    BY <2>2, <2>3
  <2>5. wire'[s] = Append(wire[s], PacketOf(Fragment(offset, upto, FALSE), MaxPayload))
    BY <2>1, <2>2, <2>4, SentFact DEF TypeInv, TypeOK
  <2>6. Covered(wire'[s], Current, upto)
    BY <2>1, <2>2, <2>4, <2>5, CoverMore
  <2> QED
    BY <2>1, <2>6 DEF Current
<1> QED
  BY <1>1, <1>2, <1>3, <1>4

-----------------------------------------------------------------------------
(* The refinement, step by step.                                           *)

Pending == IF stage = "idle" THEN queued ELSE Append(queued, Current)
Given   == [s \in Sessions |-> Delivered(s)]
Refined == [Channel!Next]_(Channel!vars)

LEMMA GivenFact ==
  /\ (\A s \in Sessions : Delivered(s)' = Delivered(s)) => Given' = Given
  /\ \A c : Gives(c) =>
       Given' = [s \in Sessions |-> IF s \in streaming THEN Given[s] \o c ELSE Given[s]]
BY DEF Given, Gives

LEMMA ChannelFact ==
  /\ Current < MaxNals /\ Current' = Current + 1 /\ Pending' = Append(Pending, Current + 1)
       /\ streaming' = streaming /\ Given' = Given => Channel!Next
  /\ \A n \in 1 .. MaxNals :
       n \in 1 .. Len(Pending) /\ Pending' = SubSeq(Pending, n + 1, Len(Pending))
         /\ Given' = [s \in Sessions |-> IF s \in streaming
                                           THEN Given[s] \o SubSeq(Pending, 1, n) ELSE Given[s]]
         /\ Current' = Current /\ streaming' = streaming => Channel!Next
  /\ \A s \in Sessions :
       s \notin streaming /\ Given[s] = <<>> /\ streaming' = streaming \cup {s}
         /\ Current' = Current /\ Pending' = Pending /\ Given' = Given => Channel!Next
  /\ \A s \in Sessions :
       s \in streaming /\ streaming' = streaming \ {s}
         /\ Current' = Current /\ Pending' = Pending /\ Given' = Given => Channel!Next
  /\ Current' = Current /\ Pending' = Pending /\ Given' = Given /\ streaming' = streaming
       => UNCHANGED Channel!vars
<1>1. ASSUME Current < MaxNals, Current' = Current + 1, Pending' = Append(Pending, Current + 1),
             streaming' = streaming, Given' = Given
      PROVE  Channel!Next
  BY <1>1 DEF Channel!Next, Channel!Submit, Pending, Given
<1>2. ASSUME NEW n \in 1 .. MaxNals, n \in 1 .. Len(Pending),
             Pending' = SubSeq(Pending, n + 1, Len(Pending)),
             Given' = [s \in Sessions |-> IF s \in streaming
                                            THEN Given[s] \o SubSeq(Pending, 1, n) ELSE Given[s]],
             Current' = Current, streaming' = streaming
      PROVE  Channel!Next
  <2>1. Channel!Deliver(n)
    BY <1>2 DEF Channel!Deliver, Pending, Given
  <2> QED
    BY <2>1 DEF Channel!Next, Channel!DeliverSome
<1>3. ASSUME NEW s \in Sessions, s \notin streaming, Given[s] = <<>>,
             streaming' = streaming \cup {s},
             Current' = Current, Pending' = Pending, Given' = Given
      PROVE  Channel!Next
  BY <1>3 DEF Channel!Next, Channel!Play, Pending, Given
<1>4. ASSUME NEW s \in Sessions, s \in streaming, streaming' = streaming \ {s},
             Current' = Current, Pending' = Pending, Given' = Given
      PROVE  Channel!Next
  BY <1>4 DEF Channel!Next, Channel!Stop, Pending, Given
<1>5. ASSUME Current' = Current, Pending' = Pending, Given' = Given, streaming' = streaming
      PROVE  UNCHANGED Channel!vars
  BY <1>5 DEF Channel!vars, Pending, Given
<1> QED
  BY <1>1, <1>2, <1>3, <1>4, <1>5

LEMMA JoinFact ==
  ASSUME NEW c \in Seq(Nal), NEW r \in Seq(Nal)
  PROVE  /\ c \o r \in Seq(Nal) /\ Len(c \o r) = Len(c) + Len(r)
         /\ SubSeq(c \o r, 1, Len(c)) = c
         /\ SubSeq(c \o r, Len(c) + 1, Len(c \o r)) = r
<1>1. Len(c) \in Nat /\ Len(r) \in Nat
  OBVIOUS
<1>2. /\ c \o r \in Seq(Nal) /\ Len(c \o r) = Len(c) + Len(r)
      /\ \A i \in 1 .. Len(c) + Len(r) :
           (c \o r)[i] = IF i <= Len(c) THEN c[i] ELSE r[i - Len(c)]
  OBVIOUS
<1>3. \A q \in Seq(Nal) : q = [i \in 1 .. Len(q) |-> q[i]]
  OBVIOUS
<1>4. SubSeq(c \o r, 1, Len(c)) = [i \in 1 .. Len(c) |-> c[i]]
  <2>1. SubSeq(c \o r, 1, Len(c)) = [i \in 1 .. Len(c) |-> (c \o r)[i]]
    BY <1>1, <1>2
  <2>2. \A i \in 1 .. Len(c) : (c \o r)[i] = c[i]
    BY <1>1, <1>2
  <2> QED
    BY <2>1, <2>2
<1>5. SubSeq(c \o r, Len(c) + 1, Len(c \o r)) = [i \in 1 .. Len(r) |-> r[i]]
  <2> DEFINE d == SubSeq(c \o r, Len(c) + 1, Len(c \o r))
  <2>1. d \in Seq(Nal) /\ Len(d) = Len(r)
        /\ \A i \in 1 .. Len(r) : d[i] = (c \o r)[Len(c) + i]
    BY <1>1, <1>2
  <2>2. \A i \in 1 .. Len(r) : (c \o r)[Len(c) + i] = r[i]
    <3>1. ASSUME NEW i \in 1 .. Len(r) PROVE (c \o r)[Len(c) + i] = r[i]
      <4>1. Len(c) + i \in 1 .. Len(c) + Len(r) /\ ~(Len(c) + i <= Len(c))
            /\ (Len(c) + i) - Len(c) = i
        BY <1>1
      <4> QED
        BY <1>2, <4>1
    <3> QED
      BY <3>1
  <2> HIDE DEF d
  <2>3. d = [i \in 1 .. Len(d) |-> d[i]]
    BY <1>3, <2>1
  <2>4. \A i \in 1 .. Len(r) : d[i] = r[i]
    BY <2>1, <2>2
  <2>5. d = [i \in 1 .. Len(r) |-> r[i]]
    BY <2>1, <2>3, <2>4
  <2> QED
    BY <2>5 DEF d
<1> QED
  BY <1>2, <1>3, <1>4, <1>5

\* What is in buf and the current NAL unit are no more than was handed over.
LEMMA RoomFact ==
  ASSUME TypeInv, QueueInv, stage # "idle"
  PROVE  Len(Append(queued, Current)) \in 0 .. MaxNals
<1>1. /\ queued \in Seq(Nal) /\ Len(queued) \in Nat /\ Current \in Nal /\ MaxNals \in Nat
      /\ Before = Current - 1
  BY CurrentFact, Constants DEF TypeInv, TypeOK, Before
<1>2. Len(queued) <= Before
  <2>1. CASE queued = <<>>
    BY <1>1, <2>1 DEF Nal
  <2>2. CASE queued # <<>>
    <3>1. queued[1] \in Nal /\ queued[1] = Before - Len(queued) + 1
      BY <1>1, <2>2 DEF QueueInv
    <3> QED
      BY <1>1, <3>1 DEF Nal
  <2> QED
    BY <2>1, <2>2
<1>3. Len(Append(queued, Current)) = Len(queued) + 1
  BY <1>1
<1> QED
  BY <1>1, <1>2, <1>3 DEF Nal

\* A step that gives the sessions the first of the NAL units that wait.
LEMMA GivesRefined ==
  ASSUME TypeInv, QueueInv, stage # "idle", UNCHANGED <<sizes, streaming>>,
         NEW c \in Seq(Nal), NEW r \in Seq(Nal), c # <<>>, Gives(c),
         Append(queued, Current) = c \o r, Pending' = r
  PROVE  Refined
<1>1. Pending = c \o r /\ Current' = Current
  BY DEF Pending, Current
<1>2. PICK n \in Nat : n = Len(c) /\ n > 0
  OBVIOUS
<1>3. Len(c \o r) = n + Len(r) /\ Len(r) \in Nat
      /\ SubSeq(c \o r, 1, n) = c /\ SubSeq(c \o r, n + 1, Len(c \o r)) = r
  BY <1>2, JoinFact
<1>4. Len(c \o r) \in 0 .. MaxNals
  BY RoomFact
<1>5. n \in 1 .. MaxNals /\ n \in 1 .. Len(Pending)
  BY <1>1, <1>2, <1>3, <1>4, Constants
<1>6. Given' = [s \in Sessions |-> IF s \in streaming
                                     THEN Given[s] \o SubSeq(Pending, 1, n) ELSE Given[s]]
  BY <1>1, <1>3, GivenFact
<1>7. Pending' = SubSeq(Pending, n + 1, Len(Pending))
  BY <1>1, <1>3
<1> QED
  BY <1>1, <1>5, <1>6, <1>7, ChannelFact DEF Refined

\* A step that gives nobody anything and leaves what waits.
LEMMA StutterRefined ==
  ASSUME UNCHANGED <<sizes, streaming>>, Pending' = Pending,
         \A s \in Sessions : Delivered(s)' = Delivered(s)
  PROVE  Refined
<1>1. Given' = Given /\ Current' = Current
  BY GivenFact DEF Current
<1> QED
  BY <1>1, ChannelFact DEF Refined

LEMMA EmptyFact ==
  ASSUME NEW s, wire[s] = <<>>
  PROVE  Delivered(s) = <<>>
<1> DEFINE v == [k \in 1 .. Len(<<>>) |-> Put(<<>>, sizes, k)]
<1>1. v = <<>>
  OBVIOUS
<1> HIDE DEF v
<1>2. FlattenSeq(v) = <<>>
  BY <1>1 DEF FlattenSeq
<1>3. PutAll(<<>>, sizes) = <<>>
  BY <1>2 DEF PutAll, v
<1>4. Delivered(s) = PutAll(wire[s], sizes)
  BY DeliveredFact
<1> QED
  BY <1>3, <1>4

LEMMA LoopRefined ==
  ASSUME TypeInv, FlagsInv,
         \/ \E size \in NalSizes, flag \in LastFlags : Submit(size, flag)
         \/ \E s \in Sessions : Play(s) \/ Stop(s)
  PROVE  Refined
<1>1. CASE \E size \in NalSizes, flag \in LastFlags : Submit(size, flag)
  <2>1. PICK size \in NalSizes, flag \in LastFlags : Submit(size, flag)
    BY <1>1
  <2>2. /\ stage = "idle" /\ stage' = "call" /\ Current < MaxNals
        /\ sizes' = Append(sizes, size) /\ sizes \in Seq(NalSizes)
        /\ wire' = wire /\ queued' = queued /\ streaming' = streaming
    BY <2>1 DEF Submit, context, TypeInv, TypeOK
  <2>3. Current' = Current + 1
    BY <2>2 DEF Current
  <2>4. Pending' = Append(Pending, Current + 1)
    BY <2>2, <2>3 DEF Pending
  <2>5. Given' = Given
    BY <2>2, QuietGives, GivenFact
  <2> QED
    BY <2>2, <2>3, <2>4, <2>5, ChannelFact DEF Refined
<1>2. CASE \E s \in Sessions : Play(s) \/ Stop(s)
  <2>1. PICK s \in Sessions : Play(s) \/ Stop(s)
    BY <1>2
  <2>2. UNCHANGED <<stage, sizes, queued, wire>>
    BY <2>1 DEF Play, Stop, context
  <2>3. Current' = Current /\ Pending' = Pending
    BY <2>2 DEF Current, Pending
  <2>4. Given' = Given
    BY <2>2, QuietGives, GivenFact
  <2>5. CASE Play(s)
    <3>1. s \notin streaming /\ wire[s] = <<>> /\ streaming' = streaming \cup {s}
      BY <2>5 DEF Play
    <3>2. Delivered(s) = <<>>
      BY <3>1, EmptyFact
    <3>3. Given[s] = <<>>
      BY <3>2 DEF Given
    <3> QED
      BY <2>3, <2>4, <3>1, <3>3, ChannelFact DEF Refined
  <2>6. CASE Stop(s)
    <3>1. s \in streaming /\ streaming' = streaming \ {s}
      BY <2>6 DEF Stop
    <3> QED
      BY <2>3, <2>4, <3>1, ChannelFact DEF Refined
  <2> QED
    BY <2>1, <2>5, <2>6
<1> QED
  BY <1>1, <1>2

LEMMA QuietRefined ==
  ASSUME TypeInv, FlagsInv, UNCHANGED vars \/ Aggregate \/ BeginFragments
  PROVE  Refined
<1>1. UNCHANGED <<sizes, streaming, wire>>
  BY DEF vars, Aggregate, BeginFragments
<1>2. Pending' = Pending
  <2>1. CASE UNCHANGED vars
    BY <2>1 DEF vars, context, Pending, Current
  <2>2. CASE Aggregate
    BY <2>2 DEF Aggregate, Return, Pending
  <2>3. CASE BeginFragments
    BY <2>3 DEF BeginFragments, Pending, Current
  <2> QED
    BY <2>1, <2>2, <2>3
<1>3. \A s \in Sessions : Delivered(s)' = Delivered(s)
  BY <1>1, QuietGives
<1> QED
  BY <1>1, <1>2, <1>3, StutterRefined

LEMMA OneFact ==
  ASSUME TypeInv, stage # "idle"
  PROVE  /\ <<Current>> \in Seq(Nal) /\ <<Current>> # <<>>
         /\ Append(queued, Current) = queued \o <<Current>>
         /\ Append(queued, Current) \in Seq(Nal) /\ Append(queued, Current) # <<>>
         /\ Append(queued, Current) = Append(queued, Current) \o <<>>
         /\ <<>> \in Seq(Nal) /\ <<Current>> = <<Current>> \o <<>>
         /\ Append(<<>>, Current) = <<Current>>
<1>1. Current \in Nal /\ queued \in Seq(Nal)
  BY CurrentFact DEF TypeInv, TypeOK
<1>2. \A q \in Seq(Nal) : q = q \o <<>>
  OBVIOUS
<1>3. \A n \in Nal : <<n>> \in Seq(Nal) /\ <<n>> # <<>> /\ Append(<<>>, n) = <<n>>
  OBVIOUS
<1>4. \A q \in Seq(Nal), n \in Nal :
        /\ Append(q, n) = q \o <<n>> /\ Append(q, n) \in Seq(Nal) /\ Append(q, n) # <<>>
  OBVIOUS
<1> QED
  BY <1>1, <1>2, <1>3, <1>4

LEMMA FlushBufferRefined ==
  ASSUME TypeInv, StreamInv, FlushBuffer
  PROVE  Refined
<1>1. /\ stage = "call" /\ stage' = stage /\ sizes' = sizes /\ streaming' = streaming
      /\ rtpSendData(Whole("ap", queued), bufLen) /\ queued' = <<>>
  BY DEF FlushBuffer, rtpSendData
<1>2. queued # <<>> /\ bufLen \in Nat /\ queued \in Seq(Nal) /\ QueueInv
  BY DEF TypeInv, TypeOK, BufferInv, FlushBuffer, NoRoom, StreamInv
<1>3. Whole("ap", queued) \in Payload
  BY <1>1, <1>2, PayloadTypes
<1>4. Gives(queued)
  BY <1>1, <1>2, <1>3, WholeCompletes, SendGives
<1>5. Pending' = <<Current>>
  BY <1>1, OneFact DEF Pending, Current
<1> QED
  BY <1>1, <1>2, <1>4, <1>5, OneFact, GivesRefined

LEMMA AggregateLastRefined ==
  ASSUME TypeInv, StreamInv, AggregateLast
  PROVE  Refined
<1> DEFINE nals == Append(queued, Current)
<1>1. /\ stage = "call" /\ stage' = "idle" /\ sizes' = sizes /\ streaming' = streaming
      /\ rtpSendData(Whole("ap", nals), NewLen) /\ queued' = <<>>
  BY DEF AggregateLast, Return, rtpSendData
<1>2. Size \in Nat /\ bufLen \in Nat /\ QueueInv
  BY <1>1, CurrentFact DEF TypeInv, TypeOK, StreamInv
<1>3. NewLen \in Nat
  BY <1>2, Constants DEF NewLen
<1>4. Whole("ap", nals) \in Payload
  BY <1>1, PayloadTypes
<1>5. nals \in Seq(Nal) /\ nals # <<>> /\ nals = nals \o <<>> /\ <<>> \in Seq(Nal)
  BY <1>1, OneFact
<1>6. Gives(nals)
  BY <1>1, <1>3, <1>4, WholeCompletes, SendGives
<1>7. Pending' = <<>>
  BY <1>1 DEF Pending
<1> QED
  BY <1>1, <1>2, <1>5, <1>6, <1>7, GivesRefined

\* Without the gap nothing waits in buf when a NAL unit is sent from where it is.
LEMMA SendSingleRefined ==
  ASSUME NoGap, TypeInv, StreamInv, SendSingle
  PROVE  Refined
<1>1. /\ stage = "call" /\ stage' = "idle" /\ sizes' = sizes /\ streaming' = streaming
      /\ rtpSendData(Whole("single", <<Current>>), Size) /\ queued' = <<>>
      /\ Size <= MaxPayload /\ ~Aggregates
  BY DEF SendSingle, Return, rtpSendData
<1>2. Size \in Nat /\ Size \in NalSizes /\ QueueInv
  BY <1>1, CurrentFact DEF Size, Current, TypeInv, TypeOK, StageInv, StreamInv
<1>3. queued = <<>>
  BY <1>1, <1>2, Constants DEF NoGap, Aggregates, StreamInv, QueueInv
<1>4. Whole("single", <<Current>>) \in Payload
  BY <1>1, PayloadTypes
<1>5. Gives(<<Current>>)
  BY <1>1, <1>2, <1>4, WholeCompletes, SendGives
<1>6. Append(queued, Current) = <<Current>> \o <<>>
  BY <1>1, <1>3, OneFact
<1>7. Pending' = <<>>
  BY <1>1 DEF Pending
<1> QED
  BY <1>1, <1>2, <1>5, <1>6, <1>7, OneFact, GivesRefined

LEMMA SendFragmentRefined ==
  ASSUME TypeInv, SendFragment
  PROVE  Refined
<1> DEFINE upto == offset + MaxPayload - FuHdr
<1>1. /\ stage = "fragment" /\ stage' = stage /\ sizes' = sizes /\ streaming' = streaming
      /\ rtpSendData(Fragment(offset, upto, FALSE), MaxPayload) /\ queued' = <<>>
  BY DEF SendFragment, rtpSendData
<1>2. offset \in Nat /\ upto \in Nat /\ MaxPayload \in Nat /\ queued = <<>>
  BY <1>1, Constants DEF TypeInv, TypeOK, FragmentInv
<1> HIDE DEF upto
<1>3. \A from, to \in Nat, end \in BOOLEAN : Fragment(from, to, end) \in Payload
  BY <1>1, PayloadTypes
<1>4. Fragment(offset, upto, FALSE) \in Payload
  BY <1>2, <1>3
<1>5. Gives(<<>>)
  BY <1>1, <1>2, <1>4, FragmentCompletes, SendGives
<1>6. \A s \in Sessions : Delivered(s)' = Delivered(s)
  <2>1. \A q \in Seq(Nal) : q \o <<>> = q
    OBVIOUS
  <2> QED
    BY <1>5, <2>1, DeliveredType DEF Gives
<1>7. Pending' = Pending
  BY <1>1, <1>2 DEF Pending, Current
<1> QED
  BY <1>1, <1>6, <1>7, StutterRefined

LEMMA SendLastFragmentRefined ==
  ASSUME TypeInv, StreamInv, CoverInv, SendLastFragment
  PROVE  Refined
<1>1. /\ stage = "fragment" /\ stage' = "idle" /\ sizes' = sizes /\ streaming' = streaming
      /\ rtpSendData(Fragment(offset, Size, TRUE), Size - offset + FuHdr) /\ queued' = <<>>
  BY DEF SendLastFragment, Return, rtpSendData
<1>2. /\ offset \in Nat /\ queued = <<>> /\ Size \in Nat /\ offset < Size /\ QueueInv
  BY <1>1, CurrentFact DEF TypeInv, TypeOK, FragmentInv, StreamInv
<1>3. \A from, to \in Nat, end \in BOOLEAN : Fragment(from, to, end) \in Payload
  BY <1>1, PayloadTypes
<1>4. Fragment(offset, Size, TRUE) \in Payload
  BY <1>2, <1>3
<1>5. Size - offset + FuHdr \in Nat
  BY <1>2, Constants
<1>6. Gives(<<Current>>)
  BY <1>1, <1>4, <1>5, LastFragmentCompletes, SendGives
<1>7. Append(queued, Current) = <<Current>> \o <<>>
  BY <1>1, <1>2, OneFact
<1>8. Pending' = <<>>
  BY <1>1 DEF Pending
<1> QED
  BY <1>1, <1>2, <1>6, <1>7, <1>8, OneFact, GivesRefined

LEMMA StepDelivers ==
  ASSUME NoGap
  PROVE  TypeInv /\ FlagsInv /\ StreamInv /\ CoverInv /\ [Next]_vars => Refined
<1> SUFFICES ASSUME TypeInv, FlagsInv, StreamInv, CoverInv, [Next]_vars PROVE Refined
  OBVIOUS
<1>1. CASE \/ \E size \in NalSizes, flag \in LastFlags : Submit(size, flag)
           \/ \E s \in Sessions : Play(s) \/ Stop(s)
  BY <1>1, LoopRefined
<1>2. CASE UNCHANGED vars
  BY <1>2, QuietRefined
<1>3. CASE rtpSendNALH265
  BY <1>3, QuietRefined, FlushBufferRefined, AggregateLastRefined, SendSingleRefined,
     SendFragmentRefined, SendLastFragmentRefined DEF rtpSendNALH265
<1> QED
  BY <1>1, <1>2, <1>3 DEF Next

LEMMA InitDelivers == Init => Channel!Init
<1> SUFFICES ASSUME Init PROVE Channel!Init
  OBVIOUS
<1>1. /\ stage = "idle" /\ sizes = <<>> /\ queued = <<>> /\ streaming = {}
      /\ wire = [s \in Sessions |-> <<>>]
  BY DEF Init
<1>2. \A s \in Sessions : Delivered(s) = <<>>
  BY <1>1, EmptyFact
<1>3. Current = 0
  BY <1>1 DEF Current
<1> QED
  BY <1>1, <1>2, <1>3 DEF Channel!Init

(* However many sessions start and stop, however long the NAL units are and *)
(* however buf is filled, each NAL unit handed over goes, whole, once and   *)
(* in order, to every session that streams when it leaves, when no NAL unit *)
(* is of a size that SendSingle sends past those waiting in buf: the        *)
(* packetizer is a queue of NAL units (rtpSendNALH265, rtpSendData).        *)
THEOREM DeliveryKept ==
  ASSUME NoGap
  PROVE  Spec => DeliversInOrder
<1>1. Init => StreamInv /\ FlagsInv /\ CoverInv
  <2> SUFFICES ASSUME Init PROVE StreamInv /\ FlagsInv /\ CoverInv
    OBVIOUS
  <2>1. /\ stage = "idle" /\ queued = <<>> /\ streaming = {}
        /\ \A s \in Sessions : wire[s] = <<>>
    BY DEF Init
  <2> QED
    BY <2>1 DEF StreamInv, Unbroken, QueueInv, TailInv, FlagsInv, CoverInv
<1>2. StreamInv /\ TypeInv /\ [Next]_vars => StreamInv'
  BY StepStream
<1>3. TypeInv /\ FlagsInv /\ StreamInv /\ CoverInv /\ [Next]_vars
        => [Channel!Next]_(Channel!vars)
  BY StepDelivers DEF Refined
<1> QED
  BY <1>1, <1>2, <1>3, StepFlags, StepCover, InitDelivers, TypeInvariant, PTL
     DEF Spec, DeliversInOrder, Channel!SafeSpec
=============================================================================
