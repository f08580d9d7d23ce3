------------------------- MODULE RtpPacketizerProofs ------------------------
(* Theorems about RtpPacketizer, for any payload limit, any sizes of NAL    *)
(* units, any number of sessions and any range of sequence numbers and      *)
(* timestamps.                                                              *)
EXTENDS RtpPacketizer, TLAPS

(* The fragments of the current NAL unit cover offset bytes, never all of   *)
(* them while the loop runs, and the S bit stands until the first is sent.  *)
FragmentInv ==
  stage = "fragment" =>
    /\ Size > MaxPayload /\ queued = <<>>
    /\ NalHdr <= offset /\ offset < Size
    /\ fuStart <=> offset = NalHdr

BufferInv ==
  /\ bufLen <= MaxPayload
  /\ bufLen = 0 <=> queued = <<>>

StageInv == stage # "idle" => sizes # <<>>

TypeInv == TypeOK /\ StageInv /\ FragmentInv /\ BufferInv

LEMMA Constants ==
  /\ MaxPayload \in Nat /\ MaxPayload > 4
  /\ NalSizes \subseteq Nat \ {0} /\ MaxNals \in Nat
  /\ SeqWrap \in Nat \ {0} /\ TsWrap \in Nat /\ TsStep \in Nat
  /\ 0 < TsStep /\ TsStep < TsWrap
  /\ LastFlags \subseteq {0, 1}
  /\ PayloadHdr = 2 /\ SizeField = 2 /\ NalHdr = 2 /\ FuHdr = 3
BY PacketizerAssumption DEF PayloadHdr, SizeField, NalHdr, FuHdr

LEMMA ModFact ==
  ASSUME NEW a \in Nat, NEW b \in Nat \ {0}
  PROVE  a % b \in 0 .. b - 1
OBVIOUS

(* The current NAL unit, whenever there is one.                             *)
LEMMA CurrentFact ==
  ASSUME TypeInv, stage # "idle"
  PROVE  Current \in Nal /\ Size \in Nat \ {0}
<1>1. Len(sizes) \in 1 .. MaxNals /\ sizes[Len(sizes)] \in NalSizes
  BY Constants DEF TypeInv, TypeOK, StageInv
<1> QED
  BY <1>1, Constants DEF Current, Size, Nal

LEMMA TimestampFact ==
  ASSUME TypeInv, NEW t \in NextTimestamps
  PROVE  t \in 0 .. TsWrap - 1
<1>1. timestamp + TsStep \in Nat /\ TsWrap \in Nat \ {0}
  BY Constants DEF TypeInv, TypeOK
<1>2. (timestamp + TsStep) % TsWrap \in 0 .. TsWrap - 1
  BY <1>1, ModFact
<1> QED
  BY <1>1, <1>2 DEF NextTimestamps, TypeInv, TypeOK

(* What rtpSendData does to the types.                                      *)
LEMMA SendType ==
  ASSUME TypeInv, NEW payload \in Payload, NEW len \in Nat, rtpSendData(payload, len)
  PROVE  /\ PacketOf(payload, len) \in Packet
         /\ wire' \in [Sessions -> Seq(Packet)]
         /\ seq' \in 0 .. SeqWrap - 1
         /\ queued' = <<>> /\ bufLen' = 0
<1>1. PacketOf(payload, len) \in Packet
  BY DEF PacketOf, Packet, TypeInv, TypeOK
<1>2. \A w \in Seq(Packet) : Append(w, PacketOf(payload, len)) \in Seq(Packet)
  BY <1>1
<1>3. wire' \in [Sessions -> Seq(Packet)]
  BY <1>2 DEF rtpSendData, SendToAll, TypeInv, TypeOK
<1>4. seq' \in 0 .. SeqWrap - 1
  BY ModFact, Constants DEF rtpSendData, TypeInv, TypeOK
<1> QED
  BY <1>1, <1>3, <1>4 DEF rtpSendData

(* The payloads that the steps build.                                       *)
LEMMA PayloadTypes ==
  ASSUME TypeInv, stage # "idle"
  PROVE  /\ \A kind \in {"single", "ap"} : \A nals \in Seq(Nal) :
              Whole(kind, nals) \in Payload
         /\ \A from, upto \in Nat, end \in BOOLEAN : Fragment(from, upto, end) \in Payload
         /\ <<Current>> \in Seq(Nal) /\ Append(queued, Current) \in Seq(Nal)
<1>1. <<Current>> \in Seq(Nal) /\ Append(queued, Current) \in Seq(Nal)
  BY CurrentFact DEF TypeInv, TypeOK
<1>2. fuStart \in BOOLEAN
  BY DEF TypeInv, TypeOK
<1> QED
  BY <1>1, <1>2 DEF Whole, Fragment, Payload

LEMMA InitType == Init => TypeInv
<1> SUFFICES ASSUME Init PROVE TypeInv
  OBVIOUS
<1>1. wire \in [Sessions -> Seq(Packet)]
  <2>1. <<>> \in Seq(Packet)
    OBVIOUS
  <2> QED
    BY <2>1 DEF Init
<1>2. sizes \in Seq(NalSizes) /\ Len(sizes) <= MaxNals /\ queued \in Seq(Nal)
  BY Constants DEF Init
<1>3. /\ stage = "idle" /\ last = 0 /\ bufLen = 0 /\ offset = 0 /\ fuStart = FALSE
      /\ seq = 0 /\ timestamp = 0 /\ streaming = {}
  BY DEF Init
<1>4. 0 \in 0 .. SeqWrap - 1 /\ 0 \in 0 .. TsWrap - 1
  BY Constants
<1>5. TypeOK
  BY <1>1, <1>2, <1>3, <1>4 DEF TypeOK
<1> QED
  BY <1>5, Constants DEF Init, TypeInv, StageInv, FragmentInv, BufferInv

LEMMA SubmitType ==
  ASSUME TypeInv, NEW size \in NalSizes, NEW flag \in LastFlags, Submit(size, flag)
  PROVE  TypeInv'
<1>1. /\ stage' = "call" /\ sizes' = Append(sizes, size) /\ last' = flag
      /\ queued' = queued /\ bufLen' = bufLen /\ offset' = offset /\ fuStart' = fuStart
      /\ seq' = seq /\ timestamp' = timestamp /\ streaming' = streaming /\ wire' = wire
  BY DEF Submit, context
<1>2. sizes' \in Seq(NalSizes) /\ Len(sizes') <= MaxNals /\ sizes' # <<>>
  BY <1>1, Constants DEF Submit, Current, TypeInv, TypeOK
<1>3. TypeOK'
  BY <1>1, <1>2, Constants DEF TypeInv, TypeOK
<1> QED
  BY <1>1, <1>2, <1>3 DEF TypeInv, StageInv, FragmentInv, BufferInv

LEMMA PlayStopType ==
  ASSUME TypeInv, NEW s \in Sessions, Play(s) \/ Stop(s)
  PROVE  TypeInv'
<1>1. /\ stage' = stage /\ sizes' = sizes /\ last' = last
      /\ queued' = queued /\ bufLen' = bufLen /\ offset' = offset /\ fuStart' = fuStart
      /\ seq' = seq /\ timestamp' = timestamp /\ wire' = wire
      /\ streaming' \in {streaming \cup {s}, streaming \ {s}}
  BY DEF Play, Stop, context
<1>2. TypeOK'
  BY <1>1 DEF TypeInv, TypeOK
<1>3. Current' = Current /\ Size' = Size
  BY <1>1 DEF Current, Size
<1> QED
  BY <1>1, <1>2, <1>3 DEF TypeInv, StageInv, FragmentInv, BufferInv

LEMMA FlushBufferType ==
  ASSUME TypeInv, FlushBuffer
  PROVE  TypeInv'
<1>1. /\ stage = "call" /\ stage' = stage /\ sizes' = sizes /\ last' = last
      /\ offset' = offset /\ fuStart' = fuStart
      /\ timestamp' = timestamp /\ streaming' = streaming
      /\ rtpSendData(Whole("ap", queued), bufLen)
  BY DEF FlushBuffer
<1>2. queued \in Seq(Nal) /\ bufLen \in Nat
  BY DEF TypeInv, TypeOK
<1>3. Whole("ap", queued) \in Payload
  BY <1>1, <1>2, PayloadTypes
<1>4. /\ wire' \in [Sessions -> Seq(Packet)] /\ seq' \in 0 .. SeqWrap - 1
      /\ queued' = <<>> /\ bufLen' = 0
  BY <1>1, <1>2, <1>3, SendType
<1>5. TypeOK'
  BY <1>1, <1>4 DEF TypeInv, TypeOK
<1> QED
  BY <1>1, <1>4, <1>5, Constants DEF TypeInv, StageInv, FragmentInv, BufferInv

LEMMA AggregateType ==
  ASSUME TypeInv, Aggregate
  PROVE  TypeInv'
<1>1. /\ stage = "call" /\ stage' = "idle" /\ sizes' = sizes /\ last' = last
      /\ queued' = Append(queued, Current) /\ bufLen' = NewLen
      /\ offset' = offset /\ fuStart' = fuStart
      /\ seq' = seq /\ timestamp' \in NextTimestamps
      /\ streaming' = streaming /\ wire' = wire
  BY DEF Aggregate, Return
<1>2. timestamp' \in 0 .. TsWrap - 1
  BY <1>1, TimestampFact
<1>3. queued' \in Seq(Nal) /\ queued' # <<>>
  <2>1. queued \in Seq(Nal) /\ Current \in Nal
    BY <1>1, CurrentFact DEF TypeInv, TypeOK
  <2> QED
    BY <1>1, <2>1
<1>4. bufLen' \in Nat /\ bufLen' # 0 /\ bufLen' <= MaxPayload
  <2>1. Size \in Nat \ {0} /\ bufLen \in Nat /\ Aggregates /\ ~NoRoom
    BY <1>1, CurrentFact DEF TypeInv, TypeOK, Aggregate
  <2> QED
    BY <1>1, <2>1, Constants DEF NewLen, Aggregates, NoRoom
<1>5. TypeOK'
  BY <1>1, <1>2, <1>3, <1>4 DEF TypeInv, TypeOK
<1> QED
  BY <1>1, <1>3, <1>4, <1>5 DEF TypeInv, StageInv, FragmentInv, BufferInv

(* The steps that send a payload and return to the loop of the worker.      *)
LEMMA SendAndReturn ==
  ASSUME TypeInv, NEW payload \in Payload, NEW len \in Nat,
         rtpSendData(payload, len), Return,
         UNCHANGED <<sizes, last, offset, fuStart, streaming>>
  PROVE  TypeInv'
<1>1. /\ wire' \in [Sessions -> Seq(Packet)] /\ seq' \in 0 .. SeqWrap - 1
      /\ queued' = <<>> /\ bufLen' = 0
  BY SendType
<1>2. stage' = "idle" /\ timestamp' \in 0 .. TsWrap - 1
  BY TimestampFact DEF Return
<1>3. TypeOK'
  BY <1>1, <1>2 DEF TypeInv, TypeOK
<1> QED
  BY <1>1, <1>2, <1>3, Constants DEF TypeInv, StageInv, FragmentInv, BufferInv

LEMMA AggregateLastType ==
  ASSUME TypeInv, AggregateLast
  PROVE  TypeInv'
<1>1. Size \in Nat \ {0} /\ bufLen \in Nat
  BY CurrentFact DEF TypeInv, TypeOK, AggregateLast
<1>2. NewLen \in Nat
  BY <1>1, Constants DEF NewLen
<1>3. Whole("ap", Append(queued, Current)) \in Payload
  BY PayloadTypes DEF AggregateLast
<1> QED
  BY <1>2, <1>3, SendAndReturn DEF AggregateLast

LEMMA SendSingleType ==
  ASSUME TypeInv, SendSingle
  PROVE  TypeInv'
<1>1. Size \in Nat /\ Whole("single", <<Current>>) \in Payload
  BY CurrentFact, PayloadTypes DEF SendSingle
<1> QED
  BY <1>1, SendAndReturn DEF SendSingle

LEMMA BeginFragmentsType ==
  ASSUME TypeInv, BeginFragments
  PROVE  TypeInv'
<1>1. /\ stage = "call" /\ stage' = "fragment" /\ sizes' = sizes /\ last' = last
      /\ queued' = queued /\ bufLen' = bufLen /\ offset' = 2 /\ fuStart' = TRUE
      /\ seq' = seq /\ timestamp' = timestamp
      /\ streaming' = streaming /\ wire' = wire
      /\ Size > MaxPayload /\ bufLen = 0
  BY Constants DEF BeginFragments
<1>2. TypeOK'
  BY <1>1 DEF TypeInv, TypeOK
<1>3. Size' = Size /\ Size \in Nat
  BY <1>1, CurrentFact DEF Size, Current
<1>4. FragmentInv'
  BY <1>1, <1>3, Constants DEF TypeInv, BufferInv, FragmentInv
<1> QED
  BY <1>1, <1>2, <1>4 DEF TypeInv, StageInv, BufferInv

LEMMA SendFragmentType ==
  ASSUME TypeInv, SendFragment
  PROVE  TypeInv'
<1> DEFINE upto == offset + MaxPayload - FuHdr
<1>1. /\ stage = "fragment" /\ stage' = stage /\ sizes' = sizes /\ last' = last
      /\ offset' = upto /\ fuStart' = FALSE
      /\ timestamp' = timestamp /\ streaming' = streaming
      /\ rtpSendData(Fragment(offset, upto, FALSE), MaxPayload)
      /\ Size - offset + FuHdr > MaxPayload
  BY DEF SendFragment
<1>2. /\ Size \in Nat /\ offset \in Nat /\ upto \in Nat /\ MaxPayload \in Nat
      /\ Size > MaxPayload /\ NalHdr <= offset /\ offset < Size
  BY <1>1, CurrentFact, Constants DEF TypeInv, TypeOK, FragmentInv
<1>3. Fragment(offset, upto, FALSE) \in Payload
  BY <1>1, <1>2, PayloadTypes
<1>4. /\ wire' \in [Sessions -> Seq(Packet)] /\ seq' \in 0 .. SeqWrap - 1
      /\ queued' = <<>> /\ bufLen' = 0
  BY <1>1, <1>2, <1>3, SendType
<1> HIDE DEF upto
<1>5. TypeOK'
  <2>1. sizes' \in Seq(NalSizes) /\ Len(sizes') <= MaxNals /\ last' \in {0, 1}
    BY <1>1 DEF TypeInv, TypeOK
  <2>2. timestamp' \in 0 .. TsWrap - 1 /\ streaming' \subseteq Sessions
    BY <1>1 DEF TypeInv, TypeOK
  <2>3. queued' \in Seq(Nal) /\ bufLen' \in Nat
    BY <1>4
  <2>4. offset' \in Nat /\ fuStart' \in BOOLEAN
    BY <1>1, <1>2
  <2> QED
    BY <1>1, <1>4, <2>1, <2>2, <2>3, <2>4 DEF TypeOK
<1>6. Size' = Size
  BY <1>1 DEF Size, Current
<1>7. FragmentInv'
  BY <1>1, <1>2, <1>4, <1>6, Constants DEF FragmentInv, upto
<1> QED
  BY <1>1, <1>4, <1>5, <1>7, Constants DEF TypeInv, StageInv, BufferInv

LEMMA SendLastFragmentType ==
  ASSUME TypeInv, SendLastFragment
  PROVE  TypeInv'
<1>1. /\ Size \in Nat /\ offset \in Nat /\ offset < Size
  BY CurrentFact, Constants DEF TypeInv, TypeOK, FragmentInv, SendLastFragment
<1>2. Fragment(offset, Size, TRUE) \in Payload
  <2>1. \A from, upto \in Nat, end \in BOOLEAN : Fragment(from, upto, end) \in Payload
    BY PayloadTypes DEF SendLastFragment
  <2> QED
    BY <1>1, <2>1
<1>3. Size - offset + FuHdr \in Nat
  BY <1>1, Constants
<1> QED
  BY <1>2, <1>3, SendAndReturn DEF SendLastFragment

LEMMA StepType == TypeInv /\ [Next]_vars => TypeInv'
<1> SUFFICES ASSUME TypeInv, [Next]_vars PROVE TypeInv'
  OBVIOUS
<1>1. CASE UNCHANGED vars
  BY <1>1 DEF vars, context, TypeInv, TypeOK, StageInv, FragmentInv, BufferInv, Size, Current
<1>2. CASE \E size \in NalSizes, flag \in LastFlags : Submit(size, flag)
  BY <1>2, SubmitType
<1>3. CASE \E s \in Sessions : Play(s) \/ Stop(s)
  BY <1>3, PlayStopType
<1>4. CASE rtpSendNALH265
  BY <1>4, FlushBufferType, AggregateType, AggregateLastType, SendSingleType,
     BeginFragmentsType, SendFragmentType, SendLastFragmentType DEF rtpSendNALH265
<1> QED
  BY <1>1, <1>2, <1>3, <1>4 DEF Next

THEOREM TypeInvariant == Spec => []TypeInv
<1> QED
  BY InitType, StepType, PTL DEF Spec

(* Every variable of the packetizer keeps its type: the sequence number and *)
(* the timestamp stay in their range, and what is sent is made of packets   *)
(* (CStreamer::rtpSendData).                                                *)
THEOREM TypeCorrect == Spec => []TypeOK
<1>1. TypeInv => TypeOK
  BY DEF TypeInv
<1> QED
  BY <1>1, TypeInvariant, PTL

-----------------------------------------------------------------------------
(* What every packet satisfies.                                             *)

(* rtpSendData adds one packet to what each streaming session was sent.     *)
LEMMA SentFact ==
  ASSUME TypeInv, NEW payload \in Payload, NEW len \in Nat, rtpSendData(payload, len),
         NEW s \in Sessions
  PROVE  /\ s \in streaming => wire'[s] = Append(wire[s], PacketOf(payload, len))
         /\ s \notin streaming => wire'[s] = wire[s]
         /\ \A i \in 1 .. Len(wire'[s]) :
              \/ wire'[s][i] = PacketOf(payload, len)
              \/ i \in 1 .. Len(wire[s]) /\ wire'[s][i] = wire[s][i]
<1>1. /\ s \in streaming => wire'[s] = Append(wire[s], PacketOf(payload, len))
      /\ s \notin streaming => wire'[s] = wire[s]
  BY DEF rtpSendData, SendToAll
<1>2. wire[s] \in Seq(Packet) /\ PacketOf(payload, len) \in Packet
  BY SendType DEF TypeInv, TypeOK
<1>3. \A i \in 1 .. Len(Append(wire[s], PacketOf(payload, len))) :
        \/ Append(wire[s], PacketOf(payload, len))[i] = PacketOf(payload, len)
        \/ i \in 1 .. Len(wire[s]) /\ Append(wire[s], PacketOf(payload, len))[i] = wire[s][i]
  BY <1>2
<1> QED
  BY <1>1, <1>3

(* The steps that send nothing leave what was sent alone.                   *)
LEMMA QuietFact ==
  ASSUME \/ UNCHANGED vars
         \/ \E size \in NalSizes, flag \in LastFlags : Submit(size, flag)
         \/ \E s \in Sessions : Play(s) \/ Stop(s)
         \/ Aggregate
         \/ BeginFragments
  PROVE  wire' = wire
BY DEF vars, Submit, Play, Stop, Aggregate, BeginFragments

LEMMA SendFits ==
  ASSUME TypeInv, TypeInv', FitsBuffer, NEW payload \in Payload, NEW len \in 1 .. MaxPayload,
         rtpSendData(payload, len)
  PROVE  FitsBuffer'
<1>1. bufLen' <= MaxPayload
  BY DEF TypeInv, BufferInv
<1>2. len \in Nat /\ PacketOf(payload, len).len \in 1 .. MaxPayload
  BY Constants DEF PacketOf
<1>3. ASSUME NEW s \in Sessions, NEW i \in 1 .. Len(wire'[s])
      PROVE  wire'[s][i].len \in 1 .. MaxPayload
  <2>1. \/ wire'[s][i] = PacketOf(payload, len)
        \/ i \in 1 .. Len(wire[s]) /\ wire'[s][i] = wire[s][i]
    BY <1>2, SentFact
  <2> QED
    BY <2>1, <1>2 DEF FitsBuffer
<1> QED
  BY <1>1, <1>3 DEF FitsBuffer

LEMMA QuietFits ==
  ASSUME TypeInv', FitsBuffer, wire' = wire
  PROVE  FitsBuffer'
BY DEF FitsBuffer, TypeInv, BufferInv

(* What the steps of a call send is a payload, and its length is in bounds. *)
LEMMA Sends ==
  ASSUME TypeInv, rtpSendNALH265, ~Aggregate, ~BeginFragments
  PROVE  \E payload \in Payload, len \in 1 .. MaxPayload : rtpSendData(payload, len)
<1>1. MaxPayload \in Nat /\ MaxPayload > 4 /\ bufLen \in Nat /\ bufLen <= MaxPayload
      /\ offset \in Nat /\ queued \in Seq(Nal) /\ FuHdr = 3 /\ SizeField = 2 /\ PayloadHdr = 2
  BY Constants DEF TypeInv, TypeOK, BufferInv
<1>2. CASE FlushBuffer
  <2>1. stage # "idle" /\ bufLen \in 1 .. MaxPayload /\ rtpSendData(Whole("ap", queued), bufLen)
    BY <1>1, <1>2 DEF FlushBuffer, NoRoom
  <2> QED
    BY <1>1, <2>1, PayloadTypes
<1>3. CASE AggregateLast
  <2>1. /\ stage # "idle" /\ rtpSendData(Whole("ap", Append(queued, Current)), NewLen)
        /\ Aggregates /\ ~NoRoom
    BY <1>3 DEF AggregateLast
  <2>2. Size \in Nat \ {0}
    BY <2>1, CurrentFact
  <2>3. NewLen \in 1 .. MaxPayload
    BY <1>1, <2>1, <2>2 DEF NewLen, Aggregates, NoRoom
  <2> QED
    BY <2>1, <2>3, PayloadTypes
<1>4. CASE SendSingle
  <2>1. stage # "idle" /\ rtpSendData(Whole("single", <<Current>>), Size) /\ Size <= MaxPayload
    BY <1>4 DEF SendSingle
  <2>2. Size \in 1 .. MaxPayload
    BY <1>1, <2>1, CurrentFact
  <2> QED
    BY <2>1, <2>2, PayloadTypes
<1>5. CASE SendFragment
  <2> DEFINE upto == offset + MaxPayload - FuHdr
  <2>1. stage # "idle" /\ rtpSendData(Fragment(offset, upto, FALSE), MaxPayload)
    BY <1>5 DEF SendFragment
  <2>2. upto \in Nat /\ MaxPayload \in 1 .. MaxPayload
    BY <1>1
  <2> HIDE DEF upto
  <2>3. \A from, to \in Nat, end \in BOOLEAN : Fragment(from, to, end) \in Payload
    BY <2>1, PayloadTypes
  <2>4. Fragment(offset, upto, FALSE) \in Payload
    BY <1>1, <2>2, <2>3
  <2> QED
    BY <2>1, <2>2, <2>4
<1>6. CASE SendLastFragment
  <2>1. /\ stage = "fragment" /\ Size - offset + FuHdr <= MaxPayload
        /\ rtpSendData(Fragment(offset, Size, TRUE), Size - offset + FuHdr)
    BY <1>6 DEF SendLastFragment
  <2>2. Size \in Nat /\ offset < Size
    BY <2>1, CurrentFact DEF TypeInv, FragmentInv
  <2>3. Size - offset + FuHdr \in 1 .. MaxPayload
    BY <1>1, <2>1, <2>2
  <2>4. \A from, upto \in Nat, end \in BOOLEAN : Fragment(from, upto, end) \in Payload
    BY <2>1, PayloadTypes
  <2>5. Fragment(offset, Size, TRUE) \in Payload
    BY <1>1, <2>2, <2>4
  <2> QED
    BY <2>1, <2>3, <2>5
<1> QED
  BY <1>2, <1>3, <1>4, <1>5, <1>6 DEF rtpSendNALH265

LEMMA StepFits == FitsBuffer /\ TypeInv /\ TypeInv' /\ [Next]_vars => FitsBuffer'
<1> SUFFICES ASSUME FitsBuffer, TypeInv, TypeInv', [Next]_vars PROVE FitsBuffer'
  OBVIOUS
<1>1. CASE rtpSendNALH265 /\ ~Aggregate /\ ~BeginFragments
  BY <1>1, Sends, SendFits
<1>2. CASE ~(rtpSendNALH265 /\ ~Aggregate /\ ~BeginFragments)
  BY <1>2, QuietFact, QuietFits DEF Next
<1> QED
  BY <1>1, <1>2

(* Whatever the sizes of the NAL units, with aggregation or without, no     *)
(* payload is empty or longer than RTP_PAYLOAD_MAX and buf_ptr stays in buf *)
(* (CStreamer::rtpSendNALH265).                                             *)
THEOREM PacketsFit == Spec => []FitsBuffer
<1>1. Init => FitsBuffer
  <2> SUFFICES ASSUME Init PROVE FitsBuffer
    OBVIOUS
  <2>1. bufLen = 0 /\ \A s \in Sessions : wire[s] = <<>>
    BY DEF Init
  <2> QED
    BY <2>1, Constants DEF FitsBuffer
<1> QED
  BY <1>1, StepFits, TypeInvariant, PTL DEF Spec

(* FragmentFlags for one payload, with the fact it needs to be inductive:   *)
(* the NAL unit of a fragment was handed over before.                       *)
GoodFragment(f) ==
  f.kind = "fu" =>
    /\ f.nals[1] \in 1 .. Len(sizes)
    /\ f.start <=> f.from = NalHdr
    /\ f.end <=> f.upto = sizes[f.nals[1]]
    /\ f.from < f.upto /\ ~(f.start /\ f.end)

FlagsInv ==
  \A s \in Sessions : \A i \in 1 .. Len(wire[s]) : GoodFragment(wire[s][i].payload)

LEMMA SendFlags ==
  ASSUME TypeInv, FlagsInv, NEW payload \in Payload, NEW len \in Nat,
         rtpSendData(payload, len), sizes' = sizes, GoodFragment(payload)
  PROVE  FlagsInv'
<1>1. PacketOf(payload, len).payload = payload
  BY DEF PacketOf
<1>2. ASSUME NEW s \in Sessions, NEW i \in 1 .. Len(wire'[s])
      PROVE  GoodFragment(wire'[s][i].payload)
  <2>1. \/ wire'[s][i] = PacketOf(payload, len)
        \/ i \in 1 .. Len(wire[s]) /\ wire'[s][i] = wire[s][i]
    BY SentFact
  <2> QED
    BY <2>1, <1>1 DEF FlagsInv
<1> QED
  BY <1>2 DEF FlagsInv, GoodFragment

LEMMA QuietFlags ==
  ASSUME FlagsInv, wire' = wire,
         \A n \in 1 .. Len(sizes) : n \in 1 .. Len(sizes') /\ sizes'[n] = sizes[n]
  PROVE  FlagsInv'
<1>1. ASSUME NEW s \in Sessions, NEW i \in 1 .. Len(wire'[s])
      PROVE  GoodFragment(wire[s][i].payload)'
  <2>1. GoodFragment(wire[s][i].payload)
    BY <1>1 DEF FlagsInv
  <2> QED
    BY <2>1 DEF GoodFragment
<1> QED
  BY <1>1 DEF FlagsInv

LEMMA SubmitFlags ==
  ASSUME TypeInv, FlagsInv, NEW size \in NalSizes, NEW flag \in LastFlags, Submit(size, flag)
  PROVE  FlagsInv'
<1>1. sizes \in Seq(NalSizes) /\ sizes' = Append(sizes, size) /\ wire' = wire
  BY DEF TypeInv, TypeOK, Submit
<1>2. \A n \in 1 .. Len(sizes) : n \in 1 .. Len(sizes') /\ sizes'[n] = sizes[n]
  BY <1>1
<1> QED
  BY <1>1, <1>2, QuietFlags

LEMMA WholeFlags ==
  ASSUME NEW kind \in {"single", "ap"}, NEW nals
  PROVE  GoodFragment(Whole(kind, nals))
BY DEF GoodFragment, Whole

LEMMA StepFlags == FlagsInv /\ TypeInv /\ [Next]_vars => FlagsInv'
<1> SUFFICES ASSUME FlagsInv, TypeInv, [Next]_vars PROVE FlagsInv'
  OBVIOUS
<1>1. MaxPayload \in Nat /\ MaxPayload > 4 /\ bufLen \in Nat /\ offset \in Nat
      /\ queued \in Seq(Nal) /\ FuHdr = 3 /\ NalHdr = 2 /\ fuStart \in BOOLEAN
  BY Constants DEF TypeInv, TypeOK
<1>2. CASE UNCHANGED vars \/ Aggregate \/ BeginFragments \/ \E s \in Sessions : Play(s) \/ Stop(s)
  <2>1. wire' = wire /\ sizes' = sizes
    BY <1>2 DEF vars, Aggregate, BeginFragments, Play, Stop
  <2> QED
    BY <2>1, QuietFlags
<1>3. CASE \E size \in NalSizes, flag \in LastFlags : Submit(size, flag)
  BY <1>3, SubmitFlags
<1>4. CASE FlushBuffer
  <2>1. stage # "idle" /\ sizes' = sizes /\ rtpSendData(Whole("ap", queued), bufLen)
    BY <1>4 DEF FlushBuffer
  <2>2. Whole("ap", queued) \in Payload
    BY <1>1, <2>1, PayloadTypes
  <2> QED
    BY <1>1, <2>1, <2>2, SendFlags, WholeFlags
<1>5. CASE AggregateLast
  <2>1. /\ stage # "idle" /\ sizes' = sizes
        /\ rtpSendData(Whole("ap", Append(queued, Current)), NewLen)
    BY <1>5 DEF AggregateLast
  <2>2. Whole("ap", Append(queued, Current)) \in Payload
    BY <2>1, PayloadTypes
  <2>3. NewLen \in Nat
    BY <1>1, <2>1, CurrentFact, Constants DEF NewLen
  <2> QED
    BY <2>1, <2>2, <2>3, SendFlags, WholeFlags
<1>6. CASE SendSingle
  <2>1. stage # "idle" /\ sizes' = sizes /\ rtpSendData(Whole("single", <<Current>>), Size)
    BY <1>6 DEF SendSingle
  <2>2. Whole("single", <<Current>>) \in Payload /\ Size \in Nat
    BY <2>1, PayloadTypes, CurrentFact
  <2> QED
    BY <2>1, <2>2, SendFlags, WholeFlags
<1>7. CASE SendFragment
  <2> DEFINE upto == offset + MaxPayload - FuHdr
  <2>1. /\ stage = "fragment" /\ sizes' = sizes /\ Size - offset + FuHdr > MaxPayload
        /\ rtpSendData(Fragment(offset, upto, FALSE), MaxPayload)
    BY <1>7 DEF SendFragment
  <2>2. Size \in Nat /\ Current \in 1 .. Len(sizes) /\ (fuStart <=> offset = NalHdr)
    BY <2>1, CurrentFact DEF TypeInv, FragmentInv, Nal, Current
  <2>3. upto \in Nat /\ offset < upto /\ upto < Size
    BY <1>1, <2>1, <2>2
  <2> HIDE DEF upto
  <2>4. \A from, to \in Nat, end \in BOOLEAN : Fragment(from, to, end) \in Payload
    BY <2>1, PayloadTypes
  <2>5. Fragment(offset, upto, FALSE) \in Payload
    BY <1>1, <2>3, <2>4
  <2>6. GoodFragment(Fragment(offset, upto, FALSE))
    BY <2>2, <2>3 DEF GoodFragment, Fragment, Size
  <2> QED
    BY <1>1, <2>1, <2>5, <2>6, SendFlags
<1>8. CASE SendLastFragment
  <2>1. /\ stage = "fragment" /\ sizes' = sizes /\ Size - offset + FuHdr <= MaxPayload
        /\ rtpSendData(Fragment(offset, Size, TRUE), Size - offset + FuHdr)
    BY <1>8 DEF SendLastFragment
  <2>2. /\ Size \in Nat /\ Current \in 1 .. Len(sizes) /\ (fuStart <=> offset = NalHdr)
        /\ offset < Size /\ Size > MaxPayload
    BY <2>1, CurrentFact DEF TypeInv, FragmentInv, Nal, Current
  <2>3. \A from, to \in Nat, end \in BOOLEAN : Fragment(from, to, end) \in Payload
    BY <2>1, PayloadTypes
  <2>4. Fragment(offset, Size, TRUE) \in Payload
    BY <1>1, <2>2, <2>3
  <2>5. Size - offset + FuHdr \in Nat
    BY <1>1, <2>2
  <2>6. ~fuStart
    BY <1>1, <2>1, <2>2
  <2>7. GoodFragment(Fragment(offset, Size, TRUE))
    BY <2>2, <2>6 DEF GoodFragment, Fragment, Size
  <2> QED
    BY <2>1, <2>4, <2>5, <2>7, SendFlags
<1> QED
  BY <1>2, <1>3, <1>4, <1>5, <1>6, <1>7, <1>8 DEF Next, rtpSendNALH265

(* The first fragment of a NAL unit alone has the S bit, the last alone the *)
(* E bit, and a NAL unit is never one fragment (CStreamer::rtpSendNALH265). *)
THEOREM FlagsCorrect == Spec => []FragmentFlags
<1>1. Init => FlagsInv
  <2> SUFFICES ASSUME Init PROVE FlagsInv
    OBVIOUS
  <2>1. \A s \in Sessions : wire[s] = <<>>
    BY DEF Init
  <2> QED
    BY <2>1 DEF FlagsInv
<1>2. FlagsInv => FragmentFlags
  BY DEF FlagsInv, FragmentFlags, GoodFragment
<1> QED
  BY <1>1, <1>2, StepFlags, TypeInvariant, PTL DEF Spec

-----------------------------------------------------------------------------
(* The stream of each session is unbroken, when no size of NAL units is     *)
(* both too long to aggregate and too short to fragment.                    *)

NoGap ==
  Aggregation => \A size \in NalSizes :
                   size + PayloadHdr + SizeField <= MaxPayload \/ size > MaxPayload

(* The NAL units already handed over and dealt with, and the first that no  *)
(* packet carries yet.                                                      *)
Before == IF stage = "idle" THEN Current ELSE Current - 1
NextUp == Before - Len(queued) + 1

(* buf holds the NAL units right before the current one, in order.          *)
QueueInv ==
  /\ \A i \in 1 .. Len(queued) : queued[i] = Before - Len(queued) + i
  /\ ~Aggregation => queued = <<>>

(* Fragments of the current NAL unit have been sent, and more are to come.  *)
MidNal == stage = "fragment" /\ offset > NalHdr

(* The packet a session was sent last is the one the next packet follows.   *)
JoinsOn(p) ==
  /\ (p.seq + 1) % SeqWrap = seq
  /\ Unfinished(p) <=> MidNal
  /\ MidNal => p.payload.nals = <<Current>> /\ p.payload.upto = offset /\ p.ts = timestamp
  /\ ~MidNal => LastNal(p) + 1 = NextUp

TailInv ==
  \A s \in streaming :
    /\ wire[s] = <<>> => ~MidNal
    /\ wire[s] # <<>> => JoinsOn(wire[s][Len(wire[s])])

StreamInv == Unbroken /\ QueueInv /\ TailInv

(* What a payload must be to be sent next, and what it must leave behind.   *)
ComesNext(f) ==
  /\ MidNal => f.kind = "fu" /\ ~f.start /\ f.nals = <<Current>> /\ f.from = offset
  /\ ~MidNal => (f.kind = "fu" => f.start) /\ f.nals[1] = NextUp

Leaves(f) ==
  /\ (f.kind = "fu" /\ ~f.end) <=> MidNal'
  /\ MidNal' => f.nals = <<Current'>> /\ f.upto = offset' /\ timestamp' = timestamp
  /\ ~MidNal' => f.nals[Len(f.nals)] + 1 = NextUp'

LEMMA SendUnbroken ==
  ASSUME TypeInv, Unbroken, TailInv, NEW payload \in Payload, NEW len \in Nat,
         rtpSendData(payload, len), ComesNext(payload)
  PROVE  Unbroken'
<1> DEFINE q == PacketOf(payload, len)
<1>1. q \in Packet /\ q.payload = payload /\ q.seq = seq /\ q.ts = timestamp
  BY SendType DEF PacketOf
<1>2. streaming \subseteq Sessions /\ \A s \in Sessions : wire[s] \in Seq(Packet)
  BY DEF TypeInv, TypeOK
<1>3. \A s \in Sessions : /\ s \in streaming => wire'[s] = Append(wire[s], q)
                          /\ s \notin streaming => wire'[s] = wire[s]
  BY SentFact
<1> HIDE DEF q
<1>4. ASSUME NEW s \in streaming, wire[s] # <<>>
      PROVE  Follows(wire[s][Len(wire[s])], q)
  BY <1>1, <1>4 DEF TailInv, JoinsOn, ComesNext, Follows, Continues, FirstNal
<1>5. ASSUME NEW s \in streaming, wire[s] = <<>>
      PROVE  ~Continues(q)
  BY <1>1, <1>5 DEF TailInv, ComesNext, Continues
<1>6. ASSUME NEW s \in Sessions, wire'[s] # <<>>
      PROVE  ~Continues(wire'[s][1])
  <2>1. CASE s \notin streaming
    BY <2>1, <1>3, <1>6 DEF Unbroken
  <2>2. CASE s \in streaming /\ wire[s] = <<>>
    <3>1. wire'[s][1] = q
      BY <2>2, <1>1, <1>3
    <3> QED
      BY <3>1, <2>2, <1>5
  <2>3. CASE s \in streaming /\ wire[s] # <<>>
    <3>1. wire[s] \in Seq(Packet) /\ wire'[s] = Append(wire[s], q)
      BY <2>3, <1>2, <1>3
    <3>2. wire'[s][1] = wire[s][1]
      BY <3>1, <2>3, <1>1
    <3> QED
      BY <3>2, <2>3 DEF Unbroken
  <2> QED
    BY <2>1, <2>2, <2>3
<1>7. ASSUME NEW s \in Sessions, NEW i \in 1 .. Len(wire'[s]) - 1
      PROVE  Follows(wire'[s][i], wire'[s][i + 1])
  <2>1. CASE s \notin streaming
    BY <2>1, <1>3, <1>7 DEF Unbroken
  <2>2. CASE s \in streaming
    <3>1. wire[s] \in Seq(Packet) /\ wire'[s] = Append(wire[s], q)
      BY <2>2, <1>2, <1>3
    <3>2. i \in 1 .. Len(wire[s]) /\ wire'[s][i] = wire[s][i] /\ wire[s] # <<>>
      BY <3>1, <1>1
    <3>3. CASE i = Len(wire[s])
      <4>1. wire'[s][i + 1] = q
        BY <3>1, <3>3, <1>1
      <4> QED
        BY <4>1, <3>2, <3>3, <2>2, <1>4
    <3>4. CASE i # Len(wire[s])
      <4>1. i \in 1 .. Len(wire[s]) - 1 /\ wire'[s][i + 1] = wire[s][i + 1]
        BY <3>1, <3>2, <3>4, <1>1
      <4> QED
        BY <4>1, <3>2 DEF Unbroken
    <3> QED
      BY <3>3, <3>4
  <2> QED
    BY <2>1, <2>2
<1> QED
  BY <1>6, <1>7 DEF Unbroken

LEMMA SendTail ==
  ASSUME TypeInv, NEW payload \in Payload, NEW len \in Nat,
         rtpSendData(payload, len), streaming' = streaming, Leaves(payload)
  PROVE  TailInv'
<1>1. PacketOf(payload, len) \in Packet
  BY SendType
<1>2. PICK q \in Packet : q = PacketOf(payload, len)
  BY <1>1
<1>3. q.payload = payload /\ q.seq = seq /\ q.ts = timestamp /\ seq' = (seq + 1) % SeqWrap
  BY <1>2 DEF PacketOf, rtpSendData
<1>4. ASSUME NEW s \in streaming
      PROVE  wire'[s] # <<>> /\ wire'[s][Len(wire'[s])] = q
  <2>1. wire[s] \in Seq(Packet) /\ wire'[s] = Append(wire[s], q)
    BY <1>2, SentFact DEF TypeInv, TypeOK
  <2>2. Append(wire[s], q) # <<>> /\ Append(wire[s], q)[Len(Append(wire[s], q))] = q
    BY <2>1
  <2> QED
    BY <2>1, <2>2
<1>5. JoinsOn(q)'
  BY <1>3 DEF JoinsOn, Leaves, Unfinished, LastNal
<1> QED
  BY <1>4, <1>5 DEF TailInv

LEMMA SendStream ==
  ASSUME TypeInv, StreamInv, NEW payload \in Payload, NEW len \in Nat,
         rtpSendData(payload, len), streaming' = streaming,
         ComesNext(payload), Leaves(payload)
  PROVE  StreamInv'
<1>1. Unbroken' /\ TailInv'
  BY SendUnbroken, SendTail DEF StreamInv
<1>2. queued' = <<>>
  BY DEF rtpSendData
<1>3. QueueInv'
  BY <1>2 DEF QueueInv
<1> QED
  BY <1>1, <1>3 DEF StreamInv

LEMMA QuietStream ==
  ASSUME StreamInv, wire' = wire, streaming' = streaming, seq' = seq,
         ~MidNal, ~MidNal', NextUp' = NextUp, QueueInv'
  PROVE  StreamInv'
<1>1. Unbroken'
  BY DEF StreamInv, Unbroken
<1>2. ASSUME NEW s \in streaming, wire[s] # <<>>
      PROVE  /\ (wire[s][Len(wire[s])].seq + 1) % SeqWrap = seq
             /\ ~Unfinished(wire[s][Len(wire[s])])
             /\ LastNal(wire[s][Len(wire[s])]) + 1 = NextUp
  BY <1>2 DEF StreamInv, TailInv, JoinsOn
<1>3. TailInv'
  BY <1>2 DEF TailInv, JoinsOn, Unfinished, LastNal
<1> QED
  BY <1>1, <1>3 DEF StreamInv

LEMMA SubmitStream ==
  ASSUME TypeInv, StreamInv, NEW size \in NalSizes, NEW flag \in LastFlags, Submit(size, flag)
  PROVE  StreamInv'
<1>1. /\ stage = "idle" /\ stage' = "call" /\ queued' = queued
      /\ wire' = wire /\ streaming' = streaming /\ seq' = seq
  BY DEF Submit, context
<1>2. Current' = Current + 1 /\ Current \in Nat
  BY DEF Submit, Current, TypeInv, TypeOK
<1>3. Before' = Before /\ NextUp' = NextUp
  BY <1>1, <1>2 DEF Before, NextUp
<1>4. QueueInv'
  BY <1>1, <1>3 DEF StreamInv, QueueInv
<1> QED
  BY <1>1, <1>3, <1>4, QuietStream DEF MidNal

LEMMA PlayStopStream ==
  ASSUME StreamInv, NEW s \in Sessions, Play(s) \/ Stop(s)
  PROVE  StreamInv'
<1>1. /\ stage = "idle" /\ stage' = stage /\ sizes' = sizes /\ queued' = queued
      /\ wire' = wire /\ seq' = seq
      /\ \A t \in streaming' : t \in streaming \/ wire[t] = <<>>
  BY DEF Play, Stop, context
<1>2. Before' = Before /\ NextUp' = NextUp /\ ~MidNal /\ ~MidNal'
  BY <1>1 DEF Before, NextUp, Current, MidNal
<1>3. Unbroken' /\ QueueInv'
  BY <1>1, <1>2 DEF StreamInv, Unbroken, QueueInv
<1>4. ASSUME NEW t \in streaming', wire[t] # <<>>
      PROVE  /\ (wire[t][Len(wire[t])].seq + 1) % SeqWrap = seq
             /\ ~Unfinished(wire[t][Len(wire[t])])
             /\ LastNal(wire[t][Len(wire[t])]) + 1 = NextUp
  BY <1>1, <1>2, <1>4 DEF StreamInv, TailInv, JoinsOn
<1>5. TailInv'
  BY <1>1, <1>2, <1>4 DEF TailInv, JoinsOn, Unfinished, LastNal
<1> QED
  BY <1>3, <1>5 DEF StreamInv

LEMMA AggregateStream ==
  ASSUME TypeInv, StreamInv, Aggregate
  PROVE  StreamInv'
<1>1. /\ stage = "call" /\ stage' = "idle" /\ sizes' = sizes /\ Aggregation
      /\ queued' = Append(queued, Current)
      /\ wire' = wire /\ streaming' = streaming /\ seq' = seq
  BY DEF Aggregate, Return, Aggregates
<1>2. Current \in Nat /\ queued \in Seq(Nal) /\ Current' = Current
  BY <1>1 DEF Current, TypeInv, TypeOK
<1>3. Before = Current - 1 /\ Before' = Current
  BY <1>1, <1>2 DEF Before
<1>4. NextUp' = NextUp
  BY <1>1, <1>2, <1>3 DEF NextUp
<1>5. QueueInv'
  BY <1>1, <1>2, <1>3 DEF StreamInv, QueueInv
<1> QED
  BY <1>1, <1>4, <1>5, QuietStream DEF MidNal

LEMMA BeginFragmentsStream ==
  ASSUME StreamInv, BeginFragments
  PROVE  StreamInv'
<1>1. /\ stage = "call" /\ stage' = "fragment" /\ sizes' = sizes /\ queued' = queued
      /\ wire' = wire /\ streaming' = streaming /\ seq' = seq /\ offset' = 2
  BY Constants DEF BeginFragments
<1>2. Before' = Before /\ NextUp' = NextUp /\ ~MidNal /\ ~MidNal'
  BY <1>1, Constants DEF Before, NextUp, Current, MidNal
<1>3. QueueInv'
  BY <1>1, <1>2 DEF StreamInv, QueueInv
<1> QED
  BY <1>1, <1>2, <1>3, QuietStream

(* When the queue is not empty its first NAL unit is the next one up, and   *)
(* its last the one before the current.                                     *)
LEMMA QueueFact ==
  ASSUME TypeInv, QueueInv, queued # <<>>
  PROVE  queued[1] = NextUp /\ queued[Len(queued)] = Before
<1>1. queued \in Seq(Nal) /\ Before \in Int /\ Len(queued) \in Nat /\ Len(queued) > 0
  BY DEF TypeInv, TypeOK, Before, Current
<1> QED
  BY <1>1 DEF QueueInv, NextUp

LEMMA FlushBufferStream ==
  ASSUME TypeInv, StreamInv, FlushBuffer
  PROVE  StreamInv'
<1>1. /\ stage = "call" /\ stage' = stage /\ sizes' = sizes /\ streaming' = streaming
      /\ rtpSendData(Whole("ap", queued), bufLen) /\ queued' = <<>>
  BY DEF FlushBuffer, rtpSendData
<1>2. queued # <<>> /\ bufLen \in Nat /\ queued \in Seq(Nal)
  BY DEF TypeInv, TypeOK, BufferInv, FlushBuffer, NoRoom
<1>3. Whole("ap", queued) \in Payload
  BY <1>1, <1>2, PayloadTypes
<1>4. ~MidNal /\ ~MidNal' /\ Before' = Before /\ NextUp' = Before + 1 /\ Before \in Int
  BY <1>1 DEF MidNal, Before, NextUp, Current, TypeInv, TypeOK
<1>5. ComesNext(Whole("ap", queued))
  BY <1>2, <1>4, QueueFact DEF StreamInv, ComesNext, Whole
<1>6. Leaves(Whole("ap", queued))
  BY <1>2, <1>4, QueueFact DEF StreamInv, Leaves, Whole
<1> QED
  BY <1>1, <1>2, <1>3, <1>5, <1>6, SendStream

LEMMA AggregateLastStream ==
  ASSUME TypeInv, StreamInv, AggregateLast
  PROVE  StreamInv'
<1> DEFINE nals == Append(queued, Current)
<1>1. /\ stage = "call" /\ stage' = "idle" /\ sizes' = sizes /\ streaming' = streaming
      /\ rtpSendData(Whole("ap", nals), NewLen) /\ queued' = <<>>
  BY DEF AggregateLast, Return, rtpSendData
<1>2. Current \in Nat /\ queued \in Seq(Nal) /\ Current \in Nal
  BY <1>1, CurrentFact DEF Current, TypeInv, TypeOK
<1>3. Size \in Nat /\ bufLen \in Nat
  BY <1>1, CurrentFact DEF TypeInv, TypeOK
<1>4. NewLen \in Nat
  BY <1>3, Constants DEF NewLen
<1>5. Whole("ap", nals) \in Payload
  BY <1>1, PayloadTypes
<1>6. /\ ~MidNal /\ ~MidNal' /\ Before = Current - 1 /\ NextUp' = Current + 1
  BY <1>1, <1>2 DEF MidNal, Before, NextUp, Current
<1>7. nals[Len(nals)] = Current
  BY <1>2
<1>8. nals[1] = NextUp
  <2>1. CASE queued = <<>>
    BY <2>1, <1>2, <1>6 DEF NextUp
  <2>2. CASE queued # <<>>
    BY <2>2, <1>2, QueueFact DEF StreamInv
  <2> QED
    BY <2>1, <2>2
<1> HIDE DEF nals
<1>9. ComesNext(Whole("ap", nals)) /\ Leaves(Whole("ap", nals))
  BY <1>6, <1>7, <1>8 DEF ComesNext, Leaves, Whole
<1> QED
  BY <1>1, <1>4, <1>5, <1>9, SendStream

(* Without the gap, buf is empty when a NAL unit is sent from where it is.  *)
LEMMA SendSingleStream ==
  ASSUME NoGap, TypeInv, StreamInv, SendSingle
  PROVE  StreamInv'
<1>1. /\ stage = "call" /\ stage' = "idle" /\ sizes' = sizes /\ streaming' = streaming
      /\ rtpSendData(Whole("single", <<Current>>), Size) /\ queued' = <<>>
      /\ Size <= MaxPayload /\ ~Aggregates
  BY DEF SendSingle, Return, rtpSendData
<1>2. /\ Current \in Nat /\ Size \in Nat /\ Size \in NalSizes
  BY <1>1, CurrentFact DEF Current, Size, TypeInv, TypeOK, StageInv
<1>3. Whole("single", <<Current>>) \in Payload
  BY <1>1, PayloadTypes
<1>4. queued = <<>>
  BY <1>1, <1>2, Constants DEF NoGap, Aggregates, StreamInv, QueueInv
<1>5. /\ ~MidNal /\ ~MidNal' /\ NextUp = Current /\ NextUp' = Current + 1
  BY <1>1, <1>2, <1>4 DEF MidNal, Before, NextUp, Current
<1>6. ComesNext(Whole("single", <<Current>>)) /\ Leaves(Whole("single", <<Current>>))
  BY <1>2, <1>5 DEF ComesNext, Leaves, Whole
<1> QED
  BY <1>1, <1>2, <1>3, <1>6, SendStream

LEMMA SendFragmentStream ==
  ASSUME TypeInv, StreamInv, SendFragment
  PROVE  StreamInv'
<1> DEFINE upto == offset + MaxPayload - FuHdr
<1>1. /\ stage = "fragment" /\ stage' = stage /\ sizes' = sizes /\ streaming' = streaming
      /\ rtpSendData(Fragment(offset, upto, FALSE), MaxPayload)
      /\ offset' = upto /\ timestamp' = timestamp
  BY DEF SendFragment
<1>2. /\ offset \in Nat /\ NalHdr <= offset /\ queued = <<>> /\ (fuStart <=> offset = NalHdr)
      /\ Current \in Nat
  BY <1>1 DEF TypeInv, TypeOK, FragmentInv, Current
<1>3. upto \in Nat /\ upto > NalHdr /\ MaxPayload \in Nat
  BY <1>2, Constants
<1> HIDE DEF upto
<1>4. \A from, to \in Nat, end \in BOOLEAN : Fragment(from, to, end) \in Payload
  BY <1>1, PayloadTypes
<1>5. Fragment(offset, upto, FALSE) \in Payload
  BY <1>2, <1>3, <1>4
<1>6. /\ MidNal <=> offset > NalHdr
      /\ MidNal' /\ NextUp = Current /\ Current' = Current
  BY <1>1, <1>2, <1>3 DEF MidNal, NextUp, Before, Current
<1>7. ComesNext(Fragment(offset, upto, FALSE))
  BY <1>2, <1>6, Constants DEF ComesNext, Fragment
<1>8. Leaves(Fragment(offset, upto, FALSE))
  BY <1>1, <1>6 DEF Leaves, Fragment
<1> QED
  BY <1>1, <1>3, <1>5, <1>7, <1>8, SendStream

LEMMA SendLastFragmentStream ==
  ASSUME TypeInv, StreamInv, SendLastFragment
  PROVE  StreamInv'
<1>1. /\ stage = "fragment" /\ stage' = "idle" /\ sizes' = sizes /\ streaming' = streaming
      /\ rtpSendData(Fragment(offset, Size, TRUE), Size - offset + FuHdr) /\ queued' = <<>>
  BY DEF SendLastFragment, Return, rtpSendData
<1>2. /\ offset \in Nat /\ NalHdr <= offset /\ queued = <<>> /\ (fuStart <=> offset = NalHdr)
      /\ Current \in Nat /\ Size \in Nat /\ offset < Size
  BY <1>1, CurrentFact DEF TypeInv, TypeOK, FragmentInv, Current
<1>3. \A from, to \in Nat, end \in BOOLEAN : Fragment(from, to, end) \in Payload
  BY <1>1, PayloadTypes
<1>4. Fragment(offset, Size, TRUE) \in Payload
  BY <1>2, <1>3
<1>5. Size - offset + FuHdr \in Nat
  BY <1>2, Constants
<1>6. /\ MidNal <=> offset > NalHdr
      /\ ~MidNal' /\ NextUp = Current /\ NextUp' = Current + 1
  BY <1>1, <1>2 DEF MidNal, NextUp, Before, Current
<1>7. ComesNext(Fragment(offset, Size, TRUE))
  BY <1>2, <1>6, Constants DEF ComesNext, Fragment
<1>8. Leaves(Fragment(offset, Size, TRUE))
  BY <1>2, <1>6 DEF Leaves, Fragment
<1> QED
  BY <1>1, <1>4, <1>5, <1>7, <1>8, SendStream

LEMMA UnchangedStream ==
  ASSUME StreamInv, UNCHANGED vars
  PROVE  StreamInv'
BY DEF StreamInv, vars, context, Unbroken, QueueInv, TailInv, JoinsOn, MidNal, NextUp,
       Before, Current, Unfinished, LastNal

LEMMA StepStream ==
  ASSUME NoGap
  PROVE  StreamInv /\ TypeInv /\ [Next]_vars => StreamInv'
<1> SUFFICES ASSUME StreamInv, TypeInv, [Next]_vars PROVE StreamInv'
  OBVIOUS
<1>1. CASE UNCHANGED vars
  BY <1>1, UnchangedStream
<1>2. CASE \E size \in NalSizes, flag \in LastFlags : Submit(size, flag)
  BY <1>2, SubmitStream
<1>3. CASE \E s \in Sessions : Play(s) \/ Stop(s)
  BY <1>3, PlayStopStream
<1>4. CASE rtpSendNALH265
  BY <1>4, FlushBufferStream, AggregateStream, AggregateLastStream, SendSingleStream,
     BeginFragmentsStream, SendFragmentStream, SendLastFragmentStream DEF rtpSendNALH265
<1> QED
  BY <1>1, <1>2, <1>3, <1>4 DEF Next

(* Each session is sent an unbroken stream of packets and of NAL units,     *)
(* however many sessions start and stop, when no NAL unit is of a size that *)
(* SendSingle sends past NAL units waiting in buf (rtpSendNALH265,          *)
(* rtpSendData).  Without aggregation that holds of every stream.           *)
THEOREM StreamUnbroken ==
  ASSUME NoGap
  PROVE  Spec => []Unbroken
<1>1. Init => StreamInv
  <2> SUFFICES ASSUME Init PROVE StreamInv
    OBVIOUS
  <2>1. queued = <<>> /\ streaming = {} /\ \A s \in Sessions : wire[s] = <<>>
    BY DEF Init
  <2> QED
    BY <2>1 DEF StreamInv, Unbroken, QueueInv, TailInv
<1>2. StreamInv => Unbroken
  BY DEF StreamInv
<1>3. StreamInv /\ TypeInv /\ [Next]_vars => StreamInv'
  BY StepStream
<1> QED
  BY <1>1, <1>2, <1>3, TypeInvariant, PTL DEF Spec
=============================================================================
