---------------------------- MODULE RtpPacketizer ---------------------------
(***************************************************************************)
(* CStreamer::rtpSendNALH265 and rtpSendData: how one NAL unit after       *)
(* another becomes RTP packets for the streaming sessions of a worker.     *)
(*                                                                         *)
(* A NAL unit is its number and its size; a packet says which bytes of     *)
(* which NAL units it carries.  Each rtpSendData is a step of its own.     *)
(* The worker's loop (main.cpp) hands over the next NAL unit, and steps    *)
(* the timestamp, only when the last one is done; sessions start and stop  *)
(* streaming between two NAL units.                                        *)
(***************************************************************************)
EXTENDS Integers, Sequences

CONSTANTS
  Sessions,    \* the clients of the worker
  MaxPayload,  \* RTP_PAYLOAD_MAX, 1400
  Aggregation, \* the aggregation field of RTPMuxContext
  LastFlags,   \* values of the argument last; {0} in SimStreamer
  NalSizes,    \* sizes of the NAL units in the stream
  SeqWrap,     \* 2^16
  TsWrap,      \* 2^32, the range of timestamp
  TsStep,      \* 90000 / 30
  MaxNals      \* bound: NAL units handed over

ASSUME PacketizerAssumption ==
  /\ MaxPayload \in Nat /\ MaxPayload > 4
  /\ Aggregation \in BOOLEAN /\ LastFlags \subseteq {0, 1}
  /\ NalSizes \subseteq Nat \ {0} /\ MaxNals \in Nat
  /\ SeqWrap \in Nat \ {0} /\ TsWrap \in Nat /\ TsStep \in Nat
  /\ 0 < TsStep /\ TsStep < TsWrap

PayloadHdr == 2   \* the first two bytes of an aggregation packet
SizeField  == 2   \* NALU size
NalHdr     == 2   \* the NAL header that FU packets replace
FuHdr      == 3   \* header_Size

VARIABLES
  stage,      \* "idle", in rtpSendNALH265 ("call"), in its while loop ("fragment")
  sizes,      \* the sizes of the NAL units handed over, the current one last
  last,       \* the argument last of the current call
  queued,     \* the NAL units copied to buf for an aggregation packet
  bufLen,     \* buf_ptr - buf
  offset,     \* bytes of the current NAL unit that fragments cover
  fuStart,    \* the S bit in buf[2]
  seq,        \* ctx->seq
  timestamp,  \* ctx->timestamp
  streaming,  \* the sessions with m_streaming and not m_stopped
  wire        \* the packets sent to each session

context == <<queued, bufLen, offset, fuStart>>
vars    == <<stage, sizes, last, context, seq, timestamp, streaming, wire>>

Current == Len(sizes)
Size    == sizes[Current]

Nal == 1 .. MaxNals
Payload == [kind : {"single", "ap", "fu"}, nals : Seq(Nal),
            from : Nat, upto : Nat, start : BOOLEAN, end : BOOLEAN]
Packet  == [payload : Payload, len : Nat, seq : 0 .. SeqWrap - 1, ts : 0 .. TsWrap - 1]

TypeOK ==
  /\ stage \in {"idle", "call", "fragment"}
  /\ sizes \in Seq(NalSizes) /\ Len(sizes) <= MaxNals
  /\ last \in {0, 1}
  /\ queued \in Seq(Nal)
  /\ bufLen \in Nat
  /\ offset \in Nat
  /\ fuStart \in BOOLEAN
  /\ seq \in 0 .. SeqWrap - 1
  /\ timestamp \in 0 .. TsWrap - 1
  /\ streaming \subseteq Sessions
  /\ wire \in [Sessions -> Seq(Packet)]

-----------------------------------------------------------------------------
(* rtpSendData.                                                            *)

\* the RTP header before the payload
PacketOf(payload, len) ==
  [payload |-> payload, len |-> len, seq |-> seq, ts |-> timestamp]

SendToAll(packet) ==
  wire' = [s \in Sessions |->
             IF s \in streaming THEN Append(wire[s], packet) ELSE wire[s]]

\* mutant: seq is not masked
rtpSendDataUnmasked(payload, len) ==
  /\ SendToAll(PacketOf(payload, len))
  /\ queued' = <<>> /\ bufLen' = 0
  /\ seq' = seq + 1

\* buf_ptr goes back to the start of buf, whatever was sent
rtpSendData(payload, len) ==
  /\ SendToAll(PacketOf(payload, len))
  /\ queued' = <<>> /\ bufLen' = 0
  /\ seq' = (seq + 1) % SeqWrap

Whole(kind, nals) ==
  [kind |-> kind, nals |-> nals, from |-> 0, upto |-> 0, start |-> FALSE, end |-> FALSE]

\* bytes from + 1 to upto of the current NAL unit, with the flags of the FU header
Fragment(from, upto, end) ==
  [kind |-> "fu", nals |-> <<Current>>, from |-> from, upto |-> upto,
   start |-> fuStart, end |-> end]

-----------------------------------------------------------------------------
(* The worker's loop.                                                      *)

\* StreamNal is called with the next NAL unit
Submit(size, flag) ==
  /\ stage = "idle" /\ Current < MaxNals
  /\ stage' = "call"
  /\ sizes' = Append(sizes, size)
  /\ last' = flag
  /\ UNCHANGED <<context, seq, timestamp, streaming, wire>>

\* timestamp += 90000.0 / 30 is done in double: out of range it is undefined,
\* and the conversion wraps on one processor and saturates on another
NextTimestamps ==
  IF timestamp + TsStep < TsWrap THEN {timestamp + TsStep}
  ELSE {(timestamp + TsStep) % TsWrap, TsWrap - 1}

\* StreamNal returns, and the loop steps the timestamp
Return == stage' = "idle" /\ timestamp' \in NextTimestamps

\* m_streaming is never cleared: a session plays once, until it is deleted
Play(s) ==
  /\ stage = "idle" /\ s \notin streaming
  /\ wire[s] = <<>>
  /\ streaming' = streaming \cup {s}
  /\ UNCHANGED <<stage, sizes, last, context, seq, timestamp, wire>>

Stop(s) ==
  /\ stage = "idle" /\ s \in streaming
  /\ streaming' = streaming \ {s}
  /\ UNCHANGED <<stage, sizes, last, context, seq, timestamp, wire>>

-----------------------------------------------------------------------------
(* rtpSendNALH265: single NAL unit packets and aggregation packets.        *)

Aggregates == Aggregation /\ Size + PayloadHdr + SizeField <= MaxPayload

\* mutant: the NALU size field is not counted
NoRoomForNal == bufLen # 0 /\ bufLen + Size > MaxPayload

\* the current NAL unit does not fit behind what is in buf
NoRoom == bufLen # 0 /\ bufLen + SizeField + Size > MaxPayload

\* buf is sent when the next NAL unit does not fit, or is to be fragmented
FlushBuffer ==
  /\ stage = "call"
  /\ \/ Aggregates /\ NoRoom
     \/ Size > MaxPayload /\ bufLen > 0
  /\ rtpSendData(Whole("ap", queued), bufLen)
  /\ UNCHANGED <<stage, sizes, last, offset, fuStart, timestamp, streaming>>

NewLen == (IF bufLen = 0 THEN PayloadHdr ELSE bufLen) + SizeField + Size

Aggregate ==
  /\ stage = "call" /\ Aggregates /\ ~NoRoom
  /\ last # 1
  /\ queued' = Append(queued, Current) /\ bufLen' = NewLen
  /\ Return
  /\ UNCHANGED <<sizes, last, offset, fuStart, seq, streaming, wire>>

AggregateLast ==
  /\ stage = "call" /\ Aggregates /\ ~NoRoom
  /\ last = 1
  /\ rtpSendData(Whole("ap", Append(queued, Current)), NewLen)
  /\ Return
  /\ UNCHANGED <<sizes, last, offset, fuStart, streaming>>

\* sent from where it is; buf_ptr is reset all the same
SendSingle ==
  /\ stage = "call" /\ Size <= MaxPayload /\ ~Aggregates
  /\ rtpSendData(Whole("single", <<Current>>), Size)
  /\ Return
  /\ UNCHANGED <<sizes, last, offset, fuStart, streaming>>

-----------------------------------------------------------------------------
(* rtpSendNALH265: fragmentation units.                                    *)

\* mutant: buf is not sent before the first fragment overwrites it
BeginFragmentsDirty ==
  /\ stage = "call" /\ Size > MaxPayload
  /\ stage' = "fragment"
  /\ offset' = NalHdr /\ fuStart' = TRUE
  /\ UNCHANGED <<sizes, last, queued, bufLen, seq, timestamp, streaming, wire>>

BeginFragments ==
  /\ stage = "call" /\ Size > MaxPayload /\ bufLen = 0
  /\ stage' = "fragment"
  /\ offset' = NalHdr /\ fuStart' = TRUE
  /\ UNCHANGED <<sizes, last, queued, bufLen, seq, timestamp, streaming, wire>>

\* mutant: the S bit is not cleared
SendFragmentStart ==
  /\ stage = "fragment" /\ Size - offset + FuHdr > MaxPayload
  /\ rtpSendData(Fragment(offset, offset + MaxPayload - FuHdr, FALSE), MaxPayload)
  /\ offset' = offset + MaxPayload - FuHdr
  /\ UNCHANGED <<stage, sizes, last, fuStart, timestamp, streaming>>

\* mutant: nal moves by RTP_PAYLOAD_MAX
SendFragmentSkip ==
  /\ stage = "fragment" /\ Size - offset + FuHdr > MaxPayload
  /\ rtpSendData(Fragment(offset, offset + MaxPayload - FuHdr, FALSE), MaxPayload)
  /\ offset' = offset + MaxPayload
  /\ fuStart' = FALSE
  /\ UNCHANGED <<stage, sizes, last, timestamp, streaming>>

SendFragment ==
  /\ stage = "fragment" /\ Size - offset + FuHdr > MaxPayload
  /\ rtpSendData(Fragment(offset, offset + MaxPayload - FuHdr, FALSE), MaxPayload)
  /\ offset' = offset + MaxPayload - FuHdr
  /\ fuStart' = FALSE
  /\ UNCHANGED <<stage, sizes, last, timestamp, streaming>>

\* mutant: the loop compares size without header_Size
SendLastFragmentLong ==
  /\ stage = "fragment" /\ Size - offset <= MaxPayload
  /\ rtpSendData(Fragment(offset, Size, TRUE), Size - offset + FuHdr)
  /\ Return
  /\ UNCHANGED <<sizes, last, offset, fuStart, streaming>>

SendLastFragment ==
  /\ stage = "fragment" /\ Size - offset + FuHdr <= MaxPayload
  /\ rtpSendData(Fragment(offset, Size, TRUE), Size - offset + FuHdr)
  /\ Return
  /\ UNCHANGED <<sizes, last, offset, fuStart, streaming>>

-----------------------------------------------------------------------------
Init ==
  /\ stage = "idle"
  /\ sizes = <<>>
  /\ last = 0
  /\ queued = <<>> /\ bufLen = 0
  /\ offset = 0 /\ fuStart = FALSE
  /\ seq = 0 /\ timestamp = 0
  /\ streaming = {}
  /\ wire = [s \in Sessions |-> <<>>]

rtpSendNALH265 ==
  \/ FlushBuffer \/ Aggregate \/ AggregateLast \/ SendSingle
  \/ BeginFragments \/ SendFragment \/ SendLastFragment

Next ==
  \/ \E size \in NalSizes, flag \in LastFlags : Submit(size, flag)
  \/ \E s \in Sessions : Play(s) \/ Stop(s)
  \/ rtpSendNALH265

\* the call runs to its end
Spec == Init /\ [][Next]_vars /\ WF_vars(rtpSendNALH265)

-----------------------------------------------------------------------------
(* Properties.                                                             *)

\* a packet that leaves its NAL unit unfinished, or goes on with one
Unfinished(p) == p.payload.kind = "fu" /\ ~p.payload.end
Continues(p)  == p.payload.kind = "fu" /\ ~p.payload.start

FirstNal(p) == p.payload.nals[1]
LastNal(p)  == p.payload.nals[Len(p.payload.nals)]

\* q may come right after p: the next sequence number modulo 2^16, and either
\* the next bytes of the same NAL unit, with the same timestamp, or the start
\* of the NAL unit after it
Follows(p, q) ==
  /\ q.seq = (p.seq + 1) % SeqWrap
  /\ IF Unfinished(p)
       THEN /\ Continues(q)
            /\ q.payload.nals = p.payload.nals
            /\ q.payload.from = p.payload.upto
            /\ q.ts = p.ts
       ELSE ~Continues(q) /\ FirstNal(q) = LastNal(p) + 1

\* What each session is sent is an unbroken stream: no packet and no NAL unit is
\* missing, repeated or out of order, the fragments of a NAL unit are in one
\* piece, and a session that starts to stream late does not start in the middle
\* of a NAL unit (rtpSendNALH265, rtpSendData, handleRequests).
Unbroken ==
  \A s \in Sessions :
    /\ wire[s] # <<>> => ~Continues(wire[s][1])
    /\ \A i \in 1 .. Len(wire[s]) - 1 : Follows(wire[s][i], wire[s][i + 1])

\* Every packet fits: no payload is empty or longer than RTP_PAYLOAD_MAX, and
\* buf_ptr never leaves buf.
FitsBuffer ==
  /\ bufLen <= MaxPayload
  /\ \A s \in Sessions : \A i \in 1 .. Len(wire[s]) : wire[s][i].len \in 1 .. MaxPayload

\* The S bit is on the first fragment of a NAL unit and on no other, the E bit
\* on its last and on no other, and no fragment is both.
FragmentFlags ==
  \A s \in Sessions : \A i \in 1 .. Len(wire[s]) :
    LET f == wire[s][i].payload IN
    f.kind = "fu" =>
      /\ f.start <=> f.from = NalHdr
      /\ f.end <=> f.upto = sizes[f.nals[1]]
      /\ f.from < f.upto /\ ~(f.start /\ f.end)
=============================================================================
