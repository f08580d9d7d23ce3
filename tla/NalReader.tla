------------------------------ MODULE NalReader -----------------------------
(***************************************************************************)
(* SelectNextNal (SimStreamer.cpp) and the loop of workerThread that reads *)
(* the file with it, again and again: one start code is searched, skipped, *)
(* and the next one searched; what lies between is handed to StreamNal.    *)
(*                                                                         *)
(* The search is StartcodeSearch, step by step.  When what comes next      *)
(* depends on memory outside the file, or a negative length is handed over *)
(* (memcpy then copies far past the end of both buffers), the worker is    *)
(* "lost": what it does is undefined.                                      *)
(***************************************************************************)
EXTENDS StartcodeSearch, FiniteSets

CONSTANT Streams   \* the files considered

ASSUME StreamsAssumption == Streams \subseteq Seq(Byte)

VARIABLES
  stage,  \* where SelectNextNal is, or "restart" behind it, or "lost"
  buf,    \* stream_buf
  size,   \* stream_len_temp
  nal,    \* r behind the start code
  sent    \* history: the NAL units of this pass through the file

reader == <<buf, size, sent>>
vars   == <<bytes, search, stage, nal, reader>>

TypeOK ==
  /\ SearchTypeOK
  /\ bytes \in Streams
  /\ stage \in {"select", "first", "next", "restart", "lost"}
  /\ buf \in Nat /\ size \in Int /\ nal \in Nat
  /\ sent \in Seq([from : Nat, len : Nat])

-----------------------------------------------------------------------------
(* SelectNextNal, and StreamNal behind it.                                 *)

\* an empty file: nothing is selected, nal stays nullptr and nal_len 0
ParamError ==
  /\ stage = "select" /\ size <= 0
  /\ sent' = Append(sent, [from |-> 0, len |-> 0])
  /\ stage' = "restart"
  /\ UNCHANGED <<bytes, search, nal, buf, size>>

SearchFirst ==
  /\ stage = "select" /\ size > 0
  /\ Call(buf, buf + size)
  /\ stage' = "first"
  /\ UNCHANGED <<bytes, nal, reader>>

\* a start code may begin at i, in the file or behind it, and end behind it
MayBegin(i) ==
  /\ i + 2 >= Len(bytes)
  /\ \A k \in 0 .. 2 : i + k < Len(bytes) => At(i + k) = <<0, 0, 1>>[k + 1]

\* where the next turn of the search looks for a start code
LookedAt ==
  IF loop = "words" THEN {p + k : k \in {j \in 0 .. 3 : p < end - 6}}
  ELSE {i \in {p} : i < end - 3 /\ (loop = "align" => i < Aligned)}

Unknown == (\E i \in LookedAt : MayBegin(i)) /\ ~\E i \in LookedAt : CodeAt(i)

Search ==
  /\ stage \in {"first", "next"} /\ ~Unknown
  /\ SearchStep
  /\ UNCHANGED <<bytes, stage, nal, reader>>

SearchRunsOut ==
  /\ stage \in {"first", "next"} /\ loop # "found" /\ Unknown
  /\ stage' = "lost"
  /\ UNCHANGED <<bytes, search, nal, reader>>

\* the bytes that while (!*(r++)) may stop at
NonZeroFrom(i) == {j \in i .. Len(bytes) - 1 : At(j) # 0}

\* mutant: the skip stops at the 01, as if every code had four bytes
SkipToOne ==
  /\ stage = "first" /\ loop = "found"
  /\ \E j \in NonZeroFrom(out) :
       /\ \A i \in NonZeroFrom(out) : j <= i
       /\ nal' = j
       /\ Call(j, end)
  /\ stage' = "next"
  /\ UNCHANGED <<bytes, reader>>

\* skip the start code: r ends one behind the first byte that is not zero
Skip ==
  /\ stage = "first" /\ loop = "found"
  /\ \E j \in NonZeroFrom(out) :
       /\ \A i \in NonZeroFrom(out) : j <= i
       /\ nal' = j + 1
       /\ Call(j + 1, end)
  /\ stage' = "next"
  /\ UNCHANGED <<bytes, reader>>

SkipRunsOut ==
  /\ stage = "first" /\ loop = "found" /\ NonZeroFrom(out) = {}
  /\ stage' = "lost"
  /\ UNCHANGED <<bytes, search, nal, reader>>

\* mutant: the end is not updated for the start code
DeliverLong ==
  /\ stage = "next" /\ loop = "found" /\ out \in nal .. Len(bytes)
  /\ sent' = Append(sent, [from |-> nal, len |-> out - nal])
  /\ buf' = out
  /\ size' = size - (out - nal)
  /\ stage' = IF size' <= 0 THEN "restart" ELSE "select"
  /\ UNCHANGED <<bytes, search, nal>>

\* mutant: the end found is taken for a place behind r
DeliverNegative ==
  /\ stage = "next" /\ loop = "found" /\ out <= Len(bytes)
  /\ sent' = Append(sent, [from |-> nal, len |-> out - nal])
  /\ buf' = out
  /\ size' = size - (out - nal) - 4
  /\ stage' = IF size' <= 0 THEN "restart" ELSE "select"
  /\ UNCHANGED <<bytes, search, nal>>

\* r_len = r1 - r; the size is reduced by the length and a start code of four
Deliver ==
  /\ stage = "next" /\ loop = "found" /\ out \in nal .. Len(bytes)
  /\ sent' = Append(sent, [from |-> nal, len |-> out - nal])
  /\ buf' = out
  /\ size' = size - (out - nal) - 4
  /\ stage' = IF size' <= 0 THEN "restart" ELSE "select"
  /\ UNCHANGED <<bytes, search, nal>>

\* a negative length, or bytes from behind the file
DeliverOutside ==
  /\ stage = "next" /\ loop = "found" /\ out \notin nal .. Len(bytes)
  /\ stage' = "lost"
  /\ UNCHANGED <<bytes, search, nal, reader>>

\* stream_len_temp <= 0: the file is streamed again
RestartFile ==
  /\ stage = "restart"
  /\ buf' = 0 /\ size' = Len(bytes) /\ sent' = <<>>
  /\ stage' = "select"
  /\ UNCHANGED <<bytes, search, nal>>

-----------------------------------------------------------------------------
Init ==
  /\ bytes \in Streams
  /\ from = 0 /\ end = 0 /\ p = 0 /\ loop = "found" /\ out = 0
  /\ stage = "select"
  /\ buf = 0 /\ size = Len(bytes) /\ nal = 0
  /\ sent = <<>>

SelectNextNal ==
  \/ ParamError \/ SearchFirst \/ Search \/ SearchRunsOut
  \/ Skip \/ SkipRunsOut \/ Deliver \/ DeliverOutside

Next == SelectNextNal \/ RestartFile

\* the worker is not stopped (NAL units are selected as long as a session lives)
Spec == Init /\ [][Next]_vars /\ WF_vars(Next)

-----------------------------------------------------------------------------
(* The NAL units of a file, as the byte stream format has them.            *)

CodePositions == {i \in 0 .. Len(bytes) - 3 : CodeAt(i)}

\* where the start code at i begins: the zero in front belongs to it
CodeStart(i) == IF i > 0 /\ At(i - 1) = 0 THEN i - 1 ELSE i

UnitAt(i) ==
  LET later == {CodeStart(j) : j \in {k \in CodePositions : k > i}}
      upto  == CHOOSE u \in later \cup {Len(bytes)} :
                 \A v \in later \cup {Len(bytes)} : u <= v
  IN  [from |-> i + 3, len |-> upto - (i + 3)]

\* the n-th NAL unit of the file is the one behind the n-th start code
NthCode(n) ==
  CHOOSE i \in CodePositions : Cardinality({j \in CodePositions : j < i}) = n - 1

FileUnits == [n \in 1 .. Cardinality(CodePositions) |-> UnitAt(NthCode(n))]

\* NAL units that are not empty, the file beginning with a start code
WellFormed ==
  /\ CodePositions # {} /\ \A i \in CodePositions : UnitAt(i).len > 0
  /\ bytes[1] = 0 /\ (CodeAt(0) \/ CodeAt(1))
  /\ bytes[Len(bytes)] # 0

FourByteCodes == \A i \in CodePositions : CodeStart(i) = i - 1

-----------------------------------------------------------------------------
(* Properties.                                                             *)

\* A pass through a file whose start codes all have four bytes hands over each
\* of its NAL units, whole, once and in order: the size that SelectNextNal
\* counts down stays the distance to the end of the file.
EveryUnit ==
  WellFormed /\ FourByteCodes =>
    /\ stage # "lost"
    /\ stage = "restart" => sent = FileUnits

\* Start codes of three bytes cost the end of a pass and nothing before it: up to
\* the last NAL unit handed over, each is the next one of the file, whole, and
\* the last begins where the next one does (the countdown of size).
UnitsInOrder ==
  WellFormed =>
    /\ Len(sent) <= Len(FileUnits)
    /\ \A n \in 1 .. Len(sent) :
         /\ sent[n].from = FileUnits[n].from
         /\ n < Len(sent) => sent[n] = FileUnits[n]

\* Whatever the file holds, a pass ends and the file is streamed again, or the
\* worker is lost (stream_len_temp in workerThread reaches zero).
FileRestarts == []<>(stage \in {"restart", "lost"})

\* "query the complete NAL and send it until all NAL in this stream is sent"
\* (RTPEnc.cpp): a pass hands over all NAL units of a file with start codes of
\* three or four bytes.
AllUnits ==
  WellFormed =>
    /\ stage # "lost"
    /\ stage = "restart" => sent = FileUnits
=============================================================================
