--------------------------- MODULE NalReaderProofs --------------------------
(* Theorems about NalReader and the search it uses, for files of any length *)
(* and content.                                                             *)
EXTENDS NalReader, TLAPS, FiniteSetTheorems, WellFoundedInduction, NaturalsInduction

\* no start code begins between the argument p and the loop variable
NoneBefore(q) == \A i \in from .. q - 1 : ~CodeAt(i)

(* Each loop has passed no start code, and the words begin aligned unless    *)
(* the end is near.                                                         *)
LoopInv ==
  /\ loop = "align" => p <= Aligned
  /\ loop = "words" => p % 4 = 0 \/ p >= end - 3
  /\ loop # "found" => from <= p /\ NoneBefore(p)

\* the search is called, and is over, at these points of SelectNextNal
StageInv == stage \in {"select", "restart"} => loop = "found"

SearchInv == LoopInv /\ StageInv /\ FoundFirst

IInv == TypeOK /\ SearchInv

LEMMA AlignedFact ==
  ASSUME NEW n \in Nat
  PROVE  LET a == n + 4 - (n % 4) IN a \in Nat /\ n < a /\ a % 4 = 0
OBVIOUS

(* What a search returns for a start code at q, the first one.               *)
LEMMA ReturnFirst ==
  ASSUME TypeOK, NEW q \in Nat, FirstCode(q), Return(q), UNCHANGED bytes
  PROVE  FoundFirst' /\ out' \in Nat /\ loop' = "found"
<1>1. /\ from' = from /\ end' = end /\ p' = p /\ bytes' = bytes
      /\ loop' = "found" /\ out' = LookBack(q)
  BY DEF Return
<1>2. \A i \in Int : At(i)' = At(i) /\ (CodeAt(i)' <=> CodeAt(i))
  BY <1>1 DEF At, CodeAt
<1>3. from \in Nat /\ end \in Int /\ from <= q /\ q < end - 3
  BY DEF TypeOK, SearchTypeOK, FirstCode
<1>4. CASE from < q /\ At(q - 1) = 0
  <2>1. out' = q - 1
    BY <1>1, <1>3, <1>4 DEF LookBack
  <2>2. FirstCode(out + 1)' /\ (from <= out)' /\ (At(out) = 0)'
    BY <2>1, <1>1, <1>3, <1>4 DEF FirstCode, CodeAt, At
  <2> QED
    BY <2>1, <2>2, <1>1, <1>3, <1>4 DEF FoundFirst
<1>5. CASE ~(from < q /\ At(q - 1) = 0)
  <2>1. out' = q
    BY <1>1, <1>3, <1>5 DEF LookBack
  <2>2. FirstCode(out)'
    <3>1. (from <= out /\ out < end - 3)'
      BY <2>1, <1>1, <1>3
    <3>2. CodeAt(q) /\ \A i \in from .. q - 1 : ~CodeAt(i)
      BY DEF FirstCode
    <3>3. CodeAt(out)'
      <4>1. CodeAt(q)'
        BY <3>2, <1>2, <1>3
      <4> QED
        BY <2>1, <4>1 DEF CodeAt, At
    <3>4. (\A i \in from .. out - 1 : ~CodeAt(i))'
      BY <2>1, <3>2, <1>1 DEF CodeAt, At
    <3> QED
      BY <3>1, <3>3, <3>4 DEF FirstCode
  <2>3. (out = from \/ At(out - 1) # 0)'
    <3>1. q = from \/ At(q - 1) # 0
      BY <1>3, <1>5
    <3> QED
      BY <2>1, <1>1, <3>1 DEF At
  <2> QED
    BY <2>1, <2>2, <2>3, <1>1 DEF FoundFirst
<1> QED
  BY <1>4, <1>5

LEMMA AdvanceInv ==
  ASSUME TypeOK, SearchInv, loop # "found", NEW n \in Nat, Advance(n), UNCHANGED bytes,
         \A k \in 0 .. n - 1 : ~CodeAt(p + k)
  PROVE  (from <= p)' /\ NoneBefore(p)'
<1>1. p' = p + n /\ from' = from /\ bytes' = bytes
  BY DEF Advance
<1>2. \A i \in Int : CodeAt(i)' <=> CodeAt(i)
  BY <1>1 DEF At, CodeAt
<1>3. from \in Nat /\ p \in Nat /\ from <= p /\ \A i \in from .. p - 1 : ~CodeAt(i)
  BY DEF TypeOK, SearchTypeOK, SearchInv, LoopInv, NoneBefore
<1>4. \A i \in from .. p + n - 1 : ~CodeAt(i)
  <2> SUFFICES ASSUME NEW i \in from .. p + n - 1, i >= p PROVE ~CodeAt(i)
    BY <1>3
  <2>1. i - p \in 0 .. n - 1 /\ p + (i - p) = i
    BY <1>3
  <2> QED
    BY <2>1
<1> QED
  BY <1>1, <1>2, <1>3, <1>4 DEF NoneBefore

LEMMA LeaveInv ==
  ASSUME SearchInv, loop # "found", NEW l, Leave(l), UNCHANGED bytes
  PROVE  (from <= p)' /\ NoneBefore(p)' /\ loop' = l
BY DEF SearchInv, LoopInv, NoneBefore, Leave, CodeAt, At

(* A hit in the word at p is the first start code of the range.              *)
LEMMA HitFirst ==
  ASSUME TypeOK, SearchInv, loop # "found", NEW k \in 0 .. 3, p + k < end - 3,
         CodeAt(p + k), \A j \in 0 .. k - 1 : ~CodeAt(p + j)
  PROVE  FirstCode(p + k)
<1>1. from \in Nat /\ p \in Nat /\ end \in Int /\ from <= p /\ \A i \in from .. p - 1 : ~CodeAt(i)
  BY DEF TypeOK, SearchTypeOK, SearchInv, LoopInv, NoneBefore
<1>2. ASSUME NEW i \in from .. p + k - 1 PROVE ~CodeAt(i)
  <2>1. CASE i < p
    BY <1>1, <2>1
  <2>2. CASE i >= p
    <3>1. i - p \in 0 .. k - 1 /\ p + (i - p) = i
      BY <1>1, <2>2
    <3> QED
      BY <3>1
  <2> QED
    BY <1>1, <2>1, <2>2
<1> QED
  BY <1>1, <1>2 DEF FirstCode

(* A start code that begins in a word has a zero in it: the test of the      *)
(* whole word passes over no start code.                                    *)
LEMMA WordTest ==
  ASSUME NEW k \in 0 .. 3
  PROVE  k \in InWordHits <=> CodeAt(p + k)
BY DEF InWordHits, ZeroInWord, CodeAt

LEMMA AlignStep ==
  ASSUME TypeOK, SearchInv, Align, UNCHANGED bytes
  PROVE  SearchTypeOK' /\ LoopInv' /\ FoundFirst'
<1> USE DEF TypeOK, SearchTypeOK
<1>1. CASE p < Aligned /\ p < end - 3 /\ CodeAt(p) /\ Return(p)
  <2>1. FirstCode(p)
    BY <1>1, HitFirst DEF Align
  <2>2. FoundFirst' /\ out' \in Nat /\ loop' = "found"
    BY <1>1, <2>1, ReturnFirst
  <2> QED
    BY <1>1, <2>2 DEF LoopInv, Return
<1>2. CASE p < Aligned /\ p < end - 3 /\ ~CodeAt(p) /\ Advance(1)
  <2>1. (from <= p)' /\ NoneBefore(p)'
    BY <1>2, AdvanceInv DEF Align
  <2>2. p' = p + 1 /\ from' = from /\ loop' = "align" /\ end' = end /\ out' = out
    BY <1>2 DEF Advance, Align
  <2>3. p' <= Aligned'
    BY <1>2, <2>2, AlignedFact DEF Aligned
  <2> QED
    BY <2>1, <2>2, <2>3 DEF LoopInv, FoundFirst
<1>3. CASE ~(p < Aligned /\ p < end - 3) /\ Leave("words")
  <2>1. (from <= p)' /\ NoneBefore(p)' /\ loop' = "words"
    BY <1>3, LeaveInv DEF Align
  <2>2. p' = p /\ end' = end /\ from' = from /\ out' = out
    BY <1>3 DEF Leave
  <2>3. p % 4 = 0 \/ p >= end - 3
    <3>1. p <= Aligned
      BY DEF Align, SearchInv, LoopInv
    <3>2. Aligned \in Nat /\ Aligned % 4 = 0
      BY AlignedFact DEF Aligned
    <3> QED
      BY <1>3, <3>1, <3>2
  <2> QED
    BY <2>1, <2>2, <2>3 DEF LoopInv, FoundFirst
<1> QED
  BY <1>1, <1>2, <1>3 DEF Align

LEMMA WordsStep ==
  ASSUME TypeOK, SearchInv, Words, UNCHANGED bytes
  PROVE  SearchTypeOK' /\ LoopInv' /\ FoundFirst'
<1> USE DEF TypeOK, SearchTypeOK
<1>1. ASSUME NEW k \in 0 .. 3, p < end - 6, k \in InWordHits,
             \A j \in InWordHits : k <= j, Return(p + k)
      PROVE  SearchTypeOK' /\ LoopInv' /\ FoundFirst'
  <2>1. CodeAt(p + k)
    BY <1>1, WordTest
  <2>2. \A j \in 0 .. k - 1 : ~CodeAt(p + j)
    <3> SUFFICES ASSUME NEW j \in 0 .. k - 1, CodeAt(p + j) PROVE FALSE
      OBVIOUS
    <3>1. j \in 0 .. 3 /\ j < k
      OBVIOUS
    <3>2. j \in InWordHits
      BY <3>1, WordTest
    <3> QED
      BY <3>1, <3>2, <1>1
  <2>3. p + k < end - 3 /\ p + k \in Nat
    BY <1>1
  <2>4. FirstCode(p + k)
    BY <2>1, <2>2, <2>3, HitFirst DEF Words
  <2>5. FoundFirst' /\ out' \in Nat /\ loop' = "found"
    BY <1>1, <2>3, <2>4, ReturnFirst
  <2> QED
    BY <1>1, <2>5 DEF LoopInv, Return
<1>2. CASE p < end - 6 /\ InWordHits = {} /\ Advance(4)
  <2>1. \A k \in 0 .. 3 : ~CodeAt(p + k)
    BY <1>2, WordTest
  <2>2. (from <= p)' /\ NoneBefore(p)'
    <3>1. 4 \in Nat /\ 0 .. 4 - 1 = 0 .. 3
      OBVIOUS
    <3> QED
      BY <1>2, <2>1, <3>1, AdvanceInv DEF Words
  <2>3. p' = p + 4 /\ from' = from /\ loop' = "words" /\ end' = end /\ out' = out
    BY <1>2 DEF Advance, Words
  <2>4. p % 4 = 0
    BY <1>2 DEF SearchInv, LoopInv, Words
  <2>5. (p + 4) % 4 = 0
    BY <2>4
  <2> QED
    BY <2>2, <2>3, <2>5 DEF LoopInv, FoundFirst
<1>3. CASE ~(p < end - 6) /\ Leave("tail")
  <2>1. (from <= p)' /\ NoneBefore(p)' /\ loop' = "tail"
    BY <1>3, LeaveInv DEF Words
  <2> QED
    BY <1>3, <2>1 DEF LoopInv, FoundFirst, Leave
<1> QED
  BY <1>1, <1>2, <1>3 DEF Words

LEMMA TailStep ==
  ASSUME TypeOK, SearchInv, TailBytes, UNCHANGED bytes
  PROVE  SearchTypeOK' /\ LoopInv' /\ FoundFirst'
<1> USE DEF TypeOK, SearchTypeOK
<1>1. CASE p < end - 3 /\ CodeAt(p) /\ Return(p)
  <2>1. FirstCode(p)
    BY <1>1, HitFirst DEF TailBytes
  <2>2. FoundFirst' /\ out' \in Nat /\ loop' = "found"
    BY <1>1, <2>1, ReturnFirst
  <2> QED
    BY <1>1, <2>2 DEF LoopInv, Return
<1>2. CASE p < end - 3 /\ ~CodeAt(p) /\ Advance(1)
  <2>1. (from <= p)' /\ NoneBefore(p)'
    BY <1>2, AdvanceInv DEF TailBytes
  <2> QED
    BY <1>2, <2>1 DEF LoopInv, FoundFirst, Advance, TailBytes
<1>3. CASE ~(p < end - 3) /\ Return(end)
  <2>1. /\ out' = end /\ end' = end /\ from' = from /\ p' = p
        /\ loop' = "found" /\ bytes' = bytes
    BY <1>3 DEF Return, LookBack
  <2>2. \A i \in from .. end - 4 : ~CodeAt(i)
    BY <1>3 DEF SearchInv, LoopInv, NoneBefore, TailBytes
  <2>3. (\A i \in from .. end - 4 : ~CodeAt(i))'
    BY <2>1, <2>2 DEF CodeAt, At
  <2> QED
    BY <2>1, <2>3 DEF LoopInv, FoundFirst
<1> QED
  BY <1>1, <1>2, <1>3 DEF TailBytes

-----------------------------------------------------------------------------
(* The steps of SelectNextNal around the search.                            *)

LEMMA SearchUnchanged ==
  ASSUME TypeOK, SearchInv, UNCHANGED <<bytes, search>>
  PROVE  SearchTypeOK' /\ LoopInv' /\ FoundFirst'
BY DEF TypeOK, SearchTypeOK, SearchInv, LoopInv, NoneBefore, FoundFirst, FirstCode,
       CodeAt, At, Aligned, search

LEMMA CallInv ==
  ASSUME TypeOK, NEW f \in Nat, NEW e \in Nat, Call(f, e), UNCHANGED bytes
  PROVE  SearchTypeOK' /\ LoopInv' /\ FoundFirst' /\ loop' = "align"
<1>1. /\ from' = f /\ end' = e /\ p' = f /\ loop' = "align"
      /\ out' = out /\ bytes' = bytes
  BY DEF Call
<1>2. f <= Aligned'
  BY <1>1, AlignedFact DEF Aligned
<1> QED
  BY <1>1, <1>2 DEF TypeOK, SearchTypeOK, LoopInv, NoneBefore, FoundFirst

LEMMA Initial == Init => IInv
<1> SUFFICES ASSUME Init PROVE IInv
  OBVIOUS
<1>1. bytes \in Seq(Byte)
  BY StreamsAssumption DEF Init
<1>2. TypeOK
  BY <1>1 DEF Init, TypeOK, SearchTypeOK
<1>3. \A i \in from .. end - 4 : ~CodeAt(i)
  BY DEF Init
<1> QED
  BY <1>2, <1>3 DEF Init, IInv, SearchInv, LoopInv, StageInv, FoundFirst

LEMMA Step == IInv /\ [Next]_vars => IInv'
<1> SUFFICES ASSUME IInv, [Next]_vars PROVE IInv'
  OBVIOUS
<1>0. TypeOK /\ SearchInv
  BY DEF IInv
<1>a. /\ stage \in {"select", "first", "next", "restart", "lost"}
      /\ bytes \in Streams /\ buf \in Nat /\ size \in Int /\ nal \in Nat
      /\ sent \in Seq([from : Nat, len : Nat])
      /\ p \in Nat /\ out \in Nat /\ end \in Nat /\ bytes \in Seq(Byte)
  BY <1>0 DEF TypeOK, SearchTypeOK
<1>b. stage \in {"select", "restart"} => loop = "found"
  BY <1>0 DEF SearchInv, StageInv
<1>1. CASE ParamError
  <2>1. SearchTypeOK' /\ LoopInv' /\ FoundFirst'
    BY <1>0, <1>1, SearchUnchanged DEF ParamError
  <2>2. [from |-> 0, len |-> 0] \in [from : Nat, len : Nat]
    OBVIOUS
  <2>3. TypeOK'
    BY <1>a, <1>1, <2>1, <2>2 DEF ParamError, TypeOK
  <2> QED
    BY <1>1, <1>b, <2>1, <2>3 DEF ParamError, IInv, SearchInv, StageInv, search
<1>2. CASE SearchFirst
  <2>1. buf + size \in Nat
    BY <1>a, <1>2 DEF SearchFirst
  <2>2. SearchTypeOK' /\ LoopInv' /\ FoundFirst'
    BY <1>0, <1>a, <1>2, <2>1, CallInv DEF SearchFirst
  <2> QED
    BY <1>2, <1>a, <2>2 DEF SearchFirst, IInv, SearchInv, StageInv, TypeOK, reader
<1>3. CASE Search
  <2>1. SearchTypeOK' /\ LoopInv' /\ FoundFirst'
    BY <1>0, <1>3, AlignStep, WordsStep, TailStep DEF Search, SearchStep
  <2> QED
    BY <1>3, <1>a, <2>1 DEF Search, IInv, SearchInv, StageInv, TypeOK, reader
<1>4. CASE SearchRunsOut \/ SkipRunsOut \/ DeliverOutside
  <2>1. /\ UNCHANGED <<bytes, search, nal, buf, size, sent>> /\ stage' = "lost"
    BY <1>4 DEF SearchRunsOut, SkipRunsOut, DeliverOutside, reader
  <2>2. SearchTypeOK' /\ LoopInv' /\ FoundFirst'
    BY <1>0, <2>1, SearchUnchanged
  <2> QED
    BY <1>a, <2>1, <2>2 DEF IInv, SearchInv, StageInv, TypeOK
<1>5. CASE Skip
  <2>1. PICK j \in NonZeroFrom(out) : nal' = j + 1 /\ Call(j + 1, end)
    BY <1>5 DEF Skip
  <2>2. loop = "found" /\ stage' = "next" /\ UNCHANGED <<bytes, reader>>
    BY <1>5 DEF Skip
  <2>3. j + 1 \in Nat
    BY <1>a, <2>1 DEF NonZeroFrom
  <2>4. SearchTypeOK' /\ LoopInv' /\ FoundFirst'
    BY <1>0, <1>a, <2>1, <2>2, <2>3, CallInv
  <2> QED
    BY <1>a, <2>1, <2>2, <2>3, <2>4 DEF IInv, SearchInv, StageInv, TypeOK, reader
<1>6. CASE Deliver
  <2>1. /\ UNCHANGED <<bytes, search, nal>> /\ loop = "found"
        /\ out \in nal .. Len(bytes)
        /\ sent' = Append(sent, [from |-> nal, len |-> out - nal])
        /\ buf' = out /\ size' = size - (out - nal) - 4
        /\ stage' \in {"restart", "select"}
    BY <1>6 DEF Deliver
  <2>2. SearchTypeOK' /\ LoopInv' /\ FoundFirst'
    BY <1>0, <2>1, SearchUnchanged
  <2>3. [from |-> nal, len |-> out - nal] \in [from : Nat, len : Nat] /\ out \in Nat
    BY <1>a, <2>1
  <2>4. TypeOK'
    BY <1>a, <2>1, <2>2, <2>3 DEF TypeOK
  <2> QED
    BY <2>1, <2>2, <2>4 DEF IInv, SearchInv, StageInv, search
<1>7. CASE RestartFile
  <2>1. SearchTypeOK' /\ LoopInv' /\ FoundFirst'
    BY <1>0, <1>7, SearchUnchanged DEF RestartFile
  <2> QED
    BY <1>7, <1>a, <1>b, <2>1 DEF RestartFile, IInv, SearchInv, StageInv, TypeOK, search
<1>8. CASE UNCHANGED vars
  <2>1. UNCHANGED <<bytes, search, stage, nal, buf, size, sent>>
    BY <1>8 DEF vars, reader
  <2>2. SearchTypeOK' /\ LoopInv' /\ FoundFirst'
    BY <1>0, <2>1, SearchUnchanged
  <2> QED
    BY <1>a, <1>b, <2>1, <2>2 DEF IInv, SearchInv, StageInv, TypeOK, search
<1> QED
  BY <1>1, <1>2, <1>3, <1>4, <1>5, <1>6, <1>7, <1>8 DEF Next, SelectNextNal

-----------------------------------------------------------------------------
(* Whatever the file, every variable keeps its type: in particular no NAL    *)
(* unit handed over has a negative length while the worker is not lost.     *)
THEOREM TypeCorrect == Spec => []TypeOK
<1>1. IInv => TypeOK
  BY DEF IInv
<1> QED
  BY <1>1, Initial, Step, PTL DEF Spec

(* For every file, each search SelectNextNal makes returns the first start   *)
(* code in its range, or the end when there is none: the aligned loop, the  *)
(* words and the tail leave no start code out (ff_avc_find_startcode).      *)
THEOREM SearchCorrect == Spec => []FoundFirst
<1>1. IInv => FoundFirst
  BY DEF IInv, SearchInv
<1> QED
  BY <1>1, Initial, Step, PTL DEF Spec

(* For every file, words are read at aligned addresses, and never across the *)
(* end that the search was given.                                           *)
THEOREM ReadsInside == Spec => WordsInside
<1>1. IInv /\ [Next]_vars =>
        [loop = "words" /\ loop' # "tail" => p % 4 = 0 /\ p + 5 < end]_search
  <2> SUFFICES ASSUME IInv, [Next]_vars, ~UNCHANGED search, loop = "words", loop' # "tail"
               PROVE  p % 4 = 0 /\ p + 5 < end
    OBVIOUS
  <2>1. /\ stage \in {"select", "restart"} => loop = "found"
        /\ p \in Nat /\ end \in Int
        /\ p % 4 = 0 \/ p >= end - 3
    BY DEF IInv, SearchInv, StageInv, LoopInv, TypeOK, SearchTypeOK
  <2>2. Words
    BY <2>1 DEF Next, SelectNextNal, ParamError, SearchFirst, Search, SearchRunsOut, Skip,
              SkipRunsOut, Deliver, DeliverOutside, RestartFile, vars, search, SearchStep,
              Align, TailBytes
  <2>3. p < end - 6
    BY <2>2 DEF Words, Leave
  <2> QED
    BY <2>1, <2>3
<1> QED
  BY <1>1, Initial, Step, PTL DEF Spec, WordsInside

-----------------------------------------------------------------------------
(***************************************************************************)
(* What NalReader hands over of a well-formed file, of any length.  The    *)
(* NAL units of a file are counted: the n-th is the one with n - 1 start   *)
(* codes before it, and each delivery goes from one start code to the next.*)
(***************************************************************************)

-----------------------------------------------------------------------------
(* The start codes of a file.                                              *)

LEMMA LeastFact ==
  ASSUME NEW S \in SUBSET Nat, S # {}
  PROVE  \E m \in S : \A k \in S : m <= k
<1>1. \E m \in S : \A k \in S : ~(<<k, m>> \in OpToRel(<, Nat))
  BY NatLessThanWellFounded, WFMin, Zenon
<1>2. OpToRel(<, Nat) = {ss \in Nat \X Nat : ss[1] < ss[2]}
  BY DEF OpToRel
<1>3. \A k, m \in Nat : k < m => <<k, m>> \in OpToRel(<, Nat)
  BY <1>2, Zenon
<1>4. \A k, m \in Nat : ~(k < m) => m <= k
  OBVIOUS
<1> QED
  BY <1>1, <1>3, <1>4

\* A start code lies in the file, and two of them do not overlap.
LEMMA CodesFact ==
  ASSUME TypeOK
  PROVE  /\ CodePositions \in SUBSET Nat /\ IsFiniteSet(CodePositions) /\ Len(bytes) \in Nat
         /\ \A c \in CodePositions :
              /\ c + 2 < Len(bytes) /\ At(c) = 0 /\ At(c + 1) = 0 /\ At(c + 2) = 1
              /\ CodeAt(c)
         /\ \A i \in Nat : CodeAt(i) => i \in CodePositions
         /\ \A c, k \in CodePositions : c < k => c + 3 <= k
<1>1. bytes \in Seq(Byte) /\ Len(bytes) \in Nat
  BY DEF TypeOK, SearchTypeOK
<1>2. CodePositions \in SUBSET (0 .. Len(bytes) - 3) /\ CodePositions \in SUBSET Nat
  BY <1>1 DEF CodePositions
<1>3. IsFiniteSet(CodePositions)
  <2>1. IsFiniteSet(0 .. Len(bytes) - 3)
    <3>1. 0 \in Int /\ Len(bytes) - 3 \in Int
      BY <1>1
    <3> QED
      BY <3>1, FS_Interval
  <2> QED
    BY <1>2, <2>1, FS_Subset
<1>4. \A c \in CodePositions :
        /\ c + 2 < Len(bytes) /\ At(c) = 0 /\ At(c + 1) = 0 /\ At(c + 2) = 1 /\ CodeAt(c)
  BY <1>1 DEF CodePositions, CodeAt
<1>5. ASSUME NEW i \in Nat, CodeAt(i) PROVE i \in CodePositions
  <2>1. i + 2 < Len(bytes)
    BY <1>1, <1>5 DEF CodeAt, At
  <2> QED
    BY <1>1, <1>5, <2>1 DEF CodePositions
<1>6. ASSUME NEW c \in CodePositions, NEW k \in CodePositions, c < k PROVE c + 3 <= k
  <2>1. c \in Nat /\ k \in Nat
    BY <1>2
  <2>2. k # c + 1 /\ k # c + 2
    <3>1. k = c + 1 => k + 1 = c + 2
      BY <2>1
    <3> QED
      BY <1>4, <3>1
  <2> QED
    BY <1>6, <2>1, <2>2
<1> QED
  BY <1>1, <1>2, <1>3, <1>4, <1>5, <1>6

LEMMA StartFact ==
  ASSUME TypeOK, NEW c \in CodePositions
  PROVE  /\ CodeStart(c) \in Nat /\ CodeStart(c) <= c /\ c <= CodeStart(c) + 1
         /\ CodeStart(c) < c => At(CodeStart(c)) = 0
         /\ CodeStart(c) = c => c = 0 \/ At(c - 1) # 0
BY CodesFact DEF CodeStart

Before(c) == {j \in CodePositions : j < c}

LEMMA BeforeFact ==
  ASSUME TypeOK, NEW c \in CodePositions
  PROVE  /\ IsFiniteSet(Before(c)) /\ Cardinality(Before(c)) \in Nat
         /\ Cardinality(Before(c) \cup {c}) = Cardinality(Before(c)) + 1
         /\ Cardinality(CodePositions) \in Nat
         /\ Cardinality(Before(c)) < Cardinality(CodePositions)
<1>1. IsFiniteSet(CodePositions) /\ CodePositions \in SUBSET Nat
  BY CodesFact
<1>2. Before(c) \in SUBSET CodePositions /\ c \notin Before(c)
      /\ Before(c) \cup {c} \in SUBSET CodePositions
  BY <1>1 DEF Before
<1>3. IsFiniteSet(Before(c))
  BY <1>1, <1>2, FS_Subset
<1>4. Cardinality(Before(c) \cup {c}) = Cardinality(Before(c)) + 1
  BY <1>2, <1>3, FS_AddElement
<1>5. Cardinality(Before(c) \cup {c}) <= Cardinality(CodePositions)
  BY <1>1, <1>2, FS_Subset
<1>6. Cardinality(Before(c)) \in Nat /\ Cardinality(CodePositions) \in Nat
  BY <1>1, <1>3, FS_CardinalityType
<1> QED
  BY <1>3, <1>4, <1>5, <1>6

\* The start code with n - 1 before it is the n-th.
LEMMA NthFact ==
  ASSUME TypeOK, NEW c \in CodePositions, NEW n \in Nat \ {0},
         Cardinality(Before(c)) = n - 1
  PROVE  NthCode(n) = c
<1>1. ASSUME NEW k \in CodePositions, Cardinality(Before(k)) = n - 1 PROVE k = c
  <2>1. k \in Nat /\ c \in Nat
    BY CodesFact
  <2>2. ASSUME NEW i \in CodePositions, NEW j \in CodePositions, i < j
        PROVE  Cardinality(Before(i)) < Cardinality(Before(j))
    <3>1. Before(i) \cup {i} \in SUBSET Before(j)
      BY <2>2, CodesFact DEF Before
    <3>2. Cardinality(Before(i) \cup {i}) <= Cardinality(Before(j))
      BY <3>1, BeforeFact, FS_Subset
    <3>3. /\ Cardinality(Before(i)) \in Nat /\ Cardinality(Before(j)) \in Nat
          /\ Cardinality(Before(i) \cup {i}) = Cardinality(Before(i)) + 1
      BY BeforeFact
    <3> QED
      BY <3>2, <3>3
  <2>3. ~(k < c)
    BY <1>1, <2>2
  <2>4. ~(c < k)
    BY <1>1, <2>2
  <2> QED
    BY <2>1, <2>3, <2>4
<1>2. NthCode(n) = CHOOSE i \in CodePositions : Cardinality(Before(i)) = n - 1
  BY DEF NthCode, Before
<1> QED
  BY <1>1, <1>2

\* From one start code to the next, or to the last.
LEMMA NextCodeCount ==
  ASSUME TypeOK, NEW c \in CodePositions, NEW k \in CodePositions, c < k,
         \A j \in CodePositions : ~(c < j /\ j < k)
  PROVE  Cardinality(Before(k)) = Cardinality(Before(c)) + 1
<1>1. CodePositions \in SUBSET Nat
  BY CodesFact
<1>2. Before(k) = Before(c) \cup {c}
  <2> SUFFICES ASSUME NEW j \in CodePositions PROVE j < k <=> j < c \/ j = c
    BY DEF Before
  <2>1. j \in Nat /\ c \in Nat /\ k \in Nat /\ ~(c < j /\ j < k)
    BY <1>1
  <2> QED
    BY <2>1
<1> QED
  BY <1>2, BeforeFact

LEMMA LastCodeCount ==
  ASSUME TypeOK, NEW c \in CodePositions, \A j \in CodePositions : ~(c < j)
  PROVE  Cardinality(CodePositions) = Cardinality(Before(c)) + 1
<1>1. CodePositions \in SUBSET Nat
  BY CodesFact
<1>2. CodePositions = Before(c) \cup {c}
  <2> SUFFICES ASSUME NEW j \in CodePositions PROVE j < c \/ j = c
    BY DEF Before
  <2>1. j \in Nat /\ c \in Nat /\ ~(c < j)
    BY <1>1
  <2> QED
    BY <2>1
<1> QED
  BY <1>2, BeforeFact

-----------------------------------------------------------------------------
(* Where a NAL unit ends.                                                  *)

Later(c) == {CodeStart(j) : j \in {k \in CodePositions : k > c}}

LEMMA UnitFact ==
  ASSUME TypeOK, NEW c \in CodePositions, NEW u \in Later(c) \cup {Len(bytes)},
         \A v \in Later(c) \cup {Len(bytes)} : u <= v
  PROVE  UnitAt(c) = [from |-> c + 3, len |-> u - (c + 3)]
<1> DEFINE S == Later(c) \cup {Len(bytes)}
           m == CHOOSE x \in S : \A v \in S : x <= v
<1>1. S \in SUBSET Nat
  BY CodesFact, StartFact DEF Later
<1>2. UnitAt(c) = [from |-> c + 3, len |-> m - (c + 3)]
  BY DEF UnitAt, Later
<1>3. m \in S /\ \A v \in S : m <= v
  OBVIOUS
<1> HIDE DEF m
<1>4. m <= u /\ u <= m /\ m \in Nat /\ u \in Nat
  BY <1>1, <1>3
<1>5. m = u
  BY <1>4
<1> QED
  BY <1>2, <1>5

LEMMA UnitToNext ==
  ASSUME TypeOK, NEW c \in CodePositions, NEW k \in CodePositions, c < k,
         \A j \in CodePositions : ~(c < j /\ j < k)
  PROVE  UnitAt(c) = [from |-> c + 3, len |-> CodeStart(k) - (c + 3)]
<1>1. CodeStart(k) \in Later(c)
  BY DEF Later
<1>2. CodeStart(k) <= Len(bytes)
  BY CodesFact, StartFact
<1>3. ASSUME NEW j \in CodePositions, c < j PROVE CodeStart(k) <= CodeStart(j)
  <2>1. j = k \/ k < j
    BY <1>3, CodesFact
  <2>2. k < j => k + 3 <= j
    BY CodesFact
  <2> QED
    BY <2>1, <2>2, CodesFact, StartFact
<1>4. \A v \in Later(c) \cup {Len(bytes)} : CodeStart(k) <= v
  BY <1>2, <1>3 DEF Later
<1> QED
  BY <1>1, <1>4, UnitFact

LEMMA UnitToEnd ==
  ASSUME TypeOK, NEW c \in CodePositions, \A j \in CodePositions : ~(c < j)
  PROVE  UnitAt(c) = [from |-> c + 3, len |-> Len(bytes) - (c + 3)]
<1>1. Later(c) = {}
  BY CodesFact DEF Later
<1>2. Len(bytes) <= Len(bytes)
  BY CodesFact
<1> QED
  BY <1>1, <1>2, UnitFact

\* In a well-formed file a NAL unit lies between any two start codes, and
\* behind the last.
LEMMA RoomFact ==
  ASSUME TypeOK, WellFormed, NEW c \in CodePositions
  PROVE  /\ c + 3 < Len(bytes)
         /\ \A k \in CodePositions : c < k => c + 3 < CodeStart(k)
<1> DEFINE S == Later(c) \cup {Len(bytes)}
<1>1. S \in SUBSET Nat /\ Len(bytes) \in S
  BY CodesFact, StartFact DEF Later
<1>2. PICK u \in S : \A v \in S : u <= v
  BY <1>1, LeastFact
<1>3. UnitAt(c) = [from |-> c + 3, len |-> u - (c + 3)]
  BY <1>2, UnitFact
<1>4. UnitAt(c).len > 0
  BY DEF WellFormed
<1>5. u - (c + 3) > 0 /\ u \in Nat /\ c \in Nat
  BY <1>1, <1>3, <1>4, CodesFact
<1>6. \A v \in S : c + 3 < v
  BY <1>1, <1>2, <1>5
<1> QED
  BY <1>6 DEF Later

-----------------------------------------------------------------------------
(* What a pass has handed over, and where it stands.                       *)

\* the n-th NAL unit of the file, handed over whole, or at least its beginning
Unit(n)     == UnitAt(NthCode(n))
Whole(s, n) == s[n] = Unit(n)
Begun(s, n) == s[n].from = Unit(n).from

InOrder(s) ==
  /\ Len(s) <= Cardinality(CodePositions)
  /\ \A n \in 1 .. Len(s) : Begun(s, n) /\ (n < Len(s) => Whole(s, n))

AllWhole(s) == \A n \in 1 .. Len(s) : Whole(s, n)

\* n NAL units are behind the buffer b, which begins with the start code at c;
\* its size z reaches to the end of the file, or less when codes are short
Stands(c, b, z, n) ==
  /\ c \in CodePositions /\ Cardinality(Before(c)) = n
  /\ b = CodeStart(c) /\ z > 0
  /\ b + z <= Len(bytes) /\ (FourByteCodes => b + z = Len(bytes))

Selecting ==
  /\ AllWhole(sent)
  /\ \E c \in CodePositions :
       /\ Stands(c, buf, size, Len(sent))
       /\ stage = "first" => from = buf /\ end = buf + size
       /\ stage = "next" =>
            /\ from = nal /\ end = buf + size
            /\ (nal = c + 3 /\ nal < end) \/ (nal > end /\ ~FourByteCodes)

Complete(s) == Len(s) = Cardinality(CodePositions) /\ AllWhole(s)

UnitInv ==
  WellFormed =>
    /\ InOrder(sent)
    /\ stage \in {"select", "first", "next"} => Selecting
    /\ FourByteCodes => stage # "lost" /\ (stage = "restart" => Complete(sent))

\* The file stays, and so do its start codes and NAL units.
LEMMA SameFile ==
  ASSUME UNCHANGED bytes
  PROVE  /\ CodePositions' = CodePositions /\ Len(bytes)' = Len(bytes)
         /\ (WellFormed' <=> WellFormed) /\ (FourByteCodes' <=> FourByteCodes)
         /\ \A i : /\ At(i)' = At(i) /\ (CodeAt(i)' <=> CodeAt(i))
                   /\ CodeStart(i)' = CodeStart(i) /\ UnitAt(i)' = UnitAt(i)
                   /\ Before(i)' = Before(i)
         /\ \A n : Unit(n)' = Unit(n)
<1>1. \A i : At(i)' = At(i) /\ (CodeAt(i)' <=> CodeAt(i)) /\ CodeStart(i)' = CodeStart(i)
  BY DEF At, CodeAt, CodeStart
<1>2. CodePositions' = CodePositions
  BY DEF CodePositions, At, CodeAt
<1>3. \A i : UnitAt(i)' = UnitAt(i)
  <2> TAKE i
  <2>1. {CodeStart(j) : j \in {k \in CodePositions : k > i}}'
           = {CodeStart(j) : j \in {k \in CodePositions : k > i}}
    BY <1>1, <1>2
  <2> QED
    BY <2>1, Zenon DEF UnitAt
<1>4. \A i : Before(i)' = Before(i)
  BY <1>2 DEF Before
<1>5. \A n : Unit(n)' = Unit(n)
  <2> TAKE n
  <2> DEFINE c == NthCode(n)
  <2>1. c' = c
    BY <1>2, Zenon DEF NthCode
  <2>2. {CodeStart(j) : j \in {k \in CodePositions : k > c}}'
           = {CodeStart(j) : j \in {k \in CodePositions : k > c}}
    BY <1>1, <1>2, <2>1
  <2> HIDE DEF c
  <2>3. UnitAt(c)' = UnitAt(c)
    BY <2>1, <2>2, Zenon DEF UnitAt
  <2> QED
    BY <2>3 DEF Unit, c
<1>6. WellFormed' <=> WellFormed
  BY <1>1, <1>2, <1>3 DEF WellFormed, CodeAt, At
<1>7. FourByteCodes' <=> FourByteCodes
  BY <1>1, <1>2 DEF FourByteCodes
<1> QED
  BY <1>1, <1>2, <1>3, <1>4, <1>5, <1>6, <1>7

-----------------------------------------------------------------------------
(* What the searches find.                                                 *)

\* A search that begins before the start code at c, and behind those before it,
\* returns where that one begins; or the end, when it is too near.
LEMMA HitFact ==
  ASSUME TypeOK, FoundFirst, loop = "found", NEW c \in CodePositions,
         from <= CodeStart(c), \A j \in CodePositions : from <= j => c <= j
  PROVE  \/ out = end /\ end <= c + 3
         \/ out = CodeStart(c) /\ c < end - 3
<1>1. /\ from \in Nat /\ end \in Nat /\ out \in Nat /\ c \in Nat /\ CodeAt(c)
      /\ CodeStart(c) \in Nat /\ CodeStart(c) <= c /\ from <= c
  BY CodesFact, StartFact DEF TypeOK, SearchTypeOK
<1>2. ASSUME NEW q \in Nat, FirstCode(q) PROVE q = c /\ c < end - 3
  <2>1. q \in CodePositions /\ from <= q /\ q < end - 3 /\ \A i \in from .. q - 1 : ~CodeAt(i)
    BY <1>2, CodesFact DEF FirstCode
  <2>2. c <= q /\ c \notin from .. q - 1
    BY <2>1, <1>1
  <2> QED
    BY <2>1, <2>2, <1>1
<1>3. CASE out = end /\ \A i \in from .. end - 4 : ~CodeAt(i)
  <2>1. c \notin from .. end - 4
    BY <1>1, <1>3
  <2> QED
    BY <1>1, <1>3, <2>1
<1>4. CASE FirstCode(out) /\ (out = from \/ At(out - 1) # 0)
  <2>1. out = c /\ c < end - 3
    BY <1>1, <1>2, <1>4
  <2>2. CodeStart(c) = c
    BY <1>1, <1>4, <2>1 DEF CodeStart
  <2> QED
    BY <2>1, <2>2
<1>5. CASE FirstCode(out + 1) /\ from <= out /\ At(out) = 0
  <2>1. out + 1 = c /\ c < end - 3
    BY <1>1, <1>2, <1>5
  <2>2. c - 1 = out /\ c > 0
    BY <1>1, <2>1
  <2>3. CodeStart(c) = out
    BY <1>5, <2>2 DEF CodeStart
  <2> QED
    BY <2>1, <2>3
<1> QED
  BY <1>3, <1>4, <1>5 DEF FoundFirst

\* A search that begins with the start code at c finds it.
LEMMA HitAtStart ==
  ASSUME TypeOK, FoundFirst, loop = "found", NEW c \in CodePositions, from = CodeStart(c)
  PROVE  \/ out = end /\ end <= c + 3
         \/ out = CodeStart(c) /\ c < end - 3
<1>1. c \in Nat /\ from \in Nat /\ c <= from + 1 /\ from <= CodeStart(c)
  BY CodesFact, StartFact
<1>2. ASSUME NEW i \in CodePositions, from <= i PROVE c <= i
  <2>1. i \in Nat
    BY CodesFact
  <2>2. i < c => i + 3 <= c
    BY CodesFact
  <2> QED
    BY <1>1, <1>2, <2>1, <2>2
<1> QED
  BY <1>1, <1>2, HitFact

\* Without a start code behind its beginning, or behind the end, it is the end.
LEMMA MissFact ==
  ASSUME TypeOK, FoundFirst, loop = "found",
         from > end \/ \A j \in CodePositions : ~(from <= j)
  PROVE  out = end
<1>1. from \in Nat /\ end \in Nat /\ out \in Nat
  BY DEF TypeOK, SearchTypeOK
<1>2. ASSUME NEW q \in Nat, FirstCode(q) PROVE FALSE
  <2>1. q \in CodePositions /\ from <= q /\ q < end - 3
    BY <1>2, CodesFact DEF FirstCode
  <2> QED
    BY <2>1, <1>1
<1> QED
  BY <1>1, <1>2 DEF FoundFirst

\* The first byte of a start code that is not zero is its last.
LEMMA SkipFact ==
  ASSUME TypeOK, NEW c \in CodePositions
  PROVE  /\ c + 2 \in NonZeroFrom(CodeStart(c))
         /\ \A j \in NonZeroFrom(CodeStart(c)) : c + 2 <= j
<1>1. /\ c \in Nat /\ c + 2 < Len(bytes) /\ At(c) = 0 /\ At(c + 1) = 0 /\ At(c + 2) = 1
      /\ Len(bytes) \in Nat
      /\ CodeStart(c) \in Nat /\ CodeStart(c) <= c /\ c <= CodeStart(c) + 1
      /\ CodeStart(c) < c => At(CodeStart(c)) = 0
  BY CodesFact, StartFact
<1>2. ASSUME NEW j \in NonZeroFrom(CodeStart(c)) PROVE c + 2 <= j
  <2>1. j \in Nat /\ CodeStart(c) <= j /\ At(j) # 0
    BY <1>1 DEF NonZeroFrom
  <2>2. j # c /\ j # c + 1 /\ j # CodeStart(c)
    <3>1. CodeStart(c) = c \/ CodeStart(c) < c
      BY <1>1
    <3> QED
      BY <1>1, <2>1, <3>1
  <2> QED
    BY <1>1, <2>1, <2>2
<1> QED
  BY <1>1, <1>2 DEF NonZeroFrom

\* While the end is in the file, no search depends on what is behind it.
LEMMA KnownFact ==
  ASSUME TypeOK, end <= Len(bytes)
  PROVE  ~Unknown
<1>1. p \in Nat /\ end \in Nat /\ Len(bytes) \in Nat
  BY CodesFact DEF TypeOK, SearchTypeOK
<1>2. ASSUME NEW i \in LookedAt PROVE i + 2 < Len(bytes)
  BY <1>1 DEF LookedAt
<1> QED
  BY <1>1, <1>2 DEF Unknown, MayBegin, LookedAt

\* The first start code of a well-formed file is at its beginning.
LEMMA FirstStands ==
  ASSUME TypeOK, WellFormed
  PROVE  \E c \in CodePositions : Stands(c, 0, Len(bytes), 0)
<1> DEFINE c == IF CodeAt(0) THEN 0 ELSE 1
<1>1. c \in CodePositions /\ c \in {0, 1} /\ Len(bytes) \in Nat /\ c + 2 < Len(bytes)
  BY CodesFact DEF WellFormed
<1>2. CodeStart(c) = 0
  <2>1. At(0) = 0
    BY <1>1 DEF WellFormed, At
  <2> QED
    BY <2>1 DEF CodeStart
<1>3. Before(c) = {}
  BY <1>1, CodesFact DEF Before
<1>4. Cardinality(Before(c)) = 0
  BY <1>3, FS_EmptySet
<1> HIDE DEF c
<1> QED
  BY <1>1, <1>2, <1>4 DEF Stands

-----------------------------------------------------------------------------
(* The steps of a pass.                                                    *)

\* The countdown: behind the NAL unit of the code at c, the buffer begins with
\* the next code and its size ends where it did, or one byte before.
LEMMA NextStands ==
  ASSUME TypeOK, NEW c \in CodePositions, NEW k \in CodePositions, c < k,
         \A j \in CodePositions : ~(c < j /\ j < k),
         NEW b \in Int, NEW z \in Int, NEW n \in Nat, Stands(c, b, z, n), k < b + z - 3
  PROVE  Stands(k, CodeStart(k), z - (CodeStart(k) - (c + 3)) - 4, n + 1)
<1>1. /\ c \in Nat /\ k \in Nat /\ Len(bytes) \in Nat
      /\ CodeStart(c) <= c /\ c <= CodeStart(c) + 1 /\ CodeStart(c) \in Nat
      /\ CodeStart(k) <= k /\ k <= CodeStart(k) + 1 /\ CodeStart(k) \in Nat
  BY CodesFact, StartFact
<1>2. b = CodeStart(c) /\ b + z <= Len(bytes) /\ (FourByteCodes => b + z = Len(bytes))
      /\ Cardinality(Before(c)) = n
  BY DEF Stands
<1>3. Cardinality(Before(k)) = n + 1
  BY <1>2, NextCodeCount
<1>4. FourByteCodes => CodeStart(c) = c - 1
  BY DEF FourByteCodes
<1> DEFINE t == CodeStart(k)
           l == Len(bytes)
           y == z - (t - (c + 3)) - 4
<1>5. /\ b \in Nat /\ z \in Int /\ t \in Nat /\ l \in Nat /\ b <= c /\ c <= b + 1
      /\ t <= k /\ k < b + z - 3 /\ b + z <= l
      /\ FourByteCodes => b = c - 1 /\ b + z = l
  BY <1>1, <1>2, <1>4
<1> HIDE DEF t, l
<1>6. y > 0 /\ t + y <= l /\ (FourByteCodes => t + y = l)
  BY <1>1, <1>5
<1> HIDE DEF y
<1>7. Stands(k, t, y, n + 1)
  BY <1>3, <1>6 DEF Stands, t, l
<1> QED
  BY <1>7 DEF y, t

\* One more NAL unit: what was handed over before is whole, the last has begun.
LEMMA AppendFact ==
  ASSUME TypeOK, NEW c \in CodePositions, Cardinality(Before(c)) = Len(sent),
         AllWhole(sent), NEW u \in [from : Nat, len : Nat], u.from = UnitAt(c).from
  PROVE  /\ InOrder(Append(sent, u)) /\ Len(Append(sent, u)) = Len(sent) + 1
         /\ u = UnitAt(c) => AllWhole(Append(sent, u))
<1> DEFINE s == Append(sent, u)
           n == Len(sent)
<1>1. sent \in Seq([from : Nat, len : Nat]) /\ n \in Nat
  BY DEF TypeOK
<1>2. Len(s) = n + 1 /\ s[n + 1] = u /\ \A i \in 1 .. n : s[i] = sent[i]
  BY <1>1
<1>3. Unit(n + 1) = UnitAt(c)
  <2>1. n + 1 \in Nat \ {0} /\ Cardinality(Before(c)) = (n + 1) - 1
    BY <1>1
  <2>2. NthCode(n + 1) = c
    BY <2>1, NthFact
  <2> QED
    BY <2>2 DEF Unit
<1>4. \A i \in 1 .. n : s[i] = Unit(i)
  BY <1>2 DEF AllWhole, Whole
<1>5. n + 1 <= Cardinality(CodePositions)
  <2>1. n < Cardinality(CodePositions) /\ Cardinality(CodePositions) \in Nat
    BY BeforeFact
  <2> QED
    BY <1>1, <2>1
<1> HIDE DEF s, n
<1>6. s[n + 1].from = Unit(n + 1).from
  BY <1>2, <1>3
<1>7. \A i \in 1 .. Len(s) : i \in 1 .. n \/ i = n + 1
  BY <1>1, <1>2
<1>8. \A i \in 1 .. Len(s) : s[i].from = Unit(i).from
  BY <1>4, <1>6, <1>7
<1>9. \A i \in 1 .. Len(s) : i < Len(s) => i \in 1 .. n
  BY <1>1, <1>2
<1>10. InOrder(s)
  BY <1>2, <1>4, <1>5, <1>8, <1>9 DEF InOrder, Whole, Begun
<1>11. u = UnitAt(c) => AllWhole(s)
  BY <1>2, <1>3, <1>4, <1>7 DEF AllWhole, Whole
<1> QED
  BY <1>2, <1>10, <1>11 DEF s, n

\* What Deliver hands over, and where it leaves the pass.
LEMMA DeliverFact ==
  ASSUME TypeOK, FoundFirst, loop = "found", WellFormed, stage = "next", Selecting,
         out \in nal .. Len(bytes)
  PROVE  LET s == Append(sent, [from |-> nal, len |-> out - nal])
             z == size - (out - nal) - 4
         IN  /\ InOrder(s)
             /\ z > 0 => AllWhole(s) /\ \E k \in CodePositions : Stands(k, out, z, Len(s))
             /\ z <= 0 /\ FourByteCodes => Complete(s)
<1> DEFINE u == [from |-> nal, len |-> out - nal]
           s == Append(sent, u)
           z == size - (out - nal) - 4
           n == Len(sent)
<1>1. PICK c \in CodePositions :
        /\ Stands(c, buf, size, n) /\ from = nal /\ end = buf + size
        /\ (nal = c + 3 /\ nal < end) \/ (nal > end /\ ~FourByteCodes)
  BY DEF Selecting
<1>2. /\ n \in Nat /\ buf \in Nat /\ size \in Int /\ nal \in Nat /\ out \in Nat /\ end \in Nat
      /\ from \in Nat /\ c \in Nat /\ Len(bytes) \in Nat
      /\ c <= CodeStart(c) + 1 /\ CodeStart(c) \in Nat /\ CodeStart(c) <= c
  BY CodesFact, StartFact DEF TypeOK, SearchTypeOK
<1>3. nal = c + 3 /\ nal < end
  <2>1. from > end => out = end
    BY MissFact
  <2> QED
    BY <1>1, <1>2, <2>1
<1>4. /\ Cardinality(Before(c)) = n /\ buf = CodeStart(c) /\ end <= Len(bytes)
      /\ FourByteCodes => end = Len(bytes)
  BY <1>1 DEF Stands
<1>5. AllWhole(sent)
  BY DEF Selecting
<1>6. u \in [from : Nat, len : Nat] /\ u.from = c + 3
  BY <1>2, <1>3
<1>7. out = end => z <= 0
  BY <1>1, <1>2, <1>3, <1>4
<1>8. CASE \A j \in CodePositions : ~(c < j)
  <2>1. \A j \in CodePositions : ~(from <= j)
    BY <1>1, <1>2, <1>3, <1>8, CodesFact
  <2>2. out = end
    BY <2>1, MissFact
  <2>3. UnitAt(c) = [from |-> c + 3, len |-> Len(bytes) - (c + 3)]
    BY <1>8, UnitToEnd
  <2>4. UnitAt(c).from = c + 3 /\ (FourByteCodes => u = UnitAt(c))
    BY <1>3, <1>4, <2>2, <2>3
  <2>5. /\ InOrder(s) /\ Len(s) = n + 1
        /\ u = UnitAt(c) => AllWhole(s)
    BY <1>4, <1>5, <1>6, <2>4, AppendFact
  <2>6. Cardinality(CodePositions) = n + 1
    BY <1>4, <1>8, LastCodeCount
  <2>7. z <= 0
    BY <1>7, <2>2
  <2>8. ~(z > 0)
    BY <1>2, <2>7
  <2> HIDE DEF s, z, u
  <2>9. FourByteCodes => Complete(s)
    BY <2>4, <2>5, <2>6 DEF Complete
  <2>10. InOrder(s) /\ ~(z > 0) /\ (FourByteCodes => Complete(s))
    BY <2>5, <2>8, <2>9
  <2> QED
    BY <2>10 DEF s, z, u
<1>9. CASE \E j \in CodePositions : c < j
  <2>1. PICK k \in CodePositions : c < k /\ \A j \in CodePositions : c < j => k <= j
    <3> DEFINE S == {j \in CodePositions : c < j}
    <3>1. S \in SUBSET Nat /\ S # {}
      BY <1>9, CodesFact
    <3>2. \E k \in S : \A j \in S : k <= j
      BY <3>1, LeastFact
    <3> QED
      BY <3>2
  <2>2. k \in Nat /\ CodeStart(k) \in Nat /\ c + 3 <= k /\ k + 3 < Len(bytes)
        /\ c + 3 < CodeStart(k)
    BY <2>1, CodesFact, StartFact, RoomFact
  <2>3. \A j \in CodePositions : ~(c < j /\ j < k)
    BY <2>1, <2>2, CodesFact
  <2>4. UnitAt(c) = [from |-> c + 3, len |-> CodeStart(k) - (c + 3)]
    BY <2>1, <2>3, UnitToNext
  <2>5. /\ InOrder(s) /\ Len(s) = n + 1
        /\ u = UnitAt(c) => AllWhole(s)
    BY <1>4, <1>5, <1>6, <2>4, AppendFact
  <2>6. \/ out = end /\ end <= k + 3
        \/ out = CodeStart(k) /\ k < end - 3
    <3>1. from <= CodeStart(k)
      BY <1>1, <1>2, <1>3, <2>2
    <3>2. \A j \in CodePositions : from <= j => k <= j
      BY <1>1, <1>2, <1>3, <2>1, CodesFact
    <3> QED
      BY <3>1, <3>2, HitFact
  <2>7. CASE out = end /\ end <= k + 3
    <3>1. ~(z > 0)
      BY <1>2, <1>7, <2>7
    <3>2. ~FourByteCodes
      BY <1>2, <1>4, <2>2, <2>7
    <3> HIDE DEF s, z, u
    <3>3. InOrder(s) /\ ~(z > 0) /\ ~FourByteCodes
      BY <2>5, <3>1, <3>2
    <3> QED
      BY <3>3 DEF s, z, u
  <2>8. CASE out = CodeStart(k) /\ k < end - 3
    <3>1. u = UnitAt(c)
      BY <1>3, <2>4, <2>8
    <3>2. Stands(k, CodeStart(k), size - (CodeStart(k) - (c + 3)) - 4, n + 1)
      <4>1. buf \in Int /\ size \in Int /\ n \in Nat /\ k < buf + size - 3
        BY <1>1, <1>2, <2>8
      <4>2. Stands(c, buf, size, n) /\ c < k
        BY <1>1, <2>1
      <4> HIDE DEF n
      <4> QED
        BY <2>3, <4>1, <4>2, NextStands
    <3>3. Stands(k, out, z, Len(s))
      BY <1>3, <2>5, <2>8, <3>2
    <3>4. z > 0 /\ ~(z <= 0)
      BY <1>2, <3>3 DEF Stands
    <3> HIDE DEF s, z, u
    <3>5. InOrder(s) /\ AllWhole(s) /\ Stands(k, out, z, Len(s)) /\ ~(z <= 0)
      BY <2>5, <3>1, <3>3, <3>4
    <3> QED
      BY <3>5 DEF s, z, u
  <2> QED
    BY <2>6, <2>7, <2>8
<1> QED
  BY <1>8, <1>9

\* Where nothing is handed over and the buffer stays, so does what was reached.
LEMMA KeepsUnits ==
  ASSUME UNCHANGED <<bytes, buf, size, sent>>
  PROVE  /\ InOrder(sent)' <=> InOrder(sent)
         /\ AllWhole(sent)' <=> AllWhole(sent)
         /\ Complete(sent)' <=> Complete(sent)
         /\ \A c : Stands(c, buf, size, Len(sent))' <=> Stands(c, buf, size, Len(sent))
BY SameFile DEF InOrder, AllWhole, Complete, Stands, Whole, Begun

UInv == IInv /\ UnitInv

LEMMA InitialUnits == Init => UInv
<1> SUFFICES ASSUME Init, WellFormed
             PROVE  InOrder(sent) /\ Selecting
  BY Initial DEF UInv, UnitInv, Init
<1>1. TypeOK /\ sent = <<>> /\ buf = 0 /\ size = Len(bytes) /\ stage = "select"
  BY Initial DEF IInv, Init
<1>2. Len(sent) = 0 /\ Cardinality(CodePositions) \in Nat
  BY <1>1, CodesFact, FS_CardinalityType
<1>3. InOrder(sent) /\ AllWhole(sent)
  BY <1>2 DEF InOrder, AllWhole
<1> QED
  BY <1>1, <1>2, <1>3, FirstStands DEF Selecting

LEMMA StepUnits == UInv /\ [Next]_vars => UInv'
<1> SUFFICES ASSUME UInv, [Next]_vars, WellFormed'
             PROVE  /\ InOrder(sent)'
                    /\ (stage \in {"select", "first", "next"})' => Selecting'
                    /\ FourByteCodes' => stage' # "lost" /\ (stage' = "restart" => Complete(sent)')
  BY Step DEF UInv, UnitInv
<1>a. TypeOK /\ FoundFirst /\ TypeOK' /\ (stage \in {"select", "restart"} => loop = "found")
  BY Step DEF UInv, IInv, SearchInv, StageInv
<1>b. bytes' = bytes
  BY DEF Next, SelectNextNal, ParamError, SearchFirst, Search, SearchRunsOut, Skip,
         SkipRunsOut, Deliver, DeliverOutside, RestartFile, vars
<1>c. WellFormed /\ (FourByteCodes' <=> FourByteCodes) /\ CodePositions' = CodePositions
      /\ Len(bytes)' = Len(bytes)
  BY <1>b, SameFile
<1>d. /\ InOrder(sent)
      /\ stage \in {"select", "first", "next"} => Selecting
      /\ FourByteCodes => stage # "lost" /\ (stage = "restart" => Complete(sent))
  BY <1>c DEF UInv, UnitInv
<1>e. /\ buf \in Nat /\ size \in Int /\ nal \in Nat /\ out \in Nat /\ end \in Nat /\ from \in Nat
      /\ Len(bytes) \in Nat /\ stage \in {"select", "first", "next", "restart", "lost"}
  BY <1>a, CodesFact DEF TypeOK, SearchTypeOK
<1>f. UNCHANGED <<buf, size, sent>> =>
        /\ InOrder(sent)' /\ (Complete(sent) => Complete(sent)')
        /\ (AllWhole(sent) => AllWhole(sent)')
        /\ \A c : Stands(c, buf, size, Len(sent)) => Stands(c, buf, size, Len(sent))'
  BY <1>b, <1>d, KeepsUnits
<1>1. ASSUME ParamError PROVE FALSE
  <2>1. stage = "select" /\ ~(size > 0)
    BY <1>1, <1>e DEF ParamError
  <2> QED
    BY <2>1, <1>d DEF Selecting, Stands
<1>2. CASE SearchFirst
  <2>1. /\ UNCHANGED <<buf, size, sent>> /\ stage = "select" /\ stage' = "first"
        /\ from' = buf /\ end' = buf + size
    BY <1>2 DEF SearchFirst, reader, Call
  <2>2. PICK c \in CodePositions : Stands(c, buf, size, Len(sent))
    BY <1>d, <2>1 DEF Selecting
  <2>3. Selecting'
    BY <1>c, <1>d, <1>f, <2>1, <2>2 DEF Selecting
  <2> QED
    BY <1>f, <2>1, <2>3
<1>3. CASE Search \/ UNCHANGED vars
  <2>1. UNCHANGED <<buf, size, sent, stage, nal, from, end>>
    BY <1>3 DEF Search, reader, vars, search, SearchStep, Align, Words, TailBytes, Return,
                Advance, Leave
  <2>2. ASSUME Selecting PROVE Selecting'
    <3>1. PICK c \in CodePositions :
            /\ Stands(c, buf, size, Len(sent))
            /\ stage = "first" => from = buf /\ end = buf + size
            /\ stage = "next" =>
                 /\ from = nal /\ end = buf + size
                 /\ (nal = c + 3 /\ nal < end) \/ (nal > end /\ ~FourByteCodes)
      BY <2>2 DEF Selecting
    <3> QED
      BY <1>c, <1>f, <2>1, <2>2, <3>1 DEF Selecting
  <2> QED
    BY <1>c, <1>d, <1>f, <2>1, <2>2
<1>4. CASE SearchRunsOut
  <2>1. UNCHANGED <<buf, size, sent>> /\ stage \in {"first", "next"} /\ stage' = "lost" /\ Unknown
    BY <1>4 DEF SearchRunsOut, reader
  <2>2. end <= Len(bytes)
    BY <1>d, <2>1 DEF Selecting, Stands
  <2> QED
    BY <1>a, <2>1, <2>2, KnownFact
<1>5. CASE Skip
  <2>1. PICK j \in NonZeroFrom(out) :
          (\A i \in NonZeroFrom(out) : j <= i) /\ nal' = j + 1 /\ Call(j + 1, end)
    BY <1>5 DEF Skip
  <2>2. /\ UNCHANGED <<buf, size, sent>> /\ stage = "first" /\ stage' = "next" /\ loop = "found"
        /\ from' = nal' /\ end' = end /\ nal' = j + 1
    BY <1>5, <2>1 DEF Skip, reader, Call
  <2>3. PICK c \in CodePositions :
          Stands(c, buf, size, Len(sent)) /\ from = buf /\ end = buf + size
    BY <1>d, <2>2 DEF Selecting
  <2>4. j \in Nat /\ out <= j /\ c \in Nat /\ c <= CodeStart(c) + 1 /\ buf = CodeStart(c)
    BY <1>a, <1>e, <2>1, <2>3, CodesFact, StartFact DEF NonZeroFrom, Stands
  <2>5. \/ out = end /\ end <= c + 3
        \/ out = CodeStart(c) /\ c < end - 3
    <3>1. TypeOK /\ FoundFirst /\ loop = "found" /\ from = CodeStart(c)
      BY <1>a, <2>2, <2>3, <2>4
    <3> QED
      BY <3>1, HitAtStart
  <2>6. (nal' = c + 3 /\ nal' < end) \/ (nal' > end /\ ~FourByteCodes)
    <3>1. CASE out = end /\ end <= c + 3
      <4>1. ~FourByteCodes
        BY <1>a, <1>c, <1>e, <2>3, <2>4, <3>1, RoomFact DEF Stands
      <4> QED
        BY <1>e, <2>2, <2>4, <3>1, <4>1
    <3>2. CASE out = CodeStart(c) /\ c < end - 3
      <4>1. j = c + 2
        <5>1. c + 2 <= j /\ j <= c + 2
          BY <1>a, <2>1, <3>2, SkipFact
        <5> QED
          BY <2>4, <5>1
      <4> QED
        BY <1>e, <2>2, <2>4, <3>2, <4>1
    <3> QED
      BY <2>5, <3>1, <3>2
  <2>7. Selecting'
    BY <1>c, <1>d, <1>f, <2>2, <2>3, <2>6 DEF Selecting
  <2> QED
    BY <1>f, <2>2, <2>7
<1>6. CASE SkipRunsOut
  <2>1. /\ UNCHANGED <<buf, size, sent>> /\ stage = "first" /\ stage' = "lost" /\ loop = "found"
        /\ NonZeroFrom(out) = {}
    BY <1>6 DEF SkipRunsOut, reader
  <2>2. ASSUME FourByteCodes PROVE FALSE
    <3>1. PICK c \in CodePositions :
            Stands(c, buf, size, Len(sent)) /\ from = buf /\ end = buf + size
      BY <1>d, <2>1 DEF Selecting
    <3>2. c \in Nat /\ c <= CodeStart(c) + 1 /\ buf = CodeStart(c) /\ end = Len(bytes)
          /\ c + 3 < Len(bytes)
      BY <1>a, <1>c, <2>2, <3>1, CodesFact, StartFact, RoomFact DEF Stands
    <3>3. out = CodeStart(c)
      <4>1. \/ out = end /\ end <= c + 3
            \/ out = CodeStart(c) /\ c < end - 3
        BY <1>a, <2>1, <3>1, <3>2, HitAtStart
      <4> QED
        BY <1>e, <3>2, <4>1
    <3> QED
      BY <1>a, <2>1, <3>3, SkipFact
  <2> QED
    BY <1>c, <1>f, <2>1, <2>2
<1>7. CASE Deliver
  <2> DEFINE s == Append(sent, [from |-> nal, len |-> out - nal])
             z == size - (out - nal) - 4
  <2>1. /\ stage = "next" /\ loop = "found" /\ out \in nal .. Len(bytes)
        /\ sent' = s /\ buf' = out /\ size' = z
        /\ stage' = IF size' <= 0 THEN "restart" ELSE "select"
    BY <1>7 DEF Deliver
  <2>2. /\ InOrder(s)
        /\ z > 0 => AllWhole(s) /\ \E k \in CodePositions : Stands(k, out, z, Len(s))
        /\ z <= 0 /\ FourByteCodes => Complete(s)
    BY <1>a, <1>c, <1>d, <2>1, DeliverFact
  <2> HIDE DEF s, z
  <2>3. InOrder(sent)' /\ (AllWhole(s) => AllWhole(sent)') /\ (Complete(s) => Complete(sent)')
        /\ \A k : Stands(k, out, z, Len(s)) => Stands(k, buf, size, Len(sent))'
    BY <1>b, <2>1, <2>2, SameFile DEF InOrder, AllWhole, Complete, Stands, Whole, Begun
  <2>4. CASE z > 0
    <3>1. stage' = "select"
      BY <1>e, <2>1, <2>4 DEF z
    <3>2. Selecting'
      BY <1>c, <2>2, <2>3, <2>4, <3>1 DEF Selecting
    <3> QED
      BY <2>3, <3>1, <3>2
  <2>5. CASE z <= 0
    <3>1. stage' = "restart"
      BY <2>1, <2>5
    <3> QED
      BY <1>c, <2>2, <2>3, <2>5, <3>1
  <2>6. z \in Int
    BY <1>e DEF z
  <2> QED
    BY <2>4, <2>5, <2>6
<1>8. CASE DeliverOutside
  <2>1. /\ UNCHANGED <<buf, size, sent>> /\ stage = "next" /\ stage' = "lost" /\ loop = "found"
        /\ out \notin nal .. Len(bytes)
    BY <1>8 DEF DeliverOutside, reader
  <2>2. ASSUME FourByteCodes PROVE FALSE
    <3>1. PICK c \in CodePositions :
            Stands(c, buf, size, Len(sent)) /\ from = nal /\ end = buf + size
            /\ nal = c + 3 /\ nal < end
      BY <1>c, <1>d, <2>1, <2>2 DEF Selecting
    <3>2. end <= Len(bytes) /\ from <= end /\ c \in Nat
      BY <1>a, <1>e, <3>1, CodesFact DEF Stands
    <3>3. from <= out /\ out <= end
      BY <1>a, <1>e, <2>1, <3>1, <3>2 DEF FoundFirst, FirstCode
    <3> QED
      BY <1>e, <2>1, <3>1, <3>2, <3>3
  <2> QED
    BY <1>c, <1>f, <2>1, <2>2
<1>9. CASE RestartFile
  <2>1. /\ buf' = 0 /\ size' = Len(bytes) /\ sent' = <<>> /\ stage' = "select"
    BY <1>9 DEF RestartFile
  <2>2. Len(sent') = 0 /\ Cardinality(CodePositions) \in Nat
    BY <1>a, <2>1, CodesFact, FS_CardinalityType
  <2>3. InOrder(sent)' /\ AllWhole(sent)'
    BY <1>c, <2>2 DEF InOrder, AllWhole
  <2>4. PICK c \in CodePositions : Stands(c, 0, Len(bytes), 0)
    BY <1>a, <1>c, FirstStands
  <2>5. Stands(c, buf, size, Len(sent))'
    BY <1>b, <2>1, <2>2, <2>4, SameFile DEF Stands
  <2> QED
    BY <1>c, <2>1, <2>3, <2>4, <2>5 DEF Selecting
<1> QED
  BY <1>1, <1>2, <1>3, <1>4, <1>5, <1>6, <1>7, <1>8, <1>9 DEF Next, SelectNextNal

-----------------------------------------------------------------------------
(* The theorems.                                                           *)

(* Up to the last NAL unit that a pass hands over of a well-formed file, of  *)
(* any length and with start codes of three or four bytes, each is the next *)
(* one of the file and whole, and the last begins where the next one does   *)
(* (the countdown of stream_len_temp loses nothing but the end of a pass).  *)
THEOREM PassInOrder == Spec => []UnitsInOrder
<1>1. UInv => UnitsInOrder
  <2> SUFFICES ASSUME UInv, WellFormed
               PROVE  /\ Len(sent) <= Len(FileUnits)
                      /\ \A n \in 1 .. Len(sent) :
                           /\ sent[n].from = FileUnits[n].from
                           /\ n < Len(sent) => sent[n] = FileUnits[n]
    BY DEF UnitsInOrder
  <2>1. TypeOK /\ InOrder(sent)
    BY DEF UInv, UnitInv, IInv
  <2>2. Cardinality(CodePositions) \in Nat /\ Len(sent) \in Nat
    BY <2>1, CodesFact, FS_CardinalityType DEF TypeOK
  <2>3. FileUnits = [n \in 1 .. Cardinality(CodePositions) |-> Unit(n)]
    BY DEF FileUnits, Unit
  <2>4. Len(FileUnits) = Cardinality(CodePositions)
    BY <2>2, <2>3
  <2>5. \A n \in 1 .. Len(sent) : FileUnits[n] = Unit(n)
    BY <2>1, <2>2, <2>3 DEF InOrder
  <2> QED
    BY <2>1, <2>4, <2>5 DEF InOrder, Whole, Begun
<1> QED
  BY <1>1, InitialUnits, StepUnits, PTL DEF Spec, UInv

(* A pass through a well-formed file of any length whose start codes all     *)
(* have four bytes hands over each of its NAL units, whole, once and in     *)
(* order, and the worker is never lost (SelectNextNal, workerThread).       *)
THEOREM PassIsComplete == Spec => []EveryUnit
<1>1. UInv => EveryUnit
  <2> SUFFICES ASSUME UInv, WellFormed, FourByteCodes
               PROVE  stage # "lost" /\ (stage = "restart" => sent = FileUnits)
    BY DEF EveryUnit
  <2>1. TypeOK /\ stage # "lost" /\ (stage = "restart" => Complete(sent))
    BY DEF UInv, UnitInv, IInv
  <2>2. sent \in Seq([from : Nat, len : Nat])
    BY <2>1 DEF TypeOK
  <2>3. sent = [n \in 1 .. Len(sent) |-> sent[n]]
    BY <2>2
  <2>4. FileUnits = [n \in 1 .. Cardinality(CodePositions) |-> Unit(n)]
    BY DEF FileUnits, Unit
  <2>5. Complete(sent) => sent = FileUnits
    BY <2>3, <2>4 DEF Complete, AllWhole, Whole
  <2> QED
    BY <2>1, <2>5
<1> QED
  BY <1>1, InitialUnits, StepUnits, PTL DEF Spec, UInv
=============================================================================
