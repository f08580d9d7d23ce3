--------------------------- MODULE StartcodeSearch --------------------------
(***************************************************************************)
(* ff_avc_find_startcode (AVC.cpp): the first start code 00 00 01 between  *)
(* two addresses, or 00 00 00 01 when a zero stands before it.             *)
(*                                                                         *)
(* One action is one turn of one of the three loops: byte by byte up to an *)
(* aligned address, word by word, byte by byte to the end.  Addresses are  *)
(* offsets in the file, which readFile puts at an aligned address.  The    *)
(* search only tells the bytes 00 and 01 from the others.                  *)
(***************************************************************************)
EXTENDS Integers, Sequences

Byte == {0, 1, 2}   \* 2 is any byte but 00 and 01

VARIABLES
  bytes,  \* the file
  from,   \* the argument p
  end,    \* the argument end
  p,      \* the loop variable
  loop,   \* the loop it is in; "found" after the return
  out     \* what the search returns

search == <<from, end, p, loop, out>>

SearchTypeOK ==
  /\ bytes \in Seq(Byte)
  /\ from \in Nat /\ end \in Nat /\ p \in Nat /\ out \in Nat
  /\ loop \in {"align", "words", "tail", "found"}

At(i) == IF i < Len(bytes) THEN bytes[i + 1] ELSE -1

CodeAt(i) == At(i) = 0 /\ At(i + 1) = 0 /\ At(i + 2) = 1

\* a, the first multiple of 4 after p
Aligned == from + 4 - (from % 4)

ZeroInWord == \E k \in 0 .. 3 : At(p + k) = 0

\* mutant: the start code across two words is left to the next word
InWordHitsShort == {k \in 0 .. 2 : ZeroInWord /\ CodeAt(p + k)}

\* start codes that begin in the word at p; they may end in the next one
InWordHits == {k \in 0 .. 3 : ZeroInWord /\ CodeAt(p + k)}

\* find 0001 in x001
LookBack(q) == IF from < q /\ q < end /\ At(q - 1) = 0 THEN q - 1 ELSE q

Return(q) ==
  /\ loop' = "found"
  /\ out' = LookBack(q)
  /\ UNCHANGED <<from, end, p>>

Advance(n) ==
  /\ p' = p + n
  /\ UNCHANGED <<from, end, loop, out>>

Leave(next) ==
  /\ loop' = next
  /\ UNCHANGED <<from, end, p, out>>

Align ==
  /\ loop = "align"
  /\ \/ p < Aligned /\ p < end - 3 /\ CodeAt(p) /\ Return(p)
     \/ p < Aligned /\ p < end - 3 /\ ~CodeAt(p) /\ Advance(1)
     \/ ~(p < Aligned /\ p < end - 3) /\ Leave("words")

\* mutant: end is not moved back for the words
WordsFar ==
  /\ loop = "words"
  /\ \/ \E k \in 0 .. 3 :
          /\ p < end - 3 /\ k \in InWordHits
          /\ \A j \in InWordHits : k <= j
          /\ Return(p + k)
     \/ p < end - 3 /\ InWordHits = {} /\ Advance(4)
     \/ ~(p < end - 3) /\ Leave("tail")

\* mutant: a word with a zero but no start code is not left
WordsStuck ==
  /\ loop = "words"
  /\ \/ \E k \in 0 .. 3 :
          /\ p < end - 6 /\ k \in InWordHits
          /\ \A j \in InWordHits : k <= j
          /\ Return(p + k)
     \/ p < end - 6 /\ InWordHits = {} /\ Advance(IF ZeroInWord THEN 0 ELSE 4)
     \/ ~(p < end - 6) /\ Leave("tail")

Words ==
  /\ loop = "words"
  /\ \/ \E k \in 0 .. 3 :
          /\ p < end - 6 /\ k \in InWordHits
          /\ \A j \in InWordHits : k <= j
          /\ Return(p + k)
     \/ p < end - 6 /\ InWordHits = {} /\ Advance(4)
     \/ ~(p < end - 6) /\ Leave("tail")

TailBytes ==
  /\ loop = "tail"
  /\ \/ p < end - 3 /\ CodeAt(p) /\ Return(p)
     \/ p < end - 3 /\ ~CodeAt(p) /\ Advance(1)
     \/ ~(p < end - 3) /\ Return(end)

SearchStep == Align \/ Words \/ TailBytes

\* a call of ff_avc_find_startcode(f, e)
Call(f, e) ==
  /\ from' = f /\ end' = e /\ p' = f
  /\ loop' = "align"
  /\ UNCHANGED out

-----------------------------------------------------------------------------
(* Properties.                                                             *)

\* q is the first start code in the range that a byte follows
FirstCode(q) ==
  /\ from <= q /\ q < end - 3 /\ CodeAt(q)
  /\ \A i \in from .. q - 1 : ~CodeAt(i)

\* The search returns the first start code between its two addresses, with the
\* zero in front of it if there is one after the first address, and the end if
\* there is no start code; wherever the codes lie between the aligned words
\* (the three loops of ff_avc_find_startcode_internal and the look-back).
FoundFirst ==
  loop = "found" =>
    \/ /\ out = end
       /\ \A i \in from .. end - 4 : ~CodeAt(i)
    \/ FirstCode(out) /\ (out = from \/ At(out - 1) # 0)
    \/ FirstCode(out + 1) /\ from <= out /\ At(out) = 0

\* A word is read at an aligned address, and the six bytes that a turn of its
\* loop looks at lie in front of the end, so in the file (the intptr_t cast, and
\* end -= 3 twice).
WordsInside ==
  [][loop = "words" /\ loop' # "tail" => p % 4 = 0 /\ p + 5 < end]_search
=============================================================================
