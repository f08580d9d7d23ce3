---------------------------- MODULE MCRtspReceive ---------------------------
(* Instances of RtspReceive for TLC.                                       *)
EXTENDS RtspReceive, TLC

\* as most clients write them
PlainLines == {<<"cseq">>, <<"cseq", "transport">>}

\* Transport on either side of CSeq, and lines that are ignored on both sides;
\* with the longest of these a request does not fit into a buffer of six parts
MixedLines ==
  {<<"cseq">>, <<"header", "cseq", "header", "header", "header">>,
   <<"cseq", "transport">>, <<"transport", "header", "cseq">>}

\* sessions are interchangeable
Symmetry == Permutations(Sessions)
=============================================================================
