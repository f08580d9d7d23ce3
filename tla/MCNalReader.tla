----------------------------- MODULE MCNalReader ----------------------------
(***************************************************************************)
(* Files for NalReader: every short string of bytes, and files of up to    *)
(* four NAL units with start codes of both lengths.                        *)
(***************************************************************************)
EXTENDS NalReader

CONSTANT MaxLen   \* bound: the length of the strings considered

Strings == UNION {[1 .. n -> Byte] : n \in 0 .. MaxLen}

\* 00 01 is the header of a trailing picture, 2 1 that of an end of sequence,
\* and 0 0 2 what emulation prevention leaves of zeros
Payloads == {<<0, 1>>, <<2, 1>>, <<2, 1, 0, 0, 2>>, <<0, 1, 2, 2, 0, 1>>}
Codes    == {<<0, 0, 1>>, <<0, 0, 0, 1>>}
Units    == {c \o x : c \in Codes, x \in Payloads}

\* with four short NAL units the size can run out before the last start code
ShortUnits == {c \o x : c \in Codes, x \in {<<0, 1>>, <<2, 1>>}}

Files ==
  Units \cup {u \o v : u, v \in Units} \cup {u \o v \o w : u, v, w \in Units}
    \cup {t \o u \o v \o w : t, u, v, w \in ShortUnits}

\* something before the first start code moves the end past the end of the file,
\* and the zeros behind the last NAL unit may then be taken for half a start code
PaddedFiles ==
  {x \o u \o v \o <<0, 0>> : x \in {<<0, 0, 0>>, <<2, 2, 2>>}, u, v \in ShortUnits}

StringsAndFiles == Strings \cup Files \cup PaddedFiles
=============================================================================
