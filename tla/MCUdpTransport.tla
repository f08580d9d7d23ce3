---------------------------- MODULE MCUdpTransport --------------------------
(* Instances of UdpTransport for TLC.                                      *)
EXTENDS UdpTransport, TLC

\* worker slots are interchangeable
Symmetry == Permutations(Workers)
=============================================================================
