------------------------------ MODULE MC_UdpRing ------------------------------
(* Small instances of UdpRing for TLC. *)
EXTENDS UdpRing

MCEmpty == {2}
MCShort == {3}
=============================================================================
