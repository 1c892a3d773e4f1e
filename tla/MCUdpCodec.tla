----------------------------- MODULE MCUdpCodec -----------------------------
(***************************************************************************)
(* Ids on both sides of the byte boundary, and texts of every length up to *)
(* two, the empty one included.                                            *)
(***************************************************************************)
EXTENDS UdpCodec

SomeIds == {0, 1, 255, 256, 65535}
SomeTexts == {<<>>, <<7>>, <<8, 7>>}
=============================================================================
