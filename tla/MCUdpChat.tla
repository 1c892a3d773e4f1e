----------------------------- MODULE MCUdpChat ------------------------------
(***************************************************************************)
(* Values of the constants for TLC.  The ids keep their real width: no     *)
(* action enumerates them.                                                 *)
(***************************************************************************)
EXTENDS UdpClaims

MCUint16 == 65536
MCByte == 256
MCNames == {"alice"}

SilentServer == {}
PoliteServer == {"MSG"}
AnyServer == {"MSG", "ERR", "BYE", "GARBLED", "TRUNCATED"}
=============================================================================
