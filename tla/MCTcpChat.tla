----------------------------- MODULE MCTcpChat -----------------------------
(***************************************************************************)
(* Values of the constants for TLC.                                        *)
(***************************************************************************)
EXTENDS TcpClaims

MCNames == {"alice"}

Plain(types) == [type : types, ok : {FALSE}, quotes : {"none"}, re : {0}]

AnyLines == Plain({"MSG", "ERR", "BYE", "GARBLED"})
TalkLines == Plain({"MSG", "GARBLED"})
NoQuotes == {"none"}
QuotesErr == {"none", "ERR"}
=============================================================================
