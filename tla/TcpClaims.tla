----------------------------- MODULE TcpClaims -----------------------------
(***************************************************************************)
(* What the repository's README says of the TCP client and its code does   *)
(* not do.  Each property states one sentence literally; the run that      *)
(* checks it ends with the counterexample.                                 *)
(***************************************************************************)
EXTENDS TcpChat

Heard(i) == \E n \in DOMAIN inbox : inbox[n].of = i

(* README.md:109: the stream is separated into messages at the delimiter
   CR LF.  Of two lines that arrive together only one is parsed
   (TcpPostman.cpp:402, 474-477); the other, which may be the REPLY that
   stdin waits for, is gone. *)
DelimiterSeparates ==
    \A i \in DOMAIN srv_sent :
        2 * i <= consumed /\ srv_sent[i].type \in DOMAIN Rank => Heard(i)
=============================================================================
