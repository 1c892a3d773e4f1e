----------------------------- MODULE UdpClaims ------------------------------
(***************************************************************************)
(* What the repository's README says of the UDP client and its code does   *)
(* not do.  Each property states one sentence literally; the run that      *)
(* checks it ends with the counterexample.                                 *)
(***************************************************************************)
EXTENDS UdpChat

(* README.md:85: a duplicate is not added to the messages given to the
   machine.  A repeated REPLY is, as UNKNOWN, once a newer message has been
   sent (UdpPostman.cpp:627-645), and it ends a sound session. *)
ForwardedOnce ==
    \A i, j \in DOMAIN inbox :
        i < j /\ inbox[j].at # "S_ERROR" => inbox[i].id # inbox[j].id

(* README.md:99: when a CONFIRM is received the waiting message it belongs
   to is deleted from the list.  The waiter has a 16 bit id, the datagram
   only its low byte (UdpPostman.cpp:83-84). *)
ConfirmDeletesWaiter ==
    [][\A k \in DOMAIN confirm_waiters \cap srv_seen :
          ReadSocket(ConfirmOf(k)) => k \notin DOMAIN confirm_waiters']_vars
=============================================================================
