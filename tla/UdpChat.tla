------------------------------- MODULE UdpChat ------------------------------
(***************************************************************************)
(* The UDP client, the network and a server.  The server is not part of    *)
(* this repository: it is any peer of the protocol the client expects.  It *)
(* confirms what it receives, answers each AUTH and JOIN at most once, and *)
(* sends whatever else ServerTypes allows.  What it sent stays deliverable *)
(* for ever, and what the client sent may be received at any time or       *)
(* never: datagrams are lost, duplicated, delayed and reordered.           *)
(***************************************************************************)
EXTENDS UdpClient

CONSTANTS
    ServerTypes,    \* what the server sends unasked
    ServerFirstId,  \* the id of its first message
    MaxServer       \* bound: messages the server sends

ASSUME ServerAssumption ==
    /\ ServerTypes \subseteq {"MSG", "ERR", "BYE", "GARBLED", "TRUNCATED"}
    /\ ServerFirstId \in 0 .. IdMod - 1
    /\ MaxServer \in Nat

VARIABLES
    srv_seen,  \* positions in sent of the messages the server has received
    srv_sent   \* the messages the server has sent, CONFIRMs apart

server_vars == <<srv_seen, srv_sent>>
vars == <<client_vars, server_vars>>

SentByServer == {srv_sent[i] : i \in DOMAIN srv_sent}

Answered(k) == \E d \in SentByServer : d.type = "REPLY" /\ d.re = k

Granted(k) == \E d \in SentByServer : d.type = "REPLY" /\ d.re = k /\ d.result = 1

ConfirmOf(k) == [type |-> "CONFIRM", id |-> 0, ref_id |-> Wire(sent[k].id),
                 result |-> 0, re |-> k]

InFlight == SentByServer \cup {ConfirmOf(k) : k \in srv_seen}

Init == ClientInit /\ srv_seen = {} /\ srv_sent = <<>>

ServerReceives(k) ==
    /\ srv_seen' = srv_seen \cup {k}
    /\ UNCHANGED <<client_vars, srv_sent>>

ServerSends(d) ==
    /\ ~Gone /\ Len(srv_sent) < MaxServer
    /\ srv_sent' = Append(srv_sent, d)
    /\ UNCHANGED <<client_vars, srv_seen>>

NextServerId == (ServerFirstId + Len(srv_sent)) % IdMod

ServerReplies(k, result) ==
    /\ sent[k].type \in Request /\ ~Answered(k)
    /\ ServerSends([type |-> "REPLY", id |-> NextServerId,
                    ref_id |-> Wire(sent[k].id), result |-> result, re |-> k])

(* The server learns the client's address from its first datagram. *)
ServerSpeaks(type) ==
    /\ srv_seen # {}
    /\ ServerSends([type |-> type, id |-> NextServerId,
                    ref_id |-> 0, result |-> 0, re |-> 0])

Client == ClientStep(InFlight) /\ UNCHANGED server_vars

Environment ==
    \/ \E k \in DOMAIN sent \ srv_seen : ~Gone /\ ServerReceives(k)
    \/ \E k \in srv_seen, result \in {0, 1} : ServerReplies(k, result)
    \/ \E type \in ServerTypes : ServerSpeaks(type)
    \/ Sigint /\ UNCHANGED server_vars
    \/ CloseStdin /\ UNCHANGED server_vars

Clock == Tick /\ UNCHANGED server_vars

(* The process has ended. *)
Terminated == Gone /\ UNCHANGED vars

Next == Client \/ Environment \/ Clock \/ Terminated

Spec == Init /\ [][Next]_vars

(* The operating system runs a client that can run, and time passes. *)
FairSpec == Spec /\ WF_vars(Client) /\ WF_vars(Clock)

-----------------------------------------------------------------------------
(* Properties *)

PostmanTypeOK ==
    /\ msg_id \in Id
    /\ ref_msg_id \in -IdMod .. IdMod
    /\ first_message \in BOOLEAN
    /\ sent \in Seq(Sent)
    /\ DOMAIN confirm_waiters \subseteq DOMAIN sent
    /\ confirm_waiters \in [DOMAIN confirm_waiters -> ConfirmWaiter]
    /\ last_sent_message \in [type : ClientType \cup {"UNKNOWN"}, id : Id]
    /\ is_waiting_for_reply \in BOOLEAN
    /\ display_name \in Names \cup {"User"}
    /\ server_port \in Port
    /\ acks \subseteq Id

ClientTypeOK ==
    /\ state \in State
    /\ ret_code \in ExitCode
    /\ running \in State \ {"S_END"}
    /\ results \in Seq(PollResult)
    /\ pc \in Pc
    /\ pc = "handle" => results # <<>>
    /\ udp_had_sigint \in BOOLEAN
    /\ stdin_eof \in BOOLEAN
    /\ inbox \in Seq(Delivery)

ServerTypeOK ==
    /\ srv_seen \subseteq DOMAIN sent
    /\ srv_sent \in Seq(Datagram)

(* Every variable keeps the type its declaration in the code gives it:
   tries_left is never decremented below 0 (it is a uint8_t), every waiter
   is a message that was sent, the ids are 16 bits wide. *)
TypeOK == PostmanTypeOK /\ ClientTypeOK /\ ServerTypeOK

(* A message is taken off the waiting list as confirmed only if the server
   did receive that very message, whatever late and repeated CONFIRMs of
   other messages arrive; as long as no id repeats on the wire. *)
ConfirmedWasReceived ==
    Len(sent) <= ByteMod =>
        \A k \in DOMAIN sent : sent[k].fate = "confirmed" => k \in srv_seen

(* The retry budget: the tries a waiting message has left are those not
   used, nothing is sent more than 1 + MaxRetries times, and a message is
   reported as not confirmed only when it has been sent that often. *)
RetryAccounting ==
    \A k \in DOMAIN sent :
        /\ k \in DOMAIN confirm_waiters <=> sent[k].fate = "waiting"
        /\ k \in DOMAIN confirm_waiters =>
               confirm_waiters[k].tries_left + sent[k].copies = MaxRetries + 1
        /\ sent[k].fate = "failed" => sent[k].copies = MaxRetries + 1

(* Stop and wait: of the messages the user causes, at most one is waiting
   for its CONFIRM, although several waiters are possible (an ERR is sent
   without looking at the list). *)
OneUserMessageOutstanding ==
    \A j, k \in DOMAIN confirm_waiters :
        sent[j].type \in UserType /\ sent[k].type \in UserType => j = k

(* The user's messages keep their order with the server's answers: nothing
   of the user's is sent after an AUTH or a JOIN that the server has not
   answered yet, however old REPLYs are repeated; as long as the ids have
   not wrapped around, when an old REPLY may fit again. *)
RequestsAnsweredFirst ==
    Len(sent) <= IdMod =>
        \A j, k \in DOMAIN sent :
            j < k /\ sent[j].type \in Request /\ sent[k].type \in UserType => Answered(j)

(* The machine is in S_OPEN only if the server has granted the last AUTH
   the client sent: an earlier refusal or an answer to a JOIN does not
   count. *)
OpenMeansGranted ==
    state = "S_OPEN" =>
        \E k \in DOMAIN sent :
            /\ sent[k].type = "AUTH" /\ Granted(k)
            /\ \A j \in DOMAIN sent : sent[j].type = "AUTH" => j <= k

(* What is said in the session goes to the port the session lives on, from
   the first message on: the port learnt from the REPLY is in use before
   the machine can send a JOIN or a MSG. *)
DataGoesToSession ==
    \A k \in DOMAIN sent : sent[k].type \in {"JOIN", "MSG"} => sent[k].port = "session"

(* No message of the server reaches the machine a second time while the
   session is sound (an UNKNOWN ends that, and has an id of its own). *)
NoMessageShownTwice ==
    \A i, j \in DOMAIN inbox :
        i < j /\ inbox[j].at # "S_ERROR" /\ inbox[j].type # "UNKNOWN"
            => inbox[i].id # inbox[j].id

Failed == \E k \in DOMAIN sent : sent[k].fate = "failed"

Complained == \E k \in DOMAIN sent : sent[k].type = "ERR"

Heard(type) == \E i \in DOMAIN inbox : inbox[i].type = type

(* The exit code tells whether the session went well: it is EXIT_FAILURE
   exactly if a message was never confirmed, the client had to send an ERR,
   or the server sent one that was looked at. *)
ExitCodeHonest ==
    pc = "exited" =>
        (ret_code = "EXIT_FAILURE" <=> Failed \/ Complained \/ Heard("ERR"))

(* While the session is sound, stdin is locked only for a REPLY that can
   still unlock it: the message it must refer to is the last one sent. *)
LockHasKey ==
    is_waiting_for_reply /\ state \in {"S_START", "S_AUTH", "S_OPEN"} =>
        last_sent_message.type \in Request

(* BYE is the last thing the client says. *)
NothingAfterBye ==
    \A k \in DOMAIN sent : sent[k].type = "BYE" => k = Len(sent)

(* The client leaves in one of three ways: it says BYE, the server has said
   BYE, or the server has stopped confirming. *)
LeavesProperly ==
    pc = "exited" => \/ sent # <<>> /\ sent[Len(sent)].type = "BYE"
                     \/ Heard("BYE")
                     \/ Failed

(* The abstract session that this client implements. *)
Session == INSTANCE ChatSession WITH
    Horizon <- IdMod,
    phase   <- state,
    said    <- [k \in DOMAIN sent |-> sent[k].type],
    granted <- {k \in DOMAIN sent : Granted(k)},
    refused <- {k \in DOMAIN sent : Answered(k) /\ ~Granted(k)},
    code    <- ret_code

(* Whatever the network does, the client behaves like a session: it talks
   only when it has been let in and its requests are answered, and every way
   it ends is one the session has. *)
ImplementsSession == Session!SessionSpec

(* Ctrl-C ends the client, whatever it is doing and whatever arrives. *)
SigintEnds == udp_had_sigint ~> Gone

(* No message waits for ever: it is confirmed, given up, or the client is
   gone.  The waiting list is served even while stdin is locked and while
   the server keeps the socket busy. *)
EveryMessageResolved ==
    \A k \in 1 .. MaxSent :
        (k \in DOMAIN confirm_waiters) ~> (k \notin DOMAIN confirm_waiters \/ Gone)

(* The end of stdin (of a terminal or a file) ends the client, unless it
   waits for a REPLY again and again. *)
EofEnds == <>[](stdin_eof /\ ~is_waiting_for_reply) => <>Gone
=============================================================================
