------------------------------ MODULE TcpChat ------------------------------
(***************************************************************************)
(* The TCP client and a server.  The server is not part of this            *)
(* repository: it answers each AUTH and JOIN at most once, says whatever   *)
(* else ServerLines allows at any time, and may close the connection or    *)
(* reset it.                                                               *)
(***************************************************************************)
EXTENDS TcpClient

CONSTANTS
    ServerLines,  \* lines the server writes unasked
    ReplyQuotes,  \* what the text of its REPLYs may read as
    Resets,       \* the server may reset the connection
    MaxServer     \* bound: lines the server writes

ASSUME ServerLinesAssumption ==
    /\ ServerLines \subseteq [type : {"MSG", "ERR", "BYE", "GARBLED"}, ok : {FALSE},
                              quotes : MessageType \cup {"none"}, re : {0}]
    /\ ReplyQuotes \subseteq MessageType \cup {"none"}
    /\ Resets \in BOOLEAN
    /\ MaxServer \in Nat

VARIABLE srv_sent  \* the lines the server has written

vars == <<client_vars, srv_sent>>

WrittenLines == {srv_sent[i] : i \in DOMAIN srv_sent}

Answered(k) == \E l \in WrittenLines : l.type = "REPLY" /\ l.re = k

Granted(k) == \E l \in WrittenLines : l.type = "REPLY" /\ l.re = k /\ l.ok

Init == ClientInit /\ srv_sent = <<>>

ServerWrites(l) ==
    /\ ~Gone /\ connection = "open" /\ Len(srv_sent) < MaxServer
    /\ srv_sent' = Append(srv_sent, l)
    /\ UNCHANGED client_vars

ServerReplies(k, ok, quotes) ==
    /\ sent[k] \in Request /\ ~Answered(k)
    /\ ServerWrites([type |-> "REPLY", ok |-> ok, quotes |-> quotes, re |-> k])

ServerEnds(how) ==
    /\ ~Gone /\ connection # "reset" /\ connection # how
    /\ connection' = how
    /\ UNCHANGED <<consumed, is_waiting_for_reply, display_name, sent,
                   automata_vars, results, pc, tcp_had_sigint, stdin_eof, inbox, srv_sent>>

Client == ClientStep(srv_sent) /\ UNCHANGED srv_sent

Environment ==
    \/ \E k \in DOMAIN sent, ok \in BOOLEAN, q \in ReplyQuotes : ServerReplies(k, ok, q)
    \/ \E l \in ServerLines : ServerWrites(l)
    \/ ServerEnds("shut")
    \/ Resets /\ ServerEnds("reset")
    \/ Sigint /\ UNCHANGED srv_sent
    \/ CloseStdin /\ UNCHANGED srv_sent

(* The process has ended. *)
Terminated == Gone /\ UNCHANGED vars

Next == Client \/ Environment \/ Terminated

Spec == Init /\ [][Next]_vars

Receives ==
    /\ \E upto \in consumed + 1 .. 2 * Len(srv_sent) : ReadChunk(srv_sent, upto)
    /\ UNCHANGED srv_sent

(* The operating system runs a client that can run, and TCP delivers what
   has been written. *)
FairSpec == Spec /\ WF_vars(Client) /\ SF_vars(Receives)

-----------------------------------------------------------------------------
(* Properties *)

(* The variables keep their types; the client never has more of the stream
   than was written. *)
TypeOK ==
    /\ connection \in Connection
    /\ consumed \in 0 .. 2 * Len(srv_sent)
    /\ is_waiting_for_reply \in BOOLEAN
    /\ display_name \in TcpNames \cup {"User"}
    /\ sent \in Seq(ClientType)
    /\ state \in State /\ ret_code \in ExitCode /\ running \in State \ {"S_END"}
    /\ results \in Seq(PollResult)
    /\ pc \in Pc
    /\ pc = "handle" => results # <<>>
    /\ tcp_had_sigint \in BOOLEAN /\ stdin_eof \in BOOLEAN
    /\ inbox \in Seq(Delivery)
    /\ srv_sent \in Seq(Line)

(* The abstract session that this client implements. *)
Session == INSTANCE ChatSession WITH
    Horizon <- MaxLines + MaxServer + MaxInbox + 1,
    phase   <- state,
    said    <- sent,
    granted <- {k \in DOMAIN sent : Granted(k)},
    refused <- {k \in DOMAIN sent : Answered(k) /\ ~Granted(k)},
    code    <- ret_code

(* However the stream is cut into chunks, the client behaves like a session:
   it talks only when it has been let in and its requests are answered, and
   every way it ends is one the session has. *)
ImplementsSession == Session!SessionSpec

(* What reaches the machine was written by the server, as a line or in the
   text of one, and comes in the order it was written in, nothing twice;
   lines may be lost on the way, when they share a chunk. *)
HeardInOrder ==
    \A i, j \in DOMAIN inbox :
        /\ inbox[i].type # "UNKNOWN" =>
               /\ inbox[i].of \in DOMAIN srv_sent
               /\ LET l == srv_sent[inbox[i].of] IN inbox[i].type \in {l.type, l.quotes}
        /\ i < j /\ inbox[i].of > 0 /\ inbox[j].of > 0 => inbox[i].of < inbox[j].of

(* A chunk ended within line i; the n-th chunk holds all of it. *)
Cut(i) == \E n \in DOMAIN inbox : inbox[n].to = 2 * i - 1

Holds(n, i) == inbox[n].from <= 2 * i - 2 /\ 2 * i <= inbox[n].to

(* What was heard of the n-th chunk is line i, or was found before it. *)
Outranks(n, i) ==
    /\ inbox[n].type \in DOMAIN Rank
    /\ inbox[n].from < 2 * inbox[n].of /\ 2 * inbox[n].of <= inbox[n].to
    /\ IsBefore(inbox[n], [type |-> srv_sent[i].type, of |-> i])

(* Framing alone loses a line.  When all of a line of a known type has been
   received, either a chunk ended within it, or the machine was told of that
   line or of one line of the same chunk that data_to_message tries first:
   an earlier type, or the same type further ahead in the chunk. *)
LostOnlyByFraming ==
    \A i \in DOMAIN srv_sent :
        2 * i <= consumed /\ srv_sent[i].type \in DOMAIN Rank =>
            Cut(i) \/ \E n \in DOMAIN inbox : Holds(n, i) /\ Outranks(n, i)

(* A user is locked out by framing alone: if stdin is still locked after the
   answer to the last request has been received, that REPLY was cut, or it
   came in one chunk with a message that data_to_message prefers to it. *)
LockedOutByFraming ==
    \A i \in DOMAIN srv_sent :
        (/\ is_waiting_for_reply
         /\ srv_sent[i].type = "REPLY" /\ 2 * i <= consumed
         /\ \A k \in DOMAIN sent : sent[k] \in Request => k <= srv_sent[i].re)
        => \/ Cut(i)
           \/ \E n \in DOMAIN inbox :
                 Holds(n, i) /\ inbox[n].type \in {"JOIN", "AUTH", "MSG", "ERR"}

Readable(t) == IF t \in DOMAIN Rank THEN t ELSE "UNKNOWN"

(* If every chunk is one line, the machine is told of every line, whole and
   in order, up to the end of the stream. *)
EveryLineHeard ==
    LET lines == consumed \div 2 IN
    /\ Len(inbox) >= lines
    /\ \A i \in 1 .. lines : inbox[i].type = Readable(srv_sent[i].type)
    /\ Len(inbox) > lines => connection # "open"

(* Then stdin is locked only as long as the answer has not been read. *)
AnswerUnlocks ==
    \A k \in 1 .. MaxLines + MaxServer :
        (is_waiting_for_reply /\ k \in DOMAIN sent /\ Answered(k)
            /\ \A j \in DOMAIN sent : sent[j] \in Request => j <= k)
        ~> (~is_waiting_for_reply \/ Gone)

(* Ctrl-C ends the client, also while it waits, complains, or reads the end
   of the stream again and again. *)
SigintEnds == tcp_had_sigint ~> Gone
=============================================================================
