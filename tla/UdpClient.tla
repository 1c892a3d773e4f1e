----------------------------- MODULE UdpClient ------------------------------
(***************************************************************************)
(* The client process in UDP mode: Automata::run calls the method of the   *)
(* current state, which runs one cycle of UDPPostman::poll_for_messages    *)
(* and then reacts to the results in order.  pc names the places of that   *)
(* cycle between which the rest of the world can move: signals arrive,     *)
(* time passes, datagrams are delivered.                                   *)
(*                                                                         *)
(*   top     about to call the method of `state' (or to leave run)         *)
(*   poll    in poll(2), at most 50 ms                                     *)
(*   stdin   waiters checked again, about to look at stdin                 *)
(*   socket  about to look at the socket                                   *)
(*   handle  in the loop over the poll results                             *)
(***************************************************************************)
EXTENDS UdpPostman, Automata

CONSTANTS
    EofIsReadable,  \* how poll reports the end of stdin: POLLIN or only POLLHUP
    MaxSent,        \* bound: messages the client sends
    MaxInbox        \* bound: messages that reach the state machine

ASSUME StdinAssumption == EofIsReadable \in BOOLEAN
ASSUME BoundsAssumption == MaxSent \in Nat \ {0} /\ MaxInbox \in Nat

VARIABLES
    state, ret_code,  \* the members of Automata
    running,          \* the state whose method is executing
    results,          \* the poll results not yet handled
    pc,
    udp_had_sigint,   \* the flag the signal handler sets
    stdin_eof,        \* the user has closed stdin
    inbox             \* history: what reached the machine, and in which method

automata_vars == <<state, ret_code, running>>
client_vars ==
    <<postman_vars, automata_vars, results, pc, udp_had_sigint, stdin_eof, inbox>>

Pc == {"top", "poll", "stdin", "socket", "handle", "exited", "aborted"}

Delivery == [id : Id, type : MessageType, at : State]

Gone == pc \in {"exited", "aborted"}

ClientInit ==
    /\ PostmanInit
    /\ state = "S_START"
    /\ ret_code = "EXIT_SUCCESS"
    /\ running = "S_START"
    /\ results = <<>>
    /\ pc = "top"
    /\ udp_had_sigint = FALSE
    /\ stdin_eof = FALSE
    /\ inbox = <<>>

(* poll_for_messages returns at once with one result of the user. *)
ReturnEarly(type) ==
    /\ results' = <<UserResult(type)>>
    /\ pc' = "handle"

-----------------------------------------------------------------------------
(* The head of a state method, and of poll_for_messages. *)

EnterMethod ==
    /\ pc = "top" /\ state # "S_END"
    /\ running' = state
    /\ ret_code' = EntryCode(state, ret_code)
    /\ UNCHANGED <<state, udp_had_sigint, stdin_eof, inbox>>

PollSigint ==
    /\ EnterMethod
    /\ udp_had_sigint
    /\ UnlockStdin
    /\ ReturnEarly("BYE")

PollGivesUp ==
    /\ EnterMethod
    /\ ~udp_had_sigint
    /\ GiveUp
    /\ ReturnEarly("ERR")

PollBeginsAnyway ==
    /\ EnterMethod
    /\ CheckWaiters
    /\ pc' = "poll"
    /\ UNCHANGED results

PollBegins ==
    /\ EnterMethod
    /\ ~udp_had_sigint
    /\ CheckWaiters
    /\ pc' = "poll"
    /\ UNCHANGED results

(* poll(2) returns -1: the signal came while it was blocked.  A signal that
   came between the check of the flag and the call does not interrupt it,
   so with the flag set poll may as well return normally. *)
PollInterrupted ==
    /\ pc = "poll" /\ udp_had_sigint
    /\ UnlockStdin
    /\ ReturnEarly("BYE")
    /\ UNCHANGED <<automata_vars, udp_had_sigint, stdin_eof, inbox>>

PollReturns ==
    /\ pc = "poll"
    /\ CheckWaiters
    /\ pc' = "stdin"
    /\ UNCHANGED <<automata_vars, results, udp_had_sigint, stdin_eof, inbox>>

PollReturnGivesUp ==
    /\ pc = "poll"
    /\ GiveUp
    /\ ReturnEarly("ERR")
    /\ UNCHANGED <<automata_vars, udp_had_sigint, stdin_eof, inbox>>

-----------------------------------------------------------------------------
(* stdin.  At the end of input poll reports POLLIN for a terminal or a
   file.  For a pipe whose writer is gone it reports POLLHUP alone, which
   `revents & POLLIN' does not see. *)

EofNeverSeen == StdinGate /\ stdin_eof /\ ~EofIsReadable

EofSeen == StdinGate /\ stdin_eof /\ EofIsReadable

(* read(0, &c, 1) returns 0. *)
ReadEof ==
    /\ pc = "stdin" /\ EofSeen
    /\ UnlockStdin
    /\ ReturnEarly("BYE")
    /\ UNCHANGED <<automata_vars, udp_had_sigint, stdin_eof, inbox>>

(* Room for the message a line makes the client send, for one more in
   answer to a datagram of the same cycle, and for the final BYE. *)
RoomForLine == Len(sent) + 2 < MaxSent

ReadLine(cmd) ==
    /\ pc = "stdin" /\ StdinGate /\ ~stdin_eof
    /\ RoomForLine
    /\ HandleUserCommand(cmd, AllowedCommands(running))
    /\ results' = UserResults(cmd, AllowedCommands(running))
    /\ pc' = "socket"
    /\ UNCHANGED <<automata_vars, udp_had_sigint, stdin_eof, inbox>>

(* An empty line: parse_input evaluates command.at(0) on an empty string,
   and nothing catches the exception. *)
ReadEmptyLine ==
    /\ pc = "stdin" /\ StdinGate /\ ~stdin_eof
    /\ pc' = "aborted"
    /\ UNCHANGED <<postman_vars, automata_vars, results, udp_had_sigint,
                   stdin_eof, inbox>>

(* No line has been typed, or stdin is locked. *)
SkipStdin ==
    /\ pc = "stdin" /\ ~EofSeen
    /\ pc' = "socket"
    /\ UNCHANGED <<postman_vars, automata_vars, results, udp_had_sigint,
                   stdin_eof, inbox>>

-----------------------------------------------------------------------------
(* The socket: poll_for_messages appends the results of the server to those
   of the user, and returns. *)

AfterPoll(res) == IF res = <<>> THEN "top" ELSE "handle"

RoomFor(m) ==
    Forwards(m) => /\ Len(sent) + Len(results) + 1 < MaxSent
                   /\ Len(inbox) < MaxInbox

ReadSocket(d) ==
    /\ pc = "socket"
    /\ \E m \in Receivable(d) :
          /\ RoomFor(m)
          /\ HandleServerMessage(m)
          /\ results' = results \o ServerResults(m)
          /\ inbox' = (IF Forwards(m)
                       THEN Append(inbox, [id |-> m.id, type |-> m.type, at |-> running])
                       ELSE inbox)
          /\ pc' = AfterPoll(results \o ServerResults(m))
    /\ UNCHANGED <<automata_vars, udp_had_sigint, stdin_eof>>

(* The parser throws, and nothing catches the exception. *)
ReadTruncated(d) ==
    /\ pc = "socket" /\ DataToMessage(d) = {}
    /\ pc' = "aborted"
    /\ UNCHANGED <<postman_vars, automata_vars, results, udp_had_sigint,
                   stdin_eof, inbox>>

(* No datagram has arrived. *)
SkipSocket ==
    /\ pc = "socket"
    /\ pc' = AfterPoll(results)
    /\ UNCHANGED <<postman_vars, automata_vars, results, udp_had_sigint,
                   stdin_eof, inbox>>

-----------------------------------------------------------------------------
(* One iteration of `for (auto &res : results)'. *)

Perform(call) ==
    \/ call = "none" /\ UNCHANGED postman_vars
    \/ call = "authorize" /\ Authorize
    \/ call = "join" /\ Join
    \/ call = "message" /\ Message
    \/ call = "error" /\ Error
    \/ call = "bye" /\ Bye

HandleResult ==
    LET r == React(running, Head(results), state) IN
    /\ pc = "handle"
    /\ Perform(r.call)
    /\ state' = r.next
    /\ ret_code' = (IF r.fail THEN "EXIT_FAILURE" ELSE ret_code)
    /\ results' = Tail(results)
    /\ pc' = (IF Tail(results) = <<>> THEN "top" ELSE "handle")
    /\ UNCHANGED <<running, udp_had_sigint, stdin_eof, inbox>>

(* sendto fails, for a retransmission, for the CONFIRM of a datagram or for
   what the machine says, and nothing catches the exception.  What the
   method has changed before is lost with the process. *)
SendFails(dgrams) ==
    /\ \/ pc = "top" /\ state # "S_END" /\ ~udp_had_sigint /\ Resent # {}
       \/ pc = "poll" /\ Resent # {}
       \/ pc = "socket" /\ \E d \in dgrams : d.type # "CONFIRM"
       \/ pc = "handle" /\ React(running, Head(results), state).call # "none"
    /\ pc' = "aborted"
    /\ UNCHANGED <<postman_vars, automata_vars, results, udp_had_sigint,
                   stdin_eof, inbox>>

(* run returns ret_code from S_END. *)
Exit ==
    /\ pc = "top" /\ state = "S_END"
    /\ pc' = "exited"
    /\ UNCHANGED <<postman_vars, automata_vars, results, udp_had_sigint,
                   stdin_eof, inbox>>

-----------------------------------------------------------------------------
(* What happens to the process from outside. *)

Sigint ==
    /\ ~Gone /\ ~udp_had_sigint
    /\ udp_had_sigint' = TRUE
    /\ UNCHANGED <<postman_vars, automata_vars, results, pc, stdin_eof, inbox>>

(* End of input.  At "stdin" the outcome of poll is already known, so an
   end of input there is one that comes a moment later. *)
CloseStdin ==
    /\ ~Gone /\ pc # "stdin" /\ ~stdin_eof
    /\ stdin_eof' = TRUE
    /\ UNCHANGED <<postman_vars, automata_vars, results, pc, udp_had_sigint, inbox>>

Tick ==
    /\ ~Gone
    /\ \E k \in DOMAIN confirm_waiters : confirm_waiters[k].left >= 0
    /\ Elapse
    /\ UNCHANGED <<automata_vars, results, pc, udp_had_sigint, stdin_eof, inbox>>

(* The steps of the process itself, given the datagrams it may receive. *)
ClientStep(dgrams) ==
    \/ PollSigint \/ PollGivesUp \/ PollBegins
    \/ PollInterrupted \/ PollReturns \/ PollReturnGivesUp
    \/ ReadEof \/ ReadEmptyLine \/ SkipStdin
    \/ \E cmd \in Command : ReadLine(cmd)
    \/ \E d \in dgrams : ReadSocket(d) \/ ReadTruncated(d)
    \/ SkipSocket
    \/ HandleResult
    \/ SendFails(dgrams)
    \/ Exit
=============================================================================
