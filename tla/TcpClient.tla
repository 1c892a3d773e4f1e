----------------------------- MODULE TcpClient -----------------------------
(***************************************************************************)
(* The client process in TCP mode: the loop of Automata::run around        *)
(* TCPPostman::poll_for_messages.  The machine is the one of UDP mode; the *)
(* cycle is shorter, since nothing is retransmitted.  pc as in UdpClient:  *)
(*                                                                         *)
(*   top     about to call the method of `state' (or to leave run)         *)
(*   poll    in poll(2), at most 50 ms                                     *)
(*   stdin   poll has returned, about to look at stdin                     *)
(*   socket  about to look at the socket                                   *)
(*   handle  in the loop over the poll results                             *)
(***************************************************************************)
EXTENDS TcpPostman, Automata

CONSTANTS
    Coalesces,  \* a chunk may hold (parts of) several lines
    Splits,     \* a chunk may end within a line
    MaxLines,   \* bound: commands of the user that are sent
    MaxInbox    \* bound: results up to which the end of the stream is read

ASSUME FramingAssumption == Coalesces \in BOOLEAN /\ Splits \in BOOLEAN
ASSUME TcpBoundsAssumption == MaxLines \in Nat /\ MaxInbox \in Nat

VARIABLES
    state, ret_code,  \* the members of Automata
    running,          \* the state whose method is executing
    results,          \* the poll results not yet handled
    pc,
    tcp_had_sigint,   \* the flag the signal handler sets
    stdin_eof,        \* the user has closed stdin
    inbox             \* history: what reached the machine, the line it was, and
                      \* the chunk: the halves of lines after `from' up to `to'

automata_vars == <<state, ret_code, running>>
client_vars ==
    <<postman_vars, automata_vars, results, pc, tcp_had_sigint, stdin_eof, inbox>>

Pc == {"top", "poll", "stdin", "socket", "handle", "exited", "aborted"}

Delivery == [type : MessageType, of : Nat, from : Nat, to : Nat]

Gone == pc \in {"exited", "aborted"}

ClientInit ==
    /\ PostmanInit
    /\ state = "S_START"
    /\ ret_code = "EXIT_SUCCESS"
    /\ running = "S_START"
    /\ results = <<>>
    /\ pc = "top"
    /\ tcp_had_sigint = FALSE
    /\ stdin_eof = FALSE
    /\ inbox = <<>>

(* poll_for_messages returns at once with the BYE of the user. *)
SayBye ==
    /\ UnlockStdin
    /\ results' = <<UserResult("BYE")>>
    /\ pc' = "handle"

-----------------------------------------------------------------------------
EnterMethod ==
    /\ pc = "top" /\ state # "S_END"
    /\ running' = state
    /\ ret_code' = EntryCode(state, ret_code)
    /\ UNCHANGED <<state, tcp_had_sigint, stdin_eof, inbox>>

PollSigint ==
    /\ EnterMethod
    /\ tcp_had_sigint
    /\ SayBye

PollBeginsAnyway ==
    /\ EnterMethod
    /\ pc' = "poll"
    /\ UNCHANGED <<postman_vars, results>>

PollBegins ==
    /\ EnterMethod
    /\ ~tcp_had_sigint
    /\ pc' = "poll"
    /\ UNCHANGED <<postman_vars, results>>

(* poll(2) returns -1 if the signal came while it was blocked. *)
PollInterrupted ==
    /\ pc = "poll" /\ tcp_had_sigint
    /\ SayBye
    /\ UNCHANGED <<automata_vars, tcp_had_sigint, stdin_eof, inbox>>

PollReturns ==
    /\ pc = "poll"
    /\ pc' = "stdin"
    /\ UNCHANGED <<postman_vars, automata_vars, results, tcp_had_sigint,
                   stdin_eof, inbox>>

-----------------------------------------------------------------------------
(* stdin: a terminal or a file, whose end poll reports as POLLIN. *)

ReadEof ==
    /\ pc = "stdin" /\ ~is_waiting_for_reply /\ stdin_eof
    /\ SayBye
    /\ UNCHANGED <<automata_vars, tcp_had_sigint, stdin_eof, inbox>>

RoomForLine == Len(SelectSeq(sent, LAMBDA t : t \in UserType)) < MaxLines

ReadLine(cmd) ==
    /\ pc = "stdin" /\ ~is_waiting_for_reply /\ ~stdin_eof
    /\ RoomForLine
    /\ HandleUserCommand(cmd, AllowedCommands(running))
    /\ results' = UserResults(cmd, AllowedCommands(running))
    /\ pc' = "socket"
    /\ UNCHANGED <<automata_vars, tcp_had_sigint, stdin_eof, inbox>>

(* A line that is empty or begins with a space: command.at(0) throws. *)
ReadEmptyLine ==
    /\ pc = "stdin" /\ ~is_waiting_for_reply /\ ~stdin_eof
    /\ pc' = "aborted"
    /\ UNCHANGED <<postman_vars, automata_vars, results, tcp_had_sigint,
                   stdin_eof, inbox>>

SkipStdin ==
    /\ pc = "stdin" /\ (is_waiting_for_reply \/ ~stdin_eof)
    /\ pc' = "socket"
    /\ UNCHANGED <<postman_vars, automata_vars, results, tcp_had_sigint,
                   stdin_eof, inbox>>

-----------------------------------------------------------------------------
(* The socket, given the lines the server has written.  `upto' is the last
   half that recvfrom returns. *)

AfterPoll(res) == IF res = <<>> THEN "top" ELSE "handle"

MayReturn(upto) ==
    /\ ~Splits => upto % 2 = 0
    /\ ~Coalesces => (consumed + 2) \div 2 = (upto + 1) \div 2

Hand(m, upto) ==
    /\ results' = results \o ServerResults(m)
    /\ inbox' = (IF Forwards(m)
                 THEN Append(inbox, [type |-> m.type, of |-> m.of,
                                     from |-> consumed, to |-> upto])
                 ELSE inbox)
    /\ pc' = AfterPoll(results \o ServerResults(m))

ReadChunk(lines, upto) ==
    LET m == DataToMessage(lines, upto) IN
    /\ pc = "socket" /\ MayReturn(upto)
    /\ HandleServerMessage(m, upto)
    /\ Hand(m, upto)
    /\ UNCHANGED <<automata_vars, tcp_had_sigint, stdin_eof>>

(* recvfrom returns 0 at the end of the stream and -1 after a reset: both
   are an UNKNOWN, now and in every later cycle. *)
ReadEnd(lines) ==
    /\ pc = "socket" /\ connection # "open" /\ consumed = 2 * Len(lines)
    /\ Len(inbox) < MaxInbox
    /\ HandleServerMessage(Unknown, consumed)
    /\ Hand(Unknown, consumed)
    /\ UNCHANGED <<automata_vars, tcp_had_sigint, stdin_eof>>

(* Nothing has arrived: what the server wrote is on its way. *)
SkipSocket ==
    /\ pc = "socket"
    /\ pc' = AfterPoll(results)
    /\ UNCHANGED <<postman_vars, automata_vars, results, tcp_had_sigint,
                   stdin_eof, inbox>>

-----------------------------------------------------------------------------
(* One iteration of `for (auto &res : results)'. *)

Perform(call) ==
    \/ call = "none" /\ UNCHANGED postman_vars
    \/ call = "authorize" /\ Authorize
    \/ call = "join" /\ Join
    \/ call = "message" /\ Message
    \/ call = "error" /\ Error
    \/ call = "bye" /\ Bye

Reacts == React(running, Head(results), state)

HandleResult ==
    /\ pc = "handle"
    /\ Perform(Reacts.call)
    /\ state' = Reacts.next
    /\ ret_code' = (IF Reacts.fail THEN "EXIT_FAILURE" ELSE ret_code)
    /\ results' = Tail(results)
    /\ pc' = AfterPoll(Tail(results))
    /\ UNCHANGED <<running, tcp_had_sigint, stdin_eof, inbox>>

HandleFails ==
    /\ pc = "handle"
    /\ Reacts.call # "none" /\ SendFails
    /\ pc' = "aborted"
    /\ UNCHANGED <<automata_vars, results, tcp_had_sigint, stdin_eof, inbox>>

Exit ==
    /\ pc = "top" /\ state = "S_END"
    /\ pc' = "exited"
    /\ UNCHANGED <<postman_vars, automata_vars, results, tcp_had_sigint,
                   stdin_eof, inbox>>

-----------------------------------------------------------------------------
(* What happens to the process from outside. *)

Sigint ==
    /\ ~Gone /\ ~tcp_had_sigint
    /\ tcp_had_sigint' = TRUE
    /\ UNCHANGED <<postman_vars, automata_vars, results, pc, stdin_eof, inbox>>

CloseStdin ==
    /\ ~Gone /\ pc # "stdin" /\ ~stdin_eof
    /\ stdin_eof' = TRUE
    /\ UNCHANGED <<postman_vars, automata_vars, results, pc, tcp_had_sigint, inbox>>

(* The steps of the process itself, given the lines in the stream. *)
ClientStep(lines) ==
    \/ PollSigint \/ PollBegins \/ PollInterrupted \/ PollReturns
    \/ ReadEof \/ ReadEmptyLine \/ SkipStdin
    \/ \E cmd \in Command : ReadLine(cmd)
    \/ \E upto \in consumed + 1 .. 2 * Len(lines) : ReadChunk(lines, upto)
    \/ ReadEnd(lines) \/ SkipSocket
    \/ HandleResult \/ HandleFails
    \/ Exit
=============================================================================
