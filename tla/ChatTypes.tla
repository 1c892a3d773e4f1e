----------------------------- MODULE ChatTypes -----------------------------
(***************************************************************************)
(* The enumerations of include/types.hpp: the vocabulary the state machine *)
(* (Automata) and the two postmen share.  A message carries only what the  *)
(* control flow of the client looks at; texts and passwords are abstracted.*)
(***************************************************************************)

(* What a datagram or a line of the TCP stream is parsed into.  UNKNOWN is
   what data_to_message and receive return for anything they reject. *)
MessageType ==
    {"CONFIRM", "REPLY", "AUTH", "JOIN", "MSG", "ERR", "BYE", "UNKNOWN"}

(* What the client says, of this what the user causes, and of this what the
   server must answer. *)
ClientType == {"AUTH", "JOIN", "MSG", "ERR", "BYE"}
UserType == {"AUTH", "JOIN", "MSG"}
Request == {"AUTH", "JOIN"}

State == {"S_START", "S_AUTH", "S_OPEN", "S_ERROR", "S_END"}

CommandType == {"CMD_AUTH", "CMD_JOIN", "CMD_RENAME", "CMD_MSG", "CMD_HELP"}

PollResultType == {"USER", "SERVER"}

(* An element of the vector poll_for_messages returns: where the message
   comes from, its type, and for a REPLY whether its result byte is 1. *)
PollResult == [source : PollResultType, type : MessageType, ok : BOOLEAN]

UserResult(t) == [source |-> "USER", type |-> t, ok |-> FALSE]

ServerResult(t, r) == [source |-> "SERVER", type |-> t, ok |-> (r = 1)]

(* What handle_user_command of either postman returns for a command, given
   the commands allowed in the state. *)
UserResults(cmd, allowed) ==
    IF cmd.type \notin allowed THEN <<>>
    ELSE CASE cmd.type = "CMD_AUTH" -> <<UserResult("AUTH")>>
           [] cmd.type = "CMD_JOIN" -> <<UserResult("JOIN")>>
           [] cmd.type = "CMD_MSG"  -> <<UserResult("MSG")>>
           [] OTHER                 -> <<>>

ExitCode == {"EXIT_SUCCESS", "EXIT_FAILURE"}
=============================================================================
