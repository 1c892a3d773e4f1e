------------------------------ MODULE Automata ------------------------------
(***************************************************************************)
(* The client's finite state machine (src/src/Automata.cpp).  It is        *)
(* written against the IPostman interface and knows no protocol, so it is  *)
(* a table here: what the method of state fn does with one poll result     *)
(* when the machine is in state cur.  A reaction names the postman method  *)
(* that is called, the state set_state leaves, and whether ret_code is set *)
(* to EXIT_FAILURE.  fn and cur differ when an earlier result of the same  *)
(* poll has already moved the machine: the loop over the results goes on   *)
(* in the method that started it.                                          *)
(***************************************************************************)
EXTENDS ChatTypes

Call == {"none", "authorize", "join", "message", "error", "bye"}

Reaction == [call : Call, next : State, fail : BOOLEAN]

Go(call, next) == [call |-> call, next |-> next, fail |-> FALSE]

Fail(call, next) == [call |-> call, next |-> next, fail |-> TRUE]

From(res, source, type) == res.source = source /\ res.type = type

(* The reactions several state methods share, from state cur. *)

ComplainOnly(cur) == Go("error", cur)

Unexpected(cur) == Go("error", "S_ERROR")

SayByeOnly(cur) == Fail("bye", cur)

LeaveSilently(cur) == Fail("none", "S_END")

ServerFailed(cur) == Fail("bye", "S_END")

Leave == Go("bye", "S_END")

NotConfirmed == Fail("none", "S_END")

AfterAnyReply(res, cur) == "S_OPEN"

AfterReply(res, cur) == IF res.ok THEN "S_OPEN" ELSE cur

S_Start(res, cur) ==
    CASE From(res, "USER", "AUTH")  -> Go("authorize", "S_AUTH")
      [] From(res, "USER", "BYE")   -> Leave
      [] From(res, "USER", "ERR")   -> NotConfirmed
      [] From(res, "SERVER", "ERR") -> Go("none", "S_ERROR")
      [] OTHER                      -> Unexpected(cur)

S_Auth(res, cur) ==
    CASE From(res, "USER", "AUTH")    -> Go("authorize", cur)
      [] From(res, "USER", "BYE")     -> Leave
      [] From(res, "USER", "ERR")     -> NotConfirmed
      [] From(res, "SERVER", "REPLY") -> Go("none", AfterReply(res, cur))
      [] From(res, "SERVER", "ERR")   -> ServerFailed(cur)
      [] OTHER                        -> Unexpected(cur)

S_Open(res, cur) ==
    CASE From(res, "USER", "JOIN")   -> Go("join", cur)
      [] From(res, "USER", "MSG")    -> Go("message", cur)
      [] From(res, "USER", "BYE")    -> Leave
      [] From(res, "USER", "ERR")    -> NotConfirmed
      [] From(res, "USER", "AUTH")   -> Go("none", "S_ERROR")
      [] From(res, "SERVER", "REPLY")
         \/ From(res, "SERVER", "MSG") -> Go("none", cur)
      [] From(res, "SERVER", "ERR")  -> ServerFailed(cur)
      [] From(res, "SERVER", "BYE")  -> Go("none", "S_END")
      [] OTHER                       -> Unexpected(cur)

S_Error(res, cur) ==
    CASE From(res, "USER", "BYE")   -> Leave
      [] From(res, "USER", "ERR")   -> NotConfirmed
      [] From(res, "SERVER", "ERR") -> ServerFailed(cur)
      [] OTHER                      -> Unexpected(cur)

(* Automata::run: the switch over the state whose method is running. *)
React(fn, res, cur) ==
    CASE fn = "S_START" -> S_Start(res, cur)
      [] fn = "S_AUTH"  -> S_Auth(res, cur)
      [] fn = "S_OPEN"  -> S_Open(res, cur)
      [] OTHER          -> S_Error(res, cur)

KeepCode(fn, code) == code

(* ret_code when the method of state fn has begun: s_error sets it first. *)
EntryCode(fn, code) == IF fn = "S_ERROR" THEN "EXIT_FAILURE" ELSE code

(* The argument of allow_client_commands at the head of each state method. *)
ClientCommands(fn) ==
    CASE fn \in {"S_START", "S_AUTH"} -> {"CMD_AUTH"}
      [] fn = "S_OPEN"                -> {"CMD_MSG", "CMD_JOIN"}
      [] OTHER                        -> {}

(* With the two commands the postman adds to every list. *)
AllowedCommands(fn) == {"CMD_HELP", "CMD_RENAME"} \cup ClientCommands(fn)
=============================================================================
