---------------------------- MODULE TcpPostman -----------------------------
(***************************************************************************)
(* The TCP variant of the postman (src/src/TcpPostman.cpp).  It keeps no   *)
(* ids and no list: TCP delivers.  But TCP delivers bytes, and what one    *)
(* recvfrom returns is parsed as one message.                              *)
(*                                                                         *)
(* The stream from the server is a sequence of lines, each ending in CR LF *)
(* and each cut into two halves at the place where the text of the message *)
(* may itself read as a message (`quotes').  A chunk is any number of      *)
(* halves: lines arrive together, and they arrive in pieces.               *)
(***************************************************************************)
EXTENDS ChatTypes, Integers, Sequences

CONSTANT TcpNames  \* display names the user chooses

VARIABLES
    connection,            \* the socket: "open", "shut" or "reset" by the server
    consumed,              \* halves of lines received so far
    is_waiting_for_reply,  \* stdin is not read: a REPLY is due
    display_name,          \* the name later messages carry
    sent                   \* history: the types of the messages sent

postman_vars == <<connection, consumed, is_waiting_for_reply, display_name, sent>>

Connection == {"open", "shut", "reset"}

Line == [type : MessageType \cup {"GARBLED"}, ok : BOOLEAN,
         quotes : MessageType \cup {"none"}, re : Nat]

Command == [type : CommandType, name : TcpNames]

(* The constructor has connected the socket. *)
PostmanInit ==
    /\ connection = "open"
    /\ consumed = 0
    /\ is_waiting_for_reply = FALSE
    /\ display_name = "User"
    /\ sent = <<>>

-----------------------------------------------------------------------------
(* Sending.  On a connection the server has reset, send fails: the process
   gets a SIGPIPE, or an exception that nothing catches. *)

Send(type) ==
    /\ connection # "reset"
    /\ sent' = Append(sent, type)
    /\ UNCHANGED <<connection, consumed, display_name>>

SendFails == connection = "reset" /\ UNCHANGED postman_vars

Authorize == Send("AUTH") /\ is_waiting_for_reply' = TRUE

Join == Send("JOIN") /\ is_waiting_for_reply' = TRUE

Message == Send("MSG") /\ UNCHANGED is_waiting_for_reply

Error == Send("ERR") /\ UNCHANGED is_waiting_for_reply

Bye == Send("BYE") /\ UNCHANGED is_waiting_for_reply

-----------------------------------------------------------------------------
(* Receiving, from the lines the server has written.  The regular
   expressions are not anchored and are tried in a fixed order on the whole
   chunk: the first type that occurs anywhere in it is the message, and the
   rest of the chunk is gone. *)

Rank ==
    [JOIN |-> 1, AUTH |-> 2, MSG |-> 3, ERR |-> 4, REPLY |-> 5, BYE |-> 6]

StartsChunk(i) == consumed = 2 * i - 2

(* Of the lines that end in the chunk up to half `upto': whether it holds
   their beginning, and what they can be read as. *)
Whole(i) == consumed < 2 * i - 1

ReadAs(lines, i) ==
    {lines[i].quotes} \cup (IF Whole(i) THEN {lines[i].type} ELSE {})

EndsIn(upto) == {i \in 1 .. upto : consumed < 2 * i /\ 2 * i <= upto}

Matches(lines, upto) ==
    {m \in [type : DOMAIN Rank, of : EndsIn(upto)] : m.type \in ReadAs(lines, m.of)}

IsBefore(m, n) ==
    Rank[m.type] < Rank[n.type] \/ (Rank[m.type] = Rank[n.type] /\ m.of <= n.of)

Unknown == [type |-> "UNKNOWN", ok |-> FALSE, of |-> 0]

(* A quoted REPLY is one that says OK. *)
DataToMessage(lines, upto) ==
    LET found == Matches(lines, upto) IN
    IF found = {} THEN Unknown
    ELSE LET m == CHOOSE m \in found : \A n \in found : IsBefore(m, n)
         IN  [type |-> m.type, of |-> m.of,
              ok |-> IF Whole(m.of) /\ lines[m.of].type = "REPLY"
                     THEN lines[m.of].ok ELSE m.type = "REPLY"]

UnlocksAuth(m) == m.type = "REPLY" /\ sent[Len(sent)] = "AUTH"

UnlocksAlways(m) == TRUE

(* Any REPLY unlocks stdin.  (It may also set the port in server_address,
   which a connected socket does not look at.) *)
Unlocks(m) == m.type = "REPLY"

ForwardsKnown(m) == m.type \notin {"CONFIRM", "UNKNOWN"}

Forwards(m) == m.type # "CONFIRM"

ServerResults(m) ==
    IF Forwards(m)
    THEN <<[source |-> "SERVER", type |-> m.type, ok |-> m.ok]>> ELSE <<>>

OneTooMany(upto) == upto + 1

LastLineKept(upto) == IF upto < 2 THEN 0 ELSE upto - 2

(* recvfrom removes from the socket what it returns. *)
ConsumedAfter(upto) == upto

HandleServerMessage(m, upto) ==
    /\ consumed' = ConsumedAfter(upto)
    /\ is_waiting_for_reply' = (is_waiting_for_reply /\ ~Unlocks(m))
    /\ UNCHANGED <<connection, display_name, sent>>

-----------------------------------------------------------------------------
(* User commands. *)

HandleUserCommand(cmd, allowed) ==
    /\ display_name' = (IF cmd.type \in {"CMD_AUTH", "CMD_RENAME"} \cap allowed
                        THEN cmd.name ELSE display_name)
    /\ UNCHANGED <<connection, consumed, is_waiting_for_reply, sent>>

(* poll_for_messages clears the flag before it returns a BYE. *)
UnlockStdin ==
    /\ is_waiting_for_reply' = FALSE
    /\ UNCHANGED <<connection, consumed, display_name, sent>>
=============================================================================
