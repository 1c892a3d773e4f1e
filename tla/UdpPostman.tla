----------------------------- MODULE UdpPostman -----------------------------
(***************************************************************************)
(* The UDP variant of the postman (src/src/UdpPostman.cpp): it numbers and *)
(* sends the client's messages, keeps each one on a list until the server  *)
(* CONFIRMs it or its retries are used up, and decides which datagrams of  *)
(* the server reach the state machine.                                     *)
(*                                                                         *)
(* Every method is an action on the postman's variables; what a method     *)
(* returns is an operator (UserResults, ServerResults).  The bytes of a    *)
(* datagram are abstracted to [type, id, ref_id, result], `re' being a     *)
(* ghost field: the position in `sent' of the message the server answers.  *)
(***************************************************************************)
EXTENDS ChatTypes, Integers, Sequences

CONSTANTS
    IdMod,       \* values of a uint16_t message id (65536)
    ByteMod,     \* values of the only id byte that is ever set (256)
    MaxRetries,  \* max_retries, the -r argument
    Timeout,     \* max_timeout, the -d argument, in ticks of the model
    Names,       \* display names the user chooses
    GarbageIds   \* ids that an uninitialised one may turn out to be

ASSUME IdsAssumption ==
    /\ IdMod \in Nat \ {0} /\ ByteMod \in Nat \ {0}
    /\ ByteMod <= IdMod
    /\ GarbageIds \subseteq 0 .. IdMod - 1
ASSUME RetriesAssumption == MaxRetries \in Nat /\ Timeout \in Nat

VARIABLES
    msg_id,                \* the id of the next message
    ref_msg_id,            \* int16_t: the id of the last forwarded message
    first_message,         \* nothing has been forwarded yet
    confirm_waiters,       \* position in sent -> retries and time left
    last_sent_message,     \* type and id of the last message sent
    is_waiting_for_reply,  \* stdin is not read: a REPLY is due
    display_name,          \* the name later messages carry
    server_port,           \* where datagrams go: "main" or "session"
    sent,                  \* history: the messages, and what became of them
    acks                   \* history: the ids of the CONFIRMs sent

postman_vars ==
    <<msg_id, ref_msg_id, first_message, confirm_waiters, last_sent_message,
      is_waiting_for_reply, display_name, server_port, sent, acks>>

Id == 0 .. IdMod - 1
Port == {"main", "session"}
Fate == {"waiting", "confirmed", "failed"}

(* An element of the std::list confirm_waiters.  `left' is expiration minus
   now: it is below 0 when `expiration < timestamp'.  The list is in the
   order of the pushes, which is the order of the positions. *)
ConfirmWaiter == [tries_left : 0 .. MaxRetries, left : -1 .. Timeout]

Sent == [type : ClientType, id : Id, port : Port,
         copies : 1 .. MaxRetries + 1, fate : Fate]

Datagram == [type : MessageType \cup {"GARBLED", "TRUNCATED"}, id : Id, ref_id : Id,
             result : {0, 1}, re : Nat]

Command == [type : CommandType, name : Names]

(* `(uint8_t)id >> 8' is 0 for every id: only the low byte is transmitted. *)
Wire(id) == id % ByteMod

(* The value of an int16_t that is assigned a uint16_t. *)
ToInt16(id) == IF 2 * id < IdMod THEN id ELSE id - IdMod

(* last_sent_message is not initialised, but no datagram can be received,
   so nothing reads it, before the first one is sent from the unbound
   socket: any value will do. *)
PostmanInit ==
    /\ msg_id = 0
    /\ ref_msg_id = 0
    /\ first_message = TRUE
    /\ confirm_waiters = [k \in {} |-> 0]
    /\ last_sent_message = [type |-> "UNKNOWN", id |-> 0]
    /\ is_waiting_for_reply = FALSE
    /\ display_name = "User"
    /\ server_port = "main"
    /\ sent = <<>>
    /\ acks = {}

-----------------------------------------------------------------------------
(* Sending.  The five methods differ in the payload only, and the two
   requests lock stdin. *)

FreshWaiter == [tries_left |-> MaxRetries, left |-> Timeout]

PushBack(k) ==
    [j \in DOMAIN confirm_waiters \cup {k} |->
        IF j = k THEN FreshWaiter ELSE confirm_waiters[j]]

Send(type) ==
    /\ sent' = Append(sent, [type |-> type, id |-> msg_id, port |-> server_port,
                             copies |-> 1, fate |-> "waiting"])
    /\ confirm_waiters' = PushBack(Len(sent) + 1)
    /\ last_sent_message' = [type |-> type, id |-> msg_id]
    /\ msg_id' = (IF msg_id + 1 = IdMod THEN 0 ELSE msg_id + 1)
    /\ UNCHANGED <<ref_msg_id, first_message, display_name, server_port, acks>>

Authorize == Send("AUTH") /\ is_waiting_for_reply' = TRUE

Join == Send("JOIN") /\ is_waiting_for_reply' = TRUE

Message == Send("MSG") /\ UNCHANGED is_waiting_for_reply

Error == Send("ERR") /\ UNCHANGED is_waiting_for_reply

Bye == Send("BYE") /\ UNCHANGED is_waiting_for_reply

-----------------------------------------------------------------------------
(* check_waiters: the list is walked in order.  Every expired waiter with
   tries left is sent again; the first one without is erased and ends the
   walk, so that the waiters behind it are not looked at. *)

ExpiredUnlessLocked ==
    {k \in DOMAIN confirm_waiters :
        confirm_waiters[k].left < 0 /\ ~is_waiting_for_reply}

Expired == {k \in DOMAIN confirm_waiters : confirm_waiters[k].left < 0}

ExhaustedLate == {k \in Expired : confirm_waiters[k].tries_left < 0}

Exhausted == {k \in Expired : confirm_waiters[k].tries_left = 0}

(* The waiters sendto is called for. *)
Resent == {k \in Expired : \A j \in Exhausted : k < j}

FirstExhausted(k) == k \in Exhausted /\ \A j \in Exhausted : k <= j

RetriedAfresh(w) == FreshWaiter

Retried(w) == [tries_left |-> w.tries_left - 1, left |-> Timeout]

(* The waiters in `again' are retransmitted, those in `gone' are erased. *)
UpdateWaiters(again, gone) ==
    confirm_waiters' = [k \in DOMAIN confirm_waiters \ gone |->
                           IF k \in again THEN Retried(confirm_waiters[k])
                                          ELSE confirm_waiters[k]]

Recopied(again, gone, fate) ==
    [k \in DOMAIN sent |->
        IF k \in again THEN [sent[k] EXCEPT !.copies = @ + 1]
        ELSE IF k \in gone THEN [sent[k] EXCEPT !.fate = fate]
        ELSE sent[k]]

(* check_waiters returns true. *)
CheckWaiters ==
    /\ Exhausted = {}
    /\ UpdateWaiters(Expired, {})
    /\ sent' = Recopied(Expired, {}, "waiting")
    /\ UNCHANGED <<msg_id, ref_msg_id, first_message, last_sent_message,
                   is_waiting_for_reply, display_name, server_port, acks>>

(* check_waiters returns false, and poll_for_messages unlocks stdin. *)
GiveUp ==
    /\ \E k \in Exhausted :
          LET before == {j \in Expired : j < k} IN
          /\ FirstExhausted(k)
          /\ UpdateWaiters(before, {k})
          /\ sent' = Recopied(before, {k}, "failed")
    /\ is_waiting_for_reply' = FALSE
    /\ UNCHANGED <<msg_id, ref_msg_id, first_message, last_sent_message,
                   display_name, server_port, acks>>

-----------------------------------------------------------------------------
(* Receiving. *)

(* data_to_message: a datagram of a wrong format becomes UNKNOWN.  It keeps
   the id of the datagram if its type is unknown, a text is empty or a REPLY
   has no NUL at its end; the id is left uninitialised if a CONFIRM or a BYE
   is too long.  For one that ends before a field or a terminator does,
   data.at throws and nothing is returned. *)
DataToMessage(d) ==
    CASE d.type = "GARBLED"   -> {[d EXCEPT !.type = "UNKNOWN", !.id = g] :
                                     g \in GarbageIds \cup {d.id}}
      [] d.type = "TRUNCATED" -> {}
      [] OTHER                -> {d}

AnyReplyAnswers(m) == m.type = "REPLY"

AnswersLastSent(m) == m.type = "REPLY" /\ m.ref_id = last_sent_message.id

(* What receive returns for a parsed message: a REPLY to anything but the
   last message sent is turned into an UNKNOWN with the same id. *)
Checked(m) ==
    IF m.type = "REPLY" /\ ~AnswersLastSent(m)
    THEN [m EXCEPT !.type = "UNKNOWN"]
    ELSE m

Receivable(d) == {Checked(m) : m \in DataToMessage(d)}

ConfirmsOldest(m) ==
    IF m.type = "CONFIRM"
    THEN {k \in DOMAIN confirm_waiters : \A j \in DOMAIN confirm_waiters : k <= j}
    ELSE {}

(* The first waiter with the id a CONFIRM refers to. *)
ConfirmedBy(m) ==
    LET same == {k \in DOMAIN confirm_waiters : sent[k].id = m.ref_id} IN
    IF m.type = "CONFIRM" THEN {k \in same : \A j \in same : k <= j} ELSE {}

PortKept(m) == server_port

(* The REPLY to an AUTH moves the session to the port it comes from. *)
PortAfter(m) ==
    IF AnswersLastSent(m) /\ last_sent_message.type = "AUTH"
    THEN "session" ELSE server_port

(* The changes receive makes before it returns m. *)
Receive(m) ==
    /\ UpdateWaiters({}, ConfirmedBy(m))
    /\ sent' = Recopied({}, ConfirmedBy(m), "confirmed")
    /\ server_port' = PortAfter(m)
    /\ is_waiting_for_reply' = (is_waiting_for_reply /\ ~AnswersLastSent(m))

IsNotOlder(m) == m.id >= ref_msg_id \/ first_message

IsNew(m) == m.id > ref_msg_id \/ first_message

Forwards(m) == m.type = "UNKNOWN" \/ (m.type # "CONFIRM" /\ IsNew(m))

ServerResults(m) ==
    IF Forwards(m) THEN <<ServerResult(m.type, m.result)>> ELSE <<>>

(* confirm: all but a CONFIRM is answered with one, new or not. *)
Confirm(m) == acks' = (IF m.type = "CONFIRM" THEN acks ELSE acks \cup {Wire(m.id)})

HandleServerMessage(m) ==
    /\ Receive(m)
    /\ Confirm(m)
    /\ ref_msg_id' = (IF Forwards(m) THEN ToInt16(m.id) ELSE ref_msg_id)
    /\ first_message' = (first_message /\ ~Forwards(m))
    /\ UNCHANGED <<msg_id, last_sent_message, display_name>>

-----------------------------------------------------------------------------
(* User commands.  A line that is not a command of the table in
   InputParser, or has the wrong number of arguments, is CMD_HELP. *)

HandleUserCommand(cmd, allowed) ==
    /\ display_name' = (IF cmd.type \in {"CMD_AUTH", "CMD_RENAME"} \cap allowed
                        THEN cmd.name ELSE display_name)
    /\ UNCHANGED <<msg_id, ref_msg_id, first_message, confirm_waiters,
                   last_sent_message, is_waiting_for_reply, server_port,
                   sent, acks>>

GateWithoutWaiters == ~is_waiting_for_reply

(* The condition under which poll_for_messages looks at stdin. *)
StdinGate == DOMAIN confirm_waiters = {} /\ ~is_waiting_for_reply

(* poll_for_messages clears the flag before it returns a BYE. *)
UnlockStdin ==
    /\ is_waiting_for_reply' = FALSE
    /\ UNCHANGED <<msg_id, ref_msg_id, first_message, confirm_waiters,
                   last_sent_message, display_name, server_port, sent, acks>>

(* Time passes: every expiration comes one tick nearer. *)
Elapse ==
    /\ confirm_waiters' = [k \in DOMAIN confirm_waiters |->
          [confirm_waiters[k] EXCEPT !.left = IF @ < 0 THEN @ ELSE @ - 1]]
    /\ UNCHANGED <<msg_id, ref_msg_id, first_message, last_sent_message,
                   is_waiting_for_reply, display_name, server_port, sent, acks>>
=============================================================================
