---------------------------- MODULE ChatSession ----------------------------
(***************************************************************************)
(* What a chat session promises, whatever the protocol: who may say what,  *)
(* and when.  The user logs in, is let in when the server has granted an   *)
(* AUTH, talks only then, and never talks past a request the server has    *)
(* not answered.  A complaint of the client ends all that: from then on    *)
(* the session can only be left, and with a failure.  There is no postman, *)
(* no poll and no network here.  UdpChat and TcpChat implement it.         *)
(***************************************************************************)
EXTENDS ChatTypes, Integers, Sequences

CONSTANT Horizon  \* number of messages for which answers are told apart

VARIABLES
    phase,    \* the state the session is in
    said,     \* the types of the messages the client has sent
    granted,  \* positions in said of the requests answered with OK
    refused,  \* and of those answered otherwise
    code      \* the exit code so far

session_vars == <<phase, said, granted, refused, code>>

SessionInit ==
    /\ phase = "S_START"
    /\ said = <<>>
    /\ granted = {} /\ refused = {}
    /\ code = "EXIT_SUCCESS"

Open == {k \in DOMAIN said : said[k] \in Request} \ (granted \cup refused)

Say(type) == said' = Append(said, type)

(* The user may say something: no request of his is without an answer. *)
Free == Len(said) < Horizon => Open = {}

Login ==
    /\ phase \in {"S_START", "S_AUTH"} /\ Free
    /\ Say("AUTH")
    /\ phase' = "S_AUTH"
    /\ UNCHANGED <<granted, refused, code>>

Grant(k) ==
    /\ k \in Open
    /\ granted' = granted \cup {k}
    /\ UNCHANGED <<phase, said, refused, code>>

Refuse(k) ==
    /\ k \in Open
    /\ refused' = refused \cup {k}
    /\ UNCHANGED <<phase, said, granted, code>>

Enter ==
    /\ phase = "S_AUTH"
    /\ \E k \in granted : said[k] = "AUTH"
    /\ phase' = "S_OPEN"
    /\ UNCHANGED <<said, granted, refused, code>>

Talk(type) ==
    /\ phase = "S_OPEN" /\ Free
    /\ Say(type)
    /\ UNCHANGED <<phase, granted, refused, code>>

Complain ==
    /\ phase # "S_END"
    /\ Say("ERR")
    /\ phase' = "S_ERROR"
    /\ UNCHANGED <<granted, refused, code>>

(* The server sends an ERR before anyone is let in. *)
Break ==
    /\ phase \in {"S_START", "S_AUTH"}
    /\ phase' = "S_ERROR"
    /\ UNCHANGED <<said, granted, refused, code>>

(* An error is remembered. *)
Blame ==
    /\ phase = "S_ERROR"
    /\ code' = "EXIT_FAILURE"
    /\ UNCHANGED <<phase, said, granted, refused>>

End ==
    /\ phase # "S_END"
    /\ phase' = "S_END"
    /\ UNCHANGED <<granted, refused>>

(* The user leaves: with success, unless something went wrong before. *)
Leave ==
    /\ End
    /\ phase = "S_ERROR" => code = "EXIT_FAILURE"
    /\ Say("BYE")
    /\ UNCHANGED code

(* The server says BYE to a session that is open. *)
Dismiss ==
    /\ phase = "S_OPEN" /\ End
    /\ UNCHANGED <<said, code>>

(* The server has sent an ERR and gets a BYE, or it does not answer at all. *)
Abandon ==
    /\ End
    /\ Say("BYE") \/ UNCHANGED said
    /\ code' = "EXIT_FAILURE"

SessionNext ==
    \/ Login \/ Enter \/ Complain \/ Break \/ Blame
    \/ Talk("JOIN") \/ Talk("MSG")
    \/ \E k \in Open : Grant(k) \/ Refuse(k)
    \/ Leave \/ Dismiss \/ Abandon

SessionSpec == SessionInit /\ [][SessionNext]_session_vars
=============================================================================
