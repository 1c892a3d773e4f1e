--------------------------- MODULE AutomataProofs ---------------------------
(***************************************************************************)
(* Lemmas on the table of Automata and on the lists of results it works    *)
(* on.  They know no protocol: the proofs about UdpChat and about TcpChat  *)
(* both rest on them.                                                      *)
(***************************************************************************)
EXTENDS Automata, Integers, Sequences, TLAPS, SequenceTheorems

(* A command of the user. *)
FromUser(res) == res.source = "USER" /\ res.type \in UserType

(* A result poll_for_messages returns early: the session is over. *)
Final(res) == res.source = "USER" /\ res.type \in {"BYE", "ERR"}

(* The two results that stand for something that went wrong. *)
NotConfirmedResult(res) == res.source = "USER" /\ res.type = "ERR"
ServerError(res) == res.source = "SERVER" /\ res.type = "ERR"

(* A pending command is one the state of the method allows. *)
Permitted(fn, res) ==
    FromUser(res) => \/ fn \in {"S_START", "S_AUTH"} /\ res.type = "AUTH"
                     \/ fn = "S_OPEN" /\ res.type \in {"JOIN", "MSG"}

-----------------------------------------------------------------------------
(* Lists of results. *)

(* A result of the user is a poll result. *)
LEMMA UserResultType == \A t \in MessageType : UserResult(t) \in PollResult
BY DEF UserResult, PollResult, PollResultType

(* handle_user_command returns poll results. *)
LEMMA UserResultsType ==
    ASSUME NEW cmd, NEW allowed
    PROVE  UserResults(cmd, allowed) \in Seq(PollResult)
BY UserResultType DEF UserResults, MessageType

(* A line of the user gives at most one result, a command. *)
LEMMA LineShape ==
    ASSUME NEW cmd, NEW allowed
    PROVE  \/ UserResults(cmd, allowed) = <<>>
           \/ /\ Len(UserResults(cmd, allowed)) = 1
              /\ FromUser(UserResults(cmd, allowed)[1])
BY DEF UserResults, UserResult, FromUser, UserType

(* The result of a line is a command the method allows. *)
LEMMA LineCommanded ==
    ASSUME NEW fn \in State \ {"S_END"}, NEW cmd, NEW res,
           res = UserResults(cmd, AllowedCommands(fn)), res # <<>>
    PROVE  Permitted(fn, res[1])
BY DEF UserResults, UserResult, AllowedCommands, ClientCommands, Permitted, FromUser, State

(* What is left of two results when the first is handled. *)
LEMMA TailOfTwo ==
    ASSUME NEW s \in Seq(PollResult), Len(s) = 2
    PROVE  Len(Tail(s)) = 1 /\ Tail(s)[1] = s[2] /\ Tail(s) # <<>>
<1>1. s # <<>>
  OBVIOUS
<1> DEFINE t == Tail(s)
<1>2. /\ t \in Seq(PollResult) /\ Len(t) = Len(s) - 1
      /\ \A i \in 1 .. Len(t) : t[i] = s[i + 1]
  BY <1>1, HeadTailProperties
<1> HIDE DEF t
<1>3. Len(t) = 1
  BY <1>2
<1>4. t[1] = s[1 + 1]
  BY <1>2, <1>3
<1>5. t # <<>>
  <2>1. Len(<<>>) = 0 /\ 0 # 1
    OBVIOUS
  <2>2. t = <<>> => Len(t) = Len(<<>>)
    BY Zenon
  <2> QED
    BY <1>3, <2>1, <2>2
<1> QED
  BY <1>3, <1>4, <1>5 DEF t

(* Two lists of one result each. *)
LEMMA OneAndOne ==
    ASSUME NEW s \in Seq(PollResult), NEW t \in Seq(PollResult), Len(s) = 1, Len(t) = 1
    PROVE  Len(s \o t) = 2 /\ (s \o t)[1] = s[1] /\ (s \o t)[2] = t[1]
BY ConcatProperties

(* What is pending after the socket was read is pending of stdin or new. *)
LEMMA PendingAfter ==
    ASSUME NEW s \in Seq(PollResult), NEW t \in Seq(PollResult)
    PROVE  \A i \in DOMAIN (s \o t) :
              \/ i \in DOMAIN s /\ (s \o t)[i] = s[i]
              \/ \E j \in DOMAIN t : (s \o t)[i] = t[j]
<1> DEFINE u == s \o t
<1>1. /\ Len(u) = Len(s) + Len(t) /\ u \in Seq(PollResult)
      /\ \A i \in 1 .. Len(s) : u[i] = s[i]
      /\ \A i \in 1 .. Len(t) : u[Len(s) + i] = t[i]
  BY ConcatProperties
<1> HIDE DEF u
<1>2. ASSUME NEW i \in DOMAIN u, i > Len(s) PROVE \E j \in DOMAIN t : u[i] = t[j]
  <2>1. i - Len(s) \in 1 .. Len(t) /\ i = Len(s) + (i - Len(s))
    BY <1>1, <1>2
  <2> QED
    BY <1>1, <2>1
<1>3. ASSUME NEW i \in DOMAIN u, i <= Len(s) PROVE i \in DOMAIN s /\ u[i] = s[i]
  BY <1>1, <1>3
<1>4. \A i \in DOMAIN u : i <= Len(s) \/ i > Len(s)
  BY <1>1
<1> QED
  BY <1>2, <1>3, <1>4 DEF u

(* A result that is appended is the last. *)
LEMMA PlusOne ==
    ASSUME NEW s \in Seq(PollResult), NEW t \in Seq(PollResult), Len(t) = 1
    PROVE  /\ s \o t \in Seq(PollResult) /\ Len(s \o t) = Len(s) + 1
           /\ (s \o t)[Len(s) + 1] = t[1]
<1>1. /\ s \o t \in Seq(PollResult) /\ Len(s \o t) = Len(s) + Len(t)
      /\ \A i \in 1 .. Len(t) : (s \o t)[Len(s) + i] = t[i]
  BY ConcatProperties
<1>2. 1 \in 1 .. Len(t)
  OBVIOUS
<1> QED
  BY <1>1, <1>2

-----------------------------------------------------------------------------
(* The reactions. *)

(* Every reaction of the machine leads to one of its states. *)
LEMMA ReactState ==
    ASSUME NEW fn, NEW res, NEW cur \in State
    PROVE  React(fn, res, cur).next \in State
<1> USE DEF Go, Fail, Leave, NotConfirmed, Unexpected, ServerFailed, AfterReply, State
<1>1. S_Start(res, cur).next \in State
  BY DEF S_Start
<1>2. S_Auth(res, cur).next \in State
  BY DEF S_Auth
<1>3. S_Open(res, cur).next \in State
  BY DEF S_Open
<1>4. S_Error(res, cur).next \in State
  BY DEF S_Error
<1> QED
  BY <1>1, <1>2, <1>3, <1>4 DEF React

(* What the reactions of all four state methods have in common: a BYE is
   said on the way to S_END only, the messages of the user are sent only on
   his command, his commands do not end the session, and what
   poll_for_messages returns early does. *)
Orderly(r, res, cur) ==
    /\ r.call = "bye" => r.next = "S_END"
    /\ r.call \in {"authorize", "join", "message"} => FromUser(res)
    /\ FromUser(res) /\ cur # "S_END" => r.next # "S_END"
    /\ Final(res) => r.next = "S_END"

(* Every reaction of the machine is orderly. *)
LEMMA ReactOrderly ==
    ASSUME NEW fn, NEW res, NEW cur
    PROVE  Orderly(React(fn, res, cur), res, cur)
<1> USE DEF Go, Fail, Leave, NotConfirmed, Unexpected, ServerFailed, AfterReply, From,
            FromUser, Final, UserType, Orderly
<1>1. Orderly(S_Start(res, cur), res, cur)
  BY DEF S_Start
<1>2. Orderly(S_Auth(res, cur), res, cur)
  BY DEF S_Auth
<1>3. Orderly(S_Open(res, cur), res, cur)
  BY DEF S_Open
<1>4. Orderly(S_Error(res, cur), res, cur)
  BY DEF S_Error
<1> HIDE DEF Orderly
<1> QED
  BY <1>1, <1>2, <1>3, <1>4 DEF React

(* A reaction r to res in state cur, in terms of the session. *)
Logs(r, res, cur) ==
    /\ r.call = "authorize" /\ FromUser(res)
    /\ cur \in {"S_START", "S_AUTH"} /\ r.next = "S_AUTH" /\ ~r.fail
Talks(r, res, cur) ==
    /\ r.call \in {"join", "message"} /\ FromUser(res)
    /\ cur = "S_OPEN" /\ r.next = "S_OPEN" /\ ~r.fail
Idles(r, cur) == r.call = "none" /\ r.next = cur /\ ~r.fail
Enters(r, res, cur) ==
    /\ r.call = "none" /\ cur = "S_AUTH" /\ r.next = "S_OPEN" /\ ~r.fail
    /\ res.source = "SERVER" /\ res.type = "REPLY" /\ res.ok
Complains(r) == r.call = "error" /\ r.next = "S_ERROR" /\ ~r.fail
Breaks(r, cur) ==
    r.call = "none" /\ cur \in {"S_START", "S_AUTH"} /\ r.next = "S_ERROR" /\ ~r.fail
Leaves(r) == r.call = "bye" /\ r.next = "S_END" /\ ~r.fail
Dismissed(r, cur) == r.call = "none" /\ cur = "S_OPEN" /\ r.next = "S_END" /\ ~r.fail
Abandons(r) == r.call \in {"bye", "none"} /\ r.next = "S_END" /\ r.fail

SessionLike(r, res, cur) ==
    \/ Logs(r, res, cur) \/ Talks(r, res, cur) \/ Idles(r, cur) \/ Enters(r, res, cur)
    \/ Complains(r) \/ Breaks(r, cur) \/ Leaves(r) \/ Dismissed(r, cur) \/ Abandons(r)

(* Every reaction is one of these, in the places the machine can be in. *)
LEMMA ReactSessionLike ==
    ASSUME NEW fn \in State \ {"S_END"}, NEW res \in PollResult, NEW cur,
           Permitted(fn, res),
           cur = fn \/ (fn = "S_START" /\ cur = "S_AUTH" /\ res.source = "SERVER")
    PROVE  SessionLike(React(fn, res, cur), res, cur)
<1> USE DEF Go, Fail, Leave, NotConfirmed, Unexpected, ServerFailed, AfterReply, From,
            FromUser, UserType, Permitted, PollResult
<1> USE DEF SessionLike, Logs, Talks, Idles, Enters, Complains, Breaks, Leaves, Dismissed,
            Abandons
<1>1. CASE fn = "S_START"
  <2>1. SessionLike(S_Start(res, cur), res, cur)
    BY <1>1 DEF S_Start
  <2> HIDE DEF SessionLike
  <2> QED
    BY <1>1, <2>1 DEF React
<1>2. CASE fn = "S_AUTH"
  <2>1. SessionLike(S_Auth(res, cur), res, cur)
    BY <1>2 DEF S_Auth
  <2> HIDE DEF SessionLike
  <2> QED
    BY <1>2, <2>1 DEF React
<1>3. CASE fn = "S_OPEN"
  <2>1. SessionLike(S_Open(res, cur), res, cur)
    BY <1>3 DEF S_Open
  <2> HIDE DEF SessionLike
  <2> QED
    BY <1>3, <2>1 DEF React
<1>4. CASE fn = "S_ERROR"
  <2>1. SessionLike(S_Error(res, cur), res, cur)
    BY <1>4 DEF S_Error
  <2> HIDE DEF SessionLike
  <2> QED
    BY <1>4, <2>1 DEF React
<1> QED
  BY <1>1, <1>2, <1>3, <1>4 DEF State

(* S_OPEN is entered by the method of S_AUTH only. *)
LEMMA ReactOpens ==
    ASSUME NEW fn, NEW res, NEW cur, cur # "S_OPEN", React(fn, res, cur).next = "S_OPEN",
           fn # "S_OPEN"
    PROVE  fn = "S_AUTH" /\ res.source = "SERVER" /\ res.type = "REPLY"
<1> USE DEF Go, Fail, Leave, NotConfirmed, Unexpected, ServerFailed, AfterReply, From
<1>1. S_Start(res, cur).next # "S_OPEN"
  BY DEF S_Start
<1>2. S_Error(res, cur).next # "S_OPEN"
  BY DEF S_Error
<1>3. S_Auth(res, cur).next = "S_OPEN" => res.source = "SERVER" /\ res.type = "REPLY"
  BY DEF S_Auth
<1> QED
  BY <1>1, <1>2, <1>3 DEF React

(* What a reaction says of its result: the exit code is set for the two
   kinds of ERR only, S_ERROR is entered with a complaint or for an ERR of
   the server, S_END with a BYE of either side or for a message given up;
   and an ERR is never passed over. *)
Telling(r, res, cur) ==
    /\ r.fail => NotConfirmedResult(res) \/ ServerError(res)
    /\ r.next = "S_ERROR" /\ cur # "S_ERROR" => r.call = "error" \/ ServerError(res)
    /\ r.next = "S_END" /\ cur # "S_END" =>
          \/ r.call = "bye" \/ NotConfirmedResult(res)
          \/ res.source = "SERVER" /\ res.type = "BYE"
    /\ NotConfirmedResult(res) => r.fail
    /\ ServerError(res) => r.fail \/ r.next = "S_ERROR"

(* Every reaction to a permitted result is telling. *)
LEMMA ReactTelling ==
    ASSUME NEW fn \in State \ {"S_END"}, NEW res \in PollResult, NEW cur, Permitted(fn, res)
    PROVE  Telling(React(fn, res, cur), res, cur)
<1> USE DEF Go, Fail, Leave, NotConfirmed, Unexpected, ServerFailed, AfterReply, From,
            FromUser, UserType, Permitted, PollResult, Telling, NotConfirmedResult, ServerError
<1>1. CASE fn = "S_START"
  <2>1. Telling(S_Start(res, cur), res, cur)
    BY <1>1 DEF S_Start
  <2> HIDE DEF Telling
  <2> QED
    BY <1>1, <2>1 DEF React
<1>2. CASE fn = "S_AUTH"
  <2>1. Telling(S_Auth(res, cur), res, cur)
    BY <1>2 DEF S_Auth
  <2> HIDE DEF Telling
  <2> QED
    BY <1>2, <2>1 DEF React
<1>3. CASE fn = "S_OPEN"
  <2>1. Telling(S_Open(res, cur), res, cur)
    BY <1>3 DEF S_Open
  <2> HIDE DEF Telling
  <2> QED
    BY <1>3, <2>1 DEF React
<1>4. CASE fn = "S_ERROR"
  <2>1. Telling(S_Error(res, cur), res, cur)
    BY <1>4 DEF S_Error
  <2> HIDE DEF Telling
  <2> QED
    BY <1>4, <2>1 DEF React
<1> QED
  BY <1>1, <1>2, <1>3, <1>4 DEF State

(* A message that is not understood leads to S_ERROR from everywhere. *)
LEMMA ReactUnknown ==
    ASSUME NEW fn, NEW res, NEW cur, res.source = "SERVER", res.type = "UNKNOWN"
    PROVE  React(fn, res, cur).next = "S_ERROR"
<1> USE DEF Go, Fail, Leave, NotConfirmed, Unexpected, ServerFailed, AfterReply, From
<1>1. S_Start(res, cur).next = "S_ERROR"
  BY DEF S_Start
<1>2. S_Auth(res, cur).next = "S_ERROR"
  BY DEF S_Auth
<1>3. S_Open(res, cur).next = "S_ERROR"
  BY DEF S_Open
<1>4. S_Error(res, cur).next = "S_ERROR"
  BY DEF S_Error
<1> QED
  BY <1>1, <1>2, <1>3, <1>4 DEF React
=============================================================================
