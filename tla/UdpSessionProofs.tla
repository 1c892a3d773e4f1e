-------------------------- MODULE UdpSessionProofs --------------------------
(***************************************************************************)
(* The session of the UDP client, how it is entered and how it ends, and   *)
(* what the client makes of the ids of the server's messages, for every    *)
(* value of the constants:                                                 *)
(*                                                                         *)
(*   SessionImplemented   Spec => ImplementsSession                        *)
(*   DataToSession        Spec => []DataGoesToSession                      *)
(*   LockOpens            Spec => []LockHasKey                             *)
(*   LeavesCleanly        Spec => []LeavesProperly                         *)
(*   ExitHonest           Spec => []ExitCodeHonest                         *)
(*   ShownOnce            Spec => [](HalfTheIds => NoMessageShownTwice)    *)
(*   OpenedByLastGrant    Spec => [](HalfTheIds => OpenMeansGranted)       *)
(*                                                                         *)
(* For the first the invariant (SessionInv) says where the machine can be  *)
(* while a method that began in another state still runs, and what the     *)
(* pending results stand for.  Every reaction the table of Automata then   *)
(* has is an action of the session (ReactSessionLike), and every other     *)
(* step of client, network and server stutters, is an answer of the        *)
(* server, or notes an error.                                              *)
(*                                                                         *)
(* The next two follow the port and the last message through the cycle     *)
(* (EntryInv): a REPLY sets the port when it is received, opens the        *)
(* session when it is handled, and between the two the port is kept.  The  *)
(* two behind them say of every pending result, of S_ERROR and S_END, and  *)
(* of the exit code what happened before (EndInv), and of everything that  *)
(* went wrong that it is noted: in the exit code, in S_ERROR, or in a      *)
(* result that is still to be handled.                                     *)
(*                                                                         *)
(* The id of the last forwarded message is kept in an int16_t, so that the *)
(* last two hold only while the ids of the server stay in the lower half   *)
(* of their range (HalfTheIds).  There ref_msg_id bounds the ids of all    *)
(* that has reached the machine, until an UNKNOWN, whose id is anything,   *)
(* ends the session (ShownBelow).  With it a REPLY is forwarded at most    *)
(* once, and never after the AUTH it does not answer: a pending REPLY is   *)
(* one to the last message sent (GrantIsLast).                             *)
(***************************************************************************)
EXTENDS UdpChatProofs

USE IdsAssumption, RetriesAssumption

(* The method that runs is that of the state, except that a first result, a
   login from S_START, may have moved the machine to S_AUTH. *)
Placed ==
    /\ pc \in {"poll", "stdin", "socket"} => state = running
    /\ pc = "handle" =>
           \/ state = running
           \/ running = "S_START" /\ state = "S_AUTH" /\ results[1].source = "SERVER"

Commanded ==
    pc \in {"socket", "handle"} /\ results # <<>> => Permitted(running, results[1])

(* In s_error the exit code is set. *)
ErrorNoted ==
    pc \in {"poll", "stdin", "socket", "handle"} /\ running = "S_ERROR" =>
        ret_code = "EXIT_FAILURE"

(* Before the session is open the client has tried to log in and nothing
   else. *)
OnlyLogins ==
    state \in {"S_START", "S_AUTH"} => \A k \in DOMAIN sent : sent[k].type = "AUTH"

(* A pending REPLY with result OK is one the server has sent. *)
Grants(res) ==
    res.source = "SERVER" /\ res.type = "REPLY" /\ res.ok => \E k \in DOMAIN sent : Granted(k)

GrantPending == pc = "handle" => \A i \in DOMAIN results : Grants(results[i])

SessionInv ==
    /\ AnswerInv /\ Placed /\ Commanded /\ ErrorNoted /\ OnlyLogins /\ GrantPending

-----------------------------------------------------------------------------
(* The answers of the server are never taken back. *)
LEMMA GrantsGrow ==
    ASSUME AnswerInv, [Next]_vars
    PROVE  \A k : Granted(k) => Granted(k)'
<1>1. srv_sent \in Seq(Datagram)
  BY DEF AnswerInv, OrderInv, IInv, TypeOK, ServerTypeOK
<1>2. CASE srv_sent' = srv_sent
  BY <1>2 DEF Granted, SentByServer
<1>3. CASE \E d : srv_sent' = Append(srv_sent, d)
  <2>1. SentByServer \subseteq SentByServer'
    BY <1>1, <1>3 DEF SentByServer
  <2> QED
    BY <2>1 DEF Granted
<1>4. srv_sent' = srv_sent \/ \E d : srv_sent' = Append(srv_sent, d)
  BY DEF Next, Client, Environment, ServerReceives, ServerReplies, ServerSpeaks, ServerSends,
     Clock, Terminated, vars, server_vars
<1> QED
  BY <1>2, <1>3, <1>4

(* Steps of the world leave the machine alone. *)
LEMMA WorldKeepsMethod ==
    ASSUME [Next]_vars, ~Client
    PROVE  UNCHANGED <<running, ret_code>>
<1>1. CASE Environment
  BY <1>1 DEF Environment, ServerReceives, ServerReplies, ServerSpeaks, ServerSends, Sigint,
     CloseStdin, client_vars, automata_vars
<1>2. CASE Clock \/ Terminated \/ UNCHANGED vars
  BY <1>2 DEF Clock, Tick, Terminated, vars, client_vars, automata_vars
<1> QED
  BY <1>1, <1>2 DEF Next

(* In silence, what was true of logins and grants stays true. *)
LEMMA QuietGrants ==
    ASSUME SessionInv, [Next]_vars, ~(Client /\ HandleResult)
    PROVE  OnlyLogins' /\ \A res : Grants(res) => Grants(res)'
<1>1. NothingSaid /\ state' = state
  BY OnlyResultsSpeak, StateKept DEF SessionInv, AnswerInv, OrderInv
<1>2. \A k : Granted(k) => Granted(k)'
  BY GrantsGrow DEF SessionInv
<1> QED
  BY <1>1, <1>2 DEF SessionInv, OnlyLogins, NothingSaid, Grants

(* What poll_for_messages returns early is neither a command nor a REPLY. *)
LEMMA EarlyResult ==
    ASSUME NEW type \in {"BYE", "ERR"}, ReturnEarly(type)
    PROVE  /\ pc' = "handle" /\ Permitted(running, results[1])'
           /\ \A i \in DOMAIN results' : Grants(results[i])'
BY DEF ReturnEarly, UserResult, Permitted, FromUser, UserType, Grants

(* A datagram that becomes a REPLY with result OK was sent as one. *)
LEMMA ReplySent ==
    ASSUME SessionInv, NEW d \in InFlight, NEW m \in Receivable(d)
    PROVE  Grants(ServerResult(m.type, m.result))
<1>1. IInv /\ d \in Datagram
  BY InFlightTyped DEF SessionInv, AnswerInv, OrderInv
<1>2. PICK x \in DataToMessage(d) : m = Checked(x)
  BY DEF Receivable
<1>3. m.type = "REPLY" => m = d
  BY <1>1, <1>2 DEF Checked, DataToMessage, Datagram
<1>4. ASSUME m.type = "REPLY", m.result = 1 PROVE \E k \in DOMAIN sent : Granted(k)
  <2>1. d.type = "REPLY" /\ d.result = 1
    BY <1>3, <1>4
  <2>2. d \in SentByServer
    BY <2>1 DEF InFlight, ConfirmOf
  <2>3. d.re \in DOMAIN sent
    BY <2>1, <2>2 DEF SessionInv, AnswerInv, RepliesFit
  <2> QED
    BY <2>1, <2>2, <2>3 DEF Granted
<1> QED
  BY <1>4 DEF Grants, ServerResult

(* The datagram is handled after the command of the same poll. *)
LEMMA SocketKeeps ==
    ASSUME SessionInv, NEW d \in InFlight, ReadSocket(d), [Next]_vars, ~HandleResult
    PROVE  Placed' /\ Commanded' /\ ErrorNoted' /\ GrantPending'
<1>0. /\ IInv /\ CycleShape /\ results \in Seq(PollResult) /\ pc = "socket"
      /\ state' = state /\ running' = running /\ ret_code' = ret_code
      /\ running \in State \ {"S_END"}
  BY DEF SessionInv, AnswerInv, OrderInv, IInv, TypeOK, ClientTypeOK, ReadSocket, automata_vars
<1>1. PICK m \in Receivable(d) :
         /\ results' = results \o ServerResults(m)
         /\ pc' = AfterPoll(results \o ServerResults(m))
  BY DEF ReadSocket
<1>2. m \in Parsed /\ ServerResults(m) \in Seq(PollResult)
  BY <1>0, InFlightTyped, ReceivableParsed, ServerResultsType
<1>3. pc' \in {"top", "handle"}
  BY <1>1 DEF AfterPoll
<1>4. Placed' /\ ErrorNoted'
  BY <1>0, <1>3 DEF SessionInv, Placed, ErrorNoted
<1>5. Grants(ServerResult(m.type, m.result))'
  BY ReplySent, QuietGrants DEF SessionInv
<1> DEFINE new == ServerResult(m.type, m.result)
<1>6. new.source = "SERVER" /\ Permitted(running, new)
  BY DEF ServerResult, Permitted, FromUser
<1>7. ServerResults(m) = <<>> \/ ServerResults(m) = <<new>>
  BY DEF ServerResults
<1>8. results # <<>> => Len(results) = 1 /\ FromUser(results[1]) /\ Permitted(running, results[1])
  BY <1>0 DEF SessionInv, CycleShape, Commanded
<1>9. \A res : FromUser(res) => Grants(res)'
  BY DEF FromUser, Grants
<1> HIDE DEF new
<1>10. \A i \in DOMAIN results' : results'[i] = new \/ (results # <<>> /\ results'[i] = results[1])
  <2>1. CASE ServerResults(m) = <<>>
    <3>1. results' = results
      BY <1>0, <1>1, <2>1
    <3> QED
      BY <1>0, <1>8, <3>1
  <2>2. CASE ServerResults(m) = <<new>> /\ results = <<>>
    <3>1. results' = <<new>>
      BY <1>0, <1>1, <1>2, <2>2
    <3> QED
      BY <3>1
  <2>3. CASE ServerResults(m) = <<new>> /\ Len(results) = 1 /\ results # <<>>
    <3>1. Len(ServerResults(m)) = 1 /\ ServerResults(m)[1] = new
      BY <2>3
    <3>2. Len(results') = 2 /\ results'[1] = results[1] /\ results'[2] = new
      BY <1>0, <1>1, <1>2, <2>3, <3>1, OneAndOne
    <3>3. results' \in Seq(PollResult)
      BY <1>0, <1>1, <1>2
    <3>4. DOMAIN results' = 1 .. 2
      BY <3>2, <3>3
    <3> QED
      BY <2>3, <3>2, <3>4
  <2> QED
    BY <1>7, <1>8, <2>1, <2>2, <2>3
<1>11. Commanded'
  <2>1. results' # <<>> => 1 \in DOMAIN results'
    BY <1>0, <1>1, <1>2
  <2>2. results' # <<>> => Permitted(running, results'[1])
    BY <1>6, <1>8, <1>10, <2>1
  <2> QED
    BY <1>0, <2>2 DEF Commanded, Permitted, FromUser
<1>12. GrantPending'
  BY <1>5, <1>8, <1>9, <1>10 DEF GrantPending, new
<1> QED
  BY <1>4, <1>11, <1>12

(* The steps that handle no result keep the places and the results. *)
LEMMA QuietStays ==
    ASSUME SessionInv, [Next]_vars, ~(Client /\ HandleResult)
    PROVE  Placed' /\ Commanded' /\ ErrorNoted' /\ GrantPending'
<1>0. CycleShape /\ running \in State \ {"S_END"} /\ state \in State
  BY DEF SessionInv, AnswerInv, OrderInv, IInv, TypeOK, ClientTypeOK
<1>1. state' = state
  BY StateKept
<1>2. ASSUME ~Client PROVE Placed' /\ Commanded' /\ ErrorNoted' /\ GrantPending'
  BY <1>2, WorldKeepsMachine, WorldKeepsMethod, QuietGrants
     DEF SessionInv, Placed, Commanded, Permitted, FromUser, ErrorNoted, GrantPending
<1>3. CASE PollSigint \/ PollGivesUp
  <2>1. /\ running' = state /\ ret_code' = EntryCode(state, ret_code)
        /\ ReturnEarly("BYE") \/ ReturnEarly("ERR")
    BY <1>3 DEF PollSigint, PollGivesUp, EnterMethod
  <2> QED
    BY <1>1, <2>1, EarlyResult DEF Placed, Commanded, ErrorNoted, EntryCode, GrantPending,
       Permitted, FromUser, ReturnEarly, UserResult, UserType
<1>4. CASE PollBegins
  BY <1>1, <1>4 DEF PollBegins, EnterMethod, Placed, Commanded, ErrorNoted, EntryCode, GrantPending
<1>5. CASE PollInterrupted \/ PollReturnGivesUp \/ ReadEof
  <2>1. /\ running' = running /\ ret_code' = ret_code /\ pc \in {"poll", "stdin"}
        /\ ReturnEarly("BYE") \/ ReturnEarly("ERR")
    BY <1>5 DEF PollInterrupted, PollReturnGivesUp, ReadEof, automata_vars
  <2> QED
    BY <1>1, <2>1, EarlyResult DEF SessionInv, Placed, Commanded, ErrorNoted, GrantPending,
       Permitted, FromUser, ReturnEarly, UserResult, UserType
<1>6. CASE PollReturns \/ ReadEmptyLine \/ SkipStdin \/ SendFails(InFlight) \/ Exit
           \/ \E d \in InFlight : ReadTruncated(d)
  BY <1>0, <1>1, <1>6 DEF PollReturns, ReadEmptyLine, SkipStdin, SendFails, Exit, ReadTruncated,
     automata_vars, SessionInv, CycleShape, Placed, Commanded, Permitted, FromUser, ErrorNoted,
     GrantPending
<1>7. CASE SkipSocket
  <2>1. /\ running' = running /\ ret_code' = ret_code /\ results' = results
        /\ pc = "socket" /\ pc' \in {"top", "handle"}
    BY <1>7 DEF SkipSocket, AfterPoll, automata_vars
  <2>2. results # <<>> => Len(results) = 1 /\ FromUser(results[1])
    BY <1>0, <2>1 DEF CycleShape
  <2>3. results \in Seq(PollResult)
    BY DEF SessionInv, AnswerInv, OrderInv, IInv, TypeOK, ClientTypeOK
  <2>4. \A i \in DOMAIN results : results[i].source = "USER"
    BY <2>2, <2>3 DEF FromUser
  <2> QED
    BY <1>1, <2>1, <2>4 DEF SessionInv, Placed, Commanded, Permitted, FromUser, ErrorNoted,
       GrantPending, Grants
<1>8. ASSUME NEW cmd \in Command, ReadLine(cmd)
      PROVE  Placed' /\ Commanded' /\ ErrorNoted' /\ GrantPending'
  <2>1. /\ running' = running /\ ret_code' = ret_code /\ pc = "stdin" /\ pc' = "socket"
        /\ results' = UserResults(cmd, AllowedCommands(running))
    BY <1>8 DEF ReadLine, automata_vars
  <2>2. results' # <<>> => Permitted(running, results'[1])
    BY <1>0, <2>1, LineCommanded
  <2> QED
    BY <1>1, <2>1, <2>2 DEF SessionInv, Placed, Commanded, Permitted, FromUser, ErrorNoted,
       GrantPending
<1>9. ASSUME NEW d \in InFlight, ReadSocket(d), ~HandleResult
      PROVE  Placed' /\ Commanded' /\ ErrorNoted' /\ GrantPending'
  BY <1>9, SocketKeeps
<1>10. ASSUME Client PROVE ClientStep(InFlight) /\ ~HandleResult
  BY <1>10 DEF Client
<1>11. ASSUME Client PROVE Placed' /\ Commanded' /\ ErrorNoted' /\ GrantPending'
  BY <1>3, <1>4, <1>5, <1>6, <1>7, <1>8, <1>9, <1>10, <1>11 DEF ClientStep
<1> QED
  BY <1>2, <1>11

(* What handling a result does, in terms of the session. *)
LEMMA HandleSessionLike ==
    ASSUME SessionInv, HandleResult
    PROVE  LET res == results[1]
               r   == React(running, res, state)
           IN  /\ SessionLike(r, res, state)
               /\ Perform(r.call) /\ state' = r.next /\ running' = running
               /\ ret_code' = (IF r.fail THEN "EXIT_FAILURE" ELSE ret_code)
               /\ Permitted(running, res) /\ Grants(res) /\ pc = "handle" /\ state # "S_END"
               /\ running \in State \ {"S_END"}
<1>1. /\ IInv /\ CycleShape /\ results \in Seq(PollResult) /\ results # <<>> /\ pc = "handle"
      /\ running \in State \ {"S_END"} /\ state \in State
  BY DEF SessionInv, AnswerInv, OrderInv, IInv, TypeOK, ClientTypeOK, HandleResult
<1>2. results[1] \in PollResult /\ 1 \in DOMAIN results
  BY <1>1
<1>3. Permitted(running, results[1]) /\ Grants(results[1])
  BY <1>1, <1>2 DEF SessionInv, Commanded, GrantPending
<1>4. state = running \/ (running = "S_START" /\ state = "S_AUTH" /\ results[1].source = "SERVER")
  BY <1>1 DEF SessionInv, Placed
<1>5. SessionLike(React(running, results[1], state), results[1], state)
  BY <1>1, <1>2, <1>3, <1>4, ReactSessionLike
<1>6. Head(results) = results[1] /\ state # "S_END"
  BY <1>1, HandleShape
<1> QED
  BY <1>1, <1>3, <1>5, <1>6 DEF HandleResult

(* Handling a result keeps the invariant: after a first result, a command,
   the machine is where the method expects it, or has just logged in. *)
LEMMA HandleStays ==
    ASSUME SessionInv, HandleResult, Client, [Next]_vars
    PROVE  Placed' /\ Commanded' /\ ErrorNoted' /\ OnlyLogins' /\ GrantPending'
<1> DEFINE res == results[1]
           r == React(running, res, state)
<1>1. /\ SessionLike(r, res, state)
      /\ Perform(r.call) /\ state' = r.next /\ running' = running
      /\ Permitted(running, res) /\ pc = "handle" /\ running \in State \ {"S_END"}
  BY HandleSessionLike
<1>2. IInv /\ CycleShape /\ results \in Seq(PollResult)
  BY DEF SessionInv, AnswerInv, OrderInv, IInv, TypeOK, ClientTypeOK
<1>3. \/ results' = <<>> /\ pc' = "top"
      \/ /\ FromUser(res) /\ pc' = "handle" /\ Len(results') = 1
         /\ results'[1].source = "SERVER"
  BY <1>2, HandleShape
<1>4. ASSUME pc' = "top" PROVE Placed' /\ Commanded' /\ ErrorNoted' /\ GrantPending'
  BY <1>4 DEF Placed, Commanded, ErrorNoted, GrantPending
<1>5. ASSUME FromUser(res), pc' = "handle", results'[1].source = "SERVER"
      PROVE  Placed' /\ Commanded' /\ ErrorNoted' /\ GrantPending'
  <2>1. \/ running \in {"S_START", "S_AUTH"} /\ res.type = "AUTH"
        \/ running = "S_OPEN" /\ res.type \in {"JOIN", "MSG"}
    BY <1>1, <1>5 DEF Permitted
  <2>2. state = running
    BY <1>1, <1>5 DEF SessionInv, Placed, FromUser
  <2>3. ASSUME running = "S_START" PROVE Placed'
    <3>1. S_Start(res, state) = Go("authorize", "S_AUTH")
      BY <1>5, <2>1, <2>3 DEF S_Start, From, FromUser
    <3>2. r.next = "S_AUTH"
      BY <2>3, <3>1 DEF React, Go
    <3> QED
      BY <1>1, <1>5, <2>3, <3>2 DEF Placed
  <2>4. ASSUME running = "S_AUTH" PROVE Placed'
    <3>1. S_Auth(res, state) = Go("authorize", "S_AUTH")
      BY <1>5, <2>1, <2>2, <2>4 DEF S_Auth, From, FromUser
    <3>2. r.next = "S_AUTH"
      BY <2>4, <3>1 DEF React, Go
    <3> QED
      BY <1>1, <1>5, <2>4, <3>2 DEF Placed
  <2>5. ASSUME running = "S_OPEN" PROVE Placed'
    <3>1. S_Open(res, state).next = "S_OPEN"
      BY <1>5, <2>1, <2>2, <2>5 DEF S_Open, Go, From, FromUser
    <3>2. r.next = "S_OPEN"
      BY <2>5, <3>1 DEF React
    <3> QED
      BY <1>1, <1>5, <2>5, <3>2 DEF Placed
  <2>6. Placed'
    BY <2>1, <2>3, <2>4, <2>5
  <2>7. Commanded' /\ ErrorNoted'
    BY <1>1, <1>5, <2>1 DEF Commanded, Permitted, FromUser, ErrorNoted
  <2>8. GrantPending'
    <3>1. results' = Tail(results) /\ results' # <<>>
      BY <1>5 DEF HandleResult
    <3>2. Len(results) = 2
      BY <1>1, <1>2, <3>1 DEF CycleShape
    <3>3. Len(results') = 1 /\ results'[1] = results[2]
      BY <1>2, <3>1, <3>2, TailOfTwo
    <3>4. Grants(results[2])
      BY <1>1, <1>2, <3>2 DEF SessionInv, GrantPending
    <3>5. \A k : Granted(k) => Granted(k)'
      BY GrantsGrow DEF SessionInv
    <3>6. DOMAIN sent \subseteq DOMAIN sent'
      BY <1>2, SaidIsSaid
    <3>7. \A i \in DOMAIN results' : i = 1
      BY <1>2, <3>1, <3>3
    <3>8. (\E k \in DOMAIN sent : Granted(k)) => \E k \in DOMAIN sent' : Granted(k)'
      BY <3>5, <3>6
    <3>9. Grants(results[1])'
      BY <3>3, <3>4, <3>8 DEF Grants
    <3> QED
      BY <3>7, <3>9 DEF GrantPending
  <2> QED
    BY <2>6, <2>7, <2>8
<1>6. OnlyLogins'
  <2>1. SUFFICES ASSUME state' \in {"S_START", "S_AUTH"}
                 PROVE  \A k \in DOMAIN sent' : sent'[k].type = "AUTH"
    BY DEF OnlyLogins
  <2>2. state \in {"S_START", "S_AUTH"} /\ r.call \in {"none", "authorize"}
    BY <1>1, <2>1 DEF SessionLike, Logs, Talks, Idles, Enters, Complains, Breaks, Leaves,
       Dismissed, Abandons
  <2>3. \A k \in DOMAIN sent : sent[k].type = "AUTH"
    BY <2>2 DEF SessionInv, OnlyLogins
  <2>4. CASE sent' = sent
    BY <2>3, <2>4
  <2>5. CASE Send("AUTH")
    BY <1>2, <2>3, <2>5, SendSays DEF ClientType
  <2> QED
    BY <1>1, <2>2, <2>4, <2>5 DEF Perform, Authorize, postman_vars
<1> QED
  <2> HIDE DEF res
  <2> QED
    BY <1>3, <1>4, <1>5, <1>6

(* Every step keeps the invariant. *)
LEMMA NextSession == SessionInv /\ [Next]_vars => SessionInv'
<1> SUFFICES ASSUME SessionInv, [Next]_vars PROVE SessionInv'
  OBVIOUS
<1>1. AnswerInv'
  BY NextAnswer DEF SessionInv
<1>2. CASE Client /\ HandleResult
  BY <1>1, <1>2, HandleStays DEF SessionInv
<1>3. CASE ~(Client /\ HandleResult)
  BY <1>1, <1>3, QuietStays, QuietGrants DEF SessionInv
<1> QED
  BY <1>2, <1>3

(* It holds at the start, where nothing is pending. *)
LEMMA InitSession == Init => SessionInv
BY InitAnswer DEF SessionInv, Init, ClientInit, PostmanInit, Placed, Commanded, ErrorNoted,
   OnlyLogins, GrantPending

-----------------------------------------------------------------------------
(* The session as this client sees it. *)
Said == [k \in DOMAIN sent |-> sent[k].type]
GrantedRequests == {k \in DOMAIN sent : Granted(k)}
RefusedRequests == {k \in DOMAIN sent : Answered(k) /\ ~Granted(k)}

(* The types of the messages said are a sequence, as long as they are. *)
LEMMA SaidIsSequence ==
    ASSUME IInv
    PROVE  Said \in Seq(ClientType) /\ Len(Said) = Len(sent) /\ DOMAIN Said = DOMAIN sent
<1>1. Len(sent) \in Nat /\ DOMAIN sent = 1 .. Len(sent) /\ \A k \in DOMAIN sent : sent[k] \in Sent
  BY DEF IInv, TypeOK, PostmanTypeOK
<1>2. Said \in [1 .. Len(sent) -> ClientType]
  BY <1>1 DEF Said, Sent
<1>3. Said \in Seq(ClientType)
  BY <1>1, <1>2, SeqDef
<1> HIDE DEF Said
<1> QED
  BY <1>1, <1>2, <1>3

(* A message sent is appended to what was said, and has no answer yet. *)
LEMMA SendExtends ==
    ASSUME AnswerInv, NEW type \in ClientType, Send(type), srv_sent' = srv_sent
    PROVE  /\ Said' = Append(Said, type)
           /\ GrantedRequests' = GrantedRequests /\ RefusedRequests' = RefusedRequests
<1> DEFINE n == Len(sent) + 1
<1>1. /\ Len(sent) \in Nat /\ DOMAIN sent = 1 .. Len(sent)
      /\ DOMAIN sent' = DOMAIN sent \cup {n}
      /\ \A k \in DOMAIN sent : sent'[k] = sent[k]
      /\ sent'[n].type = type /\ sent \in Seq(Sent)
  BY SendSays DEF AnswerInv, OrderInv, IInv, TypeOK, PostmanTypeOK
<1>2. Said \in Seq(ClientType) /\ Len(Said) = Len(sent)
  BY SaidIsSequence DEF AnswerInv, OrderInv
<1>3. Said' = [k \in 1 .. n |-> IF k = n THEN type ELSE Said[k]]
  BY <1>1 DEF Said
<1>4. Append(Said, type) = [k \in 1 .. n |-> IF k = n THEN type ELSE Said[k]]
  <2> DEFINE more == Append(Said, type)
  <2>1. /\ more \in Seq(ClientType) /\ Len(more) = Len(Said) + 1
        /\ \A i \in 1 .. Len(Said) : more[i] = Said[i]
        /\ more[Len(Said) + 1] = type
    BY <1>2, AppendProperties
  <2> HIDE DEF Said, more
  <2>2. DOMAIN more = 1 .. n /\ more = [i \in DOMAIN more |-> more[i]]
    BY <1>1, <1>2, <2>1
  <2>3. \A i \in 1 .. n : more[i] = IF i = n THEN type ELSE Said[i]
    BY <1>1, <1>2, <2>1
  <2> QED
    BY <2>2, <2>3 DEF more
<1>5. \A k : Answered(k)' = Answered(k) /\ Granted(k)' = Granted(k)
  BY DEF Answered, Granted, SentByServer
<1>6. ~Answered(n) /\ ~Granted(n)
  BY <1>1 DEF AnswerInv, RepliesFit, Answered, Granted
<1> QED
  BY <1>1, <1>3, <1>4, <1>5, <1>6 DEF GrantedRequests, RefusedRequests

(* In silence nothing is added to what was said. *)
LEMMA SilenceExtendsNothing ==
    ASSUME AnswerInv, NothingSaid PROVE Said' = Said
<1>1. DOMAIN sent' = DOMAIN sent /\ \A k \in DOMAIN sent : sent'[k].type = sent[k].type
  BY DEF NothingSaid
<1> QED
  BY <1>1 DEF Said

(* And without a new REPLY no request is answered. *)
LEMMA NoReplyNoAnswer ==
    ASSUME srv_sent \in Seq(Datagram), DOMAIN sent' = DOMAIN sent,
           \/ srv_sent' = srv_sent
           \/ \E d : srv_sent' = Append(srv_sent, d) /\ d.type # "REPLY"
    PROVE  GrantedRequests' = GrantedRequests /\ RefusedRequests' = RefusedRequests
<1>1. \A k : Answered(k)' = Answered(k) /\ Granted(k)' = Granted(k)
  <2>1. CASE srv_sent' = srv_sent
    BY <2>1 DEF Answered, Granted, SentByServer
  <2>2. ASSUME NEW d, srv_sent' = Append(srv_sent, d), d.type # "REPLY"
        PROVE  \A k : Answered(k)' = Answered(k) /\ Granted(k)' = Granted(k)
    <3>1. SentByServer' = SentByServer \cup {d}
      BY <2>2 DEF SentByServer
    <3> QED
      BY <2>2, <3>1 DEF Answered, Granted
  <2> QED
    BY <2>1, <2>2
<1> QED
  BY <1>1 DEF GrantedRequests, RefusedRequests

(* When a command of the user is handled, every request has its answer. *)
LEMMA UserIsFree ==
    ASSUME SessionInv, HandleResult, FromUser(results[1]), Len(sent) <= IdMod
    PROVE  \A k \in DOMAIN sent : sent[k].type \in Request => Answered(k)
<1>1. pc = "handle" /\ state # "S_END" /\ results # <<>>
  BY HandleShape DEF SessionInv, AnswerInv, OrderInv, HandleResult, IInv, TypeOK, ClientTypeOK
<1>2. ~is_waiting_for_reply
  BY <1>1 DEF SessionInv, AnswerInv, OrderInv, UserClear
<1>3. ~Ending
  BY <1>1 DEF Ending, Final, FromUser, UserType
<1> QED
  BY <1>2, <1>3 DEF SessionInv, AnswerInv, LockedUntilAnswered

-----------------------------------------------------------------------------
(* Handling a result is a step of the session, or none. *)
LEMMA HandleImplements ==
    ASSUME SessionInv, HandleResult, UNCHANGED server_vars
    PROVE  [Session!SessionNext]_(Session!session_vars)
<1> DEFINE res == results[1]
           r == React(running, res, state)
<1>1. /\ SessionLike(r, res, state)
      /\ Perform(r.call) /\ state' = r.next
      /\ ret_code' = (IF r.fail THEN "EXIT_FAILURE" ELSE ret_code)
      /\ Permitted(running, res) /\ Grants(res) /\ pc = "handle" /\ state # "S_END"
      /\ running \in State \ {"S_END"}
  BY HandleSessionLike
<1>2. AnswerInv /\ srv_sent' = srv_sent /\ srv_sent \in Seq(Datagram) /\ Len(sent) \in Nat
  BY DEF SessionInv, server_vars, AnswerInv, OrderInv, IInv, TypeOK, ServerTypeOK, PostmanTypeOK
<1>3. \A type \in ClientType : Send(type) =>
         /\ Said' = Append(Said, type)
         /\ GrantedRequests' = GrantedRequests /\ RefusedRequests' = RefusedRequests
  BY <1>2, SendExtends
<1>4. UNCHANGED postman_vars =>
         Said' = Said /\ GrantedRequests' = GrantedRequests /\ RefusedRequests' = RefusedRequests
  <2>1. UNCHANGED postman_vars => sent' = sent
    BY DEF postman_vars
  <2> QED
    BY <1>2, <2>1, NoReplyNoAnswer DEF Said
<1>5. state = running \/ (running = "S_START" /\ state = "S_AUTH")
  BY <1>1 DEF SessionInv, Placed
<1>6. ASSUME FromUser(res) PROVE Session!Free
  <2> DEFINE unanswered ==
        {k \in DOMAIN Said : Said[k] \in Request} \ (GrantedRequests \cup RefusedRequests)
  <2>1. ASSUME Len(sent) < IdMod
        PROVE  \A k \in DOMAIN sent : sent[k].type \in Request => Answered(k)
    BY <1>2, <1>6, <2>1, IdsAssumption, UserIsFree
  <2>2. Len(Said) = Len(sent) /\ DOMAIN Said = DOMAIN sent
    BY <1>2, SaidIsSequence DEF AnswerInv, OrderInv
  <2>3. \A k \in unanswered : sent[k].type \in Request /\ ~Answered(k) /\ k \in DOMAIN sent
    BY <2>2 DEF Said, GrantedRequests, RefusedRequests
  <2>4. Len(Said) < IdMod => unanswered = {}
    BY <2>1, <2>2, <2>3
  <2> QED
    BY <2>4, Zenon DEF Session!Free, Session!Open, Session!Request, Request, Said, GrantedRequests, RefusedRequests
<1> HIDE DEF r, res
<1> USE DEF Session!Say
<1>7. CASE Logs(r, res, state)
  <2>1. Send("AUTH") /\ state' = "S_AUTH" /\ ret_code' = ret_code
    BY <1>1, <1>7 DEF Logs, Perform, Authorize
  <2>2. Session!Login
    BY <1>3, <1>6, <1>7, <2>1
       DEF Logs, Session!Login, ClientType, Said, GrantedRequests, RefusedRequests
  <2> QED
    BY <2>2 DEF Session!SessionNext
<1>8. CASE Talks(r, res, state)
  <2>1. (Send("JOIN") \/ Send("MSG")) /\ state' = state /\ ret_code' = ret_code
    BY <1>1, <1>8 DEF Talks, Perform, Join, Message
  <2>2. Session!Talk("JOIN") \/ Session!Talk("MSG")
    BY <1>3, <1>6, <1>8, <2>1
       DEF Talks, Session!Talk, ClientType, Said, GrantedRequests, RefusedRequests
  <2> QED
    BY <2>2 DEF Session!SessionNext
<1>9. CASE Idles(r, state)
  <2>1. UNCHANGED postman_vars /\ state' = state /\ ret_code' = ret_code
    BY <1>1, <1>9 DEF Idles, Perform
  <2> QED
    BY <1>4, <2>1 DEF Session!session_vars, Said, GrantedRequests, RefusedRequests
<1>10. CASE Enters(r, res, state)
  <2>1. UNCHANGED postman_vars /\ state' = "S_OPEN" /\ ret_code' = ret_code
    BY <1>1, <1>10 DEF Enters, Perform
  <2>2. \E k \in GrantedRequests : Said[k] = "AUTH"
    BY <1>1, <1>10 DEF Enters, Grants, SessionInv, OnlyLogins, GrantedRequests, Said
  <2>3. Session!Enter
    BY <1>4, <1>10, <2>1, <2>2
       DEF Enters, Session!Enter, Said, GrantedRequests, RefusedRequests
  <2> QED
    BY <2>3 DEF Session!SessionNext
<1>11. CASE Complains(r)
  <2>1. Send("ERR") /\ state' = "S_ERROR" /\ ret_code' = ret_code
    BY <1>1, <1>11 DEF Complains, Perform, Error
  <2>2. Session!Complain
    BY <1>1, <1>3, <2>1
       DEF Session!Complain, ClientType, Said, GrantedRequests, RefusedRequests
  <2> QED
    BY <2>2 DEF Session!SessionNext
<1>12. CASE Breaks(r, state)
  <2>1. UNCHANGED postman_vars /\ state' = "S_ERROR" /\ ret_code' = ret_code
    BY <1>1, <1>12 DEF Breaks, Perform
  <2>2. Session!Break
    BY <1>4, <1>12, <2>1 DEF Breaks, Session!Break, Said, GrantedRequests, RefusedRequests
  <2> QED
    BY <2>2 DEF Session!SessionNext
<1>13. CASE Leaves(r)
  <2>1. Send("BYE") /\ state' = "S_END" /\ ret_code' = ret_code
    BY <1>1, <1>13 DEF Leaves, Perform, Bye
  <2>2. state = "S_ERROR" => ret_code = "EXIT_FAILURE"
    BY <1>1, <1>5 DEF SessionInv, ErrorNoted
  <2>3. Session!Leave
    BY <1>1, <1>3, <2>1, <2>2
       DEF Session!Leave, Session!End, ClientType, Said, GrantedRequests, RefusedRequests
  <2> QED
    BY <2>3 DEF Session!SessionNext
<1>14. CASE Dismissed(r, state)
  <2>1. UNCHANGED postman_vars /\ state' = "S_END" /\ ret_code' = ret_code
    BY <1>1, <1>14 DEF Dismissed, Perform
  <2>2. Session!Dismiss
    BY <1>4, <1>14, <2>1
       DEF Dismissed, Session!Dismiss, Session!End, Said, GrantedRequests, RefusedRequests
  <2> QED
    BY <2>2 DEF Session!SessionNext
<1>15. CASE Abandons(r)
  <2>1. /\ Send("BYE") \/ UNCHANGED postman_vars
        /\ state' = "S_END" /\ ret_code' = "EXIT_FAILURE"
    BY <1>1, <1>15 DEF Abandons, Perform, Bye
  <2>2. Session!Abandon
    BY <1>1, <1>3, <1>4, <2>1
       DEF Session!Abandon, Session!End, ClientType, Said, GrantedRequests, RefusedRequests
  <2> QED
    BY <2>2 DEF Session!SessionNext
<1> QED
  BY <1>1, <1>7, <1>8, <1>9, <1>10, <1>11, <1>12, <1>13, <1>14, <1>15 DEF SessionLike

(* An answer of the server is one of the session. *)
LEMMA ReplyImplements ==
    ASSUME SessionInv, [Next]_vars, NEW k \in srv_seen, NEW result \in {0, 1},
           ServerReplies(k, result)
    PROVE  Session!SessionNext
<1> DEFINE d == [type |-> "REPLY", id |-> NextServerId,
                 ref_id |-> Wire(sent[k].id), result |-> result, re |-> k]
<1>1. /\ srv_sent' = Append(srv_sent, d) /\ UNCHANGED client_vars
      /\ sent[k].type \in Request /\ ~Answered(k)
  BY DEF ServerReplies, ServerSends
<1>2. srv_sent \in Seq(Datagram) /\ k \in DOMAIN sent
  BY DEF SessionInv, AnswerInv, OrderInv, IInv, TypeOK, ServerTypeOK
<1>3. SentByServer' = SentByServer \cup {d}
  BY <1>1, <1>2 DEF SentByServer
<1>4. sent' = sent /\ state' = state /\ ret_code' = ret_code
  BY <1>1 DEF client_vars, postman_vars, automata_vars
<1>6. ~Granted(k) /\ \A j : Granted(j) => Answered(j)
  BY <1>1 DEF Answered, Granted
<1>10. d.type = "REPLY" /\ d.re = k /\ d.result = result
  OBVIOUS
<1> HIDE DEF d
<1>5. \A j : /\ Answered(j)' <=> Answered(j) \/ j = k
             /\ Granted(j)' <=> Granted(j) \/ (j = k /\ result = 1)
  BY <1>3, <1>10 DEF Answered, Granted
<1>7. Said' = Said /\ k \in {j \in DOMAIN Said : Said[j] \in Request} \ (GrantedRequests \cup RefusedRequests)
  BY <1>1, <1>2, <1>4, <1>6 DEF Said, GrantedRequests, RefusedRequests
<1>8. CASE result = 1
  <2>1. GrantedRequests' = GrantedRequests \cup {k} /\ RefusedRequests' = RefusedRequests
    BY <1>1, <1>2, <1>4, <1>5, <1>6, <1>8 DEF GrantedRequests, RefusedRequests
  <2>2. k \in Session!Open
    BY <1>7, Zenon DEF Session!Open, Session!Request, Request, Said, GrantedRequests, RefusedRequests
  <2>3. Session!Grant(k)
    BY <1>4, <1>7, <2>1, <2>2, Zenon DEF Session!Grant, Said, GrantedRequests, RefusedRequests
  <2> QED
    BY <2>2, <2>3 DEF Session!SessionNext
<1>9. CASE result = 0
  <2>1. GrantedRequests' = GrantedRequests /\ RefusedRequests' = RefusedRequests \cup {k}
    BY <1>1, <1>2, <1>4, <1>5, <1>6, <1>9 DEF GrantedRequests, RefusedRequests
  <2>2. k \in Session!Open
    BY <1>7, Zenon DEF Session!Open, Session!Request, Request, Said, GrantedRequests, RefusedRequests
  <2>3. Session!Refuse(k)
    BY <1>4, <1>7, <2>1, <2>2, Zenon DEF Session!Refuse, Said, GrantedRequests, RefusedRequests
  <2> QED
    BY <2>2, <2>3 DEF Session!SessionNext
<1> QED
  BY <1>8, <1>9

(* Entering s_error notes the error; every other step changes nothing of
   the session. *)
LEMMA QuietImplements ==
    ASSUME SessionInv, [Next]_vars, ~(Client /\ HandleResult),
           ~\E k \in srv_seen, result \in {0, 1} : ServerReplies(k, result)
    PROVE  [Session!SessionNext]_(Session!session_vars)
<1>1. NothingSaid /\ state' = state /\ Said' = Said /\ srv_sent \in Seq(Datagram)
  BY OnlyResultsSpeak, StateKept, SilenceExtendsNothing
     DEF SessionInv, AnswerInv, OrderInv, IInv, TypeOK, ServerTypeOK
<1>2. srv_sent' = srv_sent \/ \E d : srv_sent' = Append(srv_sent, d) /\ d.type # "REPLY"
  <2>1. ASSUME NEW type \in ServerTypes, ServerSpeaks(type)
        PROVE  \E d : srv_sent' = Append(srv_sent, d) /\ d.type # "REPLY"
    BY <2>1, ServerAssumption DEF ServerSpeaks, ServerSends
  <2> QED
    BY <2>1 DEF Next, Client, Environment, ServerReceives, Clock, Terminated, vars, server_vars
<1>3. GrantedRequests' = GrantedRequests /\ RefusedRequests' = RefusedRequests
  BY <1>1, <1>2, NoReplyNoAnswer DEF NothingSaid
<1>4. ret_code' = ret_code \/ (state = "S_ERROR" /\ ret_code' = "EXIT_FAILURE")
  <2>1. CASE Client
    BY <2>1 DEF Client, ClientStep, PollSigint, PollGivesUp, PollBegins, PollInterrupted,
       PollReturns, PollReturnGivesUp, ReadEof, ReadEmptyLine, SkipStdin, ReadLine, ReadSocket,
       ReadTruncated, SkipSocket, SendFails, Exit, EnterMethod, EntryCode, automata_vars
  <2> QED
    BY <2>1, WorldKeepsMethod
<1>5. CASE ret_code' = ret_code
  BY <1>1, <1>3, <1>5 DEF Session!session_vars, Said, GrantedRequests, RefusedRequests
<1>6. CASE state = "S_ERROR" /\ ret_code' = "EXIT_FAILURE"
  <2>1. Session!Blame
    BY <1>1, <1>3, <1>6 DEF Session!Blame, Said, GrantedRequests, RefusedRequests
  <2> QED
    BY <2>1 DEF Session!SessionNext
<1> QED
  BY <1>4, <1>5, <1>6

(* The client starts as a session does. *)
LEMMA InitImplements == Init => Session!SessionInit
<1> SUFFICES ASSUME Init PROVE Session!SessionInit
  OBVIOUS
<1>1. /\ state = "S_START" /\ ret_code = "EXIT_SUCCESS" /\ sent = <<>> /\ DOMAIN sent = {}
  BY DEF Init, ClientInit, PostmanInit
<1>2. Said = <<>> /\ GrantedRequests = {} /\ RefusedRequests = {}
  BY <1>1 DEF Said, GrantedRequests, RefusedRequests
<1> QED
  BY <1>1, <1>2 DEF Session!SessionInit, Said, GrantedRequests, RefusedRequests

(* Every behaviour of the UDP client, with any network, server and user, is
   a chat session (Automata.cpp over UdpPostman.cpp). *)
THEOREM SessionImplemented == Spec => ImplementsSession
<1>1. SessionInv /\ [Next]_vars => [Session!SessionNext]_(Session!session_vars)
  <2> SUFFICES ASSUME SessionInv, [Next]_vars
               PROVE  [Session!SessionNext]_(Session!session_vars)
    OBVIOUS
  <2>1. CASE Client /\ HandleResult
    BY <2>1, HandleImplements DEF Client
  <2>2. CASE \E k \in srv_seen, result \in {0, 1} : ServerReplies(k, result)
    BY <2>2, ReplyImplements
  <2> QED
    BY <2>1, <2>2, QuietImplements
<1> QED
  BY <1>1, InitImplements, InitSession, NextSession, PTL
     DEF Spec, ImplementsSession, Session!SessionSpec

-----------------------------------------------------------------------------
(* How a session is entered. *)

(* An AUTH has been sent when the machine waits for its answer. *)
LoggedIn == state = "S_AUTH" => sent # <<>>

(* The port is that of the session before the machine is in S_OPEN: the
   REPLY that opens it has set the port. *)
PortLearnt ==
    /\ state = "S_OPEN" => server_port = "session"
    /\ pc = "handle" /\ running = "S_AUTH" =>
          \A i \in DOMAIN results :
              results[i].source = "SERVER" /\ results[i].type = "REPLY" => server_port = "session"

EntryInv == SessionInv /\ LoggedIn /\ PortLearnt /\ DataGoesToSession /\ LockHasKey

(* What the steps that handle no result do to the lock and the port. *)
LEMMA QuietPort ==
    ASSUME IInv, [Next]_vars, ~(Client /\ HandleResult)
    PROVE  /\ server_port = "session" => server_port' = "session"
           /\ is_waiting_for_reply' => is_waiting_for_reply
           /\ \A k \in DOMAIN sent : sent'[k].port = sent[k].port
<1>0. PostmanInv /\ \A k \in DOMAIN sent : sent[k] \in Sent
  BY SentElement DEF IInv, TypeOK, PostmanInv
<1>1. ASSUME NEW again, NEW gone, NEW fate, sent' = Recopied(again, gone, fate)
      PROVE  \A k \in DOMAIN sent : sent'[k].port = sent[k].port
  BY <1>0, <1>1 DEF Recopied, Sent
<1>2. CASE PollSigint \/ PollInterrupted \/ ReadEof
  BY <1>2 DEF PollSigint, PollInterrupted, ReadEof, UnlockStdin
<1>3. CASE PollGivesUp \/ PollReturnGivesUp
  <2>1. GiveUp
    BY <1>3 DEF PollGivesUp, PollReturnGivesUp
  <2>2. PICK k \in Exhausted : sent' = Recopied({j \in Expired : j < k}, {k}, "failed")
    BY <2>1 DEF GiveUp
  <2> QED
    BY <1>1, <2>1, <2>2 DEF GiveUp
<1>4. CASE PollBegins \/ PollReturns
  <2>1. CheckWaiters
    BY <1>4 DEF PollBegins, PollReturns
  <2> QED
    BY <1>1, <2>1 DEF CheckWaiters
<1>5. CASE ReadEmptyLine \/ SkipStdin \/ SkipSocket \/ SendFails(InFlight) \/ Exit
           \/ \E d \in InFlight : ReadTruncated(d)
  BY <1>5 DEF ReadEmptyLine, SkipStdin, SkipSocket, SendFails, Exit, ReadTruncated, postman_vars
<1>6. CASE \E cmd \in Command : ReadLine(cmd)
  BY <1>6 DEF ReadLine, HandleUserCommand
<1>7. ASSUME NEW d \in InFlight, ReadSocket(d)
      PROVE  /\ server_port = "session" => server_port' = "session"
             /\ is_waiting_for_reply' => is_waiting_for_reply
             /\ \A k \in DOMAIN sent : sent'[k].port = sent[k].port
  <2>1. PICK m \in Receivable(d) : HandleServerMessage(m)
    BY <1>7 DEF ReadSocket
  <2> QED
    BY <1>1, <2>1 DEF HandleServerMessage, Receive, PortAfter
<1>8. CASE ~Client
  <2>1. UNCHANGED <<server_port, is_waiting_for_reply, sent>>
    BY <1>8 DEF Next, Environment, ServerReceives, ServerReplies, ServerSpeaks, ServerSends,
       Sigint, CloseStdin, Clock, Tick, Elapse, Terminated, vars, client_vars, postman_vars
  <2> QED
    BY <2>1
<1> QED
  BY <1>2, <1>3, <1>4, <1>5, <1>6, <1>7, <1>8 DEF Client, ClientStep

(* A REPLY received in S_AUTH answers an AUTH, and sets the port. *)
LEMMA ReplySetsPort ==
    ASSUME EntryInv, NEW d \in InFlight, NEW m \in Receivable(d), HandleServerMessage(m),
           state = "S_AUTH", m.type = "REPLY"
    PROVE  server_port' = "session"
<1>1. AnswersLastSent(m)
  <2>1. d \in Datagram
    BY InFlightTyped DEF EntryInv, SessionInv, AnswerInv, OrderInv
  <2>2. PICK x \in DataToMessage(d) : m = Checked(x)
    BY DEF Receivable
  <2> QED
    BY <2>1, <2>2 DEF Checked, DataToMessage, Datagram
<1>2. last_sent_message.type = "AUTH"
  <2>1. sent # <<>> /\ Len(sent) \in Nat /\ DOMAIN sent = 1 .. Len(sent)
    BY DEF EntryInv, LoggedIn, SessionInv, AnswerInv, OrderInv, IInv, TypeOK, PostmanTypeOK
  <2>2. Len(sent) \in DOMAIN sent
    BY <2>1 DEF EntryInv, SessionInv, AnswerInv, OrderInv, IInv, TypeOK, PostmanTypeOK
  <2> QED
    BY <2>1, <2>2 DEF EntryInv, SessionInv, AnswerInv, LastSent, OnlyLogins
<1> QED
  BY <1>1, <1>2 DEF HandleServerMessage, Receive, PortAfter

(* The results pending after a poll. *)
LEMMA QuietPending ==
    ASSUME EntryInv, [Next]_vars, ~(Client /\ HandleResult)
    PROVE  PortLearnt'
<1>0. /\ IInv /\ CycleShape /\ results \in Seq(PollResult)
      /\ state' = state /\ (server_port = "session" => server_port' = "session")
  BY StateKept, QuietPort
     DEF EntryInv, SessionInv, AnswerInv, OrderInv, IInv, TypeOK, ClientTypeOK
<1>1. state' = "S_OPEN" => server_port' = "session"
  BY <1>0 DEF EntryInv, PortLearnt
<1>2. CASE ~Client
  BY <1>0, <1>1, <1>2, WorldKeepsMachine, WorldKeepsMethod DEF EntryInv, PortLearnt
<1>3. CASE PollSigint \/ PollGivesUp \/ PollInterrupted \/ PollReturnGivesUp \/ ReadEof
  <2>1. \A i \in DOMAIN results' : results'[i].source = "USER"
    BY <1>3 DEF PollSigint, PollGivesUp, PollInterrupted, PollReturnGivesUp, ReadEof,
       ReturnEarly, UserResult
  <2> QED
    BY <1>1, <2>1 DEF PortLearnt
<1>4. CASE PollBegins \/ PollReturns \/ ReadEmptyLine \/ SkipStdin \/ SendFails(InFlight) \/ Exit
           \/ (\E d \in InFlight : ReadTruncated(d)) \/ \E cmd \in Command : ReadLine(cmd)
  <2>1. pc' # "handle"
    BY <1>4 DEF PollBegins, PollReturns, ReadEmptyLine, SkipStdin, SendFails, Exit,
       ReadTruncated, ReadLine
  <2> QED
    BY <1>1, <2>1 DEF PortLearnt
<1>5. CASE SkipSocket
  <2>1. results' = results /\ pc = "socket"
    BY <1>5 DEF SkipSocket
  <2>2. \A i \in DOMAIN results : results[i].source = "USER"
    BY <1>0, <2>1 DEF CycleShape, FromUser
  <2> QED
    BY <1>1, <2>1, <2>2 DEF PortLearnt
<1>6. ASSUME NEW d \in InFlight, ReadSocket(d) PROVE PortLearnt'
  <2>1. PICK m \in Receivable(d) :
           HandleServerMessage(m) /\ results' = results \o ServerResults(m)
    BY <1>6 DEF ReadSocket
  <2>2. running' = running /\ pc = "socket" /\ state = running
    BY <1>6 DEF ReadSocket, automata_vars, EntryInv, SessionInv, Placed
  <2>3. running = "S_AUTH" /\ m.type = "REPLY" => server_port' = "session"
    BY <2>1, <2>2, ReplySetsPort
  <2>4. \A i \in DOMAIN results' :
           results'[i].source = "USER" \/ results'[i].type = m.type
    <3>1. m \in Parsed /\ ServerResults(m) \in Seq(PollResult)
      BY <1>0, InFlightTyped, ReceivableParsed, ServerResultsType
    <3>2. \A i \in DOMAIN results : results[i].source = "USER"
      BY <1>0, <2>2 DEF CycleShape, FromUser
    <3>3. \A i \in DOMAIN ServerResults(m) : ServerResults(m)[i].type = m.type
      BY DEF ServerResults, ServerResult
    <3> QED
      BY <1>0, <2>1, <3>1, <3>2, <3>3, PendingAfter
  <2> QED
    BY <1>1, <2>2, <2>3, <2>4 DEF PortLearnt
<1> QED
  BY <1>2, <1>3, <1>4, <1>5, <1>6 DEF Client, ClientStep

(* What the handling of a result does to the postman: nothing, or a message
   is sent to the port in use. *)
LEMMA HandleSends ==
    ASSUME SessionInv, HandleResult
    PROVE  LET r == React(running, results[1], state) IN
           \/ r.call = "none" /\ UNCHANGED postman_vars
           \/ \E type \in ClientType :
                 /\ Send(type)
                 /\ type = "AUTH" <=> r.call = "authorize"
                 /\ type = "JOIN" <=> r.call = "join"
                 /\ type = "MSG" <=> r.call = "message"
                 /\ type = "ERR" <=> r.call = "error"
                 /\ type = "BYE" <=> r.call = "bye"
                 /\ type \notin Request => is_waiting_for_reply' = is_waiting_for_reply
<1> DEFINE r == React(running, results[1], state)
<1>1. Perform(r.call)
  BY HandleSessionLike
<1> HIDE DEF r
<1>2. \/ r.call = "none" /\ UNCHANGED postman_vars
      \/ \E type \in ClientType :
            /\ Send(type)
            /\ type = "AUTH" <=> r.call = "authorize"
            /\ type = "JOIN" <=> r.call = "join"
            /\ type = "MSG" <=> r.call = "message"
            /\ type = "ERR" <=> r.call = "error"
            /\ type = "BYE" <=> r.call = "bye"
            /\ type \notin Request => is_waiting_for_reply' = is_waiting_for_reply
  BY <1>1 DEF Perform, Authorize, Join, Message, Error, Bye, ClientType, Request
<1> QED
  BY <1>2 DEF r

(* A second result is left when the first was handled, and it is what it
   was. *)
LEMMA SecondLeft ==
    ASSUME SessionInv, HandleResult
    PROVE  \A i \in DOMAIN results' : \E j \in DOMAIN results : results'[i] = results[j]
<1>1. results \in Seq(PollResult) /\ results # <<>> /\ results' = Tail(results)
  BY DEF SessionInv, AnswerInv, OrderInv, IInv, TypeOK, ClientTypeOK, HandleResult
<1> DEFINE t == Tail(results)
<1>2. /\ t \in Seq(PollResult) /\ Len(t) = Len(results) - 1
      /\ \A i \in 1 .. Len(t) : t[i] = results[i + 1]
  BY <1>1, HeadTailProperties
<1> HIDE DEF t
<1>3. \A i \in DOMAIN t : \E j \in DOMAIN results : t[i] = results[j]
  <2> SUFFICES ASSUME NEW i \in DOMAIN t PROVE \E j \in DOMAIN results : t[i] = results[j]
    OBVIOUS
  <2>1. i + 1 \in DOMAIN results /\ t[i] = results[i + 1]
    BY <1>1, <1>2
  <2> QED
    BY <2>1
<1> QED
  BY <1>1, <1>3 DEF t

(* Handling a result keeps port and lock in order: a request locks stdin
   and is the last message, and what else is sent in S_OPEN is the user's,
   who was not waiting. *)
LEMMA HandleEntry ==
    ASSUME EntryInv, HandleResult
    PROVE  LoggedIn' /\ PortLearnt' /\ DataGoesToSession' /\ LockHasKey'
<1> DEFINE res == results[1]
           r == React(running, res, state)
<1>1. /\ SessionLike(r, res, state) /\ state' = r.next /\ running' = running
      /\ pc = "handle" /\ running \in State \ {"S_END"}
  BY HandleSessionLike DEF EntryInv
<1>2. \/ r.call = "none" /\ UNCHANGED postman_vars
      \/ \E type \in ClientType :
            /\ Send(type)
            /\ type = "AUTH" <=> r.call = "authorize"
            /\ type = "JOIN" <=> r.call = "join"
            /\ type = "MSG" <=> r.call = "message"
            /\ type = "ERR" <=> r.call = "error"
            /\ type = "BYE" <=> r.call = "bye"
            /\ type \notin Request => is_waiting_for_reply' = is_waiting_for_reply
  BY HandleSends DEF EntryInv
<1>3. /\ IInv /\ 1 \in DOMAIN results
      /\ state = running \/ (running = "S_START" /\ state = "S_AUTH")
  <2>1. results \in Seq(PollResult) /\ results # <<>>
    BY <1>1 DEF EntryInv, SessionInv, AnswerInv, OrderInv, IInv, TypeOK, ClientTypeOK
  <2> QED
    BY <1>1, <2>1 DEF EntryInv, SessionInv, AnswerInv, OrderInv, Placed
<1>4. server_port' = server_port
  BY <1>2 DEF Send, postman_vars
<1>5. state # "S_OPEN" /\ r.next = "S_OPEN" => server_port = "session"
  BY <1>1, <1>3, ReactOpens DEF EntryInv, PortLearnt
<1>6. FromUser(res) => ~is_waiting_for_reply
  <2>1. results # <<>>
    BY <1>1 DEF EntryInv, SessionInv, AnswerInv, OrderInv, IInv, TypeOK, ClientTypeOK
  <2> QED
    BY <1>1, <2>1 DEF EntryInv, SessionInv, AnswerInv, OrderInv, UserClear
<1> HIDE DEF r, res
<1>7. PortLearnt'
  <2>1. state' = "S_OPEN" => server_port' = "session"
    BY <1>1, <1>4, <1>5 DEF EntryInv, PortLearnt
  <2>2. \A i \in DOMAIN results' : \E j \in DOMAIN results : results'[i] = results[j]
    BY SecondLeft DEF EntryInv
  <2> QED
    BY <1>1, <1>4, <2>1, <2>2 DEF EntryInv, PortLearnt
<1>8. CASE r.call = "none" /\ UNCHANGED postman_vars
  <2>2. sent' = sent /\ last_sent_message' = last_sent_message
        /\ is_waiting_for_reply' = is_waiting_for_reply
    BY <1>8 DEF postman_vars
  <2>3. state' = "S_AUTH" => state = "S_AUTH"
    BY <1>1, <1>8 DEF SessionLike, Logs, Talks, Idles, Enters, Complains, Breaks, Leaves,
       Dismissed, Abandons
  <2>4. state' \in {"S_START", "S_AUTH", "S_OPEN"} => state \in {"S_START", "S_AUTH", "S_OPEN"}
    BY <1>1, <1>8 DEF SessionLike, Logs, Talks, Idles, Enters, Complains, Breaks, Leaves,
       Dismissed, Abandons
  <2> QED
    BY <1>7, <2>2, <2>3, <2>4 DEF EntryInv, LoggedIn, DataGoesToSession, LockHasKey
<1>9. ASSUME NEW type \in ClientType, Send(type),
             type = "AUTH" <=> r.call = "authorize",
             type = "JOIN" <=> r.call = "join",
             type = "MSG" <=> r.call = "message",
             type = "ERR" <=> r.call = "error",
             type = "BYE" <=> r.call = "bye",
             type \notin Request => is_waiting_for_reply' = is_waiting_for_reply
      PROVE  LoggedIn' /\ DataGoesToSession' /\ LockHasKey'
  <2> DEFINE n == Len(sent) + 1
  <2>1. /\ Len(sent) \in Nat /\ DOMAIN sent = 1 .. Len(sent) /\ Len(sent') = n
        /\ DOMAIN sent' = DOMAIN sent \cup {n}
        /\ \A k \in DOMAIN sent : sent'[k] = sent[k]
        /\ sent'[n].type = type
        /\ last_sent_message' = [type |-> type, id |-> msg_id]
    BY <1>3, <1>9, SendSays
  <2>2. sent'[n].port = server_port
    BY <1>3, <1>9 DEF Send, IInv, TypeOK, PostmanTypeOK
  <2>3. LoggedIn'
    BY <2>1 DEF LoggedIn
  <2>4. r.call \in {"join", "message"} => server_port = "session"
    BY <1>1 DEF SessionLike, Logs, Talks, Idles, Enters, Complains, Breaks, Leaves, Dismissed,
       Abandons, EntryInv, PortLearnt
  <2>5. DataGoesToSession'
    BY <1>9, <2>1, <2>2, <2>4 DEF EntryInv, DataGoesToSession
  <2>6. state' \in {"S_START", "S_AUTH", "S_OPEN"} /\ type \notin Request => ~is_waiting_for_reply'
    BY <1>1, <1>6, <1>9 DEF SessionLike, Logs, Talks, Idles, Enters, Complains, Breaks, Leaves,
       Dismissed, Abandons, Request, ClientType
  <2>7. LockHasKey'
    BY <2>1, <2>6 DEF LockHasKey
  <2> QED
    BY <2>3, <2>5, <2>7
<1> QED
  BY <1>2, <1>7, <1>8, <1>9

(* Every step keeps the invariant. *)
LEMMA NextEntry == EntryInv /\ [Next]_vars => EntryInv'
<1> SUFFICES ASSUME EntryInv, [Next]_vars PROVE EntryInv'
  OBVIOUS
<1>1. SessionInv'
  BY NextSession DEF EntryInv
<1>2. CASE Client /\ HandleResult
  BY <1>1, <1>2, HandleEntry DEF EntryInv
<1>3. CASE ~(Client /\ HandleResult)
  <2>1. IInv /\ sent \in Seq(Sent)
    BY DEF EntryInv, SessionInv, AnswerInv, OrderInv, IInv, TypeOK, PostmanTypeOK
  <2>2. NothingSaid /\ state' = state
    BY <1>3, <2>1, OnlyResultsSpeak, StateKept
  <2>3. LoggedIn'
    <3>1. sent # <<>> => Len(sent) # 0
      BY <2>1
    <3>2. sent' = <<>> => Len(sent') = 0
      OBVIOUS
    <3> QED
      BY <2>2, <3>1, <3>2 DEF EntryInv, LoggedIn, NothingSaid
  <2>4. DataGoesToSession' /\ LockHasKey'
    BY <1>3, <2>1, <2>2, QuietPort DEF EntryInv, DataGoesToSession, LockHasKey, NothingSaid
  <2> QED
    BY <1>1, <1>3, <2>3, <2>4, QuietPending DEF EntryInv
<1> QED
  BY <1>2, <1>3

(* It holds at the start, when nothing has been sent and stdin is open. *)
LEMMA InitEntry == Init => EntryInv
<1> SUFFICES ASSUME Init PROVE EntryInv
  OBVIOUS
<1>1. /\ state = "S_START" /\ pc = "top" /\ DOMAIN sent = {} /\ ~is_waiting_for_reply
  BY DEF Init, ClientInit, PostmanInit
<1> QED
  BY <1>1, InitSession DEF EntryInv, LoggedIn, PortLearnt, DataGoesToSession, LockHasKey

(* The invariant holds in every reachable state. *)
THEOREM EntryInvariance == Spec => []EntryInv
BY InitEntry, NextEntry, PTL DEF Spec

(* What is said in the session goes to the port the session lives on, also
   if that port was learnt from a REPLY that reaches nobody. *)
THEOREM DataToSession == Spec => []DataGoesToSession
BY EntryInvariance, PTL DEF EntryInv

(* As long as the session is sound, stdin is locked only for a REPLY that
   may still come and unlock it. *)
THEOREM LockOpens == Spec => []LockHasKey
BY EntryInvariance, PTL DEF EntryInv

-----------------------------------------------------------------------------
(* The end of a session. *)

(* A pending result of the server was heard, and the ERR of the user stands
   for a message that was given up. *)
PendingKnown ==
    pc = "handle" => \A i \in DOMAIN results :
        /\ results[i].source = "SERVER" => Heard(results[i].type)
        /\ NotConfirmedResult(results[i]) => Failed

(* What went wrong is noted, or will be. *)
FailureNoted ==
    Failed => \/ ret_code = "EXIT_FAILURE" \/ pc = "aborted"
              \/ pc = "handle" /\ NotConfirmedResult(results[1])

ComplaintNoted == Complained => ret_code = "EXIT_FAILURE" \/ state = "S_ERROR"

ErrorHeardNoted ==
    Heard("ERR") => \/ ret_code = "EXIT_FAILURE" \/ state = "S_ERROR" \/ pc = "aborted"
                    \/ pc = "handle" /\ \E i \in DOMAIN results : ServerError(results[i])

(* And nothing is noted without a reason. *)
CodeHasReason ==
    ret_code = "EXIT_FAILURE" => Failed \/ Complained \/ Heard("ERR")

ErrorHasReason == state = "S_ERROR" => Complained \/ Heard("ERR")

SaidBye == sent # <<>> /\ sent[Len(sent)].type = "BYE"

EndHasReason ==
    /\ state = "S_END" => SaidBye \/ Heard("BYE") \/ Failed
    /\ pc = "exited" => state = "S_END"

EndInv ==
    /\ SessionInv
    /\ PendingKnown /\ FailureNoted /\ ComplaintNoted /\ ErrorHeardNoted
    /\ CodeHasReason /\ ErrorHasReason /\ EndHasReason

-----------------------------------------------------------------------------
(* What has failed stays failed; only giving up makes a message fail. *)
LEMMA FatesKept ==
    ASSUME IInv, [Next]_vars, ~(Client /\ HandleResult)
    PROVE  /\ Failed => Failed'
           /\ Failed' => Failed \/ PollGivesUp \/ PollReturnGivesUp
           /\ Complained' <=> Complained
<1>0. PostmanInv /\ \A k \in DOMAIN sent : sent[k] \in Sent
  BY SentElement DEF IInv, TypeOK, PostmanInv
<1>1. Complained' <=> Complained
  BY OnlyResultsSpeak DEF NothingSaid, Complained
<1>2. ASSUME NEW again, NEW gone, NEW fate, gone \subseteq DOMAIN confirm_waiters,
             sent' = Recopied(again, gone, fate)
      PROVE  (Failed => Failed') /\ (fate # "failed" => (Failed' => Failed))
  <2>1. \A k \in DOMAIN confirm_waiters : sent[k].fate # "failed"
    BY <1>0 DEF PostmanInv, PostmanTypeOK, RetryAccounting
  <2>2. DOMAIN sent' = DOMAIN sent
    BY <1>2 DEF Recopied
  <2>3. ASSUME NEW k \in DOMAIN sent
        PROVE  /\ sent[k].fate = "failed" => sent'[k].fate = "failed"
               /\ fate # "failed" => (sent'[k].fate = "failed" => sent[k].fate = "failed")
    BY <1>0, <1>2, <2>1 DEF Recopied, Sent
  <2> QED
    BY <2>2, <2>3 DEF Failed
<1>3. CASE sent' = sent
  BY <1>1, <1>3 DEF Failed
<1>4. CASE PollSigint \/ PollInterrupted \/ ReadEof
  BY <1>3, <1>4 DEF PollSigint, PollInterrupted, ReadEof, UnlockStdin
<1>5. CASE PollGivesUp \/ PollReturnGivesUp
  <2>1. GiveUp
    BY <1>5 DEF PollGivesUp, PollReturnGivesUp
  <2>2. PICK k \in Exhausted : sent' = Recopied({j \in Expired : j < k}, {k}, "failed")
    BY <2>1 DEF GiveUp
  <2>3. {k} \subseteq DOMAIN confirm_waiters
    BY <2>2 DEF Exhausted, Expired
  <2> DEFINE before == {j \in Expired : j < k}
  <2>4. sent' = Recopied(before, {k}, "failed")
    BY <2>2
  <2> HIDE DEF before
  <2>5. Failed => Failed'
    BY <1>2, <2>3, <2>4
  <2> QED
    BY <1>1, <1>5, <2>5
<1>6. CASE PollBegins \/ PollReturns
  <2>1. sent' = Recopied(Expired, {}, "waiting")
    BY <1>6 DEF PollBegins, PollReturns, CheckWaiters
  <2> QED
    BY <1>1, <1>2, <2>1
<1>7. CASE ReadEmptyLine \/ SkipStdin \/ SkipSocket \/ SendFails(InFlight) \/ Exit
           \/ \E d \in InFlight : ReadTruncated(d)
  BY <1>3, <1>7 DEF ReadEmptyLine, SkipStdin, SkipSocket, SendFails, Exit, ReadTruncated, postman_vars
<1>8. CASE \E cmd \in Command : ReadLine(cmd)
  BY <1>3, <1>8 DEF ReadLine, HandleUserCommand
<1>9. ASSUME NEW d \in InFlight, ReadSocket(d) PROVE (Failed => Failed') /\ (Failed' => Failed)
  <2>1. PICK m \in Receivable(d) : sent' = Recopied({}, ConfirmedBy(m), "confirmed")
    BY <1>9 DEF ReadSocket, HandleServerMessage, Receive
  <2>2. ConfirmedBy(m) \subseteq DOMAIN confirm_waiters
    BY DEF ConfirmedBy
  <2> QED
    BY <1>2, <2>1, <2>2
<1>10. CASE ~Client
  <2>1. sent' = sent
    BY <1>10 DEF Next, Environment, ServerReceives, ServerReplies, ServerSpeaks, ServerSends,
       Sigint, CloseStdin, Clock, Tick, Elapse, Terminated, vars, client_vars, postman_vars
  <2> QED
    BY <1>3, <2>1
<1> QED
  BY <1>1, <1>4, <1>5, <1>6, <1>7, <1>8, <1>9, <1>10 DEF Client, ClientStep

(* Giving up leaves a message that failed. *)
LEMMA GivingUpFails ==
    ASSUME IInv, GiveUp PROVE Failed'
<1>0. PostmanInv /\ \A k \in DOMAIN sent : sent[k] \in Sent
  BY SentElement DEF IInv, TypeOK, PostmanInv
<1>1. PICK k \in Exhausted : sent' = Recopied({j \in Expired : j < k}, {k}, "failed")
  BY DEF GiveUp
<1>2. k \in DOMAIN sent
  BY <1>0 DEF Exhausted, Expired, PostmanInv, PostmanTypeOK
<1>3. k \notin {j \in Expired : j < k}
  <2>1. k \in Nat
    BY <1>0, <1>2 DEF PostmanInv, PostmanTypeOK
  <2> QED
    BY <2>1
<1>4. DOMAIN sent' = DOMAIN sent /\ sent'[k].fate = "failed"
  BY <1>0, <1>1, <1>2, <1>3 DEF Recopied, Sent
<1> QED
  BY <1>2, <1>4 DEF Failed

(* The inbox only grows, by what the socket forwards. *)
LEMMA HeardGrows ==
    ASSUME IInv, [Next]_vars
    PROVE  /\ \A t : Heard(t) => Heard(t)'
           /\ inbox' = inbox \/ \E d \in InFlight : ReadSocket(d)
<1>1. inbox \in Seq(Delivery)
  BY DEF IInv, TypeOK, ClientTypeOK
<1>2. inbox' = inbox \/ \E d \in InFlight : ReadSocket(d)
  <2>1. CASE Client
    BY <2>1 DEF Client, ClientStep, PollSigint, PollGivesUp, PollBegins, PollInterrupted,
       PollReturns, PollReturnGivesUp, ReadEof, ReadEmptyLine, SkipStdin, ReadLine,
       ReadTruncated, SkipSocket, HandleResult, SendFails, Exit, EnterMethod
  <2>2. CASE ~Client
    BY <2>2 DEF Next, Environment, ServerReceives, ServerReplies, ServerSpeaks, ServerSends,
       Sigint, CloseStdin, Clock, Tick, Terminated, vars, client_vars
  <2> QED
    BY <2>1, <2>2
<1>3. CASE inbox' = inbox
  BY <1>2, <1>3 DEF Heard
<1>4. ASSUME NEW d \in InFlight, ReadSocket(d) PROVE \A t : Heard(t) => Heard(t)'
  <2>1. inbox' = inbox \/ \E x : inbox' = Append(inbox, x)
    BY <1>4 DEF ReadSocket
  <2>2. ASSUME NEW x, inbox' = Append(inbox, x)
        PROVE  \A i \in DOMAIN inbox : i \in DOMAIN inbox' /\ inbox'[i] = inbox[i]
    BY <1>1, <2>2
  <2> QED
    BY <1>3, <2>1, <2>2 DEF Heard
<1> QED
  BY <1>2, <1>3, <1>4

-----------------------------------------------------------------------------
(* The steps that handle no result. *)

(* Only the head of s_error touches the exit code. *)
LEMMA QuietCode ==
    ASSUME [Next]_vars, ~(Client /\ HandleResult)
    PROVE  /\ ret_code = "EXIT_FAILURE" => ret_code' = "EXIT_FAILURE"
           /\ ret_code' = ret_code \/ state = "S_ERROR"
           /\ pc' = "exited" => pc = "exited" \/ state = "S_END"
<1>1. CASE Client
  BY <1>1 DEF Client, ClientStep, PollSigint, PollGivesUp, PollBegins, PollInterrupted,
     PollReturns, PollReturnGivesUp, ReadEof, ReadEmptyLine, SkipStdin, ReadLine, ReadSocket,
     ReadTruncated, SkipSocket, SendFails, Exit, EnterMethod, EntryCode, ReturnEarly, AfterPoll,
     automata_vars
<1>2. CASE ~Client
  BY <1>2, WorldKeepsMachine, WorldKeepsMethod
<1> QED
  BY <1>1, <1>2

(* What was said stays the last thing said. *)
LEMMA ByeStaysSaid ==
    ASSUME IInv, NothingSaid, SaidBye PROVE SaidBye'
<1>1. sent \in Seq(Sent) /\ sent # <<>>
  BY DEF IInv, TypeOK, PostmanTypeOK, SaidBye
<1>2. Len(sent) # 0 /\ Len(sent) \in DOMAIN sent
  BY <1>1
<1>3. sent' = <<>> => Len(sent') = 0
  OBVIOUS
<1> QED
  BY <1>2, <1>3 DEF SaidBye, NothingSaid

(* The reasons found before are kept. *)
LEMMA QuietReasons ==
    ASSUME EndInv, [Next]_vars, ~(Client /\ HandleResult)
    PROVE  ComplaintNoted' /\ CodeHasReason' /\ ErrorHasReason' /\ EndHasReason'
<1>1. IInv
  BY DEF EndInv, SessionInv, AnswerInv, OrderInv
<1>2. /\ state' = state /\ NothingSaid
      /\ Failed => Failed'
      /\ Complained' <=> Complained
      /\ \A t : Heard(t) => Heard(t)'
  BY <1>1, StateKept, OnlyResultsSpeak, FatesKept, HeardGrows
<1>3. ComplaintNoted' /\ CodeHasReason' /\ ErrorHasReason'
  BY <1>2, QuietCode DEF EndInv, ComplaintNoted, CodeHasReason, ErrorHasReason
<1>4. SaidBye => SaidBye'
  BY <1>1, <1>2, ByeStaysSaid
<1>5. EndHasReason'
  BY <1>2, <1>4, QuietCode DEF EndInv, EndHasReason
<1> QED
  BY <1>3, <1>5

(* What goes wrong is noted as it happens, or is pending. *)
Noted == PendingKnown /\ FailureNoted /\ ErrorHeardNoted

(* Steps of the world. *)
LEMMA WorldNotes ==
    ASSUME EndInv, [Next]_vars, ~Client PROVE Noted'
<1>1. IInv
  BY DEF EndInv, SessionInv, AnswerInv, OrderInv
<1>2. UNCHANGED <<state, pc, results, running, ret_code>>
  BY WorldKeepsMachine, WorldKeepsMethod
<1>3. inbox' = inbox
  <2>1. \A d \in InFlight : ReadSocket(d) => pc = "socket" /\ pc' \in {"top", "handle"}
    BY DEF ReadSocket, AfterPoll
  <2> QED
    BY <1>1, <1>2, <2>1, HeardGrows
<1>4. Failed' <=> Failed
  <2>1. ~PollGivesUp /\ ~PollReturnGivesUp
    BY <1>2 DEF PollGivesUp, PollReturnGivesUp, ReturnEarly, EnterMethod
  <2> QED
    BY <1>1, <2>1, FatesKept
<1> QED
  BY <1>2, <1>3, <1>4 DEF EndInv, Noted, PendingKnown, FailureNoted, ErrorHeardNoted, Heard

(* poll_for_messages returns early. *)
LEMMA EarlyNotes ==
    ASSUME EndInv, [Next]_vars, ~HandleResult,
           PollSigint \/ PollGivesUp \/ PollInterrupted \/ PollReturnGivesUp \/ ReadEof
    PROVE  Noted'
<1>1. IInv
  BY DEF EndInv, SessionInv, AnswerInv, OrderInv
<1>2. /\ pc \in {"top", "poll", "stdin"} /\ pc' = "handle" /\ inbox' = inbox
      /\ ReturnEarly("BYE") \/ (ReturnEarly("ERR") /\ GiveUp)
  BY DEF PollSigint, PollGivesUp, PollInterrupted, PollReturnGivesUp, ReadEof, EnterMethod,
     ReturnEarly
<1>3. /\ state' = state
      /\ Failed' => Failed \/ PollGivesUp \/ PollReturnGivesUp
      /\ ret_code = "EXIT_FAILURE" => ret_code' = "EXIT_FAILURE"
  BY <1>1, StateKept, FatesKept, QuietCode
<1>4. ReturnEarly("ERR") => Failed'
  <2>1. ReturnEarly("BYE") => ~ReturnEarly("ERR")
    <3>1. <<UserResult("BYE")>>[1] # <<UserResult("ERR")>>[1]
      BY DEF UserResult
    <3> QED
      BY <3>1 DEF ReturnEarly
  <2> QED
    BY <1>1, <1>2, <2>1, GivingUpFails
<1>5. PollGivesUp \/ PollReturnGivesUp => NotConfirmedResult(results'[1])
  BY DEF PollGivesUp, PollReturnGivesUp, ReturnEarly, UserResult, NotConfirmedResult
<1>6. \A i \in DOMAIN results' :
         /\ results'[i].source = "USER"
         /\ results'[i].type = "ERR" => ReturnEarly("ERR")
  BY <1>2 DEF ReturnEarly, UserResult
<1>7. PendingKnown'
  BY <1>4, <1>6 DEF PendingKnown, NotConfirmedResult
<1>8. FailureNoted'
  BY <1>2, <1>3, <1>5 DEF EndInv, FailureNoted, NotConfirmedResult
<1>9. ErrorHeardNoted'
  BY <1>2, <1>3 DEF EndInv, ErrorHeardNoted, Heard
<1> QED
  BY <1>7, <1>8, <1>9 DEF Noted

(* Steps within a poll, or that end the process. *)
LEMMA CycleNotes ==
    ASSUME EndInv, [Next]_vars, ~HandleResult,
           \/ PollBegins \/ PollReturns \/ ReadEmptyLine \/ SkipStdin \/ SkipSocket
           \/ SendFails(InFlight) \/ Exit
           \/ (\E d \in InFlight : ReadTruncated(d)) \/ \E cmd \in Command : ReadLine(cmd)
    PROVE  Noted'
<1>1. IInv /\ CycleShape /\ results \in Seq(PollResult)
  BY DEF EndInv, SessionInv, AnswerInv, OrderInv, IInv, TypeOK, ClientTypeOK
<1>2. /\ inbox' = inbox /\ pc # "aborted"
      /\ pc # "handle" \/ pc' = "aborted"
      /\ pc' # "handle" \/ (pc = "socket" /\ results' = results)
  BY DEF PollBegins, PollReturns, ReadEmptyLine, SkipStdin, SkipSocket, SendFails, Exit,
     ReadTruncated, ReadLine, EnterMethod
<1>3. /\ state' = state
      /\ Failed' => Failed
      /\ ret_code = "EXIT_FAILURE" => ret_code' = "EXIT_FAILURE"
  <2>1. pc' = "handle" => pc = "socket"
    BY <1>2
  <2>2. ~PollGivesUp /\ ~PollReturnGivesUp
    BY <2>1 DEF PollGivesUp, PollReturnGivesUp, ReturnEarly, EnterMethod
  <2> QED
    BY <1>1, <2>2, StateKept, FatesKept, QuietCode
<1>4. PendingKnown'
  <2>1. pc = "socket" => \A i \in DOMAIN results : FromUser(results[i])
    BY <1>1 DEF CycleShape
  <2> QED
    BY <1>2, <2>1 DEF PendingKnown, FromUser, UserType, NotConfirmedResult
<1>5. FailureNoted'
  BY <1>2, <1>3 DEF EndInv, FailureNoted
<1>6. ErrorHeardNoted'
  BY <1>2, <1>3 DEF EndInv, ErrorHeardNoted, Heard
<1> QED
  BY <1>4, <1>5, <1>6 DEF Noted

(* The socket: an ERR that is heard is pending, and so is all that is
   pending of the server heard. *)
LEMMA SocketNotes ==
    ASSUME EndInv, [Next]_vars, ~HandleResult, NEW d \in InFlight, ReadSocket(d)
    PROVE  Noted'
<1>1. /\ IInv /\ CycleShape /\ results \in Seq(PollResult) /\ inbox \in Seq(Delivery)
      /\ pc = "socket"
  BY DEF EndInv, SessionInv, AnswerInv, OrderInv, IInv, TypeOK, ClientTypeOK, ReadSocket
<1>2. /\ state' = state
      /\ ret_code = "EXIT_FAILURE" => ret_code' = "EXIT_FAILURE"
      /\ \A t : Heard(t) => Heard(t)'
      /\ Failed' => Failed
  <2>1. ~PollGivesUp /\ ~PollReturnGivesUp
    BY <1>1 DEF PollGivesUp, PollReturnGivesUp, EnterMethod
  <2> QED
    BY <1>1, <2>1, StateKept, FatesKept, QuietCode, HeardGrows
<1>3. PICK m \in Receivable(d) :
         /\ results' = results \o ServerResults(m)
         /\ inbox' = (IF Forwards(m)
                      THEN Append(inbox, [id |-> m.id, type |-> m.type, at |-> running])
                      ELSE inbox)
         /\ pc' = AfterPoll(results \o ServerResults(m))
  BY DEF ReadSocket
<1>4. m \in Parsed /\ ServerResults(m) \in Seq(PollResult)
  BY <1>1, InFlightTyped, ReceivableParsed, ServerResultsType
<1>5. \A i \in DOMAIN results : FromUser(results[i])
  BY <1>1 DEF CycleShape
<1>6. CASE ~Forwards(m)
  <2>1. results' = results /\ inbox' = inbox
    <3>1. ServerResults(m) = <<>>
      BY <1>6 DEF ServerResults
    <3> QED
      BY <1>1, <1>3, <1>6, <3>1
  <2>2. PendingKnown'
    BY <1>5, <2>1 DEF PendingKnown, FromUser, UserType, NotConfirmedResult
  <2>3. FailureNoted' /\ ErrorHeardNoted'
    BY <1>1, <1>2, <2>1 DEF EndInv, FailureNoted, ErrorHeardNoted, Heard
  <2> QED
    BY <2>2, <2>3 DEF Noted
<1>7. CASE Forwards(m)
  <2> DEFINE new == ServerResult(m.type, m.result)
  <2>1. ServerResults(m) = <<new>> /\ new.source = "SERVER" /\ new.type = m.type
    BY <1>7 DEF ServerResults, ServerResult
  <2> HIDE DEF new
  <2>2. DOMAIN ServerResults(m) = {1} /\ ServerResults(m)[1] = new /\ Len(ServerResults(m)) = 1
    BY <2>1
  <2> DEFINE all == results \o ServerResults(m)
  <2>3. /\ all \in Seq(PollResult) /\ Len(all) = Len(results) + 1
        /\ all[Len(results) + 1] = new
    BY <1>1, <1>4, <2>2, PlusOne
  <2>4. \A i \in DOMAIN all : all[i] = new \/ FromUser(all[i])
    BY <1>1, <1>4, <1>5, <2>2, PendingAfter
  <2> HIDE DEF all
  <2>5. results' = all /\ pc' = AfterPoll(all)
    BY <1>3 DEF all
  <2>6. Len(results) + 1 \in DOMAIN all /\ pc' = "handle"
    <3>1. Len(results) \in Nat /\ Len(all) # 0
      BY <1>1, <2>3
    <3>2. all = <<>> => Len(all) = 0
      OBVIOUS
    <3> QED
      BY <2>3, <2>5, <3>1, <3>2 DEF AfterPoll
  <2> DEFINE entry == [id |-> m.id, type |-> m.type, at |-> running]
  <2>7. inbox' = Append(inbox, entry) /\ entry.type = m.type
    BY <1>3, <1>7
  <2> HIDE DEF entry
  <2>8. /\ DOMAIN inbox' = DOMAIN inbox \cup {Len(inbox) + 1}
        /\ inbox'[Len(inbox) + 1] = entry
        /\ \A i \in DOMAIN inbox : inbox'[i] = inbox[i]
    BY <1>1, <2>7
  <2>9. Heard(m.type)' /\ (Heard("ERR")' => Heard("ERR") \/ m.type = "ERR")
    BY <2>7, <2>8 DEF Heard
  <2>10. PendingKnown'
    BY <2>1, <2>4, <2>5, <2>9 DEF PendingKnown, FromUser, UserType, NotConfirmedResult
  <2>11. FailureNoted'
    BY <1>1, <1>2 DEF EndInv, FailureNoted
  <2>12. ErrorHeardNoted'
    <3>1. m.type = "ERR" => \E i \in DOMAIN results' : ServerError(results'[i])
      BY <2>1, <2>3, <2>5, <2>6 DEF ServerError
    <3> QED
      BY <1>1, <1>2, <2>6, <2>9, <3>1 DEF EndInv, ErrorHeardNoted, ServerError
  <2> QED
    BY <2>10, <2>11, <2>12 DEF Noted
<1> QED
  BY <1>6, <1>7

(* All of them. *)
LEMMA QuietNotes ==
    ASSUME EndInv, [Next]_vars, ~(Client /\ HandleResult) PROVE Noted'
<1>1. CASE ~Client
  BY <1>1, WorldNotes
<1>2. CASE Client
  BY <1>2, EarlyNotes, CycleNotes, SocketNotes DEF Client, ClientStep
<1> QED
  BY <1>1, <1>2

-----------------------------------------------------------------------------
(* The step that handles a result. *)

(* What it does to the history: it may add a message that waits. *)
LEMMA HandleHistory ==
    ASSUME SessionInv, HandleResult
    PROVE  LET r == React(running, results[1], state) IN
           /\ \A t : Heard(t)' <=> Heard(t)
           /\ Failed' <=> Failed
           /\ Complained' <=> Complained \/ r.call = "error"
           /\ r.call = "bye" => SaidBye'
<1> DEFINE r == React(running, results[1], state)
<1>1. IInv /\ inbox' = inbox
  BY DEF SessionInv, AnswerInv, OrderInv, HandleResult
<1>2. \/ r.call = "none" /\ UNCHANGED postman_vars
      \/ \E type \in ClientType :
            /\ Send(type)
            /\ type = "AUTH" <=> r.call = "authorize"
            /\ type = "JOIN" <=> r.call = "join"
            /\ type = "MSG" <=> r.call = "message"
            /\ type = "ERR" <=> r.call = "error"
            /\ type = "BYE" <=> r.call = "bye"
            /\ type \notin Request => is_waiting_for_reply' = is_waiting_for_reply
  BY HandleSends
<1> HIDE DEF r
<1>3. \A t : Heard(t)' <=> Heard(t)
  BY <1>1 DEF Heard
<1>4. CASE r.call = "none" /\ UNCHANGED postman_vars
  <2>1. sent' = sent
    BY <1>4 DEF postman_vars
  <2> QED
    BY <1>3, <1>4, <2>1 DEF Failed, Complained, r
<1>5. ASSUME NEW type \in ClientType, Send(type),
             type = "ERR" <=> r.call = "error", type = "BYE" <=> r.call = "bye"
      PROVE  /\ Failed' <=> Failed
             /\ Complained' <=> Complained \/ r.call = "error"
             /\ r.call = "bye" => SaidBye'
  <2> DEFINE n == Len(sent) + 1
  <2>1. /\ Len(sent) \in Nat /\ Len(sent') = n /\ DOMAIN sent' = DOMAIN sent \cup {n}
        /\ \A k \in DOMAIN sent : sent'[k] = sent[k]
        /\ sent'[n].type = type
    BY <1>1, <1>5, SendSays
  <2>2. sent'[n].fate = "waiting"
    BY <1>1, <1>5 DEF Send, IInv, TypeOK, PostmanTypeOK
  <2>3. sent' # <<>>
    <3>1. sent' = <<>> => Len(sent') = 0
      OBVIOUS
    <3> QED
      BY <2>1, <3>1
  <2> HIDE DEF n
  <2> QED
    BY <1>5, <2>1, <2>2, <2>3 DEF Failed, Complained, SaidBye
<1> QED
  BY <1>2, <1>3, <1>4, <1>5 DEF r

(* Handling a result keeps the reasons: what it notes has one, and what was
   pending is noted. *)
LEMMA HandleEnds ==
    ASSUME EndInv, HandleResult
    PROVE  /\ PendingKnown' /\ FailureNoted' /\ ComplaintNoted' /\ ErrorHeardNoted'
           /\ CodeHasReason' /\ ErrorHasReason' /\ EndHasReason'
<1> DEFINE res == results[1]
           r == React(running, res, state)
<1>1. /\ SessionLike(r, res, state) /\ state' = r.next /\ Permitted(running, res)
      /\ ret_code' = (IF r.fail THEN "EXIT_FAILURE" ELSE ret_code)
      /\ pc = "handle" /\ state # "S_END" /\ running \in State \ {"S_END"}
  BY HandleSessionLike DEF EndInv
<1>2. /\ IInv /\ CycleShape /\ results \in Seq(PollResult) /\ results # <<>>
      /\ results' = Tail(results)
      /\ pc' = (IF Tail(results) = <<>> THEN "top" ELSE "handle")
  BY DEF EndInv, SessionInv, AnswerInv, OrderInv, IInv, TypeOK, ClientTypeOK, HandleResult
<1>3. 1 \in DOMAIN results /\ res \in PollResult
  BY <1>2
<1>4. Telling(r, res, state)
  BY <1>1, <1>3, ReactTelling
<1>5. /\ \A t : Heard(t)' <=> Heard(t)
      /\ Failed' <=> Failed
      /\ Complained' <=> Complained \/ r.call = "error"
      /\ r.call = "bye" => SaidBye'
  BY HandleHistory DEF EndInv
<1>6. /\ res.source = "SERVER" => Heard(res.type)
      /\ NotConfirmedResult(res) => Failed
  BY <1>1, <1>3 DEF EndInv, PendingKnown
<1>7. state = "S_ERROR" => ret_code = "EXIT_FAILURE"
  BY <1>1 DEF EndInv, SessionInv, Placed, ErrorNoted
<1> HIDE DEF r, res
<1>8. PendingKnown'
  <2>1. \A i \in DOMAIN results' : \E j \in DOMAIN results : results'[i] = results[j]
    BY SecondLeft DEF EndInv
  <2> QED
    BY <1>1, <1>5, <2>1 DEF EndInv, PendingKnown, NotConfirmedResult
<1>9. FailureNoted'
  BY <1>1, <1>4, <1>5 DEF EndInv, FailureNoted, Telling, res
<1>10. ComplaintNoted'
  <2>1. r.call = "error" => r.next = "S_ERROR"
    BY <1>1 DEF SessionLike, Logs, Talks, Idles, Enters, Complains, Breaks, Leaves, Dismissed,
       Abandons
  <2> QED
    BY <1>1, <1>5, <1>7, <2>1 DEF EndInv, ComplaintNoted
<1>11. ErrorHeardNoted'
  <2>1. ASSUME NEW i \in DOMAIN results, ServerError(results[i])
        PROVE  \/ i = 1
               \/ pc' = "handle" /\ \E j \in DOMAIN results' : ServerError(results'[j])
    <3>1. CASE i = 1
      BY <3>1
    <3>2. CASE i # 1
      <4>1. Len(results) = 2 /\ i = 2
        BY <1>1, <1>2, <3>2 DEF CycleShape
      <4>2. Len(results') = 1 /\ results'[1] = results[2] /\ results' # <<>>
        BY <1>2, <4>1, TailOfTwo
      <4>3. 1 \in DOMAIN results' /\ pc' = "handle"
        <5>1. results' \in Seq(PollResult)
          BY <1>2, HeadTailProperties
        <5> QED
          BY <1>2, <4>2, <5>1
      <4> QED
        BY <2>1, <4>1, <4>2, <4>3
    <3> QED
      BY <3>1, <3>2
  <2>2. ServerError(res) => ret_code' = "EXIT_FAILURE" \/ state' = "S_ERROR"
    BY <1>1, <1>4 DEF Telling
  <2>3. ret_code = "EXIT_FAILURE" => ret_code' = "EXIT_FAILURE"
    BY <1>1
  <2> QED
    BY <1>1, <1>5, <1>7, <2>1, <2>2, <2>3 DEF EndInv, ErrorHeardNoted, res
<1>12. CodeHasReason' /\ ErrorHasReason'
  BY <1>1, <1>4, <1>5, <1>6 DEF EndInv, CodeHasReason, ErrorHasReason, Telling, ServerError
<1>13. EndHasReason'
  <2>1. pc' # "exited"
    BY <1>2
  <2> QED
    BY <1>1, <1>4, <1>5, <1>6, <2>1 DEF EndHasReason, Telling
<1> QED
  BY <1>8, <1>9, <1>10, <1>11, <1>12, <1>13

-----------------------------------------------------------------------------
(* Every step keeps the invariant. *)
LEMMA NextEnd == EndInv /\ [Next]_vars => EndInv'
<1> SUFFICES ASSUME EndInv, [Next]_vars PROVE EndInv'
  OBVIOUS
<1>1. SessionInv'
  BY NextSession DEF EndInv
<1>2. CASE Client /\ HandleResult
  BY <1>1, <1>2, HandleEnds DEF EndInv
<1>3. CASE ~(Client /\ HandleResult)
  BY <1>1, <1>3, QuietReasons, QuietNotes DEF EndInv, Noted
<1> QED
  BY <1>2, <1>3

(* It holds at the start, when nothing has gone wrong. *)
LEMMA InitEnd == Init => EndInv
<1> SUFFICES ASSUME Init PROVE EndInv
  OBVIOUS
<1>1. /\ state = "S_START" /\ pc = "top" /\ DOMAIN sent = {} /\ DOMAIN inbox = {}
      /\ ret_code = "EXIT_SUCCESS"
  BY DEF Init, ClientInit, PostmanInit
<1>2. ~Failed /\ ~Complained /\ ~Heard("ERR")
  BY <1>1 DEF Failed, Complained, Heard
<1> QED
  BY <1>1, <1>2, InitSession
     DEF EndInv, PendingKnown, FailureNoted, ComplaintNoted, ErrorHeardNoted, CodeHasReason,
         ErrorHasReason, EndHasReason

(* The invariant holds in every reachable state. *)
THEOREM EndInvariance == Spec => []EndInv
BY InitEnd, NextEnd, PTL DEF Spec

(* The client leaves in one of three ways only: it has said BYE, it was told
   BYE, or the server has stopped confirming. *)
THEOREM LeavesCleanly == Spec => []LeavesProperly
<1>1. EndInv => LeavesProperly
  BY DEF EndInv, EndHasReason, SaidBye, LeavesProperly
<1> QED
  BY <1>1, EndInvariance, PTL

(* The exit code says whether anything went wrong, and nothing else: every
   failure, complaint and ERR is in it when the process exits. *)
THEOREM ExitHonest == Spec => []ExitCodeHonest
<1>1. EndInv => ExitCodeHonest
  <2> SUFFICES ASSUME EndInv, pc = "exited"
               PROVE  ret_code = "EXIT_FAILURE" <=> Failed \/ Complained \/ Heard("ERR")
    BY DEF ExitCodeHonest
  <2>1. state = "S_END"
    BY DEF EndInv, EndHasReason
  <2> QED
    BY <2>1 DEF EndInv, FailureNoted, ComplaintNoted, ErrorHeardNoted, CodeHasReason
<1> QED
  BY <1>1, EndInvariance, PTL

-----------------------------------------------------------------------------
(* The server has not used an id that is negative as an int16_t. *)
HalfTheIds == 2 * (ServerFirstId + Len(srv_sent)) <= IdMod

(* No UNKNOWN has been received, or none that was looked at so far. *)
UnknownPending == \E i \in DOMAIN results :
                     results[i].source = "SERVER" /\ results[i].type = "UNKNOWN"

Sound == state \notin {"S_ERROR", "S_END"} /\ ~UnknownPending

(* The server counts its messages. *)
ServerCounts ==
    \A i \in DOMAIN srv_sent : srv_sent[i].id = ServerFirstId + i - 1 /\ 2 * srv_sent[i].id < IdMod

(* While all is well, nothing above ref_msg_id has reached the machine. *)
ShownBelow ==
    Sound => /\ \A i \in DOMAIN inbox : inbox[i].id <= ref_msg_id
             /\ inbox # <<>> => ~first_message

(* Before the session is open the server has answered all messages sent, or
   all but the last: it has sent as many. *)
LoggingIn == state \in {"S_START", "S_AUTH"}

NothingSaidAtStart == state = "S_START" => sent = <<>>

AnswersCounted ==
    LoggingIn =>
        /\ Len(sent) <= Len(srv_sent) + 1
        /\ \A i \in DOMAIN srv_sent : srv_sent[i].type = "REPLY" => srv_sent[i].re <= i

(* The REPLY to a request is unique. *)
AnsweredOnce ==
    \A c, d \in SentByServer : c.type = "REPLY" /\ d.type = "REPLY" /\ c.re = d.re => c = d

(* When stdin is open in S_AUTH the REPLY to the last AUTH is an old one. *)
LastAnswerSeen ==
    Sound /\ state = "S_AUTH" /\ ~is_waiting_for_reply /\ ~Ending =>
        /\ ~first_message
        /\ \E d \in SentByServer :
              d.type = "REPLY" /\ d.re = Len(sent) /\ d.id <= ref_msg_id

(* A pending REPLY with result OK grants the last message sent, and no
   command is pending with it. *)
GrantIsLast ==
    pc = "handle" /\ LoggingIn =>
        \A i \in DOMAIN results :
            results[i].source = "SERVER" /\ results[i].type = "REPLY" /\ results[i].ok =>
                i = 1 /\ Len(sent) \in DOMAIN sent /\ Granted(Len(sent))

InWindow ==
    /\ ServerCounts /\ ShownBelow /\ NoMessageShownTwice
    /\ NothingSaidAtStart /\ AnswersCounted /\ AnsweredOnce
    /\ LastAnswerSeen /\ GrantIsLast /\ OpenMeansGranted

WindowInv == SessionInv /\ (HalfTheIds => InWindow)

-----------------------------------------------------------------------------
(* The ids of the server. *)

(* What the server has sent stays where it is. *)
LEMMA ServerList ==
    ASSUME IInv, [Next]_vars
    PROVE  /\ Len(srv_sent) \in Nat /\ DOMAIN srv_sent = 1 .. Len(srv_sent)
           /\ SentByServer \subseteq SentByServer'
           /\ HalfTheIds' => HalfTheIds
<1>1. srv_sent \in Seq(Datagram) /\ Len(srv_sent) \in Nat /\ ServerFirstId \in Nat
  BY ServerAssumption DEF IInv, TypeOK, ServerTypeOK
<1>2. srv_sent' = srv_sent \/ \E d : srv_sent' = Append(srv_sent, d)
  BY DEF Next, Client, Environment, ServerReceives, ServerReplies, ServerSpeaks, ServerSends,
     Clock, Terminated, vars, server_vars
<1>3. CASE srv_sent' = srv_sent
  BY <1>1, <1>3 DEF SentByServer, HalfTheIds
<1>4. CASE \E d : srv_sent' = Append(srv_sent, d)
  <2>1. Len(srv_sent') = Len(srv_sent) + 1 /\ SentByServer \subseteq SentByServer'
    BY <1>1, <1>4 DEF SentByServer
  <2> QED
    BY <1>1, <2>1 DEF HalfTheIds
<1> QED
  BY <1>1, <1>2, <1>3, <1>4

(* The next id of the server is the next number, and not negative. *)
LEMMA NextIdCounts ==
    ASSUME Len(srv_sent) \in Nat, 2 * (ServerFirstId + Len(srv_sent) + 1) <= IdMod
    PROVE  NextServerId = ServerFirstId + Len(srv_sent) /\ 2 * NextServerId < IdMod
<1> DEFINE n == ServerFirstId + Len(srv_sent)
<1>1. n \in Nat /\ 2 * (n + 1) <= IdMod
  BY ServerAssumption
<1> HIDE DEF n
<1>2. n < IdMod /\ 2 * n < IdMod
  BY <1>1
<1>3. n % IdMod = n
  BY <1>1, <1>2
<1> QED
  BY <1>2, <1>3 DEF NextServerId, n

(* An id in the lower half survives the int16_t. *)
LEMMA Int16Exact ==
    ASSUME NEW id \in Nat, 2 * id < IdMod PROVE ToInt16(id) = id
BY DEF ToInt16

(* The server says one more thing: an answer to a request that has none, or
   something else. *)
LEMMA ServerSendsWindow ==
    ASSUME SessionInv, [Next]_vars, HalfTheIds', HalfTheIds => InWindow,
           NEW d, ServerSends(d), d.id = NextServerId,
           d.type = "REPLY" => d.re \in DOMAIN sent /\ ~Answered(d.re)
    PROVE  InWindow'
<1> DEFINE n == Len(srv_sent) + 1
<1>0. /\ srv_sent \in Seq(Datagram) /\ Len(srv_sent) \in Nat /\ DOMAIN srv_sent = 1 .. Len(srv_sent)
      /\ srv_sent' = Append(srv_sent, d) /\ UNCHANGED client_vars
      /\ DOMAIN sent = 1 .. Len(sent) /\ Len(sent) \in Nat
  BY DEF SessionInv, AnswerInv, OrderInv, IInv, TypeOK, ServerTypeOK, ServerSends, PostmanTypeOK
<1>1. InWindow /\ SentByServer \subseteq SentByServer' /\ HalfTheIds
  BY ServerList DEF SessionInv, AnswerInv, OrderInv
<1>2. /\ DOMAIN srv_sent' = DOMAIN srv_sent \cup {n} /\ Len(srv_sent') = n
      /\ srv_sent'[n] = d /\ \A i \in DOMAIN srv_sent : srv_sent'[i] = srv_sent[i]
  BY <1>0
<1>3. d.id = ServerFirstId + n - 1 /\ 2 * d.id < IdMod
  <2>1. 2 * (ServerFirstId + Len(srv_sent) + 1) <= IdMod
    BY <1>0, <1>2, ServerAssumption DEF HalfTheIds
  <2> QED
    BY <1>0, <2>1, NextIdCounts, ServerAssumption
<1>4. UNCHANGED <<state, results, inbox, ref_msg_id, first_message, sent, is_waiting_for_reply, pc>>
  BY <1>0 DEF client_vars, postman_vars, automata_vars
<1>5. ServerCounts'
  BY <1>1, <1>2, <1>3 DEF InWindow, ServerCounts
<1>6. ShownBelow' /\ NoMessageShownTwice' /\ NothingSaidAtStart'
  BY <1>1, <1>4 DEF InWindow, ShownBelow, Sound, UnknownPending, NoMessageShownTwice,
     NothingSaidAtStart
<1>7. AnswersCounted'
  <2>1. d.type = "REPLY" /\ LoggingIn => d.re <= n
    BY <1>0, <1>1 DEF InWindow, AnswersCounted
  <2>2. LoggingIn => Len(sent) <= n + 1
    BY <1>0, <1>1 DEF InWindow, AnswersCounted
  <2> HIDE DEF n
  <2> QED
    BY <1>1, <1>2, <1>4, <2>1, <2>2 DEF InWindow, AnswersCounted, LoggingIn
<1>8. AnsweredOnce'
  <2>1. \A c \in SentByServer' : c \in SentByServer \/ c = d
    BY <1>0, <1>2 DEF SentByServer
  <2>2. \A c \in SentByServer : c.type = "REPLY" /\ d.type = "REPLY" => c.re # d.re
    BY DEF Answered
  <2> QED
    BY <1>1, <2>1, <2>2 DEF InWindow, AnsweredOnce
<1>9. LastAnswerSeen'
  <2>1. Ending' <=> Ending
    BY <1>4 DEF Ending
  <2> QED
    BY <1>1, <1>4, <2>1 DEF InWindow, LastAnswerSeen, Sound, UnknownPending
<1>10. \A k : Granted(k) => Granted(k)'
  BY <1>1 DEF Granted
<1>11. GrantIsLast' /\ OpenMeansGranted'
  BY <1>1, <1>4, <1>10 DEF InWindow, GrantIsLast, OpenMeansGranted, LoggingIn
<1> QED
  BY <1>5, <1>6, <1>7, <1>8, <1>9, <1>11 DEF InWindow

-----------------------------------------------------------------------------
(* The step that handles a result. *)

(* A second result is the first of what is left. *)
LEMMA SecondIsNext ==
    ASSUME SessionInv, HandleResult, NEW i \in DOMAIN results, i # 1
    PROVE  i = 2 /\ results'[1] = results[2] /\ DOMAIN results' = {1} /\ pc' = "handle"
<1>1. /\ CycleShape /\ results \in Seq(PollResult) /\ results # <<>> /\ pc = "handle"
      /\ results' = Tail(results)
      /\ pc' = (IF Tail(results) = <<>> THEN "top" ELSE "handle")
  BY DEF SessionInv, AnswerInv, OrderInv, IInv, TypeOK, ClientTypeOK, HandleResult
<1>2. Len(results) = 2 /\ i = 2
  BY <1>1 DEF CycleShape
<1>3. Len(results') = 1 /\ results'[1] = results[2] /\ results' # <<>>
  BY <1>1, <1>2, TailOfTwo
<1>4. results' \in Seq(PollResult)
  BY <1>1, HeadTailProperties
<1>5. DOMAIN results' = {1}
  BY <1>3, <1>4
<1> QED
  BY <1>1, <1>2, <1>3, <1>5

(* An UNKNOWN is not lost, and S_ERROR is not left: what is sound after a
   result was handled was so before. *)
LEMMA SoundBefore ==
    ASSUME SessionInv, HandleResult, Sound' PROVE Sound
<1> DEFINE res == results[1]
           r == React(running, res, state)
<1>1. SessionLike(r, res, state) /\ state' = r.next /\ state # "S_END"
  BY HandleSessionLike
<1>2. res.source = "SERVER" /\ res.type = "UNKNOWN" => state' = "S_ERROR"
  BY <1>1, ReactUnknown
<1> HIDE DEF r
<1>3. state = "S_ERROR" => state' \in {"S_ERROR", "S_END"}
  BY <1>1 DEF SessionLike, Logs, Talks, Idles, Enters, Complains, Breaks, Leaves, Dismissed,
     Abandons
<1>4. ASSUME NEW i \in DOMAIN results, results[i].source = "SERVER", results[i].type = "UNKNOWN"
      PROVE  FALSE
  <2>1. CASE i = 1
    BY <1>2, <1>4, <2>1 DEF Sound
  <2>2. CASE i # 1
    <3>1. 1 \in DOMAIN results' /\ results'[1] = results[i]
      BY <2>2, SecondIsNext
    <3> QED
      BY <1>4, <3>1 DEF Sound, UnknownPending
  <2> QED
    BY <2>1, <2>2
<1> QED
  BY <1>1, <1>3, <1>4 DEF Sound, UnknownPending

(* Handling a result keeps the invariant: an AUTH is sent when the one
   before is answered, and only a grant of the last opens the session. *)
LEMMA HandleWindow ==
    ASSUME SessionInv, InWindow, HalfTheIds, HandleResult, UNCHANGED server_vars, [Next]_vars
    PROVE  InWindow'
<1> DEFINE res == results[1]
           r == React(running, res, state)
<1>1. /\ SessionLike(r, res, state) /\ state' = r.next /\ Perform(r.call)
      /\ pc = "handle" /\ state # "S_END" /\ running \in State \ {"S_END"}
  BY HandleSessionLike
<1>2. \/ r.call = "none" /\ UNCHANGED postman_vars
      \/ \E type \in ClientType :
            /\ Send(type)
            /\ type = "AUTH" <=> r.call = "authorize"
            /\ type = "JOIN" <=> r.call = "join"
            /\ type = "MSG" <=> r.call = "message"
            /\ type = "ERR" <=> r.call = "error"
            /\ type = "BYE" <=> r.call = "bye"
            /\ type \notin Request => is_waiting_for_reply' = is_waiting_for_reply
  BY HandleSends
<1>3. /\ IInv /\ CycleShape /\ results \in Seq(PollResult) /\ results # <<>> /\ inbox' = inbox
      /\ srv_sent' = srv_sent /\ Len(srv_sent) \in Nat /\ Len(sent) \in Nat
      /\ DOMAIN sent = 1 .. Len(sent) /\ sent \in Seq(Sent)
  BY ServerList DEF SessionInv, AnswerInv, OrderInv, IInv, TypeOK, ClientTypeOK, PostmanTypeOK,
     HandleResult, server_vars
<1>4. SentByServer' = SentByServer /\ \A k : Granted(k)' <=> Granted(k)
  BY <1>3 DEF SentByServer, Granted
<1>5. UNCHANGED <<ref_msg_id, first_message>>
  BY <1>2 DEF Send, postman_vars
<1>6. Sound' => Sound
  BY SoundBefore
<1>7. 1 \in DOMAIN results
  BY <1>3
<1>8. Final(res) => r.next = "S_END"
  BY <1>1, ReactOrderly DEF Orderly
<1>20. ASSUME FromUser(res), LoggingIn PROVE Len(sent) <= Len(srv_sent)
  <2>1. Len(sent) <= IdMod
    BY <1>3, <1>20, ServerAssumption DEF InWindow, AnswersCounted, HalfTheIds
  <2>2. CASE Len(sent) = 0
    BY <1>3, <2>2
  <2>3. CASE Len(sent) # 0
    <3>1. Len(sent) \in DOMAIN sent /\ sent[Len(sent)].type \in Request
      BY <1>3, <1>20, <2>3 DEF SessionInv, OnlyLogins, LoggingIn, Request
    <3>2. Answered(Len(sent))
      BY <1>20, <2>1, <3>1, UserIsFree
    <3>3. PICK i \in DOMAIN srv_sent : srv_sent[i].type = "REPLY" /\ srv_sent[i].re = Len(sent)
      BY <3>2 DEF Answered, SentByServer
    <3>4. Len(sent) <= i
      BY <1>20, <3>3 DEF InWindow, AnswersCounted
    <3>5. DOMAIN srv_sent = 1 .. Len(srv_sent)
      BY <1>3, ServerList
    <3> QED
      BY <1>3, <3>3, <3>4, <3>5
  <2> QED
    BY <2>2, <2>3
<1> HIDE DEF r
<1> USE DEF SessionLike, Logs, Talks, Idles, Enters, Complains, Breaks, Leaves, Dismissed, Abandons
<1>9. LoggingIn' => LoggingIn
  BY <1>1 DEF LoggingIn
<1>10. state' = "S_START" => state = "S_START" /\ r.call = "none"
  BY <1>1
<1>11. state' = "S_AUTH" => \/ r.call = "authorize" /\ FromUser(res)
                            \/ r.call = "none" /\ state = "S_AUTH"
  BY <1>1
<1>12. state' = "S_OPEN" => \/ state = "S_OPEN" /\ r.call # "authorize"
                            \/ /\ r.call = "none" /\ state = "S_AUTH"
                               /\ res.source = "SERVER" /\ res.type = "REPLY" /\ res.ok
  BY <1>1 DEF FromUser
<1> USE DEF SessionInv
<1> HIDE DEF SessionLike, Logs, Talks, Idles, Enters, Complains, Breaks, Leaves, Dismissed, Abandons
<1>13. ServerCounts' /\ AnsweredOnce'
  BY <1>3, <1>4 DEF InWindow, ServerCounts, AnsweredOnce
<1>14. ShownBelow' /\ NoMessageShownTwice'
  BY <1>3, <1>5, <1>6 DEF InWindow, ShownBelow, NoMessageShownTwice
<1>15. GrantIsLast'
  <2> SUFFICES ASSUME LoggingIn', NEW i \in DOMAIN results',
                      results'[i].source = "SERVER", results'[i].type = "REPLY", results'[i].ok
               PROVE  FALSE
    BY DEF GrantIsLast
  <2>1. CASE \E j \in DOMAIN results : j # 1
    <3>1. PICK j \in DOMAIN results : j # 1
      BY <2>1
    <3>2. j = 2 /\ results'[1] = results[2] /\ i = 1
      BY <3>1, SecondIsNext
    <3>3. j = 1
      BY <1>1, <1>9, <3>1, <3>2 DEF InWindow, GrantIsLast
    <3> QED
      BY <3>1, <3>3
  <2>2. CASE ~\E j \in DOMAIN results : j # 1
    <3>1. Len(results) = 1
      BY <1>1, <1>3, <2>2 DEF CycleShape
    <3>2. results' = <<>>
      BY <1>3, <3>1 DEF HandleResult
    <3> QED
      BY <3>2
  <2> QED
    BY <2>1, <2>2
<1>16. CASE r.call = "none" /\ UNCHANGED postman_vars
  <2>1. sent' = sent /\ is_waiting_for_reply' = is_waiting_for_reply
    BY <1>16 DEF postman_vars
  <2>2. NothingSaidAtStart' /\ AnswersCounted'
    BY <1>3, <1>9, <1>10, <2>1 DEF InWindow, NothingSaidAtStart, AnswersCounted
  <2>3. LastAnswerSeen'
    <3>1. state' = "S_AUTH" => state = "S_AUTH" /\ ~Ending
      BY <1>1, <1>8, <1>11, <1>16 DEF Ending
    <3> QED
      BY <1>4, <1>5, <1>6, <2>1, <3>1 DEF InWindow, LastAnswerSeen
  <2>4. OpenMeansGranted'
    <3>1. CASE state' = "S_OPEN" /\ state = "S_OPEN"
      BY <1>4, <2>1, <3>1 DEF InWindow, OpenMeansGranted
    <3>2. CASE state' = "S_OPEN" /\ state # "S_OPEN"
      <4>1. Len(sent) \in DOMAIN sent /\ Granted(Len(sent)) /\ LoggingIn
        BY <1>1, <1>7, <1>12, <3>2 DEF InWindow, GrantIsLast, LoggingIn
      <4>2. sent[Len(sent)].type = "AUTH" /\ \A j \in DOMAIN sent : j <= Len(sent)
        BY <1>3, <4>1 DEF OnlyLogins, LoggingIn
      <4> QED
        BY <1>4, <2>1, <4>1, <4>2 DEF OpenMeansGranted
    <3> QED
      BY <3>1, <3>2 DEF OpenMeansGranted
  <2> QED
    BY <1>13, <1>14, <1>15, <2>2, <2>3, <2>4 DEF InWindow
<1>17. ASSUME NEW type \in ClientType, Send(type), type = "AUTH" <=> r.call = "authorize",
              r.call # "none"
       PROVE  InWindow'
  <2> DEFINE n == Len(sent) + 1
  <2>1. /\ Len(sent') = n /\ DOMAIN sent' = DOMAIN sent \cup {n}
        /\ \A k \in DOMAIN sent : sent'[k] = sent[k]
        /\ sent'[n].type = type
    BY <1>3, <1>17, SendSays
  <2>2. state' # "S_START" /\ NothingSaidAtStart'
    BY <1>10, <1>17 DEF NothingSaidAtStart
  <2>3. AnswersCounted'
    <3>1. LoggingIn' => FromUser(res) /\ Len(sent) <= Len(srv_sent)
      BY <1>9, <1>11, <1>17, <1>20, <2>2 DEF LoggingIn
    <3>2. LoggingIn' => Len(sent') <= Len(srv_sent) + 1
      BY <1>3, <2>1, <3>1
    <3> QED
      BY <1>3, <1>9, <3>2 DEF InWindow, AnswersCounted
  <2>4. LastAnswerSeen'
    <3>1. state' = "S_AUTH" => is_waiting_for_reply'
      <4>1. state' = "S_AUTH" => r.call = "authorize"
        BY <1>11, <1>17
      <4>2. r.call = "authorize" => is_waiting_for_reply'
        BY <1>1 DEF Perform, Authorize
      <4> QED
        BY <4>1, <4>2
    <3> QED
      BY <3>1 DEF LastAnswerSeen
  <2>5. OpenMeansGranted'
    <3>1. state' = "S_OPEN" => state = "S_OPEN" /\ type # "AUTH"
      BY <1>12, <1>17
    <3> QED
      BY <1>4, <2>1, <3>1 DEF InWindow, OpenMeansGranted
  <2> QED
    BY <1>13, <1>14, <1>15, <2>2, <2>3, <2>4, <2>5 DEF InWindow
<1>18. \A type \in ClientType : type = "AUTH" \/ type = "JOIN" \/ type = "MSG" \/ type = "ERR" \/ type = "BYE"
  BY DEF ClientType
<1> QED
  BY <1>2, <1>16, <1>17, <1>18

-----------------------------------------------------------------------------
(* The datagram. *)

(* What is neither an UNKNOWN nor a CONFIRM is what the server has sent, and
   its id is not negative. *)
LEMMA HeardAsSent ==
    ASSUME IInv, ServerCounts, NEW d \in InFlight, NEW m \in Receivable(d),
           m.type \notin {"UNKNOWN", "CONFIRM"}
    PROVE  m = d /\ d \in SentByServer /\ m.id \in Nat /\ ToInt16(m.id) = m.id
<1>0. d \in Datagram
  BY InFlightTyped
<1>1. PICK x \in DataToMessage(d) : m = Checked(x)
  BY DEF Receivable
<1>2. x.type # "UNKNOWN" /\ m = x
  <2>1. CASE x.type = "REPLY" /\ ~AnswersLastSent(x)
    <3>1. m.type = "UNKNOWN"
      <4>1. m = [x EXCEPT !.type = "UNKNOWN"]
        BY <1>1, <2>1 DEF Checked
      <4> QED
        BY <1>0, <2>1, <4>1 DEF DataToMessage, Datagram
    <3> QED
      BY <3>1
  <2>2. CASE ~(x.type = "REPLY" /\ ~AnswersLastSent(x))
    BY <1>1, <2>2 DEF Checked
  <2> QED
    BY <2>1, <2>2
<1>3. d.type # "GARBLED"
  BY <1>0, <1>2 DEF DataToMessage, Datagram
<1>4. m = d
  BY <1>2, <1>3 DEF DataToMessage
<1>5. d \in SentByServer
  BY <1>4 DEF InFlight, ConfirmOf
<1>6. 2 * d.id < IdMod
  BY <1>5 DEF ServerCounts, SentByServer
<1>7. d.id \in Nat
  BY <1>0 DEF Datagram, Id
<1> QED
  BY <1>4, <1>5, <1>6, <1>7, Int16Exact

(* A datagram: what is forwarded is above all that was, and a REPLY to the
   last message sent is forwarded while stdin is locked. *)
LEMMA SocketWindow ==
    ASSUME SessionInv, InWindow, HalfTheIds, NEW d \in InFlight, ReadSocket(d),
           UNCHANGED server_vars, [Next]_vars, ~HandleResult
    PROVE  InWindow'
<1>1. /\ IInv /\ CycleShape /\ results \in Seq(PollResult) /\ inbox \in Seq(Delivery)
      /\ pc = "socket" /\ state = running /\ state # "S_END" /\ AnswerInv
      /\ state' = state /\ running' = running /\ srv_sent' = srv_sent
      /\ first_message \in BOOLEAN /\ ref_msg_id \in Int
      /\ Len(sent) \in Nat /\ DOMAIN sent = 1 .. Len(sent) /\ Len(srv_sent) \in Nat
      /\ is_waiting_for_reply \in BOOLEAN /\ srv_sent \in Seq(Datagram)
  BY ServerList DEF SessionInv, AnswerInv, OrderInv, IInv, TypeOK, ClientTypeOK, PostmanTypeOK,
     ServerTypeOK, ReadSocket, automata_vars, server_vars, Placed, CycleShape
<1>2. PICK m \in Receivable(d) :
         /\ HandleServerMessage(m)
         /\ results' = results \o ServerResults(m)
         /\ inbox' = (IF Forwards(m)
                      THEN Append(inbox, [id |-> m.id, type |-> m.type, at |-> running])
                      ELSE inbox)
         /\ pc' = AfterPoll(results \o ServerResults(m))
  BY DEF ReadSocket
<1>3. m \in Parsed /\ ServerResults(m) \in Seq(PollResult) /\ m.id \in Nat
  BY <1>1, InFlightTyped, ReceivableParsed, ServerResultsType DEF Parsed, Id
<1>4. /\ ref_msg_id' = (IF Forwards(m) THEN ToInt16(m.id) ELSE ref_msg_id)
      /\ first_message' = (first_message /\ ~Forwards(m))
      /\ is_waiting_for_reply' = (is_waiting_for_reply /\ ~AnswersLastSent(m))
  BY <1>2 DEF HandleServerMessage, Receive
<1>5. NothingSaid
  <2>1. PostmanInv
    BY <1>1 DEF IInv, TypeOK, PostmanInv
  <2> QED
    BY <1>2, <2>1, QuietMethods
<1>6. SentByServer' = SentByServer /\ \A k : Granted(k)' <=> Granted(k)
  BY <1>1 DEF SentByServer, Granted
<1>7. m.type \notin {"UNKNOWN", "CONFIRM"} =>
         m = d /\ d \in SentByServer /\ ToInt16(m.id) = m.id
  BY <1>1, HeardAsSent DEF InWindow
<1>8. \A i \in DOMAIN results : results[i].source = "USER"
  BY <1>1 DEF CycleShape, FromUser
<1>9. ~UnknownPending
  BY <1>8 DEF UnknownPending
<1>10. Sound <=> state # "S_ERROR"
  BY <1>1, <1>9 DEF Sound
<1> DEFINE new == ServerResult(m.type, m.result)
<1>11. new.source = "SERVER" /\ new.type = m.type /\ new.ok = (m.result = 1)
  BY DEF ServerResult
<1> HIDE DEF new
<1>12. Forwards(m) => Len(results) + 1 \in DOMAIN results' /\ results'[Len(results) + 1] = new
  <2>1. Forwards(m) => Len(ServerResults(m)) = 1 /\ ServerResults(m)[1] = new
    BY DEF ServerResults, new
  <2> DEFINE all == results \o ServerResults(m)
  <2>2. Forwards(m) => /\ all \in Seq(PollResult) /\ Len(all) = Len(results) + 1
                       /\ all[Len(results) + 1] = new
    BY <1>1, <1>3, <2>1, PlusOne
  <2>3. Len(results) \in Nat
    BY <1>1
  <2> HIDE DEF all
  <2>4. Forwards(m) => Len(results) + 1 \in DOMAIN all
    BY <2>2, <2>3
  <2> QED
    BY <1>2, <2>2, <2>4 DEF all
<1>13. \A i \in DOMAIN results' :
          results'[i].source = "USER" \/ (Forwards(m) /\ results'[i] = new)
  <2>1. \A i \in DOMAIN ServerResults(m) : Forwards(m) /\ ServerResults(m)[i] = new
    BY DEF ServerResults, new
  <2> QED
    BY <1>1, <1>2, <1>3, <1>8, <2>1, PendingAfter
<1>14. Sound' => Sound /\ (Forwards(m) => m.type # "UNKNOWN")
  BY <1>1, <1>9, <1>11, <1>12 DEF Sound, UnknownPending
<1>15. Forwards(m) /\ m.type # "UNKNOWN" =>
          /\ m.type # "CONFIRM" /\ ref_msg_id' = m.id /\ ~first_message'
          /\ m.id > ref_msg_id \/ first_message
  BY <1>4, <1>7 DEF Forwards, IsNew
<1> DEFINE entry == [id |-> m.id, type |-> m.type, at |-> running]
<1>16. Forwards(m) => /\ Len(inbox) \in Nat
                      /\ DOMAIN inbox = 1 .. Len(inbox)
                      /\ DOMAIN inbox' = DOMAIN inbox \cup {Len(inbox) + 1}
                      /\ inbox'[Len(inbox) + 1].id = m.id
                      /\ inbox'[Len(inbox) + 1].type = m.type
                      /\ inbox'[Len(inbox) + 1].at = running
                      /\ \A i \in DOMAIN inbox : inbox'[i] = inbox[i]
  BY <1>1, <1>2
<1>17. ~Forwards(m) => inbox' = inbox
  BY <1>2
<1>18. \A i \in DOMAIN inbox : inbox[i].id \in Nat /\ inbox # <<>>
  <2>1. \A i \in DOMAIN inbox : inbox[i] \in Delivery
    BY <1>1
  <2>2. \A x \in Delivery : x.id \in Nat
    BY DEF Delivery, Id
  <2>3. inbox = <<>> => DOMAIN inbox = {}
    OBVIOUS
  <2> QED
    BY <2>1, <2>2, <2>3
<1>19. Forwards(m) /\ m.type # "UNKNOWN" /\ Sound =>
          \A i \in DOMAIN inbox : inbox[i].id < m.id
  BY <1>1, <1>3, <1>15, <1>18 DEF InWindow, ShownBelow
<1>20. ShownBelow'
  <2>1. CASE Sound' /\ Forwards(m)
    BY <1>3, <1>14, <1>15, <1>16, <1>18, <1>19, <2>1 DEF ShownBelow
  <2>2. CASE Sound' /\ ~Forwards(m)
    BY <1>1, <1>4, <1>14, <1>17, <2>2 DEF InWindow, ShownBelow
  <2> QED
    BY <2>1, <2>2 DEF ShownBelow
<1>21. NoMessageShownTwice'
  <2>1. CASE Forwards(m)
    <3> SUFFICES ASSUME NEW i \in DOMAIN inbox', NEW j \in DOMAIN inbox', i < j,
                        inbox'[j].at # "S_ERROR", inbox'[j].type # "UNKNOWN"
                 PROVE  inbox'[i].id # inbox'[j].id
      BY DEF NoMessageShownTwice
    <3>1. CASE j \in DOMAIN inbox
      <4>1. i \in DOMAIN inbox
        BY <1>16, <2>1, <3>1
      <4> QED
        BY <1>16, <2>1, <3>1, <4>1 DEF InWindow, NoMessageShownTwice
    <3>2. CASE j = Len(inbox) + 1
      <4>1. i \in DOMAIN inbox
        BY <1>16, <2>1, <3>2
      <4>2. Sound /\ m.type # "UNKNOWN"
        BY <1>1, <1>10, <1>16, <2>1, <3>2
      <4>3. inbox[i].id < m.id /\ inbox[i].id \in Nat
        BY <1>18, <1>19, <2>1, <4>1, <4>2
      <4> QED
        BY <1>3, <1>16, <2>1, <3>2, <4>1, <4>3
    <3> QED
      BY <1>16, <2>1, <3>1, <3>2
  <2>2. CASE ~Forwards(m)
    BY <1>17, <2>2 DEF InWindow, NoMessageShownTwice
  <2> QED
    BY <2>1, <2>2
<1>22. ServerCounts' /\ AnsweredOnce'
  BY <1>1, <1>6 DEF InWindow, ServerCounts, AnsweredOnce
<1>23. NothingSaidAtStart'
  <2>1. sent = <<>> => sent' = <<>>
    <3>1. sent = <<>> => Len(sent) = 0
      OBVIOUS
    <3>2. sent' \in Seq(Sent)
      <4>1. IInv'
        BY <1>1, NextIInv
      <4> QED
        BY <4>1 DEF IInv, TypeOK, PostmanTypeOK
    <3>3. Len(sent') = 0 => sent' = <<>>
      BY <3>2
    <3> QED
      BY <1>5, <3>1, <3>3 DEF NothingSaid
  <2> QED
    BY <1>1, <2>1 DEF InWindow, NothingSaidAtStart
<1>24. AnswersCounted'
  BY <1>1, <1>5 DEF InWindow, AnswersCounted, LoggingIn, NothingSaid
<1>25. OpenMeansGranted'
  BY <1>1, <1>5, <1>6 DEF InWindow, OpenMeansGranted, NothingSaid
<1>26. LoggingIn => Len(sent) <= IdMod
  BY <1>1, ServerAssumption DEF InWindow, AnswersCounted, HalfTheIds
<1>27. AnswersLastSent(m) /\ LoggingIn =>
          /\ m = d /\ d \in SentByServer /\ d.type = "REPLY"
          /\ d.re = Len(sent) /\ d.re \in DOMAIN sent
  BY <1>1, <1>26, ReplyToLast
<1>28. LastAnswerSeen'
  <2> SUFFICES ASSUME Sound', state = "S_AUTH", ~is_waiting_for_reply'
               PROVE  /\ ~first_message'
                      /\ \E e \in SentByServer :
                            e.type = "REPLY" /\ e.re = Len(sent) /\ e.id <= ref_msg_id'
    BY <1>1, <1>5, <1>6 DEF LastAnswerSeen, NothingSaid
  <2>1. CASE AnswersLastSent(m)
    <3>1. m = d /\ d \in SentByServer /\ d.type = "REPLY" /\ d.re = Len(sent)
      BY <1>27, <2>1 DEF LoggingIn
    <3>2. CASE Forwards(m)
      BY <1>3, <1>15, <3>1, <3>2
    <3>3. CASE ~Forwards(m)
      <4>1. d.id <= ref_msg_id /\ ~first_message
        BY <1>1, <1>3, <3>1, <3>3 DEF Forwards, IsNew
      <4> QED
        BY <1>4, <3>1, <3>3, <4>1
    <3> QED
      BY <3>2, <3>3
  <2>2. CASE ~AnswersLastSent(m)
    <3>1. ~is_waiting_for_reply /\ ~Ending /\ Sound
      BY <1>1, <1>4, <1>14, <2>2 DEF Ending
    <3>2. PICK e \in SentByServer : e.type = "REPLY" /\ e.re = Len(sent) /\ e.id <= ref_msg_id
      BY <3>1 DEF InWindow, LastAnswerSeen
    <3>3. ~first_message
      BY <3>1 DEF InWindow, LastAnswerSeen
    <3>4. e.id \in Nat
      <4>1. e \in Datagram
        BY <1>1 DEF SentByServer
      <4> QED
        BY <4>1 DEF Datagram, Id
    <3>5. CASE Forwards(m)
      BY <1>1, <1>3, <1>4, <1>14, <1>15, <3>2, <3>3, <3>4, <3>5
    <3>6. CASE ~Forwards(m)
      BY <1>4, <3>2, <3>3, <3>6
    <3> QED
      BY <3>5, <3>6
  <2> QED
    BY <2>1, <2>2
<1>29. GrantIsLast'
  <2> SUFFICES ASSUME LoggingIn, NEW i \in DOMAIN results',
                      results'[i].source = "SERVER", results'[i].type = "REPLY", results'[i].ok
               PROVE  i = 1 /\ Len(sent) \in DOMAIN sent /\ Granted(Len(sent))
    BY <1>1, <1>5, <1>6 DEF GrantIsLast, LoggingIn, NothingSaid
  <2>1. Forwards(m) /\ m.type = "REPLY" /\ m.result = 1
    BY <1>11, <1>13
  <2>2. AnswersLastSent(m)
    <3>1. PICK x \in DataToMessage(d) : m = Checked(x)
      BY DEF Receivable
    <3>2. d \in Datagram
      BY <1>1, InFlightTyped
    <3> QED
      BY <2>1, <3>1, <3>2 DEF Checked, DataToMessage, Datagram
  <2>3. /\ m = d /\ d \in SentByServer /\ d.re = Len(sent) /\ d.re \in DOMAIN sent
    BY <1>27, <2>2
  <2>4. Granted(Len(sent))
    BY <2>1, <2>3 DEF Granted
  <2>5. results = <<>>
    <3> SUFFICES ASSUME results # <<>> PROVE FALSE
      OBVIOUS
    <3>1. FromUser(results[1]) /\ ~is_waiting_for_reply
      BY <1>1 DEF CycleShape, AnswerInv, OrderInv, UserClear
    <3>2. state = "S_AUTH"
      <4>1. sent # <<>>
        BY <1>1, <2>3
      <4> QED
        BY <4>1 DEF LoggingIn, InWindow, NothingSaidAtStart
    <3>3. ~Ending /\ Sound
      BY <1>1, <1>10, <3>2 DEF Ending
    <3>4. PICK e \in SentByServer : e.type = "REPLY" /\ e.re = Len(sent) /\ e.id <= ref_msg_id
      BY <3>1, <3>2, <3>3 DEF InWindow, LastAnswerSeen
    <3>5. ~first_message
      BY <3>1, <3>2, <3>3 DEF InWindow, LastAnswerSeen
    <3>6. e = d
      BY <2>1, <2>3, <3>4 DEF InWindow, AnsweredOnce
    <3>7. m.id > ref_msg_id
      BY <2>1, <1>15, <3>5
    <3> QED
      BY <1>1, <1>3, <2>3, <3>4, <3>6, <3>7
  <2>6. i = 1
    <3>1. Len(results) = 0
      BY <2>5
    <3>2. results' = <<new>>
      <4>1. ServerResults(m) = <<new>>
        BY <2>1 DEF ServerResults, new
      <4> QED
        BY <1>2, <1>3, <2>5, <4>1
    <3> QED
      BY <3>2
  <2> QED
    BY <2>3, <2>4, <2>6
<1> QED
  BY <1>20, <1>21, <1>22, <1>23, <1>24, <1>25, <1>28, <1>29 DEF InWindow

-----------------------------------------------------------------------------
(* All other steps. *)

(* They show nothing, and open stdin only at the end of the session. *)
LEMMA QuietShowsNothing ==
    ASSUME SessionInv, [Next]_vars, ~(Client /\ HandleResult),
           ~(Client /\ \E d \in InFlight : ReadSocket(d))
    PROVE  /\ UNCHANGED <<inbox, ref_msg_id, first_message>>
           /\ \/ results' = results /\ (pc' = "handle" => pc \in {"socket", "handle"})
              \/ /\ results = <<>>
                 /\ pc' = "handle" => \A i \in DOMAIN results' : results'[i].source = "USER"
           /\ Ending => Ending'
           /\ is_waiting_for_reply' = is_waiting_for_reply \/ Ending'
<1>0. CycleShape /\ state' = state
  BY StateKept DEF SessionInv, AnswerInv, OrderInv
<1>1. CASE ~Client
  <2>1. UNCHANGED <<inbox, ref_msg_id, first_message, is_waiting_for_reply>>
    BY <1>1 DEF Next, Environment, ServerReceives, ServerReplies, ServerSpeaks, ServerSends,
       Sigint, CloseStdin, Clock, Tick, Elapse, Terminated, vars, client_vars, postman_vars
  <2>2. UNCHANGED <<state, pc, results>>
    BY <1>1, WorldKeepsMachine
  <2> QED
    BY <2>1, <2>2 DEF Ending
<1>2. CASE PollSigint \/ PollGivesUp \/ PollInterrupted \/ PollReturnGivesUp \/ ReadEof
  <2>1. pc' = "handle" /\ Final(results'[1]) /\ pc \in {"top", "poll", "stdin"}
    BY <1>2 DEF PollSigint, PollGivesUp, PollInterrupted, PollReturnGivesUp, ReadEof,
       ReturnEarly, UserResult, Final, EnterMethod
  <2>2. \A i \in DOMAIN results' : results'[i].source = "USER"
    BY <1>2 DEF PollSigint, PollGivesUp, PollInterrupted, PollReturnGivesUp, ReadEof,
       ReturnEarly, UserResult
  <2>3. UNCHANGED <<inbox, ref_msg_id, first_message>>
    BY <1>2 DEF PollSigint, PollGivesUp, PollInterrupted, PollReturnGivesUp, ReadEof,
       UnlockStdin, GiveUp, EnterMethod
  <2> QED
    BY <1>0, <2>1, <2>2, <2>3 DEF CycleShape, Ending
<1>3. CASE PollBegins \/ PollReturns
  <2>1. /\ UNCHANGED <<inbox, ref_msg_id, first_message, is_waiting_for_reply, results>>
        /\ pc \in {"top", "poll"} /\ pc' \in {"poll", "stdin"} /\ (pc = "top" => state # "S_END")
    BY <1>3 DEF PollBegins, PollReturns, CheckWaiters, EnterMethod
  <2> QED
    BY <1>0, <2>1 DEF CycleShape, Ending
<1>4. CASE ReadEmptyLine \/ SkipStdin \/ SkipSocket \/ Exit
           \/ SendFails(InFlight) \/ \E d \in InFlight : ReadTruncated(d)
  <2>1. /\ UNCHANGED <<inbox, ref_msg_id, first_message, is_waiting_for_reply, results>>
        /\ pc' = "handle" => pc = "socket"
        /\ pc' = "aborted" \/ pc \notin {"handle", "aborted"}
    BY <1>4 DEF ReadEmptyLine, SkipStdin, SkipSocket, Exit, SendFails, ReadTruncated,
       postman_vars
  <2> QED
    BY <1>0, <2>1 DEF Ending
<1>5. CASE \E cmd \in Command : ReadLine(cmd)
  <2>1. /\ UNCHANGED <<inbox, ref_msg_id, first_message, is_waiting_for_reply>>
        /\ pc = "stdin" /\ pc' = "socket"
    BY <1>5 DEF ReadLine, HandleUserCommand
  <2> QED
    BY <1>0, <2>1 DEF CycleShape, Ending
<1> QED
  BY <1>1, <1>2, <1>3, <1>4, <1>5 DEF Client, ClientStep

(* So they keep the invariant. *)
LEMMA QuietWindow ==
    ASSUME SessionInv, InWindow, [Next]_vars, ~(Client /\ HandleResult),
           ~(Client /\ \E d \in InFlight : ReadSocket(d)), srv_sent' = srv_sent
    PROVE  InWindow'
<1>1. /\ UNCHANGED <<inbox, ref_msg_id, first_message>>
      /\ \/ results' = results /\ (pc' = "handle" => pc \in {"socket", "handle"})
         \/ /\ results = <<>>
            /\ pc' = "handle" => \A i \in DOMAIN results' : results'[i].source = "USER"
      /\ Ending => Ending'
      /\ is_waiting_for_reply' = is_waiting_for_reply \/ Ending'
  BY QuietShowsNothing
<1>2. /\ state' = state /\ NothingSaid /\ CycleShape /\ Len(sent) \in Nat
      /\ sent \in Seq(Sent) /\ sent' \in Seq(Sent)
  <2>1. IInv /\ IInv' /\ CycleShape
    BY NextIInv DEF SessionInv, AnswerInv, OrderInv
  <2> QED
    BY <2>1, OnlyResultsSpeak, StateKept DEF IInv, TypeOK, PostmanTypeOK
<1>3. SentByServer' = SentByServer /\ \A k : Granted(k)' <=> Granted(k)
  BY DEF SentByServer, Granted
<1>4. Sound' => Sound
  <2>1. results = <<>> => ~UnknownPending
    BY DEF UnknownPending
  <2> QED
    BY <1>1, <1>2, <2>1 DEF Sound, UnknownPending
<1>5. sent = <<>> => sent' = <<>>
  <2>1. sent = <<>> => Len(sent) = 0
    OBVIOUS
  <2>2. Len(sent') = 0 => sent' = <<>>
    BY <1>2
  <2> QED
    BY <1>2, <2>1, <2>2 DEF NothingSaid
<1>6. ServerCounts' /\ AnsweredOnce' /\ AnswersCounted'
  BY <1>2, <1>3 DEF InWindow, ServerCounts, AnsweredOnce, AnswersCounted, LoggingIn, NothingSaid
<1>7. ShownBelow' /\ NoMessageShownTwice' /\ NothingSaidAtStart'
  BY <1>1, <1>2, <1>4, <1>5 DEF InWindow, ShownBelow, NoMessageShownTwice, NothingSaidAtStart
<1>8. LastAnswerSeen'
  BY <1>1, <1>2, <1>3, <1>4 DEF InWindow, LastAnswerSeen, NothingSaid
<1>9. OpenMeansGranted'
  BY <1>2, <1>3 DEF InWindow, OpenMeansGranted, NothingSaid
<1>10. GrantIsLast'
  <2>1. pc = "socket" => \A i \in DOMAIN results : results[i].source = "USER"
    BY <1>2 DEF CycleShape, FromUser
  <2> QED
    BY <1>1, <1>2, <1>3, <2>1 DEF InWindow, GrantIsLast, LoggingIn, NothingSaid
<1> QED
  BY <1>6, <1>7, <1>8, <1>9, <1>10 DEF InWindow

-----------------------------------------------------------------------------
(* Every step keeps the invariant: in the window by the lemmas above, and
   what has left the window does not come back. *)
LEMMA NextWindow == WindowInv /\ [Next]_vars => WindowInv'
<1> SUFFICES ASSUME WindowInv, [Next]_vars, HalfTheIds' PROVE SessionInv' /\ InWindow'
  BY NextSession DEF WindowInv
<1>1. SessionInv /\ SessionInv' /\ HalfTheIds /\ InWindow
  BY NextSession, ServerList DEF WindowInv, SessionInv, AnswerInv, OrderInv
<1>2. CASE Client /\ HandleResult
  BY <1>1, <1>2, HandleWindow DEF Client
<1>3. ASSUME NEW d \in InFlight, Client, ReadSocket(d), ~HandleResult PROVE InWindow'
  BY <1>1, <1>3, SocketWindow DEF Client
<1>4. ASSUME NEW k \in srv_seen, NEW result \in {0, 1}, ServerReplies(k, result)
      PROVE  InWindow'
  <2> DEFINE d == [type |-> "REPLY", id |-> NextServerId,
                   ref_id |-> Wire(sent[k].id), result |-> result, re |-> k]
  <2>1. ServerSends(d) /\ ~Answered(k) /\ k \in DOMAIN sent
    BY <1>1, <1>4 DEF ServerReplies, SessionInv, AnswerInv, OrderInv, IInv, TypeOK, ServerTypeOK
  <2>2. d.id = NextServerId /\ d.re = k
    OBVIOUS
  <2> HIDE DEF d
  <2> QED
    BY <1>1, <2>1, <2>2, ServerSendsWindow
<1>5. ASSUME NEW type \in ServerTypes, ServerSpeaks(type) PROVE InWindow'
  <2> DEFINE d == [type |-> type, id |-> NextServerId, ref_id |-> 0, result |-> 0, re |-> 0]
  <2>1. ServerSends(d) /\ d.type # "REPLY"
    BY <1>5, ServerAssumption DEF ServerSpeaks
  <2>2. d.id = NextServerId
    OBVIOUS
  <2> HIDE DEF d
  <2> QED
    BY <1>1, <2>1, <2>2, ServerSendsWindow
<1>6. \/ srv_sent' = srv_sent
      \/ \E k \in srv_seen, result \in {0, 1} : ServerReplies(k, result)
      \/ \E type \in ServerTypes : ServerSpeaks(type)
  BY DEF Next, Client, Environment, ServerReceives, Clock, Terminated, vars, server_vars
<1> QED
  BY <1>1, <1>2, <1>3, <1>4, <1>5, <1>6, QuietWindow

(* It holds at the start, when nobody has said anything. *)
LEMMA InitWindow == Init => WindowInv
<1> SUFFICES ASSUME Init PROVE WindowInv
  OBVIOUS
<1>1. /\ state = "S_START" /\ pc = "top" /\ sent = <<>> /\ DOMAIN inbox = {} /\ inbox = <<>>
      /\ srv_sent = <<>> /\ DOMAIN srv_sent = {} /\ SentByServer = {} /\ Len(sent) = 0
      /\ Len(srv_sent) = 0
  BY DEF Init, ClientInit, PostmanInit, SentByServer
<1> QED
  BY <1>1, InitSession
     DEF WindowInv, InWindow, ServerCounts, ShownBelow, NoMessageShownTwice, NothingSaidAtStart,
         AnswersCounted, AnsweredOnce, LastAnswerSeen, GrantIsLast, OpenMeansGranted

(* The invariant holds in every reachable state. *)
THEOREM WindowInvariance == Spec => []WindowInv
BY InitWindow, NextWindow, PTL DEF Spec

(* As long as the server's ids are not negative as an int16_t, a message of
   the server reaches the machine once, however often the network delivers
   it and in whatever order (handle_server_message, ref_msg_id). *)
THEOREM ShownOnce == Spec => [](HalfTheIds => NoMessageShownTwice)
<1>1. WindowInv => (HalfTheIds => NoMessageShownTwice)
  BY DEF WindowInv, InWindow
<1> QED
  BY <1>1, WindowInvariance, PTL

(* And the session is open only if the server granted the last AUTH: no
   repeated or late REPLY to another request opens it. *)
THEOREM OpenedByLastGrant == Spec => [](HalfTheIds => OpenMeansGranted)
<1>1. WindowInv => (HalfTheIds => OpenMeansGranted)
  BY DEF WindowInv, InWindow
<1> QED
  BY <1>1, WindowInvariance, PTL
=============================================================================
