--------------------------- MODULE UdpChatProofs ----------------------------
(***************************************************************************)
(* What holds of the UDP client for every retry limit, timeout, id width,  *)
(* set of names and behaviour of the server:                               *)
(*                                                                         *)
(*   TypeCorrect           Spec => []TypeOK                                *)
(*   RetriesCorrect        Spec => []RetryAccounting                       *)
(*   ConfirmationsCorrect  Spec => []ConfirmedWasReceived                  *)
(*   SilentAfterBye        Spec => []NothingAfterBye                       *)
(*   StopAndWait           Spec => []OneUserMessageOutstanding             *)
(*   AnswersAwaited        Spec => []RequestsAnsweredFirst                 *)
(*                                                                         *)
(* TypeOK is not inductive by itself: that tries_left stays a natural      *)
(* number and copies within its bound follows only from their sum, which   *)
(* is RetryAccounting.  IInv is the two together.  ConfirmedWasReceived    *)
(* needs to know besides that ids are positions (IdsInOrder) and that a    *)
(* CONFIRM is never sent unasked (NoConfirmByServer).                      *)
(*                                                                         *)
(* The last three are about the order of what the client says.  They rest  *)
(* on the shape of one cycle of the process (CycleShape): a poll returns at*)
(* most a result of the user and one of the server, in this order, and only*)
(* the last result can lead to S_END.                                      *)
(***************************************************************************)
EXTENDS UdpChat, AutomataProofs

USE IdsAssumption, RetriesAssumption

(* The part of the invariant that speaks of the postman alone. *)
PostmanInv == PostmanTypeOK /\ RetryAccounting

(* What is transmitted of an id is an id. *)
LEMMA WireInId == ASSUME NEW id \in Id PROVE Wire(id) \in Id
BY DEF Wire, Id

(* The int16_t that remembers an id stays in its range. *)
LEMMA Int16Range == ASSUME NEW id \in Id PROVE ToInt16(id) \in -IdMod .. IdMod
BY DEF ToInt16, Id

(* authorize, join, message, error and bye: one more message, one more
   waiter with all its tries. *)
LEMMA SendKeeps ==
    ASSUME PostmanInv, NEW type \in ClientType, Send(type),
           is_waiting_for_reply' \in BOOLEAN
    PROVE  PostmanInv' /\ DOMAIN sent \subseteq DOMAIN sent'
<1> DEFINE n == Len(sent) + 1
<1>1. Len(sent) \in Nat /\ DOMAIN sent = 1 .. Len(sent)
  BY DEF PostmanInv, PostmanTypeOK
<1>2. sent' \in Seq(Sent) /\ Len(sent') = n
  BY DEF PostmanInv, PostmanTypeOK, Send, Sent, Fate, Id
<1>3. DOMAIN sent' = 1 .. n
  BY <1>2
<1>4. /\ \A k \in DOMAIN sent : sent'[k] = sent[k]
      /\ sent'[n].copies = 1 /\ sent'[n].fate = "waiting"
  BY <1>1 DEF PostmanInv, PostmanTypeOK, Send
<1>5. /\ DOMAIN confirm_waiters' = DOMAIN confirm_waiters \cup {n}
      /\ confirm_waiters'[n] = FreshWaiter
      /\ \A k \in DOMAIN confirm_waiters : confirm_waiters'[k] = confirm_waiters[k]
  BY <1>1 DEF PostmanInv, PostmanTypeOK, Send, PushBack
<1>6. FreshWaiter \in ConfirmWaiter
  BY DEF FreshWaiter, ConfirmWaiter
<1>7. PostmanTypeOK'
  <2>1. confirm_waiters' \in [DOMAIN confirm_waiters' -> ConfirmWaiter]
    BY <1>1, <1>5, <1>6 DEF PostmanInv, PostmanTypeOK, Send, PushBack
  <2>2. DOMAIN confirm_waiters' \subseteq DOMAIN sent'
    BY <1>1, <1>3, <1>5 DEF PostmanInv, PostmanTypeOK
  <2>3. msg_id' \in Id /\ last_sent_message' \in [type : ClientType \cup {"UNKNOWN"}, id : Id]
    BY DEF PostmanInv, PostmanTypeOK, Send, Id
  <2> QED
    BY <1>2, <2>1, <2>2, <2>3 DEF PostmanInv, PostmanTypeOK, Send
<1>8. RetryAccounting'
  BY <1>1, <1>3, <1>4, <1>5 DEF PostmanInv, PostmanTypeOK, RetryAccounting, FreshWaiter
<1> QED
  BY <1>1, <1>3, <1>7, <1>8 DEF PostmanInv

(* The three ways the waiting list changes (retransmit, give up, confirm)
   are instances of UpdateWaiters with Recopied.  They keep the retry budget:
   what is retransmitted has a try left, what fails has none. *)
LEMMA UpdateKeeps ==
    ASSUME PostmanInv,
           NEW again \in SUBSET (Expired \ Exhausted),
           NEW gone \in SUBSET DOMAIN confirm_waiters,
           again \cap gone = {},
           NEW fate \in Fate,
           fate = "waiting" => gone = {},
           fate = "failed" => \A k \in gone : confirm_waiters[k].tries_left = 0,
           UpdateWaiters(again, gone),
           sent' = Recopied(again, gone, fate)
    PROVE  /\ sent' \in Seq(Sent) /\ DOMAIN sent' = DOMAIN sent
           /\ DOMAIN confirm_waiters' \subseteq DOMAIN sent'
           /\ confirm_waiters' \in [DOMAIN confirm_waiters' -> ConfirmWaiter]
           /\ RetryAccounting'
<1>1. Len(sent) \in Nat /\ DOMAIN sent = 1 .. Len(sent)
  BY DEF PostmanInv, PostmanTypeOK
<1>2. DOMAIN sent' = DOMAIN sent
  BY DEF Recopied
<1>3. ASSUME NEW k \in again
      PROVE  /\ confirm_waiters[k].tries_left \in 1 .. MaxRetries
             /\ Retried(confirm_waiters[k]) \in ConfirmWaiter
  BY DEF PostmanInv, PostmanTypeOK, Expired, Exhausted, ConfirmWaiter, Retried
<1>4. \A k \in DOMAIN sent : sent'[k] \in Sent
  <2> SUFFICES ASSUME NEW k \in DOMAIN sent PROVE sent'[k] \in Sent
    OBVIOUS
  <2>1. sent[k] \in Sent
    BY DEF PostmanInv, PostmanTypeOK
  <2>2. CASE k \in again
    <3>1. k \in DOMAIN confirm_waiters
      BY <2>2 DEF Expired
    <3>2. sent[k].copies + confirm_waiters[k].tries_left = MaxRetries + 1
      BY <2>1, <3>1 DEF PostmanInv, PostmanTypeOK, RetryAccounting, Sent, ConfirmWaiter
    <3>3. sent[k].copies + 1 \in 1 .. MaxRetries + 1
      BY <1>3, <2>1, <2>2, <3>2 DEF Sent
    <3>4. sent'[k] = [sent[k] EXCEPT !.copies = sent[k].copies + 1]
      BY <2>2 DEF Recopied
    <3> QED
      BY <2>1, <3>3, <3>4 DEF Sent
  <2>3. CASE k \notin again
    BY <2>1, <2>3 DEF Recopied, Sent
  <2> QED
    BY <2>2, <2>3
<1>5. sent' \in Seq(Sent)
  BY <1>1, <1>4 DEF Recopied
<1>6. /\ DOMAIN confirm_waiters' = DOMAIN confirm_waiters \ gone
      /\ confirm_waiters' \in [DOMAIN confirm_waiters' -> ConfirmWaiter]
  BY <1>3 DEF UpdateWaiters, PostmanInv, PostmanTypeOK
<1>7. RetryAccounting'
  <2> SUFFICES ASSUME NEW k \in DOMAIN sent
               PROVE  /\ k \in DOMAIN confirm_waiters' <=> sent'[k].fate = "waiting"
                      /\ k \in DOMAIN confirm_waiters' =>
                             confirm_waiters'[k].tries_left + sent'[k].copies = MaxRetries + 1
                      /\ sent'[k].fate = "failed" => sent'[k].copies = MaxRetries + 1
    BY <1>2 DEF RetryAccounting
  <2>1. sent[k] \in Sent /\ (k \in DOMAIN confirm_waiters => confirm_waiters[k] \in ConfirmWaiter)
    BY DEF PostmanInv, PostmanTypeOK
  <2>2. CASE k \in again
    <3>1. k \in DOMAIN confirm_waiters /\ k \in DOMAIN confirm_waiters'
      BY <1>6, <2>2 DEF Expired
    <3>2. /\ sent[k].fate = "waiting"
          /\ confirm_waiters[k].tries_left + sent[k].copies = MaxRetries + 1
      BY <3>1 DEF PostmanInv, RetryAccounting
    <3>3. sent'[k] = [sent[k] EXCEPT !.copies = @ + 1]
      BY <2>2 DEF Recopied
    <3>4. sent'[k].fate = "waiting" /\ sent'[k].copies = sent[k].copies + 1
      BY <2>1, <3>2, <3>3 DEF Sent
    <3>5. confirm_waiters'[k].tries_left = confirm_waiters[k].tries_left - 1
      BY <1>6, <2>2, <3>1 DEF UpdateWaiters, Retried
    <3> QED
      BY <2>1, <3>1, <3>2, <3>4, <3>5 DEF Sent, ConfirmWaiter
  <2>3. CASE k \in gone
    BY <1>6, <2>1, <2>3 DEF PostmanInv, RetryAccounting, Recopied, Sent, ConfirmWaiter, Fate
  <2>4. CASE k \notin again \cup gone
    BY <1>6, <2>1, <2>4 DEF PostmanInv, RetryAccounting, UpdateWaiters, Recopied
  <2> QED
    BY <2>2, <2>3, <2>4
<1> QED
  BY <1>2, <1>5, <1>6, <1>7 DEF PostmanInv, PostmanTypeOK

(* check_waiters returning true. *)
LEMMA CheckWaitersKeeps ==
    ASSUME PostmanInv, CheckWaiters
    PROVE  PostmanInv' /\ DOMAIN sent' = DOMAIN sent
<1>1. Expired \in SUBSET (Expired \ Exhausted) /\ {} \in SUBSET DOMAIN confirm_waiters
      /\ "waiting" \in Fate
  BY DEF CheckWaiters, Fate
<1>2. UpdateWaiters(Expired, {}) /\ sent' = Recopied(Expired, {}, "waiting")
  BY DEF CheckWaiters
<1> QED
  BY <1>1, <1>2, UpdateKeeps DEF CheckWaiters, PostmanInv, PostmanTypeOK

(* check_waiters returning false: the waiters before the first exhausted
   one are not exhausted, so each of them had a try to spend. *)
LEMMA GiveUpKeeps ==
    ASSUME PostmanInv, GiveUp
    PROVE  PostmanInv' /\ DOMAIN sent' = DOMAIN sent
<1>1. PICK k \in Exhausted :
          /\ FirstExhausted(k)
          /\ UpdateWaiters({j \in Expired : j < k}, {k})
          /\ sent' = Recopied({j \in Expired : j < k}, {k}, "failed")
  BY DEF GiveUp
<1> DEFINE before == {j \in Expired : j < k}
<1>2. Expired \subseteq Int /\ k \in Int
  BY DEF PostmanInv, PostmanTypeOK, Expired, Exhausted
<1>3. before \in SUBSET (Expired \ Exhausted) /\ before \cap {k} = {}
  <2>1. ASSUME NEW j \in before PROVE j \in Expired /\ j \notin Exhausted /\ j # k
    BY <1>1, <1>2 DEF FirstExhausted
  <2> QED
    BY <2>1
<1>4. {k} \in SUBSET DOMAIN confirm_waiters /\ confirm_waiters[k].tries_left = 0
  BY DEF Exhausted, Expired
<1>5. /\ sent' \in Seq(Sent) /\ DOMAIN sent' = DOMAIN sent
      /\ DOMAIN confirm_waiters' \subseteq DOMAIN sent'
      /\ confirm_waiters' \in [DOMAIN confirm_waiters' -> ConfirmWaiter]
      /\ RetryAccounting'
  BY <1>1, <1>3, <1>4, UpdateKeeps DEF Fate
<1> QED
  BY <1>5 DEF GiveUp, PostmanInv, PostmanTypeOK

(* What data_to_message and receive return. *)
Parsed == [type : MessageType, id : Id, ref_id : Id, result : {0, 1}, re : Nat]

(* receive returns a message of a known type. *)
LEMMA ReceivableParsed ==
    ASSUME NEW d \in Datagram, NEW m \in Receivable(d)
    PROVE  m \in Parsed
<1>1. PICK x \in DataToMessage(d) : m = Checked(x)
  BY DEF Receivable
<1>2. x \in Parsed
  <2>1. CASE d.type = "GARBLED"
    BY <1>1, <2>1 DEF DataToMessage, Datagram, Parsed, MessageType, Id
  <2>2. CASE d.type # "GARBLED"
    BY <1>1, <2>2 DEF DataToMessage, Datagram, Parsed, MessageType
  <2> QED
    BY <2>1, <2>2
<1> QED
  BY <1>1, <1>2 DEF Checked, Parsed, MessageType

(* handle_server_message. *)
LEMMA HandleServerMessageKeeps ==
    ASSUME PostmanInv, NEW m \in Parsed, HandleServerMessage(m)
    PROVE  PostmanInv' /\ DOMAIN sent' = DOMAIN sent
<1>1. ConfirmedBy(m) \in SUBSET DOMAIN confirm_waiters
  BY DEF ConfirmedBy
<1>2. /\ sent' \in Seq(Sent) /\ DOMAIN sent' = DOMAIN sent
      /\ DOMAIN confirm_waiters' \subseteq DOMAIN sent'
      /\ confirm_waiters' \in [DOMAIN confirm_waiters' -> ConfirmWaiter]
      /\ RetryAccounting'
  BY <1>1, UpdateKeeps DEF HandleServerMessage, Receive, Fate
<1>3. Wire(m.id) \in Id /\ ToInt16(m.id) \in -IdMod .. IdMod
  BY WireInId, Int16Range DEF Parsed
<1> QED
  BY <1>2, <1>3 DEF HandleServerMessage, Receive, Confirm, PostmanInv, PostmanTypeOK,
     PortAfter, Port

(* handle_user_command. *)
LEMMA UserCommandKeeps ==
    ASSUME PostmanInv, NEW cmd \in Command, NEW allowed, HandleUserCommand(cmd, allowed)
    PROVE  PostmanInv' /\ DOMAIN sent' = DOMAIN sent
BY DEF HandleUserCommand, PostmanInv, PostmanTypeOK, RetryAccounting, Command

(* Clearing is_waiting_for_reply. *)
LEMMA UnlockKeeps ==
    ASSUME PostmanInv, UnlockStdin PROVE PostmanInv' /\ DOMAIN sent' = DOMAIN sent
BY DEF UnlockStdin, PostmanInv, PostmanTypeOK, RetryAccounting

(* A step that leaves the postman alone. *)
LEMMA UnchangedKeeps ==
    ASSUME PostmanInv, UNCHANGED postman_vars
    PROVE  PostmanInv' /\ DOMAIN sent' = DOMAIN sent
BY DEF postman_vars, PostmanInv, PostmanTypeOK, RetryAccounting

(* Time passes. *)
LEMMA ElapseKeeps ==
    ASSUME PostmanInv, Elapse PROVE PostmanInv' /\ DOMAIN sent' = DOMAIN sent
<1>1. /\ DOMAIN confirm_waiters' = DOMAIN confirm_waiters
      /\ confirm_waiters' \in [DOMAIN confirm_waiters -> ConfirmWaiter]
      /\ \A k \in DOMAIN confirm_waiters :
            confirm_waiters'[k].tries_left = confirm_waiters[k].tries_left
  <2> DEFINE later(w) == [w EXCEPT !.left = IF @ < 0 THEN @ ELSE @ - 1]
  <2>1. ASSUME NEW w \in ConfirmWaiter
        PROVE  later(w) \in ConfirmWaiter /\ later(w).tries_left = w.tries_left
    <3>1. (IF w.left < 0 THEN w.left ELSE w.left - 1) \in -1 .. Timeout
      BY DEF ConfirmWaiter
    <3> QED
      BY <3>1 DEF ConfirmWaiter
  <2>2. confirm_waiters' = [k \in DOMAIN confirm_waiters |-> later(confirm_waiters[k])]
    BY DEF Elapse
  <2>3. confirm_waiters \in [DOMAIN confirm_waiters -> ConfirmWaiter]
    BY DEF PostmanInv, PostmanTypeOK
  <2> HIDE DEF later
  <2> QED
    BY <2>1, <2>2, <2>3
<1>2. sent' = sent
  BY DEF Elapse
<1>3. RetryAccounting'
  BY <1>1, <1>2 DEF PostmanInv, RetryAccounting
<1>4. PostmanTypeOK'
  BY <1>1, <1>2 DEF Elapse, PostmanInv, PostmanTypeOK
<1> QED
  BY <1>2, <1>3, <1>4 DEF PostmanInv

(* Whatever method of the postman the machine calls. *)
LEMMA PerformKeeps ==
    ASSUME PostmanInv, NEW call, Perform(call)
    PROVE  PostmanInv' /\ DOMAIN sent \subseteq DOMAIN sent'
<1>1. CASE UNCHANGED postman_vars
  BY <1>1, UnchangedKeeps
<1>2. ASSUME NEW type \in ClientType, Send(type), is_waiting_for_reply' \in BOOLEAN
      PROVE  PostmanInv' /\ DOMAIN sent \subseteq DOMAIN sent'
  BY <1>2, SendKeeps
<1>3. is_waiting_for_reply \in BOOLEAN
  BY DEF PostmanInv, PostmanTypeOK
<1> QED
  BY <1>1, <1>2, <1>3 DEF Perform, Authorize, Join, Message, Error, Bye, ClientType

-----------------------------------------------------------------------------

(* handle_server_message returns poll results. *)
LEMMA ServerResultsType ==
    ASSUME NEW m \in Parsed
    PROVE  ServerResults(m) \in Seq(PollResult)
<1>1. (m.result = 1) \in BOOLEAN
  OBVIOUS
<1>2. ServerResult(m.type, m.result) \in PollResult
  BY <1>1 DEF ServerResult, PollResult, PollResultType, Parsed
<1> QED
  BY <1>2 DEF ServerResults

(* The inductive invariant. *)
IInv == TypeOK /\ RetryAccounting

(* A position in sent, and what stands there. *)
LEMMA SentElement ==
    ASSUME PostmanInv, NEW k \in DOMAIN sent
    PROVE  k \in Nat /\ sent[k] \in Sent /\ sent[k].id \in Id
<1>1. DOMAIN sent = 1 .. Len(sent) /\ Len(sent) \in Nat /\ sent[k] \in Sent
  BY DEF PostmanInv, PostmanTypeOK
<1> QED
  BY <1>1 DEF Sent

(* What the network holds are datagrams. *)
LEMMA InFlightTyped ==
    ASSUME IInv, NEW d \in InFlight PROVE d \in Datagram
<1>1. PostmanInv /\ srv_sent \in Seq(Datagram) /\ srv_seen \subseteq DOMAIN sent
  BY DEF IInv, PostmanInv, TypeOK, ServerTypeOK
<1>2. CASE d \in SentByServer
  BY <1>1, <1>2 DEF SentByServer
<1>3. ASSUME NEW k \in srv_seen PROVE ConfirmOf(k) \in Datagram
  <2>1. sent[k].id \in Id /\ k \in Nat /\ 0 \in Id
    BY <1>1, SentElement DEF Id
  <2> QED
    BY <2>1, WireInId DEF ConfirmOf, Datagram, MessageType
<1> QED
  BY <1>2, <1>3 DEF InFlight

(* The steps of the process, one by one. *)
LEMMA ClientKeeps ==
    ASSUME IInv, ClientStep(InFlight)
    PROVE  PostmanInv' /\ ClientTypeOK' /\ DOMAIN sent \subseteq DOMAIN sent'
<1>0. PostmanInv /\ ClientTypeOK /\ srv_sent \in Seq(Datagram) /\ srv_seen \subseteq DOMAIN sent
  BY DEF IInv, PostmanInv, TypeOK, ServerTypeOK
<1>16. <<UserResult("BYE")>> \in Seq(PollResult) /\ <<UserResult("ERR")>> \in Seq(PollResult)
  BY UserResultType DEF MessageType
<1>1. CASE PollSigint
  BY <1>0, <1>1, <1>16, UnlockKeeps DEF PollSigint, EnterMethod, ReturnEarly, ClientTypeOK,
     EntryCode, ExitCode, Pc
<1>2. CASE PollGivesUp
  BY <1>0, <1>2, <1>16, GiveUpKeeps DEF PollGivesUp, EnterMethod, ReturnEarly, ClientTypeOK,
     EntryCode, ExitCode, Pc
<1>3. CASE PollBegins
  BY <1>0, <1>3, CheckWaitersKeeps DEF PollBegins, EnterMethod, ClientTypeOK,
     EntryCode, ExitCode, Pc
<1>4. CASE PollInterrupted
  BY <1>0, <1>4, <1>16, UnlockKeeps DEF PollInterrupted, ReturnEarly, ClientTypeOK,
     automata_vars, Pc
<1>5. CASE PollReturns
  BY <1>0, <1>5, CheckWaitersKeeps DEF PollReturns, ClientTypeOK, automata_vars, Pc
<1>6. CASE PollReturnGivesUp
  BY <1>0, <1>6, <1>16, GiveUpKeeps DEF PollReturnGivesUp, ReturnEarly, ClientTypeOK,
     automata_vars, Pc
<1>7. CASE ReadEof
  BY <1>0, <1>7, <1>16, UnlockKeeps DEF ReadEof, ReturnEarly, ClientTypeOK, automata_vars, Pc
<1>8. CASE ReadEmptyLine
  BY <1>0, <1>8, UnchangedKeeps DEF ReadEmptyLine, ClientTypeOK, automata_vars, Pc
<1>9. CASE SkipStdin
  BY <1>0, <1>9, UnchangedKeeps DEF SkipStdin, ClientTypeOK, automata_vars, Pc
<1>10. ASSUME NEW cmd \in Command, ReadLine(cmd)
       PROVE  PostmanInv' /\ ClientTypeOK' /\ DOMAIN sent \subseteq DOMAIN sent'
  BY <1>0, <1>10, UserCommandKeeps, UserResultsType DEF ReadLine, ClientTypeOK, automata_vars, Pc
<1>11. ASSUME NEW d \in InFlight, ReadSocket(d)
       PROVE  PostmanInv' /\ ClientTypeOK' /\ DOMAIN sent \subseteq DOMAIN sent'
  <2>1. d \in Datagram
    BY InFlightTyped
  <2>2. PICK m \in Receivable(d) :
           /\ HandleServerMessage(m)
           /\ results' = results \o ServerResults(m)
           /\ inbox' = (IF Forwards(m)
                        THEN Append(inbox, [id |-> m.id, type |-> m.type, at |-> running])
                        ELSE inbox)
           /\ pc' = AfterPoll(results \o ServerResults(m))
    BY <1>11 DEF ReadSocket
  <2>3. m \in Parsed
    BY <2>1, ReceivableParsed
  <2>4. results' \in Seq(PollResult) /\ (pc' = "handle" => results' # <<>>) /\ pc' \in Pc
    BY <1>0, <2>2, <2>3, ServerResultsType DEF ClientTypeOK, AfterPoll, Pc
  <2>5. inbox' \in Seq(Delivery)
    <3>1. [id |-> m.id, type |-> m.type, at |-> running] \in Delivery
      BY <1>0, <2>3 DEF ClientTypeOK, Delivery, Parsed
    <3> QED
      BY <1>0, <2>2, <3>1 DEF ClientTypeOK
  <2> QED
    BY <1>0, <1>11, <2>2, <2>3, <2>4, <2>5, HandleServerMessageKeeps
    DEF ReadSocket, ClientTypeOK, automata_vars
<1>12. CASE SkipSocket
  BY <1>0, <1>12, UnchangedKeeps DEF SkipSocket, AfterPoll, ClientTypeOK, automata_vars, Pc
<1>13. CASE HandleResult
  <2>1. /\ Perform(React(running, Head(results), state).call)
        /\ state' = React(running, Head(results), state).next
        /\ ret_code' \in {ret_code, "EXIT_FAILURE"}
        /\ results' = Tail(results) /\ pc = "handle"
        /\ pc' = (IF Tail(results) = <<>> THEN "top" ELSE "handle")
        /\ UNCHANGED <<running, udp_had_sigint, stdin_eof, inbox>>
    BY <1>13 DEF HandleResult
  <2>2. state' \in State
    BY <1>0, <2>1, ReactState DEF ClientTypeOK
  <2>3. results' \in Seq(PollResult)
    BY <1>0, <2>1 DEF ClientTypeOK
  <2>4. PostmanInv' /\ DOMAIN sent \subseteq DOMAIN sent'
    BY <1>0, <2>1, PerformKeeps
  <2> QED
    BY <1>0, <2>1, <2>2, <2>3, <2>4 DEF ClientTypeOK, ExitCode, Pc
<1>14. CASE Exit \/ SendFails(InFlight)
  BY <1>0, <1>14, UnchangedKeeps DEF Exit, SendFails, ClientTypeOK, automata_vars, Pc
<1>15. ASSUME NEW d \in InFlight, ReadTruncated(d)
       PROVE  PostmanInv' /\ ClientTypeOK' /\ DOMAIN sent \subseteq DOMAIN sent'
  BY <1>0, <1>15, UnchangedKeeps DEF ReadTruncated, ClientTypeOK, automata_vars, Pc
<1> QED
  BY <1>1, <1>2, <1>3, <1>4, <1>5, <1>6, <1>7, <1>8, <1>9, <1>10, <1>11, <1>12,
     <1>13, <1>14, <1>15 DEF ClientStep

(* The invariant holds when main has built the machine. *)
LEMMA InitIInv == Init => IInv
<1> SUFFICES ASSUME Init PROVE IInv
  OBVIOUS
<1>1. PostmanTypeOK /\ RetryAccounting
  <2>1. sent = <<>> /\ DOMAIN sent = {} /\ sent \in Seq(Sent)
    BY DEF Init, ClientInit, PostmanInit
  <2>2. DOMAIN confirm_waiters = {} /\ confirm_waiters = [k \in {} |-> 0]
    BY DEF Init, ClientInit, PostmanInit
  <2>3. confirm_waiters \in [DOMAIN confirm_waiters -> ConfirmWaiter]
    BY <2>2
  <2>4. 0 \in Id /\ 0 \in -IdMod .. IdMod
    BY DEF Id
  <2> QED
    BY <2>1, <2>2, <2>3, <2>4 DEF Init, ClientInit, PostmanInit, PostmanTypeOK,
       RetryAccounting, Port
<1>2. ClientTypeOK
  <2>1. results \in Seq(PollResult) /\ inbox \in Seq(Delivery)
    BY DEF Init, ClientInit
  <2> QED
    BY <2>1 DEF Init, ClientInit, ClientTypeOK, State, ExitCode, Pc
<1>3. ServerTypeOK
  BY DEF Init, ServerTypeOK
<1> QED
  BY <1>1, <1>2, <1>3 DEF IInv, TypeOK

(* Every step of the client, the server, the user and the clock keeps it. *)
LEMMA NextIInv == IInv /\ [Next]_vars => IInv'
<1> SUFFICES ASSUME IInv, [Next]_vars PROVE IInv'
  OBVIOUS
<1>0. PostmanInv /\ ClientTypeOK /\ srv_sent \in Seq(Datagram) /\ srv_seen \subseteq DOMAIN sent
  BY DEF IInv, PostmanInv, TypeOK, ServerTypeOK
<1>1. CASE Client
  BY <1>0, <1>1, ClientKeeps DEF Client, server_vars, IInv, TypeOK, ServerTypeOK, PostmanInv
<1>2. ASSUME NEW k \in DOMAIN sent, ServerReceives(k) PROVE IInv'
  <2>1. PostmanInv' /\ sent' = sent
    BY <1>0, <1>2, UnchangedKeeps DEF ServerReceives, client_vars, postman_vars
  <2> QED
    BY <1>0, <1>2, <2>1 DEF ServerReceives, client_vars, automata_vars, IInv, TypeOK, ServerTypeOK,
       PostmanInv, ClientTypeOK
<1>3. ASSUME NEW d \in Datagram, ServerSends(d) PROVE IInv'
  <2>1. PostmanInv' /\ sent' = sent
    BY <1>0, <1>3, UnchangedKeeps DEF ServerSends, client_vars, postman_vars
  <2> QED
    BY <1>0, <1>3, <2>1 DEF ServerSends, client_vars, automata_vars, IInv, TypeOK, ServerTypeOK,
       PostmanInv, ClientTypeOK
<1>4. NextServerId \in Id /\ 0 \in Id
  BY <1>0, ServerAssumption DEF NextServerId, Id
<1>5. ASSUME NEW k \in srv_seen, NEW result \in {0, 1}, ServerReplies(k, result) PROVE IInv'
  <2>1. sent[k].id \in Id /\ k \in Nat
    BY <1>0, SentElement
  <2> DEFINE d == [type |-> "REPLY", id |-> NextServerId,
                   ref_id |-> Wire(sent[k].id), result |-> result, re |-> k]
  <2>2. d \in Datagram
    BY <1>4, <2>1, WireInId DEF Datagram, MessageType
  <2>3. ServerSends(d)
    BY <1>5 DEF ServerReplies
  <2> QED
    BY <1>3, <2>2, <2>3
<1>6. ASSUME NEW type \in ServerTypes, ServerSpeaks(type) PROVE IInv'
  <2> DEFINE d == [type |-> type, id |-> NextServerId, ref_id |-> 0, result |-> 0, re |-> 0]
  <2>1. d \in Datagram
    BY <1>4, ServerAssumption DEF Datagram, MessageType
  <2>2. ServerSends(d)
    BY <1>6 DEF ServerSpeaks
  <2> QED
    BY <1>3, <2>1, <2>2
<1>7. CASE (Sigint \/ CloseStdin) /\ UNCHANGED server_vars
  <2>1. PostmanInv' /\ sent' = sent
    BY <1>0, <1>7, UnchangedKeeps DEF Sigint, CloseStdin, postman_vars
  <2> QED
    BY <1>0, <1>7, <2>1 DEF Sigint, CloseStdin, automata_vars, server_vars, IInv, TypeOK,
       ServerTypeOK, PostmanInv, ClientTypeOK
<1>8. CASE Clock
  <2>1. PostmanInv' /\ DOMAIN sent' = DOMAIN sent
    BY <1>0, <1>8, ElapseKeeps DEF Clock, Tick
  <2> QED
    BY <1>0, <1>8, <2>1 DEF Clock, Tick, automata_vars, server_vars, IInv, TypeOK, ServerTypeOK,
       PostmanInv, ClientTypeOK
<1>9. CASE UNCHANGED vars
  <2>1. PostmanInv' /\ sent' = sent
    BY <1>0, <1>9, UnchangedKeeps DEF vars, client_vars, postman_vars
  <2> QED
    BY <1>0, <1>9, <2>1 DEF vars, client_vars, automata_vars, server_vars, IInv, TypeOK,
       ServerTypeOK, PostmanInv, ClientTypeOK
<1> QED
  BY <1>0, <1>1, <1>2, <1>5, <1>6, <1>7, <1>8, <1>9 DEF Next, Environment, Terminated

(* The inductive invariant holds in every reachable state. *)
THEOREM Invariance == Spec => []IInv
BY InitIInv, NextIInv, PTL DEF Spec

(* Every variable always has its type; in particular the uint8_t tries_left
   is never decremented at 0, and every waiter is a message that was sent. *)
THEOREM TypeCorrect == Spec => []TypeOK
BY Invariance, PTL DEF IInv

(* For any limit: no message is sent more than 1 + MaxRetries times, one that
   waits has exactly the unused tries left, and "Message not confirmed" is
   reported only of a message that was sent that often. *)
THEOREM RetriesCorrect == Spec => []RetryAccounting
BY Invariance, PTL DEF IInv

-----------------------------------------------------------------------------
(* As long as no more than ByteMod messages have been sent, the id of a
   message is its position less one, and fits in the byte that is sent. *)

IdsInOrder ==
    Len(sent) <= ByteMod =>
        /\ \A k \in DOMAIN sent : sent[k].id = k - 1
        /\ Len(sent) < ByteMod => msg_id = Len(sent)

(* CONFIRMs answer a message; the rest of what the server sends are not. *)
NoConfirmByServer == \A d \in SentByServer : d.type # "CONFIRM"

(* The invariant behind ConfirmedWasReceived. *)
ConfirmInv == IInv /\ IdsInOrder /\ NoConfirmByServer /\ ConfirmedWasReceived

(* What every step but a Send and the receipt of a CONFIRM does to the
   messages sent. *)
NoNews ==
    /\ msg_id' = msg_id
    /\ DOMAIN sent' = DOMAIN sent
    /\ Len(sent') = Len(sent)
    /\ \A k \in DOMAIN sent :
          /\ sent'[k].id = sent[k].id
          /\ sent'[k].fate = "confirmed" => sent[k].fate = "confirmed"

(* An id below ByteMod is transmitted as it is. *)
LEMMA WireExact ==
    ASSUME NEW n \in 0 .. ByteMod - 1 PROVE Wire(n) = n
BY DEF Wire

(* Updating the waiting list leaves the ids alone and confirms only what
   it is told to. *)
LEMMA RecopiedDomain ==
    ASSUME PostmanInv, NEW again, NEW gone, NEW fate \in Fate,
           sent' = Recopied(again, gone, fate)
    PROVE  /\ DOMAIN sent' = DOMAIN sent /\ Len(sent') = Len(sent)
           /\ \A k \in DOMAIN sent :
                 /\ sent'[k].id = sent[k].id
                 /\ sent'[k].fate = "confirmed" =>
                        sent[k].fate = "confirmed" \/ (k \in gone /\ fate = "confirmed")
<1>1. DOMAIN sent = 1 .. Len(sent) /\ Len(sent) \in Nat /\ \A k \in DOMAIN sent : sent[k] \in Sent
  BY DEF PostmanInv, PostmanTypeOK
<1>2. DOMAIN sent' = DOMAIN sent /\ Len(sent') = Len(sent)
  BY <1>1 DEF Recopied
<1>3. ASSUME NEW k \in DOMAIN sent
      PROVE  /\ sent'[k].id = sent[k].id
             /\ sent'[k].fate = "confirmed" =>
                    sent[k].fate = "confirmed" \/ (k \in gone /\ fate = "confirmed")
  BY <1>1 DEF Recopied, Sent
<1> QED
  BY <1>2, <1>3

(* A step that confirms nothing and numbers nothing. *)
LEMMA QuietKeeps ==
    ASSUME ConfirmInv, NoNews, srv_seen \subseteq srv_seen'
    PROVE  IdsInOrder' /\ ConfirmedWasReceived'
BY DEF ConfirmInv, NoNews, IdsInOrder, ConfirmedWasReceived

(* A new message gets its position less one for an id, and is unconfirmed. *)
LEMMA SendIds ==
    ASSUME ConfirmInv, NEW type \in ClientType, Send(type), srv_seen' = srv_seen
    PROVE  IdsInOrder' /\ ConfirmedWasReceived'
<1>1. Len(sent) \in Nat /\ DOMAIN sent = 1 .. Len(sent) /\ sent \in Seq(Sent)
  BY DEF ConfirmInv, IInv, TypeOK, PostmanTypeOK
<1>2. /\ Len(sent') = Len(sent) + 1 /\ DOMAIN sent' = 1 .. Len(sent) + 1
      /\ \A k \in DOMAIN sent : sent'[k] = sent[k]
      /\ sent'[Len(sent) + 1].id = msg_id /\ sent'[Len(sent) + 1].fate = "waiting"
  BY <1>1 DEF Send
<1>3. msg_id' = (IF msg_id + 1 = IdMod THEN 0 ELSE msg_id + 1)
  BY DEF Send
<1>4. IdsInOrder'
  BY <1>1, <1>2, <1>3 DEF ConfirmInv, IdsInOrder
<1>5. ConfirmedWasReceived'
  BY <1>1, <1>2 DEF ConfirmInv, ConfirmedWasReceived
<1> QED
  BY <1>4, <1>5

(* A CONFIRM takes only the message it was sent for off the list: its
   ref_id is the exact id of a message the server has received, and no two
   messages share it. *)
LEMMA ReceiveIds ==
    ASSUME ConfirmInv, NEW d \in InFlight, NEW m \in Receivable(d),
           HandleServerMessage(m), srv_seen' = srv_seen
    PROVE  IdsInOrder' /\ ConfirmedWasReceived'
<1>0. PostmanInv /\ srv_seen \subseteq DOMAIN sent /\ Len(sent) \in Nat
      /\ DOMAIN sent = 1 .. Len(sent)
  BY DEF ConfirmInv, IInv, TypeOK, PostmanInv, PostmanTypeOK, ServerTypeOK
<1>1. msg_id' = msg_id /\ sent' = Recopied({}, ConfirmedBy(m), "confirmed")
  BY DEF HandleServerMessage, Receive
<1>2. /\ DOMAIN sent' = DOMAIN sent /\ Len(sent') = Len(sent)
      /\ \A k \in DOMAIN sent :
            /\ sent'[k].id = sent[k].id
            /\ sent'[k].fate = "confirmed" =>
                   sent[k].fate = "confirmed" \/ k \in ConfirmedBy(m)
  BY <1>0, <1>1, RecopiedDomain DEF Fate
<1>3. ASSUME Len(sent) <= ByteMod, NEW k \in ConfirmedBy(m)
      PROVE  k \in srv_seen
  <2>1. m.type = "CONFIRM" /\ k \in DOMAIN sent /\ sent[k].id = m.ref_id
    BY <1>0, <1>3 DEF ConfirmedBy, PostmanInv, PostmanTypeOK
  <2>2. PICK x \in DataToMessage(d) : m = Checked(x)
    BY DEF Receivable
  <2>3. d.type = "CONFIRM" /\ m = d
    <3>1. x.type = "CONFIRM" /\ m = x
      <4>1. CASE x.type = "REPLY" /\ ~AnswersLastSent(x)
        BY <2>1, <2>2, <4>1 DEF Checked
      <4>2. CASE ~(x.type = "REPLY" /\ ~AnswersLastSent(x))
        BY <2>1, <2>2, <4>2 DEF Checked
      <4> QED
        BY <4>1, <4>2
    <3>2. d.type # "GARBLED"
      <4>1. d \in Datagram
        BY InFlightTyped DEF ConfirmInv
      <4> QED
        BY <2>2, <3>1, <4>1 DEF DataToMessage, Datagram
    <3>3. DataToMessage(d) \subseteq {d}
      BY <3>2 DEF DataToMessage
    <3> QED
      BY <2>2, <3>1, <3>3
  <2>4. PICK j \in srv_seen : d = ConfirmOf(j)
    BY <2>3 DEF InFlight, ConfirmInv, NoConfirmByServer
  <2>5. sent[j].id = j - 1 /\ sent[k].id = k - 1 /\ j \in 1 .. ByteMod
    <3>1. j \in DOMAIN sent
      BY <1>0, <2>4
    <3> QED
      BY <1>0, <1>3, <2>1, <3>1 DEF ConfirmInv, IdsInOrder
  <2>6. m.ref_id = Wire(j - 1) /\ Wire(j - 1) = j - 1
    <3>1. m.ref_id = Wire(sent[j].id)
      BY <2>3, <2>4 DEF ConfirmOf
    <3>2. j - 1 \in 0 .. ByteMod - 1
      BY <2>5
    <3> QED
      BY <2>5, <3>1, <3>2, WireExact
  <2>7. k - 1 = j - 1
    BY <2>1, <2>5, <2>6
  <2>8. k \in Int /\ j \in Int
    BY <1>0, <2>1, <2>5
  <2>9. k = j
    BY <2>7, <2>8
  <2> QED
    BY <2>4, <2>9
<1>4. IdsInOrder'
  BY <1>1, <1>2 DEF ConfirmInv, IdsInOrder
<1>5. ConfirmedWasReceived'
  BY <1>2, <1>3 DEF ConfirmInv, ConfirmedWasReceived
<1> QED
  BY <1>4, <1>5

(* The steps of the process, by what they do to the messages sent. *)
LEMMA ClientIds ==
    ASSUME ConfirmInv, ClientStep(InFlight), UNCHANGED server_vars
    PROVE  IdsInOrder' /\ ConfirmedWasReceived'
<1>0. PostmanInv /\ srv_seen' = srv_seen
  BY DEF ConfirmInv, IInv, TypeOK, PostmanInv, server_vars
<1>1. ASSUME NoNews PROVE IdsInOrder' /\ ConfirmedWasReceived'
  BY <1>0, <1>1, QuietKeeps
<1>2. CASE CheckWaiters
  <2>1. msg_id' = msg_id /\ sent' = Recopied(Expired, {}, "waiting") /\ "waiting" \in Fate
    BY <1>2 DEF CheckWaiters, Fate
  <2> QED
    BY <1>0, <1>1, <2>1, RecopiedDomain DEF NoNews
<1>3. CASE GiveUp
  <2>1. PICK k \in Exhausted : sent' = Recopied({j \in Expired : j < k}, {k}, "failed")
    BY <1>3 DEF GiveUp
  <2>2. msg_id' = msg_id /\ "failed" \in Fate
    BY <1>3 DEF GiveUp, Fate
  <2>3. NoNews
    <3> DEFINE before == {j \in Expired : j < k}
               gone == {k}
    <3>1. sent' = Recopied(before, gone, "failed")
      BY <2>1
    <3> HIDE DEF before, gone
    <3> QED
      BY <1>0, <2>2, <3>1, RecopiedDomain DEF NoNews
  <2> QED
    BY <1>1, <2>3
<1>4. CASE msg_id' = msg_id /\ sent' = sent
  BY <1>1, <1>4 DEF NoNews
<1>5. ASSUME NEW call, Perform(call) PROVE IdsInOrder' /\ ConfirmedWasReceived'
  <2>1. ASSUME NEW type \in ClientType, Send(type)
        PROVE  IdsInOrder' /\ ConfirmedWasReceived'
    BY <1>0, <2>1, SendIds
  <2> QED
    BY <1>4, <1>5, <2>1 DEF Perform, Authorize, Join, Message, Error, Bye, ClientType, postman_vars
<1>6. ASSUME NEW d \in InFlight, ReadSocket(d) PROVE IdsInOrder' /\ ConfirmedWasReceived'
  BY <1>0, <1>6, ReceiveIds DEF ReadSocket
<1>7. ASSUME NEW cmd \in Command, ReadLine(cmd) PROVE IdsInOrder' /\ ConfirmedWasReceived'
  BY <1>4, <1>7 DEF ReadLine, HandleUserCommand
<1>8. ASSUME NEW d \in InFlight, ReadTruncated(d) PROVE IdsInOrder' /\ ConfirmedWasReceived'
  BY <1>4, <1>8 DEF ReadTruncated, postman_vars
<1>9. CASE PollSigint \/ PollInterrupted \/ ReadEof
  BY <1>4, <1>9 DEF PollSigint, PollInterrupted, ReadEof, UnlockStdin
<1>10. CASE PollGivesUp \/ PollReturnGivesUp
  BY <1>3, <1>10 DEF PollGivesUp, PollReturnGivesUp
<1>11. CASE PollBegins \/ PollReturns
  BY <1>2, <1>11 DEF PollBegins, PollReturns
<1>12. CASE ReadEmptyLine \/ SkipStdin \/ SkipSocket \/ SendFails(InFlight) \/ Exit
  BY <1>4, <1>12 DEF ReadEmptyLine, SkipStdin, SkipSocket, SendFails, Exit, postman_vars
<1>13. CASE HandleResult
  BY <1>5, <1>13 DEF HandleResult
<1> QED
  BY <1>6, <1>7, <1>8, <1>9, <1>10, <1>11, <1>12, <1>13 DEF ClientStep

(* Nothing has been sent at the start. *)
LEMMA InitConfirm == Init => ConfirmInv
<1> SUFFICES ASSUME Init PROVE ConfirmInv
  OBVIOUS
<1>1. sent = <<>> /\ DOMAIN sent = {} /\ Len(sent) = 0 /\ msg_id = 0
  BY DEF Init, ClientInit, PostmanInit
<1>2. SentByServer = {}
  BY DEF Init, SentByServer
<1> QED
  BY <1>1, <1>2, InitIInv DEF ConfirmInv, IdsInOrder, ConfirmedWasReceived, NoConfirmByServer

(* Every step keeps the invariant. *)
LEMMA NextConfirm == ConfirmInv /\ [Next]_vars => ConfirmInv'
<1> SUFFICES ASSUME ConfirmInv, [Next]_vars PROVE ConfirmInv'
  OBVIOUS
<1>0. IInv /\ IInv' /\ srv_sent \in Seq(Datagram)
  BY NextIInv DEF ConfirmInv, IInv, TypeOK, ServerTypeOK
<1>1. ASSUME srv_sent' = srv_sent PROVE NoConfirmByServer'
  BY <1>1 DEF ConfirmInv, NoConfirmByServer, SentByServer
<1>2. ASSUME msg_id' = msg_id, sent' = sent, srv_seen \subseteq srv_seen'
      PROVE  IdsInOrder' /\ ConfirmedWasReceived'
  BY <1>2, QuietKeeps DEF NoNews
<1>3. CASE Client
  BY <1>0, <1>1, <1>3, ClientIds DEF Client, server_vars, ConfirmInv
<1>4. ASSUME NEW k \in DOMAIN sent, ServerReceives(k) PROVE ConfirmInv'
  BY <1>0, <1>1, <1>2, <1>4 DEF ServerReceives, client_vars, postman_vars, ConfirmInv
<1>5. ASSUME NEW d, d.type # "CONFIRM", ServerSends(d) PROVE ConfirmInv'
  <2>1. srv_sent' = Append(srv_sent, d) /\ msg_id' = msg_id /\ sent' = sent /\ srv_seen' = srv_seen
    BY <1>5 DEF ServerSends, client_vars, postman_vars
  <2>2. \A e \in SentByServer' : e \in SentByServer \/ e = d
    BY <1>0, <2>1 DEF SentByServer
  <2>3. NoConfirmByServer'
    BY <1>5, <2>2 DEF ConfirmInv, NoConfirmByServer
  <2> QED
    BY <1>0, <1>2, <2>1, <2>3 DEF ConfirmInv
<1>6. ASSUME NEW k \in srv_seen, NEW result \in {0, 1}, ServerReplies(k, result)
      PROVE  ConfirmInv'
  BY <1>5, <1>6 DEF ServerReplies
<1>7. ASSUME NEW type \in ServerTypes, ServerSpeaks(type) PROVE ConfirmInv'
  BY <1>5, <1>7, ServerAssumption DEF ServerSpeaks
<1>8. CASE (Sigint \/ CloseStdin) /\ UNCHANGED server_vars
  BY <1>0, <1>1, <1>2, <1>8 DEF Sigint, CloseStdin, postman_vars, server_vars, ConfirmInv
<1>9. CASE Clock
  BY <1>0, <1>1, <1>2, <1>9 DEF Clock, Tick, Elapse, server_vars, ConfirmInv
<1>10. CASE UNCHANGED vars
  BY <1>0, <1>1, <1>2, <1>10 DEF vars, client_vars, postman_vars, server_vars, ConfirmInv
<1> QED
  BY <1>3, <1>4, <1>6, <1>7, <1>8, <1>9, <1>10 DEF Next, Environment, Terminated

(* In a session of at most ByteMod messages a message counts as confirmed
   only if the server has received it, however CONFIRMs are delayed, repeated
   and reordered, and for any retry limit and timeout. *)
THEOREM ConfirmationsCorrect == Spec => []ConfirmedWasReceived
<1>1. ConfirmInv => ConfirmedWasReceived
  BY DEF ConfirmInv
<1> QED
  BY <1>1, InitConfirm, NextConfirm, PTL DEF Spec

-----------------------------------------------------------------------------
(* Which results are pending at which point of the cycle, and that S_END is
   reached with the last of them. *)
CycleShape ==
    /\ pc \in {"top", "poll", "stdin"} => results = <<>>
    /\ pc = "socket" => results = <<>> \/ (Len(results) = 1 /\ FromUser(results[1]))
    /\ pc = "handle" => \/ Len(results) = 1
                        \/ Len(results) = 2 /\ FromUser(results[1]) /\ results[2].source = "SERVER"
    /\ state = "S_END" => pc \in {"top", "exited"}

(* A BYE is sent only on the way to S_END. *)
ByeEnds == \A k \in DOMAIN sent : sent[k].type = "BYE" => state = "S_END"

(* While a command of the user is pending, nothing is waiting. *)
UserClear ==
    pc \in {"socket", "handle"} /\ results # <<>> /\ FromUser(results[1]) =>
        DOMAIN confirm_waiters = {} /\ ~is_waiting_for_reply

OrderInv ==
    /\ IInv /\ CycleShape /\ ByeEnds /\ UserClear
    /\ NothingAfterBye /\ OneUserMessageOutstanding

(* The session is over, or will be with the pending result. *)
Ending ==
    \/ state = "S_END" \/ pc = "aborted"
    \/ pc = "handle" /\ Final(results[1])

(* last_sent_message is what its name says. *)
LastSent ==
    sent # <<>> => last_sent_message = [type |-> sent[Len(sent)].type, id |-> sent[Len(sent)].id]

(* Until the ids wrap around, the id of a message is its position less one. *)
IdsArePositions ==
    Len(sent) <= IdMod =>
        /\ \A k \in DOMAIN sent : sent[k].id = k - 1
        /\ Len(sent) < IdMod => msg_id = Len(sent)

(* A REPLY refers to the low byte of the id of a request. *)
RepliesFit ==
    \A d \in SentByServer :
        /\ d.type # "CONFIRM"
        /\ d.type = "REPLY" => /\ d.re \in DOMAIN sent
                               /\ sent[d.re].type \in Request
                               /\ d.ref_id = Wire(sent[d.re].id)

(* stdin is locked while an answer is due, unless the session is over. *)
LockedUntilAnswered ==
    Len(sent) <= IdMod =>
        \A j \in DOMAIN sent :
            sent[j].type \in Request /\ ~Answered(j) => is_waiting_for_reply \/ Ending

AnswerInv ==
    /\ OrderInv /\ LastSent /\ IdsArePositions /\ RepliesFit
    /\ LockedUntilAnswered /\ RequestsAnsweredFirst

-----------------------------------------------------------------------------
(* What every step but the sending of a message leaves alone. *)
NothingSaid ==
    /\ DOMAIN sent' = DOMAIN sent /\ Len(sent') = Len(sent)
    /\ \A k \in DOMAIN sent : sent'[k].type = sent[k].type /\ sent'[k].id = sent[k].id
    /\ DOMAIN confirm_waiters' \subseteq DOMAIN confirm_waiters
    /\ msg_id' = msg_id /\ last_sent_message' = last_sent_message

(* Updating the waiting list changes neither what was said nor its ids. *)
LEMMA UpdateSaysNothing ==
    ASSUME PostmanInv, NEW again, NEW gone, NEW fate,
           UpdateWaiters(again, gone), sent' = Recopied(again, gone, fate),
           msg_id' = msg_id, last_sent_message' = last_sent_message
    PROVE  NothingSaid
<1>1. DOMAIN sent = 1 .. Len(sent) /\ Len(sent) \in Nat /\ \A k \in DOMAIN sent : sent[k] \in Sent
  BY DEF PostmanInv, PostmanTypeOK
<1>2. DOMAIN sent' = DOMAIN sent /\ Len(sent') = Len(sent)
  BY <1>1 DEF Recopied
<1>3. ASSUME NEW k \in DOMAIN sent
      PROVE  sent'[k].type = sent[k].type /\ sent'[k].id = sent[k].id
  BY <1>1 DEF Recopied, Sent
<1>4. DOMAIN confirm_waiters' \subseteq DOMAIN confirm_waiters
  BY DEF UpdateWaiters
<1> QED
  BY <1>2, <1>3, <1>4 DEF NothingSaid

(* The methods of the postman that send nothing new. *)
LEMMA QuietMethods ==
    ASSUME PostmanInv
    PROVE  /\ CheckWaiters => NothingSaid
           /\ GiveUp => NothingSaid
           /\ \A m : HandleServerMessage(m) => NothingSaid
           /\ \A cmd, allowed : HandleUserCommand(cmd, allowed) => NothingSaid
           /\ UnlockStdin => NothingSaid
           /\ Elapse => NothingSaid
           /\ UNCHANGED postman_vars => NothingSaid
<1>1. ASSUME CheckWaiters PROVE NothingSaid
  BY <1>1, UpdateSaysNothing DEF CheckWaiters
<1>2. ASSUME GiveUp PROVE NothingSaid
  <2>1. PICK k \in Exhausted :
           /\ UpdateWaiters({j \in Expired : j < k}, {k})
           /\ sent' = Recopied({j \in Expired : j < k}, {k}, "failed")
    BY <1>2 DEF GiveUp
  <2> DEFINE before == {j \in Expired : j < k}
             gone == {k}
  <2>2. UpdateWaiters(before, gone) /\ sent' = Recopied(before, gone, "failed")
    BY <2>1
  <2>3. msg_id' = msg_id /\ last_sent_message' = last_sent_message
    BY <1>2 DEF GiveUp
  <2> HIDE DEF before, gone
  <2> QED
    BY <2>2, <2>3, UpdateSaysNothing
<1>3. ASSUME NEW m, HandleServerMessage(m) PROVE NothingSaid
  <2>1. UpdateWaiters({}, ConfirmedBy(m)) /\ sent' = Recopied({}, ConfirmedBy(m), "confirmed")
    BY <1>3 DEF HandleServerMessage, Receive
  <2>2. msg_id' = msg_id /\ last_sent_message' = last_sent_message
    BY <1>3 DEF HandleServerMessage
  <2> QED
    BY <2>1, <2>2, UpdateSaysNothing
<1>4. ASSUME sent' = sent, msg_id' = msg_id, last_sent_message' = last_sent_message,
             DOMAIN confirm_waiters' = DOMAIN confirm_waiters
      PROVE  NothingSaid
  BY <1>4 DEF NothingSaid
<1>5. ASSUME NEW cmd, NEW allowed, HandleUserCommand(cmd, allowed) PROVE NothingSaid
  BY <1>4, <1>5 DEF HandleUserCommand
<1>6. ASSUME UnlockStdin PROVE NothingSaid
  BY <1>4, <1>6 DEF UnlockStdin
<1>7. ASSUME Elapse PROVE NothingSaid
  BY <1>4, <1>7 DEF Elapse
<1>8. ASSUME UNCHANGED postman_vars PROVE NothingSaid
  BY <1>4, <1>8 DEF postman_vars
<1> QED
  BY <1>1, <1>2, <1>3, <1>5, <1>6, <1>7, <1>8

(* Only the handling of a result says something. *)
LEMMA OnlyResultsSpeak ==
    ASSUME IInv, [Next]_vars, ~(Client /\ HandleResult)
    PROVE  NothingSaid
<1>0. PostmanInv
  BY DEF IInv, TypeOK, PostmanInv
<1>1. ASSUME Client PROVE NothingSaid
  <2>1. ClientStep(InFlight) /\ ~HandleResult
    BY <1>1 DEF Client
  <2>2. CASE PollSigint \/ PollInterrupted \/ ReadEof
    BY <1>0, <2>2, QuietMethods DEF PollSigint, PollInterrupted, ReadEof
  <2>3. CASE PollGivesUp \/ PollReturnGivesUp
    BY <1>0, <2>3, QuietMethods DEF PollGivesUp, PollReturnGivesUp
  <2>4. CASE PollBegins \/ PollReturns
    BY <1>0, <2>4, QuietMethods DEF PollBegins, PollReturns
  <2>5. CASE ReadEmptyLine \/ SkipStdin \/ SkipSocket \/ SendFails(InFlight) \/ Exit
    BY <1>0, <2>5, QuietMethods DEF ReadEmptyLine, SkipStdin, SkipSocket, SendFails, Exit
  <2>6. CASE \E cmd \in Command : ReadLine(cmd)
    BY <1>0, <2>6, QuietMethods DEF ReadLine
  <2>7. CASE \E d \in InFlight : ReadSocket(d) \/ ReadTruncated(d)
    BY <1>0, <2>7, QuietMethods DEF ReadSocket, ReadTruncated
  <2> QED
    BY <2>1, <2>2, <2>3, <2>4, <2>5, <2>6, <2>7 DEF ClientStep
<1>2. CASE Environment
  BY <1>0, <1>2, QuietMethods DEF Environment, ServerReceives, ServerReplies, ServerSpeaks,
     ServerSends, Sigint, CloseStdin, client_vars
<1>3. CASE Clock
  BY <1>0, <1>3, QuietMethods DEF Clock, Tick
<1>4. CASE UNCHANGED vars
  BY <1>0, <1>4, QuietMethods DEF vars, client_vars
<1> QED
  BY <1>1, <1>2, <1>3, <1>4 DEF Next, Terminated

-----------------------------------------------------------------------------
(* The shape of a cycle. *)

(* The server, the user and the clock do not touch the machine. *)
LEMMA WorldKeepsMachine ==
    ASSUME [Next]_vars, ~Client
    PROVE  UNCHANGED <<state, pc, results>>
<1>1. CASE Environment
  BY <1>1 DEF Environment, ServerReceives, ServerReplies, ServerSpeaks, ServerSends, Sigint,
     CloseStdin, client_vars, automata_vars
<1>2. CASE Clock
  BY <1>2 DEF Clock, Tick, automata_vars
<1>3. CASE UNCHANGED vars
  BY <1>3 DEF vars, client_vars, automata_vars
<1> QED
  BY <1>1, <1>2, <1>3 DEF Next, Terminated

(* The state changes only when a result is handled. *)
LEMMA StateKept ==
    ASSUME [Next]_vars, ~(Client /\ HandleResult)
    PROVE  state' = state
<1>1. CASE Client
  BY <1>1 DEF Client, ClientStep, PollSigint, PollGivesUp, PollBegins, PollInterrupted,
     PollReturns, PollReturnGivesUp, ReadEof, ReadEmptyLine, SkipStdin, ReadLine, ReadSocket,
     ReadTruncated, SkipSocket, SendFails, Exit, EnterMethod, automata_vars
<1> QED
  BY <1>1, WorldKeepsMachine

(* A process that has ended takes no step. *)
LEMMA GoneForGood == Gone => ~Client
BY DEF Gone, Client, ClientStep, PollSigint, PollGivesUp, PollBegins, PollInterrupted,
   PollReturns, PollReturnGivesUp, ReadEof, ReadEmptyLine, SkipStdin, ReadLine, ReadSocket,
   ReadTruncated, SkipSocket, HandleResult, SendFails, Exit, EnterMethod

(* Handling a result takes it off the list; the rest is the server's. *)
LEMMA HandleShape ==
    ASSUME IInv, CycleShape, HandleResult
    PROVE  /\ state # "S_END" /\ pc = "handle" /\ Head(results) = results[1]
           /\ \/ results' = <<>> /\ pc' = "top"
              \/ /\ FromUser(results[1]) /\ pc' = "handle"
                 /\ Len(results') = 1 /\ results'[1].source = "SERVER"
<1>1. results \in Seq(PollResult) /\ results # <<>> /\ pc = "handle"
  BY DEF IInv, TypeOK, ClientTypeOK, HandleResult
<1>2. results' = Tail(results) /\ pc' = (IF Tail(results) = <<>> THEN "top" ELSE "handle")
  BY DEF HandleResult
<1>3. CASE Len(results) = 1
  BY <1>1, <1>2, <1>3 DEF CycleShape
<1>4. CASE Len(results) = 2 /\ FromUser(results[1]) /\ results[2].source = "SERVER"
  <2>1. Len(results') = 1 /\ results'[1] = results[2] /\ results' # <<>>
    BY <1>1, <1>2, <1>4, TailOfTwo
  <2> QED
    BY <1>1, <1>2, <1>4, <2>1 DEF CycleShape
<1> QED
  BY <1>1, <1>3, <1>4 DEF CycleShape

(* The results of the socket are appended to those of stdin. *)
LEMMA SocketShape ==
    ASSUME IInv, CycleShape, NEW d \in InFlight, ReadSocket(d)
    PROVE  CycleShape'
<1>1. results \in Seq(PollResult) /\ pc = "socket" /\ state' = state
  BY DEF IInv, TypeOK, ClientTypeOK, ReadSocket, automata_vars
<1>2. PICK m \in Receivable(d) :
         /\ results' = results \o ServerResults(m)
         /\ pc' = AfterPoll(results \o ServerResults(m))
  BY DEF ReadSocket
<1>3. m \in Parsed
  BY InFlightTyped, ReceivableParsed
<1>4. ServerResults(m) \in Seq(PollResult)
  BY <1>3, ServerResultsType
<1>5. \/ ServerResults(m) = <<>>
      \/ ServerResults(m) = <<ServerResult(m.type, m.result)>>
  BY DEF ServerResults
<1>6. state' # "S_END" /\ pc' \in {"top", "handle"} /\ (pc' = "top" <=> results' = <<>>)
  BY <1>1, <1>2 DEF CycleShape, AfterPoll
<1>7. CASE ServerResults(m) = <<>>
  <2>1. results' = results
    BY <1>1, <1>2, <1>7
  <2> QED
    BY <1>1, <1>6, <2>1 DEF CycleShape
<1>8. CASE ServerResults(m) = <<ServerResult(m.type, m.result)>>
  <2>1. Len(ServerResults(m)) = 1 /\ ServerResults(m)[1].source = "SERVER"
    BY <1>8 DEF ServerResult
  <2>2. CASE results = <<>>
    <3>1. Len(results') = 1
      BY <1>1, <1>2, <1>4, <2>1, <2>2
    <3> QED
      BY <1>6, <3>1 DEF CycleShape
  <2>3. CASE Len(results) = 1 /\ FromUser(results[1])
    <3>1. Len(results') = 2 /\ results'[1] = results[1] /\ results'[2] = ServerResults(m)[1]
      BY <1>1, <1>2, <1>4, <2>1, <2>3, OneAndOne
    <3>2. results' # <<>>
      BY <3>1
    <3> QED
      BY <1>6, <2>1, <2>3, <3>1, <3>2 DEF CycleShape
  <2> QED
    BY <1>1, <2>2, <2>3 DEF CycleShape
<1> QED
  BY <1>5, <1>7, <1>8

(* Every step keeps the shape. *)
LEMMA ShapeKeeps ==
    ASSUME IInv, CycleShape, [Next]_vars
    PROVE  CycleShape'
<1>1. CASE Client
  <2>1. CASE PollSigint \/ PollGivesUp \/ PollInterrupted \/ PollReturnGivesUp \/ ReadEof
    <3>1. Len(results') = 1 /\ pc' = "handle"
      BY <2>1 DEF PollSigint, PollGivesUp, PollInterrupted, PollReturnGivesUp, ReadEof, ReturnEarly
    <3>2. state' = state /\ state # "S_END"
      BY <2>1 DEF PollSigint, PollGivesUp, PollInterrupted, PollReturnGivesUp, ReadEof,
         EnterMethod, automata_vars, CycleShape
    <3> QED
      BY <3>1, <3>2 DEF CycleShape
  <2>2. CASE PollBegins \/ PollReturns \/ SkipStdin \/ ReadEmptyLine \/ Exit
             \/ SendFails(InFlight)
    BY <2>2 DEF PollBegins, PollReturns, SkipStdin, ReadEmptyLine, Exit, SendFails,
       EnterMethod, automata_vars, CycleShape
  <2>3. CASE \E cmd \in Command : ReadLine(cmd)
    BY <2>3, LineShape DEF ReadLine, automata_vars, CycleShape
  <2>4. CASE \E d \in InFlight : ReadSocket(d)
    BY <2>4, SocketShape
  <2>5. CASE \E d \in InFlight : ReadTruncated(d)
    BY <2>5 DEF ReadTruncated, automata_vars, CycleShape
  <2>6. CASE SkipSocket
    BY <2>6 DEF SkipSocket, AfterPoll, automata_vars, CycleShape
  <2>7. CASE HandleResult
    <3>1. state' = React(running, results[1], state).next
      BY <2>7, HandleShape DEF HandleResult
    <3>2. FromUser(results[1]) => state' # "S_END"
      BY <2>7, <3>1, HandleShape, ReactOrderly DEF Orderly
    <3> QED
      BY <2>7, <3>2, HandleShape DEF CycleShape
  <2> QED
    BY <1>1, <2>1, <2>2, <2>3, <2>4, <2>5, <2>6, <2>7 DEF Client, ClientStep
<1>2. CASE ~Client
  BY <1>2, WorldKeepsMachine DEF CycleShape
<1> QED
  BY <1>1, <1>2

-----------------------------------------------------------------------------
(* What is said, and when. *)

(* The handling of a result, as far as the messages are concerned: nothing
   is said, or one message is, of a type the reaction allows. *)
LEMMA HandleSays ==
    ASSUME IInv, CycleShape, HandleResult
    PROVE  \/ NothingSaid /\ UNCHANGED <<confirm_waiters, is_waiting_for_reply>>
           \/ \E type \in ClientType :
                 /\ Send(type)
                 /\ type \in Request => is_waiting_for_reply'
                 /\ type \notin Request => UNCHANGED is_waiting_for_reply
                 /\ type = "BYE" => state' = "S_END"
                 /\ type \in UserType => FromUser(results[1])
<1> DEFINE r == React(running, results[1], state)
<1>0. PostmanInv
  BY DEF IInv, TypeOK, PostmanInv
<1>1. Perform(r.call) /\ state' = r.next
  BY HandleShape DEF HandleResult
<1>2. Orderly(r, results[1], state)
  BY ReactOrderly
<1> HIDE DEF r
<1>3. CASE r.call = "none" /\ UNCHANGED postman_vars
  BY <1>0, <1>3, QuietMethods DEF postman_vars
<1>4. CASE r.call = "authorize" /\ Authorize
  BY <1>2, <1>4 DEF Orderly, Authorize, ClientType, Request
<1>5. CASE r.call = "join" /\ Join
  BY <1>2, <1>5 DEF Orderly, Join, ClientType, Request
<1>6. CASE r.call = "message" /\ Message
  BY <1>2, <1>6 DEF Orderly, Message, ClientType, Request
<1>7. CASE r.call = "error" /\ Error
  BY <1>7 DEF Error, ClientType, Request, UserType
<1>8. CASE r.call = "bye" /\ Bye
  BY <1>1, <1>2, <1>8 DEF Orderly, Bye, ClientType, Request, UserType
<1> QED
  BY <1>1, <1>3, <1>4, <1>5, <1>6, <1>7, <1>8 DEF Perform

(* A new message is the last, and so is its waiter. *)
LEMMA SendSays ==
    ASSUME IInv, NEW type \in ClientType, Send(type)
    PROVE  /\ Len(sent) \in Nat /\ DOMAIN sent = 1 .. Len(sent)
           /\ Len(sent') = Len(sent) + 1
           /\ DOMAIN sent' = DOMAIN sent \cup {Len(sent) + 1}
           /\ \A k \in DOMAIN sent : sent'[k] = sent[k]
           /\ sent'[Len(sent) + 1].type = type /\ sent'[Len(sent) + 1].id = msg_id
           /\ DOMAIN confirm_waiters' = DOMAIN confirm_waiters \cup {Len(sent) + 1}
           /\ last_sent_message' = [type |-> type, id |-> msg_id]
           /\ msg_id' = (IF msg_id + 1 = IdMod THEN 0 ELSE msg_id + 1)
<1>1. Len(sent) \in Nat /\ DOMAIN sent = 1 .. Len(sent) /\ sent \in Seq(Sent)
  BY DEF IInv, TypeOK, PostmanTypeOK
<1>2. DOMAIN confirm_waiters' = DOMAIN confirm_waiters \cup {Len(sent) + 1}
  BY DEF Send, PushBack
<1>3. Len(sent') = Len(sent) + 1 /\ DOMAIN sent' = 1 .. Len(sent) + 1
  BY <1>1 DEF Send
<1>4. DOMAIN sent' = DOMAIN sent \cup {Len(sent) + 1}
  BY <1>1, <1>3
<1> QED
  BY <1>1, <1>2, <1>3, <1>4 DEF Send

(* Steps that say nothing keep what holds of the messages said. *)
LEMMA SilenceKeeps ==
    ASSUME OrderInv, NothingSaid, state' = state
    PROVE  ByeEnds' /\ NothingAfterBye' /\ OneUserMessageOutstanding'
<1>1. \A k \in DOMAIN confirm_waiters' : k \in DOMAIN sent
  BY DEF OrderInv, IInv, TypeOK, PostmanTypeOK, NothingSaid
<1> QED
  BY <1>1 DEF OrderInv, NothingSaid, ByeEnds, NothingAfterBye, OneUserMessageOutstanding

(* A message is said: not after a BYE, which would have ended the session,
   and if it is one of the user, with an empty waiting list. *)
LEMMA HandleKeeps ==
    ASSUME OrderInv, HandleResult
    PROVE  ByeEnds' /\ NothingAfterBye' /\ OneUserMessageOutstanding'
<1>1. IInv /\ CycleShape /\ state # "S_END" /\ pc = "handle" /\ results # <<>>
  BY HandleShape DEF OrderInv, HandleResult, IInv, TypeOK, ClientTypeOK
<1>2. \A k \in DOMAIN sent : sent[k].type # "BYE"
  BY <1>1 DEF OrderInv, ByeEnds
<1>3. DOMAIN confirm_waiters \subseteq DOMAIN sent
  BY <1>1 DEF IInv, TypeOK, PostmanTypeOK
<1>4. CASE NothingSaid
  <2>1. \A k \in DOMAIN sent' : sent'[k].type # "BYE"
    BY <1>2, <1>4 DEF NothingSaid
  <2>2. OneUserMessageOutstanding'
    BY <1>3, <1>4 DEF OrderInv, NothingSaid, OneUserMessageOutstanding
  <2> QED
    BY <2>1, <2>2 DEF ByeEnds, NothingAfterBye
<1>5. ASSUME NEW type \in ClientType, Send(type), type = "BYE" => state' = "S_END",
             type \in UserType => FromUser(results[1])
      PROVE  ByeEnds' /\ NothingAfterBye' /\ OneUserMessageOutstanding'
  <2> DEFINE n == Len(sent) + 1
  <2>1. /\ Len(sent) \in Nat /\ DOMAIN sent = 1 .. Len(sent)
        /\ Len(sent') = n /\ DOMAIN sent' = DOMAIN sent \cup {n}
        /\ \A k \in DOMAIN sent : sent'[k] = sent[k]
        /\ sent'[n].type = type
        /\ DOMAIN confirm_waiters' = DOMAIN confirm_waiters \cup {n}
    BY <1>1, <1>5, SendSays
  <2> HIDE DEF n
  <2>2. \A k \in DOMAIN sent' : sent'[k].type = "BYE" => k = n /\ type = "BYE"
    BY <1>2, <2>1
  <2>3. ByeEnds' /\ NothingAfterBye'
    BY <1>5, <2>1, <2>2 DEF ByeEnds, NothingAfterBye
  <2>4. CASE type \in UserType
    <3>1. DOMAIN confirm_waiters' = {n}
      BY <1>1, <1>5, <2>1, <2>4 DEF OrderInv, UserClear
    <3> QED
      BY <2>3, <3>1 DEF OneUserMessageOutstanding
  <2>5. CASE type \notin UserType
    <3>1. \A k \in DOMAIN confirm_waiters' :
             sent'[k].type \in UserType => k \in DOMAIN confirm_waiters /\ sent'[k] = sent[k]
      BY <1>3, <2>1, <2>5
    <3> QED
      BY <2>3, <3>1 DEF OrderInv, OneUserMessageOutstanding
  <2> QED
    BY <2>4, <2>5
<1> QED
  BY <1>1, <1>4, <1>5, HandleSays

(* A command is read only when nothing is waiting, and the socket adds no
   waiter before it is handled. *)
LEMMA ClearKeeps ==
    ASSUME OrderInv, [Next]_vars
    PROVE  UserClear'
<1>0. IInv /\ CycleShape
  BY DEF OrderInv
<1>1. CASE Client /\ HandleResult
  <2>1. results' = <<>> \/ results'[1].source = "SERVER"
    BY <1>0, <1>1, HandleShape
  <2> QED
    BY <2>1 DEF UserClear, FromUser
<1>2. CASE Client /\ ~HandleResult
  <2>1. NothingSaid
    BY <1>0, <1>2, OnlyResultsSpeak
  <2>2. CASE PollSigint \/ PollGivesUp \/ PollInterrupted \/ PollReturnGivesUp \/ ReadEof
    <3>1. results'[1].type \in {"BYE", "ERR"}
      BY <2>2 DEF PollSigint, PollGivesUp, PollInterrupted, PollReturnGivesUp, ReadEof,
         ReturnEarly, UserResult
    <3> QED
      BY <3>1 DEF UserClear, FromUser, UserType
  <2>3. CASE PollBegins \/ PollReturns \/ ReadEmptyLine \/ Exit
             \/ SendFails(InFlight) \/ \E d \in InFlight : ReadTruncated(d)
    BY <2>3 DEF PollBegins, PollReturns, ReadEmptyLine, Exit, SendFails, ReadTruncated,
       UserClear
  <2>4. CASE SkipStdin
    <3>1. results' = <<>>
      BY <1>0, <2>4 DEF SkipStdin, CycleShape
    <3> QED
      BY <3>1 DEF UserClear
  <2>5. CASE \E cmd \in Command : ReadLine(cmd)
    BY <2>5 DEF ReadLine, StdinGate, HandleUserCommand, UserClear
  <2>6. CASE SkipSocket
    BY <2>6 DEF SkipSocket, postman_vars, OrderInv, UserClear
  <2>7. ASSUME NEW d \in InFlight, ReadSocket(d) PROVE UserClear'
    <3>1. PICK m \in Receivable(d) :
             HandleServerMessage(m) /\ results' = results \o ServerResults(m)
      BY <2>7 DEF ReadSocket
    <3>2. results \in Seq(PollResult) /\ pc = "socket"
      BY <1>0, <2>7 DEF IInv, TypeOK, ClientTypeOK, ReadSocket
    <3>3. is_waiting_for_reply' => is_waiting_for_reply
      BY <3>1 DEF HandleServerMessage, Receive
    <3>4. CASE results = <<>>
      <4>1. results' = ServerResults(m)
        BY <3>1, <3>4, ServerResultsType, InFlightTyped, <1>0, ReceivableParsed, ConcatEmptySeq
      <4>2. results' = <<>> \/ results'[1].source = "SERVER"
        BY <4>1 DEF ServerResults, ServerResult
      <4> QED
        BY <4>2 DEF UserClear, FromUser
    <3>5. CASE Len(results) = 1 /\ FromUser(results[1])
      <4>1. results # <<>>
        BY <3>5
      <4>2. DOMAIN confirm_waiters = {} /\ ~is_waiting_for_reply
        BY <3>2, <3>5, <4>1 DEF OrderInv, UserClear
      <4> QED
        BY <2>1, <3>3, <4>2 DEF NothingSaid, UserClear
    <3> QED
      BY <1>0, <3>2, <3>4, <3>5 DEF CycleShape
  <2> QED
    BY <1>2, <2>2, <2>3, <2>4, <2>5, <2>6, <2>7 DEF Client, ClientStep
<1>3. CASE ~Client
  <2>1. NothingSaid /\ UNCHANGED <<pc, results>>
    BY <1>0, <1>3, OnlyResultsSpeak, WorldKeepsMachine
  <2>2. is_waiting_for_reply' = is_waiting_for_reply
    BY <1>3 DEF Next, Environment, ServerReceives, ServerReplies, ServerSpeaks, ServerSends,
       Sigint, CloseStdin, Clock, Tick, Elapse, Terminated, vars, client_vars, postman_vars
  <2> QED
    BY <2>1, <2>2 DEF NothingSaid, OrderInv, UserClear
<1> QED
  BY <1>1, <1>2, <1>3

(* The invariant holds at the start. *)
LEMMA InitOrder == Init => OrderInv
<1> SUFFICES ASSUME Init PROVE OrderInv
  OBVIOUS
<1>1. /\ sent = <<>> /\ DOMAIN sent = {} /\ DOMAIN confirm_waiters = {}
      /\ results = <<>> /\ pc = "top" /\ state = "S_START"
  BY DEF Init, ClientInit, PostmanInit
<1> QED
  BY <1>1, InitIInv DEF OrderInv, CycleShape, ByeEnds, UserClear, NothingAfterBye,
     OneUserMessageOutstanding

(* Every step keeps it. *)
LEMMA NextOrder == OrderInv /\ [Next]_vars => OrderInv'
<1> SUFFICES ASSUME OrderInv, [Next]_vars PROVE OrderInv'
  OBVIOUS
<1>1. IInv' /\ CycleShape' /\ UserClear'
  BY NextIInv, ShapeKeeps, ClearKeeps DEF OrderInv
<1>2. ByeEnds' /\ NothingAfterBye' /\ OneUserMessageOutstanding'
  <2>1. CASE Client /\ HandleResult
    BY <2>1, HandleKeeps
  <2>2. CASE ~(Client /\ HandleResult)
    BY <2>2, OnlyResultsSpeak, StateKept, SilenceKeeps DEF OrderInv
  <2> QED
    BY <2>1, <2>2
<1> QED
  BY <1>1, <1>2 DEF OrderInv

(* The invariant holds in every reachable state. *)
THEOREM OrderInvariance == Spec => []OrderInv
BY InitOrder, NextOrder, PTL DEF Spec

(* The client says nothing after its BYE, although the loop over the
   results goes on in the method that said it, and whatever arrives. *)
THEOREM SilentAfterBye == Spec => []NothingAfterBye
BY OrderInvariance, PTL DEF OrderInv

(* At most one message of the user waits for its CONFIRM, for any retry
   limit and any behaviour of the server. *)
THEOREM StopAndWait == Spec => []OneUserMessageOutstanding
BY OrderInvariance, PTL DEF OrderInv

-----------------------------------------------------------------------------
(* Requests and their answers. *)

(* The remainder of a natural number is not above it. *)
LEMMA RemainderBelow ==
    ASSUME NEW n \in Nat PROVE Wire(n) <= n /\ Wire(n) \in Nat
<1>1. CASE n < ByteMod
  BY <1>1, WireExact
<1>2. CASE n >= ByteMod
  <2>1. n % ByteMod \in 0 .. ByteMod - 1
    OBVIOUS
  <2> QED
    BY <1>2, <2>1 DEF Wire
<1> QED
  BY <1>1, <1>2

(* What the server has answered stays answered, and what it has sent refers
   to requests, as long as the messages said keep their types and ids. *)
LEMMA AnswersGrow ==
    ASSUME AnswerInv, [Next]_vars
    PROVE  \A j : Answered(j) => Answered(j)'
<1>1. srv_sent \in Seq(Datagram)
  BY DEF AnswerInv, OrderInv, IInv, TypeOK, ServerTypeOK
<1>2. CASE srv_sent' = srv_sent
  BY <1>2 DEF Answered, SentByServer
<1>3. CASE \E d : srv_sent' = Append(srv_sent, d)
  <2>1. SentByServer \subseteq SentByServer'
    BY <1>1, <1>3 DEF SentByServer
  <2> QED
    BY <2>1 DEF Answered
<1>4. srv_sent' = srv_sent \/ \E d : srv_sent' = Append(srv_sent, d)
  BY DEF Next, Client, Environment, ServerReceives, ServerReplies, ServerSpeaks, ServerSends,
     Clock, Terminated, vars, server_vars
<1> QED
  BY <1>2, <1>3, <1>4

(* The messages said so far keep their types and ids. *)
LEMMA SaidIsSaid ==
    ASSUME IInv, CycleShape, [Next]_vars
    PROVE  /\ DOMAIN sent \subseteq DOMAIN sent'
           /\ \A k \in DOMAIN sent : sent'[k].type = sent[k].type /\ sent'[k].id = sent[k].id
           /\ Len(sent) \in Nat /\ Len(sent') \in Nat /\ Len(sent) <= Len(sent')
<1>0. Len(sent) \in Nat
  BY DEF IInv, TypeOK, PostmanTypeOK
<1>1. CASE NothingSaid
  BY <1>0, <1>1 DEF NothingSaid
<1>2. CASE \E type \in ClientType : Send(type)
  BY <1>0, <1>2, SendSays
<1> QED
  BY <1>1, <1>2, OnlyResultsSpeak, HandleSays

(* The server answers requests, with the id that was transmitted. *)
LEMMA RepliesKept ==
    ASSUME AnswerInv, [Next]_vars
    PROVE  RepliesFit'
<1>0. IInv /\ CycleShape /\ srv_sent \in Seq(Datagram) /\ srv_seen \subseteq DOMAIN sent
  BY DEF AnswerInv, OrderInv, IInv, TypeOK, ServerTypeOK
<1> DEFINE Fits(d) == /\ d.type # "CONFIRM"
                      /\ d.type = "REPLY" => /\ d.re \in DOMAIN sent
                                             /\ sent[d.re].type \in Request
                                             /\ d.ref_id = Wire(sent[d.re].id)
<1>1. \A d : Fits(d) => Fits(d)'
  BY <1>0, SaidIsSaid DEF Wire
<1>2. \A d \in SentByServer' : Fits(d)
  <2>0. \A d \in SentByServer : Fits(d)
    BY DEF AnswerInv, RepliesFit
  <2> HIDE DEF Fits
  <2>1. ASSUME NEW e, Fits(e), ServerSends(e) PROVE \A d \in SentByServer' : Fits(d)
    <3>1. srv_sent' = Append(srv_sent, e)
      BY <2>1 DEF ServerSends
    <3>2. \A d \in SentByServer' : d \in SentByServer \/ d = e
      BY <1>0, <3>1 DEF SentByServer
    <3> QED
      BY <2>0, <2>1, <3>2
  <2>2. CASE srv_sent' = srv_sent
    BY <2>0, <2>2 DEF SentByServer
  <2>3. ASSUME NEW k \in srv_seen, NEW result \in {0, 1}, ServerReplies(k, result)
        PROVE  \A d \in SentByServer' : Fits(d)
    <3> DEFINE e == [type |-> "REPLY", id |-> NextServerId,
                     ref_id |-> Wire(sent[k].id), result |-> result, re |-> k]
    <3>1. Fits(e)
      BY <1>0, <2>3 DEF ServerReplies, Fits
    <3>2. ServerSends(e)
      BY <2>3 DEF ServerReplies
    <3> QED
      BY <2>1, <3>1, <3>2
  <2>4. ASSUME NEW type \in ServerTypes, ServerSpeaks(type)
        PROVE  \A d \in SentByServer' : Fits(d)
    <3> DEFINE e == [type |-> type, id |-> NextServerId, ref_id |-> 0, result |-> 0, re |-> 0]
    <3>1. Fits(e)
      BY ServerAssumption DEF Fits
    <3>2. ServerSends(e)
      BY <2>4 DEF ServerSpeaks
    <3> QED
      BY <2>1, <3>1, <3>2
  <2> QED
    BY <2>2, <2>3, <2>4 DEF Next, Client, Environment, ServerReceives, Clock, Terminated,
       vars, server_vars
<1> QED
  BY <1>1, <1>2 DEF RepliesFit

(* last_sent_message and the ids follow what is said. *)
LEMMA IdsKept ==
    ASSUME AnswerInv, [Next]_vars
    PROVE  LastSent' /\ IdsArePositions'
<1>0. IInv /\ CycleShape /\ Len(sent) \in Nat /\ DOMAIN sent = 1 .. Len(sent)
  BY DEF AnswerInv, OrderInv, IInv, TypeOK, PostmanTypeOK
<1>1. CASE NothingSaid
  <2>1. sent' # <<>> => sent # <<>> /\ Len(sent) \in DOMAIN sent
    BY <1>0, <1>1 DEF NothingSaid
  <2> QED
    BY <1>1, <2>1 DEF NothingSaid, AnswerInv, LastSent, IdsArePositions
<1>2. ASSUME NEW type \in ClientType, Send(type) PROVE LastSent' /\ IdsArePositions'
  <2> DEFINE n == Len(sent) + 1
  <2>1. /\ Len(sent') = n /\ DOMAIN sent' = DOMAIN sent \cup {n}
        /\ \A k \in DOMAIN sent : sent'[k] = sent[k]
        /\ sent'[n].type = type /\ sent'[n].id = msg_id
        /\ last_sent_message' = [type |-> type, id |-> msg_id]
        /\ msg_id' = (IF msg_id + 1 = IdMod THEN 0 ELSE msg_id + 1)
    BY <1>0, <1>2, SendSays
  <2>2. IdsArePositions'
    BY <1>0, <2>1 DEF AnswerInv, IdsArePositions
  <2> HIDE DEF n
  <2> QED
    BY <2>1, <2>2 DEF LastSent
<1> QED
  BY <1>0, <1>1, <1>2, OnlyResultsSpeak, HandleSays

(* The only REPLY that unlocks stdin is one to the last message said. *)
LEMMA ReplyToLast ==
    ASSUME AnswerInv, NEW d \in InFlight, NEW m \in Receivable(d), AnswersLastSent(m),
           Len(sent) <= IdMod
    PROVE  /\ m = d /\ d \in SentByServer /\ d.type = "REPLY"
           /\ d.re = Len(sent) /\ d.re \in DOMAIN sent /\ sent[d.re].type \in Request
<1>0. IInv /\ Len(sent) \in Nat /\ DOMAIN sent = 1 .. Len(sent)
  BY DEF AnswerInv, OrderInv, IInv, TypeOK, PostmanTypeOK
<1>1. m.type = "REPLY" /\ m.ref_id = last_sent_message.id
  BY DEF AnswersLastSent
<1>2. d \in SentByServer /\ d.type = "REPLY" /\ m = d
  <2>1. d \in Datagram
    BY <1>0, InFlightTyped
  <2>2. PICK x \in DataToMessage(d) : m = Checked(x)
    BY DEF Receivable
  <2>3. x.type = "REPLY" /\ m = x
    <3>1. CASE x.type = "REPLY" /\ ~AnswersLastSent(x)
      BY <1>1, <2>2, <3>1 DEF Checked
    <3>2. CASE ~(x.type = "REPLY" /\ ~AnswersLastSent(x))
      BY <1>1, <2>2, <3>2 DEF Checked
    <3> QED
      BY <3>1, <3>2
  <2>4. d.type # "GARBLED"
    BY <2>1, <2>2, <2>3 DEF DataToMessage, Datagram
  <2>5. DataToMessage(d) \subseteq {d}
    BY <2>4 DEF DataToMessage
  <2>6. m = d
    BY <2>2, <2>3, <2>5
  <2> QED
    BY <1>1, <2>6 DEF InFlight, ConfirmOf
<1>3. d.re \in DOMAIN sent /\ sent[d.re].type \in Request /\ d.ref_id = Wire(sent[d.re].id)
  BY <1>2 DEF AnswerInv, RepliesFit
<1>4. d.re = Len(sent)
  <2>1. sent # <<>> /\ Len(sent) \in DOMAIN sent
    BY <1>0, <1>3
  <2>2. last_sent_message.id = Len(sent) - 1 /\ sent[d.re].id = d.re - 1
    BY <1>3, <2>1 DEF AnswerInv, LastSent, IdsArePositions
  <2>3. d.re - 1 \in Nat /\ d.re \in Nat /\ d.re <= Len(sent)
    BY <1>0, <1>3
  <2>4. Wire(d.re - 1) <= d.re - 1
    BY <2>3, RemainderBelow
  <2>5. Len(sent) - 1 = Wire(d.re - 1)
    BY <1>1, <1>2, <1>3, <2>2
  <2>6. Len(sent) - 1 <= d.re - 1
    BY <2>4, <2>5
  <2> QED
    BY <1>0, <2>3, <2>6
<1> QED
  BY <1>2, <1>3, <1>4

(* And then every request has been answered. *)
LEMMA UnlockAnswered ==
    ASSUME AnswerInv, NEW d \in InFlight, NEW m \in Receivable(d), AnswersLastSent(m),
           Len(sent) <= IdMod
    PROVE  \A j \in DOMAIN sent : sent[j].type \in Request => Answered(j)
<1>0. IInv /\ Len(sent) \in Nat /\ DOMAIN sent = 1 .. Len(sent)
  BY DEF AnswerInv, OrderInv, IInv, TypeOK, PostmanTypeOK
<1>1. /\ d \in SentByServer /\ d.type = "REPLY"
      /\ d.re = Len(sent) /\ d.re \in DOMAIN sent /\ sent[d.re].type \in Request
  BY ReplyToLast
<1>2. ASSUME NEW j \in DOMAIN sent, sent[j].type \in Request PROVE Answered(j)
  <2>1. CASE j = Len(sent)
    BY <1>1, <2>1 DEF Answered
  <2>2. CASE j # Len(sent)
    <3>1. j < Len(sent) /\ sent[Len(sent)].type \in UserType /\ Len(sent) \in DOMAIN sent
      BY <1>0, <1>1, <2>2 DEF Request, UserType
    <3> QED
      BY <1>2, <3>1 DEF AnswerInv, RequestsAnsweredFirst
  <2> QED
    BY <2>1, <2>2
<1> QED
  BY <1>2

(* A request is due an answer, or stdin is locked, or the session is over. *)
LEMMA HandleLocks ==
    ASSUME AnswerInv, HandleResult, Client, Len(sent') <= IdMod
    PROVE  LockedUntilAnswered' /\ RequestsAnsweredFirst'
<1>0. /\ IInv /\ CycleShape /\ state # "S_END" /\ pc = "handle" /\ results # <<>>
      /\ Len(sent) \in Nat /\ DOMAIN sent = 1 .. Len(sent)
  BY HandleShape DEF AnswerInv, OrderInv, HandleResult, IInv, TypeOK, ClientTypeOK, PostmanTypeOK
<1>1. \A j : Answered(j) => Answered(j)'
  <2>1. [Next]_vars
    BY DEF Next
  <2> QED
    BY <2>1, AnswersGrow
<1>2. Final(results[1]) => state' = "S_END"
  BY HandleShape, <1>0, ReactOrderly DEF HandleResult, Orderly
<1>3. Len(sent) <= IdMod
  <2>1. [Next]_vars
    BY DEF Next
  <2> QED
    BY <1>0, <2>1, SaidIsSaid
<1>4. \A j \in DOMAIN sent :
         sent[j].type \in Request /\ ~Answered(j) => is_waiting_for_reply \/ state' = "S_END"
  BY <1>0, <1>2, <1>3 DEF AnswerInv, LockedUntilAnswered, Ending
<1>5. CASE NothingSaid /\ UNCHANGED <<confirm_waiters, is_waiting_for_reply>>
  <2>1. LockedUntilAnswered'
    BY <1>1, <1>4, <1>5 DEF NothingSaid, LockedUntilAnswered, Ending
  <2>2. RequestsAnsweredFirst'
    BY <1>1, <1>3, <1>5 DEF NothingSaid, AnswerInv, RequestsAnsweredFirst
  <2> QED
    BY <2>1, <2>2
<1>6. ASSUME NEW type \in ClientType, Send(type),
             type \in Request => is_waiting_for_reply',
             type \notin Request => UNCHANGED is_waiting_for_reply,
             type \in UserType => FromUser(results[1])
      PROVE  LockedUntilAnswered' /\ RequestsAnsweredFirst'
  <2> DEFINE n == Len(sent) + 1
  <2>1. /\ DOMAIN sent' = DOMAIN sent \cup {n} /\ sent'[n].type = type
        /\ \A k \in DOMAIN sent : sent'[k] = sent[k]
    BY <1>0, <1>6, SendSays
  <2>2. n \in Nat /\ \A k \in DOMAIN sent : k \in Nat /\ k < n
    BY <1>0
  <2> HIDE DEF n
  <2>3. CASE type \in UserType
    <3>1. ~is_waiting_for_reply /\ ~Final(results[1])
      BY <1>0, <1>6, <2>3 DEF AnswerInv, OrderInv, UserClear, FromUser, Final, UserType
    <3>2. \A j \in DOMAIN sent : sent[j].type \in Request => Answered(j)
      BY <1>0, <1>3, <3>1 DEF AnswerInv, LockedUntilAnswered, Ending
    <3>3. \A j \in DOMAIN sent' : sent'[j].type \in Request => j = n \/ Answered(j)'
      BY <1>1, <2>1, <3>2
    <3>4. \A k \in DOMAIN sent' : k <= n
      BY <2>1, <2>2, <1>0
    <3>5. LockedUntilAnswered'
      BY <1>6, <2>1, <3>3 DEF LockedUntilAnswered
    <3>6. ASSUME NEW j \in DOMAIN sent', NEW k \in DOMAIN sent',
                 j < k, sent'[j].type \in Request
          PROVE  Answered(j)'
      <4>1. j # n
        BY <1>0, <2>1, <2>2, <3>4, <3>6
      <4> QED
        BY <3>3, <3>6, <4>1
    <3>7. RequestsAnsweredFirst'
      BY <3>6 DEF RequestsAnsweredFirst
    <3> QED
      BY <3>5, <3>7
  <2>4. CASE type \notin UserType
    <3>1. type \notin Request
      BY <2>4 DEF Request, UserType
    <3>2. LockedUntilAnswered'
      BY <1>1, <1>4, <1>6, <2>1, <3>1 DEF LockedUntilAnswered, Ending
    <3>3. ASSUME NEW j \in DOMAIN sent', NEW k \in DOMAIN sent',
                 j < k, sent'[j].type \in Request, sent'[k].type \in UserType
          PROVE  Answered(j)'
      <4>1. j \in DOMAIN sent /\ k \in DOMAIN sent
        BY <2>1, <2>4, <3>1, <3>3
      <4> QED
        BY <1>1, <1>3, <2>1, <3>3, <4>1 DEF AnswerInv, RequestsAnsweredFirst
    <3>4. RequestsAnsweredFirst'
      BY <3>3 DEF RequestsAnsweredFirst
    <3> QED
      BY <3>2, <3>4
  <2> QED
    BY <2>3, <2>4
<1> QED
  BY <1>0, <1>5, <1>6, HandleSays

(* The steps that say nothing: only an answer, or the end of the session,
   unlocks stdin. *)
LEMMA QuietLocks ==
    ASSUME AnswerInv, [Next]_vars, ~(Client /\ HandleResult), Len(sent') <= IdMod
    PROVE  LockedUntilAnswered' /\ RequestsAnsweredFirst'
<1>0. IInv /\ CycleShape
  BY DEF AnswerInv, OrderInv
<1>1. NothingSaid /\ state' = state
  BY <1>0, OnlyResultsSpeak, StateKept
<1>2. \A j : Answered(j) => Answered(j)'
  BY AnswersGrow
<1>3. RequestsAnsweredFirst'
  BY <1>1, <1>2 DEF NothingSaid, AnswerInv, RequestsAnsweredFirst
<1>4. Len(sent) <= IdMod
  BY <1>1 DEF NothingSaid
<1>5. \/ Ending'
      \/ is_waiting_for_reply' = is_waiting_for_reply /\ ~(pc = "handle" /\ Client)
      \/ \A j \in DOMAIN sent : sent[j].type \in Request => Answered(j)
  <2>1. CASE PollSigint \/ PollGivesUp \/ PollInterrupted \/ PollReturnGivesUp \/ ReadEof
    <3>1. pc' = "handle" /\ Final(results'[1])
      BY <2>1 DEF PollSigint, PollGivesUp, PollInterrupted, PollReturnGivesUp, ReadEof,
         ReturnEarly, UserResult, Final
    <3> QED
      BY <3>1 DEF Ending
  <2>2. CASE PollBegins \/ PollReturns
    BY <2>2 DEF PollBegins, PollReturns, CheckWaiters, EnterMethod
  <2>3. CASE ReadEmptyLine \/ SkipStdin \/ SkipSocket \/ Exit
             \/ SendFails(InFlight) \/ \E d \in InFlight : ReadTruncated(d)
    BY <2>3 DEF ReadEmptyLine, SkipStdin, SkipSocket, Exit, SendFails, ReadTruncated,
       postman_vars, Ending
  <2>4. CASE \E cmd \in Command : ReadLine(cmd)
    BY <2>4 DEF ReadLine, HandleUserCommand
  <2>5. ASSUME NEW d \in InFlight, ReadSocket(d)
        PROVE  \/ is_waiting_for_reply' = is_waiting_for_reply /\ ~(pc = "handle" /\ Client)
               \/ \A j \in DOMAIN sent : sent[j].type \in Request => Answered(j)
    <3>1. PICK m \in Receivable(d) : HandleServerMessage(m)
      BY <2>5 DEF ReadSocket
    <3>2. CASE AnswersLastSent(m)
      BY <1>4, <3>2, UnlockAnswered
    <3>3. CASE ~AnswersLastSent(m)
      <4>1. is_waiting_for_reply' = (is_waiting_for_reply /\ TRUE)
        BY <3>1, <3>3 DEF HandleServerMessage, Receive
      <4>2. is_waiting_for_reply \in BOOLEAN /\ pc # "handle"
        BY <1>0, <2>5 DEF IInv, TypeOK, PostmanTypeOK, ReadSocket
      <4> QED
        BY <4>1, <4>2
    <3> QED
      BY <3>2, <3>3
  <2>6. CASE ~Client
    BY <2>6 DEF Next, Environment, ServerReceives, ServerReplies, ServerSpeaks, ServerSends,
       Sigint, CloseStdin, Clock, Tick, Elapse, Terminated, vars, client_vars, postman_vars
  <2> QED
    BY <2>1, <2>2, <2>3, <2>4, <2>5, <2>6 DEF Client, ClientStep
<1>6. ASSUME is_waiting_for_reply' = is_waiting_for_reply, ~(pc = "handle" /\ Client)
      PROVE  Ending => Ending'
  <2>1. CASE ~Client
    BY <1>1, <2>1, WorldKeepsMachine DEF Ending
  <2>2. CASE pc \notin {"handle", "aborted"}
    BY <1>1, <2>2 DEF Ending
  <2>3. CASE pc = "aborted"
    BY <2>1, <2>3, GoneForGood DEF Gone, Ending
  <2> QED
    BY <1>6, <2>1, <2>2, <2>3
<1>7. LockedUntilAnswered'
  BY <1>1, <1>2, <1>4, <1>5, <1>6 DEF NothingSaid, AnswerInv, LockedUntilAnswered
<1> QED
  BY <1>3, <1>7

(* The invariant holds at the start, when nothing has been said. *)
LEMMA InitAnswer == Init => AnswerInv
<1> SUFFICES ASSUME Init PROVE AnswerInv
  OBVIOUS
<1>1. sent = <<>> /\ DOMAIN sent = {} /\ Len(sent) = 0 /\ msg_id = 0
  BY DEF Init, ClientInit, PostmanInit
<1>2. SentByServer = {}
  BY DEF Init, SentByServer
<1> QED
  BY <1>1, <1>2, InitOrder DEF AnswerInv, LastSent, IdsArePositions, RepliesFit,
     LockedUntilAnswered, RequestsAnsweredFirst

(* Every step keeps it. *)
LEMMA NextAnswer == AnswerInv /\ [Next]_vars => AnswerInv'
<1> SUFFICES ASSUME AnswerInv, [Next]_vars PROVE AnswerInv'
  OBVIOUS
<1>1. OrderInv' /\ RepliesFit' /\ LastSent' /\ IdsArePositions'
  BY NextOrder, RepliesKept, IdsKept DEF AnswerInv
<1>2. CASE Len(sent') <= IdMod
  BY <1>1, <1>2, HandleLocks, QuietLocks DEF AnswerInv
<1>3. CASE ~(Len(sent') <= IdMod)
  BY <1>1, <1>3 DEF AnswerInv, LockedUntilAnswered, RequestsAnsweredFirst
<1> QED
  BY <1>2, <1>3

(* Until the ids wrap around, the user says nothing after a request that the
   server has not answered, however REPLYs are delayed and repeated. *)
THEOREM AnswersAwaited == Spec => []RequestsAnsweredFirst
<1>1. AnswerInv => RequestsAnsweredFirst
  BY DEF AnswerInv
<1> QED
  BY <1>1, InitAnswer, NextAnswer, PTL DEF Spec
=============================================================================
