--------------------------- MODULE TcpChatProofs ----------------------------
(***************************************************************************)
(* What holds of the TCP client for every value of the constants:          *)
(*                                                                         *)
(*   TcpTypeCorrect         Spec => []TypeOK                               *)
(*   TcpOrder               Spec => []HeardInOrder                         *)
(*   TcpLossExplained       Spec => []LostOnlyByFraming                    *)
(*   TcpLockoutExplained    Spec => []LockedOutByFraming                   *)
(*   TcpSessionImplemented  Spec => ImplementsSession, if no text reads    *)
(*                          as a REPLY                                     *)
(*                                                                         *)
(* The first four rest on ParsedChunk, which says what data_to_message     *)
(* makes of a chunk: the CHOOSE in it has a value because the matches are  *)
(* ordered by their rank and their line (FirstMatch).                      *)
(*                                                                         *)
(* The last is the refinement of the abstract chat session.  The stream    *)
(* may be cut anywhere, so a REPLY may be lost; it may not be made up.     *)
(* Unlike in UDP mode there are no ids: that a command of the user is      *)
(* handled only when every request has its answer rests on what is still   *)
(* unread in the stream (Unread).                                          *)
(***************************************************************************)
EXTENDS TcpChat, AutomataProofs, WellFoundedInduction

USE ServerLinesAssumption

(* A set of natural numbers has a least element. *)
LEMMA LeastNumber ==
    ASSUME NEW K \in SUBSET Nat, K # {}
    PROVE  \E n \in K : \A k \in K : n <= k
<1>1. PICK n \in K : \A k \in K : ~(<<k, n>> \in OpToRel(<, Nat))
  BY NatLessThanWellFounded, WFMin
<1>2. \A k \in K : ~(k < n)
  BY <1>1 DEF OpToRel
<1> QED
  BY <1>2

(* Of several matches one is before all others: the least rank, and of that
   rank the first line. *)
LEMMA FirstMatch ==
    ASSUME NEW found \in SUBSET [type : DOMAIN Rank, of : Nat], found # {}
    PROVE  \E m \in found : \A n \in found : IsBefore(m, n)
<1>1. \A t \in DOMAIN Rank : Rank[t] \in Nat
  BY DEF Rank
<1> HIDE DEF Rank
<1> DEFINE ranks == {Rank[m.type] : m \in found}
<1>2. ranks \in SUBSET Nat /\ ranks # {}
  BY <1>1
<1> HIDE DEF ranks
<1>3. PICK r \in ranks : \A n \in ranks : r <= n
  BY <1>2, LeastNumber
<1> USE DEF ranks
<1> DEFINE ofs == {m.of : m \in {n \in found : Rank[n.type] = r}}
<1>4. ofs \in SUBSET Nat /\ ofs # {}
  BY <1>3
<1> HIDE DEF ofs
<1>5. PICK o \in ofs : \A n \in ofs : o <= n
  BY <1>4, LeastNumber
<1>6. PICK m \in found : Rank[m.type] = r /\ m.of = o
  BY <1>5 DEF ofs
<1>7. ASSUME NEW n \in found PROVE IsBefore(m, n)
  <2>1. r <= Rank[n.type] /\ r \in Nat /\ Rank[n.type] \in Nat
    BY <1>1, <1>2, <1>3
  <2>2. Rank[n.type] = r => o <= n.of
    BY <1>5 DEF ofs
  <2> QED
    BY <1>6, <2>1, <2>2 DEF IsBefore
<1> QED
  BY <1>7

(* What a chunk is parsed into: nothing known, or a type that occurs in one
   of its lines.  It is a REPLY that says OK only if the line is one, or if
   the text of the line reads as a REPLY. *)
LEMMA ParsedChunk ==
    ASSUME NEW lines \in Seq(Line), consumed \in Nat, NEW upto \in Nat,
           upto <= 2 * Len(lines), NEW m, m = DataToMessage(lines, upto)
    PROVE  \/ m = Unknown
           \/ /\ m.type \in DOMAIN Rank /\ m.of \in DOMAIN lines /\ m.ok \in BOOLEAN
              /\ consumed < 2 * m.of /\ 2 * m.of <= upto
              /\ m.type \in ReadAs(lines, m.of)
              /\ Whole(m.of) /\ lines[m.of].type = "REPLY" => m.ok = lines[m.of].ok
              /\ m = [type |-> m.type, of |-> m.of, ok |-> m.ok]
<1> DEFINE found == Matches(lines, upto)
<1>1. CASE found = {}
  BY <1>1 DEF DataToMessage
<1>2. CASE found # {}
  <2> DEFINE first == CHOOSE x \in found : \A n \in found : IsBefore(x, n)
  <2>1. found \in SUBSET [type : DOMAIN Rank, of : Nat]
    BY DEF Matches, EndsIn
  <2>2. \E x \in found : \A n \in found : IsBefore(x, n)
    BY <1>2, <2>1, FirstMatch
  <2>3. first \in found
    BY <2>2
  <2>4. m = [type |-> first.type, of |-> first.of,
             ok |-> IF Whole(first.of) /\ lines[first.of].type = "REPLY"
                    THEN lines[first.of].ok ELSE first.type = "REPLY"]
    BY <1>2 DEF DataToMessage
  <2> HIDE DEF first
  <2>5. /\ first.type \in DOMAIN Rank /\ first.of \in 1 .. upto
        /\ consumed < 2 * first.of /\ 2 * first.of <= upto
        /\ first.type \in ReadAs(lines, first.of)
    BY <2>3 DEF Matches, EndsIn
  <2>6. first.of \in DOMAIN lines /\ lines[first.of] \in Line
    BY <2>5
  <2>7. lines[first.of].ok \in BOOLEAN
    BY <2>6 DEF Line
  <2>8. /\ m.type = first.type /\ m.of = first.of
        /\ m.ok = (IF Whole(first.of) /\ lines[first.of].type = "REPLY"
                   THEN lines[first.of].ok ELSE first.type = "REPLY")
        /\ m = [type |-> m.type, of |-> m.of, ok |-> m.ok]
    BY <2>4
  <2>9. m.ok \in BOOLEAN
    BY <2>7, <2>8
  <2> QED
    BY <2>5, <2>6, <2>8, <2>9
<1> QED
  BY <1>1, <1>2

-----------------------------------------------------------------------------
(* Types. *)

(* What the inbox records of a chunk that is read as m. *)
Heard(m, upto) == [type |-> m.type, of |-> m.of, from |-> consumed, to |-> upto]

(* What a chunk is parsed into can be told to the machine. *)
LEMMA ParsedTyped ==
    ASSUME NEW lines \in Seq(Line), consumed \in Nat, NEW upto \in Nat,
           upto <= 2 * Len(lines), NEW m, m = DataToMessage(lines, upto) \/ m = Unknown
    PROVE  /\ ServerResults(m) = <<[source |-> "SERVER", type |-> m.type, ok |-> m.ok]>>
           /\ ServerResults(m) \in Seq(PollResult)
           /\ Heard(m, upto) \in Delivery
           /\ Forwards(m)
<1>1. m.type \in MessageType \ {"CONFIRM"} /\ m.of \in Nat /\ m.ok \in BOOLEAN
  <2>1. CASE m = Unknown
    BY <2>1 DEF Unknown, MessageType
  <2>2. CASE m # Unknown
    <3>1. m.type \in DOMAIN Rank /\ m.of \in DOMAIN lines /\ m.ok \in BOOLEAN
      BY <2>2, ParsedChunk
    <3> QED
      BY <3>1 DEF Rank, MessageType
  <2> QED
    BY <2>1, <2>2
<1>2. [source |-> "SERVER", type |-> m.type, ok |-> m.ok] \in PollResult
  BY <1>1 DEF PollResult, PollResultType
<1>3. Heard(m, upto) \in Delivery
  BY <1>1 DEF Heard, Delivery
<1> QED
  BY <1>1, <1>2, <1>3 DEF ServerResults, Forwards

(* A result that is appended makes the list one longer. *)
LEMMA OneMore ==
    ASSUME NEW s \in Seq(PollResult), NEW t \in Seq(PollResult), Len(t) = 1
    PROVE  s \o t \in Seq(PollResult) /\ s \o t # <<>>
<1>1. s \o t \in Seq(PollResult) /\ Len(s \o t) = Len(s) + 1
  BY PlusOne
<1>2. Len(s) \in Nat
  OBVIOUS
<1> HIDE DEF PollResult
<1>3. s \o t = <<>> => Len(s \o t) = 0
  BY Zenon, EmptySeq
<1> QED
  BY <1>1, <1>2, <1>3

(* The server writes lines. *)
LEMMA WritesLines ==
    ASSUME srv_sent \in Seq(Line), sent \in Seq(ClientType)
    PROVE  /\ \A l \in ServerLines : l \in Line
           /\ \A k \in DOMAIN sent, ok \in BOOLEAN, q \in ReplyQuotes :
                 [type |-> "REPLY", ok |-> ok, quotes |-> q, re |-> k] \in Line
<1>1. ASSUME NEW l \in ServerLines PROVE l \in Line
  <2>1. l \in [type : {"MSG", "ERR", "BYE", "GARBLED"}, ok : {FALSE},
               quotes : MessageType \cup {"none"}, re : {0}]
    BY <1>1
  <2>2. /\ l = [type |-> l.type, ok |-> l.ok, quotes |-> l.quotes, re |-> l.re]
        /\ l.type \in MessageType \cup {"GARBLED"}
        /\ l.quotes \in MessageType \cup {"none"} /\ l.re \in Nat
    BY <2>1 DEF MessageType
  <2>3. l.ok \in BOOLEAN
    BY <2>1, Zenon
  <2> QED
    BY <2>2, <2>3 DEF Line
<1>2. \A k \in DOMAIN sent : k \in Nat
  OBVIOUS
<1>3. \A k \in DOMAIN sent, ok \in BOOLEAN, q \in ReplyQuotes :
         [type |-> "REPLY", ok |-> ok, quotes |-> q, re |-> k] \in Line
  BY <1>2 DEF Line, MessageType
<1> QED
  BY <1>1, <1>3

(* What the socket hands to the machine. *)
LEMMA HandTyped ==
    ASSUME TypeOK, NEW upto \in Nat, upto <= 2 * Len(srv_sent),
           NEW m, m = DataToMessage(srv_sent, upto) \/ m = Unknown, Hand(m, upto)
    PROVE  /\ results' \in Seq(PollResult) /\ inbox' \in Seq(Delivery)
           /\ inbox' = Append(inbox, Heard(m, upto))
           /\ results' # <<>> /\ pc' = "handle"
<1>1. srv_sent \in Seq(Line) /\ consumed \in Nat /\ results \in Seq(PollResult) /\ inbox \in Seq(Delivery)
  BY DEF TypeOK
<1>2. /\ ServerResults(m) = <<[source |-> "SERVER", type |-> m.type, ok |-> m.ok]>>
      /\ ServerResults(m) \in Seq(PollResult)
      /\ Heard(m, upto) \in Delivery
      /\ Forwards(m)
  BY <1>1, ParsedTyped
<1>3. Len(ServerResults(m)) = 1
  BY <1>2
<1>4. results \o ServerResults(m) \in Seq(PollResult) /\ results \o ServerResults(m) # <<>>
  BY <1>1, <1>2, <1>3, OneMore
<1> QED
  BY <1>1, <1>2, <1>4 DEF Hand, AfterPoll, Heard

(* Every step of the client keeps the types. *)
LEMMA ClientTyped ==
    ASSUME TypeOK, Client PROVE TypeOK'
<1> USE DEF TypeOK
<1>0. srv_sent' = srv_sent /\ Len(srv_sent) \in Nat
  BY DEF Client
<1>1. CASE PollSigint \/ PollInterrupted \/ ReadEof
  <2>1. results' \in Seq(PollResult) /\ results' # <<>> /\ pc' = "handle"
    <3>1. UserResult("BYE") \in PollResult
      BY UserResultType DEF MessageType
    <3>2. results' = <<UserResult("BYE")>> /\ pc' = "handle"
      BY <1>1 DEF PollSigint, PollInterrupted, ReadEof, SayBye
    <3> QED
      BY <3>1, <3>2
  <2> QED
    BY <1>0, <1>1, <2>1 DEF PollSigint, PollInterrupted, ReadEof, EnterMethod, EntryCode,
       SayBye, UnlockStdin, automata_vars, Pc, ExitCode
<1>2. CASE PollBegins \/ PollReturns \/ ReadEmptyLine \/ SkipStdin \/ SkipSocket \/ Exit \/ HandleFails
  BY <1>0, <1>2 DEF PollBegins, PollReturns, ReadEmptyLine, SkipStdin, SkipSocket, Exit,
     HandleFails, SendFails, EnterMethod, EntryCode, AfterPoll, postman_vars, automata_vars, Pc,
     ExitCode
<1>3. ASSUME NEW cmd \in Command, ReadLine(cmd) PROVE TypeOK'
  <2>1. results' \in Seq(PollResult)
    BY <1>3, UserResultsType DEF ReadLine
  <2> QED
    BY <1>0, <1>3, <2>1 DEF ReadLine, HandleUserCommand, automata_vars, Pc, Command
<1>4. ASSUME NEW upto \in consumed + 1 .. 2 * Len(srv_sent), ReadChunk(srv_sent, upto)
      PROVE  TypeOK'
  <2>1. upto \in Nat /\ upto <= 2 * Len(srv_sent)
    BY <1>0
  <2>2. PICK m : m = DataToMessage(srv_sent, upto) /\ Hand(m, upto) /\ HandleServerMessage(m, upto)
    BY <1>4 DEF ReadChunk
  <2>3. /\ results' \in Seq(PollResult) /\ inbox' \in Seq(Delivery)
        /\ results' # <<>> /\ pc' = "handle"
    BY <2>1, <2>2, HandTyped
  <2> QED
    BY <1>0, <1>4, <2>1, <2>2, <2>3
       DEF ReadChunk, HandleServerMessage, ConsumedAfter, automata_vars, Pc
<1>5. ASSUME ReadEnd(srv_sent) PROVE TypeOK'
  <2>1. consumed \in Nat /\ consumed <= 2 * Len(srv_sent)
    BY <1>0
  <2>2. Hand(Unknown, consumed) /\ HandleServerMessage(Unknown, consumed)
    BY <1>5 DEF ReadEnd
  <2>3. /\ results' \in Seq(PollResult) /\ inbox' \in Seq(Delivery)
        /\ results' # <<>> /\ pc' = "handle"
    BY <2>1, <2>2, HandTyped
  <2> QED
    BY <1>0, <1>5, <2>1, <2>2, <2>3
       DEF ReadEnd, HandleServerMessage, ConsumedAfter, automata_vars, Pc
<1>6. CASE HandleResult
  <2>1. state' \in State
    BY <1>6, ReactState DEF HandleResult, Reacts
  <2>2. results' \in Seq(PollResult) /\ (pc' = "handle" => results' # <<>>) /\ pc' \in Pc
    BY <1>6 DEF HandleResult, AfterPoll, Pc
  <2>3. /\ sent' \in Seq(ClientType) /\ connection' = connection /\ consumed' = consumed
        /\ is_waiting_for_reply' \in BOOLEAN /\ display_name' = display_name
    <3>1. Perform(Reacts.call)
      BY <1>6 DEF HandleResult
    <3>2. \/ UNCHANGED postman_vars
          \/ \E type \in ClientType : Send(type) /\ is_waiting_for_reply' \in BOOLEAN
      BY <3>1 DEF Perform, Authorize, Join, Message, Error, Bye, ClientType
    <3>3. \A type \in ClientType : Append(sent, type) \in Seq(ClientType)
      OBVIOUS
    <3> QED
      BY <3>2, <3>3 DEF Send, postman_vars
  <2>4. ret_code' \in ExitCode
    BY <1>6 DEF HandleResult, ExitCode
  <2> QED
    BY <1>0, <1>6, <2>1, <2>2, <2>3, <2>4 DEF HandleResult
<1> QED
  BY <1>1, <1>2, <1>3, <1>4, <1>5, <1>6 DEF Client, ClientStep

(* So does every step of the server and of the user. *)
LEMMA WorldTyped ==
    ASSUME TypeOK, Environment \/ UNCHANGED vars PROVE TypeOK'
<1>1. CASE UNCHANGED vars
  BY <1>1 DEF TypeOK, vars, client_vars, postman_vars, automata_vars
<1>2. CASE Sigint /\ UNCHANGED srv_sent
  BY <1>2 DEF TypeOK, Sigint, postman_vars, automata_vars
<1>3. CASE CloseStdin /\ UNCHANGED srv_sent
  BY <1>3 DEF TypeOK, CloseStdin, postman_vars, automata_vars
<1>4. ASSUME NEW how \in {"shut", "reset"}, ServerEnds(how) PROVE TypeOK'
  BY <1>4 DEF TypeOK, ServerEnds, automata_vars, Connection
<1>5. ASSUME NEW l \in Line, ServerWrites(l) PROVE TypeOK'
  <2>1. srv_sent' \in Seq(Line) /\ Len(srv_sent') = Len(srv_sent) + 1 /\ Len(srv_sent) \in Nat
    BY <1>5 DEF ServerWrites, TypeOK
  <2>2. consumed \in 0 .. 2 * Len(srv_sent')
    BY <2>1 DEF TypeOK
  <2> QED
    BY <1>5, <2>1, <2>2 DEF TypeOK, ServerWrites, client_vars, postman_vars, automata_vars
<1>6. CASE \E k \in DOMAIN sent, ok \in BOOLEAN, q \in ReplyQuotes : ServerReplies(k, ok, q)
  BY <1>5, <1>6, WritesLines DEF TypeOK, ServerReplies
<1>7. CASE \E l \in ServerLines : ServerWrites(l)
  BY <1>5, <1>7, WritesLines DEF TypeOK
<1> QED
  BY <1>1, <1>2, <1>3, <1>4, <1>6, <1>7 DEF Environment

(* They hold at the start. *)
LEMMA InitTyped == Init => TypeOK
<1> SUFFICES ASSUME Init PROVE TypeOK
  OBVIOUS
<1>1. srv_sent = <<>> /\ consumed = 0 /\ Len(srv_sent) = 0
  BY DEF Init, ClientInit, PostmanInit
<1>2. consumed \in 0 .. 2 * Len(srv_sent)
  BY <1>1
<1> QED
  BY <1>1, <1>2, EmptySeq
     DEF Init, ClientInit, PostmanInit, TypeOK, Connection, State, ExitCode, Pc

(* Every step keeps them. *)
LEMMA NextTyped == TypeOK /\ [Next]_vars => TypeOK'
BY ClientTyped, WorldTyped DEF Next, Terminated

(* The variables of the TCP client keep their types, and the client never
   has more of the stream than was written, however it is cut into chunks
   (TcpPostman.cpp receive and handle_server_message). *)
THEOREM TcpTypeCorrect == Spec => []TypeOK
BY InitTyped, NextTyped, PTL DEF Spec

-----------------------------------------------------------------------------
(* What is heard. *)

(* A line the server may write. *)
Writable(l) ==
    /\ l \in Line
    /\ l \in ServerLines \/ (l.type = "REPLY" /\ l.quotes \in ReplyQuotes)

(* Only the socket changes what was heard and how far the stream was read,
   and only the server writes, to an open connection. *)
LEMMA StreamSteps ==
    ASSUME TypeOK, [Next]_vars
    PROVE  \/ /\ srv_sent' = srv_sent /\ connection' = connection
              /\ \/ \E upto \in consumed + 1 .. 2 * Len(srv_sent) : ReadChunk(srv_sent, upto)
                 \/ ReadEnd(srv_sent)
           \/ /\ UNCHANGED <<consumed, inbox>>
              /\ \/ srv_sent' = srv_sent
                 \/ connection = "open" /\ \E l : Writable(l) /\ srv_sent' = Append(srv_sent, l)
              /\ connection' = connection \/ connection' # "open"
<1>1. CASE Client
  <2>1. ClientStep(srv_sent) /\ srv_sent' = srv_sent
    BY <1>1 DEF Client
  <2>2. CASE PollSigint \/ PollInterrupted \/ ReadEof \/ PollBegins \/ PollReturns
             \/ ReadEmptyLine \/ SkipStdin \/ SkipSocket \/ Exit \/ HandleFails
             \/ \E cmd \in Command : ReadLine(cmd)
    <3>1. UNCHANGED <<consumed, inbox, connection>>
      BY <2>2 DEF PollSigint, PollInterrupted, ReadEof, PollBegins, PollReturns, ReadEmptyLine,
         SkipStdin, SkipSocket, Exit, HandleFails, SendFails, ReadLine, HandleUserCommand,
         EnterMethod, SayBye, UnlockStdin, postman_vars
    <3> QED
      BY <2>1, <3>1
  <2>3. CASE HandleResult
    <3>1. Perform(Reacts.call) /\ inbox' = inbox
      BY <2>3 DEF HandleResult
    <3>2. UNCHANGED <<consumed, inbox, connection>>
      BY <3>1 DEF Perform, Authorize, Join, Message, Error, Bye, Send, postman_vars
    <3> QED
      BY <2>1, <3>2
  <2>4. CASE \/ \E upto \in consumed + 1 .. 2 * Len(srv_sent) : ReadChunk(srv_sent, upto)
             \/ ReadEnd(srv_sent)
    <3>1. connection' = connection
      BY <2>4 DEF ReadChunk, ReadEnd, HandleServerMessage
    <3> QED
      BY <2>1, <2>4, <3>1
  <2> QED
    BY <2>1, <2>2, <2>3, <2>4 DEF ClientStep
<1>2. ASSUME NEW l, Writable(l), ServerWrites(l)
      PROVE  /\ UNCHANGED <<consumed, inbox, connection>>
             /\ connection = "open" /\ \E x : Writable(x) /\ srv_sent' = Append(srv_sent, x)
  BY <1>2 DEF ServerWrites, client_vars, postman_vars
<1>3. CASE \E k \in DOMAIN sent, ok \in BOOLEAN, q \in ReplyQuotes : ServerReplies(k, ok, q)
  <2>1. PICK k \in DOMAIN sent, ok \in BOOLEAN, q \in ReplyQuotes : ServerReplies(k, ok, q)
    BY <1>3
  <2> DEFINE l == [type |-> "REPLY", ok |-> ok, quotes |-> q, re |-> k]
  <2>2. l \in Line
    BY WritesLines DEF TypeOK
  <2>3. l.type = "REPLY" /\ l.quotes = q
    OBVIOUS
  <2>4. ServerWrites(l)
    BY <2>1 DEF ServerReplies
  <2> HIDE DEF l
  <2>5. Writable(l)
    BY <2>2, <2>3 DEF Writable
  <2> QED
    BY <1>2, <2>4, <2>5
<1>4. CASE \E l \in ServerLines : ServerWrites(l)
  BY <1>2, <1>4, WritesLines DEF TypeOK, Writable
<1>5. CASE ServerEnds("shut") \/ ServerEnds("reset")
  BY <1>5 DEF ServerEnds
<1>6. CASE (Sigint \/ CloseStdin) /\ UNCHANGED srv_sent
  BY <1>6 DEF Sigint, CloseStdin, postman_vars
<1>7. CASE UNCHANGED vars
  BY <1>7 DEF vars, client_vars, postman_vars
<1> QED
  BY <1>1, <1>3, <1>4, <1>5, <1>6, <1>7 DEF Next, Environment, Terminated

(* What the socket adds to the inbox: one delivery, of a line that ends in
   the chunk, or of none. *)
LEMMA SocketHears ==
    ASSUME TypeOK,
           NEW upto \in Nat, upto <= 2 * Len(srv_sent),
           NEW m, m = DataToMessage(srv_sent, upto) \/ m = Unknown,
           Hand(m, upto), HandleServerMessage(m, upto)
    PROVE  /\ consumed' = upto /\ Len(inbox') = Len(inbox) + 1
           /\ DOMAIN inbox' = DOMAIN inbox \cup {Len(inbox) + 1}
           /\ \A i \in DOMAIN inbox : inbox'[i] = inbox[i]
           /\ inbox'[Len(inbox) + 1] = Heard(m, upto)
<1>1. inbox' = Append(inbox, Heard(m, upto))
  BY HandTyped
<1>2. inbox \in Seq(Delivery)
  BY DEF TypeOK
<1> QED
  BY <1>1, <1>2 DEF HandleServerMessage, ConsumedAfter

(* What was heard was in the part of the stream that has been read. *)
ReadBefore == \A i \in DOMAIN inbox : inbox[i].of > 0 => 2 * inbox[i].of <= consumed

HeardInv == TypeOK /\ HeardInOrder /\ ReadBefore

(* A new delivery is of a line behind all that were heard, or of none. *)
LEMMA SocketOrder ==
    ASSUME HeardInv,
           NEW upto \in Nat, consumed <= upto, upto <= 2 * Len(srv_sent),
           NEW m, m = DataToMessage(srv_sent, upto) \/ m = Unknown,
           Hand(m, upto), HandleServerMessage(m, upto), srv_sent' = srv_sent
    PROVE  HeardInOrder' /\ ReadBefore'
<1> DEFINE n == Len(inbox) + 1
<1>1. /\ consumed' = upto /\ DOMAIN inbox' = DOMAIN inbox \cup {n}
      /\ \A i \in DOMAIN inbox : inbox'[i] = inbox[i]
      /\ inbox'[n].type = m.type /\ inbox'[n].of = m.of
  <2>1. TypeOK
    BY DEF HeardInv
  <2>2. /\ consumed' = upto /\ DOMAIN inbox' = DOMAIN inbox \cup {Len(inbox) + 1}
        /\ \A i \in DOMAIN inbox : inbox'[i] = inbox[i]
        /\ inbox'[Len(inbox) + 1] = Heard(m, upto)
    BY <2>1, SocketHears
  <2> QED
    BY <2>2 DEF Heard
<1>2. /\ consumed \in Nat /\ n \in Nat /\ srv_sent \in Seq(Line)
      /\ \A i \in DOMAIN inbox : i \in Nat /\ i < n /\ inbox[i].of \in Nat
  <2>1. consumed \in Nat /\ srv_sent \in Seq(Line) /\ inbox \in Seq(Delivery)
    BY DEF HeardInv, TypeOK
  <2>2. \A i \in DOMAIN inbox : inbox[i] \in Delivery
    BY <2>1
  <2> QED
    BY <2>1, <2>2 DEF Delivery
<1>3. \/ m.type = "UNKNOWN" /\ m.of = 0
      \/ /\ m.of \in DOMAIN srv_sent /\ consumed < 2 * m.of /\ 2 * m.of <= upto /\ m.of \in Nat
         /\ m.type \in {srv_sent[m.of].type, srv_sent[m.of].quotes}
  <2>1. CASE m = Unknown
    BY <2>1 DEF Unknown
  <2>2. CASE m # Unknown
    <3>1. /\ m.of \in DOMAIN srv_sent /\ consumed < 2 * m.of /\ 2 * m.of <= upto
          /\ m.type \in ReadAs(srv_sent, m.of)
      BY <1>2, <2>2, ParsedChunk
    <3> QED
      BY <1>2, <3>1 DEF ReadAs
  <2> QED
    BY <2>1, <2>2
<1> HIDE DEF n
<1>4. ReadBefore'
  BY <1>1, <1>2, <1>3 DEF HeardInv, ReadBefore
<1>5. ASSUME NEW i \in DOMAIN inbox', inbox'[i].type # "UNKNOWN"
      PROVE  /\ inbox'[i].of \in DOMAIN srv_sent
             /\ LET l == srv_sent[inbox'[i].of] IN inbox'[i].type \in {l.type, l.quotes}
  BY <1>1, <1>3, <1>5 DEF HeardInv, HeardInOrder
<1>6. ASSUME NEW i \in DOMAIN inbox', NEW j \in DOMAIN inbox',
             i < j, inbox'[i].of > 0, inbox'[j].of > 0
      PROVE  inbox'[i].of < inbox'[j].of
  <2>1. i \in DOMAIN inbox
    BY <1>1, <1>2, <1>6
  <2>2. CASE j = n
    <3>1. 2 * inbox[i].of <= consumed /\ consumed < 2 * m.of /\ m.of \in Nat
      BY <1>1, <1>3, <1>6, <2>1, <2>2 DEF HeardInv, ReadBefore
    <3> QED
      BY <1>1, <1>2, <2>1, <2>2, <3>1
  <2>3. CASE j \in DOMAIN inbox
    BY <1>1, <1>6, <2>1, <2>3 DEF HeardInv, HeardInOrder
  <2> QED
    BY <1>1, <2>2, <2>3
<1> QED
  BY <1>4, <1>5, <1>6 DEF HeardInOrder

(* What the server writes later changes nothing of what was heard. *)
LEMMA WritingKeepsHeard ==
    ASSUME HeardInv, UNCHANGED <<consumed, inbox>>,
           srv_sent' = srv_sent \/ \E l : srv_sent' = Append(srv_sent, l)
    PROVE  HeardInOrder' /\ ReadBefore'
<1>1. ReadBefore'
  BY DEF HeardInv, ReadBefore
<1>2. srv_sent \in Seq(Line)
  BY DEF HeardInv, TypeOK
<1>3. \A i \in DOMAIN srv_sent : i \in DOMAIN srv_sent' /\ srv_sent'[i] = srv_sent[i]
  BY <1>2
<1> QED
  BY <1>1, <1>3 DEF HeardInv, HeardInOrder

(* Every step keeps the order. *)
LEMMA NextHeard == HeardInv /\ [Next]_vars => HeardInv'
<1> SUFFICES ASSUME HeardInv, [Next]_vars PROVE HeardInv'
  OBVIOUS
<1>1. TypeOK /\ TypeOK'
  BY NextTyped DEF HeardInv
<1>2. ASSUME srv_sent' = srv_sent, NEW upto \in consumed + 1 .. 2 * Len(srv_sent),
             ReadChunk(srv_sent, upto)
      PROVE  HeardInOrder' /\ ReadBefore'
  <2>1. upto \in Nat /\ consumed <= upto /\ upto <= 2 * Len(srv_sent)
    BY <1>1 DEF TypeOK
  <2>2. PICK m : m = DataToMessage(srv_sent, upto) /\ Hand(m, upto) /\ HandleServerMessage(m, upto)
    BY <1>2 DEF ReadChunk
  <2> QED
    BY <1>2, <2>1, <2>2, SocketOrder
<1>3. ASSUME srv_sent' = srv_sent, ReadEnd(srv_sent)
      PROVE  HeardInOrder' /\ ReadBefore'
  <2>1. consumed \in Nat /\ consumed <= consumed /\ consumed <= 2 * Len(srv_sent)
    BY <1>1 DEF TypeOK
  <2>2. Hand(Unknown, consumed) /\ HandleServerMessage(Unknown, consumed)
    BY <1>3 DEF ReadEnd
  <2> QED
    BY <1>3, <2>1, <2>2, SocketOrder
<1>4. HeardInOrder' /\ ReadBefore'
  BY <1>1, <1>2, <1>3, StreamSteps, WritingKeepsHeard
<1> QED
  BY <1>1, <1>4 DEF HeardInv

(* What reaches the machine in TCP mode comes in the order it was written
   in and nothing twice, however the stream is cut into chunks. *)
THEOREM TcpOrder == Spec => []HeardInOrder
<1>1. Init => HeardInv
  <2> SUFFICES ASSUME Init PROVE HeardInv
    OBVIOUS
  <2>1. DOMAIN inbox = {}
    BY DEF Init, ClientInit
  <2> QED
    BY <2>1, InitTyped DEF HeardInv, HeardInOrder, ReadBefore
<1>2. HeardInv => HeardInOrder
  BY DEF HeardInv
<1> QED
  BY <1>1, <1>2, NextHeard, PTL DEF Spec

-----------------------------------------------------------------------------
(* What is lost. *)

(* A line that the chunk holds from its beginning to its end is one of the
   matches: the chunk is read as that line, or as one found before it. *)
LEMMA FirstOfChunk ==
    ASSUME NEW lines \in Seq(Line), consumed \in Nat, NEW upto \in Nat,
           upto <= 2 * Len(lines), NEW m, m = DataToMessage(lines, upto),
           NEW i \in DOMAIN lines, Whole(i), 2 * i <= upto, lines[i].type \in DOMAIN Rank
    PROVE  /\ m.type \in DOMAIN Rank /\ consumed < 2 * m.of /\ 2 * m.of <= upto
           /\ IsBefore(m, [type |-> lines[i].type, of |-> i])
<1> DEFINE found == Matches(lines, upto)
           x == [type |-> lines[i].type, of |-> i]
           first == CHOOSE y \in found : \A n \in found : IsBefore(y, n)
<1>1. x \in found
  <2>1. i \in EndsIn(upto)
    BY DEF Whole, EndsIn
  <2> QED
    BY <2>1 DEF Matches, ReadAs
<1>2. first \in found /\ IsBefore(first, x)
  <2>1. found \in SUBSET [type : DOMAIN Rank, of : Nat]
    BY DEF Matches, EndsIn
  <2>2. \E y \in found : \A n \in found : IsBefore(y, n)
    BY <1>1, <2>1, FirstMatch
  <2> QED
    BY <1>1, <2>2
<1>3. m.type = first.type /\ m.of = first.of
  BY <1>1 DEF DataToMessage
<1>4. first.type \in DOMAIN Rank
  BY <1>2 DEF Matches
<1> HIDE DEF first, found, x
<1>5. IsBefore(m, x)
  BY <1>2, <1>3 DEF IsBefore
<1>6. m # Unknown
  BY <1>3, <1>4 DEF Unknown, Rank
<1>7. consumed < 2 * m.of /\ 2 * m.of <= upto
  BY <1>6, ParsedChunk
<1> QED
  BY <1>3, <1>4, <1>5, <1>7 DEF x

(* The chunks end where the next one begins: the last one where the stream
   has been read to. *)
ChunksRead ==
    /\ consumed = 0 \/ \E n \in DOMAIN inbox : inbox[n].to = consumed
    /\ \A n \in DOMAIN inbox : inbox[n].to <= consumed

LossInv == TypeOK /\ ChunksRead /\ LostOnlyByFraming

(* A chunk tells of the lines that end in it, or lets one of them go for a
   reason. *)
LEMMA SocketLoss ==
    ASSUME LossInv,
           NEW upto \in Nat, consumed <= upto, upto <= 2 * Len(srv_sent),
           NEW m, m = DataToMessage(srv_sent, upto) \/ (m = Unknown /\ upto = consumed),
           Hand(m, upto), HandleServerMessage(m, upto), srv_sent' = srv_sent
    PROVE  ChunksRead' /\ LostOnlyByFraming'
<1>0. PICK n : n = Len(inbox) + 1
  OBVIOUS
<1>1. /\ consumed' = upto /\ DOMAIN inbox' = DOMAIN inbox \cup {n}
      /\ \A j \in DOMAIN inbox : inbox'[j] = inbox[j]
      /\ inbox'[n] = Heard(m, upto)
  BY <1>0, SocketHears DEF LossInv
<1>2. /\ consumed \in Nat /\ srv_sent \in Seq(Line) /\ DOMAIN srv_sent \subseteq Nat
      /\ \A j \in DOMAIN inbox : inbox[j].to \in Nat /\ inbox[j].from \in Nat
  <2>1. consumed \in Nat /\ srv_sent \in Seq(Line) /\ inbox \in Seq(Delivery)
    BY DEF LossInv, TypeOK
  <2>2. \A j \in DOMAIN inbox : inbox[j] \in Delivery
    BY <2>1
  <2> QED
    BY <2>1, <2>2 DEF Delivery
<1>3. /\ inbox'[n].type = m.type /\ inbox'[n].of = m.of
      /\ inbox'[n].from = consumed /\ inbox'[n].to = upto
  BY <1>1 DEF Heard
<1>4. ChunksRead'
  BY <1>1, <1>2, <1>3 DEF LossInv, ChunksRead
<1>5. ASSUME NEW i \in DOMAIN srv_sent, 2 * i <= upto, srv_sent[i].type \in DOMAIN Rank
      PROVE  Cut(i)' \/ \E j \in DOMAIN inbox' : Holds(j, i)' /\ Outranks(j, i)'
  <2>1. CASE 2 * i <= consumed
    <3>1. Cut(i) \/ \E j \in DOMAIN inbox : Holds(j, i) /\ Outranks(j, i)
      BY <1>5, <2>1 DEF LossInv, LostOnlyByFraming
    <3>2. ASSUME NEW j \in DOMAIN inbox, Holds(j, i), Outranks(j, i)
          PROVE  j \in DOMAIN inbox' /\ Holds(j, i)' /\ Outranks(j, i)'
      BY <1>1, <3>2 DEF Holds, Outranks
    <3>3. Cut(i) => Cut(i)'
      BY <1>1 DEF Cut
    <3> QED
      BY <3>1, <3>2, <3>3
  <2>2. CASE consumed = 2 * i - 1
    <3>1. PICK j \in DOMAIN inbox : inbox[j].to = consumed
      BY <1>2, <1>5, <2>2 DEF LossInv, ChunksRead
    <3> QED
      BY <1>1, <2>2, <3>1 DEF Cut
  <2>3. CASE consumed <= 2 * i - 2
    <3>1. m = DataToMessage(srv_sent, upto)
      BY <1>2, <1>5, <2>3
    <3>2. Whole(i)
      BY <1>2, <2>3 DEF Whole
    <3>3. /\ m.type \in DOMAIN Rank /\ consumed < 2 * m.of /\ 2 * m.of <= upto
          /\ IsBefore(m, [type |-> srv_sent[i].type, of |-> i])
      BY <1>2, <1>5, <3>1, <3>2, FirstOfChunk
    <3>4. IsBefore(inbox'[n], [type |-> srv_sent[i].type, of |-> i])
      BY <1>3, <3>3 DEF IsBefore
    <3>5. Holds(n, i)' /\ Outranks(n, i)'
      BY <1>2, <1>3, <1>5, <2>3, <3>3, <3>4 DEF Holds, Outranks
    <3> QED
      BY <1>1, <3>5 DEF Holds, Outranks
  <2>4. 2 * i <= consumed \/ consumed = 2 * i - 1 \/ consumed <= 2 * i - 2
    <3>1. i \in Nat /\ consumed \in Nat
      BY <1>2
    <3> QED
      BY <3>1
  <2> QED
    BY <2>1, <2>2, <2>3, <2>4
<1> QED
  BY <1>1, <1>4, <1>5 DEF LostOnlyByFraming, Cut, Holds, Outranks

(* What the server writes is behind what has been received. *)
LEMMA WritingLosesNothing ==
    ASSUME LossInv, UNCHANGED <<consumed, inbox>>,
           srv_sent' = srv_sent \/ \E l : srv_sent' = Append(srv_sent, l)
    PROVE  ChunksRead' /\ LostOnlyByFraming'
<1>1. ChunksRead'
  BY DEF LossInv, ChunksRead
<1>2. srv_sent \in Seq(Line) /\ consumed \in Nat /\ consumed <= 2 * Len(srv_sent)
  BY DEF LossInv, TypeOK
<1>3. ASSUME NEW i \in DOMAIN srv_sent', 2 * i <= consumed
      PROVE  i \in DOMAIN srv_sent /\ srv_sent'[i] = srv_sent[i]
  <2>1. Len(srv_sent) \in Nat /\ DOMAIN srv_sent = 1 .. Len(srv_sent)
    BY <1>2
  <2>2. /\ DOMAIN srv_sent' \subseteq 1 .. Len(srv_sent) + 1
        /\ \A j \in 1 .. Len(srv_sent) : srv_sent'[j] = srv_sent[j]
    BY <1>2, <2>1
  <2>3. i \in Nat /\ 1 <= i /\ i <= Len(srv_sent)
    BY <1>2, <1>3, <2>1, <2>2
  <2> QED
    BY <2>1, <2>2, <2>3
<1>4. ASSUME NEW i \in DOMAIN srv_sent', 2 * i <= consumed, srv_sent'[i].type \in DOMAIN Rank
      PROVE  Cut(i)' \/ \E j \in DOMAIN inbox' : Holds(j, i)' /\ Outranks(j, i)'
  BY <1>3, <1>4 DEF LossInv, LostOnlyByFraming, Cut, Holds, Outranks
<1> QED
  BY <1>1, <1>4 DEF LostOnlyByFraming

(* Every step keeps the account of the chunks. *)
LEMMA NextLoss == LossInv /\ [Next]_vars => LossInv'
<1> SUFFICES ASSUME LossInv, [Next]_vars PROVE LossInv'
  OBVIOUS
<1>1. TypeOK /\ TypeOK'
  BY NextTyped DEF LossInv
<1>2. ASSUME srv_sent' = srv_sent, NEW upto \in consumed + 1 .. 2 * Len(srv_sent),
             ReadChunk(srv_sent, upto)
      PROVE  ChunksRead' /\ LostOnlyByFraming'
  <2>1. upto \in Nat /\ consumed <= upto /\ upto <= 2 * Len(srv_sent)
    BY <1>1 DEF TypeOK
  <2>2. PICK m : m = DataToMessage(srv_sent, upto) /\ Hand(m, upto) /\ HandleServerMessage(m, upto)
    BY <1>2 DEF ReadChunk
  <2> QED
    BY <1>2, <2>1, <2>2, SocketLoss
<1>3. ASSUME srv_sent' = srv_sent, ReadEnd(srv_sent)
      PROVE  ChunksRead' /\ LostOnlyByFraming'
  <2>1. consumed \in Nat /\ consumed <= consumed /\ consumed <= 2 * Len(srv_sent)
    BY <1>1 DEF TypeOK
  <2>2. Hand(Unknown, consumed) /\ HandleServerMessage(Unknown, consumed)
    BY <1>3 DEF ReadEnd
  <2> QED
    BY <1>3, <2>1, <2>2, SocketLoss
<1>4. ChunksRead' /\ LostOnlyByFraming'
  BY <1>1, <1>2, <1>3, StreamSteps, WritingLosesNothing
<1> QED
  BY <1>1, <1>4 DEF LossInv

(* It holds at the start. *)
LEMMA InitLoss == Init => LossInv
<1> SUFFICES ASSUME Init PROVE LossInv
  OBVIOUS
<1>1. consumed = 0 /\ DOMAIN inbox = {} /\ DOMAIN srv_sent = {}
  BY DEF Init, ClientInit, PostmanInit
<1> QED
  BY <1>1, InitTyped DEF LossInv, ChunksRead, LostOnlyByFraming

(* A line of a known type that has been received is lost only by the way the
   stream was cut: a chunk ended within it, or the machine was told of a line
   of the same chunk that TCPPostman::data_to_message tries first.  Whatever
   the framing, the texts and the bounds. *)
THEOREM TcpLossExplained == Spec => []LostOnlyByFraming
<1>1. LossInv => LostOnlyByFraming
  BY DEF LossInv
<1> QED
  BY <1>1, InitLoss, NextLoss, PTL DEF Spec

-----------------------------------------------------------------------------
(* Who is locked out. *)

(* The REPLYs refer to what the client has sent. *)
AnswersAsked ==
    \A i \in DOMAIN srv_sent : srv_sent[i].type = "REPLY" => srv_sent[i].re \in DOMAIN sent

LastAnswer(i) ==
    /\ srv_sent[i].type = "REPLY"
    /\ \A k \in DOMAIN sent : sent[k] \in Request => k <= srv_sent[i].re

(* While stdin is locked although the last request has its answer, no REPLY
   has been heard since: all that were heard are of chunks before it. *)
NoReplySince ==
    \A i \in DOMAIN srv_sent :
        is_waiting_for_reply /\ LastAnswer(i) =>
            \A n \in DOMAIN inbox : inbox[n].type = "REPLY" => inbox[n].to <= 2 * i - 2

LockInv == LossInv /\ AnswersAsked /\ NoReplySince

(* Who touches the lock: a request sets it, and the socket clears it with a
   REPLY; what else clears it tells nothing and sends nothing. *)
LEMMA LockSteps ==
    ASSUME TypeOK, [Next]_vars
    PROVE  \/ /\ UNCHANGED <<sent, inbox, srv_sent>>
              /\ is_waiting_for_reply' => is_waiting_for_reply
           \/ /\ UNCHANGED <<inbox, srv_sent>>
              /\ \E type \in ClientType :
                    /\ sent' = Append(sent, type)
                    /\ type \in Request \/ is_waiting_for_reply' = is_waiting_for_reply
           \/ /\ UNCHANGED <<sent, srv_sent>>
              /\ \E m :
                    /\ DOMAIN inbox' = DOMAIN inbox \cup {Len(inbox) + 1}
                    /\ \A j \in DOMAIN inbox : inbox'[j] = inbox[j]
                    /\ inbox'[Len(inbox) + 1].type = m.type
                    /\ is_waiting_for_reply' = (is_waiting_for_reply /\ ~Unlocks(m))
           \/ /\ UNCHANGED <<sent, inbox, is_waiting_for_reply>>
              /\ \E l : /\ srv_sent' = Append(srv_sent, l)
                        /\ l.type = "REPLY" => l.re \in DOMAIN sent
<1>1. CASE Client
  <2>1. ClientStep(srv_sent) /\ srv_sent' = srv_sent
    BY <1>1 DEF Client
  <2>2. CASE PollSigint \/ PollInterrupted \/ ReadEof \/ PollBegins \/ PollReturns
             \/ ReadEmptyLine \/ SkipStdin \/ SkipSocket \/ Exit \/ HandleFails
             \/ \E cmd \in Command : ReadLine(cmd)
    <3>1. UNCHANGED <<sent, inbox>> /\ (is_waiting_for_reply' => is_waiting_for_reply)
      BY <2>2 DEF PollSigint, PollInterrupted, ReadEof, PollBegins, PollReturns, ReadEmptyLine,
         SkipStdin, SkipSocket, Exit, HandleFails, SendFails, ReadLine, HandleUserCommand,
         EnterMethod, SayBye, UnlockStdin, postman_vars
    <3> QED
      BY <2>1, <3>1
  <2>3. CASE HandleResult
    <3>1. Perform(Reacts.call) /\ inbox' = inbox
      BY <2>3 DEF HandleResult
    <3>2. \/ UNCHANGED postman_vars
          \/ \E type \in ClientType :
                Send(type) /\ (type \in Request \/ is_waiting_for_reply' = is_waiting_for_reply)
      BY <3>1 DEF Perform, Authorize, Join, Message, Error, Bye, ClientType, Request
    <3> QED
      BY <2>1, <3>1, <3>2 DEF Send, postman_vars
  <2>4. ASSUME NEW m, NEW upto \in Nat, upto <= 2 * Len(srv_sent),
               m = DataToMessage(srv_sent, upto) \/ m = Unknown,
               Hand(m, upto), HandleServerMessage(m, upto)
        PROVE  /\ sent' = sent
               /\ DOMAIN inbox' = DOMAIN inbox \cup {Len(inbox) + 1}
               /\ \A j \in DOMAIN inbox : inbox'[j] = inbox[j]
               /\ inbox'[Len(inbox) + 1].type = m.type
               /\ is_waiting_for_reply' = (is_waiting_for_reply /\ ~Unlocks(m))
    <3>1. /\ DOMAIN inbox' = DOMAIN inbox \cup {Len(inbox) + 1}
          /\ \A j \in DOMAIN inbox : inbox'[j] = inbox[j]
          /\ inbox'[Len(inbox) + 1] = Heard(m, upto)
      BY <2>4, SocketHears
    <3> QED
      BY <2>4, <3>1 DEF HandleServerMessage, Heard
  <2>5. CASE \E upto \in consumed + 1 .. 2 * Len(srv_sent) : ReadChunk(srv_sent, upto)
    <3>1. PICK upto \in consumed + 1 .. 2 * Len(srv_sent) : ReadChunk(srv_sent, upto)
      BY <2>5
    <3>2. upto \in Nat /\ upto <= 2 * Len(srv_sent)
      BY <3>1 DEF TypeOK
    <3>3. PICK m : m = DataToMessage(srv_sent, upto) /\ Hand(m, upto) /\ HandleServerMessage(m, upto)
      BY <3>1 DEF ReadChunk
    <3> QED
      BY <2>1, <2>4, <3>2, <3>3
  <2>6. CASE ReadEnd(srv_sent)
    <3>1. consumed \in Nat /\ consumed <= 2 * Len(srv_sent)
      BY DEF TypeOK
    <3>2. Hand(Unknown, consumed) /\ HandleServerMessage(Unknown, consumed)
      BY <2>6 DEF ReadEnd
    <3> QED
      BY <2>1, <2>4, <3>1, <3>2
  <2> QED
    BY <2>1, <2>2, <2>3, <2>5, <2>6 DEF ClientStep
<1>2. ASSUME NEW l, ServerWrites(l), l.type = "REPLY" => l.re \in DOMAIN sent
      PROVE  /\ UNCHANGED <<sent, inbox, is_waiting_for_reply>>
             /\ \E x : /\ srv_sent' = Append(srv_sent, x)
                       /\ x.type = "REPLY" => x.re \in DOMAIN sent
  BY <1>2 DEF ServerWrites, client_vars, postman_vars
<1>3. CASE \E k \in DOMAIN sent, ok \in BOOLEAN, q \in ReplyQuotes : ServerReplies(k, ok, q)
  <2>1. PICK k \in DOMAIN sent, ok \in BOOLEAN, q \in ReplyQuotes : ServerReplies(k, ok, q)
    BY <1>3
  <2> DEFINE l == [type |-> "REPLY", ok |-> ok, quotes |-> q, re |-> k]
  <2>2. l.re = k /\ ServerWrites(l)
    BY <2>1 DEF ServerReplies
  <2> HIDE DEF l
  <2> QED
    BY <1>2, <2>2
<1>4. CASE \E l \in ServerLines : ServerWrites(l)
  BY <1>2, <1>4
<1>5. CASE ServerEnds("shut") \/ ServerEnds("reset")
  BY <1>5 DEF ServerEnds
<1>6. CASE (Sigint \/ CloseStdin) /\ UNCHANGED srv_sent
  BY <1>6 DEF Sigint, CloseStdin, postman_vars
<1>7. CASE UNCHANGED vars
  BY <1>7 DEF vars, client_vars, postman_vars
<1> QED
  BY <1>1, <1>3, <1>4, <1>5, <1>6, <1>7 DEF Next, Environment, Terminated

(* Every step keeps it. *)
LEMMA NextLock == LockInv /\ [Next]_vars => LockInv'
<1> SUFFICES ASSUME LockInv, [Next]_vars PROVE LockInv'
  OBVIOUS
<1>1. LossInv' /\ TypeOK /\ AnswersAsked /\ NoReplySince
  BY NextLoss DEF LockInv, LossInv
<1>2. /\ srv_sent \in Seq(Line) /\ sent \in Seq(ClientType) /\ DOMAIN sent = 1 .. Len(sent)
      /\ Len(sent) \in Nat
  BY <1>1 DEF TypeOK
<1>3. ASSUME UNCHANGED <<sent, inbox, srv_sent>>,
             is_waiting_for_reply' => is_waiting_for_reply
      PROVE  AnswersAsked' /\ NoReplySince'
  BY <1>1, <1>3 DEF LockInv, AnswersAsked, NoReplySince, LastAnswer
<1>4. ASSUME UNCHANGED <<inbox, srv_sent>>, NEW type \in ClientType, sent' = Append(sent, type),
             type \in Request \/ is_waiting_for_reply' = is_waiting_for_reply
      PROVE  AnswersAsked' /\ NoReplySince'
  <2>1. /\ DOMAIN sent' = DOMAIN sent \cup {Len(sent) + 1}
        /\ \A k \in DOMAIN sent : sent'[k] = sent[k]
        /\ sent'[Len(sent) + 1] = type
    BY <1>2, <1>4
  <2>2. AnswersAsked'
    BY <1>1, <1>4, <2>1 DEF AnswersAsked
  <2>3. ASSUME NEW i \in DOMAIN srv_sent, LastAnswer(i)'
        PROVE  type \notin Request /\ LastAnswer(i)
    <3>1. srv_sent[i].re \in 1 .. Len(sent)
      BY <1>1, <1>2, <1>4, <2>3 DEF AnswersAsked, LastAnswer
    <3>2. type \in Request => Len(sent) + 1 <= srv_sent[i].re
      BY <1>4, <2>1, <2>3 DEF LastAnswer
    <3>3. LastAnswer(i)
      BY <1>4, <2>1, <2>3 DEF LastAnswer
    <3> QED
      BY <1>2, <3>1, <3>2, <3>3
  <2>4. NoReplySince'
    BY <1>1, <1>4, <2>3 DEF NoReplySince
  <2> QED
    BY <2>2, <2>4
<1>5. ASSUME UNCHANGED <<sent, srv_sent>>, NEW m,
             DOMAIN inbox' = DOMAIN inbox \cup {Len(inbox) + 1},
             \A j \in DOMAIN inbox : inbox'[j] = inbox[j],
             inbox'[Len(inbox) + 1].type = m.type,
             is_waiting_for_reply' = (is_waiting_for_reply /\ ~Unlocks(m))
      PROVE  AnswersAsked' /\ NoReplySince'
  <2>1. AnswersAsked'
    BY <1>1, <1>5 DEF AnswersAsked
  <2>2. ASSUME NEW i \in DOMAIN srv_sent, is_waiting_for_reply', LastAnswer(i)',
               NEW n \in DOMAIN inbox', inbox'[n].type = "REPLY"
        PROVE  inbox'[n].to <= 2 * i - 2
    <3>1. is_waiting_for_reply /\ LastAnswer(i) /\ n \in DOMAIN inbox
      BY <1>5, <2>2 DEF LastAnswer, Unlocks
    <3> QED
      BY <1>1, <1>5, <2>2, <3>1 DEF NoReplySince
  <2>3. NoReplySince'
    BY <1>5, <2>2 DEF NoReplySince
  <2> QED
    BY <2>1, <2>3
<1>6. ASSUME UNCHANGED <<sent, inbox, is_waiting_for_reply>>,
             NEW l, srv_sent' = Append(srv_sent, l), l.type = "REPLY" => l.re \in DOMAIN sent
      PROVE  AnswersAsked' /\ NoReplySince'
  <2>1. /\ DOMAIN srv_sent' = DOMAIN srv_sent \cup {Len(srv_sent) + 1}
        /\ \A i \in DOMAIN srv_sent : srv_sent'[i] = srv_sent[i]
        /\ srv_sent'[Len(srv_sent) + 1] = l
    BY <1>2, <1>6
  <2>2. AnswersAsked'
    BY <1>1, <1>6, <2>1 DEF AnswersAsked
  <2>3. \A n \in DOMAIN inbox : inbox[n].to <= 2 * (Len(srv_sent) + 1) - 2
    <3>1. consumed \in Nat /\ consumed <= 2 * Len(srv_sent) /\ Len(srv_sent) \in Nat
      BY <1>1, <1>2 DEF TypeOK
    <3>2. \A n \in DOMAIN inbox : inbox[n].to <= consumed /\ inbox[n].to \in Nat
      <4>1. inbox \in Seq(Delivery)
        BY <1>1 DEF TypeOK
      <4>2. \A n \in DOMAIN inbox : inbox[n] \in Delivery
        BY <4>1
      <4> QED
        BY <4>2 DEF LockInv, LossInv, ChunksRead, Delivery
    <3> QED
      BY <3>1, <3>2
  <2>4. NoReplySince'
    BY <1>1, <1>6, <2>1, <2>3 DEF NoReplySince, LastAnswer
  <2> QED
    BY <2>2, <2>4
<1>7. AnswersAsked' /\ NoReplySince'
  BY <1>1, <1>3, <1>4, <1>5, <1>6, LockSteps
<1> QED
  BY <1>1, <1>7 DEF LockInv

(* If stdin is still locked after the REPLY to the last request has been
   received, that line was cut, or shared its chunk with one that
   TCPPostman::data_to_message tries before it: nothing but the framing
   locks a user out of the session. *)
THEOREM TcpLockoutExplained == Spec => []LockedOutByFraming
<1>1. Init => LockInv
  <2> SUFFICES ASSUME Init PROVE LockInv
    OBVIOUS
  <2>1. DOMAIN srv_sent = {}
    BY DEF Init
  <2> QED
    BY <2>1, InitLoss DEF LockInv, AnswersAsked, NoReplySince
<1>2. LockInv => LockedOutByFraming
  <2> SUFFICES ASSUME LockInv,
                      NEW i \in DOMAIN srv_sent, is_waiting_for_reply,
                      LastAnswer(i), 2 * i <= consumed, ~Cut(i)
               PROVE  \E n \in DOMAIN inbox :
                         Holds(n, i) /\ inbox[n].type \in {"JOIN", "AUTH", "MSG", "ERR"}
    BY DEF LockedOutByFraming, LastAnswer
  <2>1. PICK n \in DOMAIN inbox : Holds(n, i) /\ Outranks(n, i)
    BY DEF LockInv, LossInv, LostOnlyByFraming, LastAnswer, Rank
  <2>2. inbox[n].to \in Nat /\ i \in Nat
    <3>1. inbox \in Seq(Delivery) /\ srv_sent \in Seq(Line)
      BY DEF LockInv, LossInv, TypeOK
    <3>2. inbox[n] \in Delivery
      BY <3>1
    <3> QED
      BY <3>1, <3>2 DEF Delivery
  <2>3. inbox[n].type # "REPLY"
    BY <2>1, <2>2 DEF LockInv, NoReplySince, Holds
  <2>4. inbox[n].type \in DOMAIN Rank /\ Rank[inbox[n].type] <= 5
    <3>1. IsBefore(inbox[n], [type |-> "REPLY", of |-> i]) /\ inbox[n].type \in DOMAIN Rank
      BY <2>1 DEF Outranks, LastAnswer
    <3> QED
      BY <3>1 DEF IsBefore, Rank
  <2> QED
    BY <2>1, <2>3, <2>4 DEF Rank
<1> QED
  BY <1>1, <1>2, NextLock, PTL DEF Spec

-----------------------------------------------------------------------------
(* No text of the server reads as a REPLY. *)
QuotesNoReply == (\A l \in ServerLines : l.quotes # "REPLY") /\ "REPLY" \notin ReplyQuotes

-----------------------------------------------------------------------------
(* The invariant. *)

(* What is pending where in the cycle. *)
CycleShape ==
    /\ pc \in {"top", "poll", "stdin"} => results = <<>>
    /\ pc = "socket" => results = <<>> \/ (Len(results) = 1 /\ FromUser(results[1]))
    /\ pc = "handle" => \/ Len(results) = 1
                        \/ Len(results) = 2 /\ FromUser(results[1]) /\ results[2].source = "SERVER"
    /\ state = "S_END" => pc \in {"top", "exited"}

(* stdin is read only when it is not locked. *)
UserClear ==
    pc \in {"socket", "handle"} /\ results # <<>> /\ FromUser(results[1]) =>
        ~is_waiting_for_reply

(* The session is over, or will be with the pending result. *)
Ending ==
    \/ state = "S_END" \/ pc = "aborted"
    \/ pc = "handle" /\ Final(results[1])

(* The REPLYs answer requests, each one once, and no other line reads as
   one. *)
RepliesFit ==
    \A i \in DOMAIN srv_sent :
        /\ srv_sent[i].quotes # "REPLY"
        /\ srv_sent[i].type = "REPLY" =>
               /\ srv_sent[i].re \in DOMAIN sent /\ sent[srv_sent[i].re] \in Request
               /\ \A j \in DOMAIN srv_sent :
                     srv_sent[j].type = "REPLY" /\ srv_sent[j].re = srv_sent[i].re => j = i

(* A request is sent when those before it have their answers, *)
Asked ==
    \A j, k \in DOMAIN sent :
        j < k /\ sent[j] \in Request /\ sent[k] \in Request => Answered(j)

(* and locks stdin for as long as it has none, *)
LockedUntilAnswered ==
    \A k \in DOMAIN sent :
        sent[k] \in Request /\ ~Answered(k) => is_waiting_for_reply \/ Ending

(* and until the answer is read, if it ever is: only the answer to the last
   request is still unread. *)
Unread ==
    \A i \in DOMAIN srv_sent :
        srv_sent[i].type = "REPLY" /\ Whole(i) =>
            /\ is_waiting_for_reply \/ Ending
            /\ \A k \in DOMAIN sent : sent[k] \in Request => k <= srv_sent[i].re

Answers == RepliesFit /\ Asked /\ LockedUntilAnswered /\ Unread

(* The method that runs is that of the state, except that a first result, a
   login from S_START, may have moved the machine to S_AUTH. *)
Placed ==
    /\ pc \in {"poll", "stdin", "socket"} => state = running
    /\ pc = "handle" =>
           \/ state = running
           \/ running = "S_START" /\ state = "S_AUTH" /\ results[1].source = "SERVER"

Commanded ==
    pc \in {"socket", "handle"} /\ results # <<>> => Permitted(running, results[1])

(* In s_error the exit code is set. *)
ErrorNoted ==
    pc \in {"poll", "stdin", "socket", "handle"} /\ running = "S_ERROR" =>
        ret_code = "EXIT_FAILURE"

(* Before the session is open the client has tried to log in and nothing
   else. *)
OnlyLogins == state \in {"S_START", "S_AUTH"} => \A k \in DOMAIN sent : sent[k] = "AUTH"

(* A pending REPLY with result OK is one the server has written. *)
Grants(res) ==
    res.source = "SERVER" /\ res.type = "REPLY" /\ res.ok => \E k \in DOMAIN sent : Granted(k)

GrantPending == pc = "handle" => \A i \in DOMAIN results : Grants(results[i])

Cycle == CycleShape /\ UserClear

Method == Placed /\ Commanded /\ ErrorNoted

SessionInv == TypeOK /\ Cycle /\ Answers /\ Method /\ OnlyLogins /\ GrantPending

-----------------------------------------------------------------------------
(* What the steps leave alone. *)

(* Steps of the server and of the user leave the client alone. *)
LEMMA WorldKeepsClient ==
    ASSUME [Next]_vars, ~Client
    PROVE  UNCHANGED <<pc, results, is_waiting_for_reply, state, running, ret_code, sent,
                       consumed, inbox>>
BY DEF Next, Environment, ServerReplies, ServerWrites, ServerEnds, Sigint, CloseStdin, Terminated,
   vars, client_vars, postman_vars, automata_vars

(* Only the handling of results sends messages and moves the machine. *)
LEMMA OnlyResultsSpeak ==
    ASSUME [Next]_vars, ~(Client /\ HandleResult)
    PROVE  UNCHANGED <<sent, state>>
<1>1. CASE Client
  BY <1>1 DEF Client, ClientStep, PollSigint, PollBegins, PollInterrupted, PollReturns, ReadEof,
     ReadEmptyLine, SkipStdin, ReadLine, ReadChunk, ReadEnd, SkipSocket, HandleFails, Exit,
     EnterMethod, SayBye, UnlockStdin, HandleUserCommand, HandleServerMessage, SendFails,
     automata_vars, postman_vars
<1> QED
  BY <1>1, WorldKeepsClient

(* What reading the socket adds to what is pending. *)
LEMMA SocketAdds ==
    ASSUME TypeOK, CycleShape, pc = "socket",
           \/ \E upto \in consumed + 1 .. 2 * Len(srv_sent) : ReadChunk(srv_sent, upto)
           \/ ReadEnd(srv_sent)
    PROVE  \E m, upto :
              /\ m = Unknown \/ m = DataToMessage(srv_sent, upto)
              /\ upto \in Nat /\ consumed <= upto /\ upto <= 2 * Len(srv_sent)
              /\ HandleServerMessage(m, upto) /\ pc' = "handle"
              /\ LET new == [source |-> "SERVER", type |-> m.type, ok |-> m.ok] IN
                    \/ results = <<>> /\ results' = <<new>>
                    \/ /\ Len(results) = 1 /\ FromUser(results[1]) /\ Len(results') = 2
                       /\ results'[1] = results[1] /\ results'[2] = new
                       /\ DOMAIN results' = 1 .. 2
              /\ UNCHANGED <<state, running, ret_code>>
<1>1. PICK m, upto : /\ m = Unknown \/ m = DataToMessage(srv_sent, upto)
                     /\ upto \in Nat /\ consumed <= upto /\ upto <= 2 * Len(srv_sent)
                     /\ HandleServerMessage(m, upto) /\ Hand(m, upto)
                     /\ UNCHANGED <<state, running, ret_code>>
  <2>1. consumed \in Nat /\ consumed <= 2 * Len(srv_sent) /\ consumed <= consumed
    BY DEF TypeOK
  <2>2. CASE ReadEnd(srv_sent)
    BY <2>1, <2>2 DEF ReadEnd, automata_vars
  <2>3. ASSUME NEW upto \in consumed + 1 .. 2 * Len(srv_sent), ReadChunk(srv_sent, upto)
        PROVE  /\ upto \in Nat /\ consumed <= upto /\ upto <= 2 * Len(srv_sent)
               /\ \E m : m = DataToMessage(srv_sent, upto) /\ HandleServerMessage(m, upto) /\ Hand(m, upto)
               /\ UNCHANGED <<state, running, ret_code>>
    BY <2>1, <2>3 DEF ReadChunk, automata_vars
  <2> QED
    BY <2>2, <2>3
<1> DEFINE new == [source |-> "SERVER", type |-> m.type, ok |-> m.ok]
<1>2. /\ ServerResults(m) = <<new>> /\ ServerResults(m) \in Seq(PollResult)
      /\ results' = results \o ServerResults(m) /\ pc' = "handle"
      /\ results \in Seq(PollResult) /\ results' \in Seq(PollResult)
  <2>1. srv_sent \in Seq(Line) /\ consumed \in Nat /\ results \in Seq(PollResult)
    BY DEF TypeOK
  <2>2. results' \in Seq(PollResult) /\ pc' = "handle"
    BY <1>1, HandTyped
  <2>3. ServerResults(m) = <<new>> /\ ServerResults(m) \in Seq(PollResult)
    BY <1>1, <2>1, ParsedTyped
  <2> QED
    BY <1>1, <2>1, <2>2, <2>3 DEF Hand
<1> HIDE DEF new
<1>3. CASE results = <<>>
  <2>1. results' = <<new>>
    BY <1>2, <1>3
  <2> QED
    BY <1>1, <1>2, <1>3, <2>1 DEF new
<1>4. CASE Len(results) = 1 /\ FromUser(results[1])
  <2>1. Len(ServerResults(m)) = 1 /\ ServerResults(m)[1] = new
    BY <1>2
  <2>2. Len(results') = 2 /\ results'[1] = results[1] /\ results'[2] = new
    BY <1>2, <1>4, <2>1, OneAndOne
  <2>3. DOMAIN results' = 1 .. 2
    BY <1>2, <2>2
  <2> QED
    BY <1>1, <1>2, <1>4, <2>2, <2>3 DEF new
<1> QED
  BY <1>3, <1>4 DEF CycleShape

(* Handling a result takes it off the list; the rest is the server's. *)
LEMMA HandleShape ==
    ASSUME TypeOK, CycleShape, HandleResult
    PROVE  /\ state # "S_END" /\ pc = "handle" /\ Head(results) = results[1]
           /\ results' = Tail(results)
           /\ \/ results' = <<>> /\ pc' = "top"
              \/ /\ FromUser(results[1]) /\ pc' = "handle" /\ Len(results) = 2
                 /\ Len(results') = 1 /\ results'[1] = results[2]
                 /\ results'[1].source = "SERVER"
<1>1. results \in Seq(PollResult) /\ results # <<>> /\ pc = "handle"
  BY DEF TypeOK, HandleResult
<1>2. results' = Tail(results) /\ pc' = (IF Tail(results) = <<>> THEN "top" ELSE "handle")
  BY DEF HandleResult, AfterPoll
<1>3. CASE Len(results) = 1
  BY <1>1, <1>2, <1>3 DEF CycleShape
<1>4. CASE Len(results) = 2 /\ FromUser(results[1]) /\ results[2].source = "SERVER"
  <2>1. Len(results') = 1 /\ results'[1] = results[2] /\ results' # <<>>
    BY <1>1, <1>2, <1>4, TailOfTwo
  <2> QED
    BY <1>1, <1>2, <1>4, <2>1 DEF CycleShape
<1> QED
  BY <1>1, <1>3, <1>4 DEF CycleShape

-----------------------------------------------------------------------------
(* The answers of the server. *)

(* What the server writes: nothing, a line that is no REPLY, or the REPLY to
   a request that has none. *)
LEMMA ServerWritings ==
    ASSUME [Next]_vars
    PROVE  \/ srv_sent' = srv_sent
           \/ /\ ~Client
              /\ \E l \in ServerLines : srv_sent' = Append(srv_sent, l)
           \/ /\ ~Client
              /\ \E k \in DOMAIN sent, ok \in BOOLEAN, q \in ReplyQuotes : ServerReplies(k, ok, q)
<1>1. ASSUME NEW l, ServerWrites(l) PROVE srv_sent' = Append(srv_sent, l) /\ inbox' = inbox
  BY <1>1 DEF ServerWrites, client_vars
<1>2. Client => srv_sent' = srv_sent
  BY DEF Client
<1> QED
  BY <1>1, <1>2 DEF Next, Environment, ServerEnds, Terminated, vars

(* The answers are never taken back. *)
LEMMA AnswersGrow ==
    ASSUME TypeOK, [Next]_vars
    PROVE  \A k : (Answered(k) => Answered(k)') /\ (Granted(k) => Granted(k)')
<1>1. WrittenLines \subseteq WrittenLines'
  <2>1. srv_sent \in Seq(Line)
    BY DEF TypeOK
  <2>2. \A l : srv_sent' = Append(srv_sent, l) => WrittenLines \subseteq WrittenLines'
    BY <2>1 DEF WrittenLines
  <2>3. srv_sent' = srv_sent => WrittenLines' = WrittenLines
    BY DEF WrittenLines
  <2>4. \A k, ok, q : ServerReplies(k, ok, q) => \E l : srv_sent' = Append(srv_sent, l)
    BY DEF ServerReplies, ServerWrites
  <2> QED
    BY <2>2, <2>3, <2>4, ServerWritings
<1> QED
  BY <1>1 DEF Answered, Granted

(* What was granted stays granted. *)
LEMMA GrantsStay ==
    ASSUME TypeOK, [Next]_vars, ~(Client /\ HandleResult)
    PROVE  \A res : Grants(res) => Grants(res)'
BY AnswersGrow, OnlyResultsSpeak DEF Grants

-----------------------------------------------------------------------------
(* The cycle. *)

(* Parts of the invariant that the steps of the cycle keep. *)
Rounds == Cycle /\ Method /\ GrantPending

(* A session that is to be left at once. *)
LEMMA EarlyKeeps ==
    ASSUME SessionInv, [Next]_vars, Client, PollSigint \/ PollInterrupted \/ ReadEof
    PROVE  Rounds' /\ Ending'
<1>1. /\ results' = <<UserResult("BYE")>> /\ pc' = "handle" /\ state' = state /\ state # "S_END"
      /\ \/ pc = "top" /\ running' = state /\ ret_code' = EntryCode(state, ret_code)
         \/ pc \in {"poll", "stdin"} /\ UNCHANGED <<running, ret_code>>
  BY DEF PollSigint, PollInterrupted, ReadEof, SayBye, EnterMethod, automata_vars, SessionInv,
     Cycle, CycleShape
<1>2. /\ Len(results') = 1 /\ results'[1].type = "BYE" /\ results'[1].source = "USER"
      /\ DOMAIN results' = {1}
  BY <1>1 DEF UserResult
<1>3. Cycle' /\ Ending'
  BY <1>1, <1>2 DEF Cycle, CycleShape, UserClear, Ending, Final, FromUser, UserType
<1>4. Method'
  BY <1>1, <1>2 DEF SessionInv, Method, Placed, Commanded, Permitted, FromUser, UserType,
     ErrorNoted, EntryCode
<1>5. GrantPending'
  BY <1>1, <1>2 DEF GrantPending, Grants
<1> QED
  BY <1>3, <1>4, <1>5 DEF Rounds

(* The steps on which nothing new is pending. *)
LEMMA PlainKeeps ==
    ASSUME SessionInv, [Next]_vars, Client, ~HandleResult,
           \/ PollBegins \/ PollReturns \/ ReadEmptyLine \/ SkipStdin \/ Exit \/ HandleFails
           \/ SkipSocket
    PROVE  Rounds'
<1>0. /\ CycleShape /\ UserClear /\ Placed /\ Commanded /\ ErrorNoted /\ GrantPending
      /\ results \in Seq(PollResult) /\ running \in State \ {"S_END"}
  BY DEF SessionInv, Cycle, Method, TypeOK
<1>1. UNCHANGED <<state, results, is_waiting_for_reply>>
  BY DEF PollBegins, PollReturns, ReadEmptyLine, SkipStdin, Exit, HandleFails, SkipSocket,
     SendFails, EnterMethod, automata_vars, postman_vars
<1>2. CASE PollBegins \/ PollReturns \/ ReadEmptyLine \/ SkipStdin \/ Exit \/ HandleFails
  BY <1>0, <1>1, <1>2 DEF PollBegins, PollReturns, ReadEmptyLine, SkipStdin, Exit, HandleFails,
     EnterMethod, EntryCode, automata_vars, Rounds, Cycle, CycleShape, UserClear, Method, Placed,
     Commanded, ErrorNoted, GrantPending
<1>3. CASE SkipSocket
  <2>1. /\ pc = "socket" /\ UNCHANGED <<running, ret_code>>
        /\ \/ results = <<>> /\ pc' = "top"
           \/ results # <<>> /\ pc' = "handle"
    BY <1>3 DEF SkipSocket, AfterPoll, automata_vars
  <2>2. results # <<>> => Len(results) = 1 /\ FromUser(results[1])
    BY <1>0, <2>1 DEF CycleShape
  <2>3. Cycle'
    BY <1>0, <1>1, <2>1, <2>2 DEF Cycle, CycleShape, UserClear
  <2>4. Method'
    BY <1>0, <1>1, <2>1, <2>2 DEF Method, Placed, Commanded, Permitted, FromUser, ErrorNoted
  <2>5. \A i \in DOMAIN results : results # <<>> /\ results[i].source = "USER"
    BY <1>0, <2>2 DEF FromUser
  <2>6. GrantPending'
    BY <1>1, <2>5 DEF GrantPending, Grants
  <2> QED
    BY <2>3, <2>4, <2>6 DEF Rounds
<1> QED
  BY <1>2, <1>3

(* A line of the user. *)
LEMMA LineKeeps ==
    ASSUME SessionInv, NEW cmd \in Command, ReadLine(cmd)
    PROVE  Rounds'
<1>1. /\ pc = "stdin" /\ pc' = "socket" /\ UNCHANGED <<state, running, ret_code>>
      /\ ~is_waiting_for_reply /\ ~is_waiting_for_reply' /\ running \in State \ {"S_END"}
      /\ results' = UserResults(cmd, AllowedCommands(running)) /\ state # "S_END"
  BY DEF ReadLine, HandleUserCommand, automata_vars, SessionInv, Cycle, CycleShape, TypeOK
<1>2. Cycle'
  BY <1>1, LineShape DEF Cycle, CycleShape, UserClear
<1>3. results' # <<>> => Permitted(running, results'[1])
  BY <1>1, LineCommanded
<1>4. Method'
  BY <1>1, <1>3 DEF SessionInv, Method, Placed, Commanded, Permitted, FromUser, ErrorNoted
<1>5. GrantPending'
  BY <1>1 DEF GrantPending
<1> QED
  BY <1>2, <1>4, <1>5 DEF Rounds

(* A chunk that becomes a REPLY with result OK holds one. *)
LEMMA ReplyWritten ==
    ASSUME SessionInv, NEW upto \in Nat, upto <= 2 * Len(srv_sent), NEW m,
           m = Unknown \/ m = DataToMessage(srv_sent, upto), m.type = "REPLY"
    PROVE  /\ m.of \in DOMAIN srv_sent /\ srv_sent[m.of].type = "REPLY" /\ Whole(m.of)
           /\ 2 * m.of <= upto
           /\ m.ok => \E k \in DOMAIN sent : Granted(k)
<1>1. srv_sent \in Seq(Line) /\ consumed \in Nat /\ RepliesFit
  BY DEF SessionInv, TypeOK, Answers
<1>2. m # Unknown
  BY DEF Unknown
<1>3. /\ m.of \in DOMAIN srv_sent /\ m.type \in ReadAs(srv_sent, m.of) /\ 2 * m.of <= upto
      /\ (Whole(m.of) /\ srv_sent[m.of].type = "REPLY" => m.ok = srv_sent[m.of].ok)
  BY <1>1, <1>2, ParsedChunk
<1>4. srv_sent[m.of].type = "REPLY" /\ Whole(m.of)
  BY <1>1, <1>3 DEF ReadAs, RepliesFit
<1>5. srv_sent[m.of].re \in DOMAIN sent
  BY <1>1, <1>3, <1>4 DEF RepliesFit
<1>6. m.ok => Granted(srv_sent[m.of].re)
  BY <1>3, <1>4 DEF Granted, WrittenLines
<1> QED
  BY <1>3, <1>4, <1>5, <1>6

(* A chunk, or the end of the stream. *)
LEMMA SocketKeeps ==
    ASSUME SessionInv, [Next]_vars, ~(Client /\ HandleResult), pc = "socket",
           \/ \E upto \in consumed + 1 .. 2 * Len(srv_sent) : ReadChunk(srv_sent, upto)
           \/ ReadEnd(srv_sent)
    PROVE  Rounds'
<1>0. /\ TypeOK /\ CycleShape /\ UserClear /\ Placed /\ Commanded /\ ErrorNoted
      /\ results \in Seq(PollResult) /\ running \in State \ {"S_END"} /\ state # "S_END"
  BY DEF SessionInv, Cycle, Method, TypeOK, CycleShape
<1>1. PICK m, upto :
              /\ m = Unknown \/ m = DataToMessage(srv_sent, upto)
              /\ upto \in Nat /\ consumed <= upto /\ upto <= 2 * Len(srv_sent)
              /\ HandleServerMessage(m, upto) /\ pc' = "handle"
              /\ LET new == [source |-> "SERVER", type |-> m.type, ok |-> m.ok] IN
                    \/ results = <<>> /\ results' = <<new>>
                    \/ /\ Len(results) = 1 /\ FromUser(results[1]) /\ Len(results') = 2
                       /\ results'[1] = results[1] /\ results'[2] = new
                       /\ DOMAIN results' = 1 .. 2
              /\ UNCHANGED <<state, running, ret_code>>
  BY <1>0, SocketAdds
<1> DEFINE new == [source |-> "SERVER", type |-> m.type, ok |-> m.ok]
<1>2. new.source = "SERVER" /\ Permitted(running, new)
  BY DEF Permitted, FromUser
<1>3. Grants(new)
  BY <1>1, ReplyWritten DEF Grants
<1>4. Grants(new)'
  BY <1>0, <1>3, GrantsStay
<1>5. is_waiting_for_reply' => is_waiting_for_reply
  BY <1>1 DEF HandleServerMessage
<1> HIDE DEF new
<1>6. CASE results = <<>> /\ results' = <<new>>
  <2>1. Len(results') = 1 /\ results'[1] = new /\ DOMAIN results' = {1}
    BY <1>6
  <2>2. Cycle' /\ Method'
    BY <1>0, <1>1, <1>2, <2>1 DEF Cycle, CycleShape, UserClear, Method, Placed, Commanded,
       Permitted, FromUser, ErrorNoted
  <2>3. GrantPending'
    BY <1>4, <2>1 DEF GrantPending, new, Grants
  <2> QED
    BY <2>2, <2>3 DEF Rounds
<1>7. CASE /\ Len(results) = 1 /\ FromUser(results[1]) /\ Len(results') = 2
           /\ results'[1] = results[1] /\ results'[2] = new
           /\ DOMAIN results' = 1 .. 2
  <2>1. results # <<>> /\ ~is_waiting_for_reply /\ Permitted(running, results[1])
    BY <1>0, <1>7 DEF UserClear, Commanded
  <2>2. Cycle' /\ Method'
    BY <1>0, <1>1, <1>2, <1>5, <1>7, <2>1 DEF Cycle, CycleShape, UserClear, Method, Placed,
       Commanded, Permitted, FromUser, ErrorNoted
  <2>3. \A i \in DOMAIN results' : results'[i] = new \/ results'[i].source = "USER"
    BY <1>7 DEF FromUser
  <2>4. GrantPending'
    BY <1>4, <2>3 DEF GrantPending, new, Grants
  <2> QED
    BY <2>2, <2>4 DEF Rounds
<1> QED
  BY <1>1, <1>6, <1>7 DEF new

(* Every step that handles no result keeps the cycle. *)
LEMMA QuietRounds ==
    ASSUME SessionInv, [Next]_vars, ~(Client /\ HandleResult)
    PROVE  Rounds'
<1>1. CASE ~Client
  <2>1. UNCHANGED <<pc, results, is_waiting_for_reply, state, running, ret_code>>
    BY <1>1, WorldKeepsClient
  <2>2. \A res : Grants(res) => Grants(res)'
    BY GrantsStay DEF SessionInv
  <2>3. Cycle' /\ Method'
    BY <2>1 DEF SessionInv, Cycle, CycleShape, UserClear, Method, Placed, Commanded, ErrorNoted
  <2>4. GrantPending'
    BY <2>1, <2>2 DEF SessionInv, GrantPending
  <2> QED
    BY <2>3, <2>4 DEF Rounds
<1>2. CASE Client
  <2>1. ClientStep(srv_sent) /\ ~HandleResult
    BY <1>2 DEF Client
  <2>2. ReadEnd(srv_sent) => pc = "socket"
    BY DEF ReadEnd
  <2>3. \A upto : ReadChunk(srv_sent, upto) => pc = "socket"
    BY DEF ReadChunk
  <2> QED
    BY <1>2, <2>1, <2>2, <2>3, EarlyKeeps, PlainKeeps, LineKeeps, SocketKeeps DEF ClientStep
<1> QED
  BY <1>1, <1>2

-----------------------------------------------------------------------------
(* The session ends for good. *)
LEMMA EndingStays ==
    ASSUME SessionInv, [Next]_vars, Ending
    PROVE  Ending'
<1>0. TypeOK /\ CycleShape /\ (state' = state \/ (Client /\ HandleResult))
  BY OnlyResultsSpeak DEF SessionInv, Cycle
<1>1. CASE Client /\ HandleResult
  <2>1. state # "S_END" /\ pc = "handle" /\ Head(results) = results[1]
    BY <1>1, HandleShape DEF SessionInv, Cycle
  <2>2. Final(results[1])
    BY <2>1 DEF Ending
  <2>3. state' = React(running, results[1], state).next
    BY <1>1, <2>1 DEF HandleResult, Reacts
  <2>4. state' = "S_END"
    BY <2>2, <2>3, ReactOrderly DEF Orderly
  <2> QED
    BY <2>4 DEF Ending
<1>2. CASE ~Client
  BY <1>2, WorldKeepsClient DEF Ending
<1>3. CASE Client /\ ~HandleResult
  <2>1. state' = state
    BY <1>3, OnlyResultsSpeak
  <2>2. pc # "aborted" /\ (pc = "handle" => pc' = "aborted")
    BY <1>3 DEF Client, ClientStep, PollSigint, PollBegins, PollInterrupted, PollReturns, ReadEof,
       ReadEmptyLine, SkipStdin, ReadLine, ReadChunk, ReadEnd, SkipSocket, HandleFails, Exit,
       EnterMethod
  <2> QED
    BY <2>1, <2>2 DEF Ending
<1> QED
  BY <1>1, <1>2, <1>3

(* As long as nobody speaks, the answers stay what they are, and stdin stays
   locked until the session is over. *)
LEMMA SilenceAnswers ==
    ASSUME TypeOK, Answers, UNCHANGED <<sent, srv_sent>>, consumed' \in Nat, consumed <= consumed',
           Ending => Ending', is_waiting_for_reply => is_waiting_for_reply' \/ Ending'
    PROVE  Answers'
<1>1. \A i \in DOMAIN srv_sent : Whole(i)' => Whole(i)
  BY DEF Whole, TypeOK
<1>2. \A k : Answered(k)' = Answered(k)
  BY DEF Answered, WrittenLines
<1>3. RepliesFit' /\ Asked'
  BY <1>2 DEF Answers, RepliesFit, Asked
<1>4. LockedUntilAnswered'
  BY <1>2 DEF Answers, LockedUntilAnswered
<1>5. Unread'
  BY <1>1 DEF Answers, Unread
<1> QED
  BY <1>3, <1>4, <1>5 DEF Answers

(* A chunk with a REPLY: it was the answer to the last request, so none is
   left to wait for. *)
LEMMA ReplyAnswers ==
    ASSUME SessionInv, NEW upto \in Nat, consumed <= upto, upto <= 2 * Len(srv_sent), NEW m,
           m = Unknown \/ m = DataToMessage(srv_sent, upto), m.type = "REPLY",
           UNCHANGED <<sent, srv_sent>>, consumed' = upto, Ending => Ending'
    PROVE  Answers'
<1>1. PICK i : /\ i = m.of /\ i \in DOMAIN srv_sent /\ srv_sent[i].type = "REPLY" /\ Whole(i)
               /\ 2 * i <= upto
  BY ReplyWritten
<1>2. Answers /\ srv_sent \in Seq(Line) /\ DOMAIN sent \subseteq Nat /\ consumed \in Nat
  BY DEF SessionInv, TypeOK
<1>3. \A k : Answered(k)' = Answered(k)
  BY DEF Answered, WrittenLines
<1>4. RepliesFit' /\ Asked'
  BY <1>2, <1>3 DEF Answers, RepliesFit, Asked
<1> DEFINE last == srv_sent[i].re
<1>5. /\ last \in DOMAIN sent /\ sent[last] \in Request /\ Answered(last)
      /\ \A k \in DOMAIN sent : sent[k] \in Request => k <= last
  BY <1>1, <1>2 DEF Answers, RepliesFit, Unread, Answered, WrittenLines
<1>6. \A k \in DOMAIN sent : sent[k] \in Request => Answered(k)
  <2>1. SUFFICES ASSUME NEW k \in DOMAIN sent, sent[k] \in Request PROVE Answered(k)
    OBVIOUS
  <2>2. k = last \/ k < last
    BY <1>2, <1>5, <2>1
  <2> QED
    BY <1>2, <1>5, <2>1, <2>2 DEF Answers, Asked
<1>7. LockedUntilAnswered'
  BY <1>3, <1>6 DEF LockedUntilAnswered
<1>8. \A j \in DOMAIN srv_sent : srv_sent[j].type = "REPLY" => ~Whole(j)'
  <2>1. SUFFICES ASSUME NEW j \in DOMAIN srv_sent, srv_sent[j].type = "REPLY", Whole(j)'
                 PROVE  FALSE
    OBVIOUS
  <2>2. j \in Nat /\ i \in Nat /\ upto < 2 * j - 1 /\ consumed < 2 * j - 1
    BY <1>1, <1>2, <2>1 DEF Whole
  <2>3. /\ srv_sent[j].re \in DOMAIN sent /\ sent[srv_sent[j].re] \in Request
        /\ \A k \in DOMAIN sent : sent[k] \in Request => k <= srv_sent[j].re
    BY <1>2, <2>1, <2>2 DEF Answers, RepliesFit, Unread, Whole
  <2>4. srv_sent[j].re = last
    BY <1>2, <1>5, <2>3
  <2>5. j = i
    BY <1>1, <1>2, <2>1, <2>4 DEF Answers, RepliesFit
  <2> QED
    BY <1>1, <2>2, <2>5
<1>9. Unread'
  BY <1>8 DEF Unread
<1> QED
  BY <1>4, <1>7, <1>9 DEF Answers

(* A line of the server that is no REPLY. *)
LEMMA LineAnswers ==
    ASSUME QuotesNoReply, SessionInv, NEW l \in ServerLines, srv_sent' = Append(srv_sent, l),
           UNCHANGED <<sent, consumed, is_waiting_for_reply>>, Ending => Ending'
    PROVE  Answers'
<1>1. l.type # "REPLY" /\ l.quotes # "REPLY"
  BY ServerLinesAssumption DEF QuotesNoReply
<1>2. Answers /\ srv_sent \in Seq(Line)
  BY DEF SessionInv, TypeOK
<1> DEFINE n == Len(srv_sent) + 1
<1>3. /\ DOMAIN srv_sent' = DOMAIN srv_sent \cup {n} /\ srv_sent'[n] = l
      /\ \A i \in DOMAIN srv_sent : srv_sent'[i] = srv_sent[i]
  BY <1>2
<1> HIDE DEF n
<1>4. \A k : Answered(k)' = Answered(k)
  BY <1>1, <1>3 DEF Answered, WrittenLines
<1>5. RepliesFit'
  BY <1>1, <1>2, <1>3 DEF Answers, RepliesFit
<1>6. Asked' /\ LockedUntilAnswered'
  BY <1>2, <1>4 DEF Answers, Asked, LockedUntilAnswered
<1>7. Unread'
  BY <1>1, <1>2, <1>3 DEF Answers, Unread, Whole
<1> QED
  BY <1>5, <1>6, <1>7 DEF Answers

(* A REPLY: its request is the last one, and stdin is still locked. *)
LEMMA NewReplyAnswers ==
    ASSUME QuotesNoReply, SessionInv, [Next]_vars, ~Client,
           NEW k \in DOMAIN sent, NEW ok \in BOOLEAN, NEW q \in ReplyQuotes, ServerReplies(k, ok, q)
    PROVE  Answers'
<1> DEFINE l == [type |-> "REPLY", ok |-> ok, quotes |-> q, re |-> k]
<1>1. l.type = "REPLY" /\ l.quotes # "REPLY" /\ l.re = k
  BY DEF QuotesNoReply
<1>2. Answers /\ srv_sent \in Seq(Line) /\ DOMAIN sent \subseteq Nat
  BY DEF SessionInv, TypeOK
<1>3. sent[k] \in Request /\ ~Answered(k) /\ srv_sent' = Append(srv_sent, l)
  BY DEF ServerReplies, ServerWrites
<1>4. UNCHANGED <<sent, consumed, is_waiting_for_reply>> /\ (Ending => Ending')
  BY WorldKeepsClient, EndingStays
<1> HIDE DEF l
<1> DEFINE n == Len(srv_sent) + 1
<1>5. /\ DOMAIN srv_sent' = DOMAIN srv_sent \cup {n} /\ srv_sent'[n] = l
      /\ \A i \in DOMAIN srv_sent : srv_sent'[i] = srv_sent[i]
  BY <1>2, <1>3
<1> HIDE DEF n
<1>6. \A j : Answered(j)' <=> Answered(j) \/ j = k
  BY <1>1, <1>5 DEF Answered, WrittenLines
<1>7. \A i \in DOMAIN srv_sent : srv_sent[i].type = "REPLY" => srv_sent[i].re # k
  BY <1>3 DEF Answered, WrittenLines
<1>8. RepliesFit'
  BY <1>1, <1>2, <1>3, <1>4, <1>5, <1>7 DEF Answers, RepliesFit
<1>9. Asked' /\ LockedUntilAnswered'
  BY <1>2, <1>4, <1>6 DEF Answers, Asked, LockedUntilAnswered
<1>10. is_waiting_for_reply \/ Ending
  BY <1>2, <1>3 DEF Answers, LockedUntilAnswered
<1>11. \A j \in DOMAIN sent : sent[j] \in Request => j <= k
  <2>1. \A j \in DOMAIN sent : sent[j] \in Request => ~(k < j)
    BY <1>2, <1>3 DEF Answers, Asked
  <2> QED
    BY <1>2, <2>1
<1>12. Unread'
  <2>1. \A i \in DOMAIN srv_sent : Whole(i)' = Whole(i)
    BY <1>4 DEF Whole
  <2> QED
    BY <1>1, <1>2, <1>4, <1>5, <1>10, <1>11, <2>1 DEF Answers, Unread
<1> QED
  BY <1>8, <1>9, <1>12 DEF Answers

(* Reading the socket. *)
LEMMA SocketAnswers ==
    ASSUME SessionInv, [Next]_vars, Client, ~HandleResult, pc = "socket",
           \/ \E upto \in consumed + 1 .. 2 * Len(srv_sent) : ReadChunk(srv_sent, upto)
           \/ ReadEnd(srv_sent)
    PROVE  Answers'
<1>0. TypeOK /\ CycleShape /\ Answers /\ srv_sent' = srv_sent /\ (Ending => Ending')
  BY EndingStays DEF SessionInv, Cycle, Client
<1>1. PICK m, upto :
              /\ m = Unknown \/ m = DataToMessage(srv_sent, upto)
              /\ upto \in Nat /\ consumed <= upto /\ upto <= 2 * Len(srv_sent)
              /\ HandleServerMessage(m, upto)
  BY <1>0, SocketAdds
<1>2. /\ consumed' = upto /\ sent' = sent
      /\ is_waiting_for_reply' = (is_waiting_for_reply /\ m.type # "REPLY")
  BY <1>1 DEF HandleServerMessage, ConsumedAfter, Unlocks
<1>3. CASE m.type = "REPLY"
  BY <1>0, <1>1, <1>2, <1>3, ReplyAnswers
<1>4. CASE m.type # "REPLY"
  BY <1>0, <1>1, <1>2, <1>4, SilenceAnswers
<1> QED
  BY <1>3, <1>4

(* Every step that handles no result keeps the answers. *)
LEMMA QuietAnswers ==
    ASSUME QuotesNoReply, SessionInv, [Next]_vars, ~(Client /\ HandleResult)
    PROVE  Answers'
<1>0. TypeOK /\ Answers /\ sent' = sent /\ (Ending => Ending') /\ consumed \in Nat
  BY OnlyResultsSpeak, EndingStays DEF SessionInv, TypeOK
<1>1. CASE ~Client
  <2>1. UNCHANGED <<sent, consumed, is_waiting_for_reply>>
    BY <1>1, WorldKeepsClient
  <2>2. CASE srv_sent' = srv_sent
    BY <1>0, <2>1, <2>2, SilenceAnswers
  <2> QED
    BY <1>0, <1>1, <2>1, <2>2, ServerWritings, LineAnswers, NewReplyAnswers
<1>2. CASE Client
  <2>1. ClientStep(srv_sent) /\ ~HandleResult /\ srv_sent' = srv_sent
    BY <1>2 DEF Client
  <2>2. CASE PollSigint \/ PollInterrupted \/ ReadEof
    <3>1. Ending' /\ consumed' = consumed
      BY <1>2, <2>2, EarlyKeeps DEF PollSigint, PollInterrupted, ReadEof, SayBye, UnlockStdin
    <3> QED
      BY <1>0, <2>1, <3>1, SilenceAnswers
  <2>3. CASE \/ PollBegins \/ PollReturns \/ ReadEmptyLine \/ SkipStdin \/ Exit \/ HandleFails
             \/ SkipSocket \/ \E cmd \in Command : ReadLine(cmd)
    <3>1. UNCHANGED <<consumed, is_waiting_for_reply>>
      BY <2>3 DEF PollBegins, PollReturns, ReadEmptyLine, SkipStdin, Exit, HandleFails,
         SkipSocket, SendFails, ReadLine, HandleUserCommand, postman_vars
    <3> QED
      BY <1>0, <2>1, <3>1, SilenceAnswers
  <2>4. CASE \/ \E upto \in consumed + 1 .. 2 * Len(srv_sent) : ReadChunk(srv_sent, upto)
             \/ ReadEnd(srv_sent)
    <3>1. pc = "socket"
      BY <2>4 DEF ReadChunk, ReadEnd
    <3> QED
      BY <1>2, <2>1, <2>4, <3>1, SocketAnswers
  <2> QED
    BY <2>1, <2>2, <2>3, <2>4 DEF ClientStep
<1> QED
  BY <1>1, <1>2

-----------------------------------------------------------------------------
(* Handling a result. *)

(* What handling a result does, in terms of the session. *)
LEMMA HandleSessionLike ==
    ASSUME SessionInv, HandleResult
    PROVE  LET res == results[1]
               r   == React(running, res, state)
           IN  /\ SessionLike(r, res, state) /\ Orderly(r, res, state)
               /\ Perform(r.call) /\ state' = r.next /\ running' = running
               /\ ret_code' = (IF r.fail THEN "EXIT_FAILURE" ELSE ret_code)
               /\ Permitted(running, res) /\ Grants(res) /\ pc = "handle" /\ state # "S_END"
               /\ running \in State \ {"S_END"}
<1>1. /\ TypeOK /\ CycleShape /\ results \in Seq(PollResult) /\ results # <<>> /\ pc = "handle"
      /\ running \in State \ {"S_END"} /\ state \in State
  BY DEF SessionInv, Cycle, TypeOK, HandleResult
<1>2. results[1] \in PollResult /\ 1 \in DOMAIN results
  BY <1>1
<1>3. Permitted(running, results[1]) /\ Grants(results[1])
  BY <1>1, <1>2 DEF SessionInv, Method, Commanded, GrantPending
<1>4. state = running \/ (running = "S_START" /\ state = "S_AUTH" /\ results[1].source = "SERVER")
  BY <1>1 DEF SessionInv, Method, Placed
<1>5. SessionLike(React(running, results[1], state), results[1], state)
  BY <1>1, <1>2, <1>3, <1>4, ReactSessionLike
<1>6. Orderly(React(running, results[1], state), results[1], state)
  BY ReactOrderly
<1>7. Head(results) = results[1] /\ state # "S_END"
  BY <1>1, HandleShape
<1> QED
  BY <1>1, <1>3, <1>5, <1>6, <1>7 DEF HandleResult, Reacts

(* Nothing is sent, or one message; a message of the user only on his
   command. *)
LEMMA HandleSays ==
    ASSUME SessionInv, HandleResult
    PROVE  /\ consumed' = consumed
           /\ \/ UNCHANGED <<sent, is_waiting_for_reply>>
              \/ \E type \in ClientType :
                    /\ sent' = Append(sent, type)
                    /\ type \in Request => is_waiting_for_reply'
                    /\ type \notin Request => UNCHANGED is_waiting_for_reply
                    /\ type \in UserType => FromUser(results[1])
<1> DEFINE r == React(running, results[1], state)
<1>1. Perform(r.call) /\ Orderly(r, results[1], state)
  BY HandleSessionLike
<1> HIDE DEF r
<1>2. r.call \in {"authorize", "join", "message"} => FromUser(results[1])
  BY <1>1 DEF Orderly
<1>3. CASE r.call = "none" /\ UNCHANGED postman_vars
  BY <1>3 DEF postman_vars
<1>4. CASE r.call = "authorize" /\ Authorize
  BY <1>2, <1>4 DEF Authorize, Send, ClientType, Request
<1>5. CASE r.call = "join" /\ Join
  BY <1>2, <1>5 DEF Join, Send, ClientType, Request
<1>6. CASE r.call = "message" /\ Message
  BY <1>2, <1>6 DEF Message, Send, ClientType, Request
<1>7. CASE (r.call = "error" /\ Error) \/ (r.call = "bye" /\ Bye)
  BY <1>7 DEF Error, Bye, Send, ClientType, Request, UserType
<1> QED
  BY <1>1, <1>3, <1>4, <1>5, <1>6, <1>7 DEF Perform

(* A message sent is one more. *)
LEMMA SendExtends ==
    ASSUME TypeOK, NEW type \in ClientType, sent' = Append(sent, type)
    PROVE  /\ Len(sent') = Len(sent) + 1 /\ Len(sent) \in Nat /\ DOMAIN sent = 1 .. Len(sent)
           /\ DOMAIN sent' = DOMAIN sent \cup {Len(sent) + 1}
           /\ \A k \in DOMAIN sent : sent'[k] = sent[k]
           /\ sent'[Len(sent) + 1] = type
BY DEF TypeOK

(* When a command of the user is handled, every request has its answer, and
   every answer has been read. *)
LEMMA UserIsFree ==
    ASSUME SessionInv, HandleResult, FromUser(results[1])
    PROVE  /\ \A k \in DOMAIN sent : sent[k] \in Request => Answered(k)
           /\ \A i \in DOMAIN srv_sent : srv_sent[i].type = "REPLY" => ~Whole(i)
<1>1. pc = "handle" /\ state # "S_END" /\ results # <<>>
  BY HandleShape DEF SessionInv, Cycle, HandleResult, TypeOK
<1>2. ~is_waiting_for_reply
  BY <1>1 DEF SessionInv, Cycle, UserClear
<1>3. ~Ending
  BY <1>1 DEF Ending, Final, FromUser, UserType
<1> QED
  BY <1>2, <1>3 DEF SessionInv, Answers, LockedUntilAnswered, Unread

(* Handling a result keeps the answers. *)
LEMMA HandleAnswers ==
    ASSUME SessionInv, [Next]_vars, Client, HandleResult
    PROVE  Answers'
<1>0. /\ TypeOK /\ Answers /\ srv_sent' = srv_sent /\ (Ending => Ending') /\ consumed \in Nat
      /\ consumed' = consumed
  BY EndingStays, HandleSays DEF SessionInv, TypeOK, Client
<1>1. CASE UNCHANGED <<sent, is_waiting_for_reply>>
  BY <1>0, <1>1, SilenceAnswers
<1>2. ASSUME NEW type \in ClientType, sent' = Append(sent, type),
             type \in Request => is_waiting_for_reply',
             type \notin Request => UNCHANGED is_waiting_for_reply,
             type \in UserType => FromUser(results[1])
      PROVE  Answers'
  <2> DEFINE n == Len(sent) + 1
  <2>1. /\ Len(sent) \in Nat /\ DOMAIN sent = 1 .. Len(sent)
        /\ DOMAIN sent' = DOMAIN sent \cup {n}
        /\ \A k \in DOMAIN sent : sent'[k] = sent[k]
        /\ sent'[n] = type
    BY <1>0, <1>2, SendExtends
  <2>2. \A k \in DOMAIN sent : k < n /\ k \in Nat
    BY <2>1
  <2> HIDE DEF n
  <2>3. \A k : Answered(k)' = Answered(k)
    BY <1>0 DEF Answered, WrittenLines
  <2>4. RepliesFit'
    BY <1>0, <2>1 DEF Answers, RepliesFit
  <2>5. \A i : Whole(i)' = Whole(i)
    BY <1>0 DEF Whole
  <2>6. CASE type \in Request
    <3>1. /\ \A k \in DOMAIN sent : sent[k] \in Request => Answered(k)
          /\ \A i \in DOMAIN srv_sent : srv_sent[i].type = "REPLY" => ~Whole(i)
      BY <1>2, <2>6, UserIsFree DEF Request, UserType
    <3>2. Asked'
      <4>1. SUFFICES ASSUME NEW j \in DOMAIN sent', NEW k \in DOMAIN sent', j < k,
                            sent'[j] \in Request
                     PROVE  Answered(j)
        BY <2>3 DEF Asked
      <4>2. j \in DOMAIN sent
        <5>1. n \in Nat /\ (j = n => k \in DOMAIN sent \/ k = n)
          BY <2>1 DEF n
        <5> QED
          BY <2>1, <2>2, <4>1, <5>1
      <4> QED
        BY <2>1, <3>1, <4>1, <4>2
    <3>3. LockedUntilAnswered'
      BY <1>2, <2>6 DEF LockedUntilAnswered
    <3>4. Unread'
      BY <1>0, <2>5, <3>1 DEF Unread
    <3> QED
      BY <2>4, <3>2, <3>3, <3>4 DEF Answers
  <2>7. CASE type \notin Request
    <3>1. is_waiting_for_reply' = is_waiting_for_reply
      BY <1>2, <2>7
    <3>2. Asked' /\ LockedUntilAnswered' /\ Unread'
      BY <1>0, <2>1, <2>3, <2>5, <2>7, <3>1 DEF Answers, Asked, LockedUntilAnswered, Unread
    <3> QED
      BY <2>4, <3>2 DEF Answers
  <2> QED
    BY <2>6, <2>7
<1> QED
  BY <1>1, <1>2, HandleSays

(* After a first result, a command, the machine is where the method expects
   it, or has just logged in. *)
LEMMA HandleRounds ==
    ASSUME SessionInv, [Next]_vars, Client, HandleResult
    PROVE  Rounds' /\ OnlyLogins'
<1> DEFINE res == results[1]
           r == React(running, res, state)
<1>1. /\ SessionLike(r, res, state) /\ Orderly(r, res, state)
      /\ Perform(r.call) /\ state' = r.next /\ running' = running
      /\ Permitted(running, res) /\ pc = "handle" /\ running \in State \ {"S_END"}
      /\ state # "S_END"
  BY HandleSessionLike
<1>2. TypeOK /\ CycleShape /\ results \in Seq(PollResult)
  BY DEF SessionInv, Cycle, TypeOK
<1>3. \/ results' = <<>> /\ pc' = "top"
      \/ /\ FromUser(res) /\ pc' = "handle" /\ Len(results') = 1 /\ Len(results) = 2
         /\ results'[1] = results[2] /\ results'[1].source = "SERVER"
  BY <1>2, HandleShape
<1>4. ASSUME pc' = "top", results' = <<>> PROVE Rounds'
  BY <1>4 DEF Rounds, Cycle, CycleShape, UserClear, Method, Placed, Commanded, ErrorNoted,
     GrantPending
<1>5. ASSUME FromUser(res), pc' = "handle", Len(results') = 1, Len(results) = 2,
             results'[1] = results[2], results'[1].source = "SERVER"
      PROVE  Rounds'
  <2>0. state' # "S_END"
    BY <1>1, <1>5 DEF Orderly
  <2>1. \/ running \in {"S_START", "S_AUTH"} /\ res.type = "AUTH"
        \/ running = "S_OPEN" /\ res.type \in {"JOIN", "MSG"}
    BY <1>1, <1>5 DEF Permitted
  <2>2. state = running
    BY <1>1, <1>5 DEF SessionInv, Method, Placed, FromUser
  <2>3. ASSUME running = "S_START" PROVE Placed'
    <3>1. S_Start(res, state) = Go("authorize", "S_AUTH")
      BY <1>5, <2>1, <2>3 DEF S_Start, From, FromUser
    <3>2. r.next = "S_AUTH"
      BY <2>3, <3>1 DEF React, Go
    <3> QED
      BY <1>1, <1>5, <2>3, <3>2 DEF Placed
  <2>4. ASSUME running = "S_AUTH" PROVE Placed'
    <3>1. S_Auth(res, state) = Go("authorize", "S_AUTH")
      BY <1>5, <2>1, <2>2, <2>4 DEF S_Auth, From, FromUser
    <3>2. r.next = "S_AUTH"
      BY <2>4, <3>1 DEF React, Go
    <3> QED
      BY <1>1, <1>5, <2>4, <3>2 DEF Placed
  <2>5. ASSUME running = "S_OPEN" PROVE Placed'
    <3>1. S_Open(res, state).next = "S_OPEN"
      BY <1>5, <2>1, <2>2, <2>5 DEF S_Open, Go, From, FromUser
    <3>2. r.next = "S_OPEN"
      BY <2>5, <3>1 DEF React
    <3> QED
      BY <1>1, <1>5, <2>5, <3>2 DEF Placed
  <2>6. Method'
    BY <1>1, <1>5, <2>1, <2>3, <2>4, <2>5
       DEF Method, Commanded, Permitted, FromUser, ErrorNoted
  <2>7. Cycle'
    BY <1>5, <2>0 DEF Cycle, CycleShape, UserClear, FromUser
  <2>8. GrantPending'
    <3>1. Grants(results[2])
      BY <1>1, <1>2, <1>5 DEF SessionInv, GrantPending
    <3>2. \A k : Granted(k) => Granted(k)'
      BY <1>2, AnswersGrow
    <3>3. DOMAIN sent \subseteq DOMAIN sent'
      BY <1>2, HandleSays, SendExtends
    <3>4. \A i \in DOMAIN results' : i = 1
      <4>1. results' \in Seq(PollResult)
        BY <1>2, HandleShape DEF CycleShape
      <4> QED
        BY <1>5, <4>1
    <3>5. (\E k \in DOMAIN sent : Granted(k)) => \E k \in DOMAIN sent' : Granted(k)'
      BY <3>2, <3>3
    <3>6. Grants(results[1])'
      BY <1>5, <3>1, <3>5 DEF Grants
    <3> QED
      BY <3>4, <3>6 DEF GrantPending
  <2> QED
    BY <2>6, <2>7, <2>8 DEF Rounds
<1>6. OnlyLogins'
  <2>1. SUFFICES ASSUME state' \in {"S_START", "S_AUTH"}
                 PROVE  \A k \in DOMAIN sent' : sent'[k] = "AUTH"
    BY DEF OnlyLogins
  <2>2. state \in {"S_START", "S_AUTH"} /\ r.call \in {"none", "authorize"}
    BY <1>1, <2>1 DEF SessionLike, Logs, Talks, Idles, Enters, Complains, Breaks, Leaves,
       Dismissed, Abandons
  <2>3. \A k \in DOMAIN sent : sent[k] = "AUTH"
    BY <2>2 DEF SessionInv, OnlyLogins
  <2>4. CASE sent' = sent
    BY <2>3, <2>4
  <2>5. CASE Send("AUTH")
    <3>1. sent' = Append(sent, "AUTH")
      BY <2>5 DEF Send
    <3> QED
      BY <1>2, <2>3, <3>1, SendExtends DEF ClientType
  <2> QED
    BY <1>1, <2>2, <2>4, <2>5 DEF Perform, Authorize, postman_vars
<1> QED
  <2> HIDE DEF res, r
  <2> QED
    BY <1>3, <1>4, <1>5, <1>6

(* Every step keeps the invariant. *)
LEMMA NextSession ==
    ASSUME QuotesNoReply
    PROVE  SessionInv /\ [Next]_vars => SessionInv'
<1> SUFFICES ASSUME SessionInv, [Next]_vars PROVE SessionInv'
  OBVIOUS
<1>1. TypeOK'
  BY NextTyped DEF SessionInv
<1>2. CASE Client /\ HandleResult
  BY <1>1, <1>2, HandleAnswers, HandleRounds DEF SessionInv, Rounds
<1>3. CASE ~(Client /\ HandleResult)
  <2>1. OnlyLogins'
    BY <1>3, OnlyResultsSpeak DEF SessionInv, OnlyLogins
  <2> QED
    BY <1>1, <1>3, <2>1, QuietRounds, QuietAnswers DEF SessionInv, Rounds
<1> QED
  BY <1>2, <1>3

(* It holds at the start, where nothing is pending and nothing was said. *)
LEMMA InitSession == Init => SessionInv
<1> SUFFICES ASSUME Init PROVE SessionInv
  OBVIOUS
<1>1. /\ TypeOK /\ pc = "top" /\ results = <<>> /\ state = "S_START"
      /\ DOMAIN sent = {} /\ DOMAIN srv_sent = {}
  BY InitTyped DEF Init, ClientInit, PostmanInit
<1>2. Answers
  BY <1>1 DEF Answers, RepliesFit, Asked, LockedUntilAnswered, Unread
<1> QED
  BY <1>1, <1>2 DEF SessionInv, Cycle, CycleShape, UserClear, Method, Placed, Commanded,
     ErrorNoted, OnlyLogins, GrantPending

-----------------------------------------------------------------------------
(* The session as this client sees it. *)
GrantedRequests == {k \in DOMAIN sent : Granted(k)}
RefusedRequests == {k \in DOMAIN sent : Answered(k) /\ ~Granted(k)}

(* A message sent has no answer yet; without a new REPLY nothing is
   answered. *)
LEMMA NoReplyNoAnswer ==
    ASSUME TypeOK, RepliesFit,
           sent' = sent \/ \E type \in ClientType : sent' = Append(sent, type),
           \/ srv_sent' = srv_sent
           \/ \E l : srv_sent' = Append(srv_sent, l) /\ l.type # "REPLY"
    PROVE  GrantedRequests' = GrantedRequests /\ RefusedRequests' = RefusedRequests
<1>1. \A k : Answered(k)' = Answered(k) /\ Granted(k)' = Granted(k)
  <2>1. CASE srv_sent' = srv_sent
    BY <2>1 DEF Answered, Granted, WrittenLines
  <2>2. ASSUME NEW l, srv_sent' = Append(srv_sent, l), l.type # "REPLY"
        PROVE  \A k : Answered(k)' = Answered(k) /\ Granted(k)' = Granted(k)
    <3>1. srv_sent \in Seq(Line)
      BY DEF TypeOK
    <3>2. WrittenLines' = WrittenLines \cup {l}
      BY <2>2, <3>1 DEF WrittenLines
    <3> QED
      BY <2>2, <3>2 DEF Answered, Granted
  <2> QED
    BY <2>1, <2>2
<1>2. CASE sent' = sent
  BY <1>1, <1>2 DEF GrantedRequests, RefusedRequests
<1>3. ASSUME NEW type \in ClientType, sent' = Append(sent, type)
      PROVE  GrantedRequests' = GrantedRequests /\ RefusedRequests' = RefusedRequests
  <2> DEFINE n == Len(sent) + 1
  <2>1. DOMAIN sent' = DOMAIN sent \cup {n} /\ n \notin DOMAIN sent
    BY <1>3, SendExtends
  <2>2. ~Answered(n) /\ ~Granted(n)
    BY <2>1 DEF RepliesFit, Answered, Granted, WrittenLines
  <2> HIDE DEF n
  <2> QED
    BY <1>1, <2>1, <2>2 DEF GrantedRequests, RefusedRequests
<1> QED
  BY <1>2, <1>3

-----------------------------------------------------------------------------
(* Handling a result is a step of the session, or none. *)
LEMMA HandleImplements ==
    ASSUME SessionInv, HandleResult, Client
    PROVE  [Session!SessionNext]_(Session!session_vars)
<1> DEFINE res == results[1]
           r == React(running, res, state)
<1>1. /\ SessionLike(r, res, state)
      /\ Perform(r.call) /\ state' = r.next
      /\ ret_code' = (IF r.fail THEN "EXIT_FAILURE" ELSE ret_code)
      /\ Permitted(running, res) /\ Grants(res) /\ pc = "handle" /\ state # "S_END"
      /\ running \in State \ {"S_END"}
  BY HandleSessionLike
<1>2. TypeOK /\ RepliesFit /\ srv_sent' = srv_sent
  BY DEF SessionInv, Answers, Client
<1>3. \A type \in ClientType : Send(type) =>
         /\ sent' = Append(sent, type)
         /\ GrantedRequests' = GrantedRequests /\ RefusedRequests' = RefusedRequests
  BY <1>2, NoReplyNoAnswer DEF Send
<1>4. UNCHANGED postman_vars =>
         sent' = sent /\ GrantedRequests' = GrantedRequests /\ RefusedRequests' = RefusedRequests
  BY <1>2, NoReplyNoAnswer DEF postman_vars
<1>5. state = running \/ (running = "S_START" /\ state = "S_AUTH")
  BY <1>1 DEF SessionInv, Method, Placed
<1>6. ASSUME FromUser(res) PROVE Session!Free
  <2> DEFINE unanswered ==
        {k \in DOMAIN sent : sent[k] \in Request} \ (GrantedRequests \cup RefusedRequests)
  <2>1. \A k \in DOMAIN sent : sent[k] \in Request => Answered(k)
    BY <1>6, UserIsFree
  <2>2. \A k \in unanswered : sent[k] \in Request /\ ~Answered(k) /\ k \in DOMAIN sent
    BY DEF GrantedRequests, RefusedRequests
  <2>3. unanswered = {}
    BY <2>1, <2>2
  <2> QED
    BY <2>3, Zenon
       DEF Session!Free, Session!Open, Session!Request, Request, GrantedRequests, RefusedRequests
<1> HIDE DEF r, res
<1> USE DEF Session!Say
<1>7. CASE Logs(r, res, state)
  <2>1. Send("AUTH") /\ state' = "S_AUTH" /\ ret_code' = ret_code
    BY <1>1, <1>7 DEF Logs, Perform, Authorize
  <2>2. Session!Login
    BY <1>3, <1>6, <1>7, <2>1 DEF Logs, Session!Login, ClientType, GrantedRequests, RefusedRequests
  <2> QED
    BY <2>2 DEF Session!SessionNext
<1>8. CASE Talks(r, res, state)
  <2>1. (Send("JOIN") \/ Send("MSG")) /\ state' = state /\ ret_code' = ret_code
    BY <1>1, <1>8 DEF Talks, Perform, Join, Message
  <2>2. Session!Talk("JOIN") \/ Session!Talk("MSG")
    BY <1>3, <1>6, <1>8, <2>1 DEF Talks, Session!Talk, ClientType, GrantedRequests, RefusedRequests
  <2> QED
    BY <2>2 DEF Session!SessionNext
<1>9. CASE Idles(r, state)
  <2>1. UNCHANGED postman_vars /\ state' = state /\ ret_code' = ret_code
    BY <1>1, <1>9 DEF Idles, Perform
  <2> QED
    BY <1>4, <2>1 DEF Session!session_vars, GrantedRequests, RefusedRequests
<1>10. CASE Enters(r, res, state)
  <2>1. UNCHANGED postman_vars /\ state' = "S_OPEN" /\ ret_code' = ret_code
    BY <1>1, <1>10 DEF Enters, Perform
  <2>2. \E k \in GrantedRequests : sent[k] = "AUTH"
    BY <1>1, <1>10 DEF Enters, Grants, SessionInv, OnlyLogins, GrantedRequests
  <2>3. Session!Enter
    BY <1>4, <1>10, <2>1, <2>2 DEF Enters, Session!Enter, GrantedRequests, RefusedRequests
  <2> QED
    BY <2>3 DEF Session!SessionNext
<1>11. CASE Complains(r)
  <2>1. Send("ERR") /\ state' = "S_ERROR" /\ ret_code' = ret_code
    BY <1>1, <1>11 DEF Complains, Perform, Error
  <2>2. Session!Complain
    BY <1>1, <1>3, <2>1 DEF Session!Complain, ClientType, GrantedRequests, RefusedRequests
  <2> QED
    BY <2>2 DEF Session!SessionNext
<1>12. CASE Breaks(r, state)
  <2>1. UNCHANGED postman_vars /\ state' = "S_ERROR" /\ ret_code' = ret_code
    BY <1>1, <1>12 DEF Breaks, Perform
  <2>2. Session!Break
    BY <1>4, <1>12, <2>1 DEF Breaks, Session!Break, GrantedRequests, RefusedRequests
  <2> QED
    BY <2>2 DEF Session!SessionNext
<1>13. CASE Leaves(r)
  <2>1. Send("BYE") /\ state' = "S_END" /\ ret_code' = ret_code
    BY <1>1, <1>13 DEF Leaves, Perform, Bye
  <2>2. state = "S_ERROR" => ret_code = "EXIT_FAILURE"
    BY <1>1, <1>5 DEF SessionInv, Method, ErrorNoted
  <2>3. Session!Leave
    BY <1>1, <1>3, <2>1, <2>2
       DEF Session!Leave, Session!End, ClientType, GrantedRequests, RefusedRequests
  <2> QED
    BY <2>3 DEF Session!SessionNext
<1>14. CASE Dismissed(r, state)
  <2>1. UNCHANGED postman_vars /\ state' = "S_END" /\ ret_code' = ret_code
    BY <1>1, <1>14 DEF Dismissed, Perform
  <2>2. Session!Dismiss
    BY <1>4, <1>14, <2>1 DEF Dismissed, Session!Dismiss, Session!End, GrantedRequests, RefusedRequests
  <2> QED
    BY <2>2 DEF Session!SessionNext
<1>15. CASE Abandons(r)
  <2>1. /\ Send("BYE") \/ UNCHANGED postman_vars
        /\ state' = "S_END" /\ ret_code' = "EXIT_FAILURE"
    BY <1>1, <1>15 DEF Abandons, Perform, Bye
  <2>2. Session!Abandon
    BY <1>1, <1>3, <1>4, <2>1
       DEF Session!Abandon, Session!End, ClientType, GrantedRequests, RefusedRequests
  <2> QED
    BY <2>2 DEF Session!SessionNext
<1> QED
  BY <1>1, <1>7, <1>8, <1>9, <1>10, <1>11, <1>12, <1>13, <1>14, <1>15 DEF SessionLike

(* An answer of the server is one of the session. *)
LEMMA ReplyImplements ==
    ASSUME SessionInv, NEW k \in DOMAIN sent, NEW ok \in BOOLEAN, NEW q \in ReplyQuotes,
           ServerReplies(k, ok, q)
    PROVE  Session!SessionNext
<1> DEFINE l == [type |-> "REPLY", ok |-> ok, quotes |-> q, re |-> k]
<1>1. /\ srv_sent' = Append(srv_sent, l) /\ UNCHANGED client_vars
      /\ sent[k] \in Request /\ ~Answered(k)
  BY DEF ServerReplies, ServerWrites
<1>2. srv_sent \in Seq(Line)
  BY DEF SessionInv, TypeOK
<1>3. l.type = "REPLY" /\ l.re = k /\ l.ok = ok
  OBVIOUS
<1> HIDE DEF l
<1>4. WrittenLines' = WrittenLines \cup {l}
  BY <1>1, <1>2 DEF WrittenLines
<1>5. sent' = sent /\ state' = state /\ ret_code' = ret_code
  BY <1>1 DEF client_vars, postman_vars, automata_vars
<1>6. ~Granted(k) /\ \A j : Granted(j) => Answered(j)
  BY <1>1 DEF Answered, Granted
<1>7. \A j : /\ Answered(j)' <=> Answered(j) \/ j = k
             /\ Granted(j)' <=> Granted(j) \/ (j = k /\ ok)
  BY <1>3, <1>4 DEF Answered, Granted
<1>8. k \in {j \in DOMAIN sent : sent[j] \in Request} \ (GrantedRequests \cup RefusedRequests)
  BY <1>1, <1>6 DEF GrantedRequests, RefusedRequests
<1>9. k \in Session!Open
  BY <1>8, Zenon DEF Session!Open, Session!Request, Request, GrantedRequests, RefusedRequests
<1>10. CASE ok
  <2>1. GrantedRequests' = GrantedRequests \cup {k} /\ RefusedRequests' = RefusedRequests
    BY <1>1, <1>5, <1>6, <1>7, <1>10 DEF GrantedRequests, RefusedRequests
  <2>2. Session!Grant(k)
    BY <1>5, <1>9, <2>1, Zenon DEF Session!Grant, GrantedRequests, RefusedRequests
  <2> QED
    BY <1>9, <2>2 DEF Session!SessionNext
<1>11. CASE ~ok
  <2>1. GrantedRequests' = GrantedRequests /\ RefusedRequests' = RefusedRequests \cup {k}
    BY <1>1, <1>5, <1>6, <1>7, <1>11 DEF GrantedRequests, RefusedRequests
  <2>2. Session!Refuse(k)
    BY <1>5, <1>9, <2>1, Zenon DEF Session!Refuse, GrantedRequests, RefusedRequests
  <2> QED
    BY <1>9, <2>2 DEF Session!SessionNext
<1> QED
  BY <1>10, <1>11

(* Entering s_error notes the error; every other step changes nothing of
   the session. *)
LEMMA QuietImplements ==
    ASSUME SessionInv, [Next]_vars, ~(Client /\ HandleResult),
           ~\E k \in DOMAIN sent, ok \in BOOLEAN, q \in ReplyQuotes : ServerReplies(k, ok, q)
    PROVE  [Session!SessionNext]_(Session!session_vars)
<1>1. sent' = sent /\ state' = state /\ TypeOK /\ RepliesFit
  BY OnlyResultsSpeak DEF SessionInv, Answers
<1>2. srv_sent' = srv_sent \/ \E l : srv_sent' = Append(srv_sent, l) /\ l.type # "REPLY"
  BY ServerWritings, ServerLinesAssumption
<1>3. GrantedRequests' = GrantedRequests /\ RefusedRequests' = RefusedRequests
  BY <1>1, <1>2, NoReplyNoAnswer
<1>4. ret_code' = ret_code \/ (state = "S_ERROR" /\ ret_code' = "EXIT_FAILURE")
  <2>1. CASE Client
    BY <2>1 DEF Client, ClientStep, PollSigint, PollBegins, PollInterrupted, PollReturns, ReadEof,
       ReadEmptyLine, SkipStdin, ReadLine, ReadChunk, ReadEnd, SkipSocket, HandleFails, Exit,
       EnterMethod, EntryCode, automata_vars
  <2> QED
    BY <2>1, WorldKeepsClient
<1>5. CASE ret_code' = ret_code
  BY <1>1, <1>3, <1>5 DEF Session!session_vars, GrantedRequests, RefusedRequests
<1>6. CASE state = "S_ERROR" /\ ret_code' = "EXIT_FAILURE"
  <2>1. Session!Blame
    BY <1>1, <1>3, <1>6 DEF Session!Blame, GrantedRequests, RefusedRequests
  <2> QED
    BY <2>1 DEF Session!SessionNext
<1> QED
  BY <1>4, <1>5, <1>6

(* The client starts as a session does. *)
LEMMA InitImplements == Init => Session!SessionInit
<1> SUFFICES ASSUME Init PROVE Session!SessionInit
  OBVIOUS
<1>1. /\ state = "S_START" /\ ret_code = "EXIT_SUCCESS" /\ sent = <<>> /\ DOMAIN sent = {}
  BY DEF Init, ClientInit, PostmanInit
<1>2. GrantedRequests = {} /\ RefusedRequests = {}
  BY <1>1 DEF GrantedRequests, RefusedRequests
<1> QED
  BY <1>1, <1>2 DEF Session!SessionInit, GrantedRequests, RefusedRequests

(* Every behaviour of the TCP client, however the stream is cut into chunks,
   is a chat session, if no text of the server reads as a REPLY
   (Automata.cpp over TcpPostman.cpp). *)
THEOREM TcpSessionImplemented ==
    ASSUME QuotesNoReply
    PROVE  Spec => ImplementsSession
<1>1. SessionInv /\ [Next]_vars => [Session!SessionNext]_(Session!session_vars)
  <2> SUFFICES ASSUME SessionInv, [Next]_vars
               PROVE  [Session!SessionNext]_(Session!session_vars)
    OBVIOUS
  <2>1. CASE Client /\ HandleResult
    BY <2>1, HandleImplements
  <2>2. CASE \E k \in DOMAIN sent, ok \in BOOLEAN, q \in ReplyQuotes : ServerReplies(k, ok, q)
    BY <2>2, ReplyImplements
  <2> QED
    BY <2>1, <2>2, QuietImplements
<1>2. SessionInv /\ [Next]_vars => SessionInv'
  BY NextSession
<1> QED
  BY <1>1, <1>2, InitImplements, InitSession, PTL
     DEF Spec, ImplementsSession, Session!SessionSpec
=============================================================================
