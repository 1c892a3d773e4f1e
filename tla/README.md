# Verification of the IPK24-CHAT client

TLA+ models of the chat client in this repository (`src/src/*.cpp`,
`src/include/*.hpp`), checked with TLC on small instances and, for what
stands under *Proofs*, proved with TLAPS for every value of the constants.

## The system

One single-threaded process. `main` parses the arguments, builds a postman (UDP
or TCP) and an `Automata`, and returns what `Automata::run` returns. The machine
calls the method of its state in a loop; each method tells the postman which
user commands are legal, runs one `poll_for_messages`, and reacts to every
result it gets back by calling the postman and by setting the next state.

```
 stdin ──lines──▶ InputParser ──commands──▶ Postman ──PollResults──▶ Automata
 SIGINT ─flag──────────────────────────────▶   ▲                        │
 server ◀──datagrams / byte stream────────────▶└──authorize, join, msg, │
                                                   error, bye ◀─────────┘
```

| Component | State | Operations | What makes it correct |
|---|---|---|---|
| `Automata` | `state`, `ret_code` | `s_start`, `s_auth`, `s_open`, `s_error`, `set_state`, `run` | open only if the server granted it; every way out leaves properly and with an honest exit code; every state can be left |
| `UDPPostman` | `msg_id`, `ref_msg_id`, `first_message`, `confirm_waiters`, `last_sent_message`, `is_waiting_for_reply`, `display_name`, `server_addr` | `authorize` `join` `message` `error` `bye` `confirm`, `receive`, `data_to_message`, `handle_server_message`, `handle_user_command`, `check_waiters`, `poll_for_messages` | bounded retries; stop and wait; a CONFIRM removes the right waiter; no message twice; a request is answered before the user goes on; no message waits for ever |
| `TCPPostman` | socket, `display_name`, `is_waiting_for_reply` | the same interface over a byte stream | every message of the stream is seen once, whole and in order |
| `IPostman`, messages, results | the shared fields | `get_client_commands`, `allow_client_commands`, `set_allowed_commands` | the machine sees the same interface over both protocols |
| `InputParser` | none | `parse_input`, a loop that cuts the line at blanks, and a chain of comparisons | every line is a command or a refusal |
| `ArgParser` | the options | `parse`, getters | values keep their meaning (`-r`, `-d`, `-p` are narrowed) |
| `Utils` | none | `get_timestamp`, `is_stdin_closed` (never called), printing | |

The components interact by calls from the machine into the postman, by the list
of results the postman returns, and by one global flag the signal handler sets
(`udp_had_sigint`, `tcp_had_sigint`). With the server they interact over UDP by
datagrams that are lost, repeated, delayed and reordered, and over TCP by a stream
of bytes that is cut into chunks anywhere. The lines of the user come through two
buffers, the kernel's, which `poll` sees, and that of the C stream, which it does
not.

What is hard here:

- **Time and retransmission.** `check_waiters` runs twice per cycle, over a list
  whose members have different ages; it stops at the first exhausted one.
- **Loss, repetition, reordering.** A CONFIRM, a REPLY or a server message may
  arrive at any later time, again, or out of order; three different fields
  (`confirm_waiters`, `last_sent_message`, `ref_msg_id`) decide about it.
- **Effects before tests.** `receive` applies the effects of a REPLY (unlock
  stdin, move to the session's port) before the test for a duplicate is made.
- **Two results of one poll.** A line of the user and a message of the server can
  come out of one cycle; the method that polled handles both, also when the
  first has moved the machine.
- **Signal and poll.** The flag is tested before `poll(2)`; a signal between the
  test and the call does not interrupt it.
- **Framing.** What one `recvfrom` returns from the TCP stream is parsed as one
  message, by expressions that are searched for anywhere in it.
- **Two readers of stdin.** `read(2)` takes a byte to look for the end of input,
  `ungetc` pushes it back, and a buffered `getline` reads the line.
- **Widths.** 16 bit ids, of which one byte is sent, remembered in a signed field.

The hazards, each at its line and with the properties that cover it, are in
`PROJECT.json`.

## Modules

| Module | Models | Role |
|---|---|---|
| `ChatTypes` | `include/types.hpp` and the enumerations of the headers | message types, states, commands, poll results |
| `Automata` | `src/Automata.cpp` | the four state methods as one table of reactions `React(running, result, state)` |
| `ChatSession` | | what a session promises, over either protocol: the abstract specification |
| `UdpPostman` | `src/UdpPostman.cpp` | the postman's fields as variables, one action per method |
| `UdpClient` | `Automata::run` around `UDPPostman::poll_for_messages` | the process: EXTENDS both, with a program counter |
| `UdpChat` | the client, the network, a server | EXTENDS `UdpClient`; the specification, its properties and its refinement of `ChatSession` |
| `TcpPostman` | `src/TcpPostman.cpp` | sending, framing and the commands of the user over a stream |
| `TcpClient` | `Automata::run` around `TCPPostman::poll_for_messages` | the same machine with the shorter cycle |
| `TcpChat` | the client, the stream, a server | EXTENDS `TcpClient`; the specification, its properties and its refinement of `ChatSession` |
| `StdinReader` | `poll_for_messages` as far as it concerns stdin, and `getline` | the descriptor, the buffer of the C stream, the user |
| `InputParser` | `InputParser::parse_input` | the loop over the blanks of a line, and the decision |
| `UdpCodec` | the writing of UDP messages and `UDPPostman::data_to_message` | both directions over bytes, and what a network may do to them |
| `ArgParser` | `ArgParser::parse` | the loop over `getopt` |
| `UdpClaims`, `TcpClaims`, `InputClaims` | sentences of the README and of a comment | properties the code violates, one run each |
| `AutomataProofs` | | lemmas on the machine's table, used for both protocols |
| `UdpChatProofs` | | UDP: types, waiting list, the order of what is said |
| `UdpSessionProofs` | | UDP: the refinement; how a session is entered and how it ends, what is shown and what opens it |
| `TcpChatProofs` | | TCP: types, what is heard of the stream, the refinement |
| `StdinReaderProofs`, `InputParserProofs`, `ArgParserProofs`, `UdpCodecProofs` | | the safety properties of these four |
| `MCUdpChat`, `MCTcpChat`, `MCInputParser`, `MCArgParser`, `MCUdpCodec` | | values of the constants for TLC |

**Automata.** A reaction is `[call, next, fail]`: the postman method called, the
state left behind, whether `ret_code` becomes `EXIT_FAILURE`. It depends on the
method that is executing (`running`) and on the current `state`, because
`set_state` in the middle of the result loop does not leave the method. The
default branch of each `switch` is `Unexpected`. `EntryCode` is the assignment at
the head of `s_error`.

**UdpPostman.** `confirm_waiters`, a `std::list` in order of sending, is a
function from positions in the history `sent` to `[tries_left, left]`; the order
of the list is the order of the positions. Expiration is kept as the time left,
-1 meaning expired (the code compares with `<`). `check_waiters` has two
outcomes, `CheckWaiters` (true) and `GiveUp` (false, with the assignment
`poll_for_messages` makes then). `receive` is `DataToMessage` (what parsing
makes of a datagram), `Checked` (what it turns a foreign REPLY into) and
`Receive` (the fields it assigns). `Wire` is the `(uint8_t)id >> 8` of every
send, `ToInt16` the assignment of an id to `ref_msg_id`.

**UdpClient.** `pc` names the points of the cycle between which the world moves:
`top`, `poll`, `stdin`, `socket`, `handle`. Everything between two points is one
step, since nothing else can see it: the process has one thread, and the signal
handler only sets the flag. A truncated datagram, an empty line and a `sendto` that
fails (`SendFails`) throw an exception nothing catches (`aborted`).

**UdpChat.** The server is not in the repository. It is any peer that confirms
what it has received and answers each AUTH and JOIN at most once, with any
result; `ServerTypes` says what else it sends (MSG, ERR, BYE, a datagram of a
wrong format, one cut short). Ids count up from `ServerFirstId`. Nothing is ever
removed from the network: `InFlight` is every datagram the server has sent, and
each may be received any number of times, in any order, or never. A client
message is received by the server at any time or never. The history variables
`sent` (with `copies` and `fate`), `acks`, `inbox`, `srv_seen` guard nothing but
the bounds and say what happened.

**TcpPostman, TcpClient, TcpChat.** The stream is the sequence `srv_sent` of lines
the server has written; each has two halves, cut where its text may itself read as
a message (`quotes`). `consumed` counts halves received. `ReadChunk` takes any
number of them; `DataToMessage` is the cascade of `regex_search` on the chunk: of
what can be found in it, the first type in the order of the tests wins, and the
rest of the chunk is gone. The history `inbox` says of each result which halves its
chunk held. The end of the stream and a reset read as an UNKNOWN in
every cycle (`ReadEnd`); `send` fails on a connection that was reset
(`HandleFails`). `Automata` and the constants of the machine are shared with UDP.

**ChatSession.** Five variables: the phase, the types of the messages said, the
requests granted and refused, the exit code. Who may log in, enter, talk, complain
and leave, and when. In `UdpChat` and `TcpChat` the same five are expressions over
the state (`Session`), so that a step of the client, network or server is a step
of the session or changes nothing in it.

**StdinReader.** A character is `[line, pos]`. The descriptor holds what the kernel
has, `buffer` what the C stream has; `ReadByte` is the `read(0)` with its `ungetc`,
`Fill`, `TakeLine`, `TakePart` and `TakeRest` are `getline`. What the machine does
is reduced to locking and unlocking stdin at any time. `source` is chosen at the
start: a terminal hands over whole lines and reports its end as POLLIN; a file
gives any number of characters; a pipe too, and reports its end as POLLHUP alone.

**InputParser.** A line is a sequence of symbols: the blank, the commands' names
and one other word. `CutArg` is one iteration of the loop that cuts the line at
blanks, with the arithmetic of `next_pos` and `npos`; `Decide` is the tests behind
it. `ParsesWords` compares the result with the words of the line.

**UdpCodec.** A message is written as bytes (`Encode`), by the client, which loses
the high byte of its ids, or by the server, which does not; the network leaves it
whole, cuts it, adds to it or changes its type (`Damage`), and `DataToMessage` is
`data_to_message` with its tests in their order; an offset beyond the end throws.

**ArgParser.** One action per kind of option; `Uint8` and `Uint16` are the widths
of the members. `getopt` is external.

A few definitions have a neighbour of the same shape just above them
(`ExhaustedLate` above `Exhausted`, `LastLineKept` above `ConsumedAfter`, ...).
These are plausible slips of the code, used in no specification; substituting one
must break the property `PROJECT.json` names with it, which shows that the property
depends on that piece of the code.

## Runs

Eight runs pass:

| Run | Question | Bounds |
|---|---|---|
| `udp_session` | types, safety and the refinement of `ChatSession` in a session with a server that sends anything, including malformed datagrams, and a `sendto` that may fail | 1 retry, 5 messages sent, 3 reach the machine, 2 of the server; an UNKNOWN has the id of its datagram |
| `udp_progress` | the retry budget with waiters of different age; Ctrl-C and Ctrl-D end the client, no message waits for ever | fair; 2 retries, time-out of 1 tick, 4 sent, 3 to the machine, 2 REPLYs of the server, each any number of times |
| `tcp_session` | types, framing, what it loses, and the same refinement over a stream cut anywhere | 3 lines each way, REPLYs whose text reads like an ERR, resets |
| `tcp_aligned` | what TCP mode promises if every chunk is one line | fair; 2 lines each way, resets |
| `stdin` | every character on its way from the user to the parser | fair; 6 lines of 2 characters, terminal, file and pipe |
| `input_lines` | the parser's loop against the words of the line | every line of 4 symbols, every line of 9 of three symbols |
| `arg_options` | which command lines start a chat, and with what | every command line of 4 options, numbers below 0 and above 8 and 16 bits |
| `codec_damage` | reading what was written, whole, cut, longer or of another type | texts of up to 2 bytes, ids on both sides of the byte boundary |

What they show:

- A waiter is taken off the list only by a CONFIRM of a message that was
  received (`ConfirmedWasReceived`); tries and transmissions always add up
  (`RetryAccounting`); the user has one unconfirmed message at most, although
  the list is longer when the machine complains (`OneUserMessageOutstanding`).
- A repeated or late REPLY opens nothing and unlocks nothing
  (`RequestsAnsweredFirst`, `OpenMeansGranted`), and JOIN and MSG go to the
  session's port even when it was learnt from a REPLY that is then dropped
  (`DataGoesToSession`).
- The client says nothing after its BYE although the loop over the results goes on
  (`NothingAfterBye`), leaves in one of three ways (`LeavesProperly`) and reports
  it (`ExitCodeHonest`).
- While the session is sound stdin is locked only for a REPLY that can still
  come (`LockHasKey`).
- Over both protocols the client behaves like a `ChatSession`
  (`ImplementsSession`): it talks only when it was let in and its requests are
  answered, and it ends in the ways a session ends.
- Over TCP lines may be lost, but what is heard was written, in order and once
  (`HeardInOrder`). A line that was received is lost only because a chunk ended within
  it or because its chunk was taken for another line (`LostOnlyByFraming`), and stdin
  stays locked after the answer only if that happened to the REPLY
  (`LockedOutByFraming`). If the chunks are lines, all is heard (`EveryLineHeard`), an
  answer unlocks stdin (`AnswerUnlocks`), and Ctrl-C is served even while the end of
  the stream is read again and again (`SigintEnds`).
- No character is lost or read twice between the descriptor, the push-back and the
  buffer (`CharactersKept`); from a terminal every line arrives whole, in order and
  in the end (`WholeLinesInOrder`, `LinesServed`). Ctrl-C is served unless `getline`
  is blocked in the middle of a line, which cannot happen at a terminal
  (`SigintServed`).
- The loop of the parser ends (`ParseEnds`) and reads a line as its words, so that
  a command is never returned with fewer arguments than `handle_user_command`
  takes; and a line that begins with a word always gives a command (`ParsesWords`).
- A chat is started exactly by a command line that names host and protocol and has
  neither a mistake nor a `-h`, with what was given last, reduced to the width of its
  member (`LastOptionCounts`).
- A datagram that was cut is no message (`CutIsNoMessage`), one that is longer is
  the same message (`LongerIsTheSame`), and a whole one is what was written
  (`ReadAsWritten`), the numbers of REPLY and CONFIRM and both bytes of the server's ids
  included.

Four runs end in a counterexample, each to a sentence of the repository:

| Run | Sentence | What the code does |
|---|---|---|
| `udp_stale_reply` | README.md:85, duplicates are not handed on | a repeated REPLY is, as UNKNOWN, and ends the session |
| `udp_id_byte` | README.md:99, a CONFIRM deletes its waiter | not from the 257th message on |
| `tcp_coalesced` | README.md:109, messages are separated at the delimiter | of two lines in one chunk one is lost |
| `input_empty` | InputParser.cpp:86-91, an empty message is refused with an error and the help | `command.at(0)`, evaluated before, throws, and the process ends |

Other divergences met while modelling. The models behave as the code does; the
properties are stated so that they hold, and the exception is visible in them:

| Where | What | Seen in |
|---|---|---|
| `Automata.cpp:340` | in S_ERROR a BYE of the server is answered with an ERR (CHANGELOG.md:1: it ends the client) | `Unexpected` |
| `UdpPostman.cpp:413` | a client that enters S_ERROR while it waits for a REPLY never sees Ctrl-D (CHANGELOG.md:1) | the premise of `EofEnds` and of `LockHasKey` |
| `UdpPostman.cpp:413` | the end of a pipe is POLLHUP alone and is never seen (README.md:89) | `EofIsReadable`, `PollsAtEof` |
| `UdpPostman.cpp:546` | of two messages that change places the later one is confirmed and dropped (README.md:85) | `IsNew` |
| `UdpPostman.hpp:23` | `ref_msg_id` is signed: from id 2^15 on a repeated message is shown again | `ToInt16` |
| `UdpPostman.cpp:273` | the BYE is sent once, and the process does not wait for its CONFIRM (README.md:95) | `Exit` |
| `UdpPostman.cpp:810` | a text without its NUL ends the process by an exception; the test for it at line 819 is not reached | `CutIsNoMessage` |
| `InputParser.cpp:80` | a line that begins with a blank ends the process by an exception, as the empty one does | `ReadEmptyLine`, the premise of `ParsesWords` |
| `TcpPostman.cpp:402` | a line that arrives in two pieces is two UNKNOWNs, which end the session (README.md:109) | `Splits` |
| `TcpPostman.cpp:477` | a text that reads like a message of another type is taken for one (README.md:113) | `quotes` in `HeardInOrder` |
| `UdpPostman.cpp:432` | if two lines arrive together, the second stays in the buffer, and the first byte of the next is put in front of it | the premise of `WholeLinesInOrder` |
| `InputParser.cpp:17` | `getline` blocks on an unfinished line, and with it Ctrl-C (README.md:89) | `SigintServed` |
| `ArgParser.cpp:70` | `-r 256` is no retransmission at all | `Uint8` |

### Bounds

- `MaxSent` bounds the client's messages. A line is read only if there is room for
  its message, for an ERR in answer to a datagram of the same cycle and for the
  final BYE (`RoomForLine`, `RoomFor`), so that the bound never keeps the client
  from reacting or from leaving. Five messages are enough for AUTH, JOIN or MSG
  in the session, an ERR and a BYE, or for two refused AUTHs before.
- `MaxInbox` bounds what reaches the machine; each entry may be a repetition.
  `MaxServer` bounds what the server says besides CONFIRMs: two is a REPLY and one
  message, or two messages that change places; each is deliverable any number of
  times.
- `MaxRetries` of 1 and 2 distinguish first, middle and last transmission.
  `Timeout` of 0 makes all waiters expire in one tick, 1 gives waiters of
  different age.
- `IdMod` and `ByteMod` are the real 65536 and 256: no action enumerates ids.
  `udp_id_byte` scales them to 8 and 2, since reaching the 257th message is out
  of reach. `GarbageIds` are the values an uninitialised id may have, besides the id
  of the datagram, which most UNKNOWNs keep. The runs have none, to stay small: what
  they add is one more id of an UNKNOWN, and an UNKNOWN ends the sound session
  whatever its id. `udp_session` passes with `{0}` too, and takes half as long again;
  the theorems hold for every set of them.
- Over TCP three lines are the least in which a lost line, a quoted one and one
  behind them can differ; a line has two halves, so it arrives whole, in two
  pieces, or in a chunk with parts of others. `MaxLines` bounds what the user
  sends, not how the client answers. `MaxInbox` bounds the reading of the end of the
  stream only.
- In `stdin` a line of two characters has a first one (which is pushed back), a
  last one and a newline; up to four characters are written at once, so that a
  portion holds a whole line and the beginning of the next.
- A line of 9 symbols holds `/auth` with three arguments and more blanks than are
  needed at every place. Four options are a command line with one of them given
  twice besides host and protocol. The numbers are -1, 300 and 65541, so that every cast
  changes some of them.
- Deadlock is checked in all runs of the client and of `StdinReader`, where a
  process that has ended stutters (`Terminated`). `ArgParser`, `InputParser` and
  `UdpCodec` compute a result and stop.

### Fairness

`UdpChat!FairSpec` assumes weak fairness of the client as a whole and of the clock.
The process is one thread that the operating system runs, every system call it
makes is bounded (poll has a time-out of 50 ms, datagrams are received only when
there are some), and time passes. Nothing is assumed of the server, the network or
the user: they may be silent for ever, or keep the socket busy.

`TcpChat!FairSpec` assumes weak fairness of the client and strong fairness of
receiving: the client looks at the socket again and again, and TCP delivers what
was written. `StdinReader!FairSpec` assumes weak fairness of the process, and
`InputParser` of its loop. In all of them the user may stop at any time.

`EofEnds` assumes that the client is from some time on not waiting for a REPLY:
there is no time-out for one, so a server that confirms a request and never
answers keeps stdin locked until Ctrl-C. Its premise is met, among others, by
every behaviour in which stdin is closed before the first AUTH.

## Proofs

The modules named `...Proofs` prove, for all values of the constants that satisfy
the assumptions declared with them:

| Theorem | In | Statement |
|---|---|---|
| `TypeCorrect` | `UdpChatProofs` | `Spec => []TypeOK`; in particular `tries_left`, a `uint8_t`, is never decremented below 0, and every waiter is a message that was sent |
| `RetriesCorrect` | `UdpChatProofs` | `Spec => []RetryAccounting` |
| `ConfirmationsCorrect` | `UdpChatProofs` | `Spec => []ConfirmedWasReceived` |
| `SilentAfterBye` | `UdpChatProofs` | `Spec => []NothingAfterBye` |
| `StopAndWait` | `UdpChatProofs` | `Spec => []OneUserMessageOutstanding` |
| `AnswersAwaited` | `UdpChatProofs` | `Spec => []RequestsAnsweredFirst`, which holds until the 16 bit ids wrap around |
| `SessionImplemented` | `UdpSessionProofs` | `Spec => ImplementsSession`: the UDP client refines `ChatSession` |
| `DataToSession` | `UdpSessionProofs` | `Spec => []DataGoesToSession` |
| `LockOpens` | `UdpSessionProofs` | `Spec => []LockHasKey` |
| `LeavesCleanly` | `UdpSessionProofs` | `Spec => []LeavesProperly` |
| `ExitHonest` | `UdpSessionProofs` | `Spec => []ExitCodeHonest` |
| `ShownOnce` | `UdpSessionProofs` | `Spec => [](HalfTheIds => NoMessageShownTwice)` |
| `OpenedByLastGrant` | `UdpSessionProofs` | `Spec => [](HalfTheIds => OpenMeansGranted)` |
| `TcpTypeCorrect` | `TcpChatProofs` | `Spec => []TypeOK` |
| `TcpOrder` | `TcpChatProofs` | `Spec => []HeardInOrder` |
| `TcpLossExplained` | `TcpChatProofs` | `Spec => []LostOnlyByFraming` |
| `TcpLockoutExplained` | `TcpChatProofs` | `Spec => []LockedOutByFraming` |
| `TcpSessionImplemented` | `TcpChatProofs` | `Spec => ImplementsSession`, if no text reads as a REPLY (`QuotesNoReply`): the TCP client refines `ChatSession` |
| `StdinWhole` | `StdinReaderProofs` | `Spec => []WholeLinesInOrder` |
| `NothingLost` | `StdinReaderProofs` | `Spec => []CharactersKept` |
| `WordsParsed` | `InputParserProofs` | `Spec => []ParsesWords` |
| `LastCounts` | `ArgParserProofs` | `Spec => []LastOptionCounts` |
| `IntactIsRead` | `UdpCodecProofs` | `Spec => []ReadAsWritten` |
| `CutIsRefused` | `UdpCodecProofs` | `Spec => []CutIsNoMessage` |
| `LongerIsRead` | `UdpCodecProofs` | `Spec => []LongerIsTheSame` |

The assumptions on the constants are: ids at least 1 wide, `ByteMod <= IdMod`,
`MaxRetries` and `Timeout` natural, the server's types among the five; the lines of
the TCP server are lines; lines of at least one character on stdin; the lines of the
parser sequences of symbols; the numbers of the command line integers; ids of 16 bit,
texts of bytes other than NUL. Three theorems have a hypothesis besides:

- `TcpSessionImplemented` needs `QuotesNoReply`, which `TcpSession.cfg` satisfies: the
  text of a REPLY may read like an ERR there, and no text like a REPLY. If one does
  and its line arrives in two pieces, the second opens the session, and no server has
  granted it.
- `ShownOnce` and `OpenedByLastGrant` hold while `HalfTheIds` does: the server has not
  used an id of 2^15 or more. `ref_msg_id` is an `int16_t`, so such an id is remembered
  as a negative number and every repetition of the message is new.

**The inductive invariants.** `TypeOK` alone is not inductive: that a
retransmission leaves `tries_left` in its range and `copies` at most
`1 + MaxRetries` needs their sum, which is `RetryAccounting`; and that needs the
types. `IInv` is their conjunction. The argument goes method by method: one
lemma for each postman method (`SendKeeps`, `CheckWaitersKeeps`, `GiveUpKeeps`,
`HandleServerMessageKeeps`, ...), over `UpdateKeeps` for the three that change the
list, then one case per action of the process (`ClientKeeps`) and of the
environment (`NextIInv`).

`ConfirmedWasReceived` needs in addition that the ids follow the positions
(`IdsInOrder`: `sent[k].id` is `k - 1` modulo `IdMod`), so that up to `ByteMod`
messages no two share a low byte (`WireExact`), and that the server's own
messages are no CONFIRMs. Together they are `ConfirmInv`. The bound in the
property is the one the truncated id imposes; `udp_id_byte` shows what happens
beyond it.

The three theorems on order rest on the shape of a cycle (`CycleShape`): a poll
returns at most one result of the user followed by one of the server, what it
returns early (BYE, ERR) stands alone, and S_END is reached with the last
result. `ReactOrderly` is the one fact about the machine's table they need. So a
BYE, which leads to S_END, is followed by nothing; and a pending command of the
user finds the waiting list empty and stdin unlocked (`UserClear`), since it was
read so and the socket only removes waiters. `OrderInv` is the conjunction.

`RequestsAnsweredFirst` needs in addition why stdin is unlocked: by an answer to
the last request, or because the session is over (`LockedUntilAnswered`). That an
old REPLY cannot unlock it is an argument about ids: `last_sent_message` has the
id `Len(sent) - 1`, a REPLY the low byte of the id of some request `k`, which is
at most `k - 1`; if they are equal, `k` is the last message (`ReplyToLast`,
`UnlockAnswered`). After
2^16 messages the ids start again and the argument ends, and with it the
property's premise. `AnswerInv` is the inductive invariant.

`SessionImplemented` adds to it where the machine can be while a method that began
in another state still runs (`Placed`: only a login from S_START moves it before a
second result), which commands can be pending (`Commanded`), that S_ERROR has set
the exit code (`ErrorNoted`), that before the session is open only AUTHs have been
sent (`OnlyLogins`), and that a pending REPLY with result OK was sent by the server
(`GrantPending`). `SessionInv` is their conjunction. The table of reactions then is,
in the places the machine can be in, a table of session actions
(`ReactSessionLike`); `HandleImplements` maps each to its action, `ReplyImplements` the
answer of a server to `Grant` or `Refuse`, and `QuietImplements` everything else to a
stutter or to `Blame`. The horizon of the session is the width of the ids, as in
`RequestsAnsweredFirst`.

`DataGoesToSession` needs to know when the port is learnt. The REPLY that answers the
last AUTH sets it when it is received and opens the session when it is handled, and
no step sets it back; so the port is that of the session in S_OPEN and whenever a
REPLY is pending in S_AUTH (`PortLearnt`), which holds because the last message in
S_AUTH is an AUTH (`OnlyLogins`, `LoggedIn`). `LockHasKey` follows along the same
steps: a request locks stdin and is the last message, and what else is sent before
S_ERROR is the user's, who was not waiting. `EntryInv` is the conjunction.

How a session ends is a matter of bookkeeping in both directions. Nothing is noted
without a reason (`CodeHasReason`, `ErrorHasReason`, `EndHasReason`); and whatever went
wrong is in the exit code, in S_ERROR, or in a result that is still to be handled
(`FailureNoted`, `ComplaintNoted`, `ErrorHeardNoted`), which is why the pending results
belong to the invariant (`PendingKnown`). `ReactTelling` is what this asks of the
table. In S_END nothing is pending, which leaves the exit code. `EndInv` is the
conjunction.

**The window of ids.** That nothing is shown twice rests on `ref_msg_id` bounding the
ids of all that has reached the machine (`ShownBelow`), until an UNKNOWN, whose id may be
anything, ends the session. A REPLY is therefore forwarded at most once. Before the
session is open the user says one AUTH at a time, each after the answer to the one
before has been seen (`LastAnswerSeen`); a REPLY that is new when it comes then answers
the last (`GrantIsLast`). The client has sent at most one message more than the server
(`AnswersCounted`), so that the same window keeps its own ids from starting again.
`WindowInv` is the conjunction.

**TCP.** What is heard rests on `ParsedChunk`: of what the expressions can find in a
chunk there is a first match, a line of the chunk or a type it quotes, so `inbox` grows
in the order of `consumed`. The chunks follow one another without a gap (`ChunksRead`), so
a line that was received was cut or lies in one chunk, whose first match is the line or
comes before it (`FirstOfChunk`): `LossInv`. For `LockedOutByFraming` a chunk that
held the answer to the last request and left stdin locked must not have been heard as a
REPLY: every REPLY that was heard since the request would have unlocked it, so all
of them are of chunks before that line (`NoReplySince`), and what is tried before a
REPLY is left. The refinement cannot argue with ids. A
request locks stdin, the answers come in the order of the requests, and one still
unread is the answer to the last request or there is none (`Unread`); so a command is
read only when every request has been answered or the session is over.

**Terminal.** Outside `getline` the buffer of the C stream is empty, so that the push-back
puts a character in front of nothing; inside it what was pushed back, what has been
read and what is buffered is one line, and the descriptor begins with the rest of it
(`ReaderInv`). The arithmetic of lines and positions is in lemmas of its own
(`Remainder` and those behind it).

`CharactersKept` is about every source, and the buffer may hold anything then. A step puts
two sequences together, cuts one in two, or adds one to `parsed`; for each there is a
lemma on where a character then occurs (`InJoined`, `InCut`, `InMoreLines`). `KeptInv`
says that a character that was typed occurs in one place, and there once; that no new
one is among the old is the arithmetic of lines and positions again (`CharsDiffer`). A
newline is dropped by the cut and by nothing else.

**Lines.** In `ParsesWords` a word is known by where it begins, at a symbol behind a blank,
and is the n-th if n words begin up to there. From one blank to the next at most one word
begins (`OneMoreWord`), and it is what `substr` cuts (`WordCut`); so the loop keeps `args`
the words begun but the first (`CutInv`), and `npos` lets the last one reach to the end.

**Command line.** `LastOptionCounts` speaks of a finished parse; `ReadInv` says of the
options read so far what it says of all. "The last one of a kind" is an operator of a set
of positions (`Latest`), so that an option of another kind leaves the set and with it the
value alone.

**Datagrams.** A datagram that is intact, one that was cut, and one with a byte too
many have one thing in common: as far as it reaches, it agrees with what was
written (`Agrees`), so that as far as it reaches the texts are where they were
written (`Laid`). `TextFound` is the central lemma: the first NUL from the beginning of a text is
its own, or there is none because the bytes end before. Then one lemma says for each kind
of message what its reader makes of such bytes (`HeaderRead`, `ReplyRead`,
`TextsRead`), `Received` puts them together, and the invariant `CodecInv` only says what
was done to the bytes. No message has more than three texts, so the
recursions of `FieldEnd` and of the concatenation are unrolled (`FieldEnds`,
`FlattenThree`).

**Only model-checked:** liveness, since temporal proofs from fairness need ENABLED, which
is not within the prover's reach; and `EveryLineHeard`, which is about chunks that are lines:
what is lost of others is `TcpLossExplained`. Every other safety property that a passing
run checks is a theorem, three of them under the hypotheses named above.

## Not modelled

- Texts where no property tells them apart: the names and contents of UDP messages
  are in `UdpCodec` only, the lines of the user are symbols, the regular expressions
  of TCP are what they can find in a line. Over TCP a line is cut in two places at
  most, and the 2048 bytes `recvfrom` takes at once are no limit.
- What happens before the loop (a `socket`, `connect` or host lookup that fails ends
  the process), a `poll` that fails for another reason than a signal, a `recvfrom`
  that fails on the UDP socket, and `get_timestamp` going backwards. Failing sends
  are modelled.
- `getline` is one step in `UdpClient` and `TcpClient`; how it reads is in
  `StdinReader`, which in turn leaves the machine out. Ctrl-D in the middle of a line
  at a terminal, which hands over a part of a line, is not in it.
- Dead code: `Utils::is_stdin_closed`, `confirm()` without arguments,
  `allowed_server_messages`, and the branches of `s_start` for server messages,
  which over UDP no datagram can reach before the first send binds the socket.
- The build files, the diagrams, the printing of messages.

## What could follow

`UdpCodec` composed with `UdpPostman` so that the outcomes of `DataToMessage` there are
derived and not listed; the lines `StdinReader` delivers as the input of `InputParser`.
