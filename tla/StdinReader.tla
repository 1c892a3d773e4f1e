---------------------------- MODULE StdinReader ----------------------------
(***************************************************************************)
(* How the lines of the user reach parse_input.  Both postmen poll the     *)
(* file descriptor of stdin, take one byte from it with read(2) to see     *)
(* whether it is closed, push the byte back into the C stream with ungetc, *)
(* and let getline read from std::cin, which takes its characters from     *)
(* that stream.  The stream has a buffer of its own, which poll does not   *)
(* see: it is filled with whatever the descriptor has to give.             *)
(*                                                                         *)
(* A character is [line, pos], pos 0 being the newline.  What the machine  *)
(* does with the commands is left out; it may lock stdin at any time.      *)
(***************************************************************************)
EXTENDS Integers, Sequences, SequencesExt

CONSTANTS
    LineLength,  \* characters of a line, without the newline
    MaxTyped     \* bound: lines the user types

ASSUME ReaderAssumption == LineLength \in Nat \ {0} /\ MaxTyped \in Nat

VARIABLES
    source,      \* what stdin is: "terminal", "file" or "pipe"
    typed,       \* characters the user has typed so far
    closed,      \* the user has closed stdin
    descriptor,  \* characters in the kernel
    buffer,      \* characters in the buffer of the C stream
    input,       \* the string getline has read so far
    parsed,      \* history: the lines given to parse_input
    locked,      \* stdin is not looked at
    had_sigint,
    pc           \* "top", "poll", "getline", "exited" or "aborted"

vars == <<source, typed, closed, descriptor, buffer, input, parsed, locked, had_sigint, pc>>

(* The n-th character typed. *)
Char(n) == [line |-> (n - 1) \div (LineLength + 1) + 1, pos |-> n % (LineLength + 1)]

Chars(m, n) == [i \in 1 .. n - m |-> Char(m + i)]

(* A terminal gives one line at a time; the end of stdin is reported as
   POLLIN, but not of a pipe. *)
Terminal == source = "terminal"

PollsAtEof == source # "pipe"

Gone == pc \in {"exited", "aborted"}

IsNewline(c) == c.pos = 0

TypedLine(i) == Chars((i - 1) * (LineLength + 1), i * (LineLength + 1) - 1)

Init ==
    /\ source \in {"terminal", "file", "pipe"}
    /\ typed = 0 /\ closed = FALSE
    /\ descriptor = <<>> /\ buffer = <<>> /\ input = <<>>
    /\ parsed = <<>>
    /\ locked = FALSE /\ had_sigint = FALSE
    /\ pc = "top"

-----------------------------------------------------------------------------
(* The user.  A terminal hands a line over when it is complete; into a pipe
   characters are written as they come. *)

Type(n) ==
    /\ ~Gone /\ ~closed
    /\ typed + n <= MaxTyped * (LineLength + 1)
    /\ Terminal => n = LineLength + 1
    /\ typed' = typed + n
    /\ descriptor' = descriptor \o Chars(typed, typed + n)
    /\ UNCHANGED <<source, closed, buffer, input, parsed, locked, had_sigint, pc>>

Close ==
    /\ ~Gone /\ ~closed
    /\ closed' = TRUE
    /\ UNCHANGED <<source, typed, descriptor, buffer, input, parsed, locked, had_sigint, pc>>

Sigint ==
    /\ ~Gone /\ ~had_sigint
    /\ had_sigint' = TRUE
    /\ UNCHANGED <<source, typed, closed, descriptor, buffer, input, parsed, locked, pc>>

(* A request is sent, a REPLY or a CONFIRM arrives. *)
Lock ==
    /\ pc = "top"
    /\ locked' = ~locked
    /\ UNCHANGED <<source, typed, closed, descriptor, buffer, input, parsed, had_sigint, pc>>

-----------------------------------------------------------------------------
(* poll_for_messages, as far as it concerns stdin. *)

BeginPollAnyway ==
    /\ pc = "top"
    /\ pc' = "poll"
    /\ UNCHANGED <<source, typed, closed, descriptor, buffer, input, parsed, locked, had_sigint>>

BeginPoll ==
    /\ pc = "top" /\ ~had_sigint
    /\ pc' = "poll"
    /\ UNCHANGED <<source, typed, closed, descriptor, buffer, input, parsed, locked, had_sigint>>

(* The flag is tested before poll, and after a poll that was interrupted. *)
StopOnSigint ==
    /\ pc \in {"top", "poll"} /\ had_sigint
    /\ pc' = "exited"
    /\ UNCHANGED <<source, typed, closed, descriptor, buffer, input, parsed, locked, had_sigint>>

AtEof == descriptor = <<>> /\ closed /\ PollsAtEof

NeverReadable == TRUE

(* Nothing to do for 50 ms, or stdin is not looked at. *)
NothingToRead == locked \/ (descriptor = <<>> /\ ~AtEof)

TimeOut ==
    /\ pc = "poll" /\ NothingToRead
    /\ pc' = "top"
    /\ UNCHANGED <<source, typed, closed, descriptor, buffer, input, parsed, locked, had_sigint>>

(* read(0, &c, 1) returns 0. *)
StopOnEof ==
    /\ pc = "poll" /\ ~locked /\ AtEof
    /\ pc' = "exited"
    /\ UNCHANGED <<source, typed, closed, descriptor, buffer, input, parsed, locked, had_sigint>>

ForgetChar(c) == buffer

(* ungetc puts the character in front of what is left in the buffer. *)
PushBack(c) == <<c>> \o buffer

ReadByte ==
    /\ pc = "poll" /\ ~locked
    /\ descriptor # <<>>
    /\ buffer' = PushBack(Head(descriptor))
    /\ descriptor' = Tail(descriptor)
    /\ input' = <<>>
    /\ pc' = "getline"
    /\ UNCHANGED <<source, typed, closed, parsed, locked, had_sigint>>

(* getline: the signal handler is installed with std::signal, which
   restarts a read it interrupts, so that only a character or the end of
   stdin lets getline go on. *)
NewlineIn(s) == SelectInSeq(s, IsNewline)

(* parse_input throws on an empty line, which nothing catches. *)
Parse(line) ==
    /\ parsed' = Append(parsed, line)
    /\ pc' = (IF line = <<>> THEN "aborted" ELSE "top")

TakeLine ==
    LET n == NewlineIn(buffer) IN
    /\ pc = "getline" /\ n > 0
    /\ Parse(input \o SubSeq(buffer, 1, n - 1))
    /\ buffer' = SubSeq(buffer, n + 1, Len(buffer))
    /\ UNCHANGED <<source, typed, closed, descriptor, input, locked, had_sigint>>

TakePart ==
    /\ pc = "getline" /\ buffer # <<>> /\ NewlineIn(buffer) = 0
    /\ input' = input \o buffer
    /\ buffer' = <<>>
    /\ UNCHANGED <<source, typed, closed, descriptor, parsed, locked, had_sigint, pc>>

(* What one read(2) of the C library gets. *)
Readable == IF Terminal THEN NewlineIn(descriptor) ELSE Len(descriptor)

Fill ==
    /\ pc = "getline" /\ buffer = <<>> /\ descriptor # <<>>
    /\ buffer' = SubSeq(descriptor, 1, Readable)
    /\ descriptor' = SubSeq(descriptor, Readable + 1, Len(descriptor))
    /\ UNCHANGED <<source, typed, closed, input, parsed, locked, had_sigint, pc>>

(* The end of stdin ends the last line. *)
TakeRest ==
    /\ pc = "getline" /\ buffer = <<>> /\ descriptor = <<>> /\ closed
    /\ Parse(input)
    /\ UNCHANGED <<source, typed, closed, descriptor, buffer, input, locked, had_sigint>>

Process ==
    \/ BeginPoll \/ StopOnSigint \/ TimeOut \/ StopOnEof \/ ReadByte
    \/ TakeLine \/ TakePart \/ Fill \/ TakeRest

User ==
    \/ \E n \in 1 .. LineLength + 2 : Type(n)
    \/ Close \/ Sigint

(* The process has ended. *)
Terminated == Gone /\ UNCHANGED vars

(* getline waits for the user. *)
Blocked ==
    /\ pc = "getline" /\ buffer = <<>> /\ descriptor = <<>> /\ ~closed
    /\ UNCHANGED vars

Next == Process \/ User \/ Lock \/ Blocked \/ Terminated

Spec == Init /\ [][Next]_vars

(* The process is scheduled; of the user nothing is assumed. *)
FairSpec == Spec /\ WF_vars(Process)

-----------------------------------------------------------------------------
(* Properties *)

(* From a terminal every line given to parse_input is a whole line as the
   user typed it, in the order of typing, none left out; the last one may be
   what the end of stdin has cut. *)
WholeLinesInOrder ==
    Terminal => \A i \in DOMAIN parsed :
        \/ parsed[i] = TypedLine(i)
        \/ i = Len(parsed) /\ closed /\ IsPrefix(parsed[i], TypedLine(i))

(* Where characters are: one place is the string being read, and each line
   given to parse_input is one. *)
Held == <<descriptor, buffer, IF pc = "getline" THEN input ELSE <<>> >> \o parsed

Spots == UNION {{<<p, i>> : i \in DOMAIN Held[p]} : p \in DOMAIN Held}

At(s) == Held[s[1]][s[2]]

(* Wherever stdin comes from, no character is lost or read twice while the
   client runs: each one typed is in the descriptor, in the buffer, in the
   string being read, or in a line, in one spot there, and nothing else is;
   newlines excepted, which end there. *)
CharactersKept ==
    /\ \A s \in Spots : \E n \in 1 .. typed : At(s) = Char(n)
    /\ \A n \in 1 .. typed : ~IsNewline(Char(n)) => \E s \in Spots : At(s) = Char(n)
    /\ \A s, t \in Spots : s # t /\ ~IsNewline(At(s)) => At(s) # At(t)

(* Once stdin stays unlocked, every line that was typed at a terminal is
   parsed. *)
LinesServed ==
    <>[]~locked => \A i \in 1 .. MaxTyped :
        (Terminal /\ typed >= i * (LineLength + 1)) ~> (Len(parsed) >= i \/ Gone)

(* Ctrl-C ends the client, unless it reads a line from a pipe or a file and
   the rest of the line does not come. *)
SigintServed == had_sigint ~> (Gone \/ (pc = "getline" /\ ~Terminal))
=============================================================================
