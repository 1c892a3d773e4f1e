---------------------------- MODULE InputParser ----------------------------
(***************************************************************************)
(* InputParser::parse_input, from the line getline has read to the command *)
(* it returns or the exception it ends with.                               *)
(*                                                                         *)
(* A line is a sequence of symbols: a blank, one of the four command names,*)
(* a slash, or other text.  Symbols without a blank between them are one   *)
(* word, so that <</auth, x>> is the word "/authx".  The parser is the     *)
(* loop of the code over positions of the string; what the four commands   *)
(* mean is stated apart from it, over the words of the line.               *)
(***************************************************************************)
EXTENDS ChatTypes, Integers, Sequences, FiniteSets

CONSTANT Lines  \* bound: the lines the user may enter

Blank == " "
Names == {"/auth", "/join", "/rename", "/help"}
Symbol == Names \cup {Blank, "/", "x"}

ASSUME LinesAssumption == Lines \subseteq Seq(Symbol)

VARIABLES
    input,    \* the line
    pos,      \* position of a blank, counted from 0 as in the code, or npos
    args,     \* arguments cut so far
    command,  \* the command returned, "none" before, "throws" for at(0)
    stage     \* "find", "cut", "decide" or "done"

vars == <<input, pos, args, command, stage>>

npos == -1

First(hits) == IF hits = {} THEN npos ELSE CHOOSE p \in hits : \A q \in hits : p <= q

BlanksFrom(from) == {p \in from .. Len(input) - 1 : input[p + 1] = Blank}

FindAgain(from) == First(BlanksFrom(IF from = 0 THEN 0 ELSE from - 1))

(* std::string::find(' ', from) *)
Find(from) == First(BlanksFrom(from))

(* std::string::substr from position `from' to the blank at `to'; npos is
   the largest size_t, so that npos - pos - 1 reaches to the end. *)
Substr(from, to) == SubSeq(input, from + 1, IF to = npos THEN Len(input) ELSE to)

Init ==
    /\ input \in Lines
    /\ pos = npos
    /\ args = <<>>
    /\ command = [type |-> "none", args |-> <<>>]
    /\ stage = "find"

FindFirst ==
    /\ stage = "find"
    /\ pos' = Find(0)
    /\ stage' = "cut"
    /\ UNCHANGED <<input, args, command>>

KeepArg(arg) == Append(args, arg)

AddArg(arg) == IF arg = <<>> THEN args ELSE Append(args, arg)

(* One iteration of the while loop. *)
CutArg ==
    /\ stage = "cut" /\ pos # npos
    /\ LET next == Find(pos + 1) IN
       /\ args' = AddArg(Substr(pos + 1, next))
       /\ pos' = next
    /\ UNCHANGED <<input, command, stage>>

CutEnds ==
    /\ stage = "cut" /\ pos = npos
    /\ stage' = "decide"
    /\ UNCHANGED <<input, pos, args, command>>

Help == [type |-> "CMD_HELP", args |-> <<>>]

WithArgs(type, n) == IF Len(args) = n THEN [type |-> type, args |-> args] ELSE Help

(* The chain of comparisons; command.at(0) throws for an empty first word. *)
Decision ==
    LET word == Substr(0, Find(0)) IN
    CASE word = <<"/auth">>   -> WithArgs("CMD_AUTH", 3)
      [] word = <<"/join">>   -> WithArgs("CMD_JOIN", 1)
      [] word = <<"/rename">> -> WithArgs("CMD_RENAME", 1)
      [] word = <<"/help">>   -> Help
      [] word = <<>>          -> [type |-> "throws", args |-> <<>>]
      [] OTHER                -> IF Head(word) # "x" THEN Help
                                 ELSE [type |-> "CMD_MSG", args |-> <<input>>]

Decide ==
    /\ stage = "decide"
    /\ command' = Decision
    /\ stage' = "done"
    /\ UNCHANGED <<input, pos, args>>

Next == FindFirst \/ CutArg \/ CutEnds \/ Decide

(* parse_input runs to its end. *)
Spec == Init /\ [][Next]_vars /\ WF_vars(Next)

-----------------------------------------------------------------------------
(* The words of a line, apart from the loop: blanks separate, any number of
   them.  A word begins at a symbol behind a blank, or at the first, and goes
   on to the next blank; the n-th word is the one with n beginnings up to its
   own. *)
Begins(s) == {i \in DOMAIN s : s[i] # Blank /\ (i > 1 => s[i - 1] = Blank)}

WordEnd(s, i) ==
    CHOOSE j \in i .. Len(s) :
        (\A k \in i .. j : s[k] # Blank) /\ (j < Len(s) => s[j + 1] = Blank)

WordAt(s, i) == SubSeq(s, i, WordEnd(s, i))

Number(s, i) == Cardinality({j \in Begins(s) : j <= i})

Words(s) ==
    [n \in 1 .. Cardinality(Begins(s)) |->
        WordAt(s, CHOOSE i \in Begins(s) : Number(s, i) = n)]

Arity(type) ==
    CASE type = "CMD_AUTH" -> 3 [] type \in {"CMD_JOIN", "CMD_RENAME"} -> 1 [] OTHER -> 0

NameOf(type) ==
    CASE type = "CMD_AUTH" -> "/auth" [] type = "CMD_JOIN" -> "/join" [] OTHER -> "/rename"

IsCommand(type) ==
    LET w == Words(input) IN
    Len(w) = Arity(type) + 1 /\ w[1] = <<NameOf(type)>> /\ input[1] # Blank

IsText == input # <<>> /\ input[1] = "x"

(* The loop over positions reads the line as its words: whatever blanks
   stand between or behind them, a command is accepted exactly if it has
   the arguments the postman will take out of it, each of them a word; a
   text is handed on whole; and every other line whose first symbol can be
   seen is a request for help.  (How a line that is empty or begins with a
   blank ends is not said here, only that it is no command and no text.) *)
ParsesWords ==
    stage = "done" =>
        /\ \A type \in {"CMD_AUTH", "CMD_JOIN", "CMD_RENAME"} :
              (command.type = type) <=> IsCommand(type)
        /\ command.type \in {"CMD_AUTH", "CMD_JOIN", "CMD_RENAME"} =>
              command.args = Tail(Words(input))
        /\ command.type = "CMD_MSG" <=> IsText
        /\ command.type = "CMD_MSG" => command.args = <<input>>
        /\ input # <<>> /\ input[1] # Blank => command.type \in CommandType

(* The loop over the blanks ends for every line. *)
ParseEnds == <>(stage = "done")
=============================================================================
