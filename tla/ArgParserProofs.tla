-------------------------- MODULE ArgParserProofs --------------------------
(***************************************************************************)
(* A theorem about the command line, for every set of numbers and every    *)
(* number of options:                                                      *)
(*                                                                         *)
(*   LastCounts       Spec => []LastOptionCounts                           *)
(*                                                                         *)
(* LastOptionCounts speaks of whole command lines; the invariant ReadInv   *)
(* says the same of the options read so far.                               *)
(***************************************************************************)
EXTENDS ArgParser, TLAPS

USE NumbersAssumption

(* Where an option is among the first k, and its last argument there. *)
Among(o, k) == {i \in 1 .. k : argv[i].opt = o}

Latest(S, default) ==
    IF S = {} THEN default ELSE argv[CHOOSE i \in S : \A j \in S : j <= i].arg

LastOf(o, k, default) == Latest(Among(o, k), default)

MistakesAmong(k) == Among("?", k) \cup {i \in Among("t", k) : argv[i].arg = "bad"}

(* What the members of Args are once k options are read. *)
ArgsAfter(k) ==
    [type |-> LastOf("t", k, "tcp"),
     hostname |-> LastOf("s", k, "localhost"),
     port |-> Uint16(LastOf("p", k, 4567)),
     timeout |-> Uint16(LastOf("d", k, 250)),
     max_tries |-> Uint8(LastOf("r", k, 3))]

Flawless(k) == MistakesAmong(k) = {} /\ Among("h", k) = {}

CommandLine ==
    /\ Len(argv) \in Nat /\ DOMAIN argv = 1 .. Len(argv)
    /\ \A i \in DOMAIN argv : argv[i] \in Option
    /\ optind \in 0 .. Len(argv)

Assigned ==
    outcome \in {"parsing", "started"} =>
        /\ args = ArgsAfter(optind)
        /\ has_hostname = (Among("s", optind) # {})
        /\ has_type = (Among("t", optind) # {})
        /\ Flawless(optind)

(* How parsing ended, and at which option: the first -h or mistake is the
   last one read. *)
Ended ==
    /\ outcome = "started" => optind = Len(argv) /\ Complete
    /\ outcome = "helped" => optind \in Among("h", optind) /\ MistakesAmong(optind) = {}
    /\ outcome = "thrown" =>
           \/ optind \in MistakesAmong(optind) /\ Among("h", optind) = {}
           \/ /\ optind = Len(argv) /\ Flawless(optind)
              /\ Among("s", optind) = {} \/ Among("t", optind) = {}

ReadInv == CommandLine /\ Assigned /\ Ended

-----------------------------------------------------------------------------
(* One more option. *)
LEMMA OneMoreAmong ==
    ASSUME NEW k \in Nat, NEW o
    PROVE  Among(o, k + 1) = IF argv[k + 1].opt = o THEN Among(o, k) \cup {k + 1} ELSE Among(o, k)
<1>1. 1 .. k + 1 = (1 .. k) \cup {k + 1}
  OBVIOUS
<1> QED
  BY <1>1 DEF Among

LEMMA LatestIs ==
    ASSUME NEW S \in SUBSET Nat, NEW k \in S, \A j \in S : j <= k, NEW default
    PROVE  Latest(S, default) = argv[k].arg
<1> DEFINE m == CHOOSE i \in S : \A j \in S : j <= i
<1>1. m \in S /\ \A j \in S : j <= m
  OBVIOUS
<1>2. Latest(S, default) = argv[m].arg
  BY DEF Latest
<1> HIDE DEF m
<1>3. PICK n \in Nat : n = m
  BY <1>1
<1>4. n <= k /\ k <= n
  BY <1>1, <1>3
<1> QED
  BY <1>2, <1>3, <1>4

(* What is given last counts. *)
LEMMA OneMoreLast ==
    ASSUME NEW k \in Nat, NEW o, NEW default
    PROVE  LastOf(o, k + 1, default) =
               IF argv[k + 1].opt = o THEN argv[k + 1].arg ELSE LastOf(o, k, default)
<1>1. CASE argv[k + 1].opt # o
  <2>1. Among(o, k + 1) = Among(o, k)
    BY <1>1, OneMoreAmong
  <2> QED
    BY <1>1, <2>1 DEF LastOf
<1>2. CASE argv[k + 1].opt = o
  <2>1. Among(o, k + 1) = Among(o, k) \cup {k + 1}
    BY <1>2, OneMoreAmong
  <2>2. /\ Among(o, k + 1) \in SUBSET Nat /\ k + 1 \in Among(o, k + 1)
        /\ \A j \in Among(o, k + 1) : j <= k + 1
    BY <2>1 DEF Among
  <2>3. Latest(Among(o, k + 1), default) = argv[k + 1].arg
    BY <2>2, LatestIs
  <2> QED
    BY <1>2, <2>3 DEF LastOf
<1> QED
  BY <1>1, <1>2

LEMMA OneMoreMistake ==
    ASSUME NEW k \in Nat
    PROVE  MistakesAmong(k + 1) =
               IF argv[k + 1].opt = "?" \/ (argv[k + 1].opt = "t" /\ argv[k + 1].arg = "bad")
               THEN MistakesAmong(k) \cup {k + 1} ELSE MistakesAmong(k)
<1>1. /\ Among("?", k + 1) = IF argv[k + 1].opt = "?" THEN Among("?", k) \cup {k + 1} ELSE Among("?", k)
      /\ Among("t", k + 1) = IF argv[k + 1].opt = "t" THEN Among("t", k) \cup {k + 1} ELSE Among("t", k)
  BY OneMoreAmong
<1> QED
  BY <1>1 DEF MistakesAmong

(* An option that is not the one asked for changes nothing. *)
LEMMA Others ==
    ASSUME NEW k \in Nat, NEW o, argv[k + 1].opt # o
    PROVE  /\ Among(o, k + 1) = Among(o, k)
           /\ \A default : LastOf(o, k + 1, default) = LastOf(o, k, default)
  BY OneMoreAmong, OneMoreLast

LEMMA InitRead == Init => ReadInv
<1> SUFFICES ASSUME Init PROVE ReadInv
  OBVIOUS
<1>1. CommandLine
  <2>1. PICK m \in 0 .. MaxOpts : argv \in [1 .. m -> Option]
    BY DEF Init, BoundedSeq, SeqOf
  <2>2. m \in Nat /\ DOMAIN argv = 1 .. m
    BY <2>1
  <2>3. argv \in Seq(Option) /\ Len(argv) = m
    <3> HIDE DEF Option
    <3> QED
      BY ONLY <2>1, <2>2
  <2> QED
    BY <2>1, <2>2, <2>3 DEF CommandLine, Init
<1>2. \A o : Among(o, 0) = {}
  BY DEF Among
<1>3. Assigned
  <2>1. \A o, default : LastOf(o, 0, default) = default
    BY <1>2 DEF LastOf, Latest
  <2>2. Uint16(4567) = 4567 /\ Uint16(250) = 250 /\ Uint8(3) = 3
    BY DEF Uint16, Uint8
  <2>3. ArgsAfter(0) = Defaults
    <3>1. /\ LastOf("t", 0, "tcp") = "tcp" /\ LastOf("s", 0, "localhost") = "localhost"
          /\ Uint16(LastOf("p", 0, 4567)) = 4567 /\ Uint16(LastOf("d", 0, 250)) = 250
          /\ Uint8(LastOf("r", 0, 3)) = 3
      BY <1>2, <2>1, <2>2
    <3> QED
      BY <3>1 DEF ArgsAfter, Defaults
  <2> QED
    BY <1>2, <2>3 DEF Assigned, Init, Flawless, MistakesAmong
<1>4. Ended
  BY DEF Ended, Init
<1> QED
  BY <1>1, <1>3, <1>4 DEF ReadInv

(* The command line stays as it is, and one option of it is read. *)
LEMMA ReadsOne ==
    ASSUME ReadInv, NEW o, Read(o)
    PROVE  /\ argv' = argv /\ outcome = "parsing" /\ optind \in Nat /\ optind' = optind + 1
           /\ optind + 1 \in DOMAIN argv /\ argv[optind + 1].opt = o /\ argv[optind + 1] \in Option
           /\ CommandLine' /\ Flawless(optind)
<1>1. /\ argv' = argv /\ outcome = "parsing" /\ optind' = optind + 1
      /\ argv[optind + 1].opt = o /\ optind < Len(argv)
  BY DEF Read, More
<1>2. Len(argv) \in Nat /\ DOMAIN argv = 1 .. Len(argv) /\ optind \in 0 .. Len(argv)
  BY DEF ReadInv, CommandLine
<1>3. optind \in Nat /\ optind + 1 \in DOMAIN argv /\ optind + 1 \in 0 .. Len(argv)
  BY <1>1, <1>2
<1>4. argv[optind + 1] \in Option /\ CommandLine'
  BY <1>1, <1>3 DEF ReadInv, CommandLine
<1> QED
  BY <1>1, <1>3, <1>4 DEF ReadInv, Assigned

LEMMA MistakeRead ==
    ASSUME ReadInv, ReadHelp \/ ReadMistake
    PROVE  ReadInv'
<1>1. PICK o : /\ Read(o)
               /\ \/ o = "h" /\ outcome' = "helped"
                  \/ o # "h" /\ outcome' = "thrown" /\ ReadMistake
  BY DEF ReadHelp, ReadMistake
<1>2. /\ argv' = argv /\ optind \in Nat /\ optind' = optind + 1 /\ argv[optind + 1].opt = o
      /\ argv[optind + 1] \in Option /\ CommandLine' /\ Flawless(optind)
  BY <1>1, ReadsOne
<1>3. Assigned'
  BY <1>1 DEF Assigned
<1>4. /\ \A x : Among(x, optind)' = Among(x, optind + 1)
      /\ MistakesAmong(optind)' = MistakesAmong(optind + 1)
  BY <1>2 DEF MistakesAmong, Among
<1>5. CASE o = "h"
  <2>1. optind + 1 \in Among("h", optind + 1)
    BY <1>2, <1>5, OneMoreAmong
  <2>2. MistakesAmong(optind + 1) = {}
    BY <1>2, <1>5, OneMoreMistake DEF Flawless
  <2> QED
    BY <1>1, <1>2, <1>3, <1>4, <1>5, <2>1, <2>2 DEF ReadInv, Ended
<1>6. CASE o # "h"
  <2>1. argv[optind + 1].opt = "?" \/ (argv[optind + 1].opt = "t" /\ argv[optind + 1].arg = "bad")
    BY <1>1, <1>2, <1>6 DEF ReadMistake, Read, Arg, Option
  <2>2. optind + 1 \in MistakesAmong(optind + 1)
    BY <1>2, <2>1, OneMoreMistake
  <2>3. Among("h", optind + 1) = {}
    BY <1>2, <1>6, Others DEF Flawless
  <2> QED
    BY <1>1, <1>2, <1>3, <1>4, <1>6, <2>2, <2>3 DEF ReadInv, Ended
<1> QED
  BY <1>5, <1>6

(* An option that is assigned. *)
LEMMA AssignedNext ==
    ASSUME ReadInv, NEW o \in {"t", "s", "p", "d", "r"}, Read(o),
           o = "t" => Arg # "bad", outcome' = outcome,
           has_hostname' = (has_hostname \/ o = "s"), has_type' = (has_type \/ o = "t"),
           args' = ArgsAfter(optind + 1)
    PROVE  ReadInv'
<1>0. /\ argv' = argv /\ outcome = "parsing" /\ optind \in Nat /\ optind' = optind + 1
      /\ argv[optind + 1].opt = o /\ argv[optind + 1] \in Option
      /\ CommandLine' /\ Flawless(optind)
  BY ReadsOne
<1>1. /\ ArgsAfter(optind)' = ArgsAfter(optind + 1)
      /\ \A x : Among(x, optind)' = Among(x, optind + 1)
      /\ Flawless(optind)' = Flawless(optind + 1)
  BY <1>0 DEF ArgsAfter, LastOf, Latest, Among, Flawless, MistakesAmong
<1>2. Flawless(optind + 1)
  <2>1. MistakesAmong(optind + 1) = MistakesAmong(optind)
    BY <1>0, OneMoreMistake DEF Arg
  <2>2. Among("h", optind + 1) = Among("h", optind)
    BY <1>0, Others
  <2> QED
    BY <1>0, <2>1, <2>2 DEF Flawless
<1>3. /\ has_hostname = (Among("s", optind) # {}) /\ has_type = (Among("t", optind) # {})
  BY <1>0 DEF ReadInv, Assigned
<1>4. has_hostname' = (Among("s", optind + 1) # {})
  <2>1. CASE o = "s"
    BY <1>0, <2>1, OneMoreAmong
  <2>2. CASE o # "s"
    BY <1>0, <1>3, <2>2, Others
  <2> QED
    BY <2>1, <2>2
<1>5. has_type' = (Among("t", optind + 1) # {})
  <2>1. CASE o = "t"
    BY <1>0, <2>1, OneMoreAmong
  <2>2. CASE o # "t"
    BY <1>0, <1>3, <2>2, Others
  <2> QED
    BY <2>1, <2>2
<1>6. Assigned'
  BY <1>1, <1>2, <1>4, <1>5 DEF Assigned
<1>7. Ended'
  BY <1>0 DEF Ended
<1> QED
  BY <1>0, <1>6, <1>7 DEF ReadInv

(* Reading an option assigns its member and no other. *)
LEMMA OneMember ==
    ASSUME NEW t, NEW h, NEW p, NEW d, NEW r, NEW x, NEW a,
           a = [type |-> t, hostname |-> h, port |-> p, timeout |-> d, max_tries |-> r]
    PROVE  /\ [a EXCEPT !.type = x] =
                  [type |-> x, hostname |-> h, port |-> p, timeout |-> d, max_tries |-> r]
           /\ [a EXCEPT !.hostname = x] =
                  [type |-> t, hostname |-> x, port |-> p, timeout |-> d, max_tries |-> r]
           /\ [a EXCEPT !.port = x] =
                  [type |-> t, hostname |-> h, port |-> x, timeout |-> d, max_tries |-> r]
           /\ [a EXCEPT !.timeout = x] =
                  [type |-> t, hostname |-> h, port |-> p, timeout |-> x, max_tries |-> r]
           /\ [a EXCEPT !.max_tries = x] =
                  [type |-> t, hostname |-> h, port |-> p, timeout |-> d, max_tries |-> x]
  OBVIOUS

LEMMA ArgsNext ==
    ASSUME ReadInv, NEW o \in {"t", "s", "p", "d", "r"}, Read(o)
    PROVE  /\ o = "t" => ArgsAfter(optind + 1) = [args EXCEPT !.type = Arg]
           /\ o = "s" => ArgsAfter(optind + 1) = [args EXCEPT !.hostname = Arg]
           /\ o = "p" => ArgsAfter(optind + 1) = [args EXCEPT !.port = Uint16(Arg)]
           /\ o = "d" => ArgsAfter(optind + 1) = [args EXCEPT !.timeout = Uint16(Arg)]
           /\ o = "r" => ArgsAfter(optind + 1) = [args EXCEPT !.max_tries = Uint8(Arg)]
<1>0. /\ outcome = "parsing" /\ optind \in Nat /\ argv[optind + 1].opt = o
      /\ args = ArgsAfter(optind)
  BY ReadsOne DEF ReadInv, Assigned
<1>1. \A x, default : LastOf(x, optind + 1, default) =
                          IF x = o THEN Arg ELSE LastOf(x, optind, default)
  BY <1>0, OneMoreLast DEF Arg
<1> DEFINE t == LastOf("t", optind, "tcp")
           h == LastOf("s", optind, "localhost")
           p == Uint16(LastOf("p", optind, 4567))
           d == Uint16(LastOf("d", optind, 250))
           r == Uint8(LastOf("r", optind, 3))
<1>3. args = [type |-> t, hostname |-> h, port |-> p, timeout |-> d, max_tries |-> r]
  BY <1>0 DEF ArgsAfter
<1>4. /\ LastOf("t", optind + 1, "tcp") = IF o = "t" THEN Arg ELSE t
      /\ LastOf("s", optind + 1, "localhost") = IF o = "s" THEN Arg ELSE h
      /\ Uint16(LastOf("p", optind + 1, 4567)) = IF o = "p" THEN Uint16(Arg) ELSE p
      /\ Uint16(LastOf("d", optind + 1, 250)) = IF o = "d" THEN Uint16(Arg) ELSE d
      /\ Uint8(LastOf("r", optind + 1, 3)) = IF o = "r" THEN Uint8(Arg) ELSE r
  BY <1>1
<1> HIDE DEF t, h, p, d, r
<1>5. ArgsAfter(optind + 1) =
          [type |-> IF o = "t" THEN Arg ELSE t, hostname |-> IF o = "s" THEN Arg ELSE h,
           port |-> IF o = "p" THEN Uint16(Arg) ELSE p, timeout |-> IF o = "d" THEN Uint16(Arg) ELSE d,
           max_tries |-> IF o = "r" THEN Uint8(Arg) ELSE r]
  BY <1>4 DEF ArgsAfter
<1>6. o = "t" => ArgsAfter(optind + 1) = [args EXCEPT !.type = Arg]
  BY <1>3, <1>5, OneMember
<1>7. o = "s" => ArgsAfter(optind + 1) = [args EXCEPT !.hostname = Arg]
  BY <1>3, <1>5, OneMember
<1>8. o = "p" => ArgsAfter(optind + 1) = [args EXCEPT !.port = Uint16(Arg)]
  BY <1>3, <1>5, OneMember
<1>9. o = "d" => ArgsAfter(optind + 1) = [args EXCEPT !.timeout = Uint16(Arg)]
  BY <1>3, <1>5, OneMember
<1>10. o = "r" => ArgsAfter(optind + 1) = [args EXCEPT !.max_tries = Uint8(Arg)]
  BY <1>3, <1>5, OneMember
<1> QED
  BY <1>6, <1>7, <1>8, <1>9, <1>10

LEMMA ReadKept ==
    ASSUME ReadInv, [Next]_vars
    PROVE  ReadInv'
<1>1. CASE UNCHANGED vars
  <2>1. UNCHANGED <<argv, optind, args, has_hostname, has_type, outcome>>
    BY <1>1 DEF vars
  <2>2. /\ ArgsAfter(optind)' = ArgsAfter(optind) /\ Flawless(optind)' = Flawless(optind)
        /\ MistakesAmong(optind)' = MistakesAmong(optind)
        /\ \A x : Among(x, optind)' = Among(x, optind)
    BY <2>1 DEF ArgsAfter, LastOf, Latest, Among, Flawless, MistakesAmong
  <2>3. CommandLine'
    BY <2>1 DEF ReadInv, CommandLine
  <2>4. Assigned'
    BY <2>1, <2>2 DEF ReadInv, Assigned
  <2>5. Ended'
    BY <2>1, <2>2 DEF ReadInv, Ended, Complete
  <2> QED
    BY <2>3, <2>4, <2>5 DEF ReadInv
<1>2. CASE ReadHelp \/ ReadMistake
  BY <1>2, MistakeRead
<1>3. CASE ReadType
  <2>1. Read("t") /\ Arg # "bad" /\ args' = [args EXCEPT !.type = Arg]
    BY <1>3 DEF ReadType
  <2>2. has_type' = TRUE /\ UNCHANGED <<has_hostname, outcome>>
    BY <1>3 DEF ReadType
  <2>3. args' = ArgsAfter(optind + 1)
    BY <2>1, ArgsNext
  <2>4. has_hostname \in BOOLEAN
    BY <2>1, ReadsOne DEF ReadInv, Assigned
  <2> QED
    BY <2>1, <2>2, <2>3, <2>4, AssignedNext
<1>4. CASE ReadHostname
  <2>1. Read("s") /\ args' = [args EXCEPT !.hostname = Arg]
    BY <1>4 DEF ReadHostname
  <2>2. has_hostname' = TRUE /\ UNCHANGED <<has_type, outcome>>
    BY <1>4 DEF ReadHostname
  <2>4. args' = ArgsAfter(optind + 1)
    BY <2>1, ArgsNext
  <2>5. has_type \in BOOLEAN
    BY <2>1, ReadsOne DEF ReadInv, Assigned
  <2> QED
    BY <2>1, <2>2, <2>4, <2>5, AssignedNext
<1>5. CASE ReadNumber
  <2>1. PICK o \in {"p", "d", "r"} : Read(o) /\ args' = Assign(args, o, Arg)
    BY <1>5 DEF ReadNumber
  <2>2. UNCHANGED <<has_hostname, has_type, outcome>>
    BY <1>5 DEF ReadNumber
  <2>3. args' = ArgsAfter(optind + 1)
    BY <2>1, ArgsNext DEF Assign
  <2>4. has_hostname \in BOOLEAN /\ has_type \in BOOLEAN
    BY <2>1, ReadsOne DEF ReadInv, Assigned
  <2> QED
    BY <2>1, <2>2, <2>3, <2>4, AssignedNext
<1>6. CASE Finish
  <2>1. /\ outcome = "parsing" /\ optind = Len(argv)
        /\ outcome' = (IF Complete THEN "started" ELSE "thrown")
        /\ UNCHANGED <<argv, optind, args, has_hostname, has_type>>
    BY <1>6 DEF Finish
  <2>2. /\ args = ArgsAfter(optind) /\ has_hostname = (Among("s", optind) # {})
        /\ has_type = (Among("t", optind) # {}) /\ Flawless(optind)
    BY <2>1 DEF ReadInv, Assigned
  <2>3. /\ ArgsAfter(optind)' = ArgsAfter(optind) /\ Flawless(optind)' = Flawless(optind)
        /\ MistakesAmong(optind)' = MistakesAmong(optind)
        /\ \A x : Among(x, optind)' = Among(x, optind)
    BY <2>1 DEF ArgsAfter, LastOf, Latest, Among, Flawless, MistakesAmong
  <2>4. CommandLine'
    BY <2>1 DEF ReadInv, CommandLine
  <2>5. Assigned'
    BY <2>1, <2>2, <2>3 DEF Assigned
  <2>6. Ended'
    BY <2>1, <2>2, <2>3 DEF Ended, Complete
  <2> QED
    BY <2>4, <2>5, <2>6 DEF ReadInv
<1> QED
  BY <1>1, <1>2, <1>3, <1>4, <1>5, <1>6 DEF Next

(* The command line alone decides whether a chat is started, and with what:
   what was given last of every option, reduced to the width of its member.
   It is started only if -s and -t are named and there is neither a mistake
   nor a -h; help and exceptions come from the first of these. *)
THEOREM LastCounts == Spec => []LastOptionCounts
<1>1. Init => ReadInv
  BY InitRead
<1>2. ReadInv /\ [Next]_vars => ReadInv'
  BY ReadKept
<1>3. ReadInv => LastOptionCounts
  <2> SUFFICES ASSUME ReadInv PROVE LastOptionCounts
    OBVIOUS
  <2>0. DOMAIN argv = 1 .. Len(argv) /\ optind \in 0 .. Len(argv) /\ Len(argv) \in Nat
    BY DEF ReadInv, CommandLine
  <2>1. \A o : Among(o, Len(argv)) = Positions(o)
    BY <2>0 DEF Among, Positions
  <2>2. MistakesAmong(Len(argv)) = Mistakes
    BY <2>1 DEF MistakesAmong, Mistakes
  <2>3. /\ \A i \in Mistakes : i \in Nat /\ (i <= optind => i \in MistakesAmong(optind))
        /\ \A i \in Positions("h") : i \in Nat /\ (i <= optind => i \in Among("h", optind))
    BY <2>0 DEF MistakesAmong, Mistakes, Among, Positions
  <2>4. MistakesAmong(optind) \subseteq Mistakes /\ Among("h", optind) \subseteq Positions("h")
    BY <2>0 DEF MistakesAmong, Mistakes, Among, Positions
  <2>5. CASE outcome = "started"
    <3>1. /\ optind = Len(argv) /\ Complete /\ args = ArgsAfter(optind) /\ Flawless(optind)
          /\ has_hostname = (Among("s", optind) # {}) /\ has_type = (Among("t", optind) # {})
      BY <2>5 DEF ReadInv, Assigned, Ended
    <3>2. Positions("s") # {} /\ Positions("t") # {}
      BY <2>1, <3>1 DEF Complete
    <3>3. \A o, default : LastOf(o, Len(argv), default) = Asked(o, default)
      <4>1. ASSUME NEW o, NEW default PROVE Asked(o, default) = Latest(Positions(o), default)
        BY DEF Latest, Asked, LastArg
      <4> QED
        BY <2>1, <4>1 DEF LastOf
    <3>4. Asked("s", "localhost") = LastArg("s") /\ Asked("t", "tcp") = LastArg("t")
      BY <3>2 DEF Asked
    <3>5. args = [type |-> LastArg("t"), hostname |-> LastArg("s"),
                  port |-> Uint16(Asked("p", 4567)),
                  timeout |-> Uint16(Asked("d", 250)),
                  max_tries |-> Uint8(Asked("r", 3))]
      BY <3>1, <3>3, <3>4 DEF ArgsAfter
    <3>6. Mistakes \cup Positions("h") = {}
      BY <2>1, <2>2, <3>1 DEF Flawless
    <3> QED
      BY <2>5, <3>2, <3>5, <3>6 DEF LastOptionCounts
  <2>6. CASE outcome = "helped"
    <3>1. optind \in Positions("h") /\ MistakesAmong(optind) = {}
      BY <2>4, <2>6 DEF ReadInv, Ended
    <3>2. \A j \in Mistakes : optind < j
      BY <2>0, <2>3, <3>1
    <3> QED
      BY <2>6, <3>1, <3>2 DEF LastOptionCounts
  <2>7. CASE outcome = "thrown"
    <3>1. CASE optind \in MistakesAmong(optind) /\ Among("h", optind) = {}
      <4>1. \A j \in Positions("h") : optind < j
        BY <2>0, <2>3, <3>1
      <4> QED
        BY <2>4, <2>7, <3>1, <4>1 DEF LastOptionCounts
    <3>2. CASE /\ optind = Len(argv) /\ Flawless(optind)
               /\ Among("s", optind) = {} \/ Among("t", optind) = {}
      BY <2>1, <2>2, <2>7, <3>2 DEF LastOptionCounts, Flawless
    <3> QED
      BY <2>7, <3>1, <3>2 DEF ReadInv, Ended
  <2> QED
    BY <2>5, <2>6, <2>7 DEF LastOptionCounts
<1> QED
  BY <1>1, <1>2, <1>3, PTL DEF Spec
=============================================================================
