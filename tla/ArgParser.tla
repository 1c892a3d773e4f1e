----------------------------- MODULE ArgParser -----------------------------
(***************************************************************************)
(* ArgParser::parse: the loop over getopt, one option at a time, and the   *)
(* two tests behind it.  An option is [opt, arg]; opt "?" is what getopt   *)
(* returns for an option it does not know or one without its argument, and *)
(* the argument of -p, -d and -r is the number atoi makes of it.  The      *)
(* members of Args these numbers are assigned to are narrower than an int. *)
(***************************************************************************)
EXTENDS Integers, Sequences, SequencesExt

CONSTANTS
    Numbers,  \* values of the numeric arguments
    MaxOpts   \* bound: options on the command line

ASSUME NumbersAssumption == Numbers \subseteq Int /\ MaxOpts \in Nat

Option ==
    [opt : {"t"}, arg : {"tcp", "udp", "bad"}] \cup [opt : {"s"}, arg : {"host", "other"}]
    \cup [opt : {"p", "d", "r"}, arg : Numbers] \cup [opt : {"h", "?"}, arg : {"none"}]

VARIABLES
    argv,          \* the options of the command line
    optind,        \* how many of them have been read
    args,          \* the structure Args
    has_hostname, has_type,
    outcome        \* "parsing", "started", "helped" or "thrown"

vars == <<argv, optind, args, has_hostname, has_type, outcome>>

Uint8(n) == n % 256
Uint16(n) == n % 65536

Defaults == [type |-> "tcp", hostname |-> "localhost",
             port |-> 4567, timeout |-> 250, max_tries |-> 3]

Init ==
    /\ argv \in BoundedSeq(Option, MaxOpts)
    /\ optind = 0
    /\ args = Defaults
    /\ has_hostname = FALSE /\ has_type = FALSE
    /\ outcome = "parsing"

More == outcome = "parsing" /\ optind < Len(argv)

Read(o) ==
    /\ More /\ argv[optind + 1].opt = o
    /\ optind' = optind + 1
    /\ UNCHANGED argv

Arg == argv[optind + 1].arg

ReadHelp ==
    /\ Read("h")
    /\ outcome' = "helped"
    /\ UNCHANGED <<args, has_hostname, has_type>>

ReadType ==
    /\ Read("t") /\ Arg \in {"tcp", "udp"}
    /\ args' = [args EXCEPT !.type = Arg]
    /\ has_type' = TRUE
    /\ UNCHANGED <<has_hostname, outcome>>

ReadMistake ==
    /\ Read("?") \/ (Read("t") /\ Arg \notin {"tcp", "udp"})
    /\ outcome' = "thrown"
    /\ UNCHANGED <<args, has_hostname, has_type>>

ReadHostname ==
    /\ Read("s")
    /\ args' = [args EXCEPT !.hostname = Arg]
    /\ has_hostname' = TRUE
    /\ UNCHANGED <<has_type, outcome>>

AssignSwapped(a, o, n) ==
    CASE o = "p" -> [a EXCEPT !.port = Uint16(n)]
      [] o = "d" -> [a EXCEPT !.max_tries = Uint8(n)]
      [] o = "r" -> [a EXCEPT !.timeout = Uint16(n)]

Assign(a, o, n) ==
    CASE o = "p" -> [a EXCEPT !.port = Uint16(n)]
      [] o = "d" -> [a EXCEPT !.timeout = Uint16(n)]
      [] o = "r" -> [a EXCEPT !.max_tries = Uint8(n)]

ReadNumber ==
    /\ \E o \in {"p", "d", "r"} : Read(o) /\ args' = Assign(args, o, Arg)
    /\ UNCHANGED <<has_hostname, has_type, outcome>>

HostSuffices == has_hostname

Complete == has_hostname /\ has_type

Finish ==
    /\ outcome = "parsing" /\ optind = Len(argv)
    /\ outcome' = (IF Complete THEN "started" ELSE "thrown")
    /\ UNCHANGED <<argv, optind, args, has_hostname, has_type>>

Next ==
    ReadHelp \/ ReadType \/ ReadMistake \/ ReadHostname \/ ReadNumber \/ Finish

Spec == Init /\ [][Next]_vars

-----------------------------------------------------------------------------
(* Properties *)

Positions(o) == {i \in DOMAIN argv : argv[i].opt = o}

LastArg(o) == argv[CHOOSE i \in Positions(o) : \A j \in Positions(o) : j <= i].arg

(* What the user gave last for an option that may be left out. *)
Asked(o, default) == IF Positions(o) = {} THEN default ELSE LastArg(o)

Mistakes == Positions("?") \cup {i \in Positions("t") : argv[i].arg = "bad"}

(* The command line decides how parsing ends, the options in any order and
   repeated.  A chat is started exactly by one that names server and protocol
   and has neither a mistake nor a -h; what was given last counts, reduced to
   the width of its member.  Of mistakes and -h the first decides: help is
   printed, or an exception thrown; and one is thrown for a command line
   that has neither but leaves out the server or the protocol. *)
LastOptionCounts ==
    /\ outcome = "started" =>
           /\ Mistakes \cup Positions("h") = {}
           /\ Positions("s") # {} /\ Positions("t") # {}
           /\ args = [type |-> LastArg("t"), hostname |-> LastArg("s"),
                      port |-> Uint16(Asked("p", 4567)),
                      timeout |-> Uint16(Asked("d", 250)),
                      max_tries |-> Uint8(Asked("r", 3))]
    /\ outcome = "helped" => \E i \in Positions("h") : \A j \in Mistakes : i < j
    /\ outcome = "thrown" =>
           \/ \E i \in Mistakes : \A j \in Positions("h") : i < j
           \/ /\ Mistakes \cup Positions("h") = {}
              /\ Positions("s") = {} \/ Positions("t") = {}

=============================================================================
