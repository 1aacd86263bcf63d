------------------------------- MODULE Startup -------------------------------
(***************************************************************************)
(* main() of src/main.cpp: from the command line to the capture, or to the *)
(* end without one.                                                        *)
(***************************************************************************)
EXTENDS Parser, Usage

CONSTANTS
  Commands,      \* the command lines to look at, without the program's name
  Interfaces,    \* the names of the interfaces at the start of the program
  PartsOfAny     \* the texts that are a part of "any"

ASSUME CommandsAssumption == Commands \subseteq Seq(Seq(STRING))

VARIABLES
  root,       \* the program runs as root
  argv,       \* the arguments
  pc,
  args,       \* what sanitize_args has made of them
  parse,      \* the parser
  options,    \* the variables that the command line sets
  flist,      \* the filters
  dissect     \* the arguments of dissect(), when it has been called

vars == <<root, argv, pc, args, parse, options, flist, dissect>>

NoOptions ==
  [iface |-> <<"invalid">>, logpath |-> <<>>, mac_filter |-> <<>>, ip_filter |-> <<>>,
   daemonize |-> FALSE, en_logging |-> FALSE, en_dns |-> FALSE, en_mac_filter |-> FALSE,
   en_ip_filter |-> FALSE, dump_payloads |-> FALSE, print_version |-> FALSE,
   show_help |-> FALSE, show_ifs |-> FALSE, wrong |-> <<>>]

Init ==
  /\ root \in BOOLEAN
  /\ argv \in Commands
  /\ pc = "start"
  /\ args = <<>>
  /\ parse = parser(0)
  /\ options = NoOptions
  /\ flist = <<>>
  /\ dissect = <<>>

(* The program ends at one of these. *)
Ends == {"must be root", "unknown arguments", "help", "version", "interfaces",
         "invalid interface", "capture"}

Begin ==
  /\ pc = "start"
  /\ pc' = IF ~root THEN "must be root"
           ELSE IF argv = <<>> THEN "help" ELSE "parse"
  /\ args' = IF pc' = "parse" THEN sanitize_args(argv) ELSE args
  /\ UNCHANGED <<root, argv, parse, options, flist, dissect>>

(* parse_args: the arguments from left to right. *)
IsParsed == parse.index = Len(args) \/ ~valid(parse)

ParseNext ==
  /\ pc = "parse" /\ ~IsParsed
  /\ parse' = ParseArgument(parse, args[parse.index + 1])
  /\ UNCHANGED <<root, argv, pc, args, options, flist, dissect>>

(***************************************************************************)
(* The actions are executed for good matches even if there are errors.     *)
(***************************************************************************)
Verdict(o, error) ==
  CASE o.wrong # <<>>       -> "unknown arguments"
    [] error \/ o.show_help -> "help"
    [] o.print_version      -> "version"
    [] o.show_ifs           -> "interfaces"
    [] OTHER                -> "filters"

Execute ==
  /\ pc = "parse" /\ IsParsed
  /\ options' = execute_actions(parse, options)
  /\ pc' = Verdict(options', any_error(parse))
  /\ UNCHANGED <<root, argv, args, parse, flist, dissect>>

Filter(enabled, type, param) ==
  IF enabled THEN <<[type |-> type, param |-> param]>> ELSE <<>>

MakeFilters ==
  /\ pc = "filters"
  /\ flist' = Filter(options.en_mac_filter, "FILTER_MAC_T", options.mac_filter)
              \o Filter(options.en_ip_filter, "FILTER_IP_T", options.ip_filter)
  /\ pc' = "interface"
  /\ UNCHANGED <<root, argv, args, parse, options, dissect>>

(* strstr("any", iface): any part of "any" stands for it. *)
AnyInterface(name) == name \in PartsOfAny

(* TU::ifinfo holds the interfaces of the start of the program. *)
valid_name(name) == name \in Interfaces

Unvalidated(name) == TRUE                            \* mutant of validate_iface
validate_iface(name) == valid_name(name)

ChooseInterface ==
  /\ pc = "interface"
  /\ options' = IF AnyInterface(options.iface)
                THEN [options EXCEPT !.iface = <<"any">>] ELSE options
  /\ pc' = IF AnyInterface(options.iface) \/ validate_iface(options.iface)
           THEN "dissect" ELSE "invalid interface"
  /\ UNCHANGED <<root, argv, args, parse, flist, dissect>>

Dissect ==
  /\ pc = "dissect"
  /\ dissect' = <<[iface |-> options.iface, flist |-> flist, en_dns |-> options.en_dns,
                   dump_payloads |-> options.dump_payloads]>>
  /\ pc' = "capture"
  /\ UNCHANGED <<root, argv, args, parse, options, flist>>

(* Only here the program stays where it is. *)
HasEnded == pc \in Ends /\ UNCHANGED vars

Next ==
  \/ Begin
  \/ ParseNext
  \/ Execute
  \/ MakeFilters
  \/ ChooseInterface
  \/ Dissect
  \/ HasEnded

Spec == Init /\ [][Next]_vars

-----------------------------------------------------------------------------
(***************************************************************************)
(* The command line as its reader understands it, from left to right.  A   *)
(* flag is a flag wherever it stands.  A flag that takes a value may be    *)
(* followed by it without a space.  What is no flag is the value of the    *)
(* flag before it if that takes one and has none, and else it is unknown.  *)
(***************************************************************************)
Options  == {p \in (1 .. Len(cli.children)) \X {0, 1} :
               IF p[2] = 0 THEN cli.children[p[1]].type = "param"
                                /\ cli.children[p[1]].flags # <<>>
                           ELSE cli.children[p[1]].type = "group"}
OptionAt(p) == IF p[2] = 0 THEN cli.children[p[1]] ELSE cli.children[p[1]].children[1]
ValueOf(p)  == cli.children[p[1]].children[2].target
Takes(p)    == p[2] = 1

Whole(arg)  == {p \in Options : arg \in ToSet(OptionAt(p).flags)}
Joined(arg) == {p \in Options : Takes(p) /\ \E f \in ToSet(OptionAt(p).flags) : IsPrefix(f, arg)}

(* what is read: the options, their values, the unknown, who waits *)
NothingRead == [options |-> <<>>, values |-> <<>>, wrong |-> <<>>, waits |-> <<>>,
                unfinished |-> FALSE]

ReadFlag(r, p) ==
  [r EXCEPT !.options = Append(@, p),
            !.waits = IF Takes(p) THEN <<p>> ELSE <<>>,
            !.unfinished = @ \/ r.waits # <<>>]

ReadText(r, text) ==
  IF r.waits = <<>> THEN [r EXCEPT !.wrong = Append(@, text)]
  ELSE [r EXCEPT !.values = Append(@, [target |-> ValueOf(Head(r.waits)), text |-> text]),
                 !.waits = <<>>]

ReadArgument(r, arg) ==
  IF arg = <<>> THEN r
  ELSE IF Whole(arg) # {} THEN ReadFlag(r, CHOOSE p \in Whole(arg) : TRUE)
  ELSE IF Joined(arg) # {}
  THEN LET p == CHOOSE p \in Joined(arg) : TRUE
           n == longest_prefix_match(arg, OptionAt(p).flags)
       IN  ReadText(ReadFlag(r, p), SubSeq(arg, n + 1, Len(arg)))
  ELSE ReadText(r, arg)

Reading == FoldLeft(ReadArgument, NothingRead, argv)

(* An option without its value, or given twice. *)
IsBad(r) == r.unfinished \/ r.waits # <<>> \/ ~IsInjective(r.options)

Means(r) ==
  [t \in DOMAIN NoOptions |->
     IF t = "wrong" THEN r.wrong
     ELSE LET given == {i \in DOMAIN r.values : r.values[i].target = t}
          IN  IF given # {} THEN r.values[Min(given)].text
              ELSE IF t \in Texts THEN NoOptions[t]
              ELSE \E i \in DOMAIN r.options : OptionAt(r.options[i]).target = t]

(***************************************************************************)
(* Two things that main() does and its reader cannot know of, of which     *)
(* nothing is claimed.  sanitize_args (see Parser) rewrites a command line *)
(* in which an argument like ".5" follows digits or a sign: "-i eth0 .5"   *)
(* is read as "-i eth 0.5".  And since strstr is called with its arguments *)
(* swapped, a name that is a part of "any", such as "a", stands for "any". *)
(***************************************************************************)
IsRewritten(line) ==
  \E i \in 2 .. Len(line) :
    /\ TakesDigits(line[i])
    /\ line[i - 1] # <<>> /\ Last(line[i - 1]) \in Digits \cup Signs

IsMistakenForAny(name) == name \in PartsOfAny \ {<<"any">>}

-----------------------------------------------------------------------------
(* The type of every variable: the parser is somewhere in the tree, and    *)
(* what it misses are values.                                              *)
TypeOK ==
  /\ root \in BOOLEAN
  /\ argv \in Commands
  /\ pc \in Ends \cup {"start", "parse", "filters", "interface", "dissect"}
  /\ parse.index \in 0 .. Len(args)
  /\ parse.pos \in Traverser
  /\ \A p \in parse.miss : IsValue(p) /\ At(p).required
  /\ DOMAIN options = DOMAIN NoOptions
  /\ \A i \in DOMAIN flist : flist[i].type \in {"FILTER_MAC_T", "FILTER_IP_T"}

(***************************************************************************)
(* Options in any order, values with and without a space, options twice,   *)
(* without their value or with a flag in its place, and unknown arguments: *)
(* the walk of the parser with its scopes comes to what a reader of the    *)
(* command line understands, and main() decides accordingly, unless        *)
(* sanitize_args has rewritten it.                                         *)
(***************************************************************************)
ReadsAsWritten ==
  argv # <<>> /\ ~IsRewritten(argv)
  /\ pc \in {"unknown arguments", "help", "version", "interfaces", "filters"} =>
    options = Means(Reading) /\ pc = Verdict(Means(Reading), IsBad(Reading))

(***************************************************************************)
(* The help is true: a command line that the usage line describes, with    *)
(* options left out and with the flags that OPTIONS lists instead of the   *)
(* ones that are shown, and every example on the page, is accepted.  A     *)
(* text that begins with a flag, or takes digits from the argument before  *)
(* it, is not a value to the reader of the page.                           *)
(***************************************************************************)
IsText(arg) == arg # <<>> /\ Whole(arg) = {} /\ Joined(arg) = {} /\ ~TakesDigits(arg)

IsAccepted == pc # "unknown arguments" /\ ~any_error(parse)

HelpIsTrue ==
  pc \in Ends \ {"must be root"} =>
    \A line \in {make_man_page.SYNOPSIS} \cup make_man_page.EXAMPLES :
      Describes(line, argv, IsText) => IsAccepted

(***************************************************************************)
(* The parser always has a position and is never blocked: every argument   *)
(* that is not empty finds a parameter in reach, if only the last one      *)
(* (any_other), so that what is unknown is reported and never skipped.     *)
(***************************************************************************)
EveryArgumentIsInReach ==
  /\ valid(parse) /\ ~parse.blocked
  /\ \A i \in DOMAIN parse.args : parse.args[i].param # <<>> /\ ~parse.args[i].blocked

(***************************************************************************)
(* No text is lost and none is doubled on the way from argv to the         *)
(* parameters: not where sanitize_args moves digits to the next argument,  *)
(* and not where an argument is split between a flag and its value.        *)
(***************************************************************************)
NoTextIsLost ==
  args # <<>> =>
    /\ FlattenSeq(args) = FlattenSeq(argv)
    /\ FlattenSeq([i \in DOMAIN parse.args |-> parse.args[i].arg])
       = FlattenSeq(SubSeq(args, 1, parse.index))

(***************************************************************************)
(* A capture begins as root only, on the interface that was named, which   *)
(* was there at the start of the program or is "any", with the filters     *)
(* that were given, each with a value.  Nothing is claimed of a line that  *)
(* was rewritten, nor of the interface if its name is mistaken for "any".  *)
(***************************************************************************)
Filters(type, text) ==
  IF text = <<>> THEN {} ELSE {[type |-> type, param |-> text]}

IsAskedFor(d, o) ==
  /\ o.wrong = <<>>
  /\ ~IsMistakenForAny(o.iface) =>
       d.iface = o.iface /\ o.iface \in Interfaces \cup {<<"any">>}
  /\ ToSet(d.flist) = Filters("FILTER_MAC_T", o.mac_filter)
                      \cup Filters("FILTER_IP_T", o.ip_filter)
  /\ d.en_dns = o.en_dns /\ d.dump_payloads = o.dump_payloads

CapturesWhatWasAskedFor ==
  dissect # <<>> =>
    /\ root
    /\ ~IsRewritten(argv) => ~IsBad(Reading) /\ IsAskedFor(Head(dissect), Means(Reading))

=============================================================================
