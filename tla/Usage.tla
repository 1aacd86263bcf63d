-------------------------------- MODULE Usage --------------------------------
(***************************************************************************)
(* The page that -h prints: usage_lines, documentation and make_man_page   *)
(* of clipp (src/include/clipp.h) with the sections of src/main.cpp.       *)
(*                                                                         *)
(* A line is a sequence of tokens: brackets, flags and labels of values.   *)
(* Spaces, columns and colours are left out, and so is what clipp prints   *)
(* for alternatives, joinable flags and groups with a documentation, which *)
(* the program does not have.                                              *)
(***************************************************************************)
EXTENDS CommandLine

Token == [kind : {"[", "]", "flag", "label", "..."}, text : Seq(STRING)]
Mark(kind)       == <<[kind |-> kind, text |-> <<>>]>>
FlagToken(flag)  == [kind |-> "flag", text |-> flag]
LabelToken(name) == [kind |-> "label", text |-> <<name>>]

(* doc_formatting: how many of the flags of a parameter are shown. *)
maxAltInUsage == 1
maxAltInDocs  == 32

FirstFlags(p, most) == SubSeq(p.flags, 1, IF most < Len(p.flags) THEN most ELSE Len(p.flags))

-----------------------------------------------------------------------------
(***************************************************************************)
(* usage_lines.  The context: the position, what has been printed, and     *)
(* what is to be printed at the end of each open group.                    *)
(***************************************************************************)
Context == [pos : Position, out : Seq(Token), postfixes : Seq(Seq(Token))]

StartsOptionalSequence(p) ==
  Len(Siblings(p)) > 1 /\ At(p).blocking /\ is_first_in_group(p)

Shown(p) ==
  IF p.flags # <<>> THEN [i \in DOMAIN FirstFlags(p, maxAltInUsage) |-> FlagToken(p.flags[i])]
  ELSE IF p.label # "" THEN <<LabelToken(p.label)>> ELSE <<>>

Repeat(p) == IF p.repeatable THEN Mark("...") ELSE <<>>

BracketAll(p) ==                                      \* mutant of param_label
  IF At(p).required THEN Shown(At(p))
  ELSE Mark("[") \o Shown(At(p)) \o Mark("]")
param_label(p) ==
  IF Shown(At(p)) = <<>> THEN <<>>
  ELSE IF At(p).required \/ StartsOptionalSequence(p) THEN Shown(At(p)) \o Repeat(At(p))
  ELSE Mark("[") \o Shown(At(p)) \o Mark("]") \o Repeat(At(p))

(* The brackets around a group: its first member is optional, and blocks. *)
group_surrounders(children) ==
  IF Len(children) > 1 /\ Head(children).blocking
       /\ Head(children).type = "param" /\ ~Head(children).required
  THEN [prefix |-> Mark("["), postfix |-> Mark("]")]
  ELSE [prefix |-> <<>>, postfix |-> <<>>]

start_group(c, children, inside) ==
  LET around == group_surrounders(children)
  IN  [c EXCEPT !.out = @ \o around.prefix,
                !.postfixes = Append(@, around.postfix),
                !.pos = IF inside THEN @ ELSE dfs_next(@)]

check_end_group(c) ==
  LET level == Len(c.pos)
  IN  [c EXCEPT !.out = @ \o FlattenSeq(Reverse(SubSeq(c.postfixes, level + 1, Len(c.postfixes)))),
                !.postfixes = SubSeq(@, 1, level)]

print_usage ==
  LET print[c \in Context] ==
        IF c.pos = <<>> THEN c.out
        ELSE print[check_end_group(
               IF IsGroup(c.pos) THEN start_group(c, At(c.pos).children, FALSE)
               ELSE [c EXCEPT !.out = @ \o param_label(c.pos), !.pos = dfs_next(@)])]
  IN  print[check_end_group(
        start_group([pos |-> <<1>>, out |-> <<>>, postfixes |-> <<>>], cli.children, TRUE))]

-----------------------------------------------------------------------------
(* documentation: an entry, its flags, for each parameter that has one. *)
param_filter(p) == p.doc
EntryLabel(p) == ToSet(FirstFlags(p, maxAltInDocs))

documentation ==
  LET print_doc[p \in Position] ==
        IF p = <<>> THEN <<>>
        ELSE (IF p \in Params /\ param_filter(At(p))
              THEN <<EntryLabel(At(p))>> ELSE <<>>)
             \o print_doc[dfs_next(p)]
  IN  print_doc[<<1>>]

(* The page; an example names a value of each option by its label. *)
Example(flag, label) == <<FlagToken(flag), LabelToken(label)>>

make_man_page ==
  [SYNOPSIS |-> print_usage,
   OPTIONS  |-> documentation,
   EXAMPLES |-> {<<FlagToken(<<"-s">>)>>,
                 Example(<<"-i">>, "interface"),
                 Example(<<"-i">>, "interface") \o Example(<<"-fm">>, "MAC"),
                 Example(<<"-i">>, "interface") \o Example(<<"-fi">>, "IP")}]

-----------------------------------------------------------------------------
(***************************************************************************)
(* How the page is read: what is in brackets may be left out, a flag may   *)
(* be replaced by another one of its entry under OPTIONS, and IsText says  *)
(* what may stand for the label of a value.                                *)
(***************************************************************************)
Alike(flag, arg) ==
  arg = flag \/ \E i \in DOMAIN documentation : {flag, arg} \subseteq documentation[i]

Count(line, kind, i, j) == Cardinality({n \in i .. j : line[n].kind = kind})

(* The place of the bracket that closes the one at i. *)
Closing(line, i) ==
  LET closed == {j \in i .. Len(line) : Count(line, "[", i, j) = Count(line, "]", i, j)}
  IN  CHOOSE j \in closed : \A k \in closed : j <= k

Describes(line, args, IsText(_)) ==
  LET reads[i \in Nat, j \in Nat] ==
        IF i > Len(line) THEN j > Len(args)
        ELSE \/ line[i].kind = "[" /\ reads[Closing(line, i) + 1, j]
             \/ line[i].kind \in {"[", "]"} /\ reads[i + 1, j]
             \/ /\ j <= Len(args)
                /\ \/ line[i].kind = "flag" /\ Alike(line[i].text, args[j])
                   \/ line[i].kind = "label" /\ IsText(args[j])
                /\ reads[i + 1, j + 1]
  IN  reads[1, 1]

=============================================================================
