----------------------------- MODULE CommandLine -----------------------------
(***************************************************************************)
(* The command line interface of src/main.cpp and the walk of clipp        *)
(* (src/include/clipp.h) over it: group::depth_first_traverser and         *)
(* scoped_dfs_traverser.                                                   *)
(*                                                                         *)
(* A text is a sequence of pieces, so that a flag which begins another one *)
(* is visible ("-d" and "-dns"), and a value that follows its flag without *)
(* a space.  The interface has no alternatives (exclusive groups), no      *)
(* joinable, blocking or repeatable groups, no greedy and no repeatable    *)
(* blocking parameters: what clipp does for those is left out.             *)
(***************************************************************************)
EXTENDS Naturals, Sequences, SequencesExt, FiniteSets

-----------------------------------------------------------------------------
(***************************************************************************)
(* Parameters: the target is what a match sets, and "" where nothing is;   *)
(* doc says whether there is a documentation, label names a value.         *)
(***************************************************************************)
parameter ==
  [type |-> "param", flags |-> <<>>, label |-> "", doc |-> FALSE, target |-> "",
   required |-> FALSE, blocking |-> FALSE, repeatable |-> FALSE]

Set(p, target)    == [p EXCEPT !.target = target]
Target(p, target) == Set(p, target)
Doc(p)            == [p EXCEPT !.doc = TRUE]

option(flags) == [parameter EXCEPT !.flags = flags]

value(label, target) ==
  [Target(parameter, target) EXCEPT !.label = label, !.required = TRUE, !.blocking = TRUE]

any_other(target) == [Target(parameter, target) EXCEPT !.repeatable = TRUE]

group(a, b, scoped) ==
  [type |-> "group", children |-> <<a, b>>, scoped |-> scoped, blocking |-> FALSE]

(* operator & makes both blocking, in a group that no other is merged with. *)
And(a, b) ==
  group([a EXCEPT !.blocking = TRUE], [b EXCEPT !.blocking = TRUE], TRUE)

(* operator , takes the next one into the group it has already made. *)
IsOpen(a) == a.type = "group" /\ ~a.scoped /\ ~a.blocking
push_back(g, b) == [g EXCEPT !.children = Append(@, b)]
Comma(a, b) == IF IsOpen(a) THEN push_back(a, b) ELSE group(a, b, FALSE)

Flag(short, long, target) == Doc(Set(option(<<short, long>>), target))

(* Only the first option has no documentation. *)
cli ==
  FoldLeft(Comma,
    And(option(<<<<"-i">>, <<"--iface">>>>), value("interface", "iface")),
    <<Flag(<<"-d">>, <<"--daemonize">>, "daemonize"),
      And(Flag(<<"-l">>, <<"--logpath">>, "en_logging"), value("logpath", "logpath")),
      Flag(<<"-d", "ns">>, <<"--en-dns">>, "en_dns"),
      And(Flag(<<"-fm">>, <<"--filter-mac">>, "en_mac_filter"), value("MAC", "mac_filter")),
      And(Flag(<<"-fi">>, <<"--filter-ip">>, "en_ip_filter"), value("IP", "ip_filter")),
      Flag(<<"-p">>, <<"--payload">>, "dump_payloads"),
      Flag(<<"-v">>, <<"--version">>, "print_version"),
      Flag(<<"-h">>, <<"--help">>, "show_help"),
      Flag(<<"-s">>, <<"--show">>, "show_ifs"),
      any_other("wrong")>>)

-----------------------------------------------------------------------------
(***************************************************************************)
(* A position is the path from the root: the index in each open group.     *)
(* The empty path is past the end.                                         *)
(***************************************************************************)
From(g, p) ==
  CASE Len(p) = 0 -> g
    [] Len(p) = 1 -> g.children[p[1]]
    [] Len(p) = 2 -> g.children[p[1]].children[p[2]]

At(p) == From(cli, p)
Siblings(p) == At(Front(p)).children

IsGroup(p)  == At(p).type = "group"
IsValue(p)  == ~IsGroup(p) /\ At(p).flags = <<>>

Paths(children) ==
  {<<i>> : i \in DOMAIN children} \cup
  {p \in (DOMAIN children) \X {1, 2} : children[p[1]].type = "group"}
Positions == Paths(cli.children)
Position == {<<>>} \cup Positions
Params == {p \in Positions : ~IsGroup(p)}
Flags  == {p \in Params : ~IsValue(p)}
Values == {p \in Params : IsValue(p)}

any_required(g) == \E i \in DOMAIN g.children : g.children[i].required

is_first_in_group(p) == Last(p) = 1
is_last_in_group(p) == Last(p) = Len(Siblings(p))
is_last_in_path(p) ==
  ~IsGroup(p) /\ \A n \in 1 .. Len(p) : is_last_in_group(SubSeq(p, 1, n))

next_sibling(p) ==
  LET next[q \in Position] ==
        IF q = <<>> THEN q
        ELSE IF is_last_in_group(q) THEN next[Front(q)]
        ELSE Append(Front(q), Last(q) + 1)
  IN  next[p]

LeaveAll(p) == <<>>                            \* mutant of next_after_siblings
next_after_siblings(p) == next_sibling(Front(p))

dfs_next(p) == IF IsGroup(p) THEN Append(p, 1) ELSE next_sibling(p)

(* A memento m is the position that was left. *)
undo(p, m) ==
  IF Len(m) <= Len(p) \/ Len(m) = 1
  THEN Append(SubSeq(p, 1, Len(m) - 1), Last(m))
  ELSE p

-----------------------------------------------------------------------------
(***************************************************************************)
(* The scoped traverser: its position, the position after the last match,  *)
(* and the scopes that a match of an option with a value has opened, the   *)
(* innermost last.  ignore is ignore_blocking.                             *)
(***************************************************************************)
Traverser == [pos : Position, after : Position, scopes : Seq(Positions),
              ignore : BOOLEAN]

scoped_dfs_traverser ==
  [pos |-> <<1>>, after |-> <<>>, scopes |-> <<>>, ignore |-> FALSE]

(* Scopes are undone and popped for as long as the depths of the innermost *)
(* one and of the position are a pair of those in depths.                  *)
Depths == (0 .. 2) \X (0 .. 2)

PopScopes(t, depths) ==
  LET pop[u \in Traverser] ==
        IF u.scopes # <<>> /\ <<Len(Last(u.scopes)), Len(u.pos)>> \in depths
        THEN pop[[u EXCEPT !.pos = undo(@, Last(u.scopes)), !.scopes = Front(@)]]
        ELSE u
  IN  pop[t]

return_to_outermost_scope(t) ==
  [PopScopes(t, Depths) EXCEPT
     !.pos = IF t.scopes = <<>> THEN <<>> ELSE @,
     !.after = <<>>]

return_to_level(t, level) == PopScopes(t, {d \in Depths : d[2] > level})

check_left_scope(t) ==
  PopScopes(IF t.after # <<>> /\ Len(t.pos) < Len(t.after)
            THEN [PopScopes(t, {d \in Depths : d[1] >= d[2]}) EXCEPT !.after = <<>>]
            ELSE t,
            {d \in Depths : d[1] > d[2]})

(***************************************************************************)
(* operator ++: a blocking parameter without a match hides its siblings.   *)
(***************************************************************************)
Hides(t) == ~t.ignore /\ t.pos \in Params /\ At(t.pos).blocking

ReturnAtEnd(t) ==
  IF t.pos = <<>> THEN return_to_outermost_scope(t) ELSE t

advance(t) ==
  IF is_last_in_path(t.pos) THEN return_to_outermost_scope(t)
  ELSE check_left_scope(ReturnAtEnd(
         [t EXCEPT !.pos = IF Hides(t) THEN next_after_siblings(@) ELSE dfs_next(@)]))

is_last_in_current_scope(t, p) ==
  IF t.scopes = <<>> THEN is_last_in_path(p)
                     ELSE Len(dfs_next(p)) < Len(Last(t.scopes))

(***************************************************************************)
(* The traverser after a match at position m.  A value that was waited for *)
(* is passed by when something else has matched; after a flag with a value *)
(* the walk goes on at the value, and comes back after it.                 *)
(***************************************************************************)
Passing(t, m) ==
  IF m # t.pos /\ At(t.pos).blocking THEN [t EXCEPT !.pos = next_sibling(@)] ELSE t

After(t) == [t EXCEPT !.after = t.pos]

GoOnAt(t, q) ==
  IF Len(q) > Len(t.pos) THEN [t EXCEPT !.scopes = Append(@, t.pos), !.pos = q]
  ELSE IF Len(q) < Len(t.pos) THEN return_to_level(t, Len(q))
  ELSE [t EXCEPT !.pos = q]

Matched(t, m) ==
  IF ~At(m).blocking THEN return_to_level(t, Len(m))
  ELSE IF is_last_in_current_scope(t, m)
  THEN [t EXCEPT !.pos = IF t.scopes = <<>> THEN m ELSE undo(m, Last(t.scopes))]
  ELSE GoOnAt(t, dfs_next(m))

next_after_match(t, m) ==
  IF t.ignore THEN t ELSE After(Matched(Passing(t, m), m))

=============================================================================
