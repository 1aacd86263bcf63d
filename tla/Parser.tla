-------------------------------- MODULE Parser --------------------------------
(***************************************************************************)
(* The parser of clipp (src/include/clipp.h): how an argument finds its    *)
(* parameters, what is missing at the end, and what the result sets.       *)
(***************************************************************************)
EXTENDS CommandLine, FiniteSetsExt

CONSTANTS
  Digits,      \* the pieces of decimal digits
  Signs        \* the pieces that are a sign

-----------------------------------------------------------------------------
(***************************************************************************)
(* parameter::match: how long a part of the text, from its start, is       *)
(* matched.  Of the flags that begin the text the longest one counts.      *)
(***************************************************************************)
LongestOf(flags) ==
  IF flags = {} THEN 0
  ELSE LET f == CHOOSE f \in flags : \A g \in flags : Len(f) >= Len(g) IN Len(f)

longest_prefix_match(arg, flags) == LongestOf({f \in ToSet(flags) : IsPrefix(f, arg)})

match(p, arg) ==
  IF IsValue(p) THEN Len(arg) ELSE longest_prefix_match(arg, At(p).flags)

(***************************************************************************)
(* The first position from t on, of those selected, whose parameter        *)
(* matches the whole text, or a part of it: at most one match.             *)
(***************************************************************************)
FirstMatch(t, arg, fitting) ==
  LET find[u \in Traverser] ==
        IF u.pos = <<>> THEN <<>>
        ELSE IF u.pos \in fitting THEN <<[str |-> SubSeq(arg, 1, match(u.pos, arg)), at |-> u]>>
        ELSE find[advance(u)]
  IN  find[t]

full_match(t, arg, selected) ==
  FirstMatch(t, arg, {p \in selected : match(p, arg) = Len(arg)})

prefix_match(t, arg, selected) ==
  FirstMatch(t, arg, {p \in selected : match(p, arg) > 0})

(***************************************************************************)
(* A flag may be followed by its value without a space: the rest of the    *)
(* text must be matched by the siblings, one after the other.              *)
(***************************************************************************)
Covers(u, text, parent) ==
  u.pos # <<>> /\ Front(u.pos) = parent /\ At(u.pos).blocking /\ match(u.pos, text) > 0

Rest(first, arg) ==
  LET parent == Front(first.at.pos)
      rest[r \in Traverser \X Seq(STRING)] ==                 \* where, what is left
        IF r[2] = <<>> THEN <<>>
        ELSE IF ~Covers(r[1], r[2], parent) THEN <<[str |-> <<>>, at |-> r[1]]>>
        ELSE LET n == match(r[1].pos, r[2])
             IN  <<[str |-> SubSeq(r[2], 1, n), at |-> r[1]]>>
                 \o rest[<<advance(r[1]), SubSeq(r[2], n + 1, Len(r[2]))>>]
  IN  rest[<<advance([first.at EXCEPT !.ignore = TRUE]),
             SubSeq(arg, Len(first.str) + 1, Len(arg))>>]

IsCovered(matches) == \A i \in DOMAIN matches : matches[i].str # <<>>

WithRest(found, rest) == IF IsCovered(rest) THEN found \o rest ELSE <<>>

Completed(found, arg) ==
  IF found = <<>> \/ Head(found).str = arg THEN found
  ELSE IF At(Head(found).at.pos).blocking THEN WithRest(found, Rest(Head(found), arg))
  ELSE <<>>

try_match_joined_sequence(t, arg, selected) ==
  Completed(prefix_match(t, arg, selected), arg)

(* try_match: flags come before values, whole before joined ones. *)
OrElse(a, b) == IF a # <<>> THEN a ELSE b
ValuesFirst(t, arg) ==                          \* mutant of try_match
  OrElse(full_match(t, arg, Values), full_match(t, arg, Flags))
try_match(t, arg) ==
  OrElse(full_match(t, arg, Flags),
  OrElse(try_match_joined_sequence(t, arg, Flags),
  OrElse(full_match(t, arg, Values),
         try_match_joined_sequence(t, arg, Params))))

-----------------------------------------------------------------------------
(* Required parameters that are reachable from p at its level, or deeper. *)
Blocking(p) == At(p).blocking                     \* mutant of CanBeMissed
CanBeMissed(p) == At(p).required

PotentialMisses(p) ==
  LET walk[q \in Position] ==
        IF Len(q) < Len(p) \/ q = <<>> THEN {}
        ELSE IF IsGroup(q)
        THEN walk[IF any_required(At(q)) THEN dfs_next(q) ELSE next_sibling(q)]
        ELSE IF CanBeMissed(q) THEN {q} \cup walk[dfs_next(q)]
        ELSE walk[IF At(q).blocking THEN next_after_siblings(q) ELSE dfs_next(q)]
  IN  walk[p]

parser(index) ==
  [pos |-> scoped_dfs_traverser, index |-> index, args |-> <<>>,
   miss |-> PotentialMisses(<<1>>), blocked |-> FALSE]

occurrences_of(args, p) ==
  LET seen == {i \in DOMAIN args : args[i].param = p}
  IN  IF seen = {} THEN 0 ELSE args[Max(seen)].repeat + 1

add_miss_candidates_after(miss, p) ==
  IF At(p).blocking /\ ~At(p).required /\ Len(dfs_next(p)) >= Len(p)
  THEN miss \cup PotentialMisses(dfs_next(p))
  ELSE miss

KeepMisses(miss, p) == add_miss_candidates_after(miss, p)   \* mutant of Misses
Misses(miss, p) == add_miss_candidates_after(miss, p) \ {p}

add_match(ps, m) ==
  LET p == m.at.pos
  IN  [ps EXCEPT
         !.pos  = next_after_match(@, p),
         !.args = Append(@, [index |-> ps.index, arg |-> m.str, param |-> p,
                             repeat |-> occurrences_of(@, p), blocked |-> FALSE]),
         !.miss = Misses(@, p)]

AddMatches(ps, matches) == FoldLeft(add_match, ps, matches)

(***************************************************************************)
(* An argument that matches nothing in reach is tried with all in reach,   *)
(* from here and from the beginning: the match counts as blocked.          *)
(***************************************************************************)
NewMatches(old, ps) ==
  [i \in 1 .. Len(ps.args) - Len(old.args) |->
     [ps.args[Len(old.args) + i] EXCEPT !.blocked = TRUE]]

Ignoring(temp) == [temp EXCEPT !.pos.ignore = TRUE]

BlockedMatch(temp, arg) ==
  NewMatches(temp, AddMatches(Ignoring(temp), try_match(Ignoring(temp).pos, arg)))

BlockedMatches(ps, arg) ==
  OrElse(BlockedMatch(ps, arg), BlockedMatch(parser(ps.index), arg))

add_nomatch(ps, arg) ==
  [ps EXCEPT !.args = Append(@, [index |-> ps.index, arg |-> arg, param |-> <<>>,
                                 repeat |-> 0, blocked |-> FALSE])]

Blocks(ps) ==
  LET p == ps.pos.pos IN p \in Params /\ At(p).required /\ At(p).blocking

valid(ps) == ps.pos.pos # <<>>

(* operator(): one argument, given what it matches, in reach and elsewhere. *)
ParseMatched(ps, arg, matches, others) ==
  CASE matches # <<>> -> AddMatches(ps, matches)
    [] matches = <<>> /\ others # <<>> -> [ps EXCEPT !.args = @ \o others]
    [] OTHER -> add_nomatch([ps EXCEPT !.blocked = @ \/ Blocks(ps)], arg)

ParseCounted(ps, arg) ==
  IF ~valid(ps) \/ arg = <<>> THEN ps
  ELSE ParseMatched(ps, arg, IF ps.blocked THEN <<>> ELSE try_match(ps.pos, arg),
                    BlockedMatches(ps, arg))

ParseArgument(ps, arg) == ParseCounted([ps EXCEPT !.index = @ + 1], arg)

-----------------------------------------------------------------------------
(***************************************************************************)
(* sanitize_args: an argument that begins with a point and a digit takes   *)
(* the digits at the end of the argument before it, with their sign.       *)
(***************************************************************************)
TakesDigits(arg) == Len(arg) > 1 /\ arg[1] = "." /\ arg[2] \in Digits

DigitsFrom(arg) ==
  LET first == CHOOSE k \in 1 .. Len(arg) + 1 :
                 /\ \A j \in k .. Len(arg) : arg[j] \in Digits
                 /\ k > 1 => arg[k - 1] \notin Digits
  IN  IF first > 1 /\ arg[first - 1] \in Signs THEN first - 1 ELSE first

CopyDigits(args, i) ==                                  \* mutant of MoveDigits
  [args EXCEPT ![i] =
     SubSeq(args[i - 1], DigitsFrom(args[i - 1]), Len(args[i - 1])) \o @]
MoveDigits(args, i) ==
  LET prev == args[i - 1]
      k    == DigitsFrom(prev)
  IN  [args EXCEPT ![i - 1] = SubSeq(prev, 1, k - 1),
                   ![i] = SubSeq(prev, k, Len(prev)) \o @]

TakeDigits(args, i) == IF TakesDigits(args[i]) THEN MoveDigits(args, i) ELSE args

sanitize_args(args) ==
  FoldLeft(TakeDigits, args, [i \in 1 .. Len(args) - 1 |-> i + 1])

-----------------------------------------------------------------------------
(* The result of the parser: errors, and the actions of good matches. *)
bad_repeat(a) == a.param # <<>> /\ a.repeat > 0 /\ ~At(a.param).repeatable

ArgumentError(a) == a.param = <<>> \/ a.blocked \/ bad_repeat(a)

any_error(ps) ==
  ps.miss # {} \/ \E i \in DOMAIN ps.args : ArgumentError(ps.args[i])

(* set and target: a flag sets a truth value, a value a text or a list. *)
Texts == {"iface", "logpath", "mac_filter", "ip_filter"}

SetTarget(vars, target, arg) ==
  CASE target = ""       -> vars
    [] target = "wrong"  -> [vars EXCEPT !.wrong = Append(@, arg)]
    [] target \in Texts  -> [vars EXCEPT ![target] = arg]
    [] OTHER             -> [vars EXCEPT ![target] = TRUE]

ExecuteAction(vars, a) ==
  IF ArgumentError(a) THEN vars ELSE SetTarget(vars, At(a.param).target, a.arg)

execute_actions(ps, vars) == FoldLeft(ExecuteAction, vars, ps.args)

=============================================================================
