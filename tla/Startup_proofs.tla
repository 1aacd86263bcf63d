---------------------------- MODULE Startup_proofs ----------------------------
(***************************************************************************)
(* Theorems about Startup, with the command line and its parser.           *)
(***************************************************************************)
EXTENDS Startup, SequenceTheorems, TLAPS

-----------------------------------------------------------------------------
(* The interface of the program, as the operators , and & have built it. *)
Entries ==
  <<And(option(<<<<"-i">>, <<"--iface">>>>), value("interface", "iface")),
    Flag(<<"-d">>, <<"--daemonize">>, "daemonize"),
    And(Flag(<<"-l">>, <<"--logpath">>, "en_logging"), value("logpath", "logpath")),
    Flag(<<"-d", "ns">>, <<"--en-dns">>, "en_dns"),
    And(Flag(<<"-fm">>, <<"--filter-mac">>, "en_mac_filter"), value("MAC", "mac_filter")),
    And(Flag(<<"-fi">>, <<"--filter-ip">>, "en_ip_filter"), value("IP", "ip_filter")),
    Flag(<<"-p">>, <<"--payload">>, "dump_payloads"),
    Flag(<<"-v">>, <<"--version">>, "print_version"),
    Flag(<<"-h">>, <<"--help">>, "show_help"),
    Flag(<<"-s">>, <<"--show">>, "show_ifs"),
    any_other("wrong")>>

CommaSteps == INSTANCE Recursion WITH Op <- Comma

LEMMA CommaFold ==
  ASSUME NEW base, NEW seq
  PROVE  FoldLeft(Comma, base, seq) = CommaSteps!Fold(base, seq)
BY Zenon DEF FoldLeft, CommaSteps!Fold, CommaSteps!FoldLeft, MapThenFoldSet,
   CommaSteps!MapThenFoldSet, Max, CommaSteps!Max

LEMMA EntriesAre ==
  /\ Entries \in Seq({Entries[i] : i \in 1 .. 11}) /\ Len(Entries) = 11
  /\ Entries[1].type = "group" /\ Entries[1].scoped
<1>1. Len(Entries) = 11 /\ DOMAIN Entries = 1 .. 11
  BY DEF Entries
<1>2. Entries = [i \in 1 .. 11 |-> Entries[i]]
  BY DEF Entries
<1>3. Entries \in Seq({Entries[i] : i \in 1 .. 11})
  BY <1>1, <1>2
<1>4. Entries[1].type = "group" /\ Entries[1].scoped
  BY DEF Entries, And, group
<1> QED BY <1>1, <1>3, <1>4

(* The group that the operator , makes, and adds to. *)
IsRoot(g, c) ==
  /\ DOMAIN g = {"type", "children", "scoped", "blocking"}
  /\ g.type = "group" /\ g.children = c /\ ~g.scoped /\ ~g.blocking

LEMMA FirstComma ==
  ASSUME NEW a, NEW b, a.scoped
  PROVE  IsRoot(Comma(a, b), <<a, b>>)
BY DEF IsRoot, Comma, IsOpen, group

LEMMA NextComma ==
  ASSUME NEW S, NEW c \in Seq(S), NEW b \in S, NEW g, IsRoot(g, c)
  PROVE  IsRoot(Comma(g, b), Append(c, b))
<1>1. Comma(g, b) = push_back(g, b)
  BY DEF IsRoot, Comma, IsOpen
<1> QED BY <1>1 DEF IsRoot, push_back

LEMMA CliIs == IsRoot(cli, Entries)
<1>e. PICK S \in {{Entries[i] : i \in 1 .. 11}}, e \in {Entries} :
        /\ S = {Entries[i] : i \in 1 .. 11} /\ e = Entries
        /\ e \in Seq(S) /\ Len(e) = 11 /\ e[1].type = "group" /\ e[1].scoped
  BY EntriesAre
<1> DEFINE Fold(n) == CommaSteps!Fold(e[1], SubSeq(e, 2, n))
<1>1. Fold(1) = e[1]
  <2>1. SubSeq(e, 2, 1) = <<>>
    BY <1>e
  <2> QED BY <2>1, CommaSteps!Empty
<1>2. ASSUME NEW n \in 1 .. 10
      PROVE  Fold(n + 1) = Comma(Fold(n), e[n + 1])
  <2>1. SubSeq(e, 2, n + 1) = Append(SubSeq(e, 2, n), e[n + 1])
    BY <1>e
  <2>2. SubSeq(e, 2, n) \in Seq(S) /\ e[n + 1] \in S
    BY <1>e
  <2> QED BY <2>1, <2>2, CommaSteps!Unroll
<1> HIDE DEF Fold
<1>3. IsRoot(Fold(2), SubSeq(e, 1, 2))
  <2>1. Fold(2) = Comma(e[1], e[2])
    BY <1>1, <1>2, 1 + 1 = 2, 1 \in 1 .. 10
  <2>2. SubSeq(e, 1, 2) = <<e[1], e[2]>>
    <3>1. SubSeq(e, 1, 2) \in Seq(S) /\ Len(SubSeq(e, 1, 2)) = 2
          /\ \A i \in 1 .. 2 : SubSeq(e, 1, 2)[i] = e[i]
      BY <1>e
    <3>2. <<e[1], e[2]>> \in Seq(S) /\ Len(<<e[1], e[2]>>) = 2
      BY <1>e
    <3>3. \A i \in 1 .. 2 : <<e[1], e[2]>>[i] = e[i]
      OBVIOUS
    <3> QED BY <3>1, <3>2, <3>3, SeqEqual
  <2> QED BY <2>1, <2>2, <1>e, FirstComma
<1>4. ASSUME NEW n \in 2 .. 10, IsRoot(Fold(n), SubSeq(e, 1, n))
      PROVE  IsRoot(Fold(n + 1), SubSeq(e, 1, n + 1))
  <2>1. Fold(n + 1) = Comma(Fold(n), e[n + 1])
    BY <1>2
  <2>2. SubSeq(e, 1, n + 1) = Append(SubSeq(e, 1, n), e[n + 1])
    BY <1>e
  <2>3. SubSeq(e, 1, n) \in Seq(S) /\ e[n + 1] \in S
    BY <1>e
  <2> QED BY <2>1, <2>2, <2>3, <1>4, NextComma
<1>5. IsRoot(Fold(11), SubSeq(e, 1, 11))
  <2> HIDE <1>e
  <2>1. \A n \in 2 .. 10 : IsRoot(Fold(n), SubSeq(e, 1, n)) => IsRoot(Fold(n + 1), SubSeq(e, 1, n + 1))
    BY <1>4
  <2> DEFINE R(n) == IsRoot(Fold(n), SubSeq(e, 1, n))
  <2> HIDE DEF R
  <2>2. \A n \in 2 .. 10 : R(n) => R(n + 1)
    BY <2>1 DEF R
  <2>3. R(2)
    BY <1>3 DEF R
  <2>4. R(11)
    BY <2>2, <2>3
  <2> QED BY <2>4 DEF R
<1>6. cli = Fold(11)
  <2>1. cli = FoldLeft(Comma, Entries[1], Tail(Entries))
    BY DEF cli, Entries
  <2>2. Tail(e) = SubSeq(e, 2, 11)
    <3>1. e # <<>>
      <4>1. Len(e) = 11 /\ Len(<<>>) = 0
        BY <1>e
      <4> QED BY <4>1
    <3> QED BY <1>e, <3>1, TailIsSubSeq
  <2>3. cli = CommaSteps!Fold(e[1], SubSeq(e, 2, 11))
    BY <1>e, <2>1, <2>2, CommaFold, Zenon
  <2> QED BY <2>3 DEF Fold
<1>7. SubSeq(e, 1, 11) = e
  BY <1>e
<1> QED BY <1>5, <1>6, <1>7, <1>e

-----------------------------------------------------------------------------
(***************************************************************************)
(* The entries by their number: the ones with a value are groups of two,   *)
(* the others are flags, and the last one takes what is no flag.           *)
(***************************************************************************)
Pairs == {1, 3, 5, 6}

(* The number of the option that a flag of one piece belongs to. *)
Owner(piece) ==
  CASE piece \in {"-i", "--iface"}       -> 1
    [] piece \in {"-d", "--daemonize"}   -> 2
    [] piece \in {"-l", "--logpath"}     -> 3
    [] piece \in {"--en-dns"}            -> 4
    [] piece \in {"-fm", "--filter-mac"} -> 5
    [] piece \in {"-fi", "--filter-ip"}  -> 6
    [] piece \in {"-p", "--payload"}     -> 7
    [] piece \in {"-v", "--version"}     -> 8
    [] piece \in {"-h", "--help"}        -> 9
    [] piece \in {"-s", "--show"}        -> 10
    [] OTHER -> 0

FlagTarget(i) ==
  CASE i = 1 -> "" [] i = 2 -> "daemonize" [] i = 3 -> "en_logging" [] i = 4 -> "en_dns"
    [] i = 5 -> "en_mac_filter" [] i = 6 -> "en_ip_filter" [] i = 7 -> "dump_payloads"
    [] i = 8 -> "print_version" [] i = 9 -> "show_help" [] i = 10 -> "show_ifs"

ValueTarget(i) ==
  CASE i = 1 -> "iface" [] i = 3 -> "logpath" [] i = 5 -> "mac_filter" [] i = 6 -> "ip_filter"

IsFlagOf(f, i) ==
  \/ f = <<f[1]>> /\ Owner(f[1]) = i
  \/ i = 4 /\ f = <<"-d", "ns">>

IsFlagEntry(e, i) ==
  /\ e.type = "param" /\ ~e.required /\ ~e.repeatable
  /\ \E f, g : e.flags = <<f, g>> /\ IsFlagOf(f, i) /\ IsFlagOf(g, i)
  /\ e.target = FlagTarget(i)

IsPairEntry(e, i) ==
  /\ e.type = "group" /\ ~e.blocking /\ e.children = <<e.children[1], e.children[2]>>
  /\ IsFlagEntry(e.children[1], i) /\ e.children[1].blocking
  /\ e.children[2].type = "param" /\ e.children[2].required /\ ~e.children[2].repeatable
  /\ e.children[2].flags = <<>> /\ e.children[2].blocking /\ e.children[2].target = ValueTarget(i)

IsLastEntry(e) ==
  /\ e.type = "param" /\ ~e.required /\ e.repeatable /\ ~e.blocking
  /\ e.flags = <<>> /\ e.target = "wrong"

LEMMA FlagEntry ==
  ASSUME NEW short, NEW long, NEW target, NEW i, IsFlagOf(short, i), IsFlagOf(long, i),
         target = FlagTarget(i)
  PROVE  IsFlagEntry(Flag(short, long, target), i) /\ ~Flag(short, long, target).blocking
BY DEF IsFlagEntry, Flag, Doc, Set, option, parameter

LEMMA PairEntry ==
  ASSUME NEW a, NEW i, IsFlagEntry(a, i), NEW label, DOMAIN a = DOMAIN parameter
  PROVE  IsPairEntry(And(a, value(label, ValueTarget(i))), i)
<1> DEFINE f == [a EXCEPT !.blocking = TRUE]
           v == [value(label, ValueTarget(i)) EXCEPT !.blocking = TRUE]
           e == And(a, value(label, ValueTarget(i)))
<1>1. IsFlagEntry(f, i) /\ f.blocking
  BY DEF IsFlagEntry, parameter
<1>2. /\ v.type = "param" /\ v.required /\ ~v.repeatable
      /\ v.flags = <<>> /\ v.blocking /\ v.target = ValueTarget(i)
  BY DEF value, Target, Set, parameter
<1>3. e.type = "group" /\ ~e.blocking /\ e.children = <<f, v>>
  BY DEF And, group
<1> HIDE DEF e, f, v
<1> QED BY <1>1, <1>2, <1>3 DEF IsPairEntry, e

LEMMA OptionEntry ==
  ASSUME NEW short, NEW long, NEW i, IsFlagOf(short, i), IsFlagOf(long, i), FlagTarget(i) = ""
  PROVE  IsFlagEntry(option(<<short, long>>), i) /\ DOMAIN option(<<short, long>>) = DOMAIN parameter
BY DEF IsFlagEntry, option, parameter

LEMMA FlagDomain ==
  ASSUME NEW short, NEW long, NEW target
  PROVE  DOMAIN Flag(short, long, target) = DOMAIN parameter
BY DEF Flag, Doc, Set, option, parameter

LEMMA OnePiece ==
  ASSUME NEW piece, NEW i, Owner(piece) = i
  PROVE  IsFlagOf(<<piece>>, i)
BY DEF IsFlagOf

LEMMA EntryTable ==
  /\ \A i \in Pairs : IsPairEntry(Entries[i], i)
  /\ \A i \in (1 .. 10) \ Pairs : IsFlagEntry(Entries[i], i) /\ ~Entries[i].blocking
  /\ IsLastEntry(Entries[11])
<1>2. IsFlagEntry(Entries[2], 2) /\ ~Entries[2].blocking
  <2>o. Owner("-d") = 2 /\ Owner("--daemonize") = 2
    BY DEF Owner
  <2>1. IsFlagOf(<<"-d">>, 2) /\ IsFlagOf(<<"--daemonize">>, 2)
    BY <2>o, OnePiece, Zenon
  <2>t. FlagTarget(2) = "daemonize"
    BY DEF FlagTarget
  <2>2. Entries[2] = Flag(<<"-d">>, <<"--daemonize">>, "daemonize")
    BY DEF Entries
  <2> QED BY <2>1, <2>t, <2>2, FlagEntry
<1>4. IsFlagEntry(Entries[4], 4) /\ ~Entries[4].blocking
  <2>o. Owner("--en-dns") = 4
    BY DEF Owner
  <2>1. IsFlagOf(<<"-d", "ns">>, 4) /\ IsFlagOf(<<"--en-dns">>, 4)
    BY <2>o, OnePiece, Zenon DEF IsFlagOf
  <2>t. FlagTarget(4) = "en_dns"
    BY DEF FlagTarget
  <2>2. Entries[4] = Flag(<<"-d", "ns">>, <<"--en-dns">>, "en_dns")
    BY DEF Entries
  <2> QED BY <2>1, <2>t, <2>2, FlagEntry
<1>7. IsFlagEntry(Entries[7], 7) /\ ~Entries[7].blocking
  <2>o. Owner("-p") = 7 /\ Owner("--payload") = 7
    BY DEF Owner
  <2>1. IsFlagOf(<<"-p">>, 7) /\ IsFlagOf(<<"--payload">>, 7)
    BY <2>o, OnePiece, Zenon
  <2>t. FlagTarget(7) = "dump_payloads"
    BY DEF FlagTarget
  <2>2. Entries[7] = Flag(<<"-p">>, <<"--payload">>, "dump_payloads")
    BY DEF Entries
  <2> QED BY <2>1, <2>t, <2>2, FlagEntry
<1>8. IsFlagEntry(Entries[8], 8) /\ ~Entries[8].blocking
  <2>o. Owner("-v") = 8 /\ Owner("--version") = 8
    BY DEF Owner
  <2>1. IsFlagOf(<<"-v">>, 8) /\ IsFlagOf(<<"--version">>, 8)
    BY <2>o, OnePiece, Zenon
  <2>t. FlagTarget(8) = "print_version"
    BY DEF FlagTarget
  <2>2. Entries[8] = Flag(<<"-v">>, <<"--version">>, "print_version")
    BY DEF Entries
  <2> QED BY <2>1, <2>t, <2>2, FlagEntry
<1>9. IsFlagEntry(Entries[9], 9) /\ ~Entries[9].blocking
  <2>o. Owner("-h") = 9 /\ Owner("--help") = 9
    BY DEF Owner
  <2>1. IsFlagOf(<<"-h">>, 9) /\ IsFlagOf(<<"--help">>, 9)
    BY <2>o, OnePiece, Zenon
  <2>t. FlagTarget(9) = "show_help"
    BY DEF FlagTarget
  <2>2. Entries[9] = Flag(<<"-h">>, <<"--help">>, "show_help")
    BY DEF Entries
  <2> QED BY <2>1, <2>t, <2>2, FlagEntry
<1>10. IsFlagEntry(Entries[10], 10) /\ ~Entries[10].blocking
  <2>o. Owner("-s") = 10 /\ Owner("--show") = 10
    BY DEF Owner
  <2>1. IsFlagOf(<<"-s">>, 10) /\ IsFlagOf(<<"--show">>, 10)
    BY <2>o, OnePiece, Zenon
  <2>t. FlagTarget(10) = "show_ifs"
    BY DEF FlagTarget
  <2>2. Entries[10] = Flag(<<"-s">>, <<"--show">>, "show_ifs")
    BY DEF Entries
  <2> QED BY <2>1, <2>t, <2>2, FlagEntry
<1>1. IsPairEntry(Entries[1], 1)
  <2>o. Owner("-i") = 1 /\ Owner("--iface") = 1
    BY DEF Owner
  <2>1. IsFlagOf(<<"-i">>, 1) /\ IsFlagOf(<<"--iface">>, 1)
    BY <2>o, OnePiece, Zenon
  <2>t. FlagTarget(1) = "" /\ ValueTarget(1) = "iface"
    BY DEF FlagTarget, ValueTarget
  <2>2. Entries[1] = And(option(<<<<"-i">>, <<"--iface">>>>), value("interface", "iface"))
    BY DEF Entries
  <2> QED BY <2>1, <2>t, <2>2, OptionEntry, PairEntry
<1>3. IsPairEntry(Entries[3], 3)
  <2>o. Owner("-l") = 3 /\ Owner("--logpath") = 3
    BY DEF Owner
  <2>1. IsFlagOf(<<"-l">>, 3) /\ IsFlagOf(<<"--logpath">>, 3)
    BY <2>o, OnePiece, Zenon
  <2>t. FlagTarget(3) = "en_logging" /\ ValueTarget(3) = "logpath"
    BY DEF FlagTarget, ValueTarget
  <2>2. Entries[3] = And(Flag(<<"-l">>, <<"--logpath">>, "en_logging"), value("logpath", "logpath"))
    BY DEF Entries
  <2> QED BY <2>1, <2>t, <2>2, FlagEntry, FlagDomain, PairEntry
<1>5. IsPairEntry(Entries[5], 5)
  <2>o. Owner("-fm") = 5 /\ Owner("--filter-mac") = 5
    BY DEF Owner
  <2>1. IsFlagOf(<<"-fm">>, 5) /\ IsFlagOf(<<"--filter-mac">>, 5)
    BY <2>o, OnePiece, Zenon
  <2>t. FlagTarget(5) = "en_mac_filter" /\ ValueTarget(5) = "mac_filter"
    BY DEF FlagTarget, ValueTarget
  <2>2. Entries[5] = And(Flag(<<"-fm">>, <<"--filter-mac">>, "en_mac_filter"), value("MAC", "mac_filter"))
    BY DEF Entries
  <2> QED BY <2>1, <2>t, <2>2, FlagEntry, FlagDomain, PairEntry
<1>6. IsPairEntry(Entries[6], 6)
  <2>o. Owner("-fi") = 6 /\ Owner("--filter-ip") = 6
    BY DEF Owner
  <2>1. IsFlagOf(<<"-fi">>, 6) /\ IsFlagOf(<<"--filter-ip">>, 6)
    BY <2>o, OnePiece, Zenon
  <2>t. FlagTarget(6) = "en_ip_filter" /\ ValueTarget(6) = "ip_filter"
    BY DEF FlagTarget, ValueTarget
  <2>2. Entries[6] = And(Flag(<<"-fi">>, <<"--filter-ip">>, "en_ip_filter"), value("IP", "ip_filter"))
    BY DEF Entries
  <2> QED BY <2>1, <2>t, <2>2, FlagEntry, FlagDomain, PairEntry
<1>11. IsLastEntry(Entries[11])
  <2>1. Entries[11] = any_other("wrong")
    BY DEF Entries
  <2> QED BY <2>1 DEF IsLastEntry, any_other, Target, Set, parameter
<1>12. \A i \in (1 .. 10) \ Pairs : i \in {2, 4, 7, 8, 9, 10}
  BY DEF Pairs
<1>13. \A i \in {2, 4, 7, 8, 9, 10} : IsFlagEntry(Entries[i], i) /\ ~Entries[i].blocking
  BY <1>2, <1>4, <1>7, <1>8, <1>9, <1>10, Zenon
<1>14. \A i \in {1, 3, 5, 6} : IsPairEntry(Entries[i], i)
  BY <1>1, <1>3, <1>5, <1>6, Zenon
<1> QED BY <1>11, <1>12, <1>13, <1>14, Zenon DEF Pairs

-----------------------------------------------------------------------------
(* The positions in the tree, and what is there. *)
Place(i)      == IF i \in Pairs THEN <<i, 1>> ELSE <<i>>      \* of a flag
ValuePlace(i) == <<i, 2>>                                     \* of its value
Other         == <<11>>                                       \* of the rest

LEMMA AtIs ==
  /\ \A i \in 1 .. 11 : At(<<i>>) = Entries[i]
  /\ \A i \in 1 .. 11 : \A k \in {1, 2} : At(<<i, k>>) = Entries[i].children[k]
<1>1. \A i \in 1 .. 11 : At(<<i>>) = Entries[i]
  BY CliIs DEF At, From, IsRoot
<1>2. \A i \in 1 .. 11 : \A k \in {1, 2} : At(<<i, k>>) = Entries[i].children[k]
  BY CliIs DEF At, From, IsRoot
<1> QED BY <1>1, <1>2

(* The parameters of each kind. *)
IsFlagAt(p, i) == IsFlagEntry(At(p), i) /\ ~IsGroup(p) /\ ~IsValue(p) /\ ~At(p).required

IsValueAt(p, i) ==
  /\ ~IsGroup(p) /\ IsValue(p) /\ At(p).required /\ ~At(p).repeatable
  /\ At(p).blocking /\ At(p).flags = <<>> /\ At(p).target = ValueTarget(i)

LEMMA PairAt ==
  ASSUME NEW i \in Pairs
  PROVE  /\ IsGroup(<<i>>) /\ ~At(<<i>>).blocking /\ any_required(At(<<i>>))
         /\ IsFlagAt(<<i, 1>>, i) /\ At(<<i, 1>>).blocking
         /\ IsValueAt(<<i, 2>>, i)
<1>1. i \in 1 .. 11
  BY DEF Pairs
<1>e. PICK e, f, v : e = Entries[i] /\ f = e.children[1] /\ v = e.children[2]
  OBVIOUS
<1>2. IsPairEntry(e, i)
  BY EntryTable, <1>e
<1>3. At(<<i>>) = e /\ At(<<i, 1>>) = f /\ At(<<i, 2>>) = v
  BY AtIs, <1>1, <1>e
<1>4. e.type = "group" /\ ~e.blocking /\ e.children = <<f, v>>
  BY <1>2, <1>e, Zenon DEF IsPairEntry
<1>5. IsFlagEntry(f, i) /\ f.blocking
  BY <1>2, <1>e, Zenon DEF IsPairEntry
<1>6. /\ v.type = "param" /\ v.required /\ ~v.repeatable
      /\ v.flags = <<>> /\ v.blocking /\ v.target = ValueTarget(i)
  BY <1>2, <1>e, Zenon DEF IsPairEntry
<1>7. f.type = "param" /\ f.flags # <<>> /\ ~f.required
  BY <1>5 DEF IsFlagEntry
<1>8. any_required(e)
  BY <1>4, <1>6 DEF any_required
<1>9. IsFlagAt(<<i, 1>>, i)
  BY <1>3, <1>5, <1>7 DEF IsFlagAt, IsGroup, IsValue
<1>10. IsValueAt(<<i, 2>>, i)
  BY <1>3, <1>6 DEF IsValueAt, IsGroup, IsValue
<1> QED BY <1>3, <1>4, <1>5, <1>8, <1>9, <1>10 DEF IsGroup

LEMMA FlagAt ==
  ASSUME NEW i \in (1 .. 10) \ Pairs
  PROVE  IsFlagAt(<<i>>, i) /\ ~At(<<i>>).blocking
<1>e. PICK f : f = Entries[i]
  OBVIOUS
<1>1. IsFlagEntry(f, i) /\ ~f.blocking
  BY EntryTable, <1>e
<1>2. At(<<i>>) = f
  BY AtIs, <1>e, SMTT(40)
<1>3. f.type = "param" /\ f.flags # <<>> /\ ~f.required
  BY <1>1 DEF IsFlagEntry
<1> QED BY <1>1, <1>2, <1>3 DEF IsFlagAt, IsGroup, IsValue

LEMMA OtherAt ==
  /\ ~IsGroup(Other) /\ IsValue(Other) /\ ~At(Other).required /\ At(Other).repeatable
  /\ ~At(Other).blocking /\ At(Other).flags = <<>> /\ At(Other).target = "wrong"
<1>e. PICK f : f = Entries[11]
  OBVIOUS
<1>1. IsLastEntry(f)
  BY EntryTable, <1>e
<1>2. At(Other) = f
  BY AtIs, <1>e DEF Other
<1> QED BY <1>1, <1>2 DEF IsLastEntry, IsGroup, IsValue

LEMMA PositionsAre ==
  /\ Positions = {<<i>> : i \in 1 .. 11} \cup {<<i, k>> : i \in Pairs, k \in {1, 2}}
  /\ \A i \in 1 .. 11 : IsGroup(<<i>>) <=> i \in Pairs
<1>1. DOMAIN cli.children = 1 .. 11
  BY CliIs, EntriesAre DEF IsRoot
<1>2. \A i \in 1 .. 11 : IsGroup(<<i>>) <=> i \in Pairs
  <2>1. \A i \in Pairs : IsGroup(<<i>>)
    BY PairAt
  <2>2. \A i \in (1 .. 10) \ Pairs : ~IsGroup(<<i>>)
    BY FlagAt DEF IsFlagAt
  <2>3. ~IsGroup(<<11>>)
    BY OtherAt DEF Other
  <2>4. ASSUME NEW i \in 1 .. 11 PROVE IsGroup(<<i>>) <=> i \in Pairs
    <3>1. CASE i = 11
      BY <2>3, <3>1 DEF Pairs
    <3>2. CASE i # 11
      BY <2>1, <2>2, <3>2
    <3> QED BY <3>1, <3>2
  <2> QED BY <2>4
<1> DEFINE Group(i) == cli.children[i].type = "group"
<1>3. \A i \in 1 .. 11 : Group(i) <=> i \in Pairs
  BY <1>2 DEF IsGroup, At, From
<1>4. Positions = {<<i>> : i \in 1 .. 11} \cup {p \in (1 .. 11) \X {1, 2} : Group(p[1])}
  BY <1>1, Zenon DEF Positions, Paths
<1>5. {p \in (1 .. 11) \X {1, 2} : Group(p[1])} = {<<i, k>> : i \in Pairs, k \in {1, 2}}
  <2>1. Pairs \subseteq 1 .. 11
    BY DEF Pairs
  <2> HIDE DEF Group
  <2> QED BY <1>3, <2>1
<1> QED BY <1>2, <1>4, <1>5

LEMMA PlaceIs ==
  ASSUME NEW i \in 1 .. 10
  PROVE  IsFlagAt(Place(i), i) /\ Place(i) \in Positions /\ (At(Place(i)).blocking <=> i \in Pairs)
<1>1. CASE i \in Pairs
  <2>1. Place(i) = <<i, 1>>
    BY <1>1 DEF Place
  <2>2. <<i, 1>> \in Positions
    BY <1>1, PositionsAre
  <2> QED BY <1>1, <2>1, <2>2, PairAt, Zenon
<1>2. CASE i \notin Pairs
  <2>1. Place(i) = <<i>>
    BY <1>2 DEF Place
  <2>2. <<i>> \in Positions /\ i \in (1 .. 10) \ Pairs
    BY <1>2, PositionsAre
  <2> QED BY <1>2, <2>1, <2>2, FlagAt, Zenon
<1> QED BY <1>1, <1>2

LEMMA ParamsAre ==
  /\ Flags = {Place(i) : i \in 1 .. 10}
  /\ Values = {ValuePlace(i) : i \in Pairs} \cup {Other}
  /\ Params = Flags \cup Values
<1>1. ASSUME NEW p \in Params
      PROVE  \/ \E i \in 1 .. 10 : p = Place(i)
             \/ \E i \in Pairs : p = ValuePlace(i)
             \/ p = Other
  <2>1. p \in Positions /\ ~IsGroup(p)
    BY DEF Params
  <2>2. CASE p \in {<<i>> : i \in 1 .. 11}
    <3>1. PICK i \in 1 .. 11 : p = <<i>>
      BY <2>2
    <3>2. i \notin Pairs
      BY <2>1, <3>1, PositionsAre
    <3>3. i # 11 => i \in 1 .. 10 /\ p = Place(i)
      BY <3>1, <3>2 DEF Place
    <3> QED BY <3>1, <3>3 DEF Other
  <2>3. CASE p \in {<<i, k>> : i \in Pairs, k \in {1, 2}}
    <3>1. PICK i \in Pairs, k \in {1, 2} : p = <<i, k>>
      BY <2>3
    <3>2. i \in 1 .. 10
      BY DEF Pairs
    <3>3. k = 1 => p = Place(i)
      BY <3>1 DEF Place
    <3>4. k = 2 => p = ValuePlace(i)
      BY <3>1 DEF ValuePlace
    <3> QED BY <3>1, <3>2, <3>3, <3>4
  <2> QED BY <2>1, <2>2, <2>3, PositionsAre
<1>2. \A i \in 1 .. 10 : Place(i) \in Flags
  BY PlaceIs DEF Flags, Params, IsFlagAt
<1>3. \A i \in Pairs : ValuePlace(i) \in Values
  <2> SUFFICES ASSUME NEW i \in Pairs PROVE ValuePlace(i) \in Values
    OBVIOUS
  <2>1. <<i, 2>> \in Positions
    BY PositionsAre
  <2> QED BY <2>1, PairAt DEF Values, Params, IsValueAt, ValuePlace
<1>4. Other \in Values
  <2>1. <<11>> \in Positions
    BY PositionsAre
  <2> QED BY <2>1, OtherAt DEF Values, Params, Other
<1>5. Params = Flags \cup Values /\ Flags \cap Values = {}
  BY DEF Flags, Values
<1> QED BY <1>1, <1>2, <1>3, <1>4, <1>5

LEMMA Tuples ==
  ASSUME NEW S, NEW a \in S, NEW b \in S
  PROVE  /\ SubSeq(<<a>>, 1, 1) = <<a>> /\ SubSeq(<<a, b>>, 1, 1) = <<a>>
         /\ Append(<<a>>, b) = <<a, b>> /\ Append(<<>>, a) = <<a>>
<1>1. /\ <<a>> \in Seq(S) /\ <<a, b>> \in Seq(S) /\ Len(<<a>>) = 1 /\ Len(<<a, b>>) = 2
      /\ <<a>>[1] = a /\ <<a, b>>[1] = a /\ <<a, b>>[2] = b
  OBVIOUS
<1>2. PICK s \in Seq(S), t \in Seq(S) : s = <<a>> /\ t = <<a, b>>
  BY <1>1
<1>3. Len(s) = 1 /\ Len(t) = 2 /\ s[1] = a /\ t[1] = a /\ t[2] = b
  BY <1>1, <1>2
<1>4. SubSeq(s, 1, 1) = s
  BY <1>3, SubSeqFull
<1>5. SubSeq(t, 1, 1) = s
  <2>1. \A i \in 1 .. 1 : t[i] \in S
    BY <1>3
  <2>2. SubSeq(t, 1, 1) \in Seq(S) /\ Len(SubSeq(t, 1, 1)) = 1 /\ SubSeq(t, 1, 1)[1] = a
    BY <1>3, <2>1, SubSeqProperties
  <2>3. \A i \in 1 .. Len(s) : SubSeq(t, 1, 1)[i] = s[i]
    BY <1>3, <2>2
  <2> QED BY <1>3, <2>2, <2>3, SeqEqual
<1>6. Append(s, b) = t
  <2>1. Append(s, b) \in Seq(S) /\ Len(Append(s, b)) = 2 /\ Append(s, b)[1] = a /\ Append(s, b)[2] = b
    BY <1>3
  <2>2. \A i \in 1 .. Len(t) : Append(s, b)[i] = t[i]
    BY <1>3, <2>1
  <2> QED BY <1>3, <2>1, <2>2, SeqEqual
<1>7. Append(<<>>, a) = <<a>>
  OBVIOUS
<1> QED BY <1>2, <1>4, <1>5, <1>6, <1>7

(* Where the walk is in its group. *)
LEMMA TopSiblings ==
  ASSUME NEW i \in 1 .. 11
  PROVE  /\ Len(<<i>>) = 1 /\ Front(<<i>>) = <<>> /\ Last(<<i>>) = i
         /\ is_last_in_group(<<i>>) <=> i = 11
<1>1. Len(<<i>>) = 1 /\ Front(<<i>>) = <<>> /\ Last(<<i>>) = i
  BY DEF Front, Last
<1>2. At(<<>>) = cli
  BY DEF At, From
<1>3. Siblings(<<i>>) = Entries
  BY <1>1, <1>2, CliIs, Zenon DEF Siblings, IsRoot
<1>4. Len(Siblings(<<i>>)) = 11
  BY <1>3, EntriesAre
<1> QED BY <1>1, <1>4 DEF is_last_in_group

LEMMA PairSiblings ==
  ASSUME NEW i \in Pairs, NEW k \in {1, 2}
  PROVE  /\ Len(<<i, k>>) = 2 /\ Front(<<i, k>>) = <<i>> /\ Last(<<i, k>>) = k
         /\ is_last_in_group(<<i, k>>) <=> k = 2
<1>1. Len(<<i, k>>) = 2 /\ Front(<<i, k>>) = <<i>> /\ Last(<<i, k>>) = k
  <2>1. <<i, k>> \in Seq(Nat) /\ <<i>> \in Seq(Nat) /\ Len(<<i, k>>) = 2 /\ Len(<<i>>) = 1
    BY DEF Pairs
  <2>2. Front(<<i, k>>) = SubSeq(<<i, k>>, 1, 1)
    BY DEF Front
  <2>3. SubSeq(<<i, k>>, 1, 1) = <<i>>
    <3>1. \A n \in 1 .. 1 : <<i, k>>[n] \in Nat
      BY DEF Pairs
    <3>2. /\ SubSeq(<<i, k>>, 1, 1) \in Seq(Nat) /\ Len(SubSeq(<<i, k>>, 1, 1)) = 1
          /\ SubSeq(<<i, k>>, 1, 1)[1] = i
      BY <3>1, SubSeqProperties
    <3>3. PICK s \in Seq(Nat), t \in Seq(Nat) : s = SubSeq(<<i, k>>, 1, 1) /\ t = <<i>>
      BY <2>1, <3>2
    <3>4. Len(s) = 1 /\ Len(t) = 1 /\ s[1] = i /\ t[1] = i
      BY <3>2, <3>3
    <3>5. s = t
      BY <3>4, SeqEqual
    <3> QED BY <3>3, <3>5
  <2> QED BY <2>1, <2>2, <2>3 DEF Last
<1>2. i \in 1 .. 11
  BY DEF Pairs
<1>3. IsPairEntry(Entries[i], i)
  BY EntryTable
<1>4. Len(Entries[i].children) = 2
  <2>1. \E a, b : Entries[i].children = <<a, b>>
    BY <1>3, Zenon DEF IsPairEntry
  <2> QED BY <2>1
<1>5. Len(Siblings(<<i, k>>)) = 2
  BY <1>1, <1>2, <1>4, AtIs DEF Siblings
<1> QED BY <1>1, <1>5 DEF is_last_in_group

-----------------------------------------------------------------------------
(* next_sibling is recursive: what it is at each position. *)
IsNext(next) ==
  next = [q \in Position |->
            IF q = <<>> THEN q
            ELSE IF is_last_in_group(q) THEN next[Front(q)]
            ELSE Append(Front(q), Last(q) + 1)]

LEMMA NextExists == \E next : IsNext(next)
<1> DEFINE D == {q \in Position : q = <<>> \/ ~is_last_in_group(q)}
           r == [q \in Position |-> IF q = <<>> THEN q ELSE Append(Front(q), Last(q) + 1)]
           g == [q \in Position |-> Front(q)]
<1>1. ASSUME NEW q \in Position, q \notin D PROVE g[q] \in Position
  <2>1. q # <<>> /\ q \in Position
    BY <1>1
  <2>2. CASE q \in {<<i>> : i \in 1 .. 11}
    <3>1. Front(q) = <<>>
      BY <2>2, TopSiblings
    <3> QED BY <3>1 DEF Position
  <2>3. CASE q \in {<<i, k>> : i \in Pairs, k \in {1, 2}}
    <3>0. PICK i \in Pairs, k \in {1, 2} : q = <<i, k>>
      BY <2>3
    <3>1. Front(q) = <<i>>
      BY <3>0, PairSiblings
    <3>2. i \in 1 .. 11
      BY DEF Pairs
    <3> QED BY <3>1, <3>2, PositionsAre DEF Position
  <2> QED BY <2>1, <2>2, <2>3, PositionsAre DEF Position
<1>2. PICK f : CommaSteps!IsTailRecursive(f, Position, D, r, g)
  <2>1. \A q \in Position : q \notin D => g[q] \in Position
    BY <1>1
  <2> HIDE DEF D, r, g
  <2> QED BY <2>1, CommaSteps!TailRecursion
<1>3. IsNext(f)
  <2>1. \A q \in Position : (IF q \in D THEN r[q] ELSE f[g[q]])
           = IF q = <<>> THEN q
             ELSE IF is_last_in_group(q) THEN f[Front(q)]
             ELSE Append(Front(q), Last(q) + 1)
    OBVIOUS
  <2> HIDE DEF D, r, g
  <2> QED BY <1>2, <2>1, Zenon DEF IsNext, CommaSteps!IsTailRecursive
<1> QED BY <1>3

LEMMA NextSibling ==
  ASSUME NEW p \in Position
  PROVE  next_sibling(p) = IF p = <<>> THEN p
                           ELSE IF is_last_in_group(p) THEN next_sibling(Front(p))
                           ELSE Append(Front(p), Last(p) + 1)
<1> DEFINE next == CHOOSE f : IsNext(f)
<1>1. \A q : next_sibling(q) = next[q]
  BY Zenon DEF next_sibling, IsNext
<1>2. IsNext(next)
  BY NextExists, Zenon
<1> HIDE DEF next
<1>3. next[p] = IF p = <<>> THEN p
                ELSE IF is_last_in_group(p) THEN next[Front(p)]
                ELSE Append(Front(p), Last(p) + 1)
  BY <1>2, Zenon DEF IsNext
<1> QED BY <1>1, <1>3, Zenon

LEMMA NextOfTop ==
  ASSUME NEW i \in 1 .. 11
  PROVE  next_sibling(<<i>>) = IF i = 11 THEN <<>> ELSE <<i + 1>>
<1>1. <<>> \in Position /\ <<i>> \in Position /\ <<i>> # <<>>
  BY PositionsAre DEF Position
<1>2. next_sibling(<<>>) = <<>>
  BY <1>1, NextSibling
<1>3. next_sibling(<<i>>) = IF i = 11 THEN next_sibling(<<>>) ELSE Append(<<>>, i + 1)
  BY <1>1, NextSibling, TopSiblings
<1> QED BY <1>2, <1>3

LEMMA NextOfPair ==
  ASSUME NEW i \in Pairs
  PROVE  next_sibling(<<i, 1>>) = <<i, 2>> /\ next_sibling(<<i, 2>>) = <<i + 1>>
<1>1. /\ <<i, 1>> \in Position /\ <<i, 2>> \in Position /\ <<i, 1>> # <<>> /\ <<i, 2>> # <<>>
      /\ i \in 1 .. 10
  BY PositionsAre DEF Position, Pairs
<1>2. next_sibling(<<i, 1>>) = Append(<<i>>, 1 + 1)
  BY <1>1, NextSibling, PairSiblings, SMTT(40)
<1>3. next_sibling(<<i, 2>>) = next_sibling(<<i>>)
  BY <1>1, NextSibling, PairSiblings
<1>4. next_sibling(<<i>>) = <<i + 1>>
  BY <1>1, NextOfTop
<1> QED BY <1>2, <1>3, <1>4

(* The steps of the walk. *)
LEMMA Steps ==
  /\ \A i \in Pairs : /\ dfs_next(<<i>>) = <<i, 1>> /\ dfs_next(<<i, 1>>) = <<i, 2>>
                      /\ dfs_next(<<i, 2>>) = <<i + 1>>
                      /\ next_after_siblings(<<i, 1>>) = <<i + 1>>
                      /\ next_after_siblings(<<i, 2>>) = <<i + 1>>
  /\ \A i \in (1 .. 10) \ Pairs : dfs_next(<<i>>) = <<i + 1>>
  /\ dfs_next(Other) = <<>>
<1>1. ASSUME NEW i \in Pairs
      PROVE  /\ dfs_next(<<i>>) = <<i, 1>> /\ dfs_next(<<i, 1>>) = <<i, 2>>
             /\ dfs_next(<<i, 2>>) = <<i + 1>>
             /\ next_after_siblings(<<i, 1>>) = <<i + 1>>
             /\ next_after_siblings(<<i, 2>>) = <<i + 1>>
  <2>1. IsGroup(<<i>>) /\ ~IsGroup(<<i, 1>>) /\ ~IsGroup(<<i, 2>>)
    BY PairAt DEF IsFlagAt, IsValueAt
  <2>2. i \in 1 .. 11 /\ i # 11
    BY DEF Pairs
  <2>3. next_sibling(<<i>>) = <<i + 1>>
    BY <2>2, NextOfTop
  <2>4. Front(<<i, 1>>) = <<i>> /\ Front(<<i, 2>>) = <<i>>
    BY PairSiblings
  <2>5. Append(<<i>>, 1) = <<i, 1>>
    <3>1. i \in Nat /\ 1 \in Nat
      BY <2>2
    <3> QED BY <3>1, Tuples, Zenon
  <2> QED BY <2>1, <2>3, <2>4, <2>5, NextOfPair, Zenon DEF dfs_next, next_after_siblings
<1>2. ASSUME NEW i \in (1 .. 10) \ Pairs PROVE dfs_next(<<i>>) = <<i + 1>>
  BY PositionsAre, NextOfTop DEF dfs_next
<1>3. dfs_next(Other) = <<>>
  BY OtherAt, NextOfTop DEF dfs_next, Other
<1> QED BY <1>1, <1>2, <1>3

LEMMA LastInPath ==
  /\ \A i \in 1 .. 10 : ~is_last_in_path(<<i>>)
  /\ \A i \in Pairs : ~is_last_in_path(<<i, 1>>) /\ ~is_last_in_path(<<i, 2>>)
  /\ is_last_in_path(Other)
<1>1. \A i \in 1 .. 11 : SubSeq(<<i>>, 1, 1) = <<i>>
  BY Tuples
<1>2. ASSUME NEW i \in 1 .. 10 PROVE ~is_last_in_path(<<i>>)
  <2>1. ~is_last_in_group(<<i>>) /\ i \in 1 .. 11
    BY TopSiblings
  <2>2. ~is_last_in_group(SubSeq(<<i>>, 1, 1))
    BY <1>1, <2>1, Zenon
  <2>3. 1 \in 1 .. Len(<<i>>)
    OBVIOUS
  <2> QED BY <2>2, <2>3, Zenon DEF is_last_in_path
<1>3. ASSUME NEW i \in Pairs, NEW k \in {1, 2} PROVE ~is_last_in_path(<<i, k>>)
  <2>1. SubSeq(<<i, k>>, 1, 1) = <<i>>
    <3>1. i \in Nat /\ k \in Nat
      BY DEF Pairs
    <3> QED BY <3>1, Tuples
  <2>2. i \in 1 .. 11 /\ i # 11
    BY DEF Pairs
  <2>3. ~is_last_in_group(<<i>>)
    BY <2>2, TopSiblings
  <2>4. ~is_last_in_group(SubSeq(<<i, k>>, 1, 1))
    BY <2>1, <2>3, Zenon
  <2>5. 1 \in 1 .. Len(<<i, k>>)
    OBVIOUS
  <2> QED BY <2>4, <2>5, Zenon DEF is_last_in_path
<1>4. is_last_in_path(<<11>>)
  <2>1. \A n \in 1 .. Len(<<11>>) : is_last_in_group(SubSeq(<<11>>, 1, n))
    <3>1. \A n \in 1 .. Len(<<11>>) : n = 1
      OBVIOUS
    <3>2. is_last_in_group(<<11>>) /\ SubSeq(<<11>>, 1, 1) = <<11>>
      BY <1>1, TopSiblings
    <3> QED BY <3>1, <3>2, Zenon
  <2> QED BY <2>1, OtherAt DEF is_last_in_path, Other
<1> QED BY <1>2, <1>3, <1>4 DEF Other

-----------------------------------------------------------------------------
(* A traverser, by what it is made of. *)
W(p, a, s, g) == [pos |-> p, after |-> a, scopes |-> s, ignore |-> g]

Tops == {<<i>> : i \in 1 .. 11}

LEMMA Fields ==
  ASSUME NEW p, NEW a, NEW s, NEW g
  PROVE  /\ W(p, a, s, g).pos = p /\ W(p, a, s, g).after = a
         /\ W(p, a, s, g).scopes = s /\ W(p, a, s, g).ignore = g
BY DEF W

LEMMA PutPos ==
  ASSUME NEW p, NEW a, NEW s, NEW g, NEW x
  PROVE  [W(p, a, s, g) EXCEPT !.pos = x] = W(x, a, s, g)
BY DEF W

LEMMA PutAfter ==
  ASSUME NEW p, NEW a, NEW s, NEW g, NEW x
  PROVE  [W(p, a, s, g) EXCEPT !.after = x] = W(p, x, s, g)
BY DEF W

LEMMA PutScopes ==
  ASSUME NEW p, NEW a, NEW s, NEW g, NEW x
  PROVE  [W(p, a, s, g) EXCEPT !.scopes = x] = W(p, a, x, g)
BY DEF W

LEMMA PutIgnore ==
  ASSUME NEW p, NEW a, NEW s, NEW g, NEW x
  PROVE  [W(p, a, s, g) EXCEPT !.ignore = x] = W(p, a, s, x)
BY DEF W

(* Two at once. *)
PosAndScopes(t, x, y) == [t EXCEPT !.pos = x, !.scopes = y]
ScopesAndPos(t, x, y) == [t EXCEPT !.scopes = y, !.pos = x]
PosAndAfter(t, x, y)  == [t EXCEPT !.pos = x, !.after = y]

LEMMA PutTwo ==
  ASSUME NEW p, NEW a, NEW s, NEW g, NEW x, NEW y
  PROVE  /\ PosAndScopes(W(p, a, s, g), x, y) = W(x, a, y, g)
         /\ ScopesAndPos(W(p, a, s, g), x, y) = W(x, a, y, g)
         /\ PosAndAfter(W(p, a, s, g), x, y) = W(x, y, s, g)
<1>1. [W(p, a, s, g) EXCEPT !.pos = x, !.scopes = y] = W(x, a, y, g)
  <2>1. [W(p, a, s, g) EXCEPT !.pos = x, !.scopes = y]
        = [[W(p, a, s, g) EXCEPT !.pos = x] EXCEPT !.scopes = y]
    BY DEF W
  <2>2. [W(p, a, s, g) EXCEPT !.pos = x] = W(x, a, s, g)
    BY PutPos
  <2>3. [W(x, a, s, g) EXCEPT !.scopes = y] = W(x, a, y, g)
    BY PutScopes
  <2> QED BY <2>1, <2>2, <2>3, Zenon
<1>2. [W(p, a, s, g) EXCEPT !.scopes = y, !.pos = x] = W(x, a, y, g)
  <2>1. [W(p, a, s, g) EXCEPT !.scopes = y, !.pos = x]
        = [[W(p, a, s, g) EXCEPT !.scopes = y] EXCEPT !.pos = x]
    BY DEF W
  <2>2. [W(p, a, s, g) EXCEPT !.scopes = y] = W(p, a, y, g)
    BY PutScopes
  <2>3. [W(p, a, y, g) EXCEPT !.pos = x] = W(x, a, y, g)
    BY PutPos
  <2> QED BY <2>1, <2>2, <2>3, Zenon
<1>3. [W(p, a, s, g) EXCEPT !.pos = x, !.after = y] = W(x, y, s, g)
  <2>1. [W(p, a, s, g) EXCEPT !.pos = x, !.after = y]
        = [[W(p, a, s, g) EXCEPT !.pos = x] EXCEPT !.after = y]
    BY DEF W
  <2>2. [W(p, a, s, g) EXCEPT !.pos = x] = W(x, a, s, g)
    BY PutPos
  <2>3. [W(x, a, s, g) EXCEPT !.after = y] = W(x, y, s, g)
    BY PutAfter
  <2> QED BY <2>1, <2>2, <2>3, Zenon
<1> QED BY <1>1, <1>2, <1>3, Zenon DEF PosAndScopes, ScopesAndPos, PosAndAfter

LEMMA IsTraverser ==
  ASSUME NEW p \in Position, NEW a \in Position, NEW s \in Seq(Positions), NEW g \in BOOLEAN
  PROVE  W(p, a, s, g) \in Traverser
BY DEF W, Traverser

LEMMA TraverserIs ==
  ASSUME NEW t \in Traverser
  PROVE  /\ t = W(t.pos, t.after, t.scopes, t.ignore)
         /\ t.pos \in Position /\ t.after \in Position /\ t.scopes \in Seq(Positions)
         /\ t.ignore \in BOOLEAN
BY DEF W, Traverser

(* The innermost scope, and what is left without it. *)
LEMMA Innermost ==
  ASSUME NEW S, NEW s \in Seq(S), s # <<>>
  PROVE  /\ Last(s) \in S /\ Front(s) \in Seq(S) /\ Len(s) \in Nat /\ Len(s) > 0
         /\ Len(Front(s)) = Len(s) - 1
         /\ Last(s) = s[Len(s)] /\ \A i \in 1 .. Len(s) - 1 : Front(s)[i] = s[i]
<1>1. Len(s) \in Nat /\ Len(s) > 0
  BY EmptySeq
<1>2. PICK n \in Nat : n = Len(s) - 1 /\ \A i \in 1 .. n : s[i] \in S
  BY <1>1
<1>3. /\ SubSeq(s, 1, n) \in Seq(S) /\ Len(SubSeq(s, 1, n)) = n
      /\ \A i \in 1 .. n : SubSeq(s, 1, n)[i] = s[i]
  BY <1>1, <1>2
<1> QED BY <1>1, <1>2, <1>3 DEF Front, Last

LEMMA PositionLen ==
  /\ \A p \in Position : Len(p) \in 0 .. 2
  /\ \A p \in Tops : Len(p) = 1 /\ p \in Positions /\ p \in Position
  /\ Len(<<>>) = 0 /\ \A i \in Pairs : \A k \in {1, 2} : Len(<<i, k>>) = 2 /\ <<i, k>> \in Positions
BY PositionsAre DEF Position, Tops

LEMMA UndoTop ==
  ASSUME NEW p \in Position, NEW m \in Tops
  PROVE  undo(p, m) = m
<1>1. PICK i \in 1 .. 11 : m = <<i>>
  BY DEF Tops
<1>2. Len(m) = 1 /\ Last(m) = i
  BY <1>1, TopSiblings
<1>3. SubSeq(p, 1, Len(m) - 1) = <<>>
  BY <1>2, SubSeqEmpty
<1>4. Append(<<>>, i) = <<i>>
  OBVIOUS
<1>5. undo(p, m) = Append(SubSeq(p, 1, Len(m) - 1), Last(m))
  BY <1>2 DEF undo
<1> QED BY <1>1, <1>2, <1>3, <1>4, <1>5, Zenon

LEMMA UndoIsPosition ==
  ASSUME NEW p \in Position, NEW m \in Positions
  PROVE  undo(p, m) \in Position
<1>1. CASE m \in Tops
  BY <1>1, UndoTop, PositionLen
<1>2. CASE m \notin Tops
  <2>1. PICK i \in Pairs, k \in {1, 2} : m = <<i, k>>
    BY <1>2, PositionsAre DEF Tops
  <2>2. Len(m) = 2 /\ Last(m) = k
    BY <2>1, PairSiblings
  <2>3. CASE Len(p) < 2
    BY <2>2, <2>3, PositionLen DEF undo
  <2>4. CASE Len(p) = 2
    <3>1. PICK j \in Pairs, l \in {1, 2} : p = <<j, l>>
      <4>1. p \in Positions /\ p \notin Tops
        BY <2>4, PositionLen DEF Position
      <4> QED BY <4>1, PositionsAre DEF Tops
    <3>2. j \in Nat /\ l \in Nat /\ k \in Nat
      BY DEF Pairs
    <3>3. SubSeq(p, 1, 1) = <<j>>
      BY <3>1, <3>2, Tuples
    <3>4. undo(p, m) = Append(<<j>>, k)
      <4>1. undo(p, m) = Append(SubSeq(p, 1, Len(m) - 1), Last(m))
        BY <2>2, <2>4 DEF undo
      <4>2. Len(m) - 1 = 1
        BY <2>2
      <4> QED BY <2>2, <3>3, <4>1, <4>2, Zenon
    <3>5. Append(<<j>>, k) = <<j, k>>
      BY <3>2, Tuples
    <3> QED BY <3>4, <3>5, PositionLen DEF Position
  <2>5. Len(p) \in 0 .. 2
    BY PositionLen
  <2>6. Len(p) < 2 \/ Len(p) = 2
    BY <2>5
  <2> QED BY <2>3, <2>4, <2>6
<1> QED BY <1>1, <1>2

-----------------------------------------------------------------------------
(* Leaving scopes: one at a time, for as long as the depths say so. *)
Pops(u, depths) == u.scopes # <<>> /\ <<Len(Last(u.scopes)), Len(u.pos)>> \in depths

Popped(u) == [u EXCEPT !.pos = undo(@, Last(u.scopes)), !.scopes = Front(@)]

IsPop(pop, depths) ==
  pop = [u \in Traverser |->
           IF u.scopes # <<>> /\ <<Len(Last(u.scopes)), Len(u.pos)>> \in depths
           THEN pop[[u EXCEPT !.pos = undo(@, Last(u.scopes)), !.scopes = Front(@)]]
           ELSE u]

LEMMA PoppedIs ==
  ASSUME NEW p, NEW a, NEW s, NEW g
  PROVE  Popped(W(p, a, s, g)) = W(undo(p, Last(s)), a, Front(s), g)
<1>1. Popped(W(p, a, s, g)) = [W(p, a, s, g) EXCEPT !.pos = undo(p, Last(s)), !.scopes = Front(s)]
  BY DEF Popped, W
<1>2. Popped(W(p, a, s, g)) = PosAndScopes(W(p, a, s, g), undo(p, Last(s)), Front(s))
  BY <1>1, Zenon DEF PosAndScopes
<1> QED BY <1>2, PutTwo

LEMMA PoppedIsTraverser ==
  ASSUME NEW t \in Traverser, t.scopes # <<>>
  PROVE  /\ Popped(t) \in Traverser /\ Popped(t).after = t.after /\ Popped(t).ignore = t.ignore
         /\ Popped(t).scopes = Front(t.scopes) /\ Popped(t).pos = undo(t.pos, Last(t.scopes))
<1> PICK p, a, s, g : p = t.pos /\ a = t.after /\ s = t.scopes /\ g = t.ignore
  OBVIOUS
<1>1. /\ t = W(p, a, s, g) /\ p \in Position /\ a \in Position /\ s \in Seq(Positions)
      /\ g \in BOOLEAN /\ s # <<>>
  BY TraverserIs
<1>2. Last(s) \in Positions /\ Front(s) \in Seq(Positions)
  BY <1>1, Innermost
<1>3. PICK q \in Position, f \in Seq(Positions) : q = undo(p, Last(s)) /\ f = Front(s)
  BY <1>1, <1>2, UndoIsPosition
<1>4. Popped(t) = W(q, a, f, g)
  <2>1. Popped(W(p, a, s, g)) = W(undo(p, Last(s)), a, Front(s), g)
    BY PoppedIs
  <2> QED BY <1>1, <1>3, <2>1, Zenon
<1>5. W(q, a, f, g) \in Traverser
  BY <1>1, <1>3, IsTraverser
<1>6. /\ W(q, a, f, g).pos = q /\ W(q, a, f, g).after = a
      /\ W(q, a, f, g).scopes = f /\ W(q, a, f, g).ignore = g
  BY Fields
<1> QED BY <1>3, <1>4, <1>5, <1>6

LEMMA PopExists ==
  ASSUME NEW depths
  PROVE  \E pop : IsPop(pop, depths)
<1> DEFINE D == {u \in Traverser : ~Pops(u, depths)}
           r == [u \in Traverser |-> u]
           g == [u \in Traverser |-> Popped(u)]
<1>1. ASSUME NEW u \in Traverser, u \notin D PROVE g[u] \in Traverser
  BY <1>1, PoppedIsTraverser DEF Pops
<1>2. PICK f : CommaSteps!IsTailRecursive(f, Traverser, D, r, g)
  <2>1. \A u \in Traverser : u \notin D => g[u] \in Traverser
    BY <1>1
  <2> HIDE DEF D, r, g
  <2> QED BY <2>1, CommaSteps!TailRecursion
<1>3. IsPop(f, depths)
  <2>1. \A u \in Traverser : (IF u \in D THEN r[u] ELSE f[g[u]])
           = IF u.scopes # <<>> /\ <<Len(Last(u.scopes)), Len(u.pos)>> \in depths
             THEN f[[u EXCEPT !.pos = undo(@, Last(u.scopes)), !.scopes = Front(@)]]
             ELSE u
    BY Zenon DEF Pops, Popped
  <2> HIDE DEF D, r, g
  <2> QED BY <1>2, <2>1, Zenon DEF IsPop, CommaSteps!IsTailRecursive
<1> QED BY <1>3

LEMMA PopScopesIs ==
  ASSUME NEW depths, NEW t \in Traverser
  PROVE  PopScopes(t, depths) = IF Pops(t, depths) THEN PopScopes(Popped(t), depths) ELSE t
<1> DEFINE pop == CHOOSE f : IsPop(f, depths)
<1>1. \A u : PopScopes(u, depths) = pop[u]
  BY Zenon DEF PopScopes, IsPop
<1>2. IsPop(pop, depths)
  BY PopExists, Zenon
<1> HIDE DEF pop
<1>3. pop[t] = IF Pops(t, depths) THEN pop[Popped(t)] ELSE t
  BY <1>2, Zenon DEF IsPop, Pops, Popped
<1>4. PopScopes(t, depths) = pop[t] /\ PopScopes(Popped(t), depths) = pop[Popped(t)]
  BY <1>1, Zenon
<1> QED BY <1>3, <1>4

(* Wherever it stops, it is a traverser. *)
IsFrom(u, t) == u \in Traverser /\ u.after = t.after /\ u.ignore = t.ignore

LEMMA PopScopesFrom ==
  ASSUME NEW depths, NEW t \in Traverser
  PROVE  IsFrom(PopScopes(t, depths), t)
<1> DEFINE Wrong == {n \in Nat : \E u \in Traverser : Len(u.scopes) = n
                                    /\ ~IsFrom(PopScopes(u, depths), u)}
<1>1. Wrong = {}
  <2> SUFFICES ASSUME Wrong # {} PROVE FALSE
    OBVIOUS
  <2>1. PICK n \in Wrong : \A x \in Wrong : n <= x
    BY CommaSteps!LeastElement, Wrong \in SUBSET Nat
  <2>2. PICK u \in Traverser : Len(u.scopes) = n /\ ~IsFrom(PopScopes(u, depths), u)
    BY <2>1
  <2>3. Pops(u, depths)
    BY <2>2, PopScopesIs DEF IsFrom
  <2>4. /\ Popped(u) \in Traverser /\ Popped(u).after = u.after /\ Popped(u).ignore = u.ignore
        /\ Popped(u).scopes = Front(u.scopes)
    BY <2>3, PoppedIsTraverser DEF Pops
  <2>5. n \in Nat /\ Len(Popped(u).scopes) = n - 1 /\ n - 1 \in Nat
    <3>1. u.scopes \in Seq(Positions) /\ u.scopes # <<>>
      BY <2>3, TraverserIs DEF Pops
    <3>2. Len(u.scopes) > 0 /\ Len(u.scopes) \in Nat /\ Len(Front(u.scopes)) = Len(u.scopes) - 1
      BY <3>1, Innermost
    <3> QED BY <2>2, <2>4, <3>2
  <2>6. IsFrom(PopScopes(Popped(u), depths), Popped(u))
    <3>1. n - 1 \notin Wrong
      BY <2>1, <2>5
    <3> QED BY <2>4, <2>5, <3>1
  <2>7. PopScopes(u, depths) = PopScopes(Popped(u), depths)
    BY <2>3, PopScopesIs
  <2> QED BY <2>2, <2>4, <2>6, <2>7 DEF IsFrom
<1>2. Len(t.scopes) \in Nat
  BY TraverserIs
<1> QED BY <1>1, <1>2

LEMMA PopsNone ==
  ASSUME NEW depths, NEW t \in Traverser,
         t.scopes = <<>> \/ <<Len(Last(t.scopes)), Len(t.pos)>> \notin depths
  PROVE  PopScopes(t, depths) = t
BY PopScopesIs DEF Pops

(* All the scopes are at the top, and so is the walk: all of them are left. *)
LEMMA PopsAll ==
  ASSUME NEW depths, <<1, 1>> \in depths, NEW p \in Tops, NEW a \in Position,
         NEW s \in Seq(Tops), s # <<>>, NEW g \in BOOLEAN
  PROVE  PopScopes(W(p, a, s, g), depths) = W(s[1], a, <<>>, g)
<1>t. Tops \subseteq Positions /\ Tops \subseteq Position /\ \A q \in Tops : Len(q) = 1
  BY PositionLen
<1>9. ASSUME NEW q \in Tops, NEW u \in Seq(Tops), u # <<>>
      PROVE  PopScopes(W(q, a, u, g), depths) = PopScopes(W(Last(u), a, Front(u), g), depths)
  <2>1. Last(u) \in Tops /\ Front(u) \in Seq(Tops) /\ u \in Seq(Positions) /\ q \in Position
    BY <1>9, <1>t, Innermost
  <2>2. W(q, a, u, g) \in Traverser
    BY <2>1, IsTraverser
  <2>3. W(q, a, u, g).scopes = u /\ W(q, a, u, g).pos = q
    BY Fields
  <2>4. <<Len(Last(u)), Len(q)>> = <<1, 1>>
    BY <1>t, <2>1
  <2>5. Pops(W(q, a, u, g), depths)
    BY <1>9, <2>3, <2>4, Zenon DEF Pops
  <2>6. Popped(W(q, a, u, g)) = W(undo(q, Last(u)), a, Front(u), g)
    BY PoppedIs
  <2>7. undo(q, Last(u)) = Last(u)
    BY <2>1, UndoTop
  <2> QED BY <2>2, <2>5, <2>6, <2>7, PopScopesIs, Zenon
<1> DEFINE Right(q, u) == PopScopes(W(q, a, u, g), depths) = W(u[1], a, <<>>, g)
           Wrong == {n \in Nat : \E q \in Tops, u \in Seq(Tops) :
                                   u # <<>> /\ Len(u) = n /\ ~Right(q, u)}
<1>1. Wrong = {}
  <2> SUFFICES ASSUME Wrong # {} PROVE FALSE
    OBVIOUS
  <2>1. PICK n \in Wrong : \A x \in Wrong : n <= x
    <3>1. Wrong \in SUBSET Nat
      OBVIOUS
    <3> HIDE DEF Wrong
    <3> QED BY <3>1, CommaSteps!LeastElement
  <2>2. PICK q \in Tops, u \in Seq(Tops) : u # <<>> /\ Len(u) = n /\ ~Right(q, u)
    BY <2>1
  <2> HIDE DEF Right
  <2>3. /\ Last(u) \in Tops /\ Front(u) \in Seq(Tops) /\ Len(Front(u)) = n - 1 /\ n > 0
        /\ Last(u) = u[n] /\ n \in Nat /\ \A i \in 1 .. n - 1 : Front(u)[i] = u[i]
    BY <2>2, Innermost
  <2>4. CASE Front(u) = <<>>
    <3>1. n = 1 /\ Last(u) = u[1]
      BY <2>3, <2>4
    <3>2. W(u[1], a, <<>>, g) \in Traverser
      <4>1. u[1] \in Position /\ <<>> \in Seq(Positions)
        BY <1>t, <2>3, <3>1
      <4> QED BY <4>1, IsTraverser, Zenon
    <3>3. PopScopes(W(u[1], a, <<>>, g), depths) = W(u[1], a, <<>>, g)
      <4>1. W(u[1], a, <<>>, g).scopes = <<>>
        BY Fields
      <4> QED BY <3>2, <4>1, PopsNone, Zenon
    <3>4. PopScopes(W(q, a, u, g), depths) = PopScopes(W(u[1], a, <<>>, g), depths)
      BY <1>9, <2>2, <2>4, <3>1, Zenon
    <3> QED BY <2>2, <3>3, <3>4, Zenon DEF Right
  <2>5. CASE Front(u) # <<>>
    <3>1. n - 1 \in Nat /\ n - 1 \notin Wrong
      BY <2>1, <2>3
    <3>2. Right(Last(u), Front(u))
      BY <2>3, <2>5, <3>1
    <3>3. Front(u)[1] = u[1]
      <4>1. n # 1
        BY <2>3, <2>5
      <4> QED BY <2>3, <4>1
    <3>4. PopScopes(W(q, a, u, g), depths) = PopScopes(W(Last(u), a, Front(u), g), depths)
      BY <1>9, <2>2, Zenon
    <3> QED BY <2>2, <3>2, <3>3, <3>4, Zenon DEF Right
  <2> QED BY <2>4, <2>5
<1>2. Len(s) \in Nat
  OBVIOUS
<1> QED BY <1>1, <1>2

-----------------------------------------------------------------------------
(* One step of the walk, wherever it is. *)
LEMMA StepIsPosition ==
  ASSUME NEW p \in Positions
  PROVE  dfs_next(p) \in Position /\ next_after_siblings(p) \in Position
<1>t. \A i \in 1 .. 11 : <<i>> \in Position
  BY PositionsAre DEF Position
<1>1. ASSUME NEW i \in 1 .. 11, p = <<i>>
      PROVE  dfs_next(p) \in Position /\ next_after_siblings(p) \in Position
  <2>1. next_after_siblings(p) = <<>>
    <3>1. Front(<<i>>) = <<>>
      BY TopSiblings
    <3>2. next_sibling(<<>>) = <<>>
      <4>1. <<>> \in Position
        BY DEF Position
      <4> QED BY <4>1, NextSibling
    <3> QED BY <1>1, <3>1, <3>2, Zenon DEF next_after_siblings
  <2>2. CASE i \in Pairs
    <3>1. dfs_next(p) = <<i, 1>>
      BY <1>1, <2>2, Steps
    <3> QED BY <2>1, <2>2, <3>1, PositionsAre DEF Position
  <2>3. CASE i \in (1 .. 10) \ Pairs
    <3>1. dfs_next(p) = <<i + 1>>
      BY <1>1, <2>3, Steps
    <3>2. i + 1 \in 1 .. 11
      BY <2>3
    <3> QED BY <2>1, <3>1, <3>2, <1>t DEF Position
  <2>4. CASE i = 11
    <3>1. dfs_next(p) = <<>>
      BY <1>1, <2>4, Steps DEF Other
    <3> QED BY <2>1, <3>1 DEF Position
  <2>5. i \in Pairs \/ i \in (1 .. 10) \ Pairs \/ i = 11
    OBVIOUS
  <2> QED BY <2>2, <2>3, <2>4, <2>5
<1>2. ASSUME NEW i \in Pairs, NEW k \in {1, 2}, p = <<i, k>>
      PROVE  dfs_next(p) \in Position /\ next_after_siblings(p) \in Position
  <2>1. i + 1 \in 1 .. 11
    BY DEF Pairs
  <2>2. <<i + 1>> \in Position /\ <<i, 2>> \in Position
    BY <1>t, <2>1, PositionsAre DEF Position
  <2>3. CASE k = 1
    BY <1>2, <2>2, <2>3, Steps
  <2>4. CASE k = 2
    BY <1>2, <2>2, <2>4, Steps
  <2> QED BY <2>3, <2>4
<1> QED BY <1>1, <1>2, PositionsAre

LEMMA OutermostIsTraverser ==
  ASSUME NEW t \in Traverser
  PROVE  return_to_outermost_scope(t) \in Traverser
<1>1. PICK u \in Traverser : u = PopScopes(t, Depths)
  BY PopScopesFrom DEF IsFrom
<1>2. <<>> \in Position /\ u.pos \in Position
  BY TraverserIs DEF Position
<1>3. PICK x \in Position : x = IF t.scopes = <<>> THEN <<>> ELSE u.pos
  BY <1>2
<1>4. return_to_outermost_scope(t) = [u EXCEPT !.pos = x, !.after = <<>>]
  BY <1>1, <1>3, Zenon DEF return_to_outermost_scope
<1> QED BY <1>2, <1>4 DEF Traverser

LEMMA CheckIsTraverser ==
  ASSUME NEW t \in Traverser
  PROVE  check_left_scope(t) \in Traverser
<1>1. PICK u \in Traverser : u = PopScopes(t, {d \in Depths : d[1] >= d[2]})
  BY PopScopesFrom DEF IsFrom
<1>2. [u EXCEPT !.after = <<>>] \in Traverser
  BY DEF Traverser, Position
<1>3. PICK v \in Traverser :
        v = IF t.after # <<>> /\ Len(t.pos) < Len(t.after)
            THEN [u EXCEPT !.after = <<>>] ELSE t
  BY <1>2
<1>4. check_left_scope(t) = PopScopes(v, {d \in Depths : d[1] > d[2]})
  BY <1>1, <1>3, Zenon DEF check_left_scope
<1> QED BY <1>4, PopScopesFrom DEF IsFrom

LEMMA AdvanceIsTraverser ==
  ASSUME NEW t \in Traverser, t.pos # <<>>
  PROVE  advance(t) \in Traverser
<1>1. t.pos \in Positions
  BY TraverserIs DEF Position
<1>2. PICK x \in Position : x = IF Hides(t) THEN next_after_siblings(t.pos) ELSE dfs_next(t.pos)
  BY <1>1, StepIsPosition
<1>3. [t EXCEPT !.pos = x] \in Traverser
  BY DEF Traverser
<1>4. PICK u \in Traverser : u = [t EXCEPT !.pos = x]
  BY <1>3
<1>5. ReturnAtEnd(u) \in Traverser
  BY OutermostIsTraverser DEF ReturnAtEnd
<1>6. advance(t) = IF is_last_in_path(t.pos) THEN return_to_outermost_scope(t)
                   ELSE check_left_scope(ReturnAtEnd(u))
  BY <1>2, <1>4, Zenon DEF advance
<1> QED BY <1>5, <1>6, OutermostIsTraverser, CheckIsTraverser

-----------------------------------------------------------------------------
(* The steps that the walk makes from a traverser whose scopes are at the  *)
(* top: to the next position, and back to the start where it ends.         *)
NextPosition(p, g) ==
  IF ~g /\ p \in Params /\ At(p).blocking THEN next_after_siblings(p) ELSE dfs_next(p)

LEMMA NextPositionIs ==
  ASSUME NEW g \in BOOLEAN
  PROVE  /\ \A i \in Pairs : /\ NextPosition(<<i>>, g) = <<i, 1>>
                             /\ NextPosition(<<i, 1>>, g) = IF g THEN <<i, 2>> ELSE <<i + 1>>
                             /\ NextPosition(<<i, 2>>, g) = <<i + 1>>
         /\ \A i \in (1 .. 10) \ Pairs : NextPosition(<<i>>, g) = <<i + 1>>
<1>1. ASSUME NEW i \in Pairs
      PROVE  /\ NextPosition(<<i>>, g) = <<i, 1>>
             /\ NextPosition(<<i, 1>>, g) = IF g THEN <<i, 2>> ELSE <<i + 1>>
             /\ NextPosition(<<i, 2>>, g) = <<i + 1>>
  <2>1. <<i>> \notin Params
    BY PairAt DEF Params
  <2>i. <<i, 1>> \in Positions /\ <<i, 2>> \in Positions
    BY PositionsAre
  <2>2. <<i, 1>> \in Params /\ At(<<i, 1>>).blocking
    BY <2>i, PairAt, Zenon DEF Params, IsFlagAt
  <2>3. <<i, 2>> \in Params /\ At(<<i, 2>>).blocking
    BY <2>i, PairAt, Zenon DEF Params, IsValueAt
  <2>4. /\ dfs_next(<<i>>) = <<i, 1>> /\ dfs_next(<<i, 1>>) = <<i, 2>>
        /\ dfs_next(<<i, 2>>) = <<i + 1>>
        /\ next_after_siblings(<<i, 1>>) = <<i + 1>>
        /\ next_after_siblings(<<i, 2>>) = <<i + 1>>
    BY Steps
  <2>5. NextPosition(<<i>>, g) = dfs_next(<<i>>)
    BY <2>1, Zenon DEF NextPosition
  <2>6. NextPosition(<<i, 1>>, g) = IF g THEN <<i, 2>> ELSE <<i + 1>>
    BY <2>2, <2>4, Zenon DEF NextPosition
  <2>7. NextPosition(<<i, 2>>, g) = <<i + 1>>
    BY <2>3, <2>4, Zenon DEF NextPosition
  <2> QED BY <2>4, <2>5, <2>6, <2>7
<1>2. ASSUME NEW i \in (1 .. 10) \ Pairs
      PROVE  NextPosition(<<i>>, g) = <<i + 1>>
  <2>1. ~At(<<i>>).blocking /\ dfs_next(<<i>>) = <<i + 1>>
    BY FlagAt, Steps
  <2> QED BY <2>1, Zenon DEF NextPosition
<1> QED BY <1>1, <1>2

(* The scopes are not left on the way. *)
LEMMA Goes ==
  ASSUME NEW p \in Positions, NEW a \in Position, NEW s \in Seq(Tops), NEW g \in BOOLEAN,
         NEW q \in Positions, q = NextPosition(p, g), ~is_last_in_path(p), Len(a) <= Len(q)
  PROVE  advance(W(p, a, s, g)) = W(q, a, s, g)
<1>s. s \in Seq(Positions)
  BY PositionLen
<1>q. q # <<>> /\ Len(q) \in 1 .. 2 /\ q \in Position
  BY PositionsAre, PositionLen DEF Position
<1>1. PICK t \in Traverser : t = W(p, a, s, g)
  BY <1>s, IsTraverser DEF Position
<1>2. PICK u \in Traverser : u = W(q, a, s, g)
  BY <1>s, <1>q, IsTraverser
<1>3. t.pos = p /\ t.ignore = g
  BY <1>1, Fields
<1>4. u.pos = q /\ u.after = a /\ u.scopes = s
  BY <1>2, Fields
<1>5. [t EXCEPT !.pos = IF Hides(t) THEN next_after_siblings(@) ELSE dfs_next(@)] = u
  <2>1. (IF Hides(t) THEN next_after_siblings(p) ELSE dfs_next(p)) = q
    BY <1>3, Zenon DEF Hides, NextPosition
  <2>2. [t EXCEPT !.pos = q] = u
    BY <1>1, <1>2, PutPos
  <2> QED BY <1>3, <2>1, <2>2, Zenon
<1>6. ReturnAtEnd(u) = u
  BY <1>4, <1>q DEF ReturnAtEnd
<1>7. check_left_scope(u) = u
  <2>1. ~ (Len(u.pos) < Len(u.after))
    <3>1. Len(a) \in 0 .. 2
      BY PositionLen
    <3> QED BY <1>4, <1>q, <3>1
  <2>2. check_left_scope(u) = PopScopes(u, {d \in Depths : d[1] > d[2]})
    BY <2>1, Zenon DEF check_left_scope
  <2>3. u.scopes = <<>> \/ <<Len(Last(u.scopes)), Len(u.pos)>> \notin {d \in Depths : d[1] > d[2]}
    <3>1. s # <<>> => Len(Last(s)) = 1
      BY Innermost, PositionLen
    <3>2. ~ (1 > Len(q))
      BY <1>q
    <3>3. <<1, Len(q)>> \notin {d \in Depths : d[1] > d[2]}
      BY <3>2
    <3> QED BY <1>4, <3>1, <3>3, Zenon
  <2> QED BY <2>2, <2>3, PopsNone, Zenon
<1>8. advance(t) = check_left_scope(ReturnAtEnd(u))
  BY <1>3, <1>5, Zenon DEF advance
<1> QED BY <1>1, <1>2, <1>6, <1>7, <1>8, Zenon

(* Where the interface ends, the walk goes on at the outermost scope. *)
LEMMA GoesBack ==
  ASSUME NEW a \in Position, NEW s \in Seq(Tops), NEW g \in BOOLEAN
  PROVE  advance(W(Other, a, s, g)) = W(IF s = <<>> THEN <<>> ELSE s[1], <<>>, <<>>, g)
<1>s. s \in Seq(Positions) /\ Other \in Tops /\ Other \in Position
  BY PositionLen DEF Other, Tops
<1>1. PICK t \in Traverser : t = W(Other, a, s, g)
  BY <1>s, IsTraverser
<1>2. t.pos = Other /\ t.scopes = s
  BY <1>1, Fields
<1>3. advance(t) = return_to_outermost_scope(t)
  BY <1>2, LastInPath, Zenon DEF advance
<1>4. CASE s = <<>>
  <2>1. PopScopes(t, Depths) = t
    BY <1>2, <1>4, PopsNone, Zenon
  <2>2. return_to_outermost_scope(t) = [t EXCEPT !.pos = <<>>, !.after = <<>>]
    BY <1>2, <1>4, <2>1, Zenon DEF return_to_outermost_scope
  <2>3. return_to_outermost_scope(t) = PosAndAfter(W(Other, a, s, g), <<>>, <<>>)
    BY <1>1, <2>2, Zenon DEF PosAndAfter
  <2>4. return_to_outermost_scope(t) = W(<<>>, <<>>, s, g)
    BY <2>3, PutTwo
  <2> QED BY <1>1, <1>3, <1>4, <2>4, Zenon
<1>5. CASE s # <<>>
  <2>1. PopScopes(t, Depths) = W(s[1], a, <<>>, g)
    <3>1. <<1, 1>> \in Depths
      BY DEF Depths
    <3> QED BY <1>1, <1>s, <1>5, <3>1, PopsAll
  <2>2. return_to_outermost_scope(t)
        = [PopScopes(t, Depths) EXCEPT !.pos = PopScopes(t, Depths).pos, !.after = <<>>]
    BY <1>2, <1>5, Zenon DEF return_to_outermost_scope
  <2>3. PopScopes(t, Depths).pos = s[1]
    BY <2>1, Fields
  <2>4. return_to_outermost_scope(t) = PosAndAfter(W(s[1], a, <<>>, g), s[1], <<>>)
    BY <2>1, <2>2, <2>3, Zenon DEF PosAndAfter
  <2>5. return_to_outermost_scope(t) = W(s[1], <<>>, <<>>, g)
    BY <2>4, PutTwo
  <2> QED BY <1>1, <1>3, <1>5, <2>5, Zenon
<1> QED BY <1>4, <1>5

(* A value that was waited for is passed by, and all the scopes with it. *)
LEMMA PassesBy ==
  ASSUME NEW i \in Pairs, NEW s \in Seq(Tops), s # <<>>, NEW g \in BOOLEAN, ~g
  PROVE  advance(W(<<i, 2>>, <<i, 2>>, s, g)) = W(s[1], <<>>, <<>>, g)
<1>s. s \in Seq(Positions) /\ s[1] \in Tops
  <2>1. Len(s) \in Nat /\ Len(s) > 0
    BY Innermost
  <2> QED BY <2>1, PositionLen
<1>i. i + 1 \in 1 .. 11
  BY DEF Pairs
<1>p. /\ <<i, 2>> \in Position /\ <<i + 1>> \in Tops /\ <<i + 1>> \in Position
      /\ <<>> \in Seq(Positions) /\ <<>> \in Position /\ s[1] \in Position /\ <<i + 1>> # <<>>
  <2>1. <<i + 1>> \in Tops
    BY <1>i DEF Tops
  <2>2. <<i, 2>> \in Positions
    BY PositionLen
  <2>3. <<i + 1>> \in Position /\ s[1] \in Position
    BY <1>s, <2>1, PositionLen
  <2> QED BY <2>1, <2>2, <2>3 DEF Position
<1>1. PICK t \in Traverser : t = W(<<i, 2>>, <<i, 2>>, s, g)
  BY <1>s, <1>p, IsTraverser
<1>2. PICK u \in Traverser : u = W(<<i + 1>>, <<i, 2>>, s, g)
  BY <1>s, <1>p, IsTraverser
<1>3. t.pos = <<i, 2>> /\ t.ignore = g
  BY <1>1, Fields
<1>4. u.pos = <<i + 1>> /\ u.after = <<i, 2>> /\ u.scopes = s
  BY <1>2, Fields
<1>5. [t EXCEPT !.pos = IF Hides(t) THEN next_after_siblings(@) ELSE dfs_next(@)] = u
  <2>1. (IF Hides(t) THEN next_after_siblings(<<i, 2>>) ELSE dfs_next(<<i, 2>>)) = <<i + 1>>
    BY <1>3, Steps, Zenon
  <2>2. [t EXCEPT !.pos = <<i + 1>>] = u
    BY <1>1, <1>2, PutPos
  <2> QED BY <1>3, <2>1, <2>2, Zenon
<1>6. ReturnAtEnd(u) = u
  BY <1>4, <1>p DEF ReturnAtEnd
<1>7. check_left_scope(u) = W(s[1], <<>>, <<>>, g)
  <2>1. u.after # <<>> /\ Len(u.pos) < Len(u.after)
    BY <1>4
  <2>2. PopScopes(u, {d \in Depths : d[1] >= d[2]}) = W(s[1], <<i, 2>>, <<>>, g)
    <3>1. <<1, 1>> \in {d \in Depths : d[1] >= d[2]}
      BY DEF Depths
    <3> QED BY <1>2, <1>p, <3>1, PopsAll
  <2>3. [W(s[1], <<i, 2>>, <<>>, g) EXCEPT !.after = <<>>] = W(s[1], <<>>, <<>>, g)
    BY PutAfter
  <2>4. check_left_scope(u) = PopScopes(W(s[1], <<>>, <<>>, g), {d \in Depths : d[1] > d[2]})
    BY <2>1, <2>2, <2>3, Zenon DEF check_left_scope
  <2>5. W(s[1], <<>>, <<>>, g) \in Traverser
    BY <1>p, IsTraverser
  <2>6. W(s[1], <<>>, <<>>, g).scopes = <<>>
    BY Fields
  <2> QED BY <2>4, <2>5, <2>6, PopsNone, Zenon
<1>8. advance(t) = check_left_scope(ReturnAtEnd(u))
  <2>1. ~is_last_in_path(t.pos)
    BY <1>3, LastInPath, Zenon
  <2> QED BY <1>5, <2>1, Zenon DEF advance
<1> QED BY <1>1, <1>6, <1>7, <1>8, Zenon

-----------------------------------------------------------------------------
(* FirstMatch is recursive along the walk. *)
MatchAt(u, arg) == <<[str |-> SubSeq(arg, 1, match(u.pos, arg)), at |-> u]>>

IsFind(find, arg, fitting) ==
  find = [u \in Traverser |->
            IF u.pos = <<>> THEN <<>>
            ELSE IF u.pos \in fitting THEN <<[str |-> SubSeq(arg, 1, match(u.pos, arg)), at |-> u]>>
            ELSE find[advance(u)]]

LEMMA FindExists ==
  ASSUME NEW arg, NEW fitting
  PROVE  \E find : IsFind(find, arg, fitting)
<1> DEFINE D == {u \in Traverser : u.pos = <<>> \/ u.pos \in fitting}
           r == [u \in Traverser |-> IF u.pos = <<>> THEN <<>> ELSE MatchAt(u, arg)]
           g == [u \in Traverser |-> advance(u)]
<1>1. ASSUME NEW u \in Traverser, u \notin D PROVE g[u] \in Traverser
  BY <1>1, AdvanceIsTraverser
<1>2. PICK f : CommaSteps!IsTailRecursive(f, Traverser, D, r, g)
  <2>1. \A u \in Traverser : u \notin D => g[u] \in Traverser
    BY <1>1
  <2> HIDE DEF D, r, g
  <2> QED BY <2>1, CommaSteps!TailRecursion
<1>3. IsFind(f, arg, fitting)
  <2>1. \A u \in Traverser : (IF u \in D THEN r[u] ELSE f[g[u]])
           = IF u.pos = <<>> THEN <<>>
             ELSE IF u.pos \in fitting
             THEN <<[str |-> SubSeq(arg, 1, match(u.pos, arg)), at |-> u]>>
             ELSE f[advance(u)]
    BY Zenon DEF MatchAt
  <2> HIDE DEF D, r, g
  <2> QED BY <1>2, <2>1, Zenon DEF IsFind, CommaSteps!IsTailRecursive
<1> QED BY <1>3

LEMMA FirstMatchIs ==
  ASSUME NEW arg, NEW fitting, NEW t \in Traverser
  PROVE  FirstMatch(t, arg, fitting)
         = IF t.pos = <<>> THEN <<>>
           ELSE IF t.pos \in fitting THEN MatchAt(t, arg)
           ELSE FirstMatch(advance(t), arg, fitting)
<1> DEFINE find == CHOOSE f : IsFind(f, arg, fitting)
<1>1. \A u : FirstMatch(u, arg, fitting) = find[u]
  BY Zenon DEF FirstMatch, IsFind
<1>2. IsFind(find, arg, fitting)
  BY FindExists, Zenon
<1> HIDE DEF find
<1>3. find[t] = IF t.pos = <<>> THEN <<>>
                ELSE IF t.pos \in fitting THEN MatchAt(t, arg) ELSE find[advance(t)]
  BY <1>2, Zenon DEF IsFind, MatchAt
<1>4. /\ FirstMatch(t, arg, fitting) = find[t]
      /\ FirstMatch(advance(t), arg, fitting) = find[advance(t)]
  BY <1>1, Zenon
<1> QED BY <1>3, <1>4

(* It looks at the flags and at the last parameter, and at no value. *)
Places == {Place(i) : i \in 1 .. 11}

LEMMA SearchLast ==
  ASSUME NEW arg, NEW fitting \in SUBSET Params,
         NEW a \in Position, NEW s \in Seq(Tops), NEW g \in BOOLEAN
  PROVE  FirstMatch(W(<<11>>, a, s, g), arg, fitting)
         = IF Place(11) \in fitting THEN MatchAt(W(Place(11), a, s, g), arg)
           ELSE IF s = <<>> THEN <<>>
           ELSE FirstMatch(W(s[1], <<>>, <<>>, g), arg, fitting)
<1>s. s \in Seq(Positions)
  BY PositionLen
<1>i. Place(11) = <<11>> /\ <<11>> \in Position /\ <<11>> # <<>> /\ Other = <<11>>
  BY PositionsAre DEF Place, Pairs, Position, Other
<1>1. PICK t \in Traverser : t = W(<<11>>, a, s, g)
  BY <1>s, <1>i, IsTraverser
<1>2. t.pos = <<11>>
  BY <1>1, Fields
<1>3. FirstMatch(t, arg, fitting)
      = IF <<11>> \in fitting THEN MatchAt(t, arg) ELSE FirstMatch(advance(t), arg, fitting)
  BY <1>2, <1>i, FirstMatchIs
<1>4. advance(t) = W(IF s = <<>> THEN <<>> ELSE s[1], <<>>, <<>>, g)
  BY <1>1, <1>i, GoesBack
<1>5. CASE s = <<>>
  <2>1. PICK u \in Traverser : u = W(<<>>, <<>>, <<>>, g)
    <3>1. <<>> \in Position /\ <<>> \in Seq(Positions)
      BY DEF Position
    <3> QED BY <3>1, IsTraverser
  <2>2. u.pos = <<>>
    BY <2>1, Fields
  <2>3. FirstMatch(u, arg, fitting) = <<>>
    BY <2>2, FirstMatchIs
  <2> QED BY <1>1, <1>3, <1>4, <1>5, <1>i, <2>1, <2>3
<1>6. CASE s # <<>>
  BY <1>1, <1>3, <1>4, <1>6, <1>i
<1> QED BY <1>5, <1>6

(***************************************************************************)
(* From the start of an entry the search comes to the first of the places  *)
(* after it that fits, and if none does, to the outermost scope.           *)
(***************************************************************************)
IsFoundFrom(m, i, arg, fitting, a, s, g) ==
  IF \E j \in i .. 11 : Place(j) \in fitting
  THEN \E j \in i .. 11 : Place(j) \in fitting /\ m = MatchAt(W(Place(j), a, s, g), arg)
  ELSE m = IF s = <<>> THEN <<>> ELSE FirstMatch(W(s[1], <<>>, <<>>, g), arg, fitting)

LEMMA SearchBack ==
  ASSUME NEW arg, NEW fitting \in SUBSET Params, NEW n \in 1 .. 10, NEW next, next = n + 1,
         NEW a \in Position, Len(a) <= 1, NEW s \in Seq(Tops), NEW g \in BOOLEAN, ~g,
         IsFoundFrom(FirstMatch(W(<<next>>, a, s, g), arg, fitting), next, arg, fitting, a, s, g)
  PROVE  IsFoundFrom(FirstMatch(W(<<n>>, a, s, g), arg, fitting), n, arg, fitting, a, s, g)
<1>0. /\ Place(n) \in fitting =>
           FirstMatch(W(<<n>>, a, s, g), arg, fitting) = MatchAt(W(Place(n), a, s, g), arg)
      /\ Place(n) \notin fitting =>
           FirstMatch(W(<<n>>, a, s, g), arg, fitting)
           = FirstMatch(W(<<next>>, a, s, g), arg, fitting)
  <2>s. s \in Seq(Positions)
    BY PositionLen
  <2>i. /\ <<n>> \in Positions /\ <<next>> \in Positions /\ Len(<<n>>) = 1 /\ Len(<<next>>) = 1
        /\ <<n>> # <<>> /\ <<n>> \in Position /\ ~is_last_in_path(<<n>>)
    <3>1. n \in 1 .. 11 /\ next \in 1 .. 11
      OBVIOUS
    <3>2. <<n>> \in Positions /\ <<next>> \in Positions
      BY <3>1, PositionsAre
    <3>3. ~is_last_in_path(<<n>>)
      BY LastInPath, Zenon
    <3> QED BY <3>2, <3>3 DEF Position
  <2>1. PICK t \in Traverser : t = W(<<n>>, a, s, g)
    BY <2>s, <2>i, IsTraverser
  <2>2. t.pos = <<n>>
    BY <2>1, Fields
  <2>a. Len(a) \in 0 .. 2
    BY PositionLen
  <2>3. CASE n \in Pairs
    <3>i. /\ <<n, 1>> \in Positions /\ Len(<<n, 1>>) = 2 /\ <<n, 1>> # <<>> /\ <<n, 1>> \in Position
          /\ ~is_last_in_path(<<n, 1>>) /\ Place(n) = <<n, 1>>
      <4>1. <<n, 1>> \in Positions
        BY <2>3, PositionsAre
      <4>2. ~is_last_in_path(<<n, 1>>)
        BY <2>3, LastInPath, Zenon
      <4>3. Place(n) = <<n, 1>>
        BY <2>3 DEF Place
      <4> QED BY <4>1, <4>2, <4>3 DEF Position
    <3>1. <<n>> \notin fitting
      BY <2>3, PairAt DEF Params
    <3>2. FirstMatch(t, arg, fitting) = FirstMatch(advance(t), arg, fitting)
      BY <2>2, <2>i, <3>1, FirstMatchIs
    <3>3. advance(t) = W(<<n, 1>>, a, s, g)
      <4>1. <<n, 1>> = NextPosition(<<n>>, g)
        BY <2>3, NextPositionIs
      <4>2. Len(a) <= Len(<<n, 1>>)
        BY <2>a, <3>i
      <4> QED BY <2>1, <2>i, <3>i, <4>1, <4>2, Goes, SMTT(40)
    <3>4. PICK u \in Traverser : u = W(<<n, 1>>, a, s, g)
      BY <2>s, <3>i, IsTraverser
    <3>5. u.pos = <<n, 1>>
      BY <3>4, Fields
    <3>6. FirstMatch(u, arg, fitting)
          = IF <<n, 1>> \in fitting THEN MatchAt(u, arg) ELSE FirstMatch(advance(u), arg, fitting)
      BY <3>5, <3>i, FirstMatchIs
    <3>7. advance(u) = W(<<next>>, a, s, g)
      <4>1. <<next>> = NextPosition(<<n, 1>>, g)
        BY <2>3, NextPositionIs
      <4>2. Len(a) <= Len(<<next>>)
        BY <2>a, <2>i
      <4> QED BY <3>4, <2>i, <3>i, <4>1, <4>2, Goes
    <3> QED BY <2>1, <3>2, <3>3, <3>4, <3>6, <3>7, <3>i
  <2>4. CASE n \notin Pairs
    <3>1. Place(n) = <<n>>
      BY <2>4 DEF Place
    <3>2. FirstMatch(t, arg, fitting)
          = IF <<n>> \in fitting THEN MatchAt(t, arg) ELSE FirstMatch(advance(t), arg, fitting)
      BY <2>2, <2>i, FirstMatchIs
    <3>3. advance(t) = W(<<next>>, a, s, g)
      <4>1. <<next>> = NextPosition(<<n>>, g)
        BY <2>4, NextPositionIs
      <4>2. Len(a) <= Len(<<next>>)
        BY <2>a, <2>i
      <4> QED BY <2>1, <2>i, <4>1, <4>2, Goes
    <3> QED BY <2>1, <3>1, <3>2, <3>3
  <2> QED BY <2>3, <2>4
<1> PICK m, f : /\ m = FirstMatch(W(<<n>>, a, s, g), arg, fitting)
                /\ f = FirstMatch(W(<<next>>, a, s, g), arg, fitting)
  OBVIOUS
<1>1. /\ Place(n) \in fitting => m = MatchAt(W(Place(n), a, s, g), arg)
      /\ Place(n) \notin fitting => m = f
  BY <1>0, Zenon
<1>2. IsFoundFrom(f, next, arg, fitting, a, s, g)
  OBVIOUS
<1>3. n .. 11 = {n} \cup (next .. 11)
  OBVIOUS
<1>4. IsFoundFrom(m, n, arg, fitting, a, s, g)
  <2>1. CASE Place(n) \in fitting
    BY <1>1, <1>3, <2>1, Zenon DEF IsFoundFrom
  <2>2. CASE Place(n) \notin fitting
    <3>1. m = f
      BY <1>1, <2>2
    <3>2. (\E j \in n .. 11 : Place(j) \in fitting) <=> \E j \in next .. 11 : Place(j) \in fitting
      BY <1>3, <2>2
    <3>3. CASE \E j \in next .. 11 : Place(j) \in fitting
      <4>1. PICK j \in next .. 11 :
              Place(j) \in fitting /\ f = MatchAt(W(Place(j), a, s, g), arg)
        BY <1>2, <3>3, Zenon DEF IsFoundFrom
      <4>2. j \in n .. 11
        BY <1>3
      <4> QED BY <3>1, <4>1, <4>2, Zenon DEF IsFoundFrom
    <3>4. CASE ~ \E j \in next .. 11 : Place(j) \in fitting
      BY <1>2, <3>1, <3>2, <3>4, Zenon DEF IsFoundFrom
    <3> QED BY <3>3, <3>4
  <2> QED BY <2>1, <2>2
<1> QED BY <1>4

LEMMA SearchFrom ==
  ASSUME NEW arg, NEW fitting \in SUBSET Params, NEW i \in 1 .. 11,
         NEW a \in Position, Len(a) <= 1, NEW s \in Seq(Tops), NEW g \in BOOLEAN, ~g
  PROVE  IsFoundFrom(FirstMatch(W(<<i>>, a, s, g), arg, fitting), i, arg, fitting, a, s, g)
<1> DEFINE R(n) == IsFoundFrom(FirstMatch(W(<<n>>, a, s, g), arg, fitting), n, arg, fitting, a, s, g)
<1>1. R(11)
  <2>1. \A j \in 11 .. 11 : j = 11
    OBVIOUS
  <2>2. 11 \in 11 .. 11
    OBVIOUS
  <2>3. PICK m : m = FirstMatch(W(<<11>>, a, s, g), arg, fitting)
    OBVIOUS
  <2>4. m = IF Place(11) \in fitting THEN MatchAt(W(Place(11), a, s, g), arg)
            ELSE IF s = <<>> THEN <<>>
            ELSE FirstMatch(W(s[1], <<>>, <<>>, g), arg, fitting)
    BY <2>3, SearchLast
  <2>5. CASE Place(11) \in fitting
    <3>1. m = MatchAt(W(Place(11), a, s, g), arg)
      BY <2>4, <2>5
    <3>2. IsFoundFrom(m, 11, arg, fitting, a, s, g)
      BY <2>2, <2>5, <3>1, Zenon DEF IsFoundFrom
    <3> QED BY <2>3, <3>2, Zenon
  <2>6. CASE Place(11) \notin fitting
    <3>1. m = IF s = <<>> THEN <<>> ELSE FirstMatch(W(s[1], <<>>, <<>>, g), arg, fitting)
      BY <2>4, <2>6
    <3>2. ~ \E j \in 11 .. 11 : Place(j) \in fitting
      BY <2>1, <2>6, Zenon
    <3>3. IsFoundFrom(m, 11, arg, fitting, a, s, g)
      BY <3>1, <3>2, Zenon DEF IsFoundFrom
    <3> QED BY <2>3, <3>3, Zenon
  <2> QED BY <2>5, <2>6
<1>2. ASSUME NEW n \in 1 .. 10, R(n + 1) PROVE R(n)
  BY <1>2, SearchBack
<1> HIDE DEF R
<1>3. \A n \in 1 .. 10 : R(n + 1) => R(n)
  BY <1>2
<1>4. R(i)
  <2>1. ASSUME NEW bad \in 0 .. 10, ~R(11 - bad) PROVE FALSE
    <3> DEFINE Wrong == {k \in 0 .. 10 : ~R(11 - k)}
    <3>0. Wrong # {}
      BY <2>1
    <3>1. PICK k \in Wrong : \A x \in Wrong : k <= x
      <4>1. Wrong \in SUBSET Nat
        OBVIOUS
      <4> HIDE DEF Wrong
      <4> QED BY <3>0, <4>1, CommaSteps!LeastElement
    <3>2. k \in 1 .. 10
      <4>1. k # 0
        BY <1>1, <3>1
      <4> QED BY <3>1, <4>1
    <3>3. R(11 - (k - 1))
      <4>1. k - 1 \in 0 .. 10 /\ ~ (k <= k - 1)
        BY <3>2
      <4> QED BY <3>1, <4>1
    <3>4. R(11 - k)
      <4>1. 11 - k \in 1 .. 10 /\ (11 - k) + 1 = 11 - (k - 1)
        BY <3>2
      <4> QED BY <1>3, <3>3, <4>1
    <3> QED BY <3>1, <3>4
  <2>2. PICK k \in 0 .. 10 : 11 - k = i
    <3>1. 11 - i \in 0 .. 10 /\ 11 - (11 - i) = i
      OBVIOUS
    <3> QED BY <3>1
  <2>3. R(11 - k)
    BY <2>1, Zenon
  <2> QED BY <2>2, <2>3, Zenon
<1> QED BY <1>4 DEF R

(***************************************************************************)
(* The traversers that the parser can have.  It is at the start of an      *)
(* entry, with the scopes of the options whose values it has not come      *)
(* back from, or at a value that it waits for.                             *)
(***************************************************************************)
Stops == {<<1>>, <<2>>, <<4>>, <<6>>, <<7>>}

Idle(t) == t.pos \in Stops /\ t.after \in {<<>>, t.pos}
           /\ (t.scopes = <<>> => t.pos = <<1>>)
WaitsFor(t, i) == t.pos = ValuePlace(i) /\ t.after = ValuePlace(i) /\ t.scopes # <<>>

PosOK(t) ==
  /\ t \in Traverser /\ ~t.ignore
  /\ t.scopes \in Seq(Stops) /\ (t.scopes # <<>> => t.scopes[1] = <<1>>)
  /\ Idle(t) \/ \E i \in Pairs : WaitsFor(t, i)

(* What is found, where its scopes are at the top. *)
IsFound(m, arg, fitting) ==
  \E j \in 1 .. 11 : \E a \in Position, s \in Seq(Tops), g \in BOOLEAN :
    /\ Place(j) \in fitting /\ Len(a) <= 1 /\ ~g
    /\ m = MatchAt(W(Place(j), a, s, g), arg)

SearchEnds(m, arg, fitting) ==
  IF \E j \in 1 .. 11 : Place(j) \in fitting THEN IsFound(m, arg, fitting) ELSE m = <<>>

LEMMA SearchTop ==
  ASSUME NEW arg, NEW fitting \in SUBSET Params,
         NEW i \in 1 .. 11, NEW a \in Position, Len(a) <= 1, NEW s \in Seq(Tops),
         s # <<>> => s[1] = << 1 >>, s = <<>> => i = 1, NEW g \in BOOLEAN, ~g
  PROVE  SearchEnds(FirstMatch(W(<<i>>, a, s, g), arg, fitting), arg, fitting)
<1> PICK m, f : /\ m = FirstMatch(W(<<i>>, a, s, g), arg, fitting)
                /\ f = FirstMatch(W(<<1>>, <<>>, <<>>, g), arg, fitting)
  OBVIOUS
<1>1. IsFoundFrom(m, i, arg, fitting, a, s, g)
  BY SearchFrom
<1>2. IsFoundFrom(f, 1, arg, fitting, <<>>, <<>>, g)
  <2>1. <<>> \in Position /\ Len(<<>>) <= 1 /\ <<>> \in Seq(Tops) /\ 1 \in 1 .. 11
    BY DEF Position
  <2> QED BY <2>1, SearchFrom
<1>e. <<>> \in Position /\ Len(<<>>) <= 1 /\ <<>> \in Seq(Tops) /\ i .. 11 \subseteq 1 .. 11
  BY DEF Position
<1> SUFFICES IF \E j \in 1 .. 11 : Place(j) \in fitting THEN IsFound(m, arg, fitting) ELSE m = <<>>
  BY Zenon DEF SearchEnds
<1>3. CASE \E j \in i .. 11 : Place(j) \in fitting
  <2>1. PICK j \in i .. 11 : Place(j) \in fitting /\ m = MatchAt(W(Place(j), a, s, g), arg)
    BY <1>1, <1>3, Zenon DEF IsFoundFrom
  <2>2. IsFound(m, arg, fitting)
    BY <2>1, <1>e, Zenon DEF IsFound
  <2> QED BY <2>2, <1>3, <1>e, Zenon
<1>4. CASE ~ (\E j \in i .. 11 : Place(j) \in fitting) /\ \E j \in 1 .. 11 : Place(j) \in fitting
  <2>1. s # <<>> /\ s[1] = <<1>>
    BY <1>4
  <2>2. m = f
    BY <1>1, <1>4, <2>1, Zenon DEF IsFoundFrom
  <2>3. PICK j \in 1 .. 11 : Place(j) \in fitting /\ f = MatchAt(W(Place(j), <<>>, <<>>, g), arg)
    BY <1>2, <1>4, Zenon DEF IsFoundFrom
  <2>4. IsFound(m, arg, fitting)
    BY <2>2, <2>3, <1>e, Zenon DEF IsFound
  <2> QED BY <2>4, <1>4, Zenon
<1>5. CASE ~ \E j \in 1 .. 11 : Place(j) \in fitting
  <2>1. ~ \E j \in i .. 11 : Place(j) \in fitting
    BY <1>5, <1>e
  <2>2. f = <<>>
    BY <1>2, <1>5, Zenon DEF IsFoundFrom
  <2>3. m = IF s = <<>> THEN <<>> ELSE f
    <3>1. m = IF s = <<>> THEN <<>> ELSE FirstMatch(W(s[1], <<>>, <<>>, g), arg, fitting)
      BY <1>1, <2>1, Zenon DEF IsFoundFrom
    <3> QED BY <3>1
  <2>4. m = <<>>
    BY <2>2, <2>3
  <2> QED BY <1>5, <2>4, Zenon
<1> QED BY <1>3, <1>4, <1>5

LEMMA StopsAre ==
  /\ Stops \subseteq Tops /\ \A p \in Stops : p \in Position /\ Len(p) = 1 /\ p \notin Values
  /\ \A p \in Stops : \E i \in 1 .. 11 : p = <<i>>
<1>1. Stops \subseteq Tops
  BY DEF Stops, Tops
<1>2. \A p \in Stops : p \in Position /\ Len(p) = 1
  BY <1>1, PositionLen
<1>3. \A p \in Stops : \E i \in {1, 2, 4, 6, 7} : p = <<i>>
  BY DEF Stops
<1>4. ASSUME NEW i \in {1, 2, 4, 6, 7} PROVE <<i>> \notin Values
  <2>1. CASE i \in Pairs
    <3>1. IsGroup(<<i>>)
      BY <2>1, PairAt
    <3> QED BY <3>1 DEF Values, Params
  <2>2. CASE i \notin Pairs
    <3>1. i \in (1 .. 10) \ Pairs
      BY <2>2
    <3>2. ~IsValue(<<i>>)
      BY <3>1, FlagAt DEF IsFlagAt
    <3> QED BY <3>2 DEF Values
  <2> QED BY <2>1, <2>2
<1>5. \A p \in Stops : p \notin Values
  BY <1>3, <1>4
<1> QED BY <1>1, <1>2, <1>3, <1>5

LEMMA SearchOK ==
  ASSUME NEW arg, NEW fitting \in SUBSET Params, NEW t, PosOK(t), Idle(t) \/ t.pos \notin fitting
  PROVE  SearchEnds(FirstMatch(t, arg, fitting), arg, fitting)
<1> PICK p, a, s, g : p = t.pos /\ a = t.after /\ s = t.scopes /\ g = t.ignore
  OBVIOUS
<1>1. /\ t = W(p, a, s, g) /\ p \in Position /\ a \in Position /\ g \in BOOLEAN /\ ~g
      /\ s \in Seq(Stops) /\ (s # <<>> => s[1] = <<1>>) /\ t \in Traverser
  BY TraverserIs DEF PosOK
<1>2. s \in Seq(Tops)
  BY <1>1, StopsAre
<1>3. CASE Idle(t)
  <2>1. PICK i \in 1 .. 11 : p = <<i>>
    BY <1>3, StopsAre DEF Idle
  <2>2. Len(a) <= 1
    <3>1. a = <<>> \/ a = <<i>>
      BY <1>3, <2>1 DEF Idle
    <3>2. Len(<<>>) <= 1 /\ Len(<<i>>) <= 1
      OBVIOUS
    <3> QED BY <3>1, <3>2
  <2>3. s = <<>> => i = 1
    BY <1>3, <2>1 DEF Idle
  <2>4. SearchEnds(FirstMatch(W(<<i>>, a, s, g), arg, fitting), arg, fitting)
    BY <1>1, <1>2, <2>2, <2>3, SearchTop
  <2> QED BY <1>1, <2>1, <2>4, Zenon
<1>4. CASE ~Idle(t)
  <2>1. PICK i \in Pairs : WaitsFor(t, i)
    BY <1>4 DEF PosOK
  <2>2. p = <<i, 2>> /\ a = <<i, 2>> /\ s # <<>> /\ p # <<>> /\ p \notin fitting
    BY <1>4, <2>1 DEF WaitsFor, ValuePlace
  <2>3. FirstMatch(t, arg, fitting) = FirstMatch(advance(t), arg, fitting)
    BY <1>1, <2>2, FirstMatchIs
  <2>4. advance(t) = W(<<1>>, <<>>, <<>>, g)
    <3>1. advance(t) = W(s[1], <<>>, <<>>, g)
      BY <1>1, <1>2, <2>2, PassesBy
    <3> QED BY <1>1, <2>2, <3>1
  <2>5. SearchEnds(FirstMatch(W(<<1>>, <<>>, <<>>, g), arg, fitting), arg, fitting)
    <3>p. <<>> \in Position /\ Len(<<>>) <= 1 /\ <<>> \in Seq(Tops)
      BY DEF Position
    <3>1. PICK e : e = <<>> /\ e \in Position /\ Len(e) <= 1 /\ e \in Seq(Tops)
      BY <3>p
    <3>g. g \in BOOLEAN /\ ~g
      BY <1>1
    <3>i. PICK one \in 1 .. 11 : one = 1
      OBVIOUS
    <3>c. e = <<>> => one = 1
      BY <3>i
    <3>d. e # <<>> => e[1] = <<1>>
      BY <3>1
    <3>3. SearchEnds(FirstMatch(W(<<one>>, e, e, g), arg, fitting), arg, fitting)
      BY <3>1, <3>g, <3>c, <3>d, SearchTop
    <3>2. SearchEnds(FirstMatch(W(<<1>>, e, e, g), arg, fitting), arg, fitting)
      BY <3>3, <3>i, Zenon
    <3> QED BY <3>1, <3>2, Zenon
  <2> QED BY <2>3, <2>4, <2>5, Zenon
<1> QED BY <1>3, <1>4

-----------------------------------------------------------------------------
(* The flags of an option, and how much of a text they match. *)
FlagsOf(j) == At(Place(j)).flags

LEMMA FlagsAre ==
  ASSUME NEW j \in 1 .. 10
  PROVE  \E f, g : FlagsOf(j) = <<f, g>> /\ IsFlagOf(f, j) /\ IsFlagOf(g, j)
BY PlaceIs, Zenon DEF IsFlagAt, IsFlagEntry, FlagsOf

LEMMA FlagSet ==
  ASSUME NEW j \in 1 .. 10
  PROVE  \E f, g : ToSet(FlagsOf(j)) = {f, g} /\ IsFlagOf(f, j) /\ IsFlagOf(g, j)
<1>1. PICK f, g : FlagsOf(j) = <<f, g>> /\ IsFlagOf(f, j) /\ IsFlagOf(g, j)
  BY FlagsAre
<1>2. ToSet(FlagsOf(j)) = {f, g}
  BY <1>1 DEF ToSet
<1> QED BY <1>1, <1>2

LEMMA PrefixIs ==
  ASSUME NEW j, NEW f, IsFlagOf(f, j), NEW arg \in Seq(STRING), IsPrefix(f, arg)
  PROVE  /\ Len(f) \in 1 .. Len(arg) /\ SubSeq(arg, 1, Len(f)) = f /\ f[1] = arg[1]
         /\ Len(f) = Len(arg) => f = arg
<1>1. f \in Seq({f[1], "ns"}) /\ Len(f) \in {1, 2}
  <2>1. CASE f = <<f[1]>>
    <3>1. PICK x : f = <<x>>
      BY <2>1
    <3> QED BY <3>1
  <2>2. CASE f = <<"-d", "ns">>
    BY <2>2
  <2> QED BY <2>1, <2>2 DEF IsFlagOf
<1>2. SubSeq(f, 1, Len(f)) = f
  BY <1>1
<1>3. Len(f) <= Len(arg) /\ SubSeq(arg, 1, Len(f)) = f
  BY <1>2 DEF IsPrefix
<1>4. SubSeq(arg, 1, Len(f))[1] = arg[1]
  BY <1>1, <1>3
<1>5. Len(f) = Len(arg) => SubSeq(arg, 1, Len(f)) = arg
  OBVIOUS
<1> QED BY <1>1, <1>3, <1>4, <1>5

LEMMA PrefixItself ==
  ASSUME NEW arg \in Seq(STRING)
  PROVE  IsPrefix(arg, arg)
BY DEF IsPrefix

LEMMA MatchIs ==
  ASSUME NEW j \in 1 .. 10, NEW arg \in Seq(STRING), NEW n, n = match(Place(j), arg)
  PROVE  /\ n \in 0 .. Len(arg) /\ n = longest_prefix_match(arg, FlagsOf(j))
         /\ n > 0 => \E f \in ToSet(FlagsOf(j)) : IsPrefix(f, arg) /\ Len(f) = n
         /\ \A f \in ToSet(FlagsOf(j)) : IsPrefix(f, arg) => n > 0 /\ n >= Len(f)
<1>1. n = longest_prefix_match(arg, FlagsOf(j))
  <2>1. ~IsValue(Place(j))
    BY PlaceIs DEF IsFlagAt
  <2> QED BY <2>1, Zenon DEF match, FlagsOf
<1>2. PICK f, g : ToSet(FlagsOf(j)) = {f, g} /\ IsFlagOf(f, j) /\ IsFlagOf(g, j)
  BY FlagSet
<1>3. PICK S : S = {h \in ToSet(FlagsOf(j)) : IsPrefix(h, arg)}
  OBVIOUS
<1>4. n = LongestOf(S)
  BY <1>1, <1>3, Zenon DEF longest_prefix_match
<1>5. S \subseteq {f, g} /\ \A h \in S : Len(h) \in 1 .. Len(arg)
  <2>1. S \subseteq {f, g}
    BY <1>2, <1>3
  <2>2. \A h \in S : IsFlagOf(h, j) /\ IsPrefix(h, arg)
    BY <1>2, <1>3, <2>1
  <2> QED BY <2>1, <2>2, PrefixIs
<1>6. CASE S = {}
  <2>1. n = 0
    BY <1>4, <1>6 DEF LongestOf
  <2>2. \A h \in ToSet(FlagsOf(j)) : ~IsPrefix(h, arg)
    BY <1>3, <1>6
  <2> QED BY <1>1, <2>1, <2>2
<1>7. CASE S # {}
  <2>1. \E h \in S : \A k \in S : Len(h) >= Len(k)
    BY <1>5, <1>7
  <2>2. PICK h \in S : (\A k \in S : Len(h) >= Len(k)) /\ n = Len(h)
    BY <1>4, <1>7, <2>1, Zenon DEF LongestOf
  <2>3. n \in 1 .. Len(arg)
    BY <1>5, <2>2
  <2>4. h \in ToSet(FlagsOf(j)) /\ IsPrefix(h, arg)
    BY <1>3, <2>2
  <2>5. \A k \in ToSet(FlagsOf(j)) : IsPrefix(k, arg) => n >= Len(k)
    BY <1>3, <2>2
  <2> QED BY <1>1, <2>2, <2>3, <2>4, <2>5
<1> QED BY <1>6, <1>7

(* The options that a text is a flag of, and those that it begins with. *)
WholeAt(arg) == {j \in 1 .. 10 : arg \in ToSet(FlagsOf(j))}
OpenAt(arg)  == {j \in 1 .. 10 : \E f \in ToSet(FlagsOf(j)) : IsPrefix(f, arg)}

LEMMA OnlyWhole ==
  ASSUME NEW arg, NEW i \in WholeAt(arg), NEW j \in WholeAt(arg)
  PROVE  i = j
<1>1. IsFlagOf(arg, i) /\ IsFlagOf(arg, j)
  <2>1. ASSUME NEW k \in WholeAt(arg) PROVE IsFlagOf(arg, k)
    <3>1. k \in 1 .. 10 /\ arg \in ToSet(FlagsOf(k))
      BY DEF WholeAt
    <3> QED BY <3>1, FlagSet
  <2> QED BY <2>1
<1>2. ~ (arg = <<arg[1]>> /\ arg = <<"-d", "ns">>)
  OBVIOUS
<1> QED BY <1>1, <1>2 DEF IsFlagOf

LEMMA OnlyOpen ==
  ASSUME NEW arg \in Seq(STRING), NEW i \in OpenAt(arg), i \in Pairs, NEW j \in OpenAt(arg)
  PROVE  i = j
<1>1. ASSUME NEW k \in OpenAt(arg)
      PROVE  Owner(arg[1]) = k \/ (k = 4 /\ arg[1] = "-d")
  <2>1. PICK f \in ToSet(FlagsOf(k)) : IsPrefix(f, arg)
    BY DEF OpenAt
  <2>2. IsFlagOf(f, k)
    <3>1. k \in 1 .. 10
      BY DEF OpenAt
    <3> QED BY <2>1, <3>1, FlagSet
  <2>3. f[1] = arg[1]
    BY <2>1, <2>2, PrefixIs
  <2>4. CASE f = <<f[1]>> /\ Owner(f[1]) = k
    BY <2>3, <2>4
  <2>5. CASE k = 4 /\ f = <<"-d", "ns">>
    BY <2>3, <2>5
  <2> QED BY <2>2, <2>4, <2>5 DEF IsFlagOf
<1>2. i # 4
  BY DEF Pairs
<1>3. Owner("-d") = 2 /\ 2 \notin Pairs
  BY DEF Owner, Pairs
<1>4. Owner(arg[1]) = i
  BY <1>1, <1>2
<1>5. arg[1] # "-d"
  BY <1>3, <1>4
<1> QED BY <1>1, <1>4, <1>5

LEMMA MatchCases ==
  ASSUME NEW arg \in Seq(STRING), arg # <<>>, NEW j \in 1 .. 10
  PROVE  /\ match(Place(j), arg) = Len(arg) <=> j \in WholeAt(arg)
         /\ match(Place(j), arg) > 0 <=> j \in OpenAt(arg)
         /\ j \in WholeAt(arg) => j \in OpenAt(arg)
<1> PICK n : n = match(Place(j), arg)
  OBVIOUS
<1>1. /\ n \in 0 .. Len(arg)
      /\ n > 0 => \E f \in ToSet(FlagsOf(j)) : IsPrefix(f, arg) /\ Len(f) = n
      /\ \A f \in ToSet(FlagsOf(j)) : IsPrefix(f, arg) => n > 0 /\ n >= Len(f)
  BY MatchIs
<1>2. Len(arg) \in Nat /\ Len(arg) > 0
  BY EmptySeq
<1>3. n > 0 <=> j \in OpenAt(arg)
  BY <1>1, Zenon DEF OpenAt
<1>4. n = Len(arg) => j \in WholeAt(arg)
  <2>1. SUFFICES ASSUME n = Len(arg) PROVE j \in WholeAt(arg)
    OBVIOUS
  <2>2. PICK f \in ToSet(FlagsOf(j)) : IsPrefix(f, arg) /\ Len(f) = n
    BY <1>1, <1>2, <2>1
  <2>3. IsFlagOf(f, j)
    BY <2>2, FlagSet
  <2>4. f = arg
    BY <2>1, <2>2, <2>3, PrefixIs
  <2> QED BY <2>2, <2>4 DEF WholeAt
<1>5. j \in WholeAt(arg) => n = Len(arg) /\ j \in OpenAt(arg)
  <2>1. SUFFICES ASSUME j \in WholeAt(arg) PROVE n = Len(arg) /\ j \in OpenAt(arg)
    OBVIOUS
  <2>2. arg \in ToSet(FlagsOf(j)) /\ IsPrefix(arg, arg)
    BY <2>1, PrefixItself DEF WholeAt
  <2>3. n >= Len(arg)
    BY <1>1, <2>2
  <2>4. j \in OpenAt(arg)
    BY <2>2, Zenon DEF OpenAt
  <2>r. PICK l \in Nat : l = Len(arg)
    BY <1>2
  <2>5. n = Len(arg)
    <3>1. n \in 0 .. l /\ n >= l
      BY <1>1, <2>3, <2>r
    <3>3. \A x \in Nat : \A y \in 0 .. x : y >= x => y = x
      OBVIOUS
    <3>2. n = l
      BY <3>1, <3>3, Zenon
    <3> QED BY <2>r, <3>2
  <2> QED BY <2>4, <2>5
<1> QED BY <1>3, <1>4, <1>5

-----------------------------------------------------------------------------
(***************************************************************************)
(* What an argument matches, where the parser can be: a flag as a whole,   *)
(* a flag and its value, or a value, which may be the one for the rest.    *)
(***************************************************************************)
IsOne(m, arg, p) == \E u : m = <<[str |-> arg, at |-> u]>> /\ u.pos = p

Split(arg, n, u, v) ==
  <<[str |-> SubSeq(arg, 1, n), at |-> u], [str |-> SubSeq(arg, n + 1, Len(arg)), at |-> v]>>

IsTwo(m, arg, i) ==
  \E u, v : /\ m = Split(arg, match(Place(i), arg), u, v)
            /\ u.pos = Place(i) /\ v.pos = ValuePlace(i)

WholeFit(arg) == {p \in Flags : match(p, arg) = Len(arg)}
OpenFit(arg)  == {p \in Flags : match(p, arg) > 0}

LEMMA NoFlag ==
  /\ Other \notin Flags /\ Place(11) = Other /\ \A i \in Pairs : ValuePlace(i) \notin Flags
  /\ \A j \in 1 .. 10 : Place(j) \in Flags /\ Place(j) \notin Values
<1>1. Other \notin Flags
  BY OtherAt DEF Flags
<1>2. Place(11) = Other
  BY DEF Place, Other, Pairs
<1>3. \A i \in Pairs : ValuePlace(i) \notin Flags
  <2>1. \A i \in Pairs : IsValue(<<i, 2>>)
    BY PairAt DEF IsValueAt
  <2> QED BY <2>1 DEF Flags, ValuePlace
<1>4. \A j \in 1 .. 10 : Place(j) \in Flags
  BY ParamsAre
<1>5. \A j \in 1 .. 10 : Place(j) \notin Values
  BY <1>4 DEF Flags, Values
<1> QED BY <1>1, <1>2, <1>3, <1>4, <1>5

LEMMA FitsAre ==
  ASSUME NEW arg \in Seq(STRING), arg # <<>>, NEW j \in 1 .. 11
  PROVE  /\ Place(j) \in WholeFit(arg) <=> j \in WholeAt(arg)
         /\ Place(j) \in OpenFit(arg) <=> j \in OpenAt(arg)
<1>1. CASE j = 11
  <2>1. Place(j) \notin Flags
    BY <1>1, NoFlag
  <2>2. j \notin 1 .. 10
    BY <1>1
  <2> QED BY <2>1, <2>2 DEF WholeFit, OpenFit, WholeAt, OpenAt
<1>2. CASE j # 11
  <2>1. j \in 1 .. 10
    BY <1>2
  <2>2. Place(j) \in Flags
    BY <2>1, NoFlag
  <2>3. match(Place(j), arg) = Len(arg) <=> j \in WholeAt(arg)
    BY <2>1, MatchCases
  <2>4. match(Place(j), arg) > 0 <=> j \in OpenAt(arg)
    BY <2>1, MatchCases
  <2> QED BY <2>2, <2>3, <2>4 DEF WholeFit, OpenFit
<1> QED BY <1>1, <1>2

LEMMA FitsOK ==
  ASSUME NEW arg, NEW t, PosOK(t)
  PROVE  /\ WholeFit(arg) \in SUBSET Params /\ OpenFit(arg) \in SUBSET Params
         /\ Idle(t) \/ t.pos \notin WholeFit(arg)
         /\ Idle(t) \/ t.pos \notin OpenFit(arg)
<1>1. Flags \subseteq Params
  BY ParamsAre
<1>2. Idle(t) \/ t.pos \notin Flags
  BY NoFlag DEF PosOK, WaitsFor
<1> QED BY <1>1, <1>2 DEF WholeFit, OpenFit

LEMMA SubSeqWhole ==
  ASSUME NEW S, NEW s \in Seq(S)
  PROVE  SubSeq(s, 1, Len(s)) = s
OBVIOUS

LEMMA Parts ==
  ASSUME NEW S, NEW s \in Seq(S), NEW n \in 0 .. Len(s), NEW next, next = n + 1
  PROVE  /\ SubSeq(s, 1, n) \in Seq(S) /\ Len(SubSeq(s, 1, n)) = n
         /\ SubSeq(s, next, Len(s)) \in Seq(S) /\ Len(SubSeq(s, next, Len(s))) = Len(s) - n
         /\ SubSeq(s, 1, n) \o SubSeq(s, next, Len(s)) = s
<1>1. SubSeq(s, 1, n) \in Seq(S) /\ Len(SubSeq(s, 1, n)) = n
  OBVIOUS
<1>2. SubSeq(s, next, Len(s)) \in Seq(S) /\ Len(SubSeq(s, next, Len(s))) = Len(s) - n
  OBVIOUS
<1>3. SubSeq(s, 1, n) \o SubSeq(s, next, Len(s)) = s
  <2>1. \A i \in 1 .. n : SubSeq(s, 1, n)[i] = s[i]
    OBVIOUS
  <2>2. \A i \in 1 .. Len(s) - n : SubSeq(s, next, Len(s))[i] = s[i + n]
    OBVIOUS
  <2>3. Len(s) \in Nat /\ n \in Nat /\ n <= Len(s)
    BY LenProperties
  <2>4. PICK l \in Nat : l = Len(s)
    BY <2>3
  <2>5. PICK k \in Nat : k = n /\ k <= l
    BY <2>3, <2>4
  <2>6. PICK a \in Seq(S) : a = SubSeq(s, 1, n)
    BY <1>1
  <2>7. PICK b \in Seq(S) : b = SubSeq(s, next, Len(s))
    BY <1>2
  <2>8. \A i \in 1 .. k : a[i] = s[i]
    BY <2>1, <2>5, <2>6
  <2>9. \A i \in 1 .. l - k : b[i] = s[i + k]
    BY <2>2, <2>4, <2>5, <2>7
  <2>10. Len(a) = k /\ Len(b) = l - k
    BY <1>1, <1>2, <2>4, <2>5, <2>6, <2>7
  <2>11. a \o b = s
    <3>1. a \o b \in Seq(S) /\ Len(a \o b) = l
      <4>1. a \o b \in Seq(S) /\ Len(a \o b) = Len(a) + Len(b)
        BY ConcatProperties
      <4>2. k + (l - k) = l
        OBVIOUS
      <4> QED BY <2>10, <4>1, <4>2
    <3>2. ASSUME NEW i \in 1 .. l PROVE (a \o b)[i] = s[i]
      <4>1. CASE i <= k
        <5>1. i \in 1 .. k
          BY <4>1
        <5>2. (a \o b)[i] = a[i]
          BY <2>10, <5>1
        <5> QED BY <2>8, <5>1, <5>2
      <4>2. CASE i > k
        <5>1. i - k \in 1 .. l - k /\ (i - k) + k = i
          BY <4>2
        <5>2. (a \o b)[i] = b[i - k]
          BY <2>10, <2>5, <4>2, <5>1
        <5>3. b[i - k] = s[(i - k) + k]
          BY <2>9, <5>1
        <5> QED BY <5>1, <5>2, <5>3
      <4>3. i <= k \/ i > k
        OBVIOUS
      <4> QED BY <4>1, <4>2, <4>3, Zenon
    <3> QED BY <2>4, <3>1, <3>2, SeqEqual
  <2> QED BY <2>6, <2>7, <2>11
<1> QED BY <1>1, <1>2, <1>3

LEMMA PartAfter ==
  ASSUME NEW S, NEW s \in Seq(S), NEW n \in 0 .. Len(s), NEW b, b = SubSeq(s, n + 1, Len(s))
  PROVE  b \in Seq(S) /\ Len(b) = Len(s) - n
OBVIOUS

LEMMA MatchedWhole ==
  ASSUME NEW arg \in Seq(STRING), NEW u, match(u.pos, arg) = Len(arg)
  PROVE  MatchAt(u, arg) = <<[str |-> arg, at |-> u]>>
<1>1. SubSeq(arg, 1, Len(arg)) = arg
  BY SubSeqWhole
<1> QED BY <1>1, Zenon DEF MatchAt

LEMMA TryWhole ==
  ASSUME NEW t, PosOK(t), NEW arg \in Seq(STRING), arg # <<>>, NEW j \in WholeAt(arg)
  PROVE  IsOne(try_match(t, arg), arg, Place(j))
<1> PICK m : m = full_match(t, arg, Flags)
  OBVIOUS
<1>j. j \in 1 .. 10 /\ j \in 1 .. 11
  BY DEF WholeAt
<1>1. m = FirstMatch(t, arg, WholeFit(arg))
  BY Zenon DEF full_match, WholeFit
<1>2. SearchEnds(m, arg, WholeFit(arg))
  BY <1>1, FitsOK, SearchOK
<1>3. IsFound(m, arg, WholeFit(arg))
  <2>1. Place(j) \in WholeFit(arg)
    BY <1>j, FitsAre
  <2> QED BY <1>2, <1>j, <2>1, Zenon DEF SearchEnds
<1>4. PICK k \in 1 .. 11, a \in Position, s \in Seq(Tops), g \in BOOLEAN :
        Place(k) \in WholeFit(arg) /\ m = MatchAt(W(Place(k), a, s, g), arg)
  BY <1>3, Zenon DEF IsFound
<1>5. k \in WholeAt(arg)
  BY <1>4, FitsAre
<1>6. k = j
  BY <1>5, OnlyWhole
<1> PICK u : u = W(Place(k), a, s, g)
  OBVIOUS
<1>7. u.pos = Place(j)
  BY <1>6, Fields
<1>8. match(u.pos, arg) = Len(arg)
  BY <1>7, <1>j, MatchCases
<1>9. m = <<[str |-> arg, at |-> u]>>
  BY <1>4, <1>8, MatchedWhole
<1>10. m # <<>>
  BY <1>9
<1>11. try_match(t, arg) = m
  BY <1>10, Zenon DEF try_match, OrElse
<1> QED BY <1>7, <1>9, <1>11, Zenon DEF IsOne

LEMMA NoWhole ==
  ASSUME NEW t, PosOK(t), NEW arg \in Seq(STRING), arg # <<>>, WholeAt(arg) = {}
  PROVE  full_match(t, arg, Flags) = <<>>
<1> PICK m : m = full_match(t, arg, Flags)
  OBVIOUS
<1>1. m = FirstMatch(t, arg, WholeFit(arg))
  BY Zenon DEF full_match, WholeFit
<1>2. SearchEnds(m, arg, WholeFit(arg))
  BY <1>1, FitsOK, SearchOK
<1>3. \A k \in 1 .. 11 : Place(k) \notin WholeFit(arg)
  BY FitsAre
<1>4. m = <<>>
  BY <1>2, <1>3, Zenon DEF SearchEnds
<1> QED BY <1>4

(* What begins an argument, if that is no flag. *)
IsBegun(m, arg) ==
  \/ m = <<>> /\ OpenAt(arg) = {}
  \/ \E k \in OpenAt(arg), a \in Position, s \in Seq(Tops), g \in BOOLEAN :
       ~g /\ Len(a) <= 1 /\ m = MatchAt(W(Place(k), a, s, g), arg)

LEMMA Begins ==
  ASSUME NEW t, PosOK(t), NEW arg \in Seq(STRING), arg # <<>>
  PROVE  IsBegun(prefix_match(t, arg, Flags), arg)
<1> PICK m : m = prefix_match(t, arg, Flags)
  OBVIOUS
<1>1. m = FirstMatch(t, arg, OpenFit(arg))
  BY Zenon DEF prefix_match, OpenFit
<1>2. SearchEnds(m, arg, OpenFit(arg))
  BY <1>1, FitsOK, SearchOK
<1>3. CASE \E k \in 1 .. 11 : Place(k) \in OpenFit(arg)
  <2>1. IsFound(m, arg, OpenFit(arg))
    BY <1>2, <1>3, Zenon DEF SearchEnds
  <2>2. PICK k \in 1 .. 11, a \in Position, s \in Seq(Tops), g \in BOOLEAN :
          /\ Place(k) \in OpenFit(arg) /\ Len(a) <= 1 /\ ~g
          /\ m = MatchAt(W(Place(k), a, s, g), arg)
    BY <2>1, Zenon DEF IsFound
  <2>3. k \in OpenAt(arg)
    BY <2>2, FitsAre
  <2>4. IsBegun(m, arg)
    BY <2>2, <2>3, Zenon DEF IsBegun
  <2> QED BY <2>4
<1>4. CASE ~ \E k \in 1 .. 11 : Place(k) \in OpenFit(arg)
  <2>1. m = <<>>
    BY <1>2, <1>4, Zenon DEF SearchEnds
  <2>2. OpenAt(arg) = {}
    <3>1. \A k \in 1 .. 11 : k \notin OpenAt(arg)
      BY <1>4, FitsAre
    <3>2. OpenAt(arg) \subseteq 1 .. 11
      BY DEF OpenAt
    <3> QED BY <3>1, <3>2
  <2>3. IsBegun(m, arg)
    BY <2>1, <2>2, Zenon DEF IsBegun
  <2> QED BY <2>3
<1> QED BY <1>3, <1>4

(* Only a part of an argument that is no flag is matched. *)
LEMMA OnlyAPart ==
  ASSUME NEW arg \in Seq(STRING), arg # <<>>, WholeAt(arg) = {}, NEW k \in OpenAt(arg),
         NEW n, n = match(Place(k), arg)
  PROVE  n \in 1 .. Len(arg) - 1 /\ SubSeq(arg, 1, n) # arg /\ Len(SubSeq(arg, 1, n)) = n
<1>k. k \in 1 .. 10
  BY DEF OpenAt
<1>1. n \in 0 .. Len(arg)
  BY <1>k, MatchIs
<1>2. n # Len(arg) /\ n > 0
  BY <1>k, MatchCases
<1>3. \A x \in Nat : \A y \in 0 .. x : y # x /\ y > 0 => y \in 1 .. x - 1
  OBVIOUS
<1>l. Len(arg) \in Nat
  BY LenProperties
<1>4. n \in 1 .. Len(arg) - 1
  BY <1>1, <1>2, <1>3, <1>l, Zenon
<1>5. Len(SubSeq(arg, 1, n)) = n
  BY <1>1, Parts
<1>6. SubSeq(arg, 1, n) # arg
  BY <1>2, <1>5
<1> QED BY <1>4, <1>5, <1>6

(* The rest of an argument: what it is where each of its parts begins. *)
RestStep(r, x) == <<[str |-> SubSeq(r[2], 1, match(r[1].pos, r[2])), at |-> r[1]]>> \o x

RestSteps == INSTANCE Recursion WITH Op <- RestStep

IsRest(rest, parent) ==
  rest = [r \in Traverser \X Seq(STRING) |->
            IF r[2] = <<>> THEN <<>>
            ELSE IF ~Covers(r[1], r[2], parent) THEN <<[str |-> <<>>, at |-> r[1]]>>
            ELSE <<[str |-> SubSeq(r[2], 1, match(r[1].pos, r[2])), at |-> r[1]]>>
                 \o rest[<<advance(r[1]),
                           SubSeq(r[2], match(r[1].pos, r[2]) + 1, Len(r[2]))>>]]

LEMMA CoversPart ==
  ASSUME NEW u \in Traverser, NEW text \in Seq(STRING), text # <<>>, NEW parent,
         Covers(u, text, parent)
  PROVE  match(u.pos, text) \in 1 .. Len(text)
<1>1. u.pos \in Positions /\ At(u.pos).blocking /\ match(u.pos, text) > 0
  BY TraverserIs DEF Covers, Position
<1>l. Len(text) \in Nat /\ Len(text) > 0
  BY LenProperties, EmptySeq
<1>2. u.pos \in Params
  <2>1. ASSUME IsGroup(u.pos) PROVE FALSE
    <3>1. ASSUME NEW i \in 1 .. 11, u.pos = <<i>> PROVE FALSE
      <4>1. i \in Pairs
        BY <2>1, <3>1, PositionsAre
      <4> QED BY <1>1, <3>1, <4>1, PairAt
    <3>2. ASSUME NEW i \in Pairs, NEW k \in {1, 2}, u.pos = <<i, k>> PROVE FALSE
      <4>1. ~IsGroup(<<i, 1>>) /\ ~IsGroup(<<i, 2>>)
        BY PairAt DEF IsFlagAt, IsValueAt
      <4> QED BY <2>1, <3>2, <4>1
    <3>3. u.pos \in {<<i>> : i \in 1 .. 11} \/ u.pos \in {<<i, k>> : i \in Pairs, k \in {1, 2}}
      BY <1>1, PositionsAre
    <3>4. u.pos \notin {<<i>> : i \in 1 .. 11}
      BY <3>1
    <3>5. u.pos \notin {<<i, k>> : i \in Pairs, k \in {1, 2}}
      BY <3>2
    <3> QED BY <3>3, <3>4, <3>5
  <2> QED BY <1>1, <2>1 DEF Params
<1>3. CASE u.pos \in Flags
  <2>1. PICK j \in 1 .. 10 : u.pos = Place(j)
    BY <1>3, ParamsAre
  <2>2. PICK n : n = match(u.pos, text)
    OBVIOUS
  <2>3. n \in 0 .. Len(text) /\ n > 0
    BY <1>1, <2>1, <2>2, MatchIs
  <2>4. \A l \in Nat : \A k \in 0 .. l : k > 0 => k \in 1 .. l
    OBVIOUS
  <2>5. n \in 1 .. Len(text)
    BY <1>l, <2>3, <2>4, Zenon
  <2> QED BY <2>2, <2>5
<1>4. CASE u.pos \in Values
  <2>1. match(u.pos, text) = Len(text)
    BY <1>4 DEF match, Values
  <2> QED BY <1>l, <2>1
<1> QED BY <1>2, <1>3, <1>4, ParamsAre

LEMMA RestExists ==
  ASSUME NEW parent
  PROVE  \E rest : IsRest(rest, parent)
<1> DEFINE T == Traverser \X Seq(STRING)
           Left(r) == <<advance(r[1]), SubSeq(r[2], match(r[1].pos, r[2]) + 1, Len(r[2]))>>
           D == {r \in T : r[2] = <<>> \/ ~Covers(r[1], r[2], parent)}
           b == [r \in T |-> IF r[2] = <<>> THEN <<>> ELSE <<[str |-> <<>>, at |-> r[1]]>>]
           g == [r \in T |-> Left(r)]
           m == [r \in T |-> Len(r[2])]
<1>1. RestSteps!Nearer(T, D, g, m)
  <2>1. m \in [T -> Nat]
    BY LenProperties
  <2>2. ASSUME NEW r \in T, r \notin D PROVE g[r] \in T /\ m[g[r]] < m[r]
    <3> PICK u \in Traverser, text \in Seq(STRING) : u = r[1] /\ text = r[2]
      OBVIOUS
    <3>1. text # <<>> /\ Covers(u, text, parent)
      BY <2>2
    <3>2. advance(u) \in Traverser
      BY <3>1, AdvanceIsTraverser DEF Covers
    <3>3. PICK n : n = match(u.pos, text)
      OBVIOUS
    <3>4. n \in 1 .. Len(text)
      BY <3>1, <3>3, CoversPart
    <3>5. PICK t : t = SubSeq(text, n + 1, Len(text))
      OBVIOUS
    <3>6. t \in Seq(STRING) /\ Len(t) = Len(text) - n
      <4>1. n \in 0 .. Len(text)
        BY <3>4
      <4> QED BY <3>5, <4>1, Parts
    <3>7. Len(t) < Len(text)
      BY <3>4, <3>6, LenProperties
    <3>8. g[r] = <<advance(u), t>>
      BY <3>3, <3>5
    <3>9. g[r] \in T /\ g[r][2] = t
      BY <3>2, <3>6, <3>8
    <3>10. m[g[r]] = Len(t) /\ m[r] = Len(text)
      BY <3>9
    <3> QED BY <3>7, <3>9, <3>10
  <2> HIDE DEF T, D, g, m
  <2> QED BY <2>1, <2>2, Zenon DEF RestSteps!Nearer
<1>2. PICK f : RestSteps!IsRecursive(f, T, D, b, g)
  <2> HIDE DEF T, D, b, g, m
  <2> QED BY <1>1, RestSteps!MeasuredRecursion
<1>3. IsRest(f, parent)
  <2>1. \A r \in T : (IF r \in D THEN b[r] ELSE RestStep(r, f[g[r]]))
           = IF r[2] = <<>> THEN <<>>
             ELSE IF ~Covers(r[1], r[2], parent) THEN <<[str |-> <<>>, at |-> r[1]]>>
             ELSE RestStep(r, f[Left(r)])
    <3> HIDE DEF T, Left
    <3> QED BY Zenon
  <2> HIDE DEF D, b, g
  <2>2. f = [r \in T |-> IF r[2] = <<>> THEN <<>>
             ELSE IF ~Covers(r[1], r[2], parent) THEN <<[str |-> <<>>, at |-> r[1]]>>
             ELSE RestStep(r, f[Left(r)])]
    <3> HIDE DEF T, Left
    <3> QED BY <1>2, <2>1, Zenon DEF RestSteps!IsRecursive
  <2> QED BY <2>2, Zenon DEF IsRest, RestStep
<1> QED BY <1>3

Ignores(t, x) == [t EXCEPT !.ignore = x]

LEMMA PutIgnores ==
  ASSUME NEW p, NEW a, NEW s, NEW g, NEW x
  PROVE  Ignores(W(p, a, s, g), x) = W(p, a, s, x)
BY PutIgnore DEF Ignores

LEMMA RestOf ==
  ASSUME NEW first, NEW arg
  PROVE  Rest(first, arg)
         = (CHOOSE f : IsRest(f, Front(first.at.pos)))
             [<<advance(Ignores(first.at, TRUE)), SubSeq(arg, Len(first.str) + 1, Len(arg))>>]
BY Zenon DEF Rest, IsRest, Ignores

IsRestOf(m, arg, n, i) ==
  \E v : m = <<[str |-> SubSeq(arg, n + 1, Len(arg)), at |-> v]>> /\ v.pos = ValuePlace(i)

LEMMA RestIs ==
  ASSUME NEW i \in Pairs, NEW arg \in Seq(STRING), NEW a \in Position, Len(a) <= 1,
         NEW s \in Seq(Tops), NEW g \in BOOLEAN, NEW n, n \in 1 .. Len(arg) - 1,
         NEW first, first.at = W(<<i, 1>>, a, s, g), Len(first.str) = n
  PROVE  IsRestOf(Rest(first, arg), arg, n, i)
<1>y. PICK yes \in BOOLEAN : yes = TRUE
  OBVIOUS
<1> PICK v, p, q : v = W(q, a, s, yes) /\ p = <<i, 1>> /\ q = <<i, 2>>
  OBVIOUS
<1>1. <<i, 1>> \in Positions /\ <<i, 2>> \in Positions /\ <<i, 2>> \in Position
      /\ Front(<<i, 1>>) = <<i>> /\ Front(<<i, 2>>) = <<i>> /\ Len(<<i, 2>>) = 2
  BY PairSiblings, PositionLen DEF Position
<1>2. v \in Traverser /\ v.pos = <<i, 2>>
  <2>1. \A x \in Tops : x \in Positions
    BY PositionLen
  <2>2. s \in Seq(Positions)
    BY <2>1
  <2>3. v \in Traverser
    <3>1. q \in Position /\ a \in Position
      BY <1>1
    <3> QED BY <2>2, <3>1, IsTraverser, Zenon
  <2>4. v.pos = <<i, 2>>
    <3>1. W(q, a, s, yes).pos = q
      BY Fields
    <3> QED BY <3>1, Zenon
  <2> QED BY <2>3, <2>4
<1>3. advance(Ignores(first.at, TRUE)) = v
  <2>1. Ignores(first.at, yes) = W(<<i, 1>>, a, s, yes)
    <3>1. Ignores(W(p, a, s, g), yes) = W(p, a, s, yes)
      BY PutIgnores
    <3> QED BY <3>1, Zenon
  <2>2. ~is_last_in_path(<<i, 1>>)
    BY LastInPath
  <2>3. <<i, 2>> = NextPosition(<<i, 1>>, yes)
    BY <1>y, NextPositionIs
  <2>4. Len(a) <= Len(<<i, 2>>)
    <3>1. Len(a) \in 0 .. 2
      BY PositionLen
    <3> QED BY <1>1, <3>1
  <2>5. advance(W(<<i, 1>>, a, s, yes)) = v
    <3>1. advance(W(<<i, 1>>, a, s, yes)) = W(<<i, 2>>, a, s, yes)
      BY <1>1, <2>2, <2>3, <2>4, Goes
    <3> QED BY <3>1, Zenon
  <2> QED BY <1>y, <2>1, <2>5, Zenon
<1> PICK text : text = SubSeq(arg, n + 1, Len(arg))
  OBVIOUS
<1>4. text \in Seq(STRING) /\ text # <<>> /\ Len(text) > 0
  <2>0. PICK l \in Nat : l = Len(arg)
    BY LenProperties
  <2>l. \A k \in 1 .. l - 1 : k \in 0 .. l /\ l - k > 0
    OBVIOUS
  <2>1. n \in 0 .. l /\ l - n > 0
    BY <2>0, <2>l, Zenon
  <2>2. text \in Seq(STRING) /\ Len(text) = Len(arg) - n
    <3>1. n \in 0 .. Len(arg)
      BY <2>0, <2>1
    <3> QED BY <3>1, PartAfter, ZenonT(40)
  <2>3. Len(text) > 0
    BY <2>0, <2>1, <2>2, Zenon
  <2>4. text # <<>>
    <3>1. ~ (Len(<<>>) > 0)
      OBVIOUS
    <3> QED BY <2>3, <3>1, Zenon
  <2> QED BY <2>2, <2>3, <2>4
<1>5. match(<<i, 2>>, text) = Len(text)
  BY PairAt DEF match, IsValueAt
<1>6. Covers(v, text, <<i>>)
  <2>1. At(<<i, 2>>).blocking
    BY PairAt DEF IsValueAt
  <2>2. match(v.pos, text) > 0
    BY <1>2, <1>4, <1>5
  <2>3. <<i, 2>> # <<>>
    OBVIOUS
  <2> QED BY <1>1, <1>2, <2>1, <2>2, <2>3, Zenon DEF Covers
<1> DEFINE rest == CHOOSE f : IsRest(f, <<i>>)
<1>7. IsRest(rest, <<i>>)
  BY RestExists, Zenon
<1>8. Rest(first, arg) = rest[<<v, text>>]
  <2>1. Front(first.at.pos) = <<i>>
    BY <1>1, Fields
  <2>2. Rest(first, arg)
        = rest[<<advance(Ignores(first.at, TRUE)), SubSeq(arg, n + 1, Len(arg))>>]
    BY <2>1, RestOf, Zenon
  <2> QED BY <1>3, <2>2, Zenon
<1> HIDE DEF rest
<1>9. rest[<<v, text>>] = <<[str |-> text, at |-> v]>>
  <2>1. SubSeq(text, 1, Len(text)) = text /\ SubSeq(text, Len(text) + 1, Len(text)) = <<>>
    BY <1>4, SubSeqWhole
  <2>2. advance(v) \in Traverser /\ <<>> \in Seq(STRING)
    <3>1. <<i, 2>> # <<>> /\ <<>> \in Seq(STRING)
      OBVIOUS
    <3> QED BY <1>2, <3>1, AdvanceIsTraverser
  <2>3. <<v, text>> \in Traverser \X Seq(STRING) /\ <<advance(v), <<>>>> \in Traverser \X Seq(STRING)
    BY <1>2, <1>4, <2>2
  <2>4. rest[<<advance(v), <<>>>>] = <<>>
    BY <1>7, <2>3, Zenon DEF IsRest
  <2>5. rest[<<v, text>>] = <<[str |-> SubSeq(text, 1, match(v.pos, text)), at |-> v]>>
          \o rest[<<advance(v), SubSeq(text, match(v.pos, text) + 1, Len(text))>>]
    BY <1>4, <1>6, <1>7, <2>3, Zenon DEF IsRest
  <2>6. rest[<<v, text>>] = <<[str |-> text, at |-> v]>> \o <<>>
    BY <1>2, <1>5, <2>1, <2>4, <2>5, Zenon
  <2>7. \A x : <<x>> \o <<>> = <<x>>
    OBVIOUS
  <2> QED BY <2>6, <2>7
<1>10. Rest(first, arg) = <<[str |-> SubSeq(arg, n + 1, Len(arg)), at |-> v]>>
  BY <1>8, <1>9, Zenon
<1>11. v.pos = ValuePlace(i)
  BY <1>2 DEF ValuePlace
<1> QED BY <1>10, <1>11, Zenon DEF IsRestOf

LEMMA OneByOne ==
  ASSUME NEW first, NEW rest
  PROVE  /\ Head(<<first>>) = first /\ <<first>> \o <<rest>> = <<first, rest>>
         /\ <<first>> # <<>> /\ (rest.str # <<>> => IsCovered(<<rest>>))
<1>1. Head(<<first>>) = first /\ <<first>> # <<>>
  OBVIOUS
<1>2. <<first>> \o <<rest>> = <<first, rest>>
  <2> PICK S : S = {first, rest}
    OBVIOUS
  <2> PICK a, b, c : a = <<first>> /\ b = <<rest>> /\ c = <<first, rest>>
    OBVIOUS
  <2>1. a \in Seq(S) /\ b \in Seq(S) /\ c \in Seq(S) /\ Len(a) = 1 /\ Len(b) = 1 /\ Len(c) = 2
    OBVIOUS
  <2>2. a[1] = first /\ b[1] = rest /\ c[1] = first /\ c[2] = rest
    OBVIOUS
  <2>3. a \o b \in Seq(S) /\ Len(a \o b) = 2 /\ (a \o b)[1] = a[1] /\ (a \o b)[2] = b[1]
    BY <2>1
  <2>4. \A i \in 1 .. 2 : (a \o b)[i] = c[i]
    BY <2>2, <2>3
  <2>5. a \o b = c
    BY <2>1, <2>3, <2>4, SeqEqual
  <2> QED BY <2>5
<1>3. rest.str # <<>> => IsCovered(<<rest>>)
  <2>1. \A i \in DOMAIN <<rest>> : <<rest>>[i] = rest
    OBVIOUS
  <2> QED BY <2>1, Zenon DEF IsCovered
<1> QED BY <1>1, <1>2, <1>3

LEMMA TryJoined ==
  ASSUME NEW t, PosOK(t), NEW arg \in Seq(STRING), arg # <<>>, WholeAt(arg) = {},
         NEW i \in OpenAt(arg), i \in Pairs
  PROVE  IsTwo(try_match(t, arg), arg, i)
<1> PICK m : m = prefix_match(t, arg, Flags)
  OBVIOUS
<1> PICK n : n = match(Place(i), arg)
  OBVIOUS
<1>1. n \in 1 .. Len(arg) - 1 /\ SubSeq(arg, 1, n) # arg /\ Len(SubSeq(arg, 1, n)) = n
  BY OnlyAPart
<1>p. i \in 1 .. 10 /\ Place(i) = <<i, 1>> /\ At(Place(i)).blocking
  BY PairAt DEF Place, OpenAt
<1>2. PICK k \in OpenAt(arg), a \in Position, s \in Seq(Tops), g \in BOOLEAN :
        ~g /\ Len(a) <= 1 /\ m = MatchAt(W(Place(k), a, s, g), arg)
  <2>1. IsBegun(m, arg)
    BY Begins
  <2> QED BY <2>1, Zenon DEF IsBegun
<1>3. k = i
  BY OnlyOpen
<1> PICK u : u = W(<<i, 1>>, a, s, g)
  OBVIOUS
<1>4. u.pos = <<i, 1>>
  BY Fields
<1>h. PICK first : first = [str |-> SubSeq(arg, 1, n), at |-> u]
  OBVIOUS
<1>5. m = <<first>>
  BY <1>2, <1>3, <1>4, <1>h, <1>p, Zenon DEF MatchAt
<1>f. first.str = SubSeq(arg, 1, n) /\ first.at = u
  BY <1>h
<1>6. PICK v : Rest(first, arg) = <<[str |-> SubSeq(arg, n + 1, Len(arg)), at |-> v]>>
               /\ v.pos = ValuePlace(i)
  <2>1. first.at = W(<<i, 1>>, a, s, g) /\ Len(first.str) = n
    BY <1>1, <1>f
  <2>2. IsRestOf(Rest(first, arg), arg, n, i)
    BY <1>1, <1>2, <2>1, RestIs
  <2> QED BY <2>2, Zenon DEF IsRestOf
<1>r. PICK rest : rest = [str |-> SubSeq(arg, n + 1, Len(arg)), at |-> v]
  OBVIOUS
<1>7. rest.str # <<>>
  <2>1. rest.str = SubSeq(arg, n + 1, Len(arg))
    BY <1>r
  <2>l. PICK l \in Nat : l = Len(arg)
    BY LenProperties
  <2>m. \A x \in 1 .. l - 1 : x \in 0 .. l /\ l - x > 0
    OBVIOUS
  <2>2. n \in 0 .. Len(arg) /\ Len(arg) - n > 0
    BY <1>1, <2>l, <2>m, Zenon
  <2>3. Len(rest.str) = Len(arg) - n
    BY <2>1, <2>2, PartAfter, Zenon
  <2>4. Len(rest.str) > 0
    BY <2>2, <2>3, Zenon
  <2>5. ~ (Len(<<>>) > 0)
    OBVIOUS
  <2> QED BY <2>4, <2>5, Zenon
<1>8. IsCovered(<<rest>>)
  BY <1>7, OneByOne
<1>9. WithRest(m, <<rest>>) = <<first, rest>>
  <2>1. m \o <<rest>> = <<first, rest>>
    BY <1>5, OneByOne, Zenon
  <2> QED BY <1>8, <2>1 DEF WithRest
<1>10. Completed(m, arg) = <<first, rest>>
  <2>1. m # <<>> /\ Head(m) = first
    BY <1>5, OneByOne, Zenon
  <2>2. first.str # arg /\ At(first.at.pos).blocking
    BY <1>1, <1>4, <1>f, <1>p
  <2>3. Rest(first, arg) = <<rest>>
    BY <1>6, <1>r, Zenon
  <2>4. Completed(m, arg) = WithRest(m, Rest(first, arg))
    BY <2>1, <2>2, Zenon DEF Completed
  <2> QED BY <1>9, <2>3, <2>4, Zenon
<1>11. try_match(t, arg) = <<first, rest>>
  <2>1. full_match(t, arg, Flags) = <<>>
    BY NoWhole
  <2>2. try_match_joined_sequence(t, arg, Flags) = <<first, rest>>
    BY <1>10, Zenon DEF try_match_joined_sequence
  <2>3. <<first, rest>> # <<>>
    OBVIOUS
  <2> QED BY <2>1, <2>2, <2>3, Zenon DEF try_match, OrElse
<1>12. try_match(t, arg) = Split(arg, match(Place(i), arg), u, v)
  BY <1>11, <1>h, <1>r, Zenon DEF Split
<1> QED BY <1>4, <1>6, <1>p, <1>12, Zenon DEF IsTwo

LEMMA NoneJoined ==
  ASSUME NEW t, PosOK(t), NEW arg \in Seq(STRING), arg # <<>>, WholeAt(arg) = {},
         OpenAt(arg) \cap Pairs = {}
  PROVE  try_match_joined_sequence(t, arg, Flags) = <<>>
<1> PICK m : m = prefix_match(t, arg, Flags)
  OBVIOUS
<1>1. IsBegun(m, arg)
  BY Begins
<1>2. CASE m = <<>>
  BY <1>2, Zenon DEF try_match_joined_sequence, Completed
<1>3. CASE m # <<>>
  <2>1. PICK k \in OpenAt(arg), a \in Position, s \in Seq(Tops), g \in BOOLEAN :
          m = MatchAt(W(Place(k), a, s, g), arg)
    BY <1>1, <1>3, Zenon DEF IsBegun
  <2>2. k \in 1 .. 10 /\ k \notin Pairs
    BY DEF OpenAt
  <2> PICK n : n = match(Place(k), arg)
    OBVIOUS
  <2>3. SubSeq(arg, 1, n) # arg
    BY OnlyAPart
  <2> PICK u : u = W(Place(k), a, s, g)
    OBVIOUS
  <2>4. u.pos = Place(k)
    BY Fields
  <2>h. PICK first : first = [str |-> SubSeq(arg, 1, n), at |-> u]
    OBVIOUS
  <2>5. m = <<first>>
    BY <2>1, <2>4, <2>h, Zenon DEF MatchAt
  <2>g. Head(m) = first
    BY <2>5, OneByOne, Zenon
  <2>f. first.str = SubSeq(arg, 1, n) /\ first.at = u
    BY <2>h
  <2>6. ~At(Place(k)).blocking
    BY <2>2, PlaceIs
  <2>7. Completed(m, arg) = <<>>
    BY <1>3, <2>3, <2>4, <2>f, <2>g, <2>6, Zenon DEF Completed
  <2> QED BY <2>7, Zenon DEF try_match_joined_sequence
<1> QED BY <1>2, <1>3

(* The place of a value: the one that is waited for, or the one of the rest. *)
IsTextPlace(t, p) ==
  \/ \E i \in Pairs : WaitsFor(t, i) /\ p = ValuePlace(i)
  \/ Idle(t) /\ p = Other

LEMMA TryText ==
  ASSUME NEW t, PosOK(t), NEW arg \in Seq(STRING), arg # <<>>, WholeAt(arg) = {},
         OpenAt(arg) \cap Pairs = {}
  PROVE  \E p : IsTextPlace(t, p) /\ IsOne(try_match(t, arg), arg, p)
<1> PICK m : m = full_match(t, arg, Values)
  OBVIOUS
<1>v. \A p \in Values : match(p, arg) = Len(arg)
  BY DEF match, Values
<1>1. m = FirstMatch(t, arg, Values)
  <2>1. {p \in Values : match(p, arg) = Len(arg)} = Values
    BY <1>v
  <2> QED BY <2>1, Zenon DEF full_match
<1>2. \E u : m = MatchAt(u, arg) /\ u.pos \in Values /\ IsTextPlace(t, u.pos)
  <2>1. CASE Idle(t)
    <3>0. Values \in SUBSET Params
      BY ParamsAre
    <3>1. SearchEnds(m, arg, Values)
      BY <1>1, <2>1, <3>0, SearchOK
    <3>2. 11 \in 1 .. 11 /\ Place(11) \in Values
      BY NoFlag, ParamsAre
    <3>3. IsFound(m, arg, Values)
      BY <3>1, <3>2, Zenon DEF SearchEnds
    <3>4. PICK k \in 1 .. 11, a \in Position, s \in Seq(Tops), g \in BOOLEAN :
            Place(k) \in Values /\ m = MatchAt(W(Place(k), a, s, g), arg)
      BY <3>3, Zenon DEF IsFound
    <3>5. k = 11
      BY <3>4, NoFlag
    <3> PICK u : u = W(Place(k), a, s, g)
      OBVIOUS
    <3>6. u.pos = Other
      BY <3>5, Fields, NoFlag
    <3> QED BY <2>1, <3>2, <3>4, <3>6, NoFlag, Zenon DEF IsTextPlace
  <2>2. CASE ~Idle(t)
    <3>1. PICK i \in Pairs : WaitsFor(t, i)
      BY <2>2 DEF PosOK
    <3>2. t.pos = ValuePlace(i) /\ t.pos \in Values /\ t \in Traverser /\ t.pos # <<>>
      BY <3>1, ParamsAre DEF WaitsFor, PosOK, ValuePlace
    <3>3. m = MatchAt(t, arg)
      BY <1>1, <3>2, FirstMatchIs
    <3> QED BY <3>1, <3>2, <3>3, Zenon DEF IsTextPlace
  <2> QED BY <2>1, <2>2
<1>3. PICK u : m = MatchAt(u, arg) /\ u.pos \in Values /\ IsTextPlace(t, u.pos)
  BY <1>2
<1>4. m = <<[str |-> arg, at |-> u]>>
  BY <1>3, <1>v, MatchedWhole
<1>5. m # <<>>
  BY <1>4
<1>6. try_match(t, arg) = m
  BY <1>5, NoWhole, NoneJoined, Zenon DEF try_match, OrElse
<1> QED BY <1>3, <1>4, <1>6, Zenon DEF IsOne

-----------------------------------------------------------------------------
(***************************************************************************)
(* Where the parser is after a match: at the value of a flag that has one, *)
(* and else at the start of an entry.                                      *)
(***************************************************************************)
Rests(v, t) ==
  /\ v \in Traverser /\ ~v.ignore /\ v.pos \in Stops /\ v.scopes = t.scopes
  /\ v.scopes \in Seq(Stops) /\ (v.scopes # <<>> => v.scopes[1] = <<1>>)
  /\ v.scopes = <<>> => v.pos = <<1>>

LEMMA StopsDoNotBlock == \A p \in Stops : ~At(p).blocking
<1>1. \A p \in Stops : \E i \in {1, 2, 4, 6, 7} : p = <<i>>
  BY DEF Stops
<1>2. ASSUME NEW i \in {1, 2, 4, 6, 7} PROVE ~At(<<i>>).blocking
  <2>1. CASE i \in Pairs
    BY <2>1, PairAt
  <2>2. CASE i \notin Pairs
    <3>1. i \in (1 .. 10) \ Pairs
      BY <2>2
    <3> QED BY <3>1, FlagAt
  <2> QED BY <2>1, <2>2
<1> QED BY <1>1, <1>2

LEMMA Passes ==
  ASSUME NEW t, PosOK(t), NEW p, \A i \in Pairs : p # ValuePlace(i)
  PROVE  Rests(Passing(t, p), t)
<1>1. /\ t \in Traverser /\ ~t.ignore /\ t.scopes \in Seq(Stops)
      /\ t.scopes # <<>> => t.scopes[1] = <<1>>
  BY DEF PosOK
<1>2. CASE Idle(t)
  <2>1. t.pos \in Stops /\ (t.scopes = <<>> => t.pos = <<1>>)
    BY <1>2 DEF Idle
  <2>2. Passing(t, p) = t
    BY <2>1, StopsDoNotBlock, Zenon DEF Passing
  <2> QED BY <1>1, <2>1, <2>2, Zenon DEF Rests
<1>3. CASE ~Idle(t)
  <2>1. PICK i \in Pairs : WaitsFor(t, i)
    BY <1>3 DEF PosOK
  <2>2. t.pos = <<i, 2>> /\ t.scopes # <<>> /\ p # t.pos
    BY <2>1 DEF WaitsFor, ValuePlace
  <2>3. At(t.pos).blocking
    BY <2>2, PairAt DEF IsValueAt
  <2>4. PICK q : q = next_sibling(t.pos) /\ q \in Stops
    <3>1. next_sibling(<<i, 2>>) = <<i + 1>>
      BY NextOfPair
    <3>2. <<i + 1>> \in Stops
      BY DEF Pairs, Stops
    <3> QED BY <2>2, <3>1, <3>2
  <2>5. Passing(t, p) = [t EXCEPT !.pos = q]
    BY <2>2, <2>3, <2>4, Zenon DEF Passing
  <2>6. t = W(t.pos, t.after, t.scopes, t.ignore) /\ t.after \in Position
        /\ t.scopes \in Seq(Positions) /\ t.ignore \in BOOLEAN
    BY <1>1, TraverserIs
  <2> PICK a, s, g : a = t.after /\ s = t.scopes /\ g = t.ignore
    OBVIOUS
  <2>7. Passing(t, p) = W(q, a, s, g)
    BY <2>5, <2>6, PutPos
  <2>8. q \in Position
    BY <2>4, StopsAre
  <2>9. W(q, a, s, g) \in Traverser
    BY <2>6, <2>8, IsTraverser
  <2>10. W(q, a, s, g).pos = q /\ W(q, a, s, g).scopes = s /\ W(q, a, s, g).ignore = g
    BY Fields
  <2> PICK v : v = Passing(t, p)
    OBVIOUS
  <2>11. v \in Traverser /\ v.pos = q /\ v.scopes = s /\ v.ignore = g
    BY <2>7, <2>9, <2>10, Zenon
  <2>12. Rests(v, t)
    BY <1>1, <2>2, <2>4, <2>11, Zenon DEF Rests
  <2> QED BY <2>12
<1> QED BY <1>2, <1>3

(* The match of a parameter that no other is bound to. *)
LEMMA AfterOther ==
  ASSUME NEW t, PosOK(t), NEW p, p \in {Place(j) : j \in (1 .. 10) \ Pairs} \cup {Other},
         NEW u, u = next_after_match(t, p)
  PROVE  PosOK(u) /\ Idle(u)
<1>1. ~At(p).blocking /\ Len(p) = 1 /\ \A i \in Pairs : p # ValuePlace(i)
  <2>1. ASSUME NEW j \in (1 .. 10) \ Pairs, p = Place(j)
        PROVE  ~At(p).blocking /\ Len(p) = 1 /\ \A i \in Pairs : p # ValuePlace(i)
    <3>1. p = <<j>>
      BY <2>1 DEF Place
    <3> QED BY <3>1, FlagAt DEF ValuePlace
  <2>2. Len(Other) = 1 /\ \A i \in Pairs : Other # ValuePlace(i)
    BY DEF Other, ValuePlace
  <2> QED BY <2>1, <2>2, OtherAt
<1> PICK v : v = Passing(t, p)
  OBVIOUS
<1>2. Rests(v, t)
  BY <1>1, Passes
<1>3. v \in Traverser /\ Len(v.pos) = 1
  BY <1>2, StopsAre DEF Rests
<1>4. Matched(v, p) = v
  <2>1. PICK depths : depths = {d \in Depths : d[2] > Len(p)}
    OBVIOUS
  <2>2. Matched(v, p) = PopScopes(v, depths)
    BY <1>1, <2>1, Zenon DEF Matched, return_to_level
  <2>3. <<Len(Last(v.scopes)), Len(v.pos)>> \notin depths
    BY <1>1, <1>3, <2>1
  <2>4. PopScopes(v, depths) = v
    BY <1>3, <2>3, PopsNone
  <2> QED BY <2>2, <2>4
<1>5. ~t.ignore
  BY DEF PosOK
<1>6. u = [v EXCEPT !.after = v.pos]
  BY <1>4, <1>5, Zenon DEF next_after_match, After
<1> PICK q, a, s, g : q = v.pos /\ a = v.after /\ s = v.scopes /\ g = v.ignore
  OBVIOUS
<1>7. v = W(q, a, s, g) /\ q \in Position /\ s \in Seq(Positions) /\ g \in BOOLEAN
  BY <1>3, TraverserIs
<1>8. u = W(q, q, s, g)
  BY <1>6, <1>7, PutAfter
<1>9. u.pos = q /\ u.after = q /\ u.scopes = s /\ u.ignore = g
  BY <1>8, Fields
<1>10. u \in Traverser
  BY <1>7, <1>8, IsTraverser
<1>11. Idle(u)
  BY <1>2, <1>9, Zenon DEF Idle, Rests
<1>12. PosOK(u)
  BY <1>2, <1>9, <1>10, <1>11, Zenon DEF PosOK, Rests
<1> QED BY <1>11, <1>12

(* The match of a flag with a value. *)
LEMMA AfterFlag ==
  ASSUME NEW t, PosOK(t), NEW i \in Pairs, NEW p, p = Place(i), NEW u, u = next_after_match(t, p)
  PROVE  PosOK(u) /\ WaitsFor(u, i)
<1>1. p = <<i, 1>> /\ At(p).blocking /\ \A k \in Pairs : p # ValuePlace(k)
  <2>1. p = <<i, 1>>
    BY DEF Place
  <2>2. At(<<i, 1>>).blocking
    BY PairAt
  <2>3. \A k \in Pairs : <<i, 1>> # ValuePlace(k)
    BY DEF ValuePlace
  <2> QED BY <2>1, <2>2, <2>3
<1>n. PICK n : n = <<i, 2>>
  OBVIOUS
<1>2. dfs_next(p) = n /\ Len(n) = 2 /\ n \in Position /\ n \in Positions /\ ~is_last_in_path(p)
  BY <1>1, <1>n, Steps, LastInPath, PositionLen DEF Position
<1> PICK v : v = Passing(t, p)
  OBVIOUS
<1>3. Rests(v, t)
  BY <1>1, Passes
<1>4. v \in Traverser /\ Len(v.pos) = 1 /\ v.pos \in Stops /\ v.scopes \in Seq(Stops) /\ ~v.ignore
  BY <1>3, StopsAre DEF Rests
<1> PICK q, a, s, g : q = v.pos /\ a = v.after /\ s = v.scopes /\ g = v.ignore
  OBVIOUS
<1>5. v = W(q, a, s, g) /\ q \in Position /\ a \in Position /\ s \in Seq(Positions) /\ g \in BOOLEAN
  BY <1>4, TraverserIs
<1>6. ~is_last_in_current_scope(v, p)
  <2>1. CASE v.scopes = <<>>
    BY <1>2, <2>1, Zenon DEF is_last_in_current_scope
  <2>2. CASE v.scopes # <<>>
    <3>1. Last(v.scopes) \in Stops
      BY <1>4, <2>2, Innermost
    <3>2. Len(Last(v.scopes)) = 1
      BY <3>1, StopsAre
    <3>3. ~ (Len(dfs_next(p)) < Len(Last(v.scopes)))
      BY <1>2, <3>2
    <3> QED BY <2>2, <3>3, Zenon DEF is_last_in_current_scope
  <2> QED BY <2>1, <2>2
<1>7. Matched(v, p) = GoOnAt(v, n)
  BY <1>1, <1>2, <1>6, Zenon DEF Matched
<1>8. GoOnAt(v, n) = ScopesAndPos(v, n, Append(v.scopes, v.pos))
  <2>1. Len(n) > Len(v.pos)
    BY <1>2, <1>4
  <2> QED BY <2>1, Zenon DEF GoOnAt, ScopesAndPos
<1>x. PICK x : x = Append(s, q)
  OBVIOUS
<1>9. Matched(v, p) = W(n, a, x, g)
  <2>1. GoOnAt(v, n) = ScopesAndPos(v, n, x)
    BY <1>8, <1>x
  <2>2. ScopesAndPos(W(q, a, s, g), n, x) = W(n, a, x, g)
    BY PutTwo
  <2> QED BY <1>5, <1>7, <2>1, <2>2
<1>10. ~t.ignore
  BY DEF PosOK
<1> PICK w : w = Matched(v, p)
  OBVIOUS
<1>11. u = [w EXCEPT !.after = w.pos]
  BY <1>10, Zenon DEF next_after_match, After
<1>12. w = W(n, a, x, g) /\ w.pos = n
  BY <1>9, Fields
<1>13. u = W(n, n, x, g)
  BY <1>11, <1>12, PutAfter
<1>14. u.pos = n /\ u.after = n /\ u.scopes = x /\ u.ignore = g
  BY <1>13, Fields
<1>15. x \in Seq(Stops) /\ x # <<>> /\ x[1] = <<1>>
  <2>1. q \in Stops /\ s \in Seq(Stops)
    BY <1>4
  <2>2. x \in Seq(Stops) /\ x # <<>>
    BY <1>x, <2>1
  <2>3. CASE s = <<>>
    <3>1. q = <<1>>
      BY <1>3, <2>3 DEF Rests
    <3>2. x = <<q>>
      BY <1>x, <2>3
    <3> QED BY <2>2, <3>1, <3>2
  <2>4. CASE s # <<>>
    <3>1. s[1] = <<1>>
      BY <1>3, <2>4 DEF Rests
    <3>2. Len(s) > 0
      BY <2>1, <2>4, EmptySeq
    <3>3. x[1] = s[1]
      BY <1>x, <2>1, <3>2
    <3> QED BY <2>2, <3>1, <3>3
  <2> QED BY <2>3, <2>4
<1>16. u \in Traverser
  <2>1. Stops \subseteq Positions
    BY StopsAre, PositionLen
  <2>2. x \in Seq(Positions)
    BY <1>15, <2>1
  <2> QED BY <1>2, <1>5, <1>13, <2>2, IsTraverser
<1>17. WaitsFor(u, i)
  BY <1>n, <1>14, <1>15, Zenon DEF WaitsFor, ValuePlace
<1>18. PosOK(u)
  BY <1>4, <1>14, <1>15, <1>16, <1>17, Zenon DEF PosOK
<1> QED BY <1>17, <1>18

(* The match of the value that it waits for. *)
LEMMA AfterValue ==
  ASSUME NEW t, PosOK(t), NEW i \in Pairs, WaitsFor(t, i), NEW p, p = ValuePlace(i),
         NEW u, u = next_after_match(t, p)
  PROVE  PosOK(u) /\ Idle(u)
<1>1. t.pos = p /\ p = <<i, 2>> /\ t.scopes # <<>> /\ ~t.ignore /\ t \in Traverser
      /\ t.scopes \in Seq(Stops) /\ t.scopes[1] = <<1>>
  BY DEF PosOK, WaitsFor, ValuePlace
<1>2. Passing(t, p) = t
  BY <1>1, Zenon DEF Passing
<1>3. At(p).blocking /\ Len(p) = 2 /\ Len(dfs_next(p)) = 1
  <2>1. dfs_next(p) = <<i + 1>>
    BY <1>1, Steps
  <2>2. Len(<<i + 1>>) = 1
    OBVIOUS
  <2>3. At(p).blocking /\ Len(p) = 2
    BY <1>1, PairAt, PositionLen DEF IsValueAt
  <2> QED BY <2>1, <2>2, <2>3
<1> PICK q, a, s, g : q = Last(t.scopes) /\ a = t.after /\ s = t.scopes /\ g = t.ignore
  OBVIOUS
<1>4. q \in Stops /\ Len(q) = 1 /\ q \in Position /\ q \in Tops
  BY <1>1, Innermost, StopsAre
<1>5. ~is_last_in_current_scope(t, p)
  <2>1. ~ (Len(dfs_next(p)) < Len(Last(t.scopes)))
    BY <1>3, <1>4
  <2> QED BY <1>1, <2>1, Zenon DEF is_last_in_current_scope
<1>6. PICK depths : depths = {d \in Depths : d[2] > Len(dfs_next(p))}
  OBVIOUS
<1>7. Matched(t, p) = PopScopes(t, depths)
  <2>1. ~ (Len(dfs_next(p)) > Len(t.pos)) /\ Len(dfs_next(p)) < Len(t.pos)
    BY <1>1, <1>3
  <2>2. GoOnAt(t, dfs_next(p)) = PopScopes(t, depths)
    BY <1>6, <2>1, Zenon DEF GoOnAt, return_to_level
  <2> QED BY <1>3, <1>5, <2>2, Zenon DEF Matched
<1> PICK v : v = Popped(t)
  OBVIOUS
<1>8. /\ v \in Traverser /\ v.after = a /\ v.ignore = g /\ v.scopes = Front(s)
      /\ v.pos = undo(t.pos, q)
  BY <1>1, PoppedIsTraverser
<1>9. v.pos = q
  <2>1. t.pos \in Position
    BY <1>1, TraverserIs
  <2> QED BY <1>4, <1>8, <2>1, UndoTop
<1>10. PopScopes(t, depths) = v
  <2>1. Pops(t, depths)
    <3>1. <<1, 2>> \in depths
      BY <1>3, <1>6 DEF Depths
    <3>2. Len(Last(t.scopes)) = 1 /\ Len(t.pos) = 2
      BY <1>1, <1>3, <1>4
    <3> QED BY <1>1, <3>1, <3>2, Zenon DEF Pops
  <2>2. PopScopes(t, depths) = PopScopes(v, depths)
    BY <1>1, <2>1, PopScopesIs
  <2>3. <<Len(Last(v.scopes)), Len(v.pos)>> \notin depths
    BY <1>3, <1>4, <1>6, <1>9
  <2>4. PopScopes(v, depths) = v
    BY <1>8, <2>3, PopsNone
  <2> QED BY <2>2, <2>4
<1>11. u = [v EXCEPT !.after = v.pos]
  BY <1>1, <1>2, <1>7, <1>10, Zenon DEF next_after_match, After
<1> PICK f : f = Front(s)
  OBVIOUS
<1>12. v = W(q, a, f, g)
  BY <1>8, <1>9, TraverserIs
<1>13. u = W(q, q, f, g)
  BY <1>9, <1>11, <1>12, PutAfter
<1>14. u.pos = q /\ u.after = q /\ u.scopes = f /\ u.ignore = g
  BY <1>13, Fields
<1>15. f \in Seq(Stops) /\ (f # <<>> => f[1] = <<1>>) /\ (f = <<>> => q = <<1>>)
  <2>1. /\ f \in Seq(Stops) /\ Len(s) \in Nat /\ Len(s) > 0 /\ Len(f) = Len(s) - 1
        /\ q = s[Len(s)] /\ \A j \in 1 .. Len(s) - 1 : f[j] = s[j]
    BY <1>1, Innermost
  <2>2. CASE f = <<>>
    <3>1. Len(s) = 1
      BY <2>1, <2>2
    <3> QED BY <1>1, <2>1, <2>2, <3>1
  <2>3. CASE f # <<>>
    <3>1. Len(f) > 0
      BY <2>1, <2>3, EmptySeq
    <3>2. 1 \in 1 .. Len(s) - 1
      BY <2>1, <3>1
    <3> QED BY <1>1, <2>1, <2>3, <3>2
  <2> QED BY <2>2, <2>3
<1>16. u \in Traverser
  <2>1. Stops \subseteq Positions
    BY StopsAre, PositionLen
  <2>2. f \in Seq(Positions)
    BY <1>15, <2>1
  <2>3. g \in BOOLEAN
    BY <1>1, TraverserIs
  <2> QED BY <1>4, <1>13, <2>2, <2>3, IsTraverser
<1>17. Idle(u)
  BY <1>4, <1>14, <1>15, Zenon DEF Idle
<1>18. PosOK(u)
  BY <1>1, <1>14, <1>15, <1>16, <1>17, Zenon DEF PosOK
<1> QED BY <1>17, <1>18

-----------------------------------------------------------------------------
(* What is missed: the values of the flags that have matched, no other. *)
WalkStep(q, x) == (IF ~IsGroup(q) /\ CanBeMissed(q) THEN {q} ELSE {}) \cup x

WalkSteps == INSTANCE Recursion WITH Op <- WalkStep

IsWalk(walk, p) ==
  walk = [q \in Position |->
            IF Len(q) < Len(p) \/ q = <<>> THEN {}
            ELSE IF IsGroup(q)
            THEN walk[IF any_required(At(q)) THEN dfs_next(q) ELSE next_sibling(q)]
            ELSE IF CanBeMissed(q) THEN {q} \cup walk[dfs_next(q)]
            ELSE walk[IF At(q).blocking THEN next_after_siblings(q) ELSE dfs_next(q)]]

WalksTo(q) ==
  IF IsGroup(q) THEN IF any_required(At(q)) THEN dfs_next(q) ELSE next_sibling(q)
  ELSE IF CanBeMissed(q) THEN dfs_next(q)
  ELSE IF At(q).blocking THEN next_after_siblings(q) ELSE dfs_next(q)

LEMMA WalksToIs ==
  /\ \A i \in Pairs : /\ WalksTo(<<i>>) = <<i, 1>> /\ WalksTo(<<i, 1>>) = <<i + 1>>
                      /\ WalksTo(<<i, 2>>) = <<i + 1>>
  /\ \A i \in (1 .. 10) \ Pairs : WalksTo(<<i>>) = <<i + 1>>
  /\ WalksTo(Other) = <<>>
<1>1. ASSUME NEW i \in Pairs
      PROVE  /\ WalksTo(<<i>>) = <<i, 1>> /\ WalksTo(<<i, 1>>) = <<i + 1>>
             /\ WalksTo(<<i, 2>>) = <<i + 1>>
  <2>1. WalksTo(<<i>>) = <<i, 1>>
    <3>1. IsGroup(<<i>>) /\ any_required(At(<<i>>)) /\ dfs_next(<<i>>) = <<i, 1>>
      BY PairAt, Steps
    <3> QED BY <3>1, Zenon DEF WalksTo
  <2>2. WalksTo(<<i, 1>>) = <<i + 1>>
    <3>1. ~IsGroup(<<i, 1>>) /\ ~CanBeMissed(<<i, 1>>) /\ At(<<i, 1>>).blocking
      BY PairAt DEF CanBeMissed, IsFlagAt
    <3>2. next_after_siblings(<<i, 1>>) = <<i + 1>>
      BY Steps
    <3> QED BY <3>1, <3>2, Zenon DEF WalksTo
  <2>3. WalksTo(<<i, 2>>) = <<i + 1>>
    <3>1. ~IsGroup(<<i, 2>>) /\ CanBeMissed(<<i, 2>>)
      BY PairAt DEF CanBeMissed, IsValueAt
    <3>2. dfs_next(<<i, 2>>) = <<i + 1>>
      BY Steps
    <3> QED BY <3>1, <3>2, Zenon DEF WalksTo
  <2> QED BY <2>1, <2>2, <2>3
<1>2. ASSUME NEW i \in (1 .. 10) \ Pairs
      PROVE  WalksTo(<<i>>) = <<i + 1>>
  <2>1. ~IsGroup(<<i>>) /\ ~CanBeMissed(<<i>>) /\ ~At(<<i>>).blocking
    BY FlagAt DEF CanBeMissed, IsFlagAt
  <2>2. dfs_next(<<i>>) = <<i + 1>>
    BY Steps
  <2> QED BY <2>1, <2>2, Zenon DEF WalksTo
<1>3. WalksTo(Other) = <<>>
  BY OtherAt, Steps, Zenon DEF WalksTo, CanBeMissed
<1> QED BY <1>1, <1>2, <1>3

(* How far it is to the end. *)
Far(q) == IF q = <<>> THEN 0 ELSE 3 * (12 - q[1]) - (IF Len(q) = 2 THEN q[2] ELSE 0)

LEMMA WalksOn ==
  ASSUME NEW q \in Positions
  PROVE  WalksTo(q) \in Position /\ Far(q) \in Nat /\ Far(WalksTo(q)) \in Nat
         /\ Far(WalksTo(q)) < Far(q)
<1>1. \A i \in 1 .. 11 : Far(<<i>>) = 3 * (12 - i) /\ <<i>> \in Position /\ Len(<<i>>) = 1
  BY PositionsAre DEF Far, Position
<1>2. ASSUME NEW i \in Pairs, NEW k \in {1, 2}
      PROVE  Far(<<i, k>>) = 3 * (12 - i) - k /\ <<i, k>> \in Position
  <2>1. Len(<<i, k>>) = 2 /\ <<i, k>> # <<>> /\ <<i, k>>[1] = i /\ <<i, k>>[2] = k
    OBVIOUS
  <2>2. <<i, k>> \in Position
    BY PositionsAre DEF Position
  <2>3. Far(<<i, k>>) = 3 * (12 - i) - k
    BY <2>1 DEF Far
  <2> QED BY <2>2, <2>3
<1>3. Far(<<>>) = 0 /\ <<>> \in Position
  BY DEF Far, Position
<1>4. ASSUME NEW i \in Pairs, q = <<i>>
      PROVE  WalksTo(q) \in Position /\ Far(q) \in Nat /\ Far(WalksTo(q)) \in Nat
             /\ Far(WalksTo(q)) < Far(q)
  <2>1. WalksTo(q) = <<i, 1>> /\ i \in 1 .. 6
    BY <1>4, WalksToIs DEF Pairs
  <2>2. Far(q) = 3 * (12 - i) /\ Far(<<i, 1>>) = 3 * (12 - i) - 1 /\ <<i, 1>> \in Position
    <3>1. Far(<<i>>) = 3 * (12 - i)
      BY <1>1, <2>1
    <3>2. Far(<<i, 1>>) = 3 * (12 - i) - 1 /\ <<i, 1>> \in Position
      BY <1>2
    <3> QED BY <1>4, <3>1, <3>2
  <2> QED BY <2>1, <2>2
<1>5. ASSUME NEW i \in Pairs, NEW k \in {1, 2}, q = <<i, k>>
      PROVE  WalksTo(q) \in Position /\ Far(q) \in Nat /\ Far(WalksTo(q)) \in Nat
             /\ Far(WalksTo(q)) < Far(q)
  <2>1. WalksTo(q) = <<i + 1>> /\ i \in 1 .. 6 /\ i + 1 \in 1 .. 11
    <3>1. WalksTo(<<i, 1>>) = <<i + 1>> /\ WalksTo(<<i, 2>>) = <<i + 1>>
      BY WalksToIs
    <3>2. k = 1 \/ k = 2
      OBVIOUS
    <3>3. i \in 1 .. 6 /\ i + 1 \in 1 .. 11
      BY DEF Pairs
    <3> QED BY <1>5, <3>1, <3>2, <3>3
  <2>2. Far(q) = 3 * (12 - i) - k
    BY <1>2, <1>5
  <2>3. Far(<<i + 1>>) = 3 * (12 - (i + 1)) /\ <<i + 1>> \in Position
    BY <1>1, <2>1
  <2> QED BY <2>1, <2>2, <2>3
<1>6. ASSUME NEW i \in (1 .. 10) \ Pairs, q = <<i>>
      PROVE  WalksTo(q) \in Position /\ Far(q) \in Nat /\ Far(WalksTo(q)) \in Nat
             /\ Far(WalksTo(q)) < Far(q)
  <2>1. WalksTo(q) = <<i + 1>> /\ i + 1 \in 1 .. 11 /\ i \in 1 .. 11
    BY <1>6, WalksToIs
  <2>2. Far(q) = 3 * (12 - i)
    BY <1>1, <1>6, <2>1
  <2>3. Far(<<i + 1>>) = 3 * (12 - (i + 1)) /\ <<i + 1>> \in Position
    BY <1>1, <2>1
  <2> QED BY <2>1, <2>2, <2>3
<1>7. ASSUME q = Other
      PROVE  WalksTo(q) \in Position /\ Far(q) \in Nat /\ Far(WalksTo(q)) \in Nat
             /\ Far(WalksTo(q)) < Far(q)
  <2>1. Far(q) = 3 * (12 - 11) /\ WalksTo(q) = <<>>
    BY <1>1, <1>7, WalksToIs DEF Other
  <2> QED BY <1>3, <2>1
<1>8. q \in {<<i>> : i \in 1 .. 11} \/ q \in {<<i, k>> : i \in Pairs, k \in {1, 2}}
  BY PositionsAre
<1>9. CASE q \in {<<i, k>> : i \in Pairs, k \in {1, 2}}
  BY <1>5, <1>9
<1>10. CASE q \in {<<i>> : i \in 1 .. 11}
  <2>1. PICK i \in 1 .. 11 : q = <<i>>
    BY <1>10
  <2>2. i \in Pairs \/ i \in (1 .. 10) \ Pairs \/ i = 11
    OBVIOUS
  <2> QED BY <1>4, <1>6, <1>7, <2>1, <2>2 DEF Other
<1> QED BY <1>8, <1>9, <1>10

LEMMA WalkExists ==
  ASSUME NEW p
  PROVE  \E walk : IsWalk(walk, p)
<1> DEFINE D == {q \in Position : Len(q) < Len(p) \/ q = <<>>}
           r == [q \in Position |-> {}]
           g == [q \in Position |-> WalksTo(q)]
           m == [q \in Position |-> Far(q)]
<1>0. \A q \in Position : q = <<>> \/ q \in Positions
  BY DEF Position
<1>1. WalkSteps!Nearer(Position, D, g, m)
  <2>1. m \in [Position -> Nat]
    <3>1. Far(<<>>) = 0
      BY DEF Far
    <3>2. \A q \in Position : Far(q) \in Nat
      BY <1>0, <3>1, WalksOn
    <3> QED BY <3>2
  <2>2. ASSUME NEW q \in Position, q \notin D PROVE g[q] \in Position /\ m[g[q]] < m[q]
    <3>1. q \in Positions
      BY <1>0, <2>2
    <3>2. WalksTo(q) \in Position /\ Far(WalksTo(q)) < Far(q)
      BY <3>1, WalksOn
    <3> QED BY <3>2
  <2> HIDE DEF D, g, m
  <2> QED BY <2>1, <2>2, Zenon DEF WalkSteps!Nearer
<1>2. PICK f : WalkSteps!IsRecursive(f, Position, D, r, g)
  <2> HIDE DEF D, r, g, m
  <2> QED BY <1>1, WalkSteps!MeasuredRecursion
<1>3. IsWalk(f, p)
  <2>1. ASSUME NEW q \in Position
        PROVE  (IF q \in D THEN r[q] ELSE WalkStep(q, f[g[q]]))
           = IF Len(q) < Len(p) \/ q = <<>> THEN {}
             ELSE IF IsGroup(q)
             THEN f[IF any_required(At(q)) THEN dfs_next(q) ELSE next_sibling(q)]
             ELSE IF CanBeMissed(q) THEN {q} \cup f[dfs_next(q)]
             ELSE f[IF At(q).blocking THEN next_after_siblings(q) ELSE dfs_next(q)]
    <3>1. g[q] = WalksTo(q)
      OBVIOUS
    <3>2. CASE q \in D
      BY <3>2
    <3>3. CASE q \notin D
      <4>1. ~ (Len(q) < Len(p) \/ q = <<>>)
        BY <3>3
      <4> PICK x : x = f[g[q]]
        OBVIOUS
      <4>2. CASE IsGroup(q)
        <5>1. x = f[IF any_required(At(q)) THEN dfs_next(q) ELSE next_sibling(q)]
          BY <3>1, <4>2, Zenon DEF WalksTo
        <5>2. WalkStep(q, x) = x
          BY <4>2 DEF WalkStep
        <5> QED BY <3>3, <4>1, <4>2, <5>1, <5>2, Zenon
      <4>3. CASE ~IsGroup(q) /\ CanBeMissed(q)
        <5>1. x = f[dfs_next(q)]
          BY <3>1, <4>3, Zenon DEF WalksTo
        <5>2. WalkStep(q, x) = {q} \cup x
          BY <4>3 DEF WalkStep
        <5> QED BY <3>3, <4>1, <4>3, <5>1, <5>2, Zenon
      <4>4. CASE ~IsGroup(q) /\ ~CanBeMissed(q)
        <5>1. x = f[IF At(q).blocking THEN next_after_siblings(q) ELSE dfs_next(q)]
          BY <3>1, <4>4, Zenon DEF WalksTo
        <5>2. WalkStep(q, x) = x
          BY <4>4 DEF WalkStep
        <5> QED BY <3>3, <4>1, <4>4, <5>1, <5>2, Zenon
      <4> QED BY <4>2, <4>3, <4>4
    <3> QED BY <3>2, <3>3
  <2> HIDE DEF D, r, g
  <2> QED BY <1>2, <2>1, Zenon DEF IsWalk, WalkSteps!IsRecursive
<1> QED BY <1>3

(* One step of the walk. *)
LEMMA WalkIs ==
  ASSUME NEW p, NEW walk, IsWalk(walk, p), NEW q \in Positions, ~ (Len(q) < Len(p))
  PROVE  walk[q] = WalkStep(q, walk[WalksTo(q)])
<1>0. q \in Position /\ q # <<>>
  BY PositionsAre DEF Position
<1>1. walk[q] = IF IsGroup(q)
                THEN walk[IF any_required(At(q)) THEN dfs_next(q) ELSE next_sibling(q)]
                ELSE IF CanBeMissed(q) THEN {q} \cup walk[dfs_next(q)]
                ELSE walk[IF At(q).blocking THEN next_after_siblings(q) ELSE dfs_next(q)]
  BY <1>0, Zenon DEF IsWalk
<1> PICK x : x = walk[WalksTo(q)]
  OBVIOUS
<1>2. CASE IsGroup(q)
  <2>1. walk[q] = x
    BY <1>1, <1>2, Zenon DEF WalksTo
  <2>2. WalkStep(q, x) = x
    BY <1>2 DEF WalkStep
  <2> QED BY <2>1, <2>2, Zenon
<1>3. CASE ~IsGroup(q) /\ CanBeMissed(q)
  <2>1. walk[q] = {q} \cup x
    BY <1>1, <1>3, Zenon DEF WalksTo
  <2>2. WalkStep(q, x) = {q} \cup x
    BY <1>3 DEF WalkStep
  <2> QED BY <2>1, <2>2, Zenon
<1>4. CASE ~IsGroup(q) /\ ~CanBeMissed(q)
  <2>1. walk[q] = x
    BY <1>1, <1>4, Zenon DEF WalksTo
  <2>2. WalkStep(q, x) = x
    BY <1>4 DEF WalkStep
  <2> QED BY <2>1, <2>2, Zenon
<1> QED BY <1>2, <1>3, <1>4

LEMMA WalkStops ==
  ASSUME NEW p, NEW walk, IsWalk(walk, p), NEW q \in Position, Len(q) < Len(p) \/ q = <<>>
  PROVE  walk[q] = {}
BY Zenon DEF IsWalk

LEMMA MissesFirst == PotentialMisses(<<1>>) = {}
<1> DEFINE walk == CHOOSE f : IsWalk(f, <<1>>)
<1>1. PotentialMisses(<<1>>) = walk[<<1>>]
  BY Zenon DEF PotentialMisses, IsWalk
<1>2. IsWalk(walk, <<1>>)
  BY WalkExists, Zenon
<1> HIDE DEF walk
<1>3. \A q \in Positions : ~ (Len(q) < Len(<<1>>))
  <2>1. \A q \in Positions : Len(q) \in 0 .. 2 /\ q # <<>>
    BY PositionLen, PositionsAre DEF Position
  <2>2. \A q \in Positions : Len(q) # 0
    <3>1. \A i \in 1 .. 11 : Len(<<i>>) # 0
      OBVIOUS
    <3>2. \A i \in Pairs : \A k \in {1, 2} : Len(<<i, k>>) # 0
      OBVIOUS
    <3> QED BY <3>1, <3>2, PositionsAre
  <2>3. Len(<<1>>) = 1
    OBVIOUS
  <2> QED BY <2>1, <2>2, <2>3
<1>4. \A q \in Positions : walk[q] = WalkStep(q, walk[WalksTo(q)])
  BY <1>2, <1>3, WalkIs
<1>5. \A q : IsGroup(q) \/ ~CanBeMissed(q) => \A x : WalkStep(q, x) = x
  BY DEF WalkStep
<1>6. walk[<<11>>] = {}
  <2>1. <<11>> \in Positions /\ WalksTo(<<11>>) = <<>> /\ ~CanBeMissed(<<11>>)
    BY PositionsAre, WalksToIs, OtherAt DEF Other, CanBeMissed
  <2>2. walk[<<>>] = {}
    BY <1>2, WalkStops DEF Position
  <2>3. walk[<<11>>] = WalkStep(<<11>>, walk[WalksTo(<<11>>)])
    BY <1>4, <2>1
  <2>4. WalkStep(<<11>>, {}) = {}
    BY <1>5, <2>1
  <2> QED BY <2>1, <2>2, <2>3, <2>4
<1>7. ASSUME NEW i \in 1 .. 10, NEW next, next = i + 1, walk[<<next>>] = {}
      PROVE  walk[<<i>>] = {}
  <2>1. CASE i \in Pairs
    <3>1. <<i>> \in Positions /\ <<i, 1>> \in Positions
      BY <2>1, PositionsAre
    <3>2. WalksTo(<<i>>) = <<i, 1>> /\ WalksTo(<<i, 1>>) = <<next>>
      BY <1>7, <2>1, WalksToIs
    <3>3. IsGroup(<<i>>) /\ ~CanBeMissed(<<i, 1>>)
      BY <2>1, PairAt DEF IsFlagAt, CanBeMissed
    <3>4. walk[<<i, 1>>] = WalkStep(<<i, 1>>, walk[<<next>>])
      BY <1>4, <3>1, <3>2
    <3>5. walk[<<i>>] = WalkStep(<<i>>, walk[<<i, 1>>])
      BY <1>4, <3>1, <3>2
    <3>6. walk[<<i, 1>>] = {}
      BY <1>5, <1>7, <3>3, <3>4
    <3> QED BY <1>5, <3>3, <3>5, <3>6
  <2>2. CASE i \notin Pairs
    <3>1. <<i>> \in Positions
      BY PositionsAre
    <3>2. WalksTo(<<i>>) = <<next>>
      BY <1>7, <2>2, WalksToIs
    <3>3. ~CanBeMissed(<<i>>)
      BY <2>2, FlagAt DEF IsFlagAt, CanBeMissed
    <3>4. walk[<<i>>] = WalkStep(<<i>>, walk[<<next>>])
      BY <1>4, <3>1, <3>2
    <3> QED BY <1>5, <1>7, <3>3, <3>4
  <2> QED BY <2>1, <2>2
<1> DEFINE R(n) == walk[<<11 - n>>] = {}
<1>8. \A n \in 0 .. 9 : R(n) => R(n + 1)
  <2>1. SUFFICES ASSUME NEW n \in 0 .. 9, R(n) PROVE R(n + 1)
    OBVIOUS
  <2>2. PICK i \in 1 .. 10, next \in Nat : i = 11 - (n + 1) /\ next = i + 1 /\ next = 11 - n
    <3>1. 11 - (n + 1) \in 1 .. 10 /\ (11 - (n + 1)) + 1 = 11 - n
      OBVIOUS
    <3> QED BY <3>1
  <2> QED BY <1>7, <2>1, <2>2
<1>9. R(0)
  BY <1>6
<1>10. R(10)
  <2> HIDE DEF R
  <2> QED BY <1>8, <1>9
<1>11. 11 - 10 = 1
  OBVIOUS
<1> QED BY <1>1, <1>10, <1>11

LEMMA MissesOfPair ==
  ASSUME NEW i \in Pairs
  PROVE  PotentialMisses(<<i, 2>>) = {<<i, 2>>}
<1> DEFINE walk == CHOOSE f : IsWalk(f, <<i, 2>>)
<1>1. PotentialMisses(<<i, 2>>) = walk[<<i, 2>>]
  BY Zenon DEF PotentialMisses, IsWalk
<1>2. IsWalk(walk, <<i, 2>>)
  BY WalkExists, Zenon
<1> HIDE DEF walk
<1>3. Len(<<i, 2>>) = 2 /\ Len(<<i + 1>>) = 1 /\ <<i, 2>> \in Positions /\ <<i + 1>> \in Position
  <2>1. i + 1 \in 1 .. 11
    BY DEF Pairs
  <2>2. <<i + 1>> \in Position
    BY <2>1, PositionsAre DEF Position
  <2> QED BY <2>2, PositionLen
<1>4. walk[<<i, 2>>] = WalkStep(<<i, 2>>, walk[WalksTo(<<i, 2>>)])
  BY <1>2, <1>3, WalkIs
<1>5. walk[<<i + 1>>] = {}
  <2>1. Len(<<i + 1>>) < Len(<<i, 2>>)
    BY <1>3
  <2> QED BY <1>2, <1>3, <2>1, WalkStops
<1>6. WalksTo(<<i, 2>>) = <<i + 1>>
  BY WalksToIs
<1>7. WalkStep(<<i, 2>>, {}) = {<<i, 2>>}
  <2>1. ~IsGroup(<<i, 2>>) /\ CanBeMissed(<<i, 2>>)
    BY PairAt DEF IsValueAt, CanBeMissed
  <2> QED BY <2>1 DEF WalkStep
<1> QED BY <1>1, <1>4, <1>5, <1>6, <1>7

AllMisses == {ValuePlace(i) : i \in Pairs}

LEMMA MissesAre ==
  ASSUME NEW miss \in SUBSET AllMisses
  PROVE  /\ \A i \in Pairs : Misses(miss, Place(i)) = miss \cup {ValuePlace(i)}
         /\ \A p \in {Place(j) : j \in (1 .. 10) \ Pairs} \cup {Other} : Misses(miss, p) = miss
         /\ \A i \in Pairs : Misses(miss, ValuePlace(i)) = miss \ {ValuePlace(i)}
<1>0. \A p : p \notin Values => p \notin AllMisses
  BY ParamsAre DEF AllMisses
<1>1. ASSUME NEW i \in Pairs PROVE Misses(miss, Place(i)) = miss \cup {ValuePlace(i)}
  <2> PICK p : p = Place(i)
    OBVIOUS
  <2>1. p = <<i, 1>> /\ p \notin Values /\ i \in 1 .. 10
    <3>1. i \in 1 .. 10
      BY DEF Pairs
    <3> QED BY <3>1, NoFlag DEF Place
  <2>2. At(p).blocking /\ ~At(p).required
    BY <2>1, PairAt DEF IsFlagAt
  <2>3. dfs_next(p) = <<i, 2>> /\ Len(<<i, 2>>) >= Len(p)
    <3>1. dfs_next(<<i, 1>>) = <<i, 2>>
      BY Steps
    <3>2. Len(<<i, 1>>) = 2 /\ Len(<<i, 2>>) = 2
      OBVIOUS
    <3> QED BY <2>1, <3>1, <3>2
  <2>4. add_miss_candidates_after(miss, p) = miss \cup {<<i, 2>>}
    BY <2>2, <2>3, MissesOfPair DEF add_miss_candidates_after
  <2>5. p \notin miss \cup {<<i, 2>>}
    BY <1>0, <2>1
  <2>6. Misses(miss, p) = miss \cup {<<i, 2>>}
    BY <2>4, <2>5 DEF Misses
  <2> QED BY <2>6 DEF ValuePlace
<1>2. ASSUME NEW p, ~At(p).blocking \/ At(p).required
      PROVE  Misses(miss, p) = miss \ {p}
  BY <1>2 DEF Misses, add_miss_candidates_after
<1>3. ASSUME NEW p \in {Place(j) : j \in (1 .. 10) \ Pairs} \cup {Other}
      PROVE  Misses(miss, p) = miss
  <2>1. ~At(p).blocking
    <3>1. \A j \in (1 .. 10) \ Pairs : ~At(Place(j)).blocking
      BY PlaceIs
    <3> QED BY <3>1, OtherAt
  <2>2. p \notin AllMisses
    <3>1. \A j \in (1 .. 10) \ Pairs : Place(j) \notin AllMisses
      BY <1>0, NoFlag
    <3>2. Other \notin AllMisses
      BY DEF Other, AllMisses, ValuePlace
    <3> QED BY <3>1, <3>2
  <2> QED BY <1>2, <2>1, <2>2
<1>4. ASSUME NEW i \in Pairs PROVE Misses(miss, ValuePlace(i)) = miss \ {ValuePlace(i)}
  <2>1. At(ValuePlace(i)).required
    BY PairAt DEF IsValueAt, ValuePlace
  <2> QED BY <1>2, <2>1
<1> QED BY <1>1, <1>3, <1>4

-----------------------------------------------------------------------------
(***************************************************************************)
(* The parser: where it is, what it misses, and the arguments so far.      *)
(***************************************************************************)
MatchedArg(index, arg, p, repeat, blocked) ==
  [index |-> index, arg |-> arg, param |-> p, repeat |-> repeat, blocked |-> blocked]

LEMMA ArgFields ==
  ASSUME NEW index, NEW arg, NEW p, NEW repeat, NEW blocked
  PROVE  /\ MatchedArg(index, arg, p, repeat, blocked).arg = arg
         /\ MatchedArg(index, arg, p, repeat, blocked).param = p
         /\ MatchedArg(index, arg, p, repeat, blocked).repeat = repeat
         /\ MatchedArg(index, arg, p, repeat, blocked).blocked = blocked
BY DEF MatchedArg

IsArg(a) ==
  /\ a.arg \in Seq(STRING) /\ a.arg # <<>> /\ a.param \in Params /\ a.param # <<>>
  /\ a.repeat \in Nat /\ ~a.blocked

ParserOK(ps) ==
  /\ DOMAIN ps = {"pos", "index", "args", "miss", "blocked"}
  /\ PosOK(ps.pos) /\ ps.miss \in SUBSET AllMisses /\ ~ps.blocked
  /\ \E S : ps.args \in Seq(S)
  /\ \A k \in DOMAIN ps.args : IsArg(ps.args[k])

Seen(list, p) == \E k \in DOMAIN list : list[k].param = p

LEMMA MaxOf ==
  ASSUME NEW n \in Nat, NEW S \in SUBSET (1 .. n), S # {}
  PROVE  Max(S) \in S /\ \A x \in S : x <= Max(S)
<1> DEFINE T == {n - x : x \in S}
<1>1. T \in SUBSET Nat /\ T # {}
  <2>1. \A x \in S : n - x \in Nat
    OBVIOUS
  <2>2. T \in SUBSET Nat
    BY <2>1
  <2> QED BY <2>2
<1>2. PICK y \in T : \A z \in T : y <= z
  <2> HIDE DEF T
  <2> QED BY <1>1, CommaSteps!LeastElement
<1>3. PICK x \in S : y = n - x
  OBVIOUS
<1>4. \A z \in S : x >= z
  <2>1. SUFFICES ASSUME NEW z \in S PROVE x >= z
    OBVIOUS
  <2>2. n - z \in T
    BY <1>1
  <2>3. y <= n - z
    BY <1>2, <2>2
  <2> QED BY <1>3, <2>3
<1>5. \E w \in S : \A z \in S : w >= z
  BY <1>4
<1>6. Max(S) \in S /\ \A z \in S : Max(S) >= z
  BY <1>5, Zenon DEF Max
<1>7. \A z \in S : z <= Max(S)
  BY <1>6
<1> QED BY <1>6, <1>7

LEMMA MinOf ==
  ASSUME NEW S \in SUBSET Nat, S # {}
  PROVE  Min(S) \in S /\ \A x \in S : Min(S) <= x
<1>1. \E x \in S : \A y \in S : x <= y
  BY CommaSteps!LeastElement
<1> QED BY <1>1, Zenon DEF Min

(* A parameter is repeated if it has been seen. *)
LEMMA Occurrences ==
  ASSUME NEW S, NEW list \in Seq(S), \A k \in DOMAIN list : list[k].repeat \in Nat,
         NEW p, NEW n, n = occurrences_of(list, p)
  PROVE  n \in Nat /\ (n > 0 <=> Seen(list, p))
<1> PICK seen : seen = {i \in DOMAIN list : list[i].param = p}
  OBVIOUS
<1>1. n = IF seen = {} THEN 0 ELSE list[Max(seen)].repeat + 1
  BY Zenon DEF occurrences_of
<1>2. seen # {} <=> Seen(list, p)
  BY DEF Seen
<1>3. CASE seen = {}
  BY <1>1, <1>2, <1>3
<1>4. CASE seen # {}
  <2>1. Len(list) \in Nat /\ seen \in SUBSET (1 .. Len(list))
    BY LenProperties
  <2>2. Max(seen) \in seen
    BY <1>4, <2>1, MaxOf
  <2>3. list[Max(seen)].repeat \in Nat
    BY <2>2
  <2> QED BY <1>1, <1>2, <1>4, <2>3
<1> QED BY <1>3, <1>4

(* The parser after one more match. *)
Adds(ps, pos, list, miss) == [ps EXCEPT !.pos = pos, !.args = list, !.miss = miss]

IsAdds(q, ps, pos, list, miss) ==
  /\ DOMAIN q = {"pos", "index", "args", "miss", "blocked"}
  /\ q.pos = pos /\ q.args = list /\ q.miss = miss
  /\ q.index = ps.index /\ q.blocked = ps.blocked

LEMMA AddsFields ==
  ASSUME NEW ps, DOMAIN ps = {"pos", "index", "args", "miss", "blocked"},
         NEW pos, NEW list, NEW miss
  PROVE  IsAdds(Adds(ps, pos, list, miss), ps, pos, list, miss)
BY DEF Adds, IsAdds

IsAdded(q, ps, p, text) ==
  \E a : /\ a.arg = text /\ a.param = p /\ ~a.blocked /\ a.repeat = occurrences_of(ps.args, p)
         /\ q.args = Append(ps.args, a)
         /\ q.pos = next_after_match(ps.pos, p) /\ q.miss = Misses(ps.miss, p)
         /\ q.index = ps.index /\ q.blocked = ps.blocked
         /\ DOMAIN q = {"pos", "index", "args", "miss", "blocked"}

LEMMA AddMatchIs ==
  ASSUME NEW ps, DOMAIN ps = {"pos", "index", "args", "miss", "blocked"},
         NEW m, NEW p, m.at.pos = p
  PROVE  IsAdded(add_match(ps, m), ps, p, m.str)
<1>1. PICK no \in BOOLEAN : no = FALSE
  OBVIOUS
<1> PICK n, text : n = occurrences_of(ps.args, p) /\ text = m.str
  OBVIOUS
<1> PICK a : a = MatchedArg(ps.index, text, p, n, no)
  OBVIOUS
<1>2. a.arg = text /\ a.param = p /\ a.repeat = n /\ a.blocked = no
  BY ArgFields
<1> PICK pos, list, miss : /\ pos = next_after_match(ps.pos, p) /\ list = Append(ps.args, a)
                            /\ miss = Misses(ps.miss, p)
  OBVIOUS
<1> PICK q : q = add_match(ps, m)
  OBVIOUS
<1>3. q = Adds(ps, pos, list, miss)
  BY <1>1, Zenon DEF add_match, Adds, MatchedArg
<1>4. /\ DOMAIN q = {"pos", "index", "args", "miss", "blocked"}
      /\ q.pos = pos /\ q.args = list /\ q.miss = miss /\ q.index = ps.index
      /\ q.blocked = ps.blocked
  <2>1. IsAdds(q, ps, pos, list, miss)
    BY <1>3, AddsFields, Zenon
  <2> QED BY <2>1, Zenon DEF IsAdds
<1>5. ~a.blocked
  BY <1>1, <1>2, Zenon
<1>6. IsAdded(q, ps, p, text)
  BY <1>2, <1>4, <1>5, Zenon DEF IsAdded
<1> QED BY <1>6, Zenon

-----------------------------------------------------------------------------
AddSteps == INSTANCE Recursion WITH Op <- add_match

LEMMA AddFold ==
  ASSUME NEW ps, NEW seq
  PROVE  AddMatches(ps, seq) = AddSteps!Fold(ps, seq)
BY Zenon DEF AddMatches, FoldLeft, AddSteps!Fold, AddSteps!FoldLeft, MapThenFoldSet,
   AddSteps!MapThenFoldSet, Max, AddSteps!Max

LEMMA AddOne ==
  ASSUME NEW ps, NEW m
  PROVE  AddMatches(ps, <<m>>) = add_match(ps, m)
<1>1. PICK S : S = {m}
  OBVIOUS
<1>2. <<>> \in Seq(S) /\ m \in S /\ Append(<<>>, m) = <<m>>
  BY <1>1
<1>3. AddSteps!Fold(ps, Append(<<>>, m)) = add_match(AddSteps!Fold(ps, <<>>), m)
  BY <1>2, AddSteps!Unroll, Zenon
<1>4. AddSteps!Fold(ps, <<>>) = ps
  BY AddSteps!Empty, Zenon
<1> QED BY <1>2, <1>3, <1>4, AddFold, Zenon

LEMMA AddTwo ==
  ASSUME NEW ps, NEW m, NEW n
  PROVE  AddMatches(ps, <<m, n>>) = add_match(add_match(ps, m), n)
<1>1. PICK S : S = {m, n}
  OBVIOUS
<1>2. <<m>> \in Seq(S) /\ n \in S /\ Append(<<m>>, n) = <<m, n>>
  <2> PICK a, b, c : a = <<m>> /\ b = Append(a, n) /\ c = <<m, n>>
    OBVIOUS
  <2>1. a \in Seq(S) /\ Len(a) = 1 /\ a[1] = m
    BY <1>1
  <2>2. n \in S
    BY <1>1
  <2>3. c \in Seq(S) /\ Len(c) = 2 /\ c[1] = m /\ c[2] = n
    BY <1>1
  <2>4. b \in Seq(S) /\ Len(b) = 2 /\ b[1] = m /\ b[2] = n
    BY <2>1, <2>2
  <2>5. \A i \in 1 .. 2 : b[i] = c[i]
    BY <2>3, <2>4
  <2>6. b = c
    BY <2>3, <2>4, <2>5, SeqEqual
  <2> QED BY <2>1, <2>2, <2>6
<1>3. AddSteps!Fold(ps, Append(<<m>>, n)) = add_match(AddSteps!Fold(ps, <<m>>), n)
  BY <1>2, AddSteps!Unroll, Zenon
<1>4. AddSteps!Fold(ps, <<m>>) = add_match(ps, m)
  BY AddOne, AddFold, Zenon
<1> QED BY <1>2, <1>3, <1>4, AddFold, Zenon

(* An argument that finds its match in reach adds it, and nothing else. *)
Counted(ps) == [ps EXCEPT !.index = @ + 1]

IsCounted(q, ps) ==
  /\ DOMAIN q = {"pos", "index", "args", "miss", "blocked"}
  /\ q.pos = ps.pos /\ q.args = ps.args /\ q.miss = ps.miss
  /\ q.blocked = ps.blocked /\ q.index = ps.index + 1

LEMMA CountedFields ==
  ASSUME NEW ps, DOMAIN ps = {"pos", "index", "args", "miss", "blocked"}
  PROVE  IsCounted(Counted(ps), ps)
BY DEF Counted, IsCounted

LEMMA PlaceOfOK ==
  ASSUME NEW t, PosOK(t)
  PROVE  t.pos # <<>>
<1>1. CASE Idle(t)
  <2>1. t.pos \in Stops
    BY <1>1, Zenon DEF Idle
  <2>2. \A p \in Stops : p # <<>>
    BY DEF Stops
  <2> QED BY <2>1, <2>2
<1>2. ASSUME NEW i \in Pairs, WaitsFor(t, i) PROVE t.pos # <<>>
  <2>1. t.pos = <<i, 2>>
    BY <1>2, Zenon DEF WaitsFor, ValuePlace
  <2> QED BY <2>1
<1> QED BY <1>1, <1>2, Zenon DEF PosOK

LEMMA ParseIs ==
  ASSUME NEW ps, ParserOK(ps), NEW arg, arg # <<>>, NEW m, m = try_match(ps.pos, arg), m # <<>>
  PROVE  ParseArgument(ps, arg) = AddMatches(Counted(ps), m)
<1> PICK c : c = Counted(ps)
  OBVIOUS
<1>1. IsCounted(c, ps)
  BY CountedFields, Zenon DEF ParserOK
<1>2. c.pos = ps.pos /\ c.blocked = ps.blocked
  BY <1>1, Zenon DEF IsCounted
<1>3. ~ps.blocked /\ ps.pos.pos # <<>>
  BY PlaceOfOK, Zenon DEF ParserOK
<1>4. ParseArgument(ps, arg) = ParseCounted(c, arg)
  BY Zenon DEF ParseArgument, Counted
<1>5. ParseCounted(c, arg) = ParseMatched(c, arg, m, BlockedMatches(c, arg))
  BY <1>2, <1>3, Zenon DEF ParseCounted, valid
<1>6. ParseMatched(c, arg, m, BlockedMatches(c, arg)) = AddMatches(c, m)
  BY Zenon DEF ParseMatched
<1> QED BY <1>4, <1>5, <1>6, Zenon

LEMMA ParseNothing ==
  ASSUME NEW ps, ParserOK(ps)
  PROVE  ParseArgument(ps, <<>>) = Counted(ps)
BY Zenon DEF ParseArgument, ParseCounted, Counted

LEMMA ParseOne ==
  ASSUME NEW ps, ParserOK(ps), NEW arg, arg # <<>>, NEW p, IsOne(try_match(ps.pos, arg), arg, p)
  PROVE  IsAdded(ParseArgument(ps, arg), Counted(ps), p, arg)
<1>1. PICK u : try_match(ps.pos, arg) = <<[str |-> arg, at |-> u]>> /\ u.pos = p
  BY Zenon DEF IsOne
<1>2. PICK m : m = [str |-> arg, at |-> u]
  OBVIOUS
<1>3. m.str = arg /\ m.at.pos = p
  BY <1>1, <1>2
<1>4. <<m>> # <<>>
  OBVIOUS
<1>5. ParseArgument(ps, arg) = add_match(Counted(ps), m)
  BY <1>1, <1>2, <1>4, ParseIs, AddOne, Zenon
<1>6. IsCounted(Counted(ps), ps)
  BY CountedFields, Zenon DEF ParserOK
<1>7. IsAdded(add_match(Counted(ps), m), Counted(ps), p, m.str)
  BY <1>3, <1>6, AddMatchIs, Zenon DEF IsCounted
<1> QED BY <1>3, <1>5, <1>7, Zenon

LEMMA ParseTwo ==
  ASSUME NEW ps, ParserOK(ps), NEW arg, arg # <<>>, NEW i \in Pairs,
         IsTwo(try_match(ps.pos, arg), arg, i), NEW n, n = match(Place(i), arg)
  PROVE  \E q : /\ IsAdded(q, Counted(ps), Place(i), SubSeq(arg, 1, n))
                /\ IsAdded(ParseArgument(ps, arg), q, ValuePlace(i), SubSeq(arg, n + 1, Len(arg)))
<1> PICK x, y : x = SubSeq(arg, 1, n) /\ y = SubSeq(arg, n + 1, Len(arg))
  OBVIOUS
<1>1. PICK u, v : /\ try_match(ps.pos, arg) = Split(arg, n, u, v)
                  /\ u.pos = Place(i) /\ v.pos = ValuePlace(i)
  BY Zenon DEF IsTwo
<1>2. PICK k, l : k = [str |-> x, at |-> u] /\ l = [str |-> y, at |-> v]
  OBVIOUS
<1>3. k.str = x /\ k.at.pos = Place(i) /\ l.str = y /\ l.at.pos = ValuePlace(i)
  BY <1>1, <1>2
<1>4. <<k, l>> # <<>>
  OBVIOUS
<1>5. try_match(ps.pos, arg) = <<k, l>>
  BY <1>1, <1>2, Zenon DEF Split
<1>q. PICK c, q : c = Counted(ps) /\ q = add_match(c, k)
  OBVIOUS
<1>6. ParseArgument(ps, arg) = add_match(q, l)
  <2>1. ParseArgument(ps, arg) = AddMatches(c, <<k, l>>)
    BY <1>4, <1>5, <1>q, ParseIs, Zenon
  <2>2. AddMatches(c, <<k, l>>) = add_match(add_match(c, k), l)
    BY AddTwo
  <2>3. add_match(add_match(c, k), l) = add_match(q, l)
    BY <1>q, Zenon
  <2> QED BY <2>1, <2>2, <2>3, Zenon
<1>7. DOMAIN c = {"pos", "index", "args", "miss", "blocked"}
  BY <1>q, CountedFields, Zenon DEF ParserOK, IsCounted
<1>8. IsAdded(q, c, Place(i), x)
  BY <1>q, <1>3, <1>7, AddMatchIs, Zenon
<1>9. DOMAIN q = {"pos", "index", "args", "miss", "blocked"}
  BY <1>8, Zenon DEF IsAdded
<1>10. IsAdded(add_match(q, l), q, ValuePlace(i), y)
  BY <1>3, <1>9, AddMatchIs, Zenon
<1> QED BY <1>q, <1>6, <1>8, <1>10, Zenon

IsAppended(e, s, a, S) ==
  /\ e \in Seq(S \cup {a}) /\ DOMAIN s = 1 .. Len(s) /\ Len(s) \in Nat
  /\ DOMAIN e = 1 .. Len(s) + 1
  /\ \A k \in 1 .. Len(s) : e[k] = s[k]
  /\ e[Len(s) + 1] = a
  /\ ToSet(e) = ToSet(s) \cup {a}

LEMMA Appended ==
  ASSUME NEW S, NEW s \in Seq(S), NEW a
  PROVE  IsAppended(Append(s, a), s, a, S)
<1>e. PICK e : e = Append(s, a)
  OBVIOUS
<1>n. PICK n : n = Len(s) + 1
  OBVIOUS
<1>1. s \in Seq(S \cup {a}) /\ DOMAIN s = 1 .. Len(s) /\ Len(s) \in Nat
  OBVIOUS
<1>2. e \in Seq(S \cup {a}) /\ Len(e) = n
  BY <1>1, <1>e, <1>n
<1>3. DOMAIN e = 1 .. n
  BY <1>2
<1>4. \A k \in 1 .. Len(s) : e[k] = s[k]
  BY <1>1, <1>e
<1>5. e[n] = a
  BY <1>1, <1>e, <1>n
<1>6. 1 .. n = (1 .. Len(s)) \cup {n}
  BY <1>1, <1>n
<1>7. ToSet(e) = ToSet(s) \cup {a}
  <2>1. ASSUME NEW x \in ToSet(e) PROVE x \in ToSet(s) \cup {a}
    <3>1. PICK k \in 1 .. n : x = e[k]
      BY <1>3 DEF ToSet
    <3>2. CASE k = n
      BY <1>5, <3>1, <3>2
    <3>3. CASE k \in 1 .. Len(s)
      BY <1>1, <1>4, <3>1, <3>3 DEF ToSet
    <3> QED BY <1>6, <3>2, <3>3
  <2>2. ASSUME NEW x \in ToSet(s) PROVE x \in ToSet(e)
    <3>1. PICK k \in 1 .. Len(s) : x = s[k]
      BY <1>1 DEF ToSet
    <3>2. k \in 1 .. n /\ x = e[k]
      BY <1>4, <1>6, <3>1
    <3> QED BY <1>3, <3>2 DEF ToSet
  <2>3. a \in ToSet(e)
    <3>1. n \in 1 .. n
      BY <1>6
    <3> QED BY <1>3, <1>5, <3>1 DEF ToSet
  <2> QED BY <2>1, <2>2, <2>3
<1>8. IsAppended(e, s, a, S)
  BY <1>1, <1>2, <1>3, <1>4, <1>5, <1>7, <1>n, Zenon DEF IsAppended
<1> QED BY <1>8, <1>e

(* An argument that repeats what may not be repeated. *)
Repeats(list) == \E k \in DOMAIN list : bad_repeat(list[k])

IsArgs(list) == (\E S : list \in Seq(S)) /\ \A a \in ToSet(list) : IsArg(a)

LEMMA ArgsAre ==
  ASSUME NEW ps, ParserOK(ps)
  PROVE  IsArgs(ps.args)
BY Zenon DEF ParserOK, IsArgs, ToSet

LEMMA AddedArgs ==
  ASSUME NEW ps, IsArgs(ps.args), NEW p \in Params, p # <<>>,
         NEW text \in Seq(STRING), text # <<>>, NEW q, IsAdded(q, ps, p, text)
  PROVE  /\ IsArgs(q.args)
         /\ \A x : Seen(q.args, x) <=> Seen(ps.args, x) \/ x = p
         /\ Repeats(q.args) <=> Repeats(ps.args) \/ (Seen(ps.args, p) /\ ~At(p).repeatable)
<1> PICK s, r : s = ps.args /\ r = q.args
  OBVIOUS
<1>1. PICK S : s \in Seq(S)
  BY Zenon DEF IsArgs
<1>2. PICK a : /\ a.arg = text /\ a.param = p /\ ~a.blocked
               /\ a.repeat = occurrences_of(s, p) /\ r = Append(s, a)
  BY Zenon DEF IsAdded
<1>3. \A b \in ToSet(s) : IsArg(b)
  BY Zenon DEF IsArgs
<1>4. a.repeat \in Nat /\ (a.repeat > 0 <=> Seen(s, p))
  <2>1. \A k \in DOMAIN s : s[k].repeat \in Nat
    BY <1>3 DEF ToSet, IsArg
  <2> QED BY <1>1, <1>2, <2>1, Occurrences
<1>5. IsArg(a)
  BY <1>2, <1>4 DEF IsArg
<1>6. r \in Seq(S \cup {a}) /\ ToSet(r) = ToSet(s) \cup {a}
  <2>1. r = Append(s, a)
    BY <1>2
  <2>2. IsAppended(r, s, a, S)
    BY <1>1, <2>1, Appended, Zenon
  <2> QED BY <2>2, Zenon DEF IsAppended
<1>7. IsArgs(r)
  BY <1>3, <1>5, <1>6 DEF IsArgs
<1>8. \A x : Seen(r, x) <=> Seen(s, x) \/ x = p
  <2>1. \A x, t : Seen(t, x) <=> \E b \in ToSet(t) : b.param = x
    BY DEF Seen, ToSet
  <2>2. a.param = p
    BY <1>2
  <2> QED BY <1>6, <2>1, <2>2
<1>9. Repeats(r) <=> Repeats(s) \/ (Seen(s, p) /\ ~At(p).repeatable)
  <2>1. \A t : Repeats(t) <=> \E b \in ToSet(t) : bad_repeat(b)
    BY Zenon DEF Repeats, ToSet
  <2>2. bad_repeat(a) <=> Seen(s, p) /\ ~At(p).repeatable
    BY <1>2, <1>4 DEF bad_repeat
  <2> QED BY <1>6, <2>1, <2>2
<1> QED BY <1>7, <1>8, <1>9

ActionSteps == INSTANCE Recursion WITH Op <- ExecuteAction

LEMMA ActionFold ==
  ASSUME NEW ps, NEW options0
  PROVE  execute_actions(ps, options0) = ActionSteps!Fold(options0, ps.args)
BY Zenon DEF execute_actions, FoldLeft, ActionSteps!Fold, ActionSteps!FoldLeft, MapThenFoldSet,
   ActionSteps!MapThenFoldSet, Max, ActionSteps!Max

(* The values of the options after one more argument. *)
Acts(q, ps, p, text) ==
  /\ Seen(ps.args, p) /\ ~At(p).repeatable =>
       execute_actions(q, NoOptions) = execute_actions(ps, NoOptions)
  /\ ~ (Seen(ps.args, p) /\ ~At(p).repeatable) =>
       execute_actions(q, NoOptions)
       = SetTarget(execute_actions(ps, NoOptions), At(p).target, text)

LEMMA AddedAction ==
  ASSUME NEW ps, IsArgs(ps.args), NEW p \in Params, p # <<>>, NEW text, NEW q,
         IsAdded(q, ps, p, text)
  PROVE  Acts(q, ps, p, text)
<1> PICK s, r, base : s = ps.args /\ r = q.args /\ base = NoOptions
  OBVIOUS
<1> PICK o : o = execute_actions(ps, NoOptions)
  OBVIOUS
<1>1. PICK S : s \in Seq(S)
  BY Zenon DEF IsArgs
<1>2. PICK a : /\ a.arg = text /\ a.param = p /\ ~a.blocked
               /\ a.repeat = occurrences_of(s, p) /\ r = Append(s, a)
  BY Zenon DEF IsAdded
<1>3. \A k \in DOMAIN s : s[k].repeat \in Nat
  BY DEF IsArgs, ToSet, IsArg
<1>4. a.repeat \in Nat /\ (a.repeat > 0 <=> Seen(s, p))
  BY <1>1, <1>2, <1>3, Occurrences
<1>5. ArgumentError(a) <=> Seen(s, p) /\ ~At(p).repeatable
  BY <1>2, <1>4 DEF ArgumentError, bad_repeat
<1>6. s \in Seq(S \cup {a}) /\ a \in S \cup {a}
  BY <1>1
<1>7. ActionSteps!Fold(base, Append(s, a)) = ExecuteAction(ActionSteps!Fold(base, s), a)
  BY <1>6, ActionSteps!Unroll, Zenon
<1>8. ActionSteps!Fold(base, s) = o
  BY ActionFold, Zenon
<1>9. execute_actions(q, NoOptions) = ExecuteAction(o, a)
  <2>1. execute_actions(q, base) = ActionSteps!Fold(base, r)
    BY ActionFold, Zenon
  <2> QED BY <1>2, <1>7, <1>8, <2>1, Zenon
<1>10. a.arg = text /\ a.param = p
  BY <1>2
<1>11. ExecuteAction(o, a) = IF Seen(s, p) /\ ~At(p).repeatable THEN o
                             ELSE SetTarget(o, At(p).target, text)
  BY <1>5, <1>10, Zenon DEF ExecuteAction
<1> QED BY <1>9, <1>11, Zenon DEF Acts

-----------------------------------------------------------------------------
(***************************************************************************)
(* The reader of the command line: the options by their number.            *)
(***************************************************************************)
Opt(j) == <<j, IF j \in Pairs THEN 1 ELSE 0>>
Opts   == {Opt(j) : j \in 1 .. 10}

LEMMA OptFields == \A j : Opt(j)[1] = j /\ Opt(j)[2] = IF j \in Pairs THEN 1 ELSE 0
BY DEF Opt

LEMMA EntryIs ==
  ASSUME NEW j \in 1 .. 11
  PROVE  /\ cli.children[j] = At(<<j>>) /\ Len(cli.children) = 11
         /\ j \in Pairs => /\ cli.children[j].type = "group"
                           /\ cli.children[j].children[1] = At(<<j, 1>>)
                           /\ cli.children[j].children[2] = At(<<j, 2>>)
         /\ j \notin Pairs => cli.children[j].type = "param"
         /\ j \in (1 .. 10) \ Pairs => cli.children[j].flags # <<>>
         /\ j = 11 => cli.children[j].flags = <<>>
<1> PICK e : e = Entries[j]
  OBVIOUS
<1>1. cli.children[j] = e /\ Len(cli.children) = 11 /\ At(<<j>>) = e
  BY CliIs, EntriesAre, AtIs DEF IsRoot
<1>2. ASSUME j \in Pairs
      PROVE  e.type = "group" /\ e.children[1] = At(<<j, 1>>) /\ e.children[2] = At(<<j, 2>>)
  <2>1. IsPairEntry(e, j)
    BY <1>2, EntryTable
  <2> QED BY <2>1, AtIs DEF IsPairEntry
<1>3. ASSUME j \in (1 .. 10) \ Pairs PROVE e.type = "param" /\ e.flags # <<>>
  <2>1. IsFlagEntry(e, j)
    BY <1>3, EntryTable
  <2> QED BY <2>1 DEF IsFlagEntry
<1>4. ASSUME j = 11 PROVE e.type = "param" /\ e.flags = <<>>
  <2>1. IsLastEntry(e)
    BY <1>4, EntryTable
  <2> QED BY <2>1 DEF IsLastEntry
<1>5. j = 11 \/ j \in 1 .. 10
  OBVIOUS
<1>6. 11 \notin Pairs
  BY DEF Pairs
<1> QED BY <1>1, <1>2, <1>3, <1>4, <1>5, <1>6

LEMMA OptionsAre == Options = Opts
<1>1. Len(cli.children) = 11
  BY EntryIs, 11 \in 1 .. 11
<1>2. ASSUME NEW p \in Options PROVE p \in Opts
  <2>1. PICK j \in 1 .. 11, k \in {0, 1} : p = <<j, k>>
    BY <1>1 DEF Options
  <2>2. p[1] = j /\ p[2] = k
    BY <2>1
  <2>3. IF k = 0 THEN cli.children[j].type = "param" /\ cli.children[j].flags # <<>>
        ELSE cli.children[j].type = "group"
    BY <2>2 DEF Options
  <2>4. CASE k = 0
    <3>1. j \in (1 .. 10) \ Pairs
      BY <2>3, <2>4, EntryIs
    <3> QED BY <2>1, <2>4, <3>1 DEF Opts, Opt
  <2>5. CASE k = 1
    <3>1. j \in Pairs
      BY <2>3, <2>5, EntryIs
    <3>2. j \in 1 .. 10
      BY <3>1 DEF Pairs
    <3> QED BY <2>1, <2>5, <3>1, <3>2 DEF Opts, Opt
  <2> QED BY <2>4, <2>5
<1>3. ASSUME NEW j \in 1 .. 10 PROVE Opt(j) \in Options
  <2>1. j \in 1 .. 11
    OBVIOUS
  <2>2. CASE j \in Pairs
    <3>1. Opt(j) = <<j, 1>>
      BY <2>2 DEF Opt
    <3>2. <<j, 1>>[1] = j /\ <<j, 1>>[2] = 1
      OBVIOUS
    <3>3. cli.children[j].type = "group"
      BY <2>1, <2>2, EntryIs
    <3> QED BY <1>1, <2>1, <3>1, <3>2, <3>3 DEF Options
  <2>3. CASE j \notin Pairs
    <3>1. Opt(j) = <<j, 0>>
      BY <2>3 DEF Opt
    <3>2. <<j, 0>>[1] = j /\ <<j, 0>>[2] = 0
      OBVIOUS
    <3>3. cli.children[j].type = "param" /\ cli.children[j].flags # <<>>
      BY <2>1, <2>3, EntryIs
    <3> QED BY <1>1, <2>1, <3>1, <3>2, <3>3 DEF Options
  <2> QED BY <2>2, <2>3
<1> QED BY <1>2, <1>3 DEF Opts

LEMMA OptIs ==
  ASSUME NEW j \in 1 .. 10
  PROVE  /\ OptionAt(Opt(j)) = At(Place(j)) /\ (Takes(Opt(j)) <=> j \in Pairs)
         /\ OptionAt(Opt(j)).target = FlagTarget(j) /\ OptionAt(Opt(j)).flags = FlagsOf(j)
         /\ j \in Pairs => ValueOf(Opt(j)) = ValueTarget(j)
<1>1. j \in 1 .. 11
  OBVIOUS
<1> PICK p, c : p = Opt(j) /\ c = cli.children[j]
  OBVIOUS
<1>p. p[1] = j /\ p[2] = IF j \in Pairs THEN 1 ELSE 0
  BY OptFields
<1>2. OptionAt(p) = At(Place(j)) /\ (Takes(p) <=> j \in Pairs)
  <2>1. CASE j \in Pairs
    <3>1. p[1] = j /\ p[2] = 1 /\ p[2] # 0
      BY <1>p, <2>1
    <3>2. c.children[1] = At(<<j, 1>>)
      BY <1>1, <2>1, EntryIs
    <3>3. OptionAt(p) = c.children[1]
      BY <3>1, Zenon DEF OptionAt
    <3>4. Place(j) = <<j, 1>>
      BY <2>1 DEF Place
    <3> QED BY <2>1, <3>1, <3>2, <3>3, <3>4, Zenon DEF Takes
  <2>2. CASE j \notin Pairs
    <3>1. p[1] = j /\ p[2] = 0 /\ p[2] # 1
      BY <1>p, <2>2
    <3>2. c = At(<<j>>)
      BY <1>1, EntryIs
    <3>3. OptionAt(p) = c
      BY <3>1, Zenon DEF OptionAt
    <3>4. Place(j) = <<j>>
      BY <2>2 DEF Place
    <3> QED BY <2>2, <3>1, <3>2, <3>3, <3>4, Zenon DEF Takes
  <2> QED BY <2>1, <2>2
<1>3. At(Place(j)).target = FlagTarget(j)
  BY PlaceIs DEF IsFlagAt, IsFlagEntry
<1>4. ASSUME j \in Pairs PROVE ValueOf(p) = ValueTarget(j)
  <2>1. c.children[2] = At(<<j, 2>>)
    BY <1>1, <1>4, EntryIs
  <2>2. ValueOf(p) = c.children[2].target
    BY <1>p, Zenon DEF ValueOf
  <2> QED BY <1>4, <2>1, <2>2, PairAt DEF IsValueAt
<1> QED BY <1>2, <1>3, <1>4 DEF FlagsOf

LEMMA OneOpt ==
  ASSUME NEW i, NEW j, Opt(i) = Opt(j)
  PROVE  i = j
BY OptFields

LEMMA WholeIs ==
  ASSUME NEW arg
  PROVE  Whole(arg) = {Opt(j) : j \in WholeAt(arg)}
<1>1. \A j \in 1 .. 10 : arg \in ToSet(OptionAt(Opt(j)).flags) <=> j \in WholeAt(arg)
  BY OptIs DEF WholeAt
<1>2. WholeAt(arg) \subseteq 1 .. 10
  BY DEF WholeAt
<1> QED BY <1>1, <1>2, OptionsAre DEF Whole, Opts

LEMMA JoinedIs ==
  ASSUME NEW arg
  PROVE  Joined(arg) = {Opt(j) : j \in OpenAt(arg) \cap Pairs}
<1>1. \A j \in 1 .. 10 : (Takes(Opt(j)) /\ \E f \in ToSet(OptionAt(Opt(j)).flags) : IsPrefix(f, arg))
                         <=> j \in OpenAt(arg) \cap Pairs
  <2>1. SUFFICES ASSUME NEW j \in 1 .. 10
                 PROVE (Takes(Opt(j)) /\ \E f \in ToSet(OptionAt(Opt(j)).flags) : IsPrefix(f, arg))
                       <=> j \in OpenAt(arg) \cap Pairs
    OBVIOUS
  <2>2. (Takes(Opt(j)) <=> j \in Pairs) /\ OptionAt(Opt(j)).flags = FlagsOf(j)
    BY OptIs
  <2> QED BY <2>2, Zenon DEF OpenAt
<1>2. OpenAt(arg) \subseteq 1 .. 10
  BY DEF OpenAt
<1> QED BY <1>1, <1>2, OptionsAre DEF Joined, Opts

(* What one step reads. *)
ReaderFields == {"options", "values", "wrong", "waits", "unfinished"}

FlagRead(r, o, w, u) == [r EXCEPT !.options = o, !.waits = w, !.unfinished = u]
IsFlagRead(q, r, o, w, u) ==
  /\ DOMAIN q = ReaderFields
  /\ q.options = o /\ q.waits = w /\ q.unfinished = u /\ q.values = r.values /\ q.wrong = r.wrong
ValueRead(r, v, w) == [r EXCEPT !.values = v, !.waits = w]
IsValueRead(q, r, v, w) ==
  /\ DOMAIN q = ReaderFields
  /\ q.values = v /\ q.waits = w /\ q.options = r.options /\ q.wrong = r.wrong
  /\ q.unfinished = r.unfinished
WrongRead(r, w) == [r EXCEPT !.wrong = w]
IsWrongRead(q, r, w) ==
  /\ DOMAIN q = ReaderFields
  /\ q.wrong = w /\ q.values = r.values /\ q.waits = r.waits /\ q.options = r.options
  /\ q.unfinished = r.unfinished

LEMMA ReadFields ==
  ASSUME NEW r, DOMAIN r = ReaderFields, NEW x, NEW y, NEW z
  PROVE  /\ IsFlagRead(FlagRead(r, x, y, z), r, x, y, z)
         /\ IsValueRead(ValueRead(r, x, y), r, x, y)
         /\ IsWrongRead(WrongRead(r, x), r, x)
<1>1. IsFlagRead(FlagRead(r, x, y, z), r, x, y, z)
  BY DEF ReaderFields, FlagRead, IsFlagRead
<1>2. IsValueRead(ValueRead(r, x, y), r, x, y)
  BY DEF ReaderFields, ValueRead, IsValueRead
<1>3. IsWrongRead(WrongRead(r, x), r, x)
  BY DEF ReaderFields, WrongRead, IsWrongRead
<1> QED BY <1>1, <1>2, <1>3

ReadsFlag(q, r, j) ==
  /\ DOMAIN q = ReaderFields /\ q.options = Append(r.options, Opt(j))
  /\ q.waits = IF j \in Pairs THEN <<Opt(j)>> ELSE <<>>
  /\ q.unfinished <=> r.unfinished \/ r.waits # <<>>
  /\ q.values = r.values /\ q.wrong = r.wrong

ReadsValue(q, r, i, text) ==
  /\ DOMAIN q = ReaderFields
  /\ q.values = Append(r.values, [target |-> ValueTarget(i), text |-> text]) /\ q.waits = <<>>
  /\ q.options = r.options /\ q.wrong = r.wrong /\ (q.unfinished <=> r.unfinished)

ReadsWrong(q, r, text) ==
  /\ DOMAIN q = ReaderFields
  /\ q.wrong = Append(r.wrong, text) /\ q.values = r.values /\ q.waits = r.waits
  /\ q.options = r.options /\ (q.unfinished <=> r.unfinished)

LEMMA FlagIsRead ==
  ASSUME NEW r, DOMAIN r = ReaderFields, NEW j \in 1 .. 10
  PROVE  ReadsFlag(ReadFlag(r, Opt(j)), r, j)
<1> PICK p : p = Opt(j)
  OBVIOUS
<1>1. PICK q, o, w, u : /\ q = ReadFlag(r, p) /\ o = Append(r.options, p)
                        /\ w = (IF Takes(p) THEN <<p>> ELSE <<>>)
                        /\ u = (r.unfinished \/ r.waits # <<>>)
  BY Zenon
<1>2. q = FlagRead(r, o, w, u)
  BY <1>1, Zenon DEF ReadFlag, FlagRead
<1>3. IsFlagRead(q, r, o, w, u)
  BY <1>2, ReadFields, Zenon
<1>4. w = IF j \in Pairs THEN <<p>> ELSE <<>>
  BY <1>1, OptIs, Zenon
<1>5. q.unfinished <=> r.unfinished \/ r.waits # <<>>
  BY <1>1, <1>3, Zenon DEF IsFlagRead
<1> QED BY <1>1, <1>3, <1>4, <1>5, Zenon DEF IsFlagRead, ReadsFlag

LEMMA ValueIsRead ==
  ASSUME NEW r, DOMAIN r = ReaderFields, NEW i \in Pairs, r.waits = <<Opt(i)>>, NEW text
  PROVE  ReadsValue(ReadText(r, text), r, i, text)
<1>1. <<Opt(i)>> # <<>> /\ Head(<<Opt(i)>>) = Opt(i)
  OBVIOUS
<1>2. ValueOf(Opt(i)) = ValueTarget(i)
  <2>1. i \in 1 .. 10
    BY DEF Pairs
  <2> QED BY <2>1, OptIs
<1>3. PICK q, v, w : /\ q = ReadText(r, text) /\ w = <<>>
                     /\ v = Append(r.values, [target |-> ValueTarget(i), text |-> text])
  BY Zenon
<1>4. q = ValueRead(r, v, w)
  BY <1>1, <1>2, <1>3, Zenon DEF ReadText, ValueRead
<1>5. IsValueRead(q, r, v, w)
  BY <1>4, ReadFields, Zenon
<1> QED BY <1>3, <1>5, Zenon DEF IsValueRead, ReadsValue

LEMMA WrongIsRead ==
  ASSUME NEW r, DOMAIN r = ReaderFields, r.waits = <<>>, NEW text
  PROVE  ReadsWrong(ReadText(r, text), r, text)
<1>1. PICK q, w : q = ReadText(r, text) /\ w = Append(r.wrong, text)
  BY Zenon
<1>2. q = WrongRead(r, w)
  BY <1>1, Zenon DEF ReadText, WrongRead
<1>3. IsWrongRead(q, r, w)
  BY <1>2, ReadFields, Zenon
<1> QED BY <1>1, <1>3, Zenon DEF IsWrongRead, ReadsWrong

(* An argument is a flag, a flag with its value, or a text. *)
LEMMA ReadCases ==
  ASSUME NEW r, NEW arg \in Seq(STRING), arg # <<>>
  PROVE  /\ \A j \in WholeAt(arg) : ReadArgument(r, arg) = ReadFlag(r, Opt(j))
         /\ WholeAt(arg) = {} =>
              /\ \A i \in OpenAt(arg) \cap Pairs : \A n :
                   n = match(Place(i), arg) =>
                     ReadArgument(r, arg) = ReadText(ReadFlag(r, Opt(i)), SubSeq(arg, n + 1, Len(arg)))
              /\ OpenAt(arg) \cap Pairs = {} => ReadArgument(r, arg) = ReadText(r, arg)
<1>1. ASSUME NEW j \in WholeAt(arg) PROVE ReadArgument(r, arg) = ReadFlag(r, Opt(j))
  <2>1. WholeAt(arg) = {j}
    BY OnlyWhole
  <2>2. Whole(arg) = {Opt(j)}
    BY <2>1, WholeIs
  <2>3. Whole(arg) # {} /\ (CHOOSE p \in Whole(arg) : TRUE) = Opt(j)
    BY <2>2
  <2> QED BY <2>3, Zenon DEF ReadArgument
<1>2. ASSUME WholeAt(arg) = {}, NEW i \in OpenAt(arg) \cap Pairs, NEW n, n = match(Place(i), arg)
      PROVE ReadArgument(r, arg) = ReadText(ReadFlag(r, Opt(i)), SubSeq(arg, n + 1, Len(arg)))
  <2>1. OpenAt(arg) \cap Pairs = {i}
    BY OnlyOpen
  <2>2. Joined(arg) = {Opt(i)} /\ Whole(arg) = {}
    BY <1>2, <2>1, WholeIs, JoinedIs
  <2>3. Joined(arg) # {} /\ (CHOOSE p \in Joined(arg) : TRUE) = Opt(i)
    BY <2>2
  <2>4. i \in 1 .. 10
    BY DEF Pairs
  <2>5. n = longest_prefix_match(arg, OptionAt(Opt(i)).flags)
    <3>1. ~IsValue(Place(i))
      BY <2>4, PlaceIs DEF IsFlagAt
    <3>2. OptionAt(Opt(i)).flags = At(Place(i)).flags
      BY <2>4, OptIs
    <3> QED BY <1>2, <3>1, <3>2, Zenon DEF match
  <2> QED BY <2>2, <2>3, <2>5, Zenon DEF ReadArgument
<1>3. ASSUME WholeAt(arg) = {}, OpenAt(arg) \cap Pairs = {}
      PROVE ReadArgument(r, arg) = ReadText(r, arg)
  <2>1. Joined(arg) = {} /\ Whole(arg) = {}
    BY <1>3, WholeIs, JoinedIs
  <2> QED BY <2>1, Zenon DEF ReadArgument
<1> QED BY <1>1, <1>2, <1>3, Zenon

-----------------------------------------------------------------------------
(***************************************************************************)
(* What the options come to, one name at a time.                           *)
(***************************************************************************)
Names == {"iface", "logpath", "mac_filter", "ip_filter", "daemonize", "en_logging", "en_dns",
          "en_mac_filter", "en_ip_filter", "dump_payloads", "print_version", "show_help",
          "show_ifs", "wrong"}

LEMMA NamesAre == DOMAIN NoOptions = Names
BY DEF NoOptions, Names

Given(values, t)     == {i \in DOMAIN values : values[i].target = t}
FirstText(values, t) == values[Min(Given(values, t))].text
HasOption(given, t)  == \E i \in DOMAIN given : OptionAt(given[i]).target = t

Meaning(r, t) ==
  IF t = "wrong" THEN r.wrong
  ELSE IF Given(r.values, t) # {} THEN FirstText(r.values, t)
  ELSE IF t \in Texts THEN NoOptions[t] ELSE HasOption(r.options, t)

LEMMA MeansIs == \A r : Means(r) = [t \in Names |-> Meaning(r, t)]
<1>1. \A r : Means(r) = [t \in DOMAIN NoOptions |-> Meaning(r, t)]
  BY Zenon DEF Means, Meaning, Given, FirstText, HasOption
<1> QED BY <1>1, NamesAre, Zenon

LEMMA SameTruth ==
  ASSUME NEW a \in BOOLEAN, NEW b \in BOOLEAN, a <=> b
  PROVE  a = b
OBVIOUS

LEMMA HasOptionIs ==
  ASSUME NEW given, NEW t
  PROVE  /\ HasOption(given, t) \in BOOLEAN
         /\ HasOption(given, t) <=> \E p \in ToSet(given) : OptionAt(p).target = t
<1>1. HasOption(given, t) \in BOOLEAN
  BY Zenon DEF HasOption
<1>2. HasOption(given, t) <=> \E p \in ToSet(given) : OptionAt(p).target = t
  BY Zenon DEF HasOption, ToSet
<1> QED BY <1>1, <1>2

IsValueOf(x) == /\ x.text \in Seq(STRING) /\ x.text # <<>>
                /\ \E i \in Pairs : x.target = ValueTarget(i)

ReaderOK(r) ==
  /\ DOMAIN r = ReaderFields
  /\ (\E S : r.options \in Seq(S)) /\ ToSet(r.options) \subseteq Opts
  /\ (\E S : r.values \in Seq(S)) /\ \A x \in ToSet(r.values) : IsValueOf(x)

LEMMA TargetsAre ==
  /\ FlagTarget(1) = ""
  /\ \A j \in (1 .. 10) \ {1} : FlagTarget(j) \in (Names \ Texts) \ {"wrong", ""}
  /\ \A i \in Pairs : ValueTarget(i) \in Texts
  /\ Texts \subseteq Names \ {"wrong", ""} /\ "wrong" \in Names /\ "" \notin Names
  /\ \A i \in Pairs : \A k \in Pairs : ValueTarget(i) = ValueTarget(k) => i = k
<1>1. FlagTarget(1) = ""
  BY DEF FlagTarget
<1>2. \A j \in (1 .. 10) \ {1} : FlagTarget(j) \in (Names \ Texts) \ {"wrong", ""}
  <2>1. \A j \in (1 .. 10) \ {1} : \/ j = 2 \/ j = 3 \/ j = 4 \/ j = 5 \/ j = 6
                                   \/ j = 7 \/ j = 8 \/ j = 9 \/ j = 10
    OBVIOUS
  <2>2. /\ FlagTarget(2) = "daemonize" /\ FlagTarget(3) = "en_logging"
        /\ FlagTarget(4) = "en_dns" /\ FlagTarget(5) = "en_mac_filter"
        /\ FlagTarget(6) = "en_ip_filter" /\ FlagTarget(7) = "dump_payloads"
        /\ FlagTarget(8) = "print_version" /\ FlagTarget(9) = "show_help"
        /\ FlagTarget(10) = "show_ifs"
    BY DEF FlagTarget
  <2>3. {"daemonize", "en_logging", "en_dns", "en_mac_filter", "en_ip_filter",
         "dump_payloads", "print_version", "show_help", "show_ifs"}
        \subseteq (Names \ Texts) \ {"wrong", ""}
    BY DEF Names, Texts
  <2> QED BY <2>1, <2>2, <2>3
<1>3. ValueTarget(1) = "iface" /\ ValueTarget(3) = "logpath"
      /\ ValueTarget(5) = "mac_filter" /\ ValueTarget(6) = "ip_filter"
  BY DEF ValueTarget
<1>4. \A i \in Pairs : ValueTarget(i) \in Texts
  BY <1>3 DEF Pairs, Texts
<1>5. Texts \subseteq Names \ {"wrong", ""} /\ "wrong" \in Names /\ "" \notin Names
  BY DEF Texts, Names
<1>6. \A i \in Pairs : \A k \in Pairs : ValueTarget(i) = ValueTarget(k) => i = k
  BY <1>3 DEF Pairs
<1> QED BY <1>1, <1>2, <1>4, <1>5, <1>6

LEMMA GivenIs ==
  ASSUME NEW r, ReaderOK(r), NEW t \in Names \ Texts
  PROVE  Given(r.values, t) = {}
<1>1. ASSUME NEW i \in Given(r.values, t) PROVE FALSE
  <2>1. r.values[i] \in ToSet(r.values) /\ r.values[i].target = t
    BY <1>1, Zenon DEF Given, ToSet
  <2>2. \E k \in Pairs : r.values[i].target = ValueTarget(k)
    BY <2>1, Zenon DEF ReaderOK, IsValueOf
  <2> QED BY <2>1, <2>2, TargetsAre
<1> QED BY <1>1

LEMMA SameMeaning ==
  ASSUME NEW r, NEW q, \A t \in Names : Meaning(q, t) = Meaning(r, t)
  PROVE  Means(q) = Means(r)
<1>1. [t \in Names |-> Meaning(q, t)] = [t \in Names |-> Meaning(r, t)]
  OBVIOUS
<1> QED BY <1>1, MeansIs, Zenon

SetName(v, x, y) == [v EXCEPT ![x] = y]
IsSet(f, v, x, y) == f = SetName(v, x, y)

LEMMA SetTargetIs ==
  ASSUME NEW v, NEW text
  PROVE  /\ SetTarget(v, "", text) = v
         /\ IsSet(SetTarget(v, "wrong", text), v, "wrong", Append(v.wrong, text))
         /\ \A t \in Texts : IsSet(SetTarget(v, t, text), v, t, text)
         /\ \A t : t \notin Texts \cup {"", "wrong"} => IsSet(SetTarget(v, t, text), v, t, TRUE)
<1>1. SetTarget(v, "", text) = v
  <2>1. "" # "wrong" /\ "" \notin Texts
    BY DEF Texts
  <2> QED BY <2>1, Zenon DEF SetTarget
<1>2. IsSet(SetTarget(v, "wrong", text), v, "wrong", Append(v.wrong, text))
  <2>1. "wrong" # "" /\ "wrong" \notin Texts
    BY DEF Texts
  <2> QED BY <2>1, Zenon DEF SetTarget, SetName, IsSet
<1>3. ASSUME NEW t \in Texts PROVE IsSet(SetTarget(v, t, text), v, t, text)
  <2>1. t # "" /\ t # "wrong"
    BY DEF Texts
  <2> QED BY <2>1, Zenon DEF SetTarget, SetName, IsSet
<1>4. ASSUME NEW t, t \notin Texts \cup {"", "wrong"}
      PROVE  IsSet(SetTarget(v, t, text), v, t, TRUE)
  BY <1>4, Zenon DEF SetTarget, SetName, IsSet
<1> QED BY <1>1, <1>2, <1>3, <1>4, Zenon

LEMMA PutMeaning ==
  ASSUME NEW r, NEW q, NEW x \in Names, NEW y, Meaning(q, x) = y,
         \A t \in Names \ {x} : Meaning(q, t) = Meaning(r, t)
  PROVE  IsSet(Means(q), Means(r), x, y)
<1> PICK f, g : f = [t \in Names |-> Meaning(q, t)] /\ g = [t \in Names |-> Meaning(r, t)]
  OBVIOUS
<1>1. Means(q) = f /\ Means(r) = g
  BY MeansIs, Zenon
<1>2. [g EXCEPT ![x] = y] = [t \in Names |-> IF t = x THEN y ELSE g[t]]
  OBVIOUS
<1>3. \A t \in Names : f[t] = IF t = x THEN y ELSE g[t]
  OBVIOUS
<1>4. f = [t \in Names |-> f[t]]
  OBVIOUS
<1>5. f = [t \in Names |-> IF t = x THEN y ELSE g[t]]
  BY <1>3, <1>4
<1> QED BY <1>1, <1>2, <1>5 DEF SetName, IsSet

LEMMA MeansFlag ==
  ASSUME NEW r, ReaderOK(r), NEW j \in 1 .. 10, NEW q, ReadsFlag(q, r, j)
  PROVE  /\ ReaderOK(q) /\ ToSet(q.options) = ToSet(r.options) \cup {Opt(j)}
         /\ Opt(j) \in ToSet(r.options) => Means(q) = Means(r)
         /\ Opt(j) \notin ToSet(r.options) =>
              \A text : Means(q) = SetTarget(Means(r), FlagTarget(j), text)
<1>1. PICK S : r.options \in Seq(S)
  BY Zenon DEF ReaderOK
<1>2. q.options = Append(r.options, Opt(j)) /\ q.values = r.values /\ q.wrong = r.wrong
      /\ DOMAIN q = ReaderFields
  BY Zenon DEF ReadsFlag
<1>3. IsAppended(q.options, r.options, Opt(j), S)
  BY <1>1, <1>2, Appended, Zenon
<1>4. ToSet(q.options) = ToSet(r.options) \cup {Opt(j)} /\ q.options \in Seq(S \cup {Opt(j)})
  BY <1>3, Zenon DEF IsAppended
<1>5. ReaderOK(q)
  <2>1. ToSet(q.options) \subseteq Opts
    BY <1>4 DEF Opts, ReaderOK
  <2> QED BY <1>2, <1>4, <2>1, Zenon DEF ReaderOK
<1>6. OptionAt(Opt(j)).target = FlagTarget(j)
  BY OptIs
<1>7. \A t : HasOption(q.options, t) <=> HasOption(r.options, t) \/ t = FlagTarget(j)
  <2>1. TAKE t
  <2>2. \A o : HasOption(o, t) <=> \E p \in ToSet(o) : OptionAt(p).target = t
    BY HasOptionIs, Zenon
  <2> QED BY <1>4, <1>6, <2>2
<1>8. ASSUME NEW t \in Names, t # FlagTarget(j) \/ HasOption(r.options, t)
      PROVE  Meaning(q, t) = Meaning(r, t)
  <2>1. HasOption(q.options, t) <=> HasOption(r.options, t)
    BY <1>7, <1>8
  <2>2. HasOption(q.options, t) = HasOption(r.options, t)
    BY <2>1, HasOptionIs, SameTruth, Zenon
  <2> QED BY <1>2, <2>2, Zenon DEF Meaning
<1>9. CASE Opt(j) \in ToSet(r.options)
  <2>1. HasOption(r.options, FlagTarget(j))
    BY <1>6, <1>9, HasOptionIs
  <2>2. \A t \in Names : Meaning(q, t) = Meaning(r, t)
    BY <1>8, <2>1
  <2>3. Means(q) = Means(r)
    BY <2>2, SameMeaning
  <2> QED BY <1>4, <1>5, <1>9, <2>3
<1>10. CASE Opt(j) \notin ToSet(r.options) /\ j = 1
  <2>1. FlagTarget(j) = "" /\ "" \notin Names
    BY <1>10, TargetsAre
  <2>2. \A t \in Names : Meaning(q, t) = Meaning(r, t)
    BY <1>8, <2>1
  <2>3. Means(q) = Means(r)
    BY <2>2, SameMeaning
  <2>4. \A text : SetTarget(Means(r), FlagTarget(j), text) = Means(r)
    BY <2>1, SetTargetIs
  <2> QED BY <1>4, <1>5, <1>10, <2>3, <2>4
<1>11. CASE Opt(j) \notin ToSet(r.options) /\ j # 1
  <2>t. PICK t : t = FlagTarget(j)
    OBVIOUS
  <2>1. t \in Names /\ t \notin Texts /\ t # "wrong" /\ t # ""
    BY <1>11, <2>t, TargetsAre
  <2>2. \A text : IsSet(SetTarget(Means(r), t, text), Means(r), t, TRUE)
    <3>1. t \notin Texts \cup {"", "wrong"}
      BY <2>1
    <3> QED BY <3>1, SetTargetIs, Zenon
  <2>3. Meaning(q, t) = TRUE
    <3>1. Given(q.values, t) = {}
      BY <1>5, <2>1, GivenIs
    <3>2. HasOption(q.options, t)
      BY <1>7, <2>t
    <3>3. HasOption(q.options, t) = TRUE
      BY <3>2, HasOptionIs, SameTruth, Zenon
    <3> QED BY <2>1, <3>1, <3>3, Zenon DEF Meaning
  <2>4. \A x \in Names \ {t} : Meaning(q, x) = Meaning(r, x)
    BY <1>8, <2>t
  <2>5. IsSet(Means(q), Means(r), t, TRUE)
    BY <2>1, <2>3, <2>4, PutMeaning, Zenon
  <2>6. \A text : Means(q) = SetTarget(Means(r), t, text)
    BY <2>2, <2>5, Zenon DEF IsSet
  <2> QED BY <1>4, <1>5, <1>11, <2>t, <2>6, Zenon
<1> QED BY <1>9, <1>10, <1>11

LEMMA MeansWrong ==
  ASSUME NEW r, ReaderOK(r), NEW text, NEW q, ReadsWrong(q, r, text)
  PROVE  ReaderOK(q) /\ Means(q) = SetTarget(Means(r), "wrong", text)
<1>1. q.options = r.options /\ q.values = r.values /\ q.wrong = Append(r.wrong, text)
      /\ DOMAIN q = ReaderFields
  BY Zenon DEF ReadsWrong
<1>2. ReaderOK(q)
  BY <1>1, Zenon DEF ReaderOK
<1>3. "wrong" \in Names /\ "wrong" # ""
  BY TargetsAre
<1>4. Means(r).wrong = r.wrong
  <2>1. Means(r)["wrong"] = Meaning(r, "wrong")
    BY <1>3, MeansIs
  <2> QED BY <2>1, Zenon DEF Meaning
<1>5. IsSet(SetTarget(Means(r), "wrong", text), Means(r), "wrong", Append(r.wrong, text))
  BY <1>4, SetTargetIs, Zenon
<1>6. Meaning(q, "wrong") = Append(r.wrong, text)
  BY <1>1, Zenon DEF Meaning
<1>7. \A t \in Names \ {"wrong"} : Meaning(q, t) = Meaning(r, t)
  <2>1. ASSUME NEW t \in Names \ {"wrong"} PROVE Meaning(q, t) = Meaning(r, t)
    <3>1. t # "wrong"
      OBVIOUS
    <3> QED BY <1>1, <3>1, Zenon DEF Meaning
  <2> QED BY <2>1
<1>8. IsSet(Means(q), Means(r), "wrong", Append(r.wrong, text))
  BY <1>3, <1>6, <1>7, PutMeaning, Zenon
<1> QED BY <1>2, <1>5, <1>8, Zenon DEF IsSet

ValueMeans(q, r, i, text) ==
  /\ ReaderOK(q)
  /\ \A t : Given(q.values, t) # {} <=> Given(r.values, t) # {} \/ t = ValueTarget(i)
  /\ Given(r.values, ValueTarget(i)) # {} => Means(q) = Means(r)
  /\ Given(r.values, ValueTarget(i)) = {} =>
       Means(q) = SetTarget(Means(r), ValueTarget(i), text)

LEMMA MeansValue ==
  ASSUME NEW r, ReaderOK(r), NEW i \in Pairs, NEW text \in Seq(STRING), text # <<>>,
         NEW q, ReadsValue(q, r, i, text)
  PROVE  ValueMeans(q, r, i, text)
<1> PICK x : x = [target |-> ValueTarget(i), text |-> text]
  OBVIOUS
<1> PICK v, w, n : v = r.values /\ w = q.values /\ n = Len(v) + 1
  OBVIOUS
<1>1. PICK S : v \in Seq(S)
  BY Zenon DEF ReaderOK
<1>2. w = Append(v, x) /\ q.options = r.options /\ q.wrong = r.wrong /\ DOMAIN q = ReaderFields
  BY Zenon DEF ReadsValue
<1>3. IsAppended(w, v, x, S)
  BY <1>1, <1>2, Appended, Zenon
<1>4. /\ DOMAIN v = 1 .. Len(v) /\ Len(v) \in Nat /\ DOMAIN w = 1 .. n
      /\ \A k \in 1 .. Len(v) : w[k] = v[k]
      /\ w[n] = x /\ ToSet(w) = ToSet(v) \cup {x} /\ w \in Seq(S \cup {x})
  BY <1>3, Zenon DEF IsAppended
<1>5. x.target = ValueTarget(i) /\ x.text = text
  OBVIOUS
<1>6. ReaderOK(q)
  <2>1. IsValueOf(x)
    BY <1>5, Zenon DEF IsValueOf
  <2>2. \A y \in ToSet(w) : IsValueOf(y)
    BY <1>4, <2>1 DEF ReaderOK
  <2> QED BY <1>2, <1>4, <2>2, Zenon DEF ReaderOK
<1>7. \A t : Given(w, t) = Given(v, t) \cup (IF t = ValueTarget(i) THEN {n} ELSE {})
  <2>1. TAKE t
  <2>2. 1 .. n = (1 .. Len(v)) \cup {n} /\ n \notin 1 .. Len(v)
    BY <1>4
  <2> QED BY <1>4, <1>5, <2>2 DEF Given
<1>8. \A t : Given(v, t) \in SUBSET (1 .. Len(v))
  BY <1>4 DEF Given
<1>9. \A t \in Names : Given(v, t) # {} => Meaning(q, t) = Meaning(r, t)
  <2>1. SUFFICES ASSUME NEW t \in Names, Given(v, t) # {} PROVE Meaning(q, t) = Meaning(r, t)
    OBVIOUS
  <2> PICK G, H : G = Given(v, t) /\ H = Given(w, t)
    OBVIOUS
  <2>2. G \in SUBSET Nat /\ H \in SUBSET Nat /\ H # {} /\ G # {} /\ H \subseteq G \cup {n} /\ G \subseteq H
        /\ \A k \in G : k < n
    BY <1>4, <1>7, <1>8, <2>1
  <2>3. Min(G) \in G /\ Min(H) \in H /\ (\A k \in G : Min(G) <= k) /\ (\A k \in H : Min(H) <= k)
    BY <2>2, MinOf, Zenon
  <2>4. Min(H) = Min(G)
    BY <2>2, <2>3
  <2>5. w[Min(H)] = v[Min(G)]
    BY <1>4, <1>8, <2>3, <2>4
  <2>6. FirstText(w, t) = FirstText(v, t)
    BY <2>5, Zenon DEF FirstText
  <2> QED BY <1>2, <2>2, <2>6, Zenon DEF Meaning
<1>10. \A t \in Names : t # ValueTarget(i) => Meaning(q, t) = Meaning(r, t)
  <2>1. SUFFICES ASSUME NEW t \in Names, t # ValueTarget(i), Given(v, t) = {}
                 PROVE  Meaning(q, t) = Meaning(r, t)
    BY <1>9
  <2>2. Given(w, t) = {}
    BY <1>7, <2>1
  <2> QED BY <1>2, <2>1, <2>2, Zenon DEF Meaning
<1>11. \A t : Given(w, t) # {} <=> Given(v, t) # {} \/ t = ValueTarget(i)
  BY <1>7
<1>12. CASE Given(v, ValueTarget(i)) # {}
  <2>1. \A t \in Names : Meaning(q, t) = Meaning(r, t)
    BY <1>9, <1>10, <1>12
  <2>2. Means(q) = Means(r)
    BY <2>1, SameMeaning
  <2> QED BY <1>6, <1>11, <1>12, <2>2, Zenon DEF ValueMeans
<1>13. CASE Given(v, ValueTarget(i)) = {}
  <2>t. PICK t : t = ValueTarget(i)
    OBVIOUS
  <2>1. t \in Names /\ t \in Texts /\ t # "wrong" /\ t # ""
    BY <2>t, TargetsAre
  <2>2. IsSet(SetTarget(Means(r), t, text), Means(r), t, text)
    BY <2>1, SetTargetIs, Zenon
  <2>3. Given(w, t) = {n}
    BY <1>7, <1>13, <2>t
  <2>4. Min({n}) = n
    <3>1. {n} \in SUBSET Nat /\ {n} # {}
      BY <1>4
    <3> QED BY <3>1, MinOf
  <2>5. FirstText(w, t) = text
    BY <1>4, <1>5, <2>3, <2>4 DEF FirstText
  <2>6. Meaning(q, t) = text
    BY <2>1, <2>3, <2>5 DEF Meaning
  <2>7. \A y \in Names \ {t} : Meaning(q, y) = Meaning(r, y)
    BY <1>10, <2>t
  <2>8. IsSet(Means(q), Means(r), t, text)
    BY <2>1, <2>6, <2>7, PutMeaning, Zenon
  <2>9. Means(q) = SetTarget(Means(r), t, text)
    BY <2>2, <2>8, Zenon DEF IsSet
  <2> QED BY <1>6, <1>11, <1>13, <2>t, <2>9, Zenon DEF ValueMeans
<1> QED BY <1>12, <1>13

-----------------------------------------------------------------------------
(***************************************************************************)
(* Flags and values by their number: what has been seen, what is missing,  *)
(* who waits for its value (0 if none), whether a value was left out, and  *)
(* whether no option was given twice.                                      *)
(***************************************************************************)
MissOK(F, V, M, w, unfinished, once) ==
  /\ M # {} => unfinished \/ (w \in Pairs /\ M = {w})
  /\ M \subseteq F
  /\ once /\ unfinished => \E i \in M : i # w
  /\ w \in Pairs => w \in M
  /\ \A i \in F \cap Pairs : i \in M \/ i \in V
  /\ V \subseteq F
  /\ w \in V => ~once

LEMMA MissFlag ==
  ASSUME NEW F, NEW V \in SUBSET Pairs, NEW M \in SUBSET Pairs, NEW w \in {0} \cup Pairs, NEW u, NEW once,
         MissOK(F, V, M, w, u, once), NEW j \in Pairs,
         NEW v, NEW still, v <=> u \/ w # 0, still <=> once /\ j \notin F
  PROVE  MissOK(F \cup {j}, V, M \cup {j}, j, v, still)
<1>1. 0 \notin Pairs
  BY DEF Pairs
<1> QED BY <1>1, Zenon DEF MissOK

LEMMA MissOther ==
  ASSUME NEW F, NEW V \in SUBSET Pairs, NEW M \in SUBSET Pairs, NEW w \in {0} \cup Pairs, NEW u, NEW once,
         MissOK(F, V, M, w, u, once), NEW j, j \notin Pairs,
         NEW v, NEW still, v <=> u \/ w # 0, still <=> once /\ j \notin F,
         NEW next, next \notin Pairs
  PROVE  MissOK(F \cup {j}, V, M, next, v, still)
<1>1. 0 \notin Pairs
  BY DEF Pairs
<1> QED BY <1>1 DEF MissOK

LEMMA MissValue ==
  ASSUME NEW F, NEW V \in SUBSET Pairs, NEW M \in SUBSET Pairs, NEW w \in Pairs, NEW u, NEW once,
         MissOK(F, V, M, w, u, once), NEW next, next \notin Pairs
  PROVE  MissOK(F, V \cup {w}, M \ {w}, next, u, once)
<1>1. 0 \notin Pairs
  BY DEF Pairs
<1> QED BY <1>1 DEF MissOK

-----------------------------------------------------------------------------
(* Places are different, and only the last parameter may be repeated. *)
LEMMA PlacesDiffer ==
  /\ \A j \in 1 .. 10 : \A k \in 1 .. 10 : Place(j) = Place(k) => j = k
  /\ \A j \in 1 .. 10 : \A i \in Pairs : Place(j) # ValuePlace(i)
  /\ \A j \in 1 .. 10 : Place(j) # Other
  /\ \A i \in Pairs : \A k \in Pairs : ValuePlace(i) = ValuePlace(k) => i = k
  /\ \A i \in Pairs : ValuePlace(i) # Other
<1>1. \A j \in 1 .. 10 : \A k \in 1 .. 10 : Place(j) = Place(k) => j = k
  <2>1. ASSUME NEW j \in 1 .. 10 PROVE Place(j)[1] = j
    <3>1. CASE j \in Pairs
      BY <3>1 DEF Place
    <3>2. CASE j \notin Pairs
      BY <3>2 DEF Place
    <3> QED BY <3>1, <3>2
  <2> QED BY <2>1
<1>2. \A j \in 1 .. 10 : \A i \in Pairs : Place(j) # ValuePlace(i)
  BY NoFlag
<1>3. \A j \in 1 .. 10 : Place(j) # Other
  BY NoFlag
<1>4. \A i \in Pairs : \A k \in Pairs : ValuePlace(i) = ValuePlace(k) => i = k
  <2>1. \A i \in Pairs : ValuePlace(i)[1] = i
    BY DEF ValuePlace
  <2> QED BY <2>1
<1>5. \A i \in Pairs : ValuePlace(i) # Other
  <2>1. \A i \in Pairs : Len(ValuePlace(i)) = 2
    BY DEF ValuePlace
  <2>2. Len(Other) = 1
    BY DEF Other
  <2> QED BY <2>1, <2>2
<1> QED BY <1>1, <1>2, <1>3, <1>4, <1>5

LEMMA PlaceOnce ==
  /\ \A j \in 1 .. 10 : /\ Place(j) \in Params /\ Place(j) # <<>> /\ ~At(Place(j)).repeatable
                        /\ At(Place(j)).target = FlagTarget(j)
  /\ \A i \in Pairs : /\ ValuePlace(i) \in Params /\ ValuePlace(i) # <<>>
                      /\ ~At(ValuePlace(i)).repeatable /\ At(ValuePlace(i)).target = ValueTarget(i)
  /\ Other \in Params /\ Other # <<>> /\ At(Other).repeatable /\ At(Other).target = "wrong"
<1>1. ASSUME NEW j \in 1 .. 10
      PROVE  /\ Place(j) \in Params /\ Place(j) # <<>> /\ ~At(Place(j)).repeatable
             /\ At(Place(j)).target = FlagTarget(j)
  <2>1. Place(j) \in Params
    BY ParamsAre
  <2>2. Place(j) # <<>>
    <3>1. CASE j \in Pairs
      BY <3>1 DEF Place
    <3>2. CASE j \notin Pairs
      BY <3>2 DEF Place
    <3> QED BY <3>1, <3>2
  <2>3. ~At(Place(j)).repeatable /\ At(Place(j)).target = FlagTarget(j)
    BY PlaceIs, Zenon DEF IsFlagAt, IsFlagEntry
  <2> QED BY <2>1, <2>2, <2>3
<1>2. ASSUME NEW i \in Pairs
      PROVE  /\ ValuePlace(i) \in Params /\ ValuePlace(i) # <<>>
             /\ ~At(ValuePlace(i)).repeatable /\ At(ValuePlace(i)).target = ValueTarget(i)
  <2>1. ValuePlace(i) \in Params
    BY ParamsAre
  <2>2. ValuePlace(i) # <<>>
    BY DEF ValuePlace
  <2>3. ~At(ValuePlace(i)).repeatable /\ At(ValuePlace(i)).target = ValueTarget(i)
    BY PairAt, Zenon DEF IsValueAt, ValuePlace
  <2> QED BY <2>1, <2>2, <2>3
<1>3. Other \in Params /\ Other # <<>> /\ At(Other).repeatable /\ At(Other).target = "wrong"
  <2>1. Other \in Params
    BY ParamsAre
  <2>2. Other # <<>>
    BY DEF Other
  <2> QED BY <2>1, <2>2, OtherAt
<1> QED BY <1>1, <1>2, <1>3

LEMMA StillInjective ==
  ASSUME NEW S, NEW s \in Seq(S), NEW a
  PROVE  IsInjective(Append(s, a)) <=> IsInjective(s) /\ a \notin ToSet(s)
<1>e. PICK e : e = Append(s, a)
  OBVIOUS
<1>1. IsAppended(e, s, a, S)
  BY <1>e, Appended, Zenon
<1>n. PICK n : n = Len(s) + 1
  OBVIOUS
<1>2. /\ DOMAIN s = 1 .. Len(s) /\ Len(s) \in Nat /\ DOMAIN e = 1 .. n
      /\ \A k \in 1 .. Len(s) : e[k] = s[k]
      /\ e[n] = a
  BY <1>1, <1>n, Zenon DEF IsAppended
<1>3. 1 .. n = (1 .. Len(s)) \cup {n} /\ n \notin 1 .. Len(s) /\ n \in 1 .. n
  BY <1>2, <1>n
<1>4. ASSUME IsInjective(e) PROVE IsInjective(s) /\ a \notin ToSet(s)
  <2>1. \A x \in 1 .. n : \A y \in 1 .. n : e[x] = e[y] => x = y
    BY <1>2, <1>4, Zenon DEF IsInjective
  <2>2. IsInjective(s)
    <3>1. \A x \in 1 .. Len(s) : \A y \in 1 .. Len(s) : s[x] = s[y] => x = y
      BY <1>2, <1>3, <2>1
    <3> QED BY <1>2, <3>1, Zenon DEF IsInjective
  <2>3. ASSUME NEW k \in 1 .. Len(s), s[k] = a PROVE FALSE
    BY <1>2, <1>3, <2>1, <2>3
  <2> QED BY <1>2, <2>2, <2>3 DEF ToSet
<1>5. ASSUME IsInjective(s), a \notin ToSet(s) PROVE IsInjective(e)
  <2>1. \A x \in 1 .. Len(s) : \A y \in 1 .. Len(s) : s[x] = s[y] => x = y
    BY <1>2, <1>5, Zenon DEF IsInjective
  <2>2. \A x \in 1 .. Len(s) : s[x] # a
    BY <1>2, <1>5, Zenon DEF ToSet
  <2>3. \A x \in 1 .. n : \A y \in 1 .. n : e[x] = e[y] => x = y
    BY <1>2, <1>3, <2>1, <2>2
  <2> QED BY <1>2, <2>3, Zenon DEF IsInjective
<1> QED BY <1>e, <1>4, <1>5

-----------------------------------------------------------------------------
(***************************************************************************)
(* The parser and the reader, after the same arguments.                    *)
(***************************************************************************)
SeenFlags(list)  == {j \in 1 .. 10 : Seen(list, Place(j))}
SeenValues(list) == {i \in Pairs : Seen(list, ValuePlace(i))}
Missing(miss)    == {i \in Pairs : ValuePlace(i) \in miss}

Waits(ps, r, w) ==
  /\ w = 0 => Idle(ps.pos) /\ r.waits = <<>>
  /\ w \in Pairs => WaitsFor(ps.pos, w) /\ r.waits = <<Opt(w)>>

SameSeen(ps, r) ==
  /\ \A j \in 1 .. 10 : Opt(j) \in ToSet(r.options) <=> j \in SeenFlags(ps.args)
  /\ \A i \in Pairs : Given(r.values, ValueTarget(i)) # {} <=> i \in SeenValues(ps.args)

LinkedAt(ps, r, w) ==
  /\ ParserOK(ps) /\ ReaderOK(r) /\ w \in {0} \cup Pairs
  /\ Waits(ps, r, w) /\ SameSeen(ps, r)
  /\ Repeats(ps.args) <=> ~IsInjective(r.options)
  /\ execute_actions(ps, NoOptions) = Means(r)
  /\ MissOK(SeenFlags(ps.args), SeenValues(ps.args), Missing(ps.miss), w,
            r.unfinished, IsInjective(r.options))

LEMMA AddedOK ==
  ASSUME NEW ps, ParserOK(ps), NEW p \in Params, p # <<>>, NEW text \in Seq(STRING), text # <<>>,
         NEW q, IsAdded(q, ps, p, text), PosOK(q.pos), q.miss \in SUBSET AllMisses
  PROVE  ParserOK(q)
<1>1. IsArgs(ps.args)
  BY ArgsAre
<1>2. IsArgs(q.args)
  BY <1>1, AddedArgs
<1>3. \A k \in DOMAIN q.args : IsArg(q.args[k])
  BY <1>2, Zenon DEF IsArgs, ToSet
<1>4. DOMAIN q = {"pos", "index", "args", "miss", "blocked"} /\ q.blocked = ps.blocked
  BY Zenon DEF IsAdded
<1>5. ~q.blocked
  BY <1>4, Zenon DEF ParserOK
<1> QED BY <1>2, <1>3, <1>4, <1>5, Zenon DEF ParserOK, IsArgs

LEMMA FlagStep ==
  ASSUME NEW ps, NEW r, NEW w, LinkedAt(ps, r, w), NEW j \in 1 .. 10,
         NEW text \in Seq(STRING), text # <<>>, NEW q, IsAdded(q, ps, Place(j), text),
         NEW x, ReadsFlag(x, r, j), NEW next, next = IF j \in Pairs THEN j ELSE 0
  PROVE  LinkedAt(q, x, next)
<1>1. ParserOK(ps) /\ ReaderOK(r) /\ w \in {0} \cup Pairs
  BY Zenon DEF LinkedAt
<1>2. /\ IsArgs(q.args)
      /\ \A p : Seen(q.args, p) <=> Seen(ps.args, p) \/ p = Place(j)
      /\ Repeats(q.args) <=> Repeats(ps.args) \/ Seen(ps.args, Place(j))
  <2>1. IsArgs(ps.args)
    BY <1>1, ArgsAre
  <2> QED BY <2>1, AddedArgs, PlaceOnce, Zenon
<1>3. /\ SeenFlags(q.args) = SeenFlags(ps.args) \cup {j}
      /\ SeenValues(q.args) = SeenValues(ps.args)
  <2>1. SeenFlags(q.args) = SeenFlags(ps.args) \cup {j}
    BY <1>2, PlacesDiffer DEF SeenFlags
  <2>2. \A i \in Pairs : ValuePlace(i) # Place(j)
    BY PlacesDiffer
  <2> QED BY <1>2, <2>1, <2>2 DEF SeenValues
<1>4. PICK seen \in BOOLEAN : seen <=> j \in SeenFlags(ps.args)
  OBVIOUS
<1>5. seen <=> Opt(j) \in ToSet(r.options)
  BY <1>4, Zenon DEF LinkedAt, SameSeen
<1>6. /\ ReaderOK(x) /\ ToSet(x.options) = ToSet(r.options) \cup {Opt(j)}
      /\ seen => Means(x) = Means(r)
      /\ ~seen => Means(x) = SetTarget(Means(r), FlagTarget(j), text)
  <2>1. /\ ReaderOK(x) /\ ToSet(x.options) = ToSet(r.options) \cup {Opt(j)}
        /\ Opt(j) \in ToSet(r.options) => Means(x) = Means(r)
        /\ Opt(j) \notin ToSet(r.options) =>
             \A y : Means(x) = SetTarget(Means(r), FlagTarget(j), y)
    BY <1>1, MeansFlag, Zenon
  <2> QED BY <1>5, <2>1, Zenon
<1>7. execute_actions(q, NoOptions) = Means(x)
  <2>1. PICK p : p = Place(j)
    OBVIOUS
  <2>2. execute_actions(ps, NoOptions) = Means(r)
    BY Zenon DEF LinkedAt
  <2>3. IsArgs(ps.args) /\ p \in Params /\ p # <<>> /\ ~At(p).repeatable
        /\ At(p).target = FlagTarget(j) /\ IsAdded(q, ps, p, text)
    BY <1>1, <2>1, ArgsAre, PlaceOnce
  <2>4. /\ Seen(ps.args, p) =>
             execute_actions(q, NoOptions) = execute_actions(ps, NoOptions)
        /\ ~Seen(ps.args, p) =>
             execute_actions(q, NoOptions)
             = SetTarget(execute_actions(ps, NoOptions), At(p).target, text)
    <3>1. Acts(q, ps, p, text)
      BY <2>3, AddedAction, Zenon
    <3> QED BY <2>3, <3>1, Zenon DEF Acts
  <2>5. Seen(ps.args, p) <=> seen
    BY <1>4, <2>1 DEF SeenFlags
  <2>6. CASE seen
    BY <1>6, <2>2, <2>4, <2>5, <2>6, Zenon
  <2>7. CASE ~seen
    BY <1>6, <2>2, <2>3, <2>4, <2>5, <2>7, Zenon
  <2> QED BY <2>6, <2>7
<1>8. IsInjective(x.options) <=> IsInjective(r.options) /\ j \notin SeenFlags(ps.args)
  <2>1. PICK S : r.options \in Seq(S)
    BY <1>1, Zenon DEF ReaderOK
  <2>2. x.options = Append(r.options, Opt(j))
    BY Zenon DEF ReadsFlag
  <2>3. IsInjective(x.options) <=> IsInjective(r.options) /\ Opt(j) \notin ToSet(r.options)
    BY <2>1, <2>2, StillInjective, Zenon
  <2> QED BY <1>4, <1>5, <2>3, Zenon
<1>9. Repeats(q.args) <=> ~IsInjective(x.options)
  <2>1. Repeats(ps.args) <=> ~IsInjective(r.options)
    BY Zenon DEF LinkedAt
  <2>2. Seen(ps.args, Place(j)) <=> j \in SeenFlags(ps.args)
    BY DEF SeenFlags
  <2> QED BY <1>2, <1>8, <2>1, <2>2, Zenon
<1>10. SameSeen(q, x)
  <2>1. ASSUME NEW k \in 1 .. 10
        PROVE  Opt(k) \in ToSet(x.options) <=> k \in SeenFlags(q.args)
    <3>1. Opt(k) \in ToSet(r.options) <=> k \in SeenFlags(ps.args)
      BY Zenon DEF LinkedAt, SameSeen
    <3>2. Opt(k) = Opt(j) <=> k = j
      BY OneOpt, Zenon
    <3> QED BY <1>3, <1>6, <3>1, <3>2, Zenon
  <2>2. x.values = r.values
    BY Zenon DEF ReadsFlag
  <2>3. \A i \in Pairs : Given(x.values, ValueTarget(i)) # {} <=> i \in SeenValues(q.args)
    BY <1>3, <2>2, Zenon DEF LinkedAt, SameSeen
  <2> QED BY <2>1, <2>3, Zenon DEF SameSeen
<1>11. x.unfinished <=> r.unfinished \/ w # 0
  <2>1. x.unfinished <=> r.unfinished \/ r.waits # <<>>
    BY Zenon DEF ReadsFlag
  <2>2. r.waits # <<>> <=> w # 0
    <3>1. CASE w = 0
      BY <3>1, Zenon DEF LinkedAt, Waits
    <3>2. CASE w \in Pairs
      <4>1. r.waits = <<Opt(w)>>
        BY <3>2, Zenon DEF LinkedAt, Waits
      <4>2. <<Opt(w)>> # <<>> /\ w # 0
        BY <3>2 DEF Pairs
      <4> QED BY <4>1, <4>2
    <3> QED BY <1>1, <3>1, <3>2
  <2> QED BY <2>1, <2>2, Zenon
<1>12. MissOK(SeenFlags(ps.args), SeenValues(ps.args), Missing(ps.miss), w,
              r.unfinished, IsInjective(r.options))
  BY Zenon DEF LinkedAt
<1>13. PosOK(ps.pos) /\ ps.miss \in SUBSET AllMisses
  BY <1>1, Zenon DEF ParserOK
<1>14. q.pos = next_after_match(ps.pos, Place(j)) /\ q.miss = Misses(ps.miss, Place(j))
  BY Zenon DEF IsAdded
<1>15. Missing(ps.miss) \in SUBSET Pairs /\ SeenValues(ps.args) \in SUBSET Pairs
  BY DEF Missing, SeenValues
<1>16. CASE j \in Pairs
  <2>1. PosOK(q.pos) /\ WaitsFor(q.pos, j)
    BY <1>13, <1>14, <1>16, AfterFlag, Zenon
  <2>2. q.miss = ps.miss \cup {ValuePlace(j)}
    BY <1>13, <1>14, <1>16, MissesAre, Zenon
  <2>3. q.miss \in SUBSET AllMisses
    BY <1>13, <1>16, <2>2 DEF AllMisses
  <2>4. ParserOK(q)
    BY <1>1, <2>1, <2>3, AddedOK, PlaceOnce, Zenon
  <2>5. Missing(q.miss) = Missing(ps.miss) \cup {j}
    BY <1>16, <2>2, PlacesDiffer DEF Missing
  <2>6. next = j /\ next # 0 /\ next \in {0} \cup Pairs
    BY <1>16 DEF Pairs
  <2>7. Waits(q, x, next)
    <3>1. x.waits = <<Opt(j)>>
      BY <1>16, Zenon DEF ReadsFlag
    <3> QED BY <2>1, <2>6, <3>1, Zenon DEF Waits
  <2>8. MissOK(SeenFlags(q.args), SeenValues(q.args), Missing(q.miss), next,
               x.unfinished, IsInjective(x.options))
    <3>1. MissOK(SeenFlags(ps.args) \cup {j}, SeenValues(ps.args), Missing(ps.miss) \cup {j}, j,
                 x.unfinished, IsInjective(x.options))
      <4>1. PICK u, v, once, still :
              /\ u = r.unfinished /\ v = x.unfinished
              /\ once = IsInjective(r.options) /\ still = IsInjective(x.options)
        BY Zenon
      <4>2. (v <=> u \/ w # 0) /\ (still <=> once /\ j \notin SeenFlags(ps.args))
        BY <1>8, <1>11, <4>1, Zenon
      <4>3. MissOK(SeenFlags(ps.args), SeenValues(ps.args), Missing(ps.miss), w, u, once)
        BY <1>12, <4>1, Zenon
      <4>4. w \in {0} \cup Pairs
        BY <1>1, Zenon
      <4>5. MissOK(SeenFlags(ps.args) \cup {j}, SeenValues(ps.args), Missing(ps.miss) \cup {j}, j,
                   v, still)
        BY <1>15, <1>16, <4>2, <4>3, <4>4, MissFlag
      <4> QED BY <4>1, <4>5, Zenon
    <3> QED BY <1>3, <2>5, <2>6, <3>1, Zenon
  <2> QED BY <1>6, <1>7, <1>9, <1>10, <2>4, <2>6, <2>7, <2>8, Zenon DEF LinkedAt
<1>17. CASE j \notin Pairs
  <2>0. Place(j) \in {Place(k) : k \in (1 .. 10) \ Pairs} \cup {Other}
    BY <1>17
  <2>1. PosOK(q.pos) /\ Idle(q.pos)
    BY <1>13, <1>14, <2>0, AfterOther, Zenon
  <2>2. q.miss = ps.miss
    BY <1>13, <1>14, <2>0, MissesAre, Zenon
  <2>4. ParserOK(q)
    BY <1>1, <1>13, <2>1, <2>2, AddedOK, PlaceOnce, Zenon
  <2>6. next = 0 /\ next \in {0} \cup Pairs /\ next \notin Pairs
    BY <1>17 DEF Pairs
  <2>7. Waits(q, x, next)
    <3>1. x.waits = <<>>
      BY <1>17, Zenon DEF ReadsFlag
    <3> QED BY <2>1, <2>6, <3>1, Zenon DEF Waits
  <2>8. MissOK(SeenFlags(q.args), SeenValues(q.args), Missing(q.miss), next,
               x.unfinished, IsInjective(x.options))
    <3>1. MissOK(SeenFlags(ps.args) \cup {j}, SeenValues(ps.args), Missing(ps.miss), next,
                 x.unfinished, IsInjective(x.options))
      <4>1. next \notin Pairs
        BY <2>6
      <4>2. PICK u, v, once, still :
              /\ u = r.unfinished /\ v = x.unfinished
              /\ once = IsInjective(r.options) /\ still = IsInjective(x.options)
        BY Zenon
      <4>3. (v <=> u \/ w # 0) /\ (still <=> once /\ j \notin SeenFlags(ps.args))
        BY <1>8, <1>11, <4>2, Zenon
      <4>4. MissOK(SeenFlags(ps.args), SeenValues(ps.args), Missing(ps.miss), w, u, once)
        BY <1>12, <4>2, Zenon
      <4>5. MissOK(SeenFlags(ps.args) \cup {j}, SeenValues(ps.args), Missing(ps.miss), next, v, still)
        BY <1>1, <1>15, <1>17, <4>1, <4>3, <4>4, MissOther
      <4> QED BY <4>2, <4>5, Zenon
    <3> QED BY <1>3, <2>2, <2>6, <3>1, Zenon
  <2> QED BY <1>6, <1>7, <1>9, <1>10, <2>4, <2>6, <2>7, <2>8, Zenon DEF LinkedAt
<1> QED BY <1>16, <1>17

LEMMA ValueStep ==
  ASSUME NEW ps, NEW r, NEW i \in Pairs, LinkedAt(ps, r, i),
         NEW text \in Seq(STRING), text # <<>>, NEW q, IsAdded(q, ps, ValuePlace(i), text),
         NEW x, ReadsValue(x, r, i, text)
  PROVE  LinkedAt(q, x, 0)
<1>1. ParserOK(ps) /\ ReaderOK(r) /\ WaitsFor(ps.pos, i)
  BY Zenon DEF LinkedAt, Waits
<1>2. /\ IsArgs(q.args)
      /\ \A p : Seen(q.args, p) <=> Seen(ps.args, p) \/ p = ValuePlace(i)
      /\ Repeats(q.args) <=> Repeats(ps.args) \/ Seen(ps.args, ValuePlace(i))
  <2>1. IsArgs(ps.args)
    BY <1>1, ArgsAre
  <2> QED BY <2>1, AddedArgs, PlaceOnce, Zenon
<1>3. /\ SeenFlags(q.args) = SeenFlags(ps.args)
      /\ SeenValues(q.args) = SeenValues(ps.args) \cup {i}
  <2>1. SeenValues(q.args) = SeenValues(ps.args) \cup {i}
    BY <1>2, PlacesDiffer DEF SeenValues
  <2>2. \A j \in 1 .. 10 : Place(j) # ValuePlace(i)
    BY PlacesDiffer
  <2> QED BY <1>2, <2>1, <2>2 DEF SeenFlags
<1>4. Given(r.values, ValueTarget(i)) # {} <=> Seen(ps.args, ValuePlace(i))
  <2>1. Given(r.values, ValueTarget(i)) # {} <=> i \in SeenValues(ps.args)
    BY Zenon DEF LinkedAt, SameSeen
  <2> QED BY <2>1 DEF SeenValues
<1>5. /\ ReaderOK(x)
      /\ \A t : Given(x.values, t) # {} <=> Given(r.values, t) # {} \/ t = ValueTarget(i)
      /\ Given(r.values, ValueTarget(i)) # {} => Means(x) = Means(r)
      /\ Given(r.values, ValueTarget(i)) = {} =>
           Means(x) = SetTarget(Means(r), ValueTarget(i), text)
  <2>1. ValueMeans(x, r, i, text)
    BY <1>1, MeansValue, Zenon
  <2> QED BY <2>1, Zenon DEF ValueMeans
<1>6. x.options = r.options /\ (x.unfinished <=> r.unfinished) /\ x.waits = <<>>
  BY Zenon DEF ReadsValue
<1>7. execute_actions(q, NoOptions) = Means(x)
  <2>1. PICK p : p = ValuePlace(i)
    OBVIOUS
  <2>2. execute_actions(ps, NoOptions) = Means(r)
    BY Zenon DEF LinkedAt
  <2>3. IsArgs(ps.args) /\ p \in Params /\ p # <<>> /\ ~At(p).repeatable
        /\ At(p).target = ValueTarget(i) /\ IsAdded(q, ps, p, text)
    BY <1>1, <2>1, ArgsAre, PlaceOnce
  <2>4. Acts(q, ps, p, text)
    BY <2>3, AddedAction, Zenon
  <2>5. CASE Seen(ps.args, p)
    BY <1>4, <1>5, <2>1, <2>2, <2>3, <2>4, <2>5, Zenon DEF Acts
  <2>6. CASE ~Seen(ps.args, p)
    BY <1>4, <1>5, <2>1, <2>2, <2>3, <2>4, <2>6, Zenon DEF Acts
  <2> QED BY <2>5, <2>6
<1>8. MissOK(SeenFlags(ps.args), SeenValues(ps.args), Missing(ps.miss), i,
             r.unfinished, IsInjective(r.options))
  BY Zenon DEF LinkedAt
<1>9. Repeats(q.args) <=> ~IsInjective(x.options)
  <2>1. Repeats(ps.args) <=> ~IsInjective(r.options)
    BY Zenon DEF LinkedAt
  <2>2. i \in SeenValues(ps.args) => ~IsInjective(r.options)
    BY <1>8, Zenon DEF MissOK
  <2>3. Seen(ps.args, ValuePlace(i)) <=> i \in SeenValues(ps.args)
    BY DEF SeenValues
  <2> QED BY <1>2, <1>6, <2>1, <2>2, <2>3, Zenon
<1>10. SameSeen(q, x)
  <2>1. \A j \in 1 .. 10 : Opt(j) \in ToSet(x.options) <=> j \in SeenFlags(q.args)
    BY <1>3, <1>6, Zenon DEF LinkedAt, SameSeen
  <2>2. ASSUME NEW k \in Pairs
        PROVE  Given(x.values, ValueTarget(k)) # {} <=> k \in SeenValues(q.args)
    <3>1. Given(r.values, ValueTarget(k)) # {} <=> k \in SeenValues(ps.args)
      BY Zenon DEF LinkedAt, SameSeen
    <3>2. ValueTarget(k) = ValueTarget(i) <=> k = i
      BY TargetsAre, Zenon
    <3> QED BY <1>3, <1>5, <3>1, <3>2, Zenon
  <2> QED BY <2>1, <2>2, Zenon DEF SameSeen
<1>11. PosOK(ps.pos) /\ ps.miss \in SUBSET AllMisses
  BY <1>1, Zenon DEF ParserOK
<1>12. q.pos = next_after_match(ps.pos, ValuePlace(i)) /\ q.miss = Misses(ps.miss, ValuePlace(i))
  BY Zenon DEF IsAdded
<1>13. PosOK(q.pos) /\ Idle(q.pos)
  BY <1>1, <1>11, <1>12, AfterValue, Zenon
<1>14. q.miss = ps.miss \ {ValuePlace(i)}
  BY <1>11, <1>12, MissesAre, Zenon
<1>15. ParserOK(q)
  <2>1. q.miss \in SUBSET AllMisses
    BY <1>11, <1>14
  <2> QED BY <1>1, <1>13, <2>1, AddedOK, PlaceOnce, Zenon
<1>16. Missing(q.miss) = Missing(ps.miss) \ {i}
  BY <1>14, PlacesDiffer DEF Missing
<1>17. Missing(ps.miss) \in SUBSET Pairs /\ SeenValues(ps.args) \in SUBSET Pairs
  BY DEF Missing, SeenValues
<1>18. 0 \notin Pairs /\ 0 \in {0} \cup Pairs
  BY DEF Pairs
<1>19. MissOK(SeenFlags(q.args), SeenValues(q.args), Missing(q.miss), 0,
              x.unfinished, IsInjective(x.options))
  <2>2. PICK u, once : u = r.unfinished /\ once = IsInjective(r.options)
    BY Zenon
  <2>4. MissOK(SeenFlags(ps.args), SeenValues(ps.args), Missing(ps.miss), i, u, once)
    BY <1>8, <2>2, Zenon
  <2>5. MissOK(SeenFlags(ps.args), SeenValues(ps.args) \cup {i}, Missing(ps.miss) \ {i}, 0, u, once)
    BY <1>17, <1>18, <2>4, MissValue
  <2>6. MissOK(SeenFlags(q.args), SeenValues(q.args), Missing(q.miss), 0, u, once)
    BY <1>3, <1>16, <2>5, Zenon
  <2>7. x.unfinished <=> u
    BY <1>6, <2>2, Zenon
  <2> QED BY <1>6, <2>2, <2>6, <2>7, Zenon DEF MissOK
<1>20. Waits(q, x, 0)
  BY <1>6, <1>13, <1>18, Zenon DEF Waits
<1> QED BY <1>5, <1>7, <1>9, <1>10, <1>15, <1>18, <1>19, <1>20, Zenon DEF LinkedAt

LEMMA WrongStep ==
  ASSUME NEW ps, NEW r, LinkedAt(ps, r, 0),
         NEW text \in Seq(STRING), text # <<>>, NEW q, IsAdded(q, ps, Other, text),
         NEW x, ReadsWrong(x, r, text)
  PROVE  LinkedAt(q, x, 0)
<1>1. ParserOK(ps) /\ ReaderOK(r)
  BY Zenon DEF LinkedAt, Waits
<1>2. /\ IsArgs(q.args)
      /\ \A p : Seen(q.args, p) <=> Seen(ps.args, p) \/ p = Other
      /\ Repeats(q.args) <=> Repeats(ps.args)
  <2>1. IsArgs(ps.args)
    BY <1>1, ArgsAre
  <2> QED BY <2>1, AddedArgs, PlaceOnce, Zenon
<1>3. /\ SeenFlags(q.args) = SeenFlags(ps.args)
      /\ SeenValues(q.args) = SeenValues(ps.args)
  <2>1. \A j \in 1 .. 10 : Place(j) # Other
    BY PlacesDiffer
  <2>2. \A i \in Pairs : ValuePlace(i) # Other
    BY PlacesDiffer
  <2> QED BY <1>2, <2>1, <2>2 DEF SeenFlags, SeenValues
<1>5. ReaderOK(x) /\ Means(x) = SetTarget(Means(r), "wrong", text)
  BY <1>1, MeansWrong, Zenon
<1>6. x.options = r.options /\ (x.unfinished <=> r.unfinished) /\ x.waits = r.waits
      /\ x.values = r.values
  BY Zenon DEF ReadsWrong
<1>7. execute_actions(q, NoOptions) = Means(x)
  <2>1. PICK p : p = Other
    OBVIOUS
  <2>2. execute_actions(ps, NoOptions) = Means(r)
    BY Zenon DEF LinkedAt
  <2>3. IsArgs(ps.args) /\ p \in Params /\ p # <<>> /\ At(p).repeatable
        /\ At(p).target = "wrong" /\ IsAdded(q, ps, p, text)
    BY <1>1, <2>1, ArgsAre, PlaceOnce
  <2>4. Acts(q, ps, p, text)
    BY <2>3, AddedAction, Zenon
  <2> QED BY <1>5, <2>2, <2>3, <2>4, Zenon DEF Acts
<1>8. MissOK(SeenFlags(ps.args), SeenValues(ps.args), Missing(ps.miss), 0,
             r.unfinished, IsInjective(r.options))
  BY Zenon DEF LinkedAt
<1>9. Repeats(q.args) <=> ~IsInjective(x.options)
  BY <1>2, <1>6, Zenon DEF LinkedAt
<1>10. SameSeen(q, x)
  BY <1>3, <1>6, Zenon DEF LinkedAt, SameSeen
<1>11. PosOK(ps.pos) /\ ps.miss \in SUBSET AllMisses
  BY <1>1, Zenon DEF ParserOK
<1>12. q.pos = next_after_match(ps.pos, Other) /\ q.miss = Misses(ps.miss, Other)
  BY Zenon DEF IsAdded
<1>13. PosOK(q.pos) /\ Idle(q.pos)
  BY <1>11, <1>12, AfterOther, Zenon
<1>14. q.miss = ps.miss
  BY <1>11, <1>12, MissesAre, Zenon
<1>15. ParserOK(q)
  BY <1>1, <1>11, <1>13, <1>14, AddedOK, PlaceOnce, Zenon
<1>18. 0 \notin Pairs /\ 0 \in {0} \cup Pairs
  BY DEF Pairs
<1>19. MissOK(SeenFlags(q.args), SeenValues(q.args), Missing(q.miss), 0,
              x.unfinished, IsInjective(x.options))
  BY <1>3, <1>6, <1>8, <1>14, Zenon DEF MissOK
<1>20. Waits(q, x, 0)
  <2>1. r.waits = <<>>
    BY Zenon DEF LinkedAt, Waits
  <2> QED BY <1>6, <1>13, <1>18, <2>1, Zenon DEF Waits
<1> QED BY <1>5, <1>7, <1>9, <1>10, <1>15, <1>18, <1>19, <1>20, Zenon DEF LinkedAt

LEMMA CountStep ==
  ASSUME NEW ps, NEW r, NEW w, LinkedAt(ps, r, w)
  PROVE  LinkedAt(Counted(ps), r, w)
<1> PICK c : c = Counted(ps)
  OBVIOUS
<1>1. IsCounted(c, ps)
  BY CountedFields, Zenon DEF LinkedAt, ParserOK
<1>2. /\ DOMAIN c = {"pos", "index", "args", "miss", "blocked"}
      /\ c.pos = ps.pos /\ c.args = ps.args /\ c.miss = ps.miss /\ c.blocked = ps.blocked
  BY <1>1, Zenon DEF IsCounted
<1>3. ParserOK(c)
  BY <1>2, Zenon DEF LinkedAt, ParserOK
<1>4. execute_actions(c, NoOptions) = execute_actions(ps, NoOptions)
  BY <1>2, ActionFold, Zenon
<1> QED BY <1>2, <1>3, <1>4, Zenon DEF LinkedAt, Waits, SameSeen

-----------------------------------------------------------------------------
(***************************************************************************)
(* Texts in a row.  FlattenSeq is defined by recursion over the rows.      *)
(***************************************************************************)
Arguments == Seq(STRING)

LEMMA TextsAssociate ==
  ASSUME NEW s \in Arguments, NEW t \in Arguments, NEW u \in Arguments
  PROVE  (s \o t) \o u = s \o (t \o u)
BY SMTT(30) DEF Arguments

(* A set of natural numbers that goes on from 0 has all of them. *)
LEMMA AllNaturals ==
  ASSUME NEW S \in SUBSET Nat, 0 \in S, \A i \in S : i + 1 \in S
  PROVE  \A i \in Nat : i \in S
<1> SUFFICES ASSUME NEW j \in Nat, j \notin S PROVE FALSE
  OBVIOUS
<1>1. Nat \ S \in SUBSET Nat /\ Nat \ S # {}
  OBVIOUS
<1>2. PICK m \in Nat \ S : \A x \in Nat \ S : m <= x
  BY <1>1, CommaSteps!LeastElement
<1>3. m # 0
  OBVIOUS
<1>4. m - 1 \in Nat /\ m - 1 \notin Nat \ S /\ (m - 1) + 1 = m
  BY <1>2, <1>3
<1> QED BY <1>4

IsFlat(f, seqs, n) == f = [i \in 1 .. n |-> IF i = 1 THEN seqs[i] ELSE f[i - 1] \o seqs[i]]

LEMMA FlatExists ==
  ASSUME NEW seqs, NEW n \in Nat
  PROVE  \E f : IsFlat(f, seqs, n)
<1> DEFINE Lacking == {m \in Nat : ~ \E f : IsFlat(f, seqs, m)}
<1>1. ASSUME NEW m \in Nat, NEW f, IsFlat(f, seqs, m)
      PROVE  \E g : IsFlat(g, seqs, m + 1)
  <2> DEFINE g == [i \in 1 .. m + 1 |-> IF i <= m THEN f[i]
                                        ELSE IF i = 1 THEN seqs[i] ELSE f[i - 1] \o seqs[i]]
  <2>1. \A i \in 1 .. m : f[i] = IF i = 1 THEN seqs[i] ELSE f[i - 1] \o seqs[i]
    BY <1>1 DEF IsFlat
  <2>2. \A i \in 1 .. m + 1 : g[i] = IF i = 1 THEN seqs[i] ELSE g[i - 1] \o seqs[i]
    BY <2>1
  <2>3. IsFlat(g, seqs, m + 1)
    BY <2>2 DEF IsFlat
  <2> QED BY <2>3
<1>2. \E f : IsFlat(f, seqs, 0)
  <2>1. IsFlat(<<>>, seqs, 0)
    BY DEF IsFlat
  <2> QED BY <2>1
<1>3. Lacking = {}
  <2> SUFFICES ASSUME Lacking # {} PROVE FALSE
    OBVIOUS
  <2>0. Lacking \in SUBSET Nat
    OBVIOUS
  <2>1. PICK m \in Lacking : \A x \in Lacking : m <= x
    <3> HIDE DEF Lacking
    <3> QED BY <2>0, CommaSteps!LeastElement
  <2>2. m \in Nat /\ m # 0 /\ ~ \E f : IsFlat(f, seqs, m)
    BY <1>2, <2>1
  <2>3. m - 1 \in Nat /\ m - 1 \notin Lacking /\ (m - 1) + 1 = m
    BY <2>1, <2>2
  <2>4. PICK f : IsFlat(f, seqs, m - 1)
    BY <2>3
  <2>5. \E g : IsFlat(g, seqs, (m - 1) + 1)
    BY <1>1, <2>3, <2>4
  <2> QED BY <2>2, <2>3, <2>5
<1> QED BY <1>3

Flat(seqs) == CHOOSE f : IsFlat(f, seqs, Len(seqs))

LEMMA FlatRows ==
  ASSUME NEW seqs \in Seq(Arguments), NEW n \in Nat, n = Len(seqs), NEW f, f = Flat(seqs)
  PROVE  /\ n > 0 => f[1] = seqs[1]
         /\ \A i \in 1 .. n - 1 : f[i + 1] = f[i] \o seqs[i + 1]
         /\ \A i \in 1 .. n : f[i] \in Arguments
<1>1. IsFlat(f, seqs, n)
  <2>1. \E g : IsFlat(g, seqs, n)
    BY FlatExists
  <2> QED BY <2>1, Zenon DEF Flat
<1>2. \A i \in 1 .. n : f[i] = IF i = 1 THEN seqs[i] ELSE f[i - 1] \o seqs[i]
  BY <1>1 DEF IsFlat
<1>3. n > 0 => f[1] = seqs[1]
  BY <1>2
<1>4. ASSUME NEW i \in 1 .. n - 1 PROVE f[i + 1] = f[i] \o seqs[i + 1]
  <2>1. i + 1 \in 1 .. n /\ i + 1 # 1 /\ (i + 1) - 1 = i
    OBVIOUS
  <2> QED BY <1>2, <2>1
<1>5. \A i \in 1 .. n : seqs[i] \in Arguments
  OBVIOUS
<1> DEFINE R == {i \in Nat : 0 < i /\ i <= n => f[i] \in Arguments}
<1>6. \A i \in R : i + 1 \in R
  <2>1. SUFFICES ASSUME NEW i \in R, i + 1 <= n PROVE f[i + 1] \in Arguments
    OBVIOUS
  <2>2. CASE i = 0
    BY <1>3, <1>5, <2>1, <2>2
  <2>3. CASE i # 0
    <3>1. i \in 1 .. n - 1 /\ i + 1 \in 1 .. n
      BY <2>1, <2>3
    <3>2. f[i + 1] = f[i] \o seqs[i + 1]
      BY <1>4, <3>1
    <3>3. f[i] \in Arguments /\ seqs[i + 1] \in Arguments
      BY <1>5, <2>1, <3>1
    <3> QED BY <3>2, <3>3 DEF Arguments
  <2> QED BY <2>2, <2>3
<1>7. 0 \in R /\ R \in SUBSET Nat
  OBVIOUS
<1>8. \A i \in Nat : i \in R
  <2> HIDE DEF R
  <2> QED BY <1>6, <1>7, AllNaturals
<1>9. \A i \in 1 .. n : f[i] \in Arguments
  BY <1>8
<1> QED BY <1>3, <1>4, <1>9

LEMMA FlattenIs ==
  ASSUME NEW seqs \in Seq(Arguments)
  PROVE  /\ FlattenSeq(seqs) \in Arguments
         /\ Len(seqs) = 0 => FlattenSeq(seqs) = <<>>
         /\ Len(seqs) # 0 => FlattenSeq(seqs) = Flat(seqs)[Len(seqs)]
<1>n. PICK n \in Nat : n = Len(seqs)
  OBVIOUS
<1>1. CASE n = 0
  <2>1. FlattenSeq(seqs) = seqs /\ seqs = <<>>
    BY <1>1, <1>n DEF FlattenSeq
  <2>2. <<>> \in Arguments
    BY DEF Arguments
  <2> QED BY <1>1, <1>n, <2>1, <2>2
<1>2. CASE n # 0
  <2>1. FlattenSeq(seqs) = Flat(seqs)[Len(seqs)]
    BY <1>2, <1>n, Zenon DEF FlattenSeq, Flat, IsFlat
  <2>2. Flat(seqs)[n] \in Arguments
    <3>1. n \in 1 .. n
      BY <1>2
    <3> QED BY <1>n, <3>1, FlatRows
  <2> QED BY <1>2, <1>n, <2>1, <2>2
<1> QED BY <1>1, <1>2

LEMMA FlattenAppend ==
  ASSUME NEW seqs \in Seq(Arguments), NEW x \in Arguments
  PROVE  FlattenSeq(Append(seqs, x)) = FlattenSeq(seqs) \o x
<1> PICK e : e = Append(seqs, x)
  OBVIOUS
<1> PICK n \in Nat, m \in Nat : n = Len(seqs) /\ m = n + 1
  OBVIOUS
<1>1. /\ e \in Seq(Arguments) /\ Len(e) = m /\ e[m] = x
      /\ \A i \in 1 .. n : e[i] = seqs[i]
  OBVIOUS
<1> PICK f, g : f = Flat(e) /\ g = Flat(seqs)
  OBVIOUS
<1>2. /\ m > 0 => f[1] = e[1]
      /\ \A i \in 1 .. m - 1 : f[i + 1] = f[i] \o e[i + 1]
      /\ \A i \in 1 .. m : f[i] \in Arguments
  BY <1>1, FlatRows, ZenonT(40)
<1>3. /\ n > 0 => g[1] = seqs[1]
      /\ \A i \in 1 .. n - 1 : g[i + 1] = g[i] \o seqs[i + 1]
  BY FlatRows
<1>4. FlattenSeq(e) = f[m]
  <2>1. m # 0
    OBVIOUS
  <2> QED BY <1>1, <2>1, FlattenIs
<1>5. CASE n = 0
  <2>1. f[m] = x
    BY <1>1, <1>2, <1>5
  <2>2. FlattenSeq(seqs) = <<>>
    BY <1>5, FlattenIs
  <2>3. <<>> \o x = x
    BY DEF Arguments
  <2> QED BY <1>4, <2>1, <2>2, <2>3
<1>6. CASE n # 0
  <2> DEFINE R == {i \in Nat : 0 < i /\ i <= n => f[i] = g[i]}
  <2>1. \A i \in R : i + 1 \in R
    <3>1. SUFFICES ASSUME NEW i \in R, i + 1 <= n PROVE f[i + 1] = g[i + 1]
      OBVIOUS
    <3>2. CASE i = 0
      BY <1>1, <1>2, <1>3, <3>1, <3>2
    <3>3. CASE i # 0
      <4>1. i \in 1 .. n - 1 /\ i \in 1 .. m - 1 /\ i + 1 \in 1 .. n
        BY <3>1, <3>3
      <4>2. f[i] = g[i] /\ e[i + 1] = seqs[i + 1]
        BY <1>1, <3>1, <4>1
      <4> QED BY <1>2, <1>3, <4>1, <4>2
    <3> QED BY <3>2, <3>3
  <2>2. 0 \in R /\ R \in SUBSET Nat
    OBVIOUS
  <2>3. \A i \in Nat : i \in R
    <3> HIDE DEF R
    <3> QED BY <2>1, <2>2, AllNaturals
  <2>4. f[n] = g[n]
    BY <1>6, <2>3
  <2>5. f[m] = f[n] \o e[m]
    <3>1. n \in 1 .. m - 1 /\ n + 1 = m
      BY <1>6
    <3> QED BY <1>2, <3>1
  <2>6. FlattenSeq(seqs) = g[n]
    BY <1>6, FlattenIs
  <2> QED BY <1>1, <1>4, <2>4, <2>5, <2>6
<1> QED BY <1>5, <1>6

(* The first k texts in a row. *)
Row(a, k) == FlattenSeq(SubSeq(a, 1, k))

LEMMA FirstAre ==
  ASSUME NEW S, NEW a \in Seq(S), NEW n \in Nat, n = Len(a)
  PROVE  /\ SubSeq(a, 1, 0) = <<>> /\ SubSeq(a, 1, n) = a
         /\ \A k \in 0 .. n : SubSeq(a, 1, k) \in Seq(S)
         /\ \A k \in 0 .. n - 1 : /\ a[k + 1] \in S
                                  /\ SubSeq(a, 1, k + 1) = Append(SubSeq(a, 1, k), a[k + 1])
<1>1. SubSeq(a, 1, 0) = <<>> /\ SubSeq(a, 1, n) = a
  OBVIOUS
<1>2. ASSUME NEW k \in 0 .. n PROVE SubSeq(a, 1, k) \in Seq(S)
  OBVIOUS
<1>3. ASSUME NEW k \in 0 .. n - 1
      PROVE  /\ a[k + 1] \in S
             /\ SubSeq(a, 1, k + 1) = Append(SubSeq(a, 1, k), a[k + 1])
  <2>1. k \in Nat /\ k + 1 \in 1 .. n /\ k \in 0 .. n
    OBVIOUS
  <2>2. a[k + 1] \in S
    BY <2>1
  <2>3. PICK e : e = SubSeq(a, 1, k + 1)
    OBVIOUS
  <2>4. PICK f : f = Append(SubSeq(a, 1, k), a[k + 1])
    OBVIOUS
  <2>5. e \in Seq(S) /\ Len(e) = k + 1 /\ \A j \in 1 .. k + 1 : e[j] = a[j]
    BY <2>1, <2>3
  <2>6. f \in Seq(S) /\ Len(f) = k + 1 /\ \A j \in 1 .. k + 1 : f[j] = a[j]
    BY <2>1, <2>2, <2>4
  <2>7. e = f
    BY <2>5, <2>6, SeqEqual
  <2> QED BY <2>2, <2>3, <2>4, <2>7
<1> QED BY <1>1, <1>2, <1>3

LEMMA RowIs ==
  ASSUME NEW a \in Seq(Arguments), NEW n \in Nat, n = Len(a)
  PROVE  /\ Row(a, 0) = <<>> /\ Row(a, n) = FlattenSeq(a)
         /\ \A k \in 0 .. n : Row(a, k) \in Arguments
         /\ \A k \in 0 .. n - 1 : Row(a, k + 1) = Row(a, k) \o a[k + 1]
<1>1. Row(a, 0) = <<>>
  <2>1. SubSeq(a, 1, 0) = <<>> /\ <<>> \in Seq(Arguments) /\ Len(<<>>) = 0
    OBVIOUS
  <2>2. FlattenSeq(<<>>) = <<>>
    BY <2>1, FlattenIs
  <2> QED BY <2>1, <2>2 DEF Row
<1>2. Row(a, n) = FlattenSeq(a)
  <2>1. SubSeq(a, 1, n) = a
    BY FirstAre
  <2> QED BY <2>1 DEF Row
<1>3. ASSUME NEW k \in 0 .. n PROVE Row(a, k) \in Arguments
  <2>1. SubSeq(a, 1, k) \in Seq(Arguments)
    BY FirstAre
  <2> QED BY <2>1, FlattenIs DEF Row
<1>4. ASSUME NEW k \in 0 .. n - 1 PROVE Row(a, k + 1) = Row(a, k) \o a[k + 1]
  <2>1. k \in 0 .. n
    OBVIOUS
  <2>2. /\ SubSeq(a, 1, k) \in Seq(Arguments) /\ a[k + 1] \in Arguments
        /\ SubSeq(a, 1, k + 1) = Append(SubSeq(a, 1, k), a[k + 1])
    BY <2>1, FirstAre
  <2>3. FlattenSeq(Append(SubSeq(a, 1, k), a[k + 1])) = FlattenSeq(SubSeq(a, 1, k)) \o a[k + 1]
    BY <2>2, FlattenAppend
  <2> QED BY <2>2, <2>3 DEF Row
<1> QED BY <1>1, <1>2, <1>3, <1>4

(* Two neighbours may share their text in another way. *)
LEMMA SameRow ==
  ASSUME NEW a \in Seq(Arguments), NEW b \in Seq(Arguments), Len(a) = Len(b),
         NEW i \in 2 .. Len(a), b[i - 1] \o b[i] = a[i - 1] \o a[i],
         \A k \in 1 .. Len(a) : k # i - 1 /\ k # i => b[k] = a[k]
  PROVE  FlattenSeq(b) = FlattenSeq(a)
<1>n. PICK n \in Nat : n = Len(a) /\ n = Len(b)
  OBVIOUS
<1>a. /\ Row(a, 0) = <<>> /\ Row(a, n) = FlattenSeq(a)
      /\ \A k \in 0 .. n : Row(a, k) \in Arguments
      /\ \A k \in 0 .. n - 1 : Row(a, k + 1) = Row(a, k) \o a[k + 1]
  BY <1>n, RowIs
<1>b. /\ Row(b, 0) = <<>> /\ Row(b, n) = FlattenSeq(b)
      /\ \A k \in 0 .. n : Row(b, k) \in Arguments
      /\ \A k \in 0 .. n - 1 : Row(b, k + 1) = Row(b, k) \o b[k + 1]
  BY <1>n, RowIs
<1>i. i \in 2 .. n /\ \A k \in 1 .. n : k # i - 1 /\ k # i => b[k] = a[k]
  BY <1>n
<1>1. Row(b, i - 2) = Row(a, i - 2)
  <2> DEFINE R == {k \in Nat : k <= i - 2 => Row(b, k) = Row(a, k)}
  <2>1. \A k \in R : k + 1 \in R
    <3>1. SUFFICES ASSUME NEW k \in R, k + 1 <= i - 2 PROVE Row(b, k + 1) = Row(a, k + 1)
      OBVIOUS
    <3>2. k \in 0 .. n - 1 /\ k + 1 \in 1 .. n /\ k + 1 # i - 1 /\ k + 1 # i
      BY <1>i, <3>1
    <3>3. Row(b, k) = Row(a, k) /\ b[k + 1] = a[k + 1]
      BY <1>i, <3>1, <3>2
    <3> QED BY <1>a, <1>b, <3>2, <3>3
  <2>2. 0 \in R /\ R \in SUBSET Nat
    BY <1>a, <1>b
  <2>3. \A k \in Nat : k \in R
    <3> HIDE DEF R
    <3> QED BY <2>1, <2>2, AllNaturals
  <2> QED BY <1>i, <2>3
<1>2. Row(b, i) = Row(a, i)
  <2>1. /\ i - 2 \in 0 .. n - 1 /\ i - 1 \in 0 .. n - 1 /\ (i - 2) + 1 = i - 1 /\ (i - 1) + 1 = i
        /\ i - 2 \in 0 .. n /\ i - 1 \in 1 .. n /\ i \in 1 .. n
    BY <1>i
  <2>2. /\ Row(a, i - 1) = Row(a, i - 2) \o a[i - 1] /\ Row(a, i) = Row(a, i - 1) \o a[i]
        /\ Row(b, i - 1) = Row(b, i - 2) \o b[i - 1] /\ Row(b, i) = Row(b, i - 1) \o b[i]
    BY <1>a, <1>b, <2>1
  <2>3. PICK x \in Arguments : x = Row(a, i - 2)
    BY <1>a, <2>1
  <2>4. PICK c \in Arguments, d \in Arguments, e \in Arguments, f \in Arguments :
          c = a[i - 1] /\ d = a[i] /\ e = b[i - 1] /\ f = b[i]
    BY <1>n, <2>1
  <2>5. e \o f = c \o d
    BY <2>4
  <2>6. (x \o c) \o d = x \o (c \o d) /\ (x \o e) \o f = x \o (e \o f)
    <3>1. (x \o c) \o d = x \o (c \o d)
      BY TextsAssociate
    <3>2. (x \o e) \o f = x \o (e \o f)
      BY TextsAssociate
    <3> QED BY <3>1, <3>2, Zenon
  <2> QED BY <1>1, <2>2, <2>3, <2>4, <2>5, <2>6
<1>3. Row(b, n) = Row(a, n)
  <2> DEFINE R == {k \in Nat : i + k <= n => Row(b, i + k) = Row(a, i + k)}
  <2>1. \A k \in R : k + 1 \in R
    <3>1. SUFFICES ASSUME NEW k \in R, i + (k + 1) <= n
                   PROVE  Row(b, i + (k + 1)) = Row(a, i + (k + 1))
      OBVIOUS
    <3>2. /\ i + k \in 0 .. n - 1 /\ (i + k) + 1 \in 1 .. n /\ (i + k) + 1 # i - 1
          /\ (i + k) + 1 # i /\ i + (k + 1) = (i + k) + 1
      BY <1>i, <3>1
    <3>3. Row(b, i + k) = Row(a, i + k) /\ b[(i + k) + 1] = a[(i + k) + 1]
      BY <1>i, <3>1, <3>2
    <3> QED BY <1>a, <1>b, <3>2, <3>3
  <2>2. 0 \in R /\ R \in SUBSET Nat
    BY <1>2, <1>i
  <2>3. \A k \in Nat : k \in R
    <3> HIDE DEF R
    <3> QED BY <2>1, <2>2, AllNaturals
  <2>4. n - i \in Nat /\ i + (n - i) = n
    BY <1>i
  <2>5. n - i \in R
    BY <2>3, <2>4
  <2> QED BY <2>4, <2>5
<1> QED BY <1>3, <1>a, <1>b

-----------------------------------------------------------------------------
(***************************************************************************)
(* sanitize_args moves digits from the end of an argument to the next one. *)
(***************************************************************************)
LEMMA DigitsFromIs ==
  ASSUME NEW arg \in Arguments
  PROVE  DigitsFrom(arg) \in 1 .. Len(arg) + 1
<1>n. PICK n \in Nat : n = Len(arg)
  BY DEF Arguments
<1> DEFINE Good(k) == /\ \A j \in k .. Len(arg) : arg[j] \in Digits
                      /\ k > 1 => arg[k - 1] \notin Digits
           first == CHOOSE k \in 1 .. Len(arg) + 1 : Good(k)
<1>1. \E k \in 1 .. Len(arg) + 1 : Good(k)
  <2> DEFINE K == {k \in Nat : k \in 1 .. n + 1 /\ \A j \in k .. n : arg[j] \in Digits}
  <2>1. K \in SUBSET Nat /\ n + 1 \in K
    OBVIOUS
  <2>2. PICK k \in K : \A x \in K : k <= x
    <3> HIDE DEF K
    <3> QED BY <2>1, CommaSteps!LeastElement
  <2>3. k \in 1 .. n + 1 /\ \A j \in k .. n : arg[j] \in Digits
    OBVIOUS
  <2>4. ASSUME k > 1, arg[k - 1] \in Digits PROVE FALSE
    <3>1. k - 1 \in Nat /\ k - 1 \in 1 .. n + 1 /\ ~ (k <= k - 1)
      BY <2>3, <2>4
    <3>2. \A j \in k - 1 .. n : arg[j] \in Digits
      BY <2>3, <2>4
    <3>3. k - 1 \in K
      BY <3>1, <3>2
    <3> QED BY <2>2, <3>1, <3>3
  <2> QED BY <1>n, <2>3, <2>4
<1>2. first \in 1 .. Len(arg) + 1
  <2> HIDE DEF Good
  <2> QED BY <1>1
<1>3. DigitsFrom(arg) = IF first > 1 /\ arg[first - 1] \in Signs THEN first - 1 ELSE first
  BY Zenon DEF DigitsFrom
<1> HIDE DEF first
<1> QED BY <1>2, <1>3, <1>n

IsMoved(b, a) == b \in Seq(Arguments) /\ Len(b) = Len(a) /\ FlattenSeq(b) = FlattenSeq(a)

(* Moving digits keeps the text of the two arguments. *)
Shares(u, v, p, q) ==
  u \in Arguments /\ v \o q \in Arguments /\ u \o (v \o q) = p \o q

LEMMA SharedText ==
  ASSUME NEW q \in Arguments, NEW u \in Arguments, NEW v \in Arguments
  PROVE  Shares(u, v, u \o v, q)
<1>1. u \o (v \o q) = (u \o v) \o q
  BY SMTT(30) DEF Arguments
<1>2. v \o q \in Arguments
  BY DEF Arguments
<1> QED BY <1>1, <1>2 DEF Shares

LEMMA MovedPair ==
  ASSUME NEW p \in Arguments, NEW q \in Arguments
  PROVE  Shares(SubSeq(p, 1, DigitsFrom(p) - 1), SubSeq(p, DigitsFrom(p), Len(p)), p, q)
<1>1. PICK k \in 1 .. Len(p) + 1 : k = DigitsFrom(p)
  BY DigitsFromIs
<1>2. Len(p) \in Nat
  BY DEF Arguments
<1>3. k - 1 \in 0 .. Len(p) /\ k = (k - 1) + 1
  BY <1>2
<1>4. /\ SubSeq(p, 1, k - 1) \in Arguments /\ SubSeq(p, k, Len(p)) \in Arguments
      /\ SubSeq(p, 1, k - 1) \o SubSeq(p, k, Len(p)) = p
  BY <1>3, Parts DEF Arguments
<1>5. Shares(SubSeq(p, 1, k - 1), SubSeq(p, k, Len(p)),
             SubSeq(p, 1, k - 1) \o SubSeq(p, k, Len(p)), q)
  BY <1>4, SharedText
<1> QED BY <1>1, <1>4, <1>5

LEMMA Moved ==
  ASSUME NEW a \in Seq(Arguments), NEW i \in 2 .. Len(a)
  PROVE  IsMoved(MoveDigits(a, i), a)
<1>n. PICK n \in Nat : n = Len(a)
  OBVIOUS
<1>1. PICK p \in Arguments : p = a[i - 1]
  BY <1>n
<1>2. PICK q \in Arguments : q = a[i]
  BY <1>n
<1>3. PICK k : k = DigitsFrom(p)
  OBVIOUS
<1>4. PICK u : u = SubSeq(p, 1, k - 1)
  OBVIOUS
<1>5. PICK v : v = SubSeq(p, k, Len(p))
  OBVIOUS
<1>6. u \in Arguments /\ v \o q \in Arguments /\ u \o (v \o q) = p \o q
  <2>1. Shares(SubSeq(p, 1, DigitsFrom(p) - 1), SubSeq(p, DigitsFrom(p), Len(p)), p, q)
    BY MovedPair
  <2>2. Shares(u, v, p, q)
    BY <1>3, <1>4, <1>5, <2>1
  <2> QED BY <2>2 DEF Shares
<1>7. PICK w \in Arguments : w = v \o q
  BY <1>6
<1>8. PICK b : b = [a EXCEPT ![i - 1] = u, ![i] = w]
  OBVIOUS
<1>9. MoveDigits(a, i) = b
  <2>1. a[i] = [a EXCEPT ![i - 1] = u][i]
    BY <1>n
  <2> QED BY <1>1, <1>2, <1>3, <1>4, <1>5, <1>7, <1>8, <2>1 DEF MoveDigits
<1>10. /\ b \in Seq(Arguments) /\ Len(b) = n /\ b[i - 1] = u /\ b[i] = w
       /\ \A j \in 1 .. n : j # i - 1 /\ j # i => b[j] = a[j]
  <2>1. i - 1 \in 1 .. n /\ i \in 1 .. n /\ i - 1 # i
    BY <1>n
  <2>2. w \in Arguments /\ u \in Arguments
    BY <1>6
  <2>3. b \in Seq(Arguments) /\ Len(b) = n
    BY <1>8, <1>n, <2>1, <2>2
  <2>4. b[i - 1] = u /\ b[i] = w
    BY <1>8, <1>n, <2>1
  <2>5. \A j \in 1 .. n : j # i - 1 /\ j # i => b[j] = a[j]
    BY <1>8, <1>n, <2>1
  <2> QED BY <2>3, <2>4, <2>5
<1>11. b[i - 1] \o b[i] = a[i - 1] \o a[i]
  BY <1>1, <1>2, <1>6, <1>7, <1>10
<1>12. FlattenSeq(b) = FlattenSeq(a)
  <2>1. Len(a) = Len(b) /\ \A j \in 1 .. Len(a) : j # i - 1 /\ j # i => b[j] = a[j]
    BY <1>10, <1>n
  <2>2. b \in Seq(Arguments)
    BY <1>10
  <2> HIDE <1>n
  <2> QED BY <1>11, <2>1, <2>2, SameRow
<1> QED BY <1>9, <1>10, <1>12, <1>n DEF IsMoved

(* An argument that ends neither in a digit nor in a sign has none to give. *)
LEMMA NoDigitsAtTheEnd ==
  ASSUME NEW arg \in Arguments, arg # <<>> => Last(arg) \notin Digits \cup Signs
  PROVE  DigitsFrom(arg) = Len(arg) + 1
<1>n. PICK n \in Nat : n = Len(arg)
  BY DEF Arguments
<1> DEFINE Good(k) == /\ \A j \in k .. Len(arg) : arg[j] \in Digits
                      /\ k > 1 => arg[k - 1] \notin Digits
           first == CHOOSE k \in 1 .. Len(arg) + 1 : Good(k)
<1>1. n > 0 => arg[n] \notin Digits /\ arg[n] \notin Signs
  BY <1>n DEF Last, Arguments
<1>2. Good(n + 1)
  BY <1>n, <1>1
<1>3. ASSUME NEW k \in 1 .. n + 1, Good(k) PROVE k = n + 1
  <2>1. CASE k <= n
    <3>1. n \in k .. Len(arg) /\ n > 0
      BY <1>n, <2>1
    <3>2. arg[n] \in Digits
      BY <1>3, <3>1
    <3> QED BY <1>1, <3>1, <3>2
  <2> QED BY <2>1
<1>4. first = n + 1
  <2>1. n + 1 \in 1 .. Len(arg) + 1
    BY <1>n
  <2> HIDE DEF Good
  <2>2. first \in 1 .. Len(arg) + 1 /\ Good(first)
    BY <1>2, <2>1
  <2> QED BY <1>n, <1>3, <2>2
<1>5. DigitsFrom(arg) = IF first > 1 /\ arg[first - 1] \in Signs THEN first - 1 ELSE first
  BY Zenon DEF DigitsFrom
<1> HIDE DEF first
<1>6. ~ (first > 1 /\ arg[first - 1] \in Signs)
  BY <1>1, <1>4
<1> QED BY <1>n, <1>4, <1>5, <1>6

LEMMA NothingToMove ==
  ASSUME NEW a \in Seq(Arguments), NEW i \in 2 .. Len(a), ~IsRewritten(a)
  PROVE  TakeDigits(a, i) = a
<1>1. CASE ~TakesDigits(a[i])
  BY <1>1 DEF TakeDigits
<1>2. CASE TakesDigits(a[i])
  <2>n. PICK n \in Nat : n = Len(a)
    OBVIOUS
  <2>1. PICK p \in Arguments : p = a[i - 1]
    BY <2>n
  <2>2. PICK q \in Arguments : q = a[i]
    BY <2>n
  <2>3. p # <<>> => Last(p) \notin Digits \cup Signs
    BY <1>2, <2>1 DEF IsRewritten
  <2>4. DigitsFrom(p) = Len(p) + 1
    BY <2>3, NoDigitsAtTheEnd
  <2>5. SubSeq(p, 1, (Len(p) + 1) - 1) = p /\ SubSeq(p, Len(p) + 1, Len(p)) \o q = q
    BY DEF Arguments
  <2>6. PICK b : b = [a EXCEPT ![i - 1] = p, ![i] = q]
    OBVIOUS
  <2>7. MoveDigits(a, i) = b
    <3>1. a[i] = [a EXCEPT ![i - 1] = p][i]
      BY <2>n
    <3> QED BY <2>1, <2>2, <2>4, <2>5, <2>6, <3>1 DEF MoveDigits
  <2>8. b = a
    BY <2>n, <2>1, <2>2, <2>6
  <2> QED BY <1>2, <2>7, <2>8 DEF TakeDigits
<1> QED BY <1>1, <1>2

(* What sanitize_args makes of the arguments. *)
IsSanitized(b, a) == IsMoved(b, a) /\ (~IsRewritten(a) => b = a)

TakeSteps == INSTANCE Recursion WITH Op <- TakeDigits

LEMMA Sanitized ==
  ASSUME NEW a \in Seq(Arguments)
  PROVE  IsSanitized(sanitize_args(a), a)
<1>n. PICK n \in Nat : n = Len(a)
  OBVIOUS
<1>s. PICK s : s = [i \in 1 .. Len(a) - 1 |-> i + 1]
  OBVIOUS
<1>m. PICK m \in Nat : m = IF n = 0 THEN 0 ELSE n - 1
  OBVIOUS
<1>1. s \in Seq(Nat) /\ Len(s) = m /\ \A i \in 1 .. m : s[i] = i + 1
  <2>1. DOMAIN s = 1 .. m
    BY <1>m, <1>n, <1>s
  <2>2. \A i \in 1 .. m : s[i] = i + 1
    BY <1>m, <1>n, <1>s
  <2>3. s = [i \in 1 .. m |-> s[i]]
    <3>1. s = [i \in DOMAIN s |-> s[i]]
      BY <1>s, Zenon
    <3> QED BY <2>1, <3>1
  <2>4. s \in [1 .. m -> Nat]
    BY <2>2, <2>3
  <2>5. s \in Seq(Nat)
    BY <2>4
  <2> QED BY <2>1, <2>2, <2>5
<1>2. sanitize_args(a) = TakeSteps!Fold(a, s)
  <2>1. sanitize_args(a) = FoldLeft(TakeDigits, a, s)
    BY <1>s, Zenon DEF sanitize_args
  <2>2. FoldLeft(TakeDigits, a, s) = TakeSteps!Fold(a, s)
    BY Zenon DEF FoldLeft, TakeSteps!Fold, TakeSteps!FoldLeft, MapThenFoldSet,
       TakeSteps!MapThenFoldSet, Max, TakeSteps!Max
  <2> QED BY <2>1, <2>2
<1> DEFINE R == {k \in Nat : k <= m => IsSanitized(TakeSteps!Fold(a, SubSeq(s, 1, k)), a)}
<1>3. \A k \in R : k + 1 \in R
  <2>1. SUFFICES ASSUME NEW k \in R, k + 1 <= m
                 PROVE  IsSanitized(TakeSteps!Fold(a, SubSeq(s, 1, k + 1)), a)
    OBVIOUS
  <2>2. k \in 0 .. m - 1 /\ k \in 0 .. m /\ k + 1 \in 1 .. m
    BY <2>1
  <2>3. /\ SubSeq(s, 1, k) \in Seq(Nat) /\ s[k + 1] \in Nat
        /\ SubSeq(s, 1, k + 1) = Append(SubSeq(s, 1, k), s[k + 1])
    BY <1>1, <2>2, FirstAre
  <2>4. PICK b : b = TakeSteps!Fold(a, SubSeq(s, 1, k))
    OBVIOUS
  <2>5. IsSanitized(b, a)
    BY <2>1, <2>2, <2>4
  <2>6. TakeSteps!Fold(a, SubSeq(s, 1, k + 1)) = TakeDigits(b, s[k + 1])
    BY <2>3, <2>4, TakeSteps!Unroll
  <2>7. s[k + 1] \in 2 .. Len(b)
    <3>1. s[k + 1] = (k + 1) + 1 /\ Len(b) = n
      BY <1>1, <1>n, <2>2, <2>5 DEF IsMoved, IsSanitized
    <3> QED BY <1>m, <2>2, <3>1
  <2>8. IsSanitized(TakeDigits(b, s[k + 1]), a)
    <3>1. b \in Seq(Arguments)
      BY <2>5 DEF IsMoved, IsSanitized
    <3>2. IsMoved(MoveDigits(b, s[k + 1]), b)
      BY <2>7, <3>1, Moved
    <3>3. IsMoved(TakeDigits(b, s[k + 1]), a)
      BY <2>5, <3>2, Zenon DEF IsMoved, IsSanitized, TakeDigits
    <3>4. ASSUME ~IsRewritten(a) PROVE TakeDigits(b, s[k + 1]) = a
      BY <2>5, <2>7, <3>1, <3>4, NothingToMove, Zenon DEF IsSanitized
    <3> QED BY <3>3, <3>4, Zenon DEF IsSanitized
  <2> QED BY <2>6, <2>8
<1>4. 0 \in R /\ R \in SUBSET Nat
  <2>1. SubSeq(s, 1, 0) = <<>>
    BY <1>1
  <2>2. TakeSteps!Fold(a, SubSeq(s, 1, 0)) = a
    BY <2>1, TakeSteps!Empty
  <2> QED BY <2>2 DEF IsMoved, IsSanitized
<1>5. \A k \in Nat : k \in R
  <2> HIDE DEF R
  <2> QED BY <1>3, <1>4, AllNaturals
<1>6. SubSeq(s, 1, m) = s
  BY <1>1, FirstAre
<1>7. IsSanitized(TakeSteps!Fold(a, SubSeq(s, 1, m)), a)
  BY <1>5
<1> QED BY <1>2, <1>6, <1>7

-----------------------------------------------------------------------------
(***************************************************************************)
(* One argument: the parser and the reader go on together, and the texts   *)
(* at the parameters grow by the argument.                                 *)
(***************************************************************************)
TextsOf(list) == [i \in DOMAIN list |-> list[i].arg]
TextOf(ps) == FlattenSeq(TextsOf(ps.args))

LEMMA TextsAre ==
  ASSUME NEW list, IsArgs(list)
  PROVE  TextsOf(list) \in Seq(Arguments)
<1>1. PICK S : list \in Seq(S)
  BY Zenon DEF IsArgs
<1>2. PICK n \in Nat : n = Len(list) /\ DOMAIN list = 1 .. n
  BY <1>1
<1>3. PICK t : t = TextsOf(list)
  OBVIOUS
<1>4. \A i \in 1 .. n : list[i].arg \in Arguments
  BY <1>2, Zenon DEF IsArgs, IsArg, ToSet, Arguments
<1>5. t \in [1 .. n -> Arguments]
  BY <1>2, <1>3, <1>4 DEF TextsOf
<1>6. t \in Seq(Arguments)
  BY <1>5
<1> QED BY <1>3, <1>6

LEMMA TextAppended ==
  ASSUME NEW S, NEW list \in Seq(S), TextsOf(list) \in Seq(Arguments),
         NEW a, NEW text \in Arguments, a.arg = text
  PROVE  TextsOf(Append(list, a)) = Append(TextsOf(list), text)
<1>1. PICK n \in Nat : n = Len(list)
  OBVIOUS
<1>e. PICK e : e = Append(list, a)
  OBVIOUS
<1>2. PICK s, t : s = TextsOf(list) /\ t = TextsOf(e)
  OBVIOUS
<1>3. DOMAIN list = 1 .. n /\ DOMAIN e = 1 .. n + 1 /\ e[n + 1] = a /\ \A i \in 1 .. n : e[i] = list[i]
  BY <1>1, <1>e
<1>4. DOMAIN s = 1 .. n /\ \A i \in 1 .. n : s[i] = list[i].arg
  BY <1>2, <1>3 DEF TextsOf
<1>5. /\ t = [i \in 1 .. n + 1 |-> e[i].arg]
      /\ \A i \in 1 .. n + 1 : t[i] = e[i].arg
  BY <1>2, <1>3 DEF TextsOf
<1>6. s \in Seq(Arguments) /\ Len(s) = n
  BY <1>2, <1>4
<1>7. PICK f : f = Append(s, text)
  OBVIOUS
<1>8. f \in Seq(Arguments) /\ Len(f) = n + 1 /\ f[n + 1] = text /\ \A i \in 1 .. n : f[i] = s[i]
  BY <1>6, <1>7
<1>9. \A i \in 1 .. n + 1 : t[i] = f[i]
  <2>1. t[n + 1] = f[n + 1]
    BY <1>3, <1>5, <1>8
  <2>2. \A i \in 1 .. n : t[i] = f[i]
    BY <1>3, <1>4, <1>5, <1>8
  <2> QED BY <2>1, <2>2
<1>10. t \in Seq(Arguments) /\ Len(t) = n + 1
  <2>1. \A i \in 1 .. n + 1 : f[i] \in Arguments
    BY <1>8
  <2>2. t \in [1 .. n + 1 -> Arguments]
    BY <1>5, <1>9, <2>1
  <2> QED BY <2>2
<1>11. t = f
  BY <1>8, <1>9, <1>10, SeqEqual
<1> QED BY <1>2, <1>7, <1>11, <1>e

LEMMA AddedText ==
  ASSUME NEW ps, IsArgs(ps.args), NEW p, NEW text \in Arguments, NEW q, IsAdded(q, ps, p, text)
  PROVE  TextOf(q) = TextOf(ps) \o text
<1>1. PICK S : ps.args \in Seq(S)
  BY Zenon DEF IsArgs
<1>2. PICK a : a.arg = text /\ q.args = Append(ps.args, a)
  BY Zenon DEF IsAdded
<1>3. TextsOf(ps.args) \in Seq(Arguments)
  BY TextsAre
<1>4. TextsOf(q.args) = Append(TextsOf(ps.args), text)
  <2>1. TextsOf(Append(ps.args, a)) = Append(TextsOf(ps.args), text)
    BY <1>1, <1>2, <1>3, TextAppended
  <2> QED BY <1>2, <2>1
<1> QED BY <1>3, <1>4, FlattenAppend DEF TextOf

Linked(ps, r) == \E w : LinkedAt(ps, r, w)

(* q and x are the parser and the reader after the argument. *)
Follows(q, x, ps, arg) ==
  Linked(q, x) /\ q.index = ps.index + 1 /\ TextOf(q) = TextOf(ps) \o arg

LEMMA LinkedArgs ==
  ASSUME NEW ps, NEW r, NEW w, LinkedAt(ps, r, w)
  PROVE  /\ ParserOK(ps) /\ IsArgs(ps.args) /\ PosOK(ps.pos) /\ DOMAIN r = ReaderFields
         /\ IsCounted(Counted(ps), ps) /\ TextOf(Counted(ps)) = TextOf(ps)
<1>1. ParserOK(ps) /\ DOMAIN r = ReaderFields
  BY Zenon DEF LinkedAt, ReaderOK
<1>2. IsArgs(ps.args)
  BY <1>1, ArgsAre
<1>3. PosOK(ps.pos) /\ DOMAIN ps = {"pos", "index", "args", "miss", "blocked"}
  BY <1>1, Zenon DEF ParserOK
<1>4. IsCounted(Counted(ps), ps)
  BY <1>3, CountedFields
<1>5. TextOf(Counted(ps)) = TextOf(ps)
  BY <1>4, Zenon DEF IsCounted, TextOf
<1> QED BY <1>1, <1>2, <1>3, <1>4, <1>5

LEMMA NothingStep ==
  ASSUME NEW ps, NEW r, NEW w, LinkedAt(ps, r, w), NEW arg, arg = <<>>
  PROVE  Follows(ParseArgument(ps, arg), ReadArgument(r, arg), ps, arg)
<1>1. ParserOK(ps) /\ IsArgs(ps.args) /\ IsCounted(Counted(ps), ps) /\ TextOf(Counted(ps)) = TextOf(ps)
  BY LinkedArgs
<1>2. ParseArgument(ps, arg) = Counted(ps)
  BY <1>1, ParseNothing
<1>3. ReadArgument(r, arg) = r
  BY Zenon DEF ReadArgument
<1>4. LinkedAt(Counted(ps), r, w)
  BY CountStep
<1>5. TextOf(ps) \o arg = TextOf(ps)
  <2>1. TextsOf(ps.args) \in Seq(Arguments)
    BY <1>1, TextsAre
  <2>2. FlattenSeq(TextsOf(ps.args)) \in Arguments
    BY <2>1, FlattenIs
  <2>3. \A x \in Arguments : x \o <<>> = x
    BY DEF Arguments
  <2> QED BY <2>2, <2>3 DEF TextOf
<1>6. Counted(ps).index = ps.index + 1
  BY <1>1, Zenon DEF IsCounted
<1> QED BY <1>1, <1>2, <1>3, <1>4, <1>5, <1>6, Zenon DEF Follows, Linked

LEMMA OneFollows ==
  ASSUME NEW ps, NEW r, NEW w, LinkedAt(ps, r, w), NEW arg \in Arguments,
         NEW p, NEW q, IsAdded(q, Counted(ps), p, arg), NEW x, Linked(q, x)
  PROVE  Follows(q, x, ps, arg)
<1>1. IsArgs(ps.args) /\ IsCounted(Counted(ps), ps) /\ TextOf(Counted(ps)) = TextOf(ps)
  BY LinkedArgs
<1>2. IsArgs(Counted(ps).args) /\ Counted(ps).index = ps.index + 1
  BY <1>1, Zenon DEF IsCounted
<1>3. TextOf(q) = TextOf(Counted(ps)) \o arg
  BY <1>2, AddedText
<1>4. q.index = Counted(ps).index
  BY Zenon DEF IsAdded
<1> QED BY <1>1, <1>2, <1>3, <1>4, Zenon DEF Follows

LEMMA WholeStep ==
  ASSUME NEW ps, NEW r, NEW w, LinkedAt(ps, r, w),
         NEW arg \in Arguments, arg # <<>>, NEW j \in WholeAt(arg)
  PROVE  Follows(ParseArgument(ps, arg), ReadArgument(r, arg), ps, arg)
<1>1. ParserOK(ps) /\ PosOK(ps.pos) /\ DOMAIN r = ReaderFields
  BY LinkedArgs
<1>2. IsOne(try_match(ps.pos, arg), arg, Place(j))
  BY <1>1, TryWhole DEF Arguments
<1>3. IsAdded(ParseArgument(ps, arg), Counted(ps), Place(j), arg)
  BY <1>1, <1>2, ParseOne
<1>4. LinkedAt(Counted(ps), r, w)
  BY CountStep
<1>5. ReadArgument(r, arg) = ReadFlag(r, Opt(j))
  BY ReadCases DEF Arguments
<1>6. j \in 1 .. 10
  BY Zenon DEF WholeAt
<1>7. ReadsFlag(ReadArgument(r, arg), r, j)
  BY <1>1, <1>5, <1>6, FlagIsRead
<1>8. Linked(ParseArgument(ps, arg), ReadArgument(r, arg))
  <2>1. PICK next : next = IF j \in Pairs THEN j ELSE 0
    OBVIOUS
  <2>2. LinkedAt(ParseArgument(ps, arg), ReadArgument(r, arg), next)
    BY <1>3, <1>4, <1>6, <1>7, <2>1, FlagStep DEF Arguments
  <2> QED BY <2>2, Zenon DEF Linked
<1> QED BY <1>3, <1>8, OneFollows

(* The parser waits for one value, or for none. *)
LEMMA IdleOrWaits ==
  ASSUME NEW t
  PROVE  /\ Idle(t) => \A i \in Pairs : ~WaitsFor(t, i)
         /\ \A i, j \in Pairs : WaitsFor(t, i) /\ WaitsFor(t, j) => ValuePlace(i) = ValuePlace(j)
<1>1. Idle(t) => Len(t.pos) = 1
  BY StopsAre, Zenon DEF Idle
<1>2. \A i \in Pairs : Len(ValuePlace(i)) = 2
  BY DEF ValuePlace
<1>3. \A i \in Pairs : WaitsFor(t, i) => Len(t.pos) = 2
  BY <1>2, Zenon DEF WaitsFor
<1>4. \A i, j \in Pairs : WaitsFor(t, i) /\ WaitsFor(t, j) => ValuePlace(i) = ValuePlace(j)
  BY Zenon DEF WaitsFor
<1> QED BY <1>1, <1>3, <1>4

LEMMA TextStep ==
  ASSUME NEW ps, NEW r, NEW w, LinkedAt(ps, r, w), NEW arg \in Arguments, arg # <<>>,
         WholeAt(arg) = {}, OpenAt(arg) \cap Pairs = {}
  PROVE  Follows(ParseArgument(ps, arg), ReadArgument(r, arg), ps, arg)
<1>1. ParserOK(ps) /\ PosOK(ps.pos) /\ DOMAIN r = ReaderFields
  BY LinkedArgs
<1>2. PICK p : IsTextPlace(ps.pos, p) /\ IsOne(try_match(ps.pos, arg), arg, p)
  BY <1>1, TryText DEF Arguments
<1>3. IsAdded(ParseArgument(ps, arg), Counted(ps), p, arg)
  BY <1>1, <1>2, ParseOne
<1>4. LinkedAt(Counted(ps), r, w)
  BY CountStep
<1>5. ReadArgument(r, arg) = ReadText(r, arg)
  BY ReadCases DEF Arguments
<1>6. w \in {0} \cup Pairs /\ Waits(ps, r, w)
  BY Zenon DEF LinkedAt
<1>7. CASE w = 0
  <2>1. Idle(ps.pos) /\ r.waits = <<>>
    BY <1>6, <1>7, Zenon DEF Waits
  <2>2. p = Other
    BY <1>2, <2>1, IdleOrWaits, Zenon DEF IsTextPlace
  <2>3. ReadsWrong(ReadArgument(r, arg), r, arg)
    BY <1>1, <1>5, <2>1, WrongIsRead
  <2>4. LinkedAt(Counted(ps), r, 0)
    BY <1>4, <1>7
  <2>5. LinkedAt(ParseArgument(ps, arg), ReadArgument(r, arg), 0)
    BY <1>3, <2>2, <2>3, <2>4, WrongStep DEF Arguments
  <2>6. Linked(ParseArgument(ps, arg), ReadArgument(r, arg))
    BY <2>5, Zenon DEF Linked
  <2> QED BY <1>3, <2>6, OneFollows
<1>8. ASSUME NEW i \in Pairs, w = i
      PROVE  Follows(ParseArgument(ps, arg), ReadArgument(r, arg), ps, arg)
  <2>1. WaitsFor(ps.pos, i) /\ r.waits = <<Opt(i)>>
    BY <1>6, <1>8, Zenon DEF Waits
  <2>2. p = ValuePlace(i)
    BY <1>2, <2>1, IdleOrWaits, Zenon DEF IsTextPlace, WaitsFor
  <2>3. ReadsValue(ReadArgument(r, arg), r, i, arg)
    BY <1>1, <1>5, <2>1, ValueIsRead
  <2>4. LinkedAt(Counted(ps), r, i)
    BY <1>4, <1>8
  <2>5. LinkedAt(ParseArgument(ps, arg), ReadArgument(r, arg), 0)
    BY <1>3, <2>2, <2>3, <2>4, ValueStep DEF Arguments
  <2>6. Linked(ParseArgument(ps, arg), ReadArgument(r, arg))
    BY <2>5, Zenon DEF Linked
  <2> QED BY <1>3, <2>6, OneFollows
<1> QED BY <1>6, <1>7, <1>8

IsSplit(u, v, arg) ==
  u \in Arguments /\ u # <<>> /\ v \in Arguments /\ v # <<>> /\ u \o v = arg

LEMMA Splits ==
  ASSUME NEW arg \in Arguments, NEW n \in 1 .. Len(arg) - 1
  PROVE  IsSplit(SubSeq(arg, 1, n), SubSeq(arg, n + 1, Len(arg)), arg)
<1>1. Len(arg) \in Nat
  BY DEF Arguments
<1>2. n \in 0 .. Len(arg) /\ n # 0 /\ Len(arg) - n # 0
  BY <1>1
<1>3. /\ SubSeq(arg, 1, n) \in Arguments /\ Len(SubSeq(arg, 1, n)) = n
      /\ SubSeq(arg, n + 1, Len(arg)) \in Arguments
      /\ Len(SubSeq(arg, n + 1, Len(arg))) = Len(arg) - n
      /\ SubSeq(arg, 1, n) \o SubSeq(arg, n + 1, Len(arg)) = arg
  <2>1. SubSeq(arg, 1, n) \in Arguments /\ Len(SubSeq(arg, 1, n)) = n
    BY <1>2 DEF Arguments
  <2>2. /\ SubSeq(arg, n + 1, Len(arg)) \in Arguments
        /\ Len(SubSeq(arg, n + 1, Len(arg))) = Len(arg) - n
    BY <1>2 DEF Arguments
  <2>3. SubSeq(arg, 1, n) \o SubSeq(arg, n + 1, Len(arg)) = arg
    BY <1>2, Parts DEF Arguments
  <2> QED BY <2>1, <2>2, <2>3
<1>4. SubSeq(arg, 1, n) # <<>> /\ SubSeq(arg, n + 1, Len(arg)) # <<>>
  BY <1>2, <1>3
<1> QED BY <1>3, <1>4 DEF IsSplit

LEMMA JoinedStep ==
  ASSUME NEW ps, NEW r, NEW w, LinkedAt(ps, r, w), NEW arg \in Arguments, arg # <<>>,
         WholeAt(arg) = {}, NEW i \in OpenAt(arg), i \in Pairs
  PROVE  Follows(ParseArgument(ps, arg), ReadArgument(r, arg), ps, arg)
<1>1. ParserOK(ps) /\ PosOK(ps.pos) /\ DOMAIN r = ReaderFields
  BY LinkedArgs
<1>2. IsTwo(try_match(ps.pos, arg), arg, i)
  BY <1>1, TryJoined DEF Arguments
<1>3. PICK n : n = match(Place(i), arg)
  OBVIOUS
<1>4. PICK c : c = Counted(ps)
  OBVIOUS
<1>5. PICK d : d = ParseArgument(ps, arg)
  OBVIOUS
<1>6. PICK u : u = SubSeq(arg, 1, n)
  OBVIOUS
<1>7. PICK v : v = SubSeq(arg, n + 1, Len(arg))
  OBVIOUS
<1>8. PICK q : IsAdded(q, c, Place(i), u) /\ IsAdded(d, q, ValuePlace(i), v)
  <2>1. \E q : /\ IsAdded(q, Counted(ps), Place(i), SubSeq(arg, 1, n))
               /\ IsAdded(ParseArgument(ps, arg), q, ValuePlace(i), SubSeq(arg, n + 1, Len(arg)))
    BY <1>1, <1>2, <1>3, ParseTwo
  <2> QED BY <1>4, <1>5, <1>6, <1>7, <2>1, Zenon
<1>9. u \in Arguments /\ u # <<>> /\ v \in Arguments /\ v # <<>> /\ u \o v = arg
  <2>1. n \in 1 .. Len(arg) - 1
    BY <1>3, OnlyAPart DEF Arguments
  <2>2. IsSplit(SubSeq(arg, 1, n), SubSeq(arg, n + 1, Len(arg)), arg)
    BY <2>1, Splits
  <2>3. IsSplit(u, v, arg)
    BY <1>6, <1>7, <2>2
  <2> QED BY <2>3, Zenon DEF IsSplit
<1>10. LinkedAt(c, r, w)
  BY <1>4, CountStep
<1>11. PICK x : x = ReadFlag(r, Opt(i))
  OBVIOUS
<1>12. PICK y : y = ReadText(x, v)
  OBVIOUS
<1>13. ReadArgument(r, arg) = y
  <2>1. arg \in Seq(STRING) /\ i \in OpenAt(arg) \cap Pairs
    BY DEF Arguments
  <2>2. \A m : m = match(Place(i), arg) =>
          ReadArgument(r, arg) = ReadText(ReadFlag(r, Opt(i)), SubSeq(arg, m + 1, Len(arg)))
    BY <2>1, ReadCases, Zenon
  <2> QED BY <1>3, <1>7, <1>11, <1>12, <2>2, Zenon
<1>14. i \in 1 .. 10
  BY DEF Pairs
<1>15. ReadsFlag(x, r, i)
  BY <1>1, <1>11, <1>14, FlagIsRead
<1>16. LinkedAt(q, x, i)
  <2>1. PICK next : next = IF i \in Pairs THEN i ELSE 0
    OBVIOUS
  <2>2. u \in Seq(STRING) /\ u # <<>>
    BY <1>9 DEF Arguments
  <2>3. LinkedAt(q, x, next)
    BY <1>8, <1>10, <1>14, <1>15, <2>1, <2>2, FlagStep
  <2> QED BY <2>1, <2>3
<1>17. DOMAIN x = ReaderFields /\ x.waits = <<Opt(i)>>
  BY <1>15, Zenon DEF ReadsFlag
<1>18. ReadsValue(y, x, i, v)
  BY <1>12, <1>17, ValueIsRead
<1>19. LinkedAt(d, y, 0)
  <2>1. v \in Seq(STRING) /\ v # <<>>
    BY <1>9 DEF Arguments
  <2> QED BY <1>8, <1>16, <1>18, <2>1, ValueStep
<1>20. IsArgs(ps.args) /\ IsCounted(c, ps) /\ TextOf(c) = TextOf(ps)
  BY <1>4, LinkedArgs
<1>21. IsArgs(c.args) /\ c.index = ps.index + 1
  BY <1>20, Zenon DEF IsCounted
<1>22. IsArgs(q.args)
  BY <1>16, LinkedArgs
<1>23. TextOf(q) = TextOf(c) \o u /\ TextOf(d) = TextOf(q) \o v
  BY <1>8, <1>9, <1>21, <1>22, AddedText
<1>24. TextOf(d) = TextOf(ps) \o arg
  <2>1. TextOf(ps) \in Arguments
    <3>1. TextsOf(ps.args) \in Seq(Arguments)
      BY <1>20, TextsAre
    <3> QED BY <3>1, FlattenIs DEF TextOf
  <2>2. Shares(TextOf(ps), u, TextOf(ps) \o u, v)
    BY <1>9, <2>1, SharedText
  <2> QED BY <1>9, <1>20, <1>23, <2>2 DEF Shares
<1>25. d.index = ps.index + 1
  BY <1>8, <1>21, Zenon DEF IsAdded
<1>26. Linked(d, y)
  BY <1>19, Zenon DEF Linked
<1> QED BY <1>5, <1>13, <1>24, <1>25, <1>26, Zenon DEF Follows

LEMMA ArgumentStep ==
  ASSUME NEW ps, NEW r, Linked(ps, r), NEW arg \in Arguments
  PROVE  Follows(ParseArgument(ps, arg), ReadArgument(r, arg), ps, arg)
<1>1. PICK w : LinkedAt(ps, r, w)
  BY Zenon DEF Linked
<1>2. CASE arg = <<>>
  BY <1>1, <1>2, NothingStep
<1>3. CASE arg # <<>> /\ WholeAt(arg) # {}
  BY <1>1, <1>3, WholeStep
<1>4. CASE arg # <<>> /\ WholeAt(arg) = {} /\ OpenAt(arg) \cap Pairs # {}
  BY <1>1, <1>4, JoinedStep
<1>5. CASE arg # <<>> /\ WholeAt(arg) = {} /\ OpenAt(arg) \cap Pairs = {}
  BY <1>1, <1>5, TextStep
<1> QED BY <1>2, <1>3, <1>4, <1>5

-----------------------------------------------------------------------------
(***************************************************************************)
(* The parser and the reader begin together.                               *)
(***************************************************************************)
LEMMA NoOptionsAre ==
  /\ NoOptions["wrong"] = <<>> /\ NoOptions["mac_filter"] = <<>> /\ NoOptions["ip_filter"] = <<>>
  /\ \A t \in (Names \ Texts) \ {"wrong"} : NoOptions[t] = FALSE
  /\ NoOptions = [t \in Names |-> NoOptions[t]]
<1>1. NoOptions["wrong"] = <<>> /\ NoOptions["mac_filter"] = <<>> /\ NoOptions["ip_filter"] = <<>>
  BY Zenon DEF NoOptions
<1>2. /\ NoOptions["daemonize"] = FALSE /\ NoOptions["en_logging"] = FALSE
      /\ NoOptions["en_dns"] = FALSE /\ NoOptions["en_mac_filter"] = FALSE
      /\ NoOptions["en_ip_filter"] = FALSE /\ NoOptions["dump_payloads"] = FALSE
      /\ NoOptions["print_version"] = FALSE /\ NoOptions["show_help"] = FALSE
      /\ NoOptions["show_ifs"] = FALSE
  BY Zenon DEF NoOptions
<1>3. ASSUME NEW t \in (Names \ Texts) \ {"wrong"}
      PROVE  NoOptions[t] = FALSE
  <2>1. t \in {"daemonize", "en_logging", "en_dns", "en_mac_filter", "en_ip_filter",
               "dump_payloads", "print_version", "show_help", "show_ifs"}
    BY DEF Names, Texts
  <2> QED BY <1>2, <2>1, Zenon
<1>4. NoOptions = [t \in Names |-> NoOptions[t]]
  <2>1. NoOptions = [t \in DOMAIN NoOptions |-> NoOptions[t]]
    BY Zenon DEF NoOptions
  <2> QED BY <2>1, NamesAre, Zenon
<1> QED BY <1>1, <1>3, <1>4, Zenon

LEMMA NothingFields ==
  /\ DOMAIN NothingRead = ReaderFields
  /\ NothingRead.options = <<>> /\ NothingRead.values = <<>> /\ NothingRead.wrong = <<>>
  /\ NothingRead.waits = <<>> /\ ~NothingRead.unfinished
<1>1. DOMAIN NothingRead = ReaderFields
  BY DEF NothingRead, ReaderFields
<1>2. /\ NothingRead.options = <<>> /\ NothingRead.values = <<>> /\ NothingRead.wrong = <<>>
      /\ NothingRead.waits = <<>>
  BY Zenon DEF NothingRead
<1>3. ~NothingRead.unfinished
  BY Zenon DEF NothingRead
<1> QED BY <1>1, <1>2, <1>3

LEMMA NothingMeans == Means(NothingRead) = NoOptions
<1>1. DOMAIN <<>> = {}
  OBVIOUS
<1>2. \A t : Given(NothingRead.values, t) = {}
  BY <1>1, NothingFields, Zenon DEF Given
<1>3. \A t : HasOption(NothingRead.options, t) = FALSE
  <2>1. \A t : ~HasOption(NothingRead.options, t)
    BY <1>1, NothingFields, Zenon DEF HasOption
  <2>2. \A t : HasOption(NothingRead.options, t) \in BOOLEAN
    BY HasOptionIs
  <2> QED BY <2>1, <2>2, Zenon
<1>4. ASSUME NEW t \in Names PROVE Meaning(NothingRead, t) = NoOptions[t]
  <2>1. CASE t = "wrong"
    BY <2>1, NothingFields, NoOptionsAre, Zenon DEF Meaning
  <2>2. CASE t # "wrong" /\ t \in Texts
    BY <1>2, <2>2, Zenon DEF Meaning
  <2>3. CASE t # "wrong" /\ t \notin Texts
    <3>1. Meaning(NothingRead, t) = HasOption(NothingRead.options, t)
      BY <1>2, <2>3, Zenon DEF Meaning
    <3>2. NoOptions[t] = FALSE
      BY <2>3, NoOptionsAre
    <3> QED BY <1>3, <3>1, <3>2, Zenon
  <2> QED BY <2>1, <2>2, <2>3
<1>5. Means(NothingRead) = [t \in Names |-> Meaning(NothingRead, t)]
  BY MeansIs
<1>6. [t \in Names |-> Meaning(NothingRead, t)] = [t \in Names |-> NoOptions[t]]
  BY <1>4, Zenon
<1> QED BY <1>5, <1>6, NoOptionsAre, Zenon

LEMMA ParserFields ==
  ASSUME NEW index
  PROVE  /\ DOMAIN parser(index) = {"pos", "index", "args", "miss", "blocked"}
         /\ parser(index).pos = scoped_dfs_traverser /\ parser(index).args = <<>>
         /\ parser(index).miss = {} /\ ~parser(index).blocked /\ parser(index).index = index
BY MissesFirst, Zenon DEF parser

LEMMA FirstPosition == PosOK(scoped_dfs_traverser) /\ Idle(scoped_dfs_traverser)
<1> PICK t : t = scoped_dfs_traverser
  OBVIOUS
<1>1. /\ t.pos = <<1>> /\ t.after = <<>> /\ t.scopes = <<>> /\ ~t.ignore
  BY Zenon DEF scoped_dfs_traverser
<1>2. t \in Traverser
  <2>1. <<1>> \in Position /\ <<>> \in Position
    BY StopsAre DEF Stops, Position
  <2>2. <<>> \in Seq(Positions)
    OBVIOUS
  <2> QED BY <2>1, <2>2 DEF scoped_dfs_traverser, Traverser
<1>3. t.scopes \in Seq(Stops)
  BY <1>1
<1>4. <<1>> \in Stops
  BY DEF Stops
<1>5. Idle(t)
  BY <1>1, <1>4, Zenon DEF Idle
<1> QED BY <1>1, <1>2, <1>3, <1>5, Zenon DEF PosOK

LEMMA FirstLink ==
  ASSUME NEW zero, zero = 0
  PROVE  LinkedAt(parser(zero), NothingRead, 0)
<1> PICK ps, r : ps = parser(zero) /\ r = NothingRead
  OBVIOUS
<1>1. /\ DOMAIN ps = {"pos", "index", "args", "miss", "blocked"}
      /\ ps.pos = scoped_dfs_traverser /\ ps.args = <<>>
      /\ ps.miss = {} /\ ~ps.blocked
  BY ParserFields
<1>2. /\ DOMAIN r = ReaderFields /\ r.options = <<>> /\ r.values = <<>> /\ r.wrong = <<>>
      /\ r.waits = <<>> /\ ~r.unfinished
  BY NothingFields
<1>3. <<>> \in Seq({}) /\ DOMAIN <<>> = {}
  OBVIOUS
<1>4. PosOK(ps.pos) /\ Idle(ps.pos)
  BY <1>1, FirstPosition
<1>5. ParserOK(ps)
  <2>1. \E S : ps.args \in Seq(S)
    BY <1>1, <1>3
  <2>2. ps.miss \in SUBSET AllMisses
    BY <1>1
  <2>3. DOMAIN ps.args = {}
    BY <1>1, <1>3
  <2> QED BY <1>1, <1>4, <2>1, <2>2, <2>3, Zenon DEF ParserOK
<1>6. ToSet(<<>>) = {}
  BY <1>3, Zenon DEF ToSet
<1>7. ReaderOK(r)
  BY <1>2, <1>3, <1>6, Zenon DEF ReaderOK
<1>8. Waits(ps, r, 0)
  <2>1. 0 \notin Pairs
    BY DEF Pairs
  <2> QED BY <1>2, <1>4, <2>1, Zenon DEF Waits
<1>9. SeenFlags(ps.args) = {} /\ SeenValues(ps.args) = {}
  BY <1>1, <1>3, Zenon DEF SeenFlags, SeenValues, Seen
<1>10. \A t : Given(r.values, t) = {}
  BY <1>2, <1>3, Zenon DEF Given
<1>11. SameSeen(ps, r)
  BY <1>2, <1>6, <1>9, <1>10, Zenon DEF SameSeen
<1>12. ~Repeats(ps.args)
  BY <1>1, <1>3, Zenon DEF Repeats
<1>13. IsInjective(r.options)
  BY <1>2, <1>3, Zenon DEF IsInjective
<1>14. execute_actions(ps, NoOptions) = Means(r)
  <2>1. execute_actions(ps, NoOptions) = ActionSteps!Fold(NoOptions, <<>>)
    BY <1>1, ActionFold
  <2>2. ActionSteps!Fold(NoOptions, <<>>) = NoOptions
    BY ActionSteps!Empty
  <2> QED BY <2>1, <2>2, NothingMeans
<1>15. Missing(ps.miss) = {}
  BY <1>1, Zenon DEF Missing
<1>16. MissOK(SeenFlags(ps.args), SeenValues(ps.args), Missing(ps.miss), 0,
              r.unfinished, IsInjective(r.options))
  <2>1. 0 \notin Pairs
    BY DEF Pairs
  <2> QED BY <1>2, <1>9, <1>15, <2>1, Zenon DEF MissOK
<1>17. 0 \in {0} \cup Pairs
  OBVIOUS
<1>18. LinkedAt(ps, r, 0)
  BY <1>5, <1>7, <1>8, <1>11, <1>12, <1>13, <1>14, <1>16, <1>17, Zenon DEF LinkedAt
<1> QED BY <1>18

-----------------------------------------------------------------------------
(***************************************************************************)
(* The end of the command line.                                            *)
(***************************************************************************)
LEMMA SameErrors ==
  ASSUME NEW ps, NEW r, Linked(ps, r)
  PROVE  any_error(ps) <=> IsBad(r)
<1>1. PICK w : LinkedAt(ps, r, w)
  BY Zenon DEF Linked
<1>2. /\ ParserOK(ps) /\ w \in {0} \cup Pairs /\ Waits(ps, r, w)
      /\ (Repeats(ps.args) <=> ~IsInjective(r.options))
      /\ MissOK(SeenFlags(ps.args), SeenValues(ps.args), Missing(ps.miss), w,
                r.unfinished, IsInjective(r.options))
  BY <1>1, Zenon DEF LinkedAt
<1>3. \A k \in DOMAIN ps.args : ArgumentError(ps.args[k]) <=> bad_repeat(ps.args[k])
  BY <1>2, Zenon DEF ParserOK, IsArg, ArgumentError
<1>4. (\E k \in DOMAIN ps.args : ArgumentError(ps.args[k])) <=> Repeats(ps.args)
  BY <1>3, Zenon DEF Repeats
<1>5. ps.miss = {} <=> Missing(ps.miss) = {}
  <2>1. ps.miss \in SUBSET AllMisses
    BY <1>2, Zenon DEF ParserOK
  <2> QED BY <2>1 DEF AllMisses, Missing
<1>6. w = 0 => r.waits = <<>> /\ w \notin Pairs
  BY <1>2 DEF Waits, Pairs
<1>7. w \in Pairs => r.waits # <<>>
  <2>1. \A x : <<x>> # <<>>
    OBVIOUS
  <2> QED BY <1>2, <2>1, Zenon DEF Waits
<1>8. w = 0 \/ w \in Pairs
  BY <1>2
<1>9. any_error(ps) <=> Missing(ps.miss) # {} \/ ~IsInjective(r.options)
  BY <1>2, <1>4, <1>5, Zenon DEF any_error
<1>10. ASSUME IsInjective(r.options)
       PROVE  Missing(ps.miss) # {} <=> r.unfinished \/ r.waits # <<>>
  <2>1. Missing(ps.miss) # {} => r.unfinished \/ w \in Pairs
    BY <1>2, Zenon DEF MissOK
  <2>2. r.unfinished => Missing(ps.miss) # {}
    BY <1>2, <1>10, Zenon DEF MissOK
  <2>3. w \in Pairs => Missing(ps.miss) # {}
    BY <1>2, Zenon DEF MissOK
  <2> QED BY <1>6, <1>7, <1>8, <2>1, <2>2, <2>3, Zenon
<1> QED BY <1>9, <1>10, Zenon DEF IsBad

(***************************************************************************)
(* A filter is asked for when its text is there.                           *)
(***************************************************************************)
LEMMA FilterOption ==
  ASSUME NEW r, ReaderOK(r), NEW i \in {5, 6}
  PROVE  Means(r)[FlagTarget(i)] = HasOption(r.options, FlagTarget(i))
<1>1. i \in (1 .. 10) \ {1}
  OBVIOUS
<1>2. PICK t : t = FlagTarget(i)
  OBVIOUS
<1>3. t \in Names /\ t \notin Texts /\ t # "wrong"
  BY <1>1, <1>2, TargetsAre
<1>4. Given(r.values, t) = {}
  <2>1. \A k \in DOMAIN r.values : r.values[k].target \in Texts
    <3>1. \A k \in DOMAIN r.values : IsValueOf(r.values[k])
      BY Zenon DEF ReaderOK, ToSet
    <3>2. \A k \in DOMAIN r.values : \E l \in Pairs : r.values[k].target = ValueTarget(l)
      BY <3>1, Zenon DEF IsValueOf
    <3>3. \A l \in Pairs : ValueTarget(l) \in Texts
      BY TargetsAre
    <3> QED BY <3>2, <3>3, Zenon
  <2> QED BY <1>3, <2>1, Zenon DEF Given
<1>5. Means(r)[t] = Meaning(r, t)
  BY <1>3, MeansIs, Zenon
<1>6. Meaning(r, t) = HasOption(r.options, t)
  BY <1>3, <1>4, Zenon DEF Meaning
<1> QED BY <1>2, <1>5, <1>6, Zenon

LEMMA FilterFlag ==
  ASSUME NEW r, ReaderOK(r), NEW i \in {5, 6}
  PROVE  HasOption(r.options, FlagTarget(i)) <=> Opt(i) \in ToSet(r.options)
<1>1. i \in 1 .. 10
  OBVIOUS
<1>2. ASSUME NEW j \in 1 .. 10, FlagTarget(j) = FlagTarget(i) PROVE j = i
  <2>1. /\ FlagTarget(1) = "" /\ FlagTarget(2) = "daemonize" /\ FlagTarget(3) = "en_logging"
        /\ FlagTarget(4) = "en_dns" /\ FlagTarget(5) = "en_mac_filter"
        /\ FlagTarget(6) = "en_ip_filter" /\ FlagTarget(7) = "dump_payloads"
        /\ FlagTarget(8) = "print_version" /\ FlagTarget(9) = "show_help"
        /\ FlagTarget(10) = "show_ifs"
    BY DEF FlagTarget
  <2>2. \/ j = 1 \/ j = 2 \/ j = 3 \/ j = 4 \/ j = 5 \/ j = 6
        \/ j = 7 \/ j = 8 \/ j = 9 \/ j = 10
    OBVIOUS
  <2>3. i = 5 \/ i = 6
    OBVIOUS
  <2> QED BY <1>2, <2>1, <2>2, <2>3
<1>3. \A p \in ToSet(r.options) : \E j \in 1 .. 10 : p = Opt(j) /\ OptionAt(p).target = FlagTarget(j)
  <2> SUFFICES ASSUME NEW p \in ToSet(r.options)
               PROVE  \E j \in 1 .. 10 : p = Opt(j) /\ OptionAt(p).target = FlagTarget(j)
    OBVIOUS
  <2>1. PICK j \in 1 .. 10 : p = Opt(j)
    BY Zenon DEF ReaderOK, Opts
  <2> QED BY <2>1, OptIs
<1>4. OptionAt(Opt(i)).target = FlagTarget(i)
  BY <1>1, OptIs
<1>5. ASSUME NEW p \in ToSet(r.options), OptionAt(p).target = FlagTarget(i)
      PROVE  p = Opt(i)
  <2>1. PICK j \in 1 .. 10 : p = Opt(j) /\ OptionAt(p).target = FlagTarget(j)
    BY <1>3
  <2>2. j = i
    BY <1>2, <1>5, <2>1
  <2> QED BY <2>1, <2>2
<1>6. HasOption(r.options, FlagTarget(i))
      <=> \E p \in ToSet(r.options) : OptionAt(p).target = FlagTarget(i)
  BY HasOptionIs
<1> QED BY <1>4, <1>5, <1>6, Zenon

LEMMA FilterText ==
  ASSUME NEW r, ReaderOK(r), NEW i \in {5, 6}
  PROVE  Means(r)[ValueTarget(i)] # <<>> <=> Given(r.values, ValueTarget(i)) # {}
<1>1. PICK t : t = ValueTarget(i)
  OBVIOUS
<1>2. t \in {"mac_filter", "ip_filter"} /\ t \in Names /\ t \in Texts /\ t # "wrong"
  BY <1>1 DEF ValueTarget, Names, Texts
<1>3. Means(r)[t] = Meaning(r, t)
  BY <1>2, MeansIs, Zenon
<1>4. CASE Given(r.values, t) = {}
  <2>1. Meaning(r, t) = NoOptions[t]
    BY <1>2, <1>4, Zenon DEF Meaning
  <2>2. NoOptions[t] = <<>>
    BY <1>2, NoOptionsAre
  <2> QED BY <1>1, <1>3, <1>4, <2>1, <2>2
<1>5. CASE Given(r.values, t) # {}
  <2>1. PICK S : r.values \in Seq(S)
    BY Zenon DEF ReaderOK
  <2>2. Given(r.values, t) \in SUBSET (1 .. Len(r.values))
    BY <2>1 DEF Given
  <2>3. Min(Given(r.values, t)) \in Given(r.values, t)
    <3>1. Len(r.values) \in Nat
      BY <2>1
    <3> QED BY <1>5, <2>2, <3>1, MinOf
  <2>4. IsValueOf(r.values[Min(Given(r.values, t))])
    BY <2>3, Zenon DEF Given, ReaderOK, ToSet
  <2>5. Meaning(r, t) = r.values[Min(Given(r.values, t))].text
    BY <1>2, <1>5, Zenon DEF Meaning, FirstText
  <2> QED BY <1>1, <1>3, <1>5, <2>4, <2>5, Zenon DEF IsValueOf
<1> QED BY <1>4, <1>5

LEMMA FilterAsked ==
  ASSUME NEW ps, NEW r, Linked(ps, r), ~IsBad(r), NEW i \in {5, 6}
  PROVE  /\ Means(r)[FlagTarget(i)] \in BOOLEAN
         /\ Means(r)[FlagTarget(i)] <=> Means(r)[ValueTarget(i)] # <<>>
<1>1. PICK w : LinkedAt(ps, r, w)
  BY Zenon DEF Linked
<1>2. /\ ReaderOK(r) /\ w \in {0} \cup Pairs /\ Waits(ps, r, w) /\ SameSeen(ps, r)
      /\ MissOK(SeenFlags(ps.args), SeenValues(ps.args), Missing(ps.miss), w,
                r.unfinished, IsInjective(r.options))
  BY <1>1, Zenon DEF LinkedAt
<1>3. i \in Pairs /\ i \in 1 .. 10
  BY DEF Pairs
<1>4. ~r.unfinished /\ r.waits = <<>>
  BY Zenon DEF IsBad
<1>5. w \notin Pairs
  <2>1. \A x : <<x>> # <<>>
    OBVIOUS
  <2> QED BY <1>2, <1>4, <2>1, Zenon DEF Waits
<1>6. Missing(ps.miss) = {}
  BY <1>2, <1>4, <1>5, Zenon DEF MissOK
<1>7. i \in SeenFlags(ps.args) <=> i \in SeenValues(ps.args)
  <2>1. i \in SeenFlags(ps.args) => i \in SeenFlags(ps.args) \cap Pairs
    BY <1>3
  <2>2. i \in SeenFlags(ps.args) \cap Pairs => i \in Missing(ps.miss) \/ i \in SeenValues(ps.args)
    BY <1>2, Zenon DEF MissOK
  <2>3. i \in SeenValues(ps.args) => i \in SeenFlags(ps.args)
    BY <1>2, Zenon DEF MissOK
  <2> QED BY <1>6, <2>1, <2>2, <2>3
<1>8. /\ Opt(i) \in ToSet(r.options) <=> i \in SeenFlags(ps.args)
      /\ Given(r.values, ValueTarget(i)) # {} <=> i \in SeenValues(ps.args)
  BY <1>2, <1>3, Zenon DEF SameSeen
<1>9. HasOption(r.options, FlagTarget(i)) <=> Opt(i) \in ToSet(r.options)
  BY <1>2, FilterFlag
<1>10. Means(r)[ValueTarget(i)] # <<>> <=> Given(r.values, ValueTarget(i)) # {}
  BY <1>2, FilterText
<1>11. Means(r)[FlagTarget(i)] = HasOption(r.options, FlagTarget(i))
  BY <1>2, FilterOption
<1>12. HasOption(r.options, FlagTarget(i)) \in BOOLEAN
  BY HasOptionIs
<1> QED BY <1>7, <1>8, <1>9, <1>10, <1>11, <1>12, Zenon

LEMMA FilterIs ==
  ASSUME NEW a \in BOOLEAN, NEW type, NEW x, a <=> x # <<>>
  PROVE  \/ a /\ Filter(a, type, x) = <<[type |-> type, param |-> x]>>
            /\ Filters(type, x) = {[type |-> type, param |-> x]}
         \/ ~a /\ Filter(a, type, x) = <<>> /\ Filters(type, x) = {}
BY Zenon DEF Filter, Filters

LEMMA TwoTogether ==
  ASSUME NEW e, NEW f
  PROVE  <<e>> \o <<f>> = <<e, f>>
<1>1. PICK S : e \in S /\ f \in S
  <2>1. e \in {e, f} /\ f \in {e, f}
    OBVIOUS
  <2> QED BY <2>1
<1>2. <<e>> \in Seq(S) /\ <<f>> \in Seq(S) /\ <<e, f>> \in Seq(S)
  BY <1>1
<1>3. PICK u \in Seq(S), v \in Seq(S) : u = <<e>> /\ v = <<f>>
  BY <1>2
<1>4. Len(u) = 1 /\ Len(v) = 1 /\ u[1] = e /\ v[1] = f
  BY <1>3
<1>5. PICK w \in Seq(S) : w = u \o v
  BY ConcatProperties
<1>6. Len(w) = 2 /\ w[1] = e /\ w[2] = f
  <2>1. /\ Len(u \o v) = Len(u) + Len(v)
        /\ \A k \in 1 .. Len(u) + Len(v) : (u \o v)[k] = IF k <= Len(u) THEN u[k] ELSE v[k - Len(u)]
    BY ConcatProperties
  <2>2. /\ Len(u \o v) = 2
        /\ \A k \in 1 .. 2 : (u \o v)[k] = IF k <= 1 THEN u[k] ELSE v[k - 1]
    BY <1>4, <2>1
  <2>3. (u \o v)[1] = u[1] /\ (u \o v)[2] = v[1]
    BY <2>2
  <2> QED BY <1>4, <1>5, <2>2, <2>3
<1>7. PICK x \in Seq(S) : x = <<e, f>>
  BY <1>2
<1>8. Len(x) = 2 /\ x[1] = e /\ x[2] = f
  BY <1>7
<1>9. \A k \in 1 .. 2 : w[k] = x[k]
  BY <1>6, <1>8
<1>10. w = x
  BY <1>6, <1>8, <1>9, SeqEqual
<1> QED BY <1>3, <1>5, <1>7, <1>10

LEMMA TwoFilters ==
  ASSUME NEW u, NEW v, NEW U, NEW V,
         \/ \E e : u = <<e>> /\ U = {e}
         \/ u = <<>> /\ U = {},
         \/ \E e : v = <<e>> /\ V = {e}
         \/ v = <<>> /\ V = {}
  PROVE  ToSet(u \o v) = U \cup V
<1>1. CASE u = <<>> /\ U = {} /\ v = <<>> /\ V = {}
  BY <1>1 DEF ToSet
<1>2. ASSUME NEW e, u = <<e>>, U = {e}, v = <<>>, V = {}
      PROVE  ToSet(u \o v) = U \cup V
  <2>1. u \o v = <<e>>
    BY <1>2
  <2> QED BY <1>2, <2>1 DEF ToSet
<1>3. ASSUME NEW e, u = <<>>, U = {}, v = <<e>>, V = {e}
      PROVE  ToSet(u \o v) = U \cup V
  <2>1. u \o v = <<e>>
    BY <1>3
  <2> QED BY <1>3, <2>1 DEF ToSet
<1>4. ASSUME NEW e, NEW f, u = <<e>>, U = {e}, v = <<f>>, V = {f}
      PROVE  ToSet(u \o v) = U \cup V
  <2>1. u \o v = <<e, f>>
    BY <1>4, TwoTogether, Zenon
  <2> QED BY <1>4, <2>1 DEF ToSet
<1> QED BY <1>1, <1>2, <1>3, <1>4

FilterList(o) ==
  Filter(o.en_mac_filter, "FILTER_MAC_T", o.mac_filter)
  \o Filter(o.en_ip_filter, "FILTER_IP_T", o.ip_filter)

LEMMA FiltersAsked ==
  ASSUME NEW ps, NEW r, Linked(ps, r), ~IsBad(r), NEW o, o = Means(r)
  PROVE  ToSet(FilterList(o)) = Filters("FILTER_MAC_T", o.mac_filter)
                                \cup Filters("FILTER_IP_T", o.ip_filter)
<1>1. /\ FlagTarget(5) = "en_mac_filter" /\ FlagTarget(6) = "en_ip_filter"
      /\ ValueTarget(5) = "mac_filter" /\ ValueTarget(6) = "ip_filter"
  BY DEF FlagTarget, ValueTarget
<1>2. /\ Means(r)[FlagTarget(5)] \in BOOLEAN
      /\ Means(r)[FlagTarget(5)] <=> Means(r)[ValueTarget(5)] # <<>>
  BY FilterAsked
<1>3. /\ Means(r)[FlagTarget(6)] \in BOOLEAN
      /\ Means(r)[FlagTarget(6)] <=> Means(r)[ValueTarget(6)] # <<>>
  BY FilterAsked
<1>4. PICK a : a = o.en_mac_filter
  OBVIOUS
<1>5. PICK b : b = o.en_ip_filter
  OBVIOUS
<1>6. a \in BOOLEAN /\ (a <=> o.mac_filter # <<>>)
  BY <1>1, <1>2, <1>4, Zenon
<1>7. b \in BOOLEAN /\ (b <=> o.ip_filter # <<>>)
  BY <1>1, <1>3, <1>5, Zenon
<1>8. \/ \E e : /\ Filter(a, "FILTER_MAC_T", o.mac_filter) = <<e>>
                /\ Filters("FILTER_MAC_T", o.mac_filter) = {e}
      \/ /\ Filter(a, "FILTER_MAC_T", o.mac_filter) = <<>>
         /\ Filters("FILTER_MAC_T", o.mac_filter) = {}
  BY <1>6, FilterIs, ZenonT(40)
<1>9. \/ \E e : /\ Filter(b, "FILTER_IP_T", o.ip_filter) = <<e>>
                /\ Filters("FILTER_IP_T", o.ip_filter) = {e}
      \/ /\ Filter(b, "FILTER_IP_T", o.ip_filter) = <<>>
         /\ Filters("FILTER_IP_T", o.ip_filter) = {}
  BY <1>7, FilterIs, ZenonT(40)
<1>10. ToSet(Filter(a, "FILTER_MAC_T", o.mac_filter) \o Filter(b, "FILTER_IP_T", o.ip_filter))
       = Filters("FILTER_MAC_T", o.mac_filter) \cup Filters("FILTER_IP_T", o.ip_filter)
  BY <1>8, <1>9, TwoFilters
<1> QED BY <1>4, <1>5, <1>10, Zenon DEF FilterList

-----------------------------------------------------------------------------
(***************************************************************************)
(* What the reader has read of the first k arguments.                      *)
(***************************************************************************)
ReadTo(a, k) == FoldLeft(ReadArgument, NothingRead, SubSeq(a, 1, k))

ReadSteps == INSTANCE Recursion WITH Op <- ReadArgument

LEMMA ReadToFold ==
  ASSUME NEW a, NEW k
  PROVE  ReadTo(a, k) = ReadSteps!Fold(NothingRead, SubSeq(a, 1, k))
BY Zenon DEF ReadTo, FoldLeft, ReadSteps!Fold, ReadSteps!FoldLeft, MapThenFoldSet,
   ReadSteps!MapThenFoldSet, Max, ReadSteps!Max

LEMMA ReadToIs ==
  ASSUME NEW a \in Seq(Arguments), NEW n \in Nat, n = Len(a)
  PROVE  /\ ReadTo(a, 0) = NothingRead
         /\ ReadTo(a, n) = FoldLeft(ReadArgument, NothingRead, a)
         /\ \A k \in 0 .. n - 1 : ReadTo(a, k + 1) = ReadArgument(ReadTo(a, k), a[k + 1])
<1>1. ReadTo(a, 0) = NothingRead
  <2>1. SubSeq(a, 1, 0) = <<>>
    BY FirstAre
  <2> QED BY <2>1, ReadToFold, ReadSteps!Empty
<1>2. ReadTo(a, n) = FoldLeft(ReadArgument, NothingRead, a)
  <2>1. SubSeq(a, 1, n) = a
    BY FirstAre
  <2> QED BY <2>1, Zenon DEF ReadTo
<1>3. ASSUME NEW k \in 0 .. n - 1
      PROVE  ReadTo(a, k + 1) = ReadArgument(ReadTo(a, k), a[k + 1])
  <2>1. k \in 0 .. n
    OBVIOUS
  <2>2. /\ SubSeq(a, 1, k) \in Seq(Arguments) /\ a[k + 1] \in Arguments
        /\ SubSeq(a, 1, k + 1) = Append(SubSeq(a, 1, k), a[k + 1])
    BY <2>1, FirstAre
  <2>3. ReadSteps!Fold(NothingRead, Append(SubSeq(a, 1, k), a[k + 1]))
        = ReadArgument(ReadSteps!Fold(NothingRead, SubSeq(a, 1, k)), a[k + 1])
    BY <2>2, ReadSteps!Unroll
  <2>4. /\ ReadTo(a, k + 1) = ReadSteps!Fold(NothingRead, SubSeq(a, 1, k + 1))
        /\ ReadTo(a, k) = ReadSteps!Fold(NothingRead, SubSeq(a, 1, k))
    BY ReadToFold
  <2> QED BY <2>2, <2>3, <2>4
<1> QED BY <1>1, <1>2, <1>3

-----------------------------------------------------------------------------
(***************************************************************************)
(* main(): the parser has read the first arguments as the reader has, the  *)
(* arguments have the text of argv, and every stage knows what the ones    *)
(* before it have found.                                                   *)
(***************************************************************************)
Parsing ==
  /\ args \in Seq(Arguments) /\ (args # <<>> => IsSanitized(args, argv))
  /\ parse.index \in 0 .. Len(args)
  /\ Linked(parse, ReadTo(args, parse.index))
  /\ TextOf(parse) = Row(args, parse.index)

Verdicts == {"unknown arguments", "help", "version", "interfaces", "filters"}

ArgsReading == FoldLeft(ReadArgument, NothingRead, args)

IsRead == root /\ args # <<>> /\ parse.index = Len(args)
Untouched == options = NoOptions /\ flist = <<>> /\ dissect = <<>>
Accepted  == ~IsBad(ArgsReading) /\ Means(ArgsReading).wrong = <<>>

(* The arguments of dissect(). *)
Call == [iface |-> options.iface, flist |-> flist, en_dns |-> options.en_dns,
         dump_payloads |-> options.dump_payloads]

Beginning == pc \in {"start", "must be root"} /\ args = <<>> /\ Untouched
Alone     == pc = "help" /\ argv = <<>> /\ Untouched
Reads     == pc = "parse" /\ root /\ args # <<>> /\ Untouched
Decided   == /\ pc \in Verdicts /\ IsRead /\ flist = <<>> /\ dissect = <<>>
             /\ options = Means(ArgsReading) /\ pc = Verdict(Means(ArgsReading), IsBad(ArgsReading))
Filtered  == /\ pc = "interface" /\ IsRead /\ Accepted /\ dissect = <<>>
             /\ options = Means(ArgsReading) /\ flist = FilterList(Means(ArgsReading))
Chosen    == /\ pc = "dissect" /\ IsRead /\ Accepted /\ dissect = <<>>
             /\ DOMAIN options = Names /\ flist = FilterList(Means(ArgsReading))
             /\ IsAskedFor(Call, Means(ArgsReading))
Refused   == /\ pc = "invalid interface" /\ IsRead /\ dissect = <<>>
             /\ DOMAIN options = Names /\ flist = FilterList(Means(ArgsReading))
Captures  == /\ pc = "capture" /\ IsRead /\ Accepted
             /\ DOMAIN options = Names /\ flist = FilterList(Means(ArgsReading))
             /\ \E d : dissect = <<d>> /\ IsAskedFor(d, Means(ArgsReading))

Stage == \/ Beginning \/ Alone \/ Reads \/ Decided
         \/ Filtered \/ Chosen \/ Refused \/ Captures

StartupInv == argv \in Seq(Arguments) /\ argv \in Commands /\ root \in BOOLEAN /\ Parsing /\ Stage

LEMMA StartupInit == Init => StartupInv
<1> SUFFICES ASSUME Init PROVE StartupInv
  OBVIOUS
<1>1. /\ root \in BOOLEAN /\ argv \in Commands /\ pc = "start" /\ args = <<>>
      /\ parse = parser(0) /\ options = NoOptions /\ flist = <<>> /\ dissect = <<>>
  BY Zenon DEF Init
<1>2. argv \in Seq(Arguments)
  BY <1>1, CommandsAssumption DEF Arguments
<1>3. <<>> \in Seq(Arguments) /\ Len(<<>>) = 0 /\ 0 \in 0 .. 0 /\ DOMAIN <<>> = {}
  OBVIOUS
<1>4. parse.index = 0 /\ parse.args = <<>>
  BY <1>1, ParserFields, Zenon
<1>5. ReadTo(args, 0) = NothingRead /\ Row(args, 0) = <<>>
  BY <1>1, <1>3, ReadToIs, RowIs
<1>6. Linked(parse, NothingRead)
  <2>1. PICK zero : zero = 0
    OBVIOUS
  <2>2. LinkedAt(parser(zero), NothingRead, 0)
    BY <2>1, FirstLink
  <2> QED BY <1>1, <2>1, <2>2, Zenon DEF Linked
<1>7. TextOf(parse) = <<>>
  <2>1. TextsOf(<<>>) = <<>>
    BY <1>3 DEF TextsOf
  <2>2. FlattenSeq(<<>>) = <<>>
    BY <1>3, FlattenIs
  <2> QED BY <1>4, <2>1, <2>2 DEF TextOf
<1>8. Parsing
  BY <1>1, <1>3, <1>4, <1>5, <1>6, <1>7 DEF Parsing
<1>9. Beginning
  BY <1>1, Zenon DEF Beginning, Untouched
<1> QED BY <1>1, <1>2, <1>8, <1>9, Zenon DEF StartupInv, Stage

(* What a step leaves alone stays as it is. *)
LEMMA ParsingStays ==
  ASSUME Parsing, UNCHANGED <<argv, args, parse>>
  PROVE  Parsing'
BY DEF Parsing, TextOf, ReadTo, Row

LEMMA ReadingStays ==
  ASSUME UNCHANGED args
  PROVE  ArgsReading' = ArgsReading
BY DEF ArgsReading

LEMMA BeginStep ==
  ASSUME StartupInv, Begin
  PROVE  StartupInv'
<1>1. /\ pc = "start" /\ pc' = (IF ~root THEN "must be root" ELSE IF argv = <<>> THEN "help" ELSE "parse")
      /\ args' = (IF pc' = "parse" THEN sanitize_args(argv) ELSE args)
      /\ UNCHANGED <<root, argv, parse, options, flist, dissect>>
  BY DEF Begin
<1>2. argv \in Seq(Arguments) /\ argv \in Commands /\ root \in BOOLEAN /\ Parsing /\ Stage
  BY Zenon DEF StartupInv
<1>3. args = <<>> /\ Untouched
  BY <1>1, <1>2 DEF Stage, Beginning, Alone, Reads, Decided, Filtered, Chosen, Refused,
     Captures, Verdicts
<1>4. parse.index = 0
  BY <1>2, <1>3 DEF Parsing
<1>5. IsSanitized(sanitize_args(argv), argv)
  BY <1>2, Sanitized
<1>6. args' = <<>> \/ IsSanitized(args', argv')
  BY <1>1, <1>3, <1>5
<1>7. args' \in Seq(Arguments)
  BY <1>1, <1>2, <1>5 DEF IsMoved, IsSanitized, Parsing
<1>8. ReadTo(args', 0) = ReadTo(args, 0) /\ Row(args', 0) = Row(args, 0)
  <2>1. Len(args') \in Nat /\ Len(args) \in Nat /\ args \in Seq(Arguments)
    BY <1>2, <1>7 DEF Parsing
  <2>2. ReadTo(args', 0) = NothingRead /\ ReadTo(args, 0) = NothingRead
    BY <1>7, <2>1, ReadToIs
  <2>3. Row(args', 0) = <<>> /\ Row(args, 0) = <<>>
    BY <1>7, <2>1, RowIs
  <2> QED BY <2>2, <2>3
<1>9. Parsing'
  <2>1. parse' = parse /\ parse'.index = 0 /\ TextOf(parse') = TextOf(parse)
    BY <1>1, <1>4
  <2>2. Linked(parse', ReadTo(args', parse'.index)) /\ TextOf(parse') = Row(args', parse'.index)
    BY <1>2, <1>4, <1>8, <2>1 DEF Parsing
  <2>3. 0 \in 0 .. Len(args')
    BY <1>7
  <2> QED BY <1>6, <1>7, <2>1, <2>2, <2>3 DEF Parsing, TextOf, Row, ReadTo
<1>10. Untouched'
  BY <1>1, <1>3 DEF Untouched
<1>11. Stage'
  <2>1. CASE ~root
    BY <1>1, <1>3, <1>10, <2>1 DEF Stage, Beginning
  <2>2. CASE root /\ argv = <<>>
    BY <1>1, <1>10, <2>2 DEF Stage, Alone
  <2>3. CASE root /\ argv # <<>>
    <3>1. args' = sanitize_args(argv) /\ Len(args') = Len(argv)
      BY <1>1, <1>5, <2>3 DEF IsSanitized, IsMoved
    <3>2. args' # <<>>
      <4>1. Len(argv) # 0
        BY <1>2, <2>3
      <4> QED BY <3>1, <4>1
    <3> QED BY <1>1, <1>10, <2>3, <3>2 DEF Stage, Reads
  <2> QED BY <2>1, <2>2, <2>3
<1> QED BY <1>1, <1>2, <1>9, <1>11 DEF StartupInv

LEMMA ParseStep ==
  ASSUME StartupInv, ParseNext
  PROVE  StartupInv'
<1>1. /\ pc = "parse" /\ ~IsParsed
      /\ parse' = ParseArgument(parse, args[parse.index + 1])
      /\ UNCHANGED <<root, argv, pc, args, options, flist, dissect>>
  BY Zenon DEF ParseNext
<1>2. argv \in Seq(Arguments) /\ argv \in Commands /\ root \in BOOLEAN /\ Parsing /\ Stage
  BY Zenon DEF StartupInv
<1>3. /\ args \in Seq(Arguments) /\ (args # <<>> => IsSanitized(args, argv))
      /\ parse.index \in 0 .. Len(args) /\ Linked(parse, ReadTo(args, parse.index))
      /\ TextOf(parse) = Row(args, parse.index)
  BY <1>2, Zenon DEF Parsing
<1>4. PICK n \in Nat : n = Len(args)
  BY <1>3
<1>5. PICK k \in Nat : k = parse.index
  BY <1>3, <1>4
<1>6. k \in 0 .. n - 1 /\ k + 1 \in 1 .. n
  <2>1. k # n
    BY <1>1, <1>4, <1>5 DEF IsParsed
  <2> QED BY <1>3, <1>4, <1>5, <2>1
<1>7. args[k + 1] \in Arguments
  BY <1>3, <1>4, <1>6
<1>8. Follows(ParseArgument(parse, args[k + 1]), ReadArgument(ReadTo(args, k), args[k + 1]),
              parse, args[k + 1])
  BY <1>3, <1>5, <1>7, ArgumentStep
<1>9. ReadTo(args, k + 1) = ReadArgument(ReadTo(args, k), args[k + 1])
  BY <1>3, <1>4, <1>6, ReadToIs
<1>10. Row(args, k + 1) = Row(args, k) \o args[k + 1]
  BY <1>3, <1>4, <1>6, RowIs
<1>11. Follows(parse', ReadTo(args, k + 1), parse, args[k + 1])
  BY <1>1, <1>5, <1>8, <1>9
<1>12. /\ Linked(parse', ReadTo(args, k + 1)) /\ parse'.index = k + 1
       /\ TextOf(parse') = Row(args, k + 1)
  BY <1>3, <1>5, <1>10, <1>11 DEF Follows
<1>13. Parsing'
  <2>1. args' = args /\ argv' = argv
    BY <1>1
  <2>2. k + 1 \in 0 .. Len(args)
    BY <1>4, <1>6
  <2>3. /\ args' \in Seq(Arguments) /\ (args' # <<>> => IsSanitized(args', argv'))
        /\ parse'.index \in 0 .. Len(args')
        /\ Linked(parse', ReadTo(args', parse'.index))
        /\ TextOf(parse') = Row(args', parse'.index)
    BY <1>3, <1>12, <2>1, <2>2
  <2> QED BY <2>3 DEF Parsing, TextOf, Row, ReadTo
<1>14. Stage'
  <2>1. Reads
    BY <1>1, <1>2 DEF Stage, Beginning, Alone, Reads, Decided, Filtered, Chosen, Refused,
       Captures, Verdicts
  <2>2. Reads'
    BY <1>1, <2>1 DEF Reads, Untouched
  <2> QED BY <2>2, Zenon DEF Stage
<1> QED BY <1>1, <1>2, <1>13, <1>14 DEF StartupInv

(* At the end all arguments are read. *)
LEMMA AllIsRead ==
  ASSUME Parsing, IsParsed
  PROVE  parse.index = Len(args) /\ ReadTo(args, parse.index) = ArgsReading
<1>1. /\ args \in Seq(Arguments) /\ parse.index \in 0 .. Len(args)
      /\ Linked(parse, ReadTo(args, parse.index))
  BY Zenon DEF Parsing
<1>2. valid(parse)
  <2>1. PosOK(parse.pos)
    BY <1>1, LinkedArgs DEF Linked
  <2> QED BY <2>1, PlaceOfOK, Zenon DEF valid
<1>3. parse.index = Len(args)
  BY <1>2, Zenon DEF IsParsed
<1>4. Len(args) \in Nat
  BY <1>1
<1>5. ReadTo(args, Len(args)) = FoldLeft(ReadArgument, NothingRead, args)
  BY <1>1, <1>4, ReadToIs
<1> QED BY <1>3, <1>5 DEF ArgsReading

LEMMA ReadingLinked ==
  ASSUME Parsing, parse.index = Len(args)
  PROVE  Linked(parse, ArgsReading)
<1>1. IsParsed
  BY Zenon DEF IsParsed
<1>2. ReadTo(args, parse.index) = ArgsReading
  BY <1>1, AllIsRead
<1> QED BY <1>2, Zenon DEF Parsing

LEMMA ExecuteStep ==
  ASSUME StartupInv, Execute
  PROVE  StartupInv'
<1>1. /\ pc = "parse" /\ IsParsed /\ options' = execute_actions(parse, options)
      /\ pc' = Verdict(options', any_error(parse))
      /\ UNCHANGED <<root, argv, args, parse, flist, dissect>>
  BY Zenon DEF Execute
<1>2. argv \in Seq(Arguments) /\ argv \in Commands /\ root \in BOOLEAN /\ Parsing /\ Stage
  BY Zenon DEF StartupInv
<1>3. Reads
  BY <1>1, <1>2 DEF Stage, Beginning, Alone, Reads, Decided, Filtered, Chosen, Refused,
     Captures, Verdicts
<1>4. parse.index = Len(args) /\ Linked(parse, ArgsReading)
  BY <1>1, <1>2, AllIsRead, ReadingLinked
<1>5. any_error(parse) <=> IsBad(ArgsReading)
  BY <1>4, SameErrors
<1>6. options' = Means(ArgsReading)
  <2>1. PICK w : LinkedAt(parse, ArgsReading, w)
    BY <1>4, Zenon DEF Linked
  <2>2. execute_actions(parse, NoOptions) = Means(ArgsReading)
    BY <2>1, Zenon DEF LinkedAt
  <2>3. options = NoOptions
    BY <1>3, Zenon DEF Reads, Untouched
  <2> QED BY <1>1, <2>2, <2>3
<1>7. ArgsReading' = ArgsReading
  BY <1>1, ReadingStays
<1>8. pc' = Verdict(Means(ArgsReading), IsBad(ArgsReading))
  <2>1. Verdict(Means(ArgsReading), any_error(parse)) = Verdict(Means(ArgsReading), IsBad(ArgsReading))
    BY <1>5, Zenon DEF Verdict
  <2> QED BY <1>1, <1>6, <2>1
<1>9. pc' \in Verdicts
  BY <1>8 DEF Verdict, Verdicts
<1>10. IsRead' /\ flist' = <<>> /\ dissect' = <<>>
  BY <1>1, <1>3, <1>4 DEF IsRead, Reads, Untouched
<1>11. Decided'
  BY <1>6, <1>7, <1>8, <1>9, <1>10 DEF Decided
<1>12. Parsing'
  BY <1>1, <1>2, ParsingStays
<1> QED BY <1>1, <1>2, <1>11, <1>12 DEF StartupInv, Stage

LEMMA FilterStep ==
  ASSUME StartupInv, MakeFilters
  PROVE  StartupInv'
<1>1. /\ pc = "filters" /\ flist' = FilterList(options) /\ pc' = "interface"
      /\ UNCHANGED <<root, argv, args, parse, options, dissect>>
  BY Zenon DEF MakeFilters, FilterList
<1>2. argv \in Seq(Arguments) /\ argv \in Commands /\ root \in BOOLEAN /\ Parsing /\ Stage
  BY Zenon DEF StartupInv
<1>3. Decided
  BY <1>1, <1>2 DEF Stage, Beginning, Alone, Reads, Decided, Filtered, Chosen, Refused,
     Captures, Verdicts
<1>4. Accepted
  <2>1. Verdict(Means(ArgsReading), IsBad(ArgsReading)) = "filters"
    BY <1>1, <1>3, Zenon DEF Decided
  <2> QED BY <2>1 DEF Verdict, Accepted
<1>5. ArgsReading' = ArgsReading
  BY <1>1, ReadingStays
<1>6. Filtered'
  BY <1>1, <1>3, <1>4, <1>5 DEF Decided, Filtered, Accepted, IsRead
<1>7. Parsing'
  BY <1>1, <1>2, ParsingStays
<1> QED BY <1>1, <1>2, <1>6, <1>7 DEF StartupInv, Stage

LEMMA MeansDomain ==
  ASSUME NEW r
  PROVE  DOMAIN Means(r) = Names
BY MeansIs, Zenon

LEMMA ChooseStep ==
  ASSUME StartupInv, ChooseInterface
  PROVE  StartupInv'
<1>1. /\ pc = "interface"
      /\ options' = IF AnyInterface(options.iface)
                    THEN [options EXCEPT !.iface = <<"any">>] ELSE options
      /\ pc' = IF AnyInterface(options.iface) \/ validate_iface(options.iface)
               THEN "dissect" ELSE "invalid interface"
      /\ UNCHANGED <<root, argv, args, parse, flist, dissect>>
  BY Zenon DEF ChooseInterface
<1>2. argv \in Seq(Arguments) /\ argv \in Commands /\ root \in BOOLEAN /\ Parsing /\ Stage
  BY Zenon DEF StartupInv
<1>3. Filtered
  BY <1>1, <1>2 DEF Stage, Beginning, Alone, Reads, Decided, Filtered, Chosen, Refused,
     Captures, Verdicts
<1>4. ArgsReading' = ArgsReading
  BY <1>1, ReadingStays
<1>5. Parsing'
  BY <1>1, <1>2, ParsingStays
<1>6. PICK o : o = Means(ArgsReading)
  OBVIOUS
<1>7. /\ options = o /\ flist = FilterList(o) /\ IsRead /\ dissect = <<>>
      /\ ~IsBad(ArgsReading) /\ o.wrong = <<>> /\ DOMAIN o = Names
  BY <1>3, <1>6, MeansDomain, Zenon DEF Filtered, Accepted
<1>8. DOMAIN options' = Names
  <2>1. DOMAIN [options EXCEPT !.iface = <<"any">>] = DOMAIN options
    OBVIOUS
  <2> QED BY <1>1, <1>7, <2>1
<1>9. /\ options'.en_dns = o.en_dns /\ options'.dump_payloads = o.dump_payloads
      /\ AnyInterface(o.iface) => options'.iface = <<"any">>
      /\ ~AnyInterface(o.iface) => options'.iface = o.iface
  <2>1. "iface" \in DOMAIN options /\ "en_dns" # "iface" /\ "dump_payloads" # "iface"
    BY <1>7 DEF Names
  <2>2. "en_dns" \in DOMAIN options /\ "dump_payloads" \in DOMAIN options
    BY <1>7 DEF Names
  <2>3. PICK e : e = [options EXCEPT !.iface = <<"any">>]
    OBVIOUS
  <2>4. e.iface = <<"any">> /\ e.en_dns = options.en_dns /\ e.dump_payloads = options.dump_payloads
    BY <2>1, <2>2, <2>3, Zenon
  <2> QED BY <1>1, <1>7, <2>3, <2>4, Zenon
<1>10. /\ Call'.iface = options'.iface /\ Call'.flist = flist'
       /\ Call'.en_dns = options'.en_dns /\ Call'.dump_payloads = options'.dump_payloads
  BY Zenon DEF Call
<1>11. ToSet(flist') = Filters("FILTER_MAC_T", o.mac_filter) \cup Filters("FILTER_IP_T", o.ip_filter)
  <2>1. Linked(parse, ArgsReading)
    BY <1>2, <1>7, ReadingLinked DEF IsRead
  <2>2. ToSet(FilterList(o)) = Filters("FILTER_MAC_T", o.mac_filter)
                               \cup Filters("FILTER_IP_T", o.ip_filter)
    BY <1>6, <1>7, <2>1, FiltersAsked
  <2>3. flist' = FilterList(o)
    BY <1>1, <1>7
  <2> QED BY <2>2, <2>3
<1>12. ASSUME pc' = "dissect" PROVE IsAskedFor(Call', o)
  <2>1. AnyInterface(o.iface) \/ (~AnyInterface(o.iface) /\ validate_iface(o.iface))
    BY <1>1, <1>7, <1>12
  <2>2. \/ Call'.iface = o.iface /\ o.iface \in Interfaces
        \/ Call'.iface = <<"any">> /\ o.iface \in PartsOfAny
    BY <1>9, <1>10, <2>1, Zenon DEF AnyInterface, validate_iface, valid_name
  <2>4. ~IsMistakenForAny(o.iface) =>
          Call'.iface = o.iface /\ o.iface \in Interfaces \cup {<<"any">>}
    <3>1. PICK any : any = <<"any">>
      OBVIOUS
    <3>2. o.iface \in PartsOfAny /\ o.iface # any => IsMistakenForAny(o.iface)
      BY <3>1 DEF IsMistakenForAny
    <3> QED BY <2>2, <3>1, <3>2
  <2>3. ToSet(Call'.flist) = Filters("FILTER_MAC_T", o.mac_filter)
                             \cup Filters("FILTER_IP_T", o.ip_filter)
    BY <1>10, <1>11
  <2> QED BY <1>7, <1>9, <1>10, <2>3, <2>4, Zenon DEF IsAskedFor
<1>13. IsRead' /\ Accepted' /\ dissect' = <<>> /\ flist' = FilterList(Means(ArgsReading'))
  BY <1>1, <1>4, <1>6, <1>7 DEF IsRead, Accepted
<1>14. CASE pc' = "dissect"
  <2>1. IsAskedFor(Call, Means(ArgsReading))'
    BY <1>4, <1>6, <1>12, <1>14
  <2>2. Chosen'
    BY <1>8, <1>13, <1>14, <2>1 DEF Chosen
  <2> QED BY <1>1, <1>2, <1>5, <2>2 DEF StartupInv, Stage
<1>15. CASE pc' = "invalid interface"
  <2>1. Refused'
    BY <1>8, <1>13, <1>15 DEF Refused
  <2> QED BY <1>1, <1>2, <1>5, <2>1 DEF StartupInv, Stage
<1> QED BY <1>1, <1>14, <1>15

LEMMA DissectStep ==
  ASSUME StartupInv, Dissect
  PROVE  StartupInv'
<1>1. /\ pc = "dissect" /\ dissect' = <<Call>> /\ pc' = "capture"
      /\ UNCHANGED <<root, argv, args, parse, options, flist>>
  BY Zenon DEF Dissect, Call
<1>2. argv \in Seq(Arguments) /\ argv \in Commands /\ root \in BOOLEAN /\ Parsing /\ Stage
  BY Zenon DEF StartupInv
<1>3. Chosen
  BY <1>1, <1>2 DEF Stage, Beginning, Alone, Reads, Decided, Filtered, Chosen, Refused,
     Captures, Verdicts
<1>4. ArgsReading' = ArgsReading
  BY <1>1, ReadingStays
<1>5. Parsing'
  BY <1>1, <1>2, ParsingStays
<1>6. IsRead' /\ Accepted' /\ DOMAIN options' = Names /\ flist' = FilterList(Means(ArgsReading'))
  BY <1>1, <1>3, <1>4 DEF Chosen, IsRead, Accepted
<1>7. \E d : dissect' = <<d>> /\ IsAskedFor(d, Means(ArgsReading'))
  BY <1>1, <1>3, <1>4 DEF Chosen
<1>8. Captures'
  BY <1>1, <1>6, <1>7 DEF Captures
<1> QED BY <1>1, <1>2, <1>5, <1>8 DEF StartupInv, Stage

LEMMA StartupStays ==
  ASSUME StartupInv, UNCHANGED vars
  PROVE  StartupInv'
<1>1. UNCHANGED <<root, argv, pc, args, parse, options, flist, dissect>>
  BY DEF vars
<1>2. Parsing'
  BY <1>1, ParsingStays DEF StartupInv
<1>3. ArgsReading' = ArgsReading
  BY <1>1, ReadingStays
<1>4. Stage'
  BY <1>1, <1>3 DEF StartupInv, Stage, Beginning, Alone, Reads, Decided, Filtered, Chosen,
     Refused, Captures, Untouched, IsRead, Accepted, Call
<1> QED BY <1>1, <1>2, <1>4 DEF StartupInv

(* Every step of main() keeps the invariant. *)
THEOREM StartupInvariant == Spec => []StartupInv
<1>1. Init => StartupInv
  BY StartupInit
<1>2. StartupInv /\ [Next]_vars => StartupInv'
  <2> SUFFICES ASSUME StartupInv, [Next]_vars PROVE StartupInv'
    OBVIOUS
  <2>1. CASE Begin
    BY <2>1, BeginStep
  <2>2. CASE ParseNext
    BY <2>2, ParseStep
  <2>3. CASE Execute
    BY <2>3, ExecuteStep
  <2>4. CASE MakeFilters
    BY <2>4, FilterStep
  <2>5. CASE ChooseInterface
    BY <2>5, ChooseStep
  <2>6. CASE Dissect
    BY <2>6, DissectStep
  <2>7. CASE HasEnded
    BY <2>7, StartupStays DEF HasEnded
  <2>8. CASE UNCHANGED vars
    BY <2>8, StartupStays
  <2> QED BY <2>1, <2>2, <2>3, <2>4, <2>5, <2>6, <2>7, <2>8 DEF Next
<1> QED BY <1>1, <1>2, PTL DEF Spec

LEMMA FilterListTypes ==
  ASSUME NEW o, NEW i \in DOMAIN FilterList(o)
  PROVE  FilterList(o)[i].type \in {"FILTER_MAC_T", "FILTER_IP_T"}
<1>1. PICK S : S = [type : {"FILTER_MAC_T", "FILTER_IP_T"}, param : {o.mac_filter, o.ip_filter}]
  OBVIOUS
<1>2. PICK a : a = Filter(o.en_mac_filter, "FILTER_MAC_T", o.mac_filter)
  OBVIOUS
<1>3. PICK b : b = Filter(o.en_ip_filter, "FILTER_IP_T", o.ip_filter)
  OBVIOUS
<1>4. a \in Seq(S) /\ b \in Seq(S)
  <2>1. [type |-> "FILTER_MAC_T", param |-> o.mac_filter] \in S
    BY <1>1
  <2>2. [type |-> "FILTER_IP_T", param |-> o.ip_filter] \in S
    BY <1>1
  <2>3. \A e \in S : <<e>> \in Seq(S)
    OBVIOUS
  <2>4. <<>> \in Seq(S)
    OBVIOUS
  <2>5. a \in Seq(S)
    BY <1>2, <2>1, <2>3, <2>4, Zenon DEF Filter
  <2>6. b \in Seq(S)
    BY <1>3, <2>2, <2>3, <2>4, Zenon DEF Filter
  <2> QED BY <2>5, <2>6
<1>5. PICK f \in Seq(S) : f = FilterList(o)
  BY <1>2, <1>3, <1>4, ConcatProperties DEF FilterList
<1>6. i \in DOMAIN f
  BY <1>5
<1>7. f[i] \in S
  BY <1>6
<1>8. \A e \in S : e.type \in {"FILTER_MAC_T", "FILTER_IP_T"}
  BY <1>1
<1> QED BY <1>5, <1>7, <1>8

(***************************************************************************)
(* The variables of main() have their types: the parser is somewhere in    *)
(* the interface, what it misses are required values, and its filters are  *)
(* the two there are.                                                      *)
(***************************************************************************)
THEOREM StartupTypes == Spec => []TypeOK
<1>1. StartupInv => TypeOK
  <2> SUFFICES ASSUME StartupInv PROVE TypeOK
    OBVIOUS
  <2>1. argv \in Commands /\ root \in BOOLEAN /\ Parsing /\ Stage
    BY Zenon DEF StartupInv
  <2>2. pc \in Ends \cup {"start", "parse", "filters", "interface", "dissect"}
    BY <2>1 DEF Stage, Beginning, Alone, Reads, Decided, Filtered, Chosen, Refused,
       Captures, Verdicts, Ends
  <2>3. parse.index \in 0 .. Len(args)
    BY <2>1, Zenon DEF Parsing
  <2>4. ParserOK(parse)
    BY <2>1, LinkedArgs DEF Parsing, Linked
  <2>5. parse.pos \in Traverser
    BY <2>4, Zenon DEF ParserOK, PosOK
  <2>6. \A p \in parse.miss : IsValue(p) /\ At(p).required
    <3>1. \A p \in parse.miss : \E i \in Pairs : p = ValuePlace(i)
      BY <2>4 DEF ParserOK, AllMisses
    <3>2. \A i \in Pairs : IsValueAt(ValuePlace(i), i)
      BY PairAt DEF ValuePlace
    <3> QED BY <3>1, <3>2, Zenon DEF IsValueAt
  <2>7. DOMAIN options = DOMAIN NoOptions
    <3>1. DOMAIN Means(ArgsReading) = Names
      BY MeansDomain
    <3>2. options = NoOptions \/ DOMAIN options = Names
      BY <2>1, <3>1 DEF Stage, Beginning, Alone, Reads, Decided, Filtered, Chosen, Refused,
         Captures, Untouched
    <3> QED BY <3>2, NamesAre
  <2>8. \A i \in DOMAIN flist : flist[i].type \in {"FILTER_MAC_T", "FILTER_IP_T"}
    <3>1. flist = <<>> \/ flist = FilterList(Means(ArgsReading))
      BY <2>1 DEF Stage, Beginning, Alone, Reads, Decided, Filtered, Chosen, Refused,
         Captures, Untouched
    <3>2. \A o : \A i \in DOMAIN FilterList(o) :
            FilterList(o)[i].type \in {"FILTER_MAC_T", "FILTER_IP_T"}
      BY FilterListTypes
    <3>3. flist = <<>> => DOMAIN flist = {}
      OBVIOUS
    <3> QED BY <3>1, <3>2, <3>3
  <2> QED BY <2>1, <2>2, <2>3, <2>5, <2>6, <2>7, <2>8 DEF TypeOK
<1> QED BY <1>1, StartupInvariant, PTL

(***************************************************************************)
(* Every argument that is not empty finds a parameter in reach: the parser *)
(* never passes the end of the interface and nothing ever blocks it.       *)
(***************************************************************************)
THEOREM ArgumentsAreInReach == Spec => []EveryArgumentIsInReach
<1>1. StartupInv => EveryArgumentIsInReach
  <2> SUFFICES ASSUME StartupInv PROVE EveryArgumentIsInReach
    OBVIOUS
  <2>1. ParserOK(parse)
    BY LinkedArgs DEF StartupInv, Parsing, Linked
  <2>2. valid(parse) /\ ~parse.blocked
    BY <2>1, PlaceOfOK, Zenon DEF ParserOK, valid
  <2>3. \A i \in DOMAIN parse.args : parse.args[i].param # <<>> /\ ~parse.args[i].blocked
    BY <2>1, Zenon DEF ParserOK, IsArg
  <2> QED BY <2>2, <2>3, Zenon DEF EveryArgumentIsInReach
<1> QED BY <1>1, StartupInvariant, PTL

(***************************************************************************)
(* The arguments have the text of argv after sanitize_args, and the        *)
(* matches of the parser have the text of the arguments it has read.       *)
(***************************************************************************)
THEOREM NoTextLost == Spec => []NoTextIsLost
<1>1. StartupInv => NoTextIsLost
  <2> SUFFICES ASSUME StartupInv, args # <<>> PROVE NoTextIsLost
    BY DEF NoTextIsLost
  <2>1. IsSanitized(args, argv) /\ TextOf(parse) = Row(args, parse.index)
    BY Zenon DEF StartupInv, Parsing
  <2> QED BY <2>1, Zenon DEF NoTextIsLost, IsSanitized, IsMoved, TextOf, TextsOf, Row
<1> QED BY <1>1, StartupInvariant, PTL

(* A command line that is not rewritten is read as it stands. *)
LEMMA ReadAsItStands ==
  ASSUME StartupInv, args # <<>>, ~IsRewritten(argv)
  PROVE  ArgsReading = Reading
<1>1. args = argv
  BY Zenon DEF StartupInv, Parsing, IsSanitized
<1> QED BY <1>1 DEF ArgsReading, Reading

(***************************************************************************)
(* The variables that the parser sets are those that a reader of the       *)
(* command line understands, and main() goes where they say, unless        *)
(* sanitize_args has moved digits between the arguments.                   *)
(***************************************************************************)
THEOREM CommandLineIsRead == Spec => []ReadsAsWritten
<1>1. StartupInv => ReadsAsWritten
  <2> SUFFICES ASSUME StartupInv, argv # <<>>, ~IsRewritten(argv),
                      pc \in {"unknown arguments", "help", "version", "interfaces", "filters"}
               PROVE  options = Means(Reading) /\ pc = Verdict(Means(Reading), IsBad(Reading))
    BY DEF ReadsAsWritten
  <2>1. Decided
    BY DEF StartupInv, Stage, Beginning, Alone, Reads, Decided, Filtered, Chosen, Refused,
       Captures
  <2>2. ArgsReading = Reading
    BY <2>1, ReadAsItStands DEF Decided, IsRead
  <2> QED BY <2>1, <2>2, Zenon DEF Decided
<1> QED BY <1>1, StartupInvariant, PTL

(***************************************************************************)
(* dissect() is called as root only, and, of a command line that was not   *)
(* rewritten, without an error and with the filters, the flags and the     *)
(* interface it asks for, unless that is mistaken for "any".               *)
(***************************************************************************)
THEOREM CapturesAsAsked == Spec => []CapturesWhatWasAskedFor
<1>1. StartupInv => CapturesWhatWasAskedFor
  <2> SUFFICES ASSUME StartupInv, dissect # <<>> PROVE CapturesWhatWasAskedFor
    BY DEF CapturesWhatWasAskedFor
  <2>1. Captures
    BY DEF StartupInv, Stage, Beginning, Alone, Reads, Decided, Filtered, Chosen, Refused,
       Captures, Untouched
  <2>2. PICK d : dissect = <<d>> /\ IsAskedFor(d, Means(ArgsReading))
    BY <2>1, Zenon DEF Captures
  <2>3. Head(dissect) = d
    BY <2>2
  <2>4. root /\ ~IsBad(ArgsReading)
    BY <2>1, Zenon DEF Captures, IsRead, Accepted
  <2>5. ~IsRewritten(argv) => ArgsReading = Reading
    BY <2>1, ReadAsItStands DEF Captures, IsRead
  <2> QED BY <2>2, <2>3, <2>4, <2>5 DEF CapturesWhatWasAskedFor
<1> QED BY <1>1, StartupInvariant, PTL

=============================================================================
