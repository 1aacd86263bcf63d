--------------------------- MODULE Streams_proofs ---------------------------
(***************************************************************************)
(* Proofs about the open and close notices, for every set of connections   *)
(* and every number of colours.                                            *)
(***************************************************************************)
EXTENDS Streams, TLAPS

(* The lemmas about the table, for the ids of the streams. *)
TableLemmas == INSTANCE ConnPairs_proofs WITH Hash <- Id

(***************************************************************************)
(* The inductive invariant.  The colour of a stream is the one its id has  *)
(* in the table only while the id is in the table, so ColourIsKept needs   *)
(* TableIsAccountedFor, and that a push does not give a colour away which  *)
(* is in use needs the invariant of the table.                             *)
(***************************************************************************)
IInv == TypeOK /\ TableLemmas!IInv /\ TableIsAccountedFor /\ ColourIsKept

-----------------------------------------------------------------------------
(* Table and TableLemmas are the same table. *)

LEMMA SameTable ==
  /\ Table!Color = TableLemmas!Color
  /\ \A h : Table!ColourOf(h) = TableLemmas!ColourOf(h)
  /\ Table!Init = TableLemmas!Init
  /\ Table!TypeOK = TableLemmas!TypeOK
<1>1. Table!Color = TableLemmas!Color
  BY DEF Table!Color, TableLemmas!Color
<1>2. \A h : Table!ColourOf(h) = TableLemmas!ColourOf(h)
  BY DEF Table!ColourOf, TableLemmas!ColourOf
<1>3. Table!Init = TableLemmas!Init
  BY <1>1 DEF Table!Init, TableLemmas!Init
<1>4. Table!TypeOK = TableLemmas!TypeOK
  BY <1>1 DEF Table!TypeOK, TableLemmas!TypeOK
<1> QED BY <1>1, <1>2, <1>3, <1>4

LEMMA SameColours == \A h : Table!ColourOf(h)' = TableLemmas!ColourOf(h)'
BY DEF Table!ColourOf, TableLemmas!ColourOf

LEMMA SamePush ==
  ASSUME NEW h, Table!push(h)
  PROVE  \/ TableLemmas!PushKnown(h)
         \/ TableLemmas!PushNew(h)
         \/ TableLemmas!PushFull(h)
<1>1. CASE Table!PushKnown(h)
  BY <1>1, SameTable
  DEF Table!PushKnown, TableLemmas!PushKnown, Table!Return, TableLemmas!Return
<1>2. CASE Table!PushNew(h)
  BY <1>2, SameTable
  DEF Table!PushNew, TableLemmas!PushNew, Table!Return, TableLemmas!Return,
      Table!IsFirstFree, TableLemmas!IsFirstFree
<1>3. CASE Table!PushFull(h)
  BY <1>3, SameTable
  DEF Table!PushFull, TableLemmas!PushFull, Table!Return, TableLemmas!Return,
      Table!PoolIsFull, TableLemmas!PoolIsFull
<1> QED BY <1>1, <1>2, <1>3 DEF Table!push

LEMMA SamePop ==
  ASSUME NEW h, Table!pop(h)
  PROVE  TableLemmas!PopKnown(h) \/ TableLemmas!PopUnknown(h)
BY SameTable
DEF Table!pop, Table!PopKnown, TableLemmas!PopKnown, Table!Return,
    Table!Free, TableLemmas!Free, Table!Erase, TableLemmas!Erase,
    TableLemmas!Return, Table!PopUnknown, TableLemmas!PopUnknown

(* What a stream needs to know of push and of pop. *)

LEMMA PushEffect ==
  ASSUME TableLemmas!IInv, NEW h \in Id, Table!push(h)
  PROVE  /\ TableLemmas!IInv'
         /\ cm' = cm \cup {h}
         /\ reply'.color = Table!ColourOf(h)'
         /\ \A g \in cm : Table!ColourOf(g)' = Table!ColourOf(g)
<1>1. CASE TableLemmas!PushKnown(h)
  <2>1. TableLemmas!IInv'
    BY <1>1, TableLemmas!PushKnownIInv, ColorAssumption
  <2> QED
    BY <1>1, <2>1, SameTable, SameColours
    DEF TableLemmas!PushKnown, TableLemmas!Return, TableLemmas!ColourOf
<1>2. CASE TableLemmas!PushNew(h)
  <2>1. TableLemmas!IInv'
    BY <1>2, TableLemmas!PushNewIInv, ColorAssumption
  <2>2. cm' = cm \cup {h} /\ reply'.color = TableLemmas!ColourOf(h)'
    BY <1>2
    DEF TableLemmas!PushNew, TableLemmas!Return, TableLemmas!ColourOf
  <2>3. \A g \in cm : TableLemmas!ColourOf(g)' = TableLemmas!ColourOf(g)
    BY <1>2, TableLemmas!PushNewColours, ColorAssumption
  <2> QED BY <2>1, <2>2, <2>3, SameTable, SameColours
<1>3. CASE TableLemmas!PushFull(h)
  <2>1. TableLemmas!IInv'
    BY <1>3, TableLemmas!PushFullIInv, ColorAssumption
  <2>2. h \notin DOMAIN colmp
    BY <1>3 DEF TableLemmas!PushFull, TableLemmas!IInv, TableLemmas!TypeOK
  <2> QED
    BY <1>3, <2>1, <2>2, SameTable, SameColours
    DEF TableLemmas!PushFull, TableLemmas!Return, TableLemmas!ColourOf
<1> QED BY <1>1, <1>2, <1>3, SamePush

LEMMA PopEffect ==
  ASSUME TableLemmas!IInv, NEW h \in Id, Table!pop(h)
  PROVE  /\ TableLemmas!IInv'
         /\ cm' = cm \ {h}
         /\ h \in cm => reply' = [color |-> Table!ColourOf(h), error |-> FALSE]
         /\ \A g \in cm' : Table!ColourOf(g)' = Table!ColourOf(g)
<1>1. CASE TableLemmas!PopKnown(h)
  <2>1. TableLemmas!IInv'
    BY <1>1, TableLemmas!PopKnownIInv, ColorAssumption
  <2>2. \A g \in cm' : TableLemmas!ColourOf(g)' = TableLemmas!ColourOf(g)
    BY <1>1, TableLemmas!PopKnownColours, ColorAssumption
  <2> QED
    BY <1>1, <2>1, <2>2, SameTable, SameColours
    DEF TableLemmas!PopKnown, TableLemmas!Return
<1>2. CASE TableLemmas!PopUnknown(h)
  <2>1. TableLemmas!IInv'
    BY <1>2, TableLemmas!PopUnknownIInv, ColorAssumption
  <2> QED
    BY <1>2, <2>1, SameTable, SameColours
    DEF TableLemmas!PopUnknown, TableLemmas!ColourOf
<1> QED BY <1>1, <1>2, SamePop

-----------------------------------------------------------------------------
LEMMA IdOfType == \A s \in Stream : IdOf(s) \in Id
BY DEF Id

LEMMA FlipTwice == \A s \in Stream : Flip(Flip(s)) = s
<1> TAKE s \in Stream
<1>1. Flip(s).client = s.server /\ Flip(s).server = s.client
  BY DEF Flip
<1>2. Flip(Flip(s)) = [client |-> s.client, server |-> s.server]
  BY <1>1 DEF Flip
<1>3. CASE s \in Connection
  BY <1>2, <1>3, ConnectionAssumption
<1>4. CASE s \in {Flip(r) : r \in Connection}
  <2>1. PICK r \in Connection : s = [client |-> r.server, server |-> r.client]
    BY <1>4 DEF Flip
  <2>2. s.client = r.server /\ s.server = r.client
    BY <2>1
  <2> QED BY <1>2, <2>1, <2>2
<1> QED BY <1>3, <1>4 DEF Stream

LEMMA TableTypes ==
  ASSUME TableLemmas!IInv
  PROVE  /\ Table!TypeOK
         /\ reply.color \in Color
         /\ \A h : Table!ColourOf(h) \in Color
<1>1. TableLemmas!TypeOK
  BY DEF TableLemmas!IInv
<1>2. \A h : TableLemmas!ColourOf(h) \in TableLemmas!Color
  BY <1>1, TableLemmas!ColourOfType, ColorAssumption
<1>3. reply.color \in TableLemmas!Color
  BY <1>1 DEF TableLemmas!TypeOK
<1> QED BY <1>1, <1>2, <1>3, SameTable DEF Color

LEMMA TableTypesNext ==
  ASSUME TableLemmas!IInv'
  PROVE  Table!TypeOK' /\ reply'.color \in Color
<1>1. TableLemmas!TypeOK'
  BY DEF TableLemmas!IInv
<1>2. Table!TypeOK'
  BY <1>1 DEF Table!TypeOK, TableLemmas!TypeOK, Table!Color, TableLemmas!Color
<1>3. reply'.color \in Color
  BY <1>2 DEF Table!TypeOK, Color
<1> QED BY <1>2, <1>3

LEMMA InitIInv == Init => IInv
<1> SUFFICES ASSUME Init PROVE IInv
  OBVIOUS
<1>1. TableLemmas!IInv
  BY SameTable, TableLemmas!InitIInv, ColorAssumption DEF Init
<1>2. TypeOK
  BY <1>1, TableTypes DEF Init, TypeOK, NoticeType
<1>3. TableIsAccountedFor /\ ColourIsKept
  BY DEF Init, TableIsAccountedFor, ColourIsKept, Table!Init
<1> QED BY <1>1, <1>2, <1>3 DEF IInv

LEMMA OpenIInv ==
  ASSUME IInv, NEW s \in Stream, on_new_connection(s) PROVE IInv'
<1>1. /\ TableLemmas!IInv'
      /\ cm' = cm \cup {IdOf(s)}
      /\ reply'.color = Table!ColourOf(IdOf(s))'
      /\ \A g \in cm : Table!ColourOf(g)' = Table!ColourOf(g)
  BY PushEffect, IdOfType DEF IInv, on_new_connection, addRmStream
<1>2. TypeOK'
  <2>1. Table!TypeOK' /\ reply'.color \in Color
    BY <1>1, TableTypesNext
  <2>2. \A t \in streams' : Flip(t) \in streams' => Flip(t) = t
    BY FlipTwice DEF on_new_connection, addRmStream, IInv, TypeOK
  <2>3. painted' \in [streams' -> Color] /\ notice' \in NoticeType
    BY <2>1 DEF on_new_connection, addRmStream, IInv, TypeOK, NoticeType
  <2> QED BY <2>1, <2>2, <2>3
    DEF on_new_connection, addRmStream, IInv, TypeOK, Color
<1>3. TableIsAccountedFor'
  BY <1>1 DEF on_new_connection, addRmStream, IInv, TypeOK, TableIsAccountedFor
<1>4. ColourIsKept'
  BY <1>1
  DEF on_new_connection, addRmStream, IInv, TypeOK, TableIsAccountedFor, ColourIsKept
<1> QED BY <1>1, <1>2, <1>3, <1>4 DEF IInv

LEMMA CloseIInv ==
  ASSUME IInv, NEW s \in Stream, on_connection_closed(s) PROVE IInv'
<1>1. /\ TableLemmas!IInv'
      /\ cm' = cm \ {IdOf(s)}
      /\ \A g \in cm' : Table!ColourOf(g)' = Table!ColourOf(g)
  BY PopEffect, IdOfType DEF IInv, on_connection_closed, addRmStream
<1>2. TypeOK'
  <2>1. Table!TypeOK' /\ reply'.color \in Color
    BY <1>1, TableTypesNext
  <2>2. painted' \in [streams' -> Color] /\ notice' \in NoticeType
    BY <2>1 DEF on_connection_closed, addRmStream, IInv, TypeOK, NoticeType
  <2> QED
    BY <2>1, <2>2
    DEF on_connection_closed, addRmStream, IInv, TypeOK, Color, Siblings
<1>3. streams' \ orphaned' = {t \in streams \ orphaned : IdOf(t) # IdOf(s)}
  BY DEF on_connection_closed, addRmStream, Siblings
<1>4. TableIsAccountedFor'
  BY <1>1, <1>3 DEF on_connection_closed, addRmStream, IInv, TableIsAccountedFor
<1>5. ColourIsKept'
  BY <1>1, <1>3, <1>4
  DEF on_connection_closed, addRmStream, IInv, TypeOK, TableIsAccountedFor, ColourIsKept
<1> QED BY <1>1, <1>2, <1>4, <1>5 DEF IInv

LEMMA ForgetIInv ==
  ASSUME IInv, NEW s \in Stream, Forget(s) PROVE IInv'
<1>1. TableLemmas!IInv' /\ Table!TypeOK'
  BY SameTable
  DEF Forget, table, IInv, TypeOK, TableLemmas!IInv, TableLemmas!TypeOK,
      TableLemmas!TakenIsHeld, TableLemmas!NonZeroIsExclusive, Table!TypeOK
<1>2. TypeOK'
  BY <1>1, IdOfType DEF Forget, IInv, TypeOK
<1>3. TableIsAccountedFor'
  BY DEF Forget, table, IInv, TypeOK, TableIsAccountedFor, Siblings
<1>4. ColourIsKept'
  BY DEF Forget, table, IInv, TypeOK, ColourIsKept, Table!ColourOf
<1> QED BY <1>1, <1>2, <1>3, <1>4 DEF IInv

LEMMA StutterIInv == ASSUME IInv, UNCHANGED vars PROVE IInv'
<1>1. TableLemmas!IInv' /\ Table!TypeOK'
  BY DEF vars, table, IInv, TypeOK, TableLemmas!IInv, TableLemmas!TypeOK,
      TableLemmas!TakenIsHeld, TableLemmas!NonZeroIsExclusive, Table!TypeOK
<1> QED
  BY <1>1
  DEF vars, table, IInv, TypeOK, TableIsAccountedFor, ColourIsKept, Table!ColourOf

LEMMA NextIInv == IInv /\ [Next]_vars => IInv'
BY OpenIInv, CloseIInv, ForgetIInv, StutterIInv DEF Next

(* In every state the table holds a colour for each stream opened, and no other. *)
THEOREM IInvHolds == Spec => []IInv
BY InitIInv, NextIInv, PTL DEF Spec

-----------------------------------------------------------------------------
(* Every variable of the stream notices keeps its type. *)
THEOREM TypeCorrect == Spec => []TypeOK
<1>1. IInv => TypeOK
  BY DEF IInv
<1> QED BY <1>1, IInvHolds, PTL

(***************************************************************************)
(* cPairs holds the ids of the followed streams, but for those popped by   *)
(* a sibling and those of streams forgotten without a close (addRmStream). *)
(***************************************************************************)
THEOREM TableStaysAccountedFor == Spec => []TableIsAccountedFor
<1>1. IInv => TableIsAccountedFor
  BY DEF IInv
<1> QED BY <1>1, IInvHolds, PTL

(***************************************************************************)
(* Followed streams with different ids were announced in different colours *)
(* or in colour 0, if no sibling has popped their ids (addRmStream).       *)
(***************************************************************************)
THEOREM StreamsArePaintedApart == Spec => []PaintedApart
<1>1. IInv => PaintedApart
  <2> SUFFICES ASSUME IInv,
                      NEW s \in streams \ orphaned, NEW t \in streams \ orphaned,
                      painted[s] = painted[t], painted[s] # 0
               PROVE  IdOf(s) = IdOf(t)
    BY DEF PaintedApart
  <2>1. /\ painted[s] = TableLemmas!ColourOf(IdOf(s))
        /\ painted[t] = TableLemmas!ColourOf(IdOf(t))
    BY SameTable DEF IInv, ColourIsKept
  <2>2. TableLemmas!NonZeroIsExclusive
    BY DEF IInv, TableLemmas!IInv
  <2> QED
    BY <2>1, <2>2 DEF TableLemmas!ColourOf, TableLemmas!NonZeroIsExclusive
<1> QED BY <1>1, IInvHolds, PTL

LEMMA CloseMatches ==
  ASSUME IInv, NEW s \in Stream, on_connection_closed(s), s \notin orphaned
  PROVE  notice'.color = painted[s] /\ ~ reply'.error
<1>1. IdOf(s) \in cm /\ painted[s] = Table!ColourOf(IdOf(s))
  BY DEF IInv, TableIsAccountedFor, ColourIsKept, on_connection_closed, addRmStream
<1>2. reply' = [color |-> Table!ColourOf(IdOf(s)), error |-> FALSE]
  BY <1>1, PopEffect, IdOfType DEF IInv, on_connection_closed, addRmStream
<1> QED BY <1>1, <1>2 DEF on_connection_closed, addRmStream

(***************************************************************************)
(* The close notice of a stream has the colour of its open notice, and pop *)
(* prints no error, if no sibling has popped its id (addRmStream).         *)
(***************************************************************************)
THEOREM UnsharedClosesMatch == Spec => UnsharedCloseNoticeMatches
<1>1. IInv /\ [Next]_vars
        => [\A s \in Stream : Closes(s) /\ s \notin orphaned =>
              notice'.color = painted[s] /\ ~ reply'.error]_vars
  <2> SUFFICES ASSUME IInv, Next, NEW s \in Stream, Closes(s), s \notin orphaned
               PROVE  notice'.color = painted[s] /\ ~ reply'.error
    OBVIOUS
  <2>1. PICK t \in Stream :
          on_new_connection(t) \/ on_connection_closed(t) \/ Forget(t)
    BY DEF Next
  <2>2. on_connection_closed(t) /\ t = s
    BY <2>1 DEF on_new_connection, on_connection_closed, addRmStream, Forget, Closes
  <2> QED BY <2>2, CloseMatches
<1> QED BY <1>1, IInvHolds, PTL DEF Spec, UnsharedCloseNoticeMatches

-----------------------------------------------------------------------------
(* An announced id has the colour of the table: whichever stream announced it. *)
LEMMA AnnouncedColours ==
  ASSUME IInv
  PROVE  /\ AnnouncedIn = [h \in Announced |-> TableLemmas!ColourOf(h)]
         /\ Announced \subseteq cm
<1>1. ASSUME NEW h \in Announced PROVE painted[Announcer(h)] = TableLemmas!ColourOf(h)
  <2>1. \E s \in streams \ orphaned : IdOf(s) = h
    BY DEF Announced
  <2>2. Announcer(h) \in streams \ orphaned /\ IdOf(Announcer(h)) = h
    BY <2>1 DEF Announcer
  <2> QED BY <2>2, SameTable DEF IInv, ColourIsKept
<1> QED BY <1>1 DEF AnnouncedIn, IInv, TableIsAccountedFor, Announced

LEMMA AnnouncedColoursNext ==
  ASSUME IInv' PROVE AnnouncedIn' = [h \in Announced' |-> TableLemmas!ColourOf(h)']
<1>1. ASSUME NEW h \in Announced' PROVE painted'[Announcer(h)'] = TableLemmas!ColourOf(h)'
  <2>1. \E t \in streams' \ orphaned' : IdOf(t) = h
    BY DEF Announced
  <2>2. Announcer(h)' \in streams' \ orphaned' /\ IdOf(Announcer(h)') = h
    BY <2>1 DEF Announcer
  <2> QED BY <2>2, SameColours DEF IInv, ColourIsKept
<1> QED BY <1>1 DEF AnnouncedIn

LEMMA OpenStep ==
  ASSUME IInv, IInv', NEW s \in Stream, on_new_connection(s)
  PROVE  IdPool!Next \/ AnnouncedIn' = AnnouncedIn
<1> DEFINE h == IdOf(s)
           c == TableLemmas!ColourOf(h)'
<1>1. /\ AnnouncedIn = [g \in Announced |-> TableLemmas!ColourOf(g)]
      /\ Announced \subseteq cm
  BY AnnouncedColours
<1>2. AnnouncedIn' = [g \in Announced' |-> TableLemmas!ColourOf(g)']
  BY AnnouncedColoursNext
<1>3. Announced' = Announced \cup {h}
  BY DEF Announced, on_new_connection, addRmStream, IInv, TypeOK
<1>4. \A g \in Announced : TableLemmas!ColourOf(g)' = TableLemmas!ColourOf(g)
  BY <1>1, PushEffect, IdOfType, SameTable, SameColours
  DEF IInv, on_new_connection, addRmStream
<1>5. CASE h \in Announced
  <2>1. Announced' = Announced
    BY <1>3, <1>5
  <2>2. AnnouncedIn' = [g \in Announced |-> TableLemmas!ColourOf(g)']
    BY <1>2, <2>1
  <2> QED BY <1>1, <1>4, <2>2
<1>6. CASE h \notin Announced
  <2>1. c \in Color
    BY <1>2, <1>3, TableTypesNext, PushEffect, IdOfType, SameColours
    DEF IInv, on_new_connection, addRmStream
  <2>2. ASSUME c # 0, NEW g \in Announced, TableLemmas!ColourOf(g) = c PROVE FALSE
    <3>1. TableLemmas!ColourOf(g)' = TableLemmas!ColourOf(h)' /\ TableLemmas!ColourOf(h)' # 0
      BY <1>4, <2>2
    <3>2. TableLemmas!NonZeroIsExclusive'
      BY DEF IInv, TableLemmas!IInv
    <3>3. g = h
      BY <3>1, <3>2 DEF TableLemmas!ColourOf, TableLemmas!NonZeroIsExclusive
    <3> QED BY <1>6, <3>3
  <2>3. IdPool!Acquire(h, c)
    <3>1. DOMAIN AnnouncedIn = Announced /\ \A g \in Announced : AnnouncedIn[g] = TableLemmas!ColourOf(g)
      BY <1>1
    <3>2. AnnouncedIn' = [g \in Announced \cup {h} |-> IF g = h THEN c ELSE AnnouncedIn[g]]
      <4> DEFINE f == [g \in Announced \cup {h} |-> TableLemmas!ColourOf(g)']
      <4>1. AnnouncedIn' = f
        BY <1>2, <1>3
      <4>2. \A g \in Announced \cup {h} : f[g] = IF g = h THEN c ELSE AnnouncedIn[g]
        BY <1>4, <3>1
      <4> HIDE DEF c
      <4> QED BY <4>1, <4>2
    <3>3. c = 0 \/ \A g \in Announced : AnnouncedIn[g] # c
      BY <2>2, <3>1
    <3> HIDE DEF c, h
    <3> QED BY <1>6, <3>1, <3>2, <3>3 DEF IdPool!Acquire, IdPool!Tracked
  <2>4. h \in Id
    BY IdOfType
  <2> HIDE DEF c, h
  <2> QED BY <2>1, <2>3, <2>4 DEF IdPool!Next
<1> QED BY <1>5, <1>6

(* A stream that leaves takes at most its id out of the pool, and no other. *)
LEMMA LeaveStep ==
  ASSUME IInv, NEW s \in Stream,
         Announced' \in {Announced, Announced \ {IdOf(s)}},
         \A g \in Announced' : TableLemmas!ColourOf(g)' = TableLemmas!ColourOf(g),
         AnnouncedIn' = [g \in Announced' |-> TableLemmas!ColourOf(g)']
  PROVE  IdPool!Next \/ AnnouncedIn' = AnnouncedIn
<1> DEFINE h == IdOf(s)
<1>1. AnnouncedIn = [g \in Announced |-> TableLemmas!ColourOf(g)]
  BY AnnouncedColours
<1>2. AnnouncedIn' = [g \in Announced' |-> AnnouncedIn[g]]
  BY <1>1
<1>3. CASE Announced' = Announced
  BY <1>1, <1>2, <1>3
<1>4. CASE Announced' = Announced \ {h} /\ h \in Announced
  <2>1. DOMAIN AnnouncedIn = Announced
    BY <1>1
  <2>2. IdPool!Release(h)
    BY <1>2, <1>4, <2>1 DEF IdPool!Release, IdPool!Tracked
  <2> QED BY <2>2, IdOfType DEF IdPool!Next
<1> QED BY <1>3, <1>4

LEMMA PoolStep ==
  ASSUME IInv, IInv', [Next]_vars
  PROVE  IdPool!Next \/ AnnouncedIn' = AnnouncedIn
<1>1. CASE UNCHANGED vars
  BY <1>1 DEF vars, AnnouncedIn, Announced, Announcer
<1>2. CASE Next
  <2>1. PICK s \in Stream :
          on_new_connection(s) \/ on_connection_closed(s) \/ Forget(s)
    BY <1>2 DEF Next
  <2>2. CASE on_new_connection(s)
    BY <2>2, OpenStep
  <2>3. CASE on_connection_closed(s)
    <3>1. streams' \ orphaned' = {t \in streams \ orphaned : IdOf(t) # IdOf(s)}
      BY <2>3 DEF on_connection_closed, addRmStream, Siblings
    <3>2. Announced' = Announced \ {IdOf(s)}
      BY <3>1 DEF Announced
    <3>3. \A g \in Announced' : TableLemmas!ColourOf(g)' = TableLemmas!ColourOf(g)
      BY <2>3, <3>2, AnnouncedColours, PopEffect, IdOfType, SameTable, SameColours
      DEF IInv, on_connection_closed, addRmStream
    <3> QED BY <3>2, <3>3, AnnouncedColoursNext, LeaveStep
  <2>4. CASE Forget(s)
    <3>1. streams' \ orphaned' = (streams \ orphaned) \ {s}
      BY <2>4 DEF Forget
    <3>2. Announced' \in {Announced, Announced \ {IdOf(s)}}
      BY <3>1 DEF Announced
    <3>3. \A g : TableLemmas!ColourOf(g)' = TableLemmas!ColourOf(g)
      BY <2>4 DEF Forget, table, TableLemmas!ColourOf
    <3> QED BY <3>2, <3>3, AnnouncedColoursNext, LeaveStep
  <2> QED BY <2>1, <2>2, <2>3, <2>4
<1> QED BY <1>1, <1>2

(***************************************************************************)
(* The open notices implement the colour pool over the ids of streams,     *)
(* whatever streams share an id: an announced id keeps its colour to       *)
(* itself, unless it is 0, through any number of opens, closes of others   *)
(* and forgotten streams (addRmStream, ConnPairs::push and pop).           *)
(***************************************************************************)
THEOREM NoticesImplementPool == Spec => ImplementsIdPool
<1>1. Init => IdPool!Init
  BY DEF Init, IdPool!Init, AnnouncedIn, Announced
<1>2. IInv /\ IInv' /\ [Next]_vars => [IdPool!Next]_AnnouncedIn
  BY PoolStep
<1> QED
  BY <1>1, <1>2, IInvHolds, PTL DEF Spec, ImplementsIdPool, IdPool!Spec

=============================================================================
