--------------------------- MODULE Capture_proofs ---------------------------
(***************************************************************************)
(* Proofs about the capture, for every set of connections, any number of   *)
(* segments with any contents, every list of filters and every number of   *)
(* colours.                                                                *)
(***************************************************************************)
EXTENDS Capture, FiniteSetsExt, FiniteSetTheorems, WellFoundedInduction,
        SequenceTheorems, TLAPS

-----------------------------------------------------------------------------
(***************************************************************************)
(* Facts about the segments of one direction of a stream, of any length:   *)
(* what the follower hands on is an interval that begins with the segment  *)
(* waited for, and what it keeps lies beyond the next gap.                 *)
(***************************************************************************)

LEMMA LeastElement ==
  ASSUME NEW S \in SUBSET Nat, S # {}
  PROVE  \E x \in S : \A y \in S : x <= y
<1> DEFINE less == {pair \in Nat \X Nat : pair[1] < pair[2]}
<1>1. PICK x \in S : \A y \in S : ~ (<<y, x>> \in less)
  <2>1. IsWellFoundedOn(less, Nat)
    BY NatLessThanWellFounded DEF OpToRel
  <2> HIDE DEF less
  <2> QED BY <2>1, WFMin
<1>2. ASSUME NEW y \in S PROVE x <= y
  <2>1. x \in Nat /\ y \in Nat
    OBVIOUS
  <2>2. <<y, x>> \in less <=> y < x
    BY <2>1
  <2> QED BY <1>1, <2>1, <2>2
<1> QED BY <1>2

(* Run ends before the first segment that has not arrived. *)
LEMMA RunEnds ==
  ASSUME NEW n \in Nat, NEW next \in 1 .. n + 1, NEW arrived \in SUBSET (1 .. n)
  PROVE  \E gap \in next .. n + 1 :
           gap \notin arrived /\ Run(next, arrived) = next .. gap - 1
<1> DEFINE Gaps == {m \in next .. n + 1 : m \notin arrived}
<1>1. Gaps \in SUBSET Nat /\ n + 1 \in Gaps
  OBVIOUS
<1>2. PICK gap \in Gaps : \A m \in Gaps : gap <= m
  BY <1>1, LeastElement
<1>3. ASSUME NEW m \in next .. gap - 1 PROVE m \in arrived
  BY <1>2
<1>4. next .. gap - 1 \subseteq Run(next, arrived)
  BY <1>3 DEF Run
<1>5. ASSUME NEW m \in Run(next, arrived) PROVE m \in next .. gap - 1
  <2>1. m \in arrived /\ m >= next /\ next .. m \subseteq arrived
    BY DEF Run
  <2>2. m < gap
    BY <2>1
  <2> QED BY <2>1, <2>2
<1> QED BY <1>4, <1>5

(***************************************************************************)
(* What a chunk is: no gap, no repetition.  Its first segment is the one   *)
(* waited for, and the follower then waits for the one after its last.     *)
(***************************************************************************)
LEMMA RunIsInterval ==
  ASSUME NEW n \in Nat, NEW next \in 1 .. n + 1, NEW arrived \in SUBSET (1 .. n)
  PROVE  LET run == Run(next, arrived)
             after == next + Cardinality(run)
         IN  /\ after \in next .. n + 1
             /\ run = next .. after - 1
             /\ after \notin arrived
             /\ run # {} => Min(run) = next /\ next \in run
<1> DEFINE run == Run(next, arrived)
           after == next + Cardinality(run)
<1>1. PICK gap \in next .. n + 1 : gap \notin arrived /\ run = next .. gap - 1
  BY RunEnds
<1>2. Cardinality(run) = gap - next
  BY <1>1, FS_Interval
<1>3. after = gap
  BY <1>2
<1>4. ASSUME run # {} PROVE Min(run) = next /\ next \in run
  <2>1. next \in run /\ \A m \in run : next <= m
    BY <1>1, <1>4
  <2>2. \A m \in run : m \in Int
    BY <1>1
  <2> HIDE DEF run
  <2> DEFINE least == Min(run)
  <2>3. least \in run /\ \A m \in run : least <= m
    BY <2>1 DEF Min
  <2> HIDE DEF least
  <2>4. least = next
    BY <2>1, <2>2, <2>3
  <2> QED BY <2>1, <2>4 DEF least
<1> QED BY <1>1, <1>3, <1>4

(* What has arrived and is not handed on waits behind the gap. *)
LEMMA LeftoverIsBeyond ==
  ASSUME NEW n \in Nat, NEW next \in 1 .. n + 1, NEW arrived \in SUBSET (next .. n)
  PROVE  \A m \in arrived \ Run(next, arrived) :
           m > next + Cardinality(Run(next, arrived))
<1> DEFINE run == Run(next, arrived)
           after == next + Cardinality(run)
<1>1. /\ after \in next .. n + 1
      /\ run = next .. after - 1
      /\ after \notin arrived
  BY RunIsInterval
<1> HIDE DEF run
<1>2. ASSUME NEW m \in arrived \ run PROVE m > after
  <2>1. m \in next .. n /\ m \notin next .. after - 1 /\ m # after
    BY <1>1
  <2> QED BY <1>1, <2>1
<1> QED BY <1>2 DEF run

-----------------------------------------------------------------------------
(***************************************************************************)
(* A direction with n segments: nothing early has been passed over, and    *)
(* while its numbers are unknown it waits for none of them.                *)
(***************************************************************************)
IsFlow(f, n) ==
  /\ f \in Flow
  /\ f.state = "unknown" => f.next = 0
  /\ f.next \in 0 .. n + 1
  /\ f.early \subseteq 1 .. n
  /\ f.next > 1 => \A k \in f.early : k > f.next

(* What the follower makes of segment k: it goes on to the next gap. *)
LEMMA ArrivalEffect ==
  ASSUME NEW n \in Nat, NEW f, IsFlow(f, n),
         NEW k \in 1 .. n, NEW r \in Arrivals(f, k)
  PROVE  /\ IsFlow(r.flow, n)
         /\ r.flow.state = f.state
         /\ r.flow.next \in f.next .. n + 1
         /\ r.chunk = f.next .. r.flow.next - 1
         /\ r.chunk \subseteq f.early \cup {k}
         /\ r.chunk # {} =>
              r.calls /\ f.next > 0 /\ f.next \in r.chunk /\ Min(r.chunk) = f.next
<1> DEFINE arrived == f.early \cup {k}
<1>0. /\ f \in Flow /\ f.next \in 0 .. n + 1 /\ f.early \subseteq 1 .. n
      /\ arrived \subseteq 1 .. n
  BY DEF IsFlow
<1>1. CASE f.next = 0
  <2>1. PICK g \in {f, [f EXCEPT !.early = @ \cup {k}]} :
          r = [flow |-> g, calls |-> FALSE, chunk |-> {}]
    BY <1>1 DEF Arrivals
  <2>2. g \in Flow /\ g.next = 0 /\ g.early \subseteq 1 .. n /\ g.state = f.state
    BY <1>0, <1>1 DEF Flow
  <2> QED BY <1>1, <2>1, <2>2 DEF IsFlow
<1>2. CASE f.next > 0 /\ k < f.next
  <2>1. r = [flow |-> f, calls |-> k = f.next - 1, chunk |-> {}]
    BY <1>2 DEF Arrivals
  <2> QED BY <1>0, <1>2, <2>1 DEF IsFlow
<1>3. CASE f.next > 0 /\ ~ (k < f.next)
  <2> DEFINE next == f.next
             run == Run(next, arrived)
             after == next + Cardinality(run)
             g == [state |-> f.state, next |-> after, early |-> arrived \ run]
  <2>1. r = [flow |-> g, calls |-> run # {}, chunk |-> run]
    BY <1>3 DEF Arrivals
  <2>2. /\ next \in 1 .. n + 1
        /\ arrived \in SUBSET (1 .. n)
        /\ arrived \in SUBSET (next .. n)
    BY <1>0, <1>3 DEF IsFlow
  <2> HIDE DEF next, arrived
  <2>3. /\ after \in next .. n + 1
        /\ run = next .. after - 1
        /\ run # {} => Min(run) = next /\ next \in run
    BY <2>2, RunIsInterval
  <2>4. \A m \in arrived \ run : m > after
    BY <2>2, LeftoverIsBeyond
  <2>5. run \subseteq arrived
    BY DEF Run
  <2> HIDE DEF run, after
  <2>6. after \in Nat /\ arrived \ run \in SUBSET (1 .. n)
    BY <2>2, <2>3
  <2>7. /\ g \in Flow /\ g.next = after
        /\ g.early = arrived \ run /\ g.state = f.state
    BY <1>0, <2>6 DEF Flow
  <2> HIDE DEF g
  <2>8. IsFlow(g, n)
    <3>1. g.next \in 0 .. n + 1
      BY <2>2, <2>3, <2>7
    <3>2. g.early \subseteq 1 .. n
      BY <2>6, <2>7
    <3>3. \A m \in g.early : m > g.next
      BY <2>4, <2>7
    <3> QED BY <1>3, <2>7, <3>1, <3>2, <3>3 DEF IsFlow
  <2> QED BY <1>3, <2>1, <2>2, <2>3, <2>5, <2>7, <2>8 DEF arrived, next
<1> QED BY <1>0, <1>1, <1>2, <1>3

(* Signals leave the place alone, but for a SYN-ACK that makes it known. *)
LEMMA SignalEffect ==
  ASSUME NEW n \in Nat, NEW f, IsFlow(f, n),
         NEW g \in {f, Synchronise(f), Finish(f), Reset(f)}
  PROVE  /\ IsFlow(g, n) /\ g.early = f.early
         /\ g.next = f.next \/ (f.next = 0 /\ g.next = 1)
         /\ g \in {f, Finish(f), Reset(f)} => g.next = f.next
<1>1. CASE g = Synchronise(f) /\ f.state = "unknown"
  BY <1>1 DEF Synchronise, Finish, Reset, IsFlow, Flow, FlowState
<1>2. CASE g = f
  BY <1>2
<1>3. CASE g = Finish(f)
  BY <1>3 DEF Finish, IsFlow, Flow, FlowState
<1>4. CASE g = Reset(f)
  BY <1>4 DEF Reset, IsFlow, Flow, FlowState
<1> QED BY <1>1, <1>2, <1>3, <1>4 DEF Synchronise

(* The lemmas about the notices. *)
NoticeLemmas == INSTANCE Streams_proofs

-----------------------------------------------------------------------------
(***************************************************************************)
(* The inductive invariant.  What is early in a direction was sent in it,  *)
(* and lies behind the place it has come to.  A finished stream is closed  *)
(* before anything else is captured, which is why Forget finds none.       *)
(***************************************************************************)
FlowsAreSent == \A d \in Directions : IsFlow(flow[d], Len(Content[d]))

InProcess ==
  /\ pc = "process" => pkt.kind = "data"
  /\ pc \in {"process", "finish"} => pkt.dir \in Directions

NothingYet == pc = "start" => streams = {} /\ chunk.kind = "none"

FilterIsMade == pc # "start" => filter = {PortClause} \cup HostClauses

HasEnded == pc \in {"over", "caught", "returned", "killed"}

FinishedIsClosed ==
  \A s \in streams :
    IsFinished(flow[s], flow[Flip(s)]) =>
      HasEnded \/ (pc = "finish" /\ s = StreamOf(pkt.dir))

IInv ==
  /\ NoticeLemmas!IInv
  /\ TypeOK /\ FlowsAreSent /\ InProcess
  /\ NothingYet /\ FilterIsMade /\ FinishedIsClosed
  /\ FollowsWhatWasAskedFor

-----------------------------------------------------------------------------
(* Notices and NoticeLemmas are the same notices, of the same table. *)

LEMMA SameIds ==
  /\ Notices!Stream = NoticeLemmas!Stream
  /\ \A s : Notices!Flip(s) = NoticeLemmas!Flip(s)
  /\ \A s : Notices!IdOf(s) = NoticeLemmas!IdOf(s)
  /\ Notices!Id = NoticeLemmas!Id
<1>1. \A s : Notices!Flip(s) = NoticeLemmas!Flip(s)
  BY DEF Notices!Flip, NoticeLemmas!Flip
<1>2. Notices!Stream = NoticeLemmas!Stream
  BY <1>1 DEF Notices!Stream, NoticeLemmas!Stream
<1>3. \A s : Notices!IdOf(s) = NoticeLemmas!IdOf(s)
  BY DEF Notices!IdOf, NoticeLemmas!IdOf, Notices!ip_hex_to_name,
         NoticeLemmas!ip_hex_to_name
<1>4. Notices!Id = NoticeLemmas!Id
  BY <1>2, <1>3 DEF Notices!Id, NoticeLemmas!Id
<1> QED BY <1>1, <1>2, <1>3, <1>4

LEMMA SameColours ==
  /\ Notices!Color = NoticeLemmas!Color
  /\ Notices!Table!Color = NoticeLemmas!Table!Color
  /\ \A h : Notices!Table!ColourOf(h) = NoticeLemmas!Table!ColourOf(h)
BY DEF Notices!Color, NoticeLemmas!Color, Notices!Table!Color, NoticeLemmas!Table!Color,
       Notices!Table!ColourOf, NoticeLemmas!Table!ColourOf

LEMMA SameNoticeTypes ==
  /\ Notices!Init => NoticeLemmas!Init
  /\ NoticeLemmas!TypeOK => Notices!TypeOK
<1>1. Notices!Init => NoticeLemmas!Init
  BY SameColours DEF Notices!Init, NoticeLemmas!Init, Notices!Table!Init, NoticeLemmas!Table!Init
<1>2. NoticeLemmas!TypeOK => Notices!TypeOK
  BY SameIds, SameColours DEF Notices!TypeOK, NoticeLemmas!TypeOK, Notices!NoticeType, NoticeLemmas!NoticeType, Notices!Table!TypeOK, NoticeLemmas!Table!TypeOK
<1> QED BY <1>1, <1>2

LEMMA SamePush == ASSUME NEW h, Notices!Table!push(h) PROVE NoticeLemmas!Table!push(h)
<1>1. CASE Notices!Table!PushKnown(h)
  BY <1>1, SameColours
  DEF Notices!Table!PushKnown, NoticeLemmas!Table!PushKnown, NoticeLemmas!Table!push,
      Notices!Table!Return, NoticeLemmas!Table!Return
<1>2. CASE Notices!Table!PushNew(h)
  BY <1>2, SameColours
  DEF Notices!Table!PushNew, NoticeLemmas!Table!PushNew, NoticeLemmas!Table!push,
      Notices!Table!Return, NoticeLemmas!Table!Return,
      Notices!Table!IsFirstFree, NoticeLemmas!Table!IsFirstFree
<1>3. CASE Notices!Table!PushFull(h)
  BY <1>3, SameColours
  DEF Notices!Table!PushFull, NoticeLemmas!Table!PushFull, NoticeLemmas!Table!push,
      Notices!Table!Return, NoticeLemmas!Table!Return,
      Notices!Table!PoolIsFull, NoticeLemmas!Table!PoolIsFull
<1> QED BY <1>1, <1>2, <1>3 DEF Notices!Table!push

LEMMA SamePop == ASSUME NEW h, Notices!Table!pop(h) PROVE NoticeLemmas!Table!pop(h)
<1>1. CASE Notices!Table!PopKnown(h)
  BY <1>1, SameColours
  DEF Notices!Table!PopKnown, NoticeLemmas!Table!PopKnown, NoticeLemmas!Table!pop,
      Notices!Table!Return, NoticeLemmas!Table!Return, Notices!Table!Free,
      NoticeLemmas!Table!Free, Notices!Table!Erase, NoticeLemmas!Table!Erase
<1>2. CASE Notices!Table!PopUnknown(h)
  BY <1>2 DEF Notices!Table!PopUnknown, NoticeLemmas!Table!PopUnknown, NoticeLemmas!Table!pop
<1> QED BY <1>1, <1>2 DEF Notices!Table!pop

LEMMA SameOpen ==
  ASSUME NEW s, Notices!on_new_connection(s) PROVE NoticeLemmas!on_new_connection(s)
BY SamePush, SameIds
DEF Notices!on_new_connection, NoticeLemmas!on_new_connection,
    Notices!addRmStream, NoticeLemmas!addRmStream

LEMMA SameClose ==
  ASSUME NEW s, Notices!on_connection_closed(s) PROVE NoticeLemmas!on_connection_closed(s)
BY SamePop, SameIds
DEF Notices!on_connection_closed, NoticeLemmas!on_connection_closed, Notices!Siblings, NoticeLemmas!Siblings,
    Notices!addRmStream, NoticeLemmas!addRmStream

LEMMA SameForget == ASSUME NEW s, Notices!Forget(s) PROVE NoticeLemmas!Forget(s)
BY SameIds
DEF Notices!Forget, NoticeLemmas!Forget, Notices!Siblings, NoticeLemmas!Siblings, Notices!table, NoticeLemmas!table

LEMMA SameStep == [Notices!Next]_(Notices!vars) => [NoticeLemmas!Next]_(NoticeLemmas!vars)
<1>1. Notices!Next => NoticeLemmas!Next
  BY SameIds, SameOpen, SameClose, SameForget DEF Notices!Next, NoticeLemmas!Next
<1>2. UNCHANGED Notices!vars => UNCHANGED NoticeLemmas!vars
  BY DEF Notices!vars, Notices!table, NoticeLemmas!vars, NoticeLemmas!table
<1> QED BY <1>1, <1>2

-----------------------------------------------------------------------------
(* Streams, their directions, and packets. *)

LEMMA FlipTwice ==
  ASSUME NEW s \in Stream PROVE Flip(s) \in Stream /\ Flip(Flip(s)) = s
<1>1. Stream = NoticeLemmas!Stream /\ \A r : Flip(r) = NoticeLemmas!Flip(r)
  BY SameIds DEF Stream, Flip
<1>2. \A r \in Stream : Flip(Flip(r)) = r
  BY <1>1, NoticeLemmas!FlipTwice, ColorAssumption, ConnectionAssumption
<1>3. Stream = Connection \cup {Flip(r) : r \in Connection}
  BY DEF Stream, Flip, Notices!Stream
<1> QED BY <1>2, <1>3

LEMMA DirectionTypes ==
  ASSUME streams \subseteq Stream
  PROVE  /\ Directions \subseteq Stream
         /\ \A d \in Directions : /\ Flip(d) \in Directions
                                  /\ StreamOf(d) \in streams
                                  /\ d \in {StreamOf(d), Flip(StreamOf(d))}
BY FlipTwice DEF Directions, StreamOf

LEMMA TcpPacketTypes ==
  ASSUME NEW p \in TcpPacket
  PROVE  /\ p.kind \in {"syn", "syn-ack", "fin", "rst", "data"}
         /\ p.dir \in Stream
         /\ p.kind = "data" => p.seg \in 1 .. Len(Content[p.dir])
<1>1. /\ Connection \subseteq Stream
      /\ \A s \in Connection : Flip(s) \in Stream
  BY DEF Stream, Flip, Notices!Stream
<1>2. ASSUME NEW d \in Stream
      PROVE  /\ DOMAIN Content[d] = 1 .. Len(Content[d])
             /\ Content[d] # <<>> => Len(Content[d]) \in 1 .. Len(Content[d])
  BY ContentAssumption, EmptySeq
<1>3. CASE p \in [kind : {"syn"}, dir : Connection]
  BY <1>1, <1>3
<1>4. CASE p \in [kind : {"syn-ack"}, dir : {Flip(s) : s \in Connection}]
  BY <1>1, <1>4
<1>5. CASE p \in [kind : {"fin", "rst"}, dir : Stream]
  BY <1>5
<1>6. CASE p \in UNION {[kind : {"data"}, dir : {d}, seg : DOMAIN Content[d],
                        fin : {FALSE}] : d \in Stream}
  <2>1. PICK d \in Stream :
          p \in [kind : {"data"}, dir : {d}, seg : DOMAIN Content[d], fin : {FALSE}]
    BY <1>6
  <2> QED BY <1>2, <2>1
<1>7. CASE p \in {[kind |-> "data", dir |-> d, seg |-> Len(Content[d]), fin |-> TRUE] :
                   d \in {e \in Stream : Content[e] # <<>>}}
  BY <1>2, <1>7
<1> QED BY <1>3, <1>4, <1>5, <1>6, <1>7 DEF TcpPacket

LEMMA DnsPacketTypes ==
  ASSUME NEW p \in DnsPacket PROVE p.kind = "dns" /\ p.dir \in Stream
BY DEF DnsPacket, Stream, Notices!Stream

-----------------------------------------------------------------------------
(* What the actions do. *)

LEMMA Steps ==
  ASSUME TypeOK, InProcess, Next \/ Idle
  PROVE  \/ BeginCapture
         \/ \E p \in TcpPacket : IsSelected(p) /\ (FollowSyn(p) \/ FollowPartial(p))
         \/ \E p \in TcpPacket : /\ pc \in {"loop", "process"} /\ p.dir \in Directions
                                 /\ process_packet(p)
         \/ \E p \in DnsPacket : dns_cb(p)
         \/ Closed
         \/ \E s \in Stream : Forget(s)
         \/ SnifferEnds
         \/ FlowOffTheEnd
         \/ Idle
<1>1. ASSUME NEW p \in TcpPacket \cup DnsPacket, sniff(p), p \notin TcpPacket
      PROVE  dns_cb(p)
  BY <1>1, DnsPacketTypes DEF sniff, FollowSyn, FollowPartial, ProcessFollowed
<1>2. ASSUME NEW p \in TcpPacket, sniff(p)
      PROVE  \/ IsSelected(p) /\ (FollowSyn(p) \/ FollowPartial(p))
             \/ pc = "loop" /\ p.dir \in Directions /\ process_packet(p)
  BY <1>2, TcpPacketTypes DEF sniff, ProcessFollowed, dns_cb
<1>3. ASSUME ProcessFirst
      PROVE  /\ pc = "process" /\ pkt \in TcpPacket /\ pkt.dir \in Directions
             /\ process_packet(pkt)
  BY <1>3 DEF ProcessFirst, TypeOK, InProcess
<1> QED BY <1>1, <1>2, <1>3 DEF Next, Step

(* handle_mqtt_pkt reports the packet at the head of the chunk or nothing. *)
LEMMA DataEffect ==
  ASSUME NEW d, NEW segs, on_data(d, segs)
  PROVE  IF segs # {} /\ BeginsWithPacket(d, segs)
         THEN /\ report' = [dir |-> d, seg |-> Min(segs)]
              /\ chunk' = [kind |-> "packet", dir |-> d, segs |-> segs]
         ELSE /\ report' = [seg |-> 0]
              /\ chunk'.dir = d /\ chunk'.segs = segs
              /\ chunk'.kind \in {"0 len packet?", "nothing", "garbage", "thrown", "killed"}
              /\ chunk'.kind \in {"thrown", "killed"} => segs # {}
<1>1. CASE handle_mqtt_pkt(d, segs)
  <2>1. CASE segs # {} /\ BeginsWithPacket(d, segs)
    BY <1>1, <2>1 DEF handle_mqtt_pkt
  <2>2. CASE ~ (segs # {} /\ BeginsWithPacket(d, segs))
    <3>1. /\ report' = [seg |-> 0]
          /\ chunk' \in [kind : IF segs = {} THEN {"nothing"}
                                ELSE {"garbage", "thrown", "killed"},
                         dir : {d}, segs : {segs}]
      BY <1>1, <2>2 DEF handle_mqtt_pkt
    <3> QED BY <2>2, <3>1
  <2> QED BY <2>1, <2>2
<1>2. CASE ~ handle_mqtt_pkt(d, segs)
  <2>1. /\ segs = {}
        /\ chunk' = [kind |-> "0 len packet?", dir |-> d, segs |-> segs]
        /\ report' = [seg |-> 0]
    BY <1>2 DEF on_data, on_client_data, on_server_data
  <2> QED BY <2>1
<1> QED BY <1>1, <1>2

LEMMA OpenEffect ==
  ASSUME streams \subseteq Stream, NEW p \in TcpPacket,
         FollowSyn(p) \/ FollowPartial(p)
  PROVE  /\ Notices!on_new_connection(p.dir)
         /\ p.dir \notin Directions /\ Flip(p.dir) \notin Directions
         /\ streams' = streams \cup {p.dir}
         /\ Directions' = Directions \cup {p.dir, Flip(p.dir)}
         /\ flow' = [d \in Directions' |-> flow'[d]]
         /\ \A d \in Directions : flow'[d] = flow[d]
         /\ \A d \in {p.dir, Flip(p.dir)} :
              IsFlow(flow'[d], Len(Content[d])) /\ flow'[d].state \in {"open", "unknown"}
<1>1. /\ p.dir \in Stream /\ Flip(p.dir) \in Stream
      /\ p.dir \notin Directions
  BY TcpPacketTypes, FlipTwice DEF FollowSyn, FollowPartial
<1>2. Flip(p.dir) \notin Directions
  BY <1>1, FlipTwice, DirectionTypes DEF Directions
<1>3. \A d \in Stream : Len(Content[d]) \in Nat
  BY ContentAssumption, EmptySeq
<1>4. PICK client, server :
        /\ NewStream(p, client, server)
        /\ IsFlow(client, Len(Content[p.dir])) /\ IsFlow(server, Len(Content[Flip(p.dir)]))
        /\ client.state \in {"open", "unknown"} /\ server.state \in {"open", "unknown"}
  <2>1. ASSUME NEW n \in Nat, NEW k \in 1 .. n + 1
        PROVE  IsFlow(FlowFrom(k), n) /\ FlowFrom(k).state = "open"
    BY DEF FlowFrom, IsFlow, Flow, FlowState
  <2>2. ASSUME NEW n \in Nat
        PROVE  IsFlow(UnknownFlow, n) /\ UnknownFlow.state = "unknown"
    BY DEF UnknownFlow, IsFlow, Flow, FlowState
  <2>3. CASE FollowSyn(p)
    BY <1>1, <1>3, <2>1, <2>2, <2>3 DEF FollowSyn
  <2>4. CASE FollowPartial(p)
    BY <1>1, <1>3, <2>1, <2>4, TcpPacketTypes DEF FollowPartial
  <2> QED BY <2>3, <2>4
<1>5. Notices!on_new_connection(p.dir) /\ streams' = streams \cup {p.dir}
  BY <1>4 DEF NewStream, Notices!on_new_connection
<1>6. Directions' = Directions \cup {p.dir, Flip(p.dir)}
  BY <1>5 DEF Directions
<1>7. flow' = [d \in Directions' |-> IF d = p.dir THEN client
                                     ELSE IF d = Flip(p.dir) THEN server ELSE flow[d]]
  BY <1>4, <1>6 DEF NewStream
<1>8. /\ flow' = [d \in Directions' |-> flow'[d]]
      /\ \A d \in Directions : flow'[d] = flow[d]
      /\ flow'[p.dir] = client
      /\ Flip(p.dir) # p.dir => flow'[Flip(p.dir)] = server
  BY <1>1, <1>2, <1>6, <1>7
<1> QED BY <1>1, <1>2, <1>4, <1>5, <1>6, <1>8

(* Closed and Forget drop both directions of a stream. *)
LEMMA DropEffect ==
  ASSUME Notices!TypeOK, NEW s \in streams, streams' = streams \ {s}
  PROVE  Directions' = Directions \ {s, Flip(s)}
<1>1. streams \subseteq Stream /\ \A t \in streams : Flip(t) \in streams => Flip(t) = t
  BY DEF Notices!TypeOK, Stream, Flip
<1>2. ASSUME NEW t \in streams, t # s
      PROVE  t \notin {s, Flip(s)} /\ Flip(t) \notin {s, Flip(s)}
  BY <1>1, <1>2, FlipTwice
<1> QED BY <1>2 DEF Directions

(***************************************************************************)
(* A packet of a followed stream changes one direction: nothing is handed  *)
(* on and the place stays, or a SYN-ACK makes it known, or what follows it *)
(* without a gap is handed on and the place goes on behind it.             *)
(***************************************************************************)
Advances(d, g, p) ==
  LET f == flow[d]
  IN  \/ Quiet /\ (g.next = f.next \/ (f.next = 0 /\ g.next = 1))
      \/ /\ p.kind = "data"
         /\ on_data(d, f.next .. g.next - 1)
         /\ g.next >= f.next
         /\ f.next .. g.next - 1 \subseteq f.early \cup {p.seg}
         /\ g.next > f.next => f.next > 0 /\ Min(f.next .. g.next - 1) = f.next

LEMMA ProcessEffect ==
  ASSUME TypeOK, FlowsAreSent, NEW p \in TcpPacket, p.dir \in Directions,
         process_packet(p)
  PROVE  /\ UNCHANGED <<noticeVars, flist, en_dns, filter>>
         /\ pc' = Continue(p.dir, flow', chunk'.kind)
         /\ pkt' = IF pc' = "finish" THEN p ELSE [kind |-> "none"]
         /\ \E g : /\ IsFlow(g, Len(Content[p.dir]))
                  /\ flow' = [flow EXCEPT ![p.dir] = g]
                  /\ Advances(p.dir, g, p)
<1> DEFINE d == p.dir
           f == flow[d]
           n == Len(Content[d])
<1>1. /\ streams \subseteq Stream /\ d \in Stream /\ n \in Nat
      /\ flow \in [Directions -> Flow]
      /\ IsFlow(f, n)
  BY TcpPacketTypes, ContentAssumption, EmptySeq
  DEF TypeOK, Notices!TypeOK, Stream, FlowsAreSent
<1>2. CASE Signal(p)
  <2>1. PICK g \in {f, Synchronise(f), Finish(f), Reset(f)} :
          flow' = [flow EXCEPT ![d] = g]
    BY <1>2 DEF Signal
  <2>2. IsFlow(g, n) /\ (g.next = f.next \/ (f.next = 0 /\ g.next = 1))
    BY <1>1, SignalEffect
  <2> QED BY <1>2, <2>1, <2>2 DEF Signal, process_packet, Advances
<1>3. CASE Data(p)
  <2> DEFINE h == IF p.fin THEN Finish(f) ELSE f
  <2>1. PICK r \in Arrivals(h, p.seg) :
          /\ flow' = [flow EXCEPT ![d] = r.flow]
          /\ IF r.calls THEN on_data(d, r.chunk) ELSE Quiet
    BY <1>3 DEF Data, AutoCleanup
  <2>2. /\ IsFlow(h, n) /\ h.next = f.next /\ h.early = f.early
        /\ p.seg \in 1 .. n
    BY <1>1, <1>3, SignalEffect, TcpPacketTypes DEF Data
  <2> HIDE DEF h
  <2>3. /\ IsFlow(r.flow, n)
        /\ r.flow.next \in f.next .. n + 1
        /\ r.chunk = f.next .. r.flow.next - 1
        /\ r.chunk \subseteq f.early \cup {p.seg}
        /\ r.chunk # {} => r.calls /\ f.next > 0 /\ Min(r.chunk) = f.next
    BY <1>1, <2>2, ArrivalEffect
  <2>4. f.next \in Nat /\ r.flow.next \in Nat
    BY <1>1, <2>3 DEF IsFlow
  <2>5. r.flow.next > f.next <=> r.chunk # {}
    BY <2>3, <2>4
  <2>6. Advances(d, r.flow, p)
    BY <1>3, <2>1, <2>3, <2>4, <2>5 DEF Advances, Data
  <2> QED BY <1>3, <2>1, <2>3, <2>6 DEF Data, process_packet
<1> QED BY <1>2, <1>3 DEF process_packet

-----------------------------------------------------------------------------
(* Every step is one of the notices, or leaves them alone. *)
LEMMA NoticeStep ==
  ASSUME IInv, [Next \/ Idle]_vars
  PROVE  [Notices!Next]_(Notices!vars)
<1> DEFINE same == UNCHANGED Notices!vars
<1>1. UNCHANGED noticeVars => same
  BY DEF noticeVars, Notices!vars, Notices!table
<1>2. /\ TypeOK /\ InProcess /\ FlowsAreSent
      /\ streams \subseteq Stream /\ Stream = Notices!Stream
  BY DEF IInv, TypeOK, Notices!TypeOK, Stream
<1>3. CASE UNCHANGED vars
  BY <1>1, <1>3 DEF vars
<1>4. ASSUME NEW p \in TcpPacket, FollowSyn(p) \/ FollowPartial(p)
      PROVE  Notices!Next
  BY <1>2, <1>4, OpenEffect, TcpPacketTypes DEF Notices!Next
<1>5. ASSUME NEW p \in TcpPacket, p.dir \in Directions, process_packet(p)
      PROVE  same
  BY <1>1, <1>5 DEF process_packet
<1>6. ASSUME Closed PROVE Notices!Next
  BY <1>2, <1>6 DEF Closed, Callbacks, Notices!Next
<1>7. ASSUME NEW s \in Stream, Forget(s) PROVE Notices!Next
  BY <1>2, <1>7 DEF Forget, Notices!Next
<1>8. ASSUME BeginCapture \/ SnifferEnds \/ FlowOffTheEnd \/ Idle \/ \E p \in DnsPacket : dns_cb(p)
      PROVE  same
  BY <1>1, <1>8 DEF BeginCapture, SnifferEnds, FlowOffTheEnd, Idle, vars, dns_cb
<1> HIDE DEF same
<1>9. CASE Next \/ Idle
  BY <1>2, <1>4, <1>5, <1>6, <1>7, <1>8, <1>9, Steps DEF same
<1> QED BY <1>3, <1>9 DEF same

LEMMA NoticeInvariant ==
  ASSUME IInv, [Next \/ Idle]_vars
  PROVE  NoticeLemmas!IInv' /\ Notices!TypeOK'
<1>1. NoticeLemmas!IInv'
  BY NoticeStep, SameStep, NoticeLemmas!NextIInv, ColorAssumption, ConnectionAssumption DEF IInv
<1>2. NoticeLemmas!TypeOK'
  BY <1>1 DEF NoticeLemmas!IInv
<1>3. Notices!TypeOK'
  BY <1>2, SameIds, SameColours
  DEF Notices!TypeOK, NoticeLemmas!TypeOK, Notices!NoticeType, NoticeLemmas!NoticeType,
      Notices!Table!TypeOK, NoticeLemmas!Table!TypeOK
<1> QED BY <1>1, <1>3

LEMMA InitIInv == Init => IInv
<1> SUFFICES ASSUME Init PROVE IInv
  OBVIOUS
<1>1. NoticeLemmas!IInv /\ streams = {} /\ Notices!TypeOK
  <2>1. NoticeLemmas!IInv
    BY SameNoticeTypes, NoticeLemmas!InitIInv, ColorAssumption, ConnectionAssumption DEF Init
  <2> QED BY <2>1, SameNoticeTypes DEF NoticeLemmas!IInv, Init, Notices!Init
<1>2. Directions = {}
  BY <1>1 DEF Directions
<1>3. TypeOK
  BY <1>1, <1>2 DEF Init, TypeOK
<1> QED
  BY <1>1, <1>2, <1>3
  DEF Init, IInv, FlowsAreSent, InProcess, NothingYet, FilterIsMade, FinishedIsClosed,
      HasEnded, FollowsWhatWasAskedFor

-----------------------------------------------------------------------------
(* Every action keeps the invariant. *)

LEMMA TypesNext ==
  ASSUME Notices!TypeOK', FlowsAreSent', flow' = [d \in Directions' |-> flow'[d]],
         pc' \in {"start", "loop", "process", "finish", "over", "caught", "returned", "killed"},
         pkt' \in TcpPacket \cup {[kind |-> "none"]},
         pc' \in {"process", "finish"} => pkt' \in TcpPacket,
         pc' \in {"start", "loop"} => pkt' = [kind |-> "none"]
  PROVE  TypeOK'
<1>1. \A d \in Directions' : IsFlow(flow'[d], Len(Content[d]))
  BY DEF FlowsAreSent
<1>2. flow' \in [Directions' -> Flow] /\ DOMAIN flow' = Directions'
  BY <1>1 DEF IsFlow
<1> QED BY <1>1, <1>2 DEF TypeOK, IsFlow

LEMMA Facts ==
  ASSUME IInv
  PROVE  /\ Notices!TypeOK /\ TypeOK /\ FlowsAreSent /\ InProcess
         /\ streams \subseteq Stream /\ Directions \subseteq Stream
         /\ flow \in [Directions -> Flow]
BY DirectionTypes DEF IInv, TypeOK, Notices!TypeOK, Stream

LEMMA OpenIInv ==
  ASSUME IInv, NoticeLemmas!IInv', Notices!TypeOK', NEW p \in TcpPacket,
         IsSelected(p), FollowSyn(p) \/ FollowPartial(p)
  PROVE  IInv'
<1>1. /\ p.dir \notin Directions /\ Flip(p.dir) \notin Directions
      /\ streams' = streams \cup {p.dir}
      /\ Directions' = Directions \cup {p.dir, Flip(p.dir)}
      /\ flow' = [d \in Directions' |-> flow'[d]]
      /\ \A d \in Directions : flow'[d] = flow[d]
      /\ \A d \in {p.dir, Flip(p.dir)} :
           IsFlow(flow'[d], Len(Content[d])) /\ flow'[d].state \in {"open", "unknown"}
  BY Facts, OpenEffect
<1>2. /\ pc = "loop" /\ UNCHANGED <<filter, flist, en_dns>> /\ chunk'.kind = "none"
      /\ \/ pc' = "loop" /\ pkt' = pkt
         \/ pc' = "process" /\ pkt' = p /\ p.kind = "data"
  BY DEF FollowSyn, FollowPartial, Quiet
<1>3. FlowsAreSent'
  BY <1>1 DEF IInv, FlowsAreSent
<1>4. TypeOK' /\ InProcess'
  BY <1>1, <1>2, <1>3, TypesNext DEF IInv, TypeOK, InProcess
<1>5. FinishedIsClosed'
  <2>1. ASSUME NEW s \in streams' PROVE ~ IsFinished(flow'[s], flow'[Flip(s)])
    <3>1. CASE s = p.dir
      BY <1>1, <3>1 DEF IsFinished
    <3>2. CASE s \in streams
      BY <1>1, <1>2, <3>2 DEF IInv, FinishedIsClosed, HasEnded, Directions
    <3> QED BY <1>1, <2>1, <3>1, <3>2
  <2> QED BY <2>1 DEF FinishedIsClosed
<1>6. FollowsWhatWasAskedFor'
  <2>1. filter = {PortClause} \cup HostClauses
    BY <1>2 DEF IInv, FilterIsMade
  <2>2. ASSUME NEW i \in DOMAIN flist
        PROVE  LET ends == {p.dir.client, p.dir.server}
               IN  /\ flist[i].type = "FILTER_MAC_T" => \E e \in ends : e.hw = flist[i].param
                   /\ flist[i].type = "FILTER_IP_T" => \E e \in ends : e.ip = flist[i].param
    <3>1. \A clause \in HostClause(flist[i]) : Satisfies(p, clause)
      BY <2>1 DEF IsSelected, HostClauses
    <3>2. CASE flist[i].type = "FILTER_MAC_T"
      BY <3>1, <3>2 DEF HostClause, Satisfies
    <3>3. CASE flist[i].type = "FILTER_IP_T"
      BY <3>1, <3>3 DEF HostClause, Satisfies
    <3> QED BY <3>2, <3>3
  <2> QED BY <1>1, <1>2, <2>2 DEF IInv, FollowsWhatWasAskedFor
<1> QED
  BY <1>2, <1>3, <1>4, <1>5, <1>6
  DEF IInv, NothingYet, FilterIsMade, PortClause, HostClauses, HostClause

(* What a packet of a followed stream leaves alone. *)
LEMMA ProcessTypes ==
  ASSUME IInv, NEW p \in TcpPacket, p.dir \in Directions, NEW g,
         IsFlow(g, Len(Content[p.dir])), flow' = [flow EXCEPT ![p.dir] = g],
         UNCHANGED noticeVars
  PROVE  /\ UNCHANGED streams /\ Directions' = Directions
         /\ flow' = [d \in Directions' |-> flow'[d]]
         /\ FlowsAreSent'
         /\ \A d \in Directions \ {p.dir} : flow'[d] = flow[d]
<1>1. UNCHANGED streams /\ Directions' = Directions
  BY DEF noticeVars, Directions
<1>2. /\ flow' = [d \in Directions' |-> flow'[d]]
      /\ flow'[p.dir] = g
      /\ \A d \in Directions \ {p.dir} : flow'[d] = flow[d]
  BY <1>1, Facts
<1> QED BY <1>1, <1>2, Facts DEF FlowsAreSent

LEMMA ContinueCases ==
  ASSUME NEW d, NEW newFlow, NEW kind
  PROVE  /\ kind = "thrown" => Continue(d, newFlow, kind) = "caught"
         /\ kind = "killed" => Continue(d, newFlow, kind) = "killed"
         /\ kind \notin {"thrown", "killed"} =>
              Continue(d, newFlow, kind) =
                IF IsFinished(newFlow[d], newFlow[Flip(d)]) THEN "finish" ELSE "loop"
BY DEF Continue

LEMMA ProcessIInv ==
  ASSUME IInv, NoticeLemmas!IInv', Notices!TypeOK', NEW p \in TcpPacket,
         p.dir \in Directions, pc \in {"loop", "process"}, process_packet(p)
  PROVE  IInv'
<1>1. /\ UNCHANGED <<noticeVars, flist, en_dns, filter>>
      /\ pc' = Continue(p.dir, flow', chunk'.kind)
      /\ pkt' = IF pc' = "finish" THEN p ELSE [kind |-> "none"]
  BY Facts, ProcessEffect
<1>2. PICK g : /\ IsFlow(g, Len(Content[p.dir]))
               /\ flow' = [flow EXCEPT ![p.dir] = g]
               /\ Advances(p.dir, g, p)
  BY Facts, ProcessEffect
<1>3. /\ UNCHANGED streams /\ Directions' = Directions
      /\ flow' = [d \in Directions' |-> flow'[d]]
      /\ FlowsAreSent'
      /\ \A d \in Directions \ {p.dir} : flow'[d] = flow[d]
  BY <1>1, <1>2, ProcessTypes
<1>4. pc' \in {"caught", "killed", "finish", "loop"}
  BY <1>1, ContinueCases
<1>5. TypeOK' /\ InProcess'
  BY <1>1, <1>3, <1>4, TypesNext DEF InProcess
<1>6. FinishedIsClosed'
  <2>1. SUFFICES ASSUME NEW s \in streams, IsFinished(flow'[s], flow'[Flip(s)]),
                        pc' \in {"finish", "loop"}
                 PROVE  pc' = "finish" /\ s = StreamOf(p.dir)'
    BY <1>1, <1>3, <1>4 DEF FinishedIsClosed, HasEnded, StreamOf
  <2>2. StreamOf(p.dir)' = StreamOf(p.dir)
    BY <1>3 DEF StreamOf
  <2>3. /\ streams \subseteq Stream /\ p.dir \in Stream
        /\ \A t \in streams : Flip(t) \in streams => Flip(t) = t
        /\ s \in Directions /\ Flip(s) \in Directions
    BY Facts, DirectionTypes DEF Notices!TypeOK, Flip, Directions
  <2>4. CASE p.dir \in {s, Flip(s)}
    <3>1. s = StreamOf(p.dir) /\ {p.dir, Flip(p.dir)} = {s, Flip(s)}
      BY <2>3, <2>4, FlipTwice DEF StreamOf
    <3>2. IsFinished(flow'[p.dir], flow'[Flip(p.dir)])
      BY <2>1, <2>3, <2>4, FlipTwice DEF IsFinished
    <3> QED BY <1>1, <2>1, <2>2, <3>1, <3>2, ContinueCases
  <2>5. CASE p.dir \notin {s, Flip(s)}
    <3>1. IsFinished(flow[s], flow[Flip(s)])
      BY <1>3, <2>1, <2>3, <2>5
    <3> QED BY <3>1 DEF IInv, FinishedIsClosed, HasEnded
  <2> QED BY <2>4, <2>5
<1>7. NothingYet' /\ FollowsWhatWasAskedFor'
  BY <1>1, <1>3, <1>4 DEF IInv, NothingYet, FollowsWhatWasAskedFor
<1>8. FilterIsMade'
  BY <1>1 DEF IInv, FilterIsMade, PortClause, HostClauses, HostClause
<1> QED BY <1>3, <1>5, <1>6, <1>7, <1>8 DEF IInv

(* A stream is closed, or forgotten: the others keep what they have. *)
LEMMA DropIInv ==
  ASSUME IInv, NoticeLemmas!IInv', Notices!TypeOK',
         NEW s \in streams, streams' = streams \ {s},
         flow' = [d \in Directions \ {s, Flip(s)} |-> flow[d]],
         pc \in {"loop", "finish"}, pc = "finish" => s = StreamOf(pkt.dir),
         pc' = "loop", pkt' = [kind |-> "none"], chunk'.kind = "none",
         UNCHANGED <<flist, en_dns, filter>>
  PROVE  IInv'
<1>1. Directions' = Directions \ {s, Flip(s)}
  BY Facts, DropEffect
<1>2. /\ flow' = [d \in Directions' |-> flow'[d]]
      /\ \A d \in Directions' : d \in Directions /\ flow'[d] = flow[d]
  BY <1>1
<1>3. FlowsAreSent'
  BY <1>2, Facts DEF FlowsAreSent
<1>4. TypeOK' /\ InProcess'
  BY <1>2, <1>3, TypesNext DEF InProcess
<1>5. FinishedIsClosed'
  <2>1. SUFFICES ASSUME NEW r \in streams \ {s} PROVE ~ IsFinished(flow'[r], flow'[Flip(r)])
    BY DEF FinishedIsClosed
  <2>2. r \in Directions' /\ Flip(r) \in Directions'
    BY DEF Directions
  <2>3. ~ IsFinished(flow[r], flow[Flip(r)])
    BY <2>1 DEF IInv, FinishedIsClosed, HasEnded
  <2> QED BY <1>2, <2>2, <2>3
<1>6. FilterIsMade'
  BY DEF IInv, FilterIsMade, PortClause, HostClauses, HostClause
<1>7. NothingYet' /\ FollowsWhatWasAskedFor'
  BY DEF IInv, NothingYet, FollowsWhatWasAskedFor
<1> QED BY <1>3, <1>4, <1>5, <1>6, <1>7 DEF IInv

LEMMA ClosedEffect ==
  ASSUME IInv, Closed
  PROVE  \E s \in streams :
           /\ Notices!on_connection_closed(s)
           /\ streams' = streams \ {s}
           /\ flow' = [d \in Directions \ {s, Flip(s)} |-> flow[d]]
           /\ s = StreamOf(pkt.dir)
           /\ pc = "finish" /\ pc' = "loop" /\ pkt' = [kind |-> "none"]
           /\ Quiet /\ UNCHANGED <<flist, en_dns, filter>>
BY DEF Closed, Callbacks, Notices!on_connection_closed

LEMMA ForgetEffect ==
  ASSUME IInv, NEW s, Forget(s)
  PROVE  /\ Notices!Forget(s) /\ s \in streams /\ streams' = streams \ {s}
         /\ flow' = [d \in Directions \ {s, Flip(s)} |-> flow[d]]
         /\ pc = "loop" /\ pc' = "loop" /\ pkt' = [kind |-> "none"]
         /\ Quiet /\ UNCHANGED <<flist, en_dns, filter>>
BY DEF Forget, Notices!Forget, IInv, TypeOK

(* The actions that leave the streams and their directions alone. *)
LEMMA OtherIInv ==
  ASSUME IInv, NoticeLemmas!IInv', Notices!TypeOK',
         \/ BeginCapture \/ SnifferEnds \/ FlowOffTheEnd \/ UNCHANGED vars
         \/ \E p \in DnsPacket : dns_cb(p)
  PROVE  IInv'
<1>1. UNCHANGED <<streams, flow, pkt, flist, en_dns>>
  BY DEF BeginCapture, SnifferEnds, FlowOffTheEnd, vars, noticeVars, dns_cb
<1>2. \/ pc = "start" /\ pc' \in {"loop", "caught"} /\ chunk' = chunk
         /\ filter' = {PortClause} \cup HostClauses
      \/ /\ pc \in {"loop", "process"} /\ pc' \in {"over", "caught"}
         /\ UNCHANGED <<filter, chunk>>
      \/ /\ pc \in {"over", "caught"} /\ pc' \in {"returned", "killed"}
         /\ UNCHANGED <<filter, chunk>>
      \/ pc = "loop" /\ pc' = "loop" /\ filter' = filter
      \/ UNCHANGED <<pc, filter, chunk>>
  BY DEF BeginCapture, SnifferEnds, FlowOffTheEnd, vars, dns_cb
<1>3. /\ Directions' = Directions
      /\ flow' = [d \in Directions' |-> flow'[d]]
      /\ FlowsAreSent'
  BY <1>1, Facts DEF Directions, FlowsAreSent
<1>4. TypeOK' /\ InProcess'
  BY <1>1, <1>2, <1>3, Facts, TypesNext DEF TypeOK, InProcess
<1>5. FinishedIsClosed'
  BY <1>1, <1>2 DEF IInv, FinishedIsClosed, HasEnded, NothingYet, StreamOf
<1>6. FilterIsMade'
  BY <1>1, <1>2 DEF IInv, FilterIsMade, PortClause, HostClauses, HostClause
<1>7. NothingYet' /\ FollowsWhatWasAskedFor'
  BY <1>1, <1>2 DEF IInv, NothingYet, FollowsWhatWasAskedFor
<1> QED BY <1>3, <1>4, <1>5, <1>6, <1>7 DEF IInv

LEMMA NextIInv == IInv /\ [Next \/ Idle]_vars => IInv'
<1> SUFFICES ASSUME IInv, [Next \/ Idle]_vars PROVE IInv'
  OBVIOUS
<1>1. NoticeLemmas!IInv' /\ Notices!TypeOK'
  BY NoticeInvariant
<1>2. ASSUME Closed PROVE IInv'
  <2>1. PICK s \in streams :
          /\ streams' = streams \ {s}
          /\ flow' = [d \in Directions \ {s, Flip(s)} |-> flow[d]]
          /\ s = StreamOf(pkt.dir)
          /\ pc = "finish" /\ pc' = "loop" /\ pkt' = [kind |-> "none"]
          /\ Quiet /\ UNCHANGED <<flist, en_dns, filter>>
    BY <1>2, ClosedEffect
  <2>2. chunk'.kind = "none"
    BY <2>1 DEF Quiet
  <2> QED BY <1>1, <2>1, <2>2, DropIInv
<1>3. ASSUME NEW s \in Stream, Forget(s) PROVE IInv'
  <2>1. /\ s \in streams /\ streams' = streams \ {s}
        /\ flow' = [d \in Directions \ {s, Flip(s)} |-> flow[d]]
        /\ pc = "loop" /\ pc' = "loop" /\ pkt' = [kind |-> "none"]
        /\ Quiet /\ UNCHANGED <<flist, en_dns, filter>>
    BY <1>3, ForgetEffect
  <2>2. chunk'.kind = "none"
    BY <2>1 DEF Quiet
  <2> QED BY <1>1, <2>1, <2>2, DropIInv
<1>4. CASE UNCHANGED vars
  BY <1>1, <1>4, OtherIInv
<1>5. CASE Next \/ Idle
  <2>1. CASE Idle
    BY <1>4, <2>1 DEF Idle
  <2> QED BY <1>1, <1>2, <1>3, <1>5, <2>1, Facts, Steps, OpenIInv, ProcessIInv, OtherIInv
<1> QED BY <1>4, <1>5

(* The flows hold what was sent, and a chunk is what was passed on of it. *)
THEOREM IInvHolds == Spec => []IInv
BY InitIInv, NextIInv, PTL DEF Spec

-----------------------------------------------------------------------------
(* Every variable of the capture keeps its type. *)
THEOREM TypeCorrect == Spec => []TypeOK
<1>1. IInv => TypeOK
  BY DEF IInv
<1> QED BY <1>1, IInvHolds, PTL

(***************************************************************************)
(* The filter that make_filter joins from the options selects nothing but  *)
(* connections of every host they name.                                    *)
(***************************************************************************)
THEOREM OnlyWhatWasAskedFor == Spec => []FollowsWhatWasAskedFor
<1>1. IInv => FollowsWhatWasAskedFor
  BY DEF IInv
<1> QED BY <1>1, IInvHolds, PTL

(***************************************************************************)
(* No stream that is finished is dropped without its close notice: the     *)
(* follower calls on_connection_closed before it looks at its limits.      *)
(***************************************************************************)
THEOREM FinishedStreamsAreAnnounced == Spec => FinishIsAnnounced
<1>1. ASSUME IInv, [Next \/ Idle]_vars
      PROVE  [\A s \in streams \ streams' :
                IsFinished(flow[s], flow[Flip(s)]) =>
                  notice'.kind = "---" /\ notice'.stream = s]_vars
  <2> SUFFICES ASSUME Next \/ Idle, NEW s \in streams \ streams',
                      IsFinished(flow[s], flow[Flip(s)])
               PROVE  notice'.kind = "---" /\ notice'.stream = s
    BY <1>1
  <2>1. CASE Closed
    <3>1. PICK r \in streams : Notices!on_connection_closed(r) /\ streams' = streams \ {r}
      BY <1>1, <2>1, ClosedEffect
    <3>2. notice' = [kind |-> "---", stream |-> r, color |-> reply'.color]
      BY <3>1 DEF Notices!on_connection_closed, Notices!addRmStream
    <3> QED BY <3>1, <3>2
  <2>2. ASSUME NEW r \in Stream, Forget(r) PROVE FALSE
    <3>1. r = s /\ pc = "loop"
      BY <1>1, <2>2, ForgetEffect
    <3> QED BY <1>1, <3>1 DEF IInv, FinishedIsClosed, HasEnded
  <2>3. ASSUME NEW p \in TcpPacket, FollowSyn(p) \/ FollowPartial(p) PROVE FALSE
    BY <1>1, <2>3, Facts, OpenEffect
  <2>4. ASSUME UNCHANGED streams PROVE FALSE
    BY <2>4
  <2> QED
    BY <1>1, <2>1, <2>2, <2>3, <2>4, Facts, Steps
    DEF BeginCapture, SnifferEnds, FlowOffTheEnd, Idle, vars, noticeVars, dns_cb, process_packet
<1> QED BY <1>1, IInvHolds, PTL DEF Spec, FinishIsAnnounced

-----------------------------------------------------------------------------
(***************************************************************************)
(* Whatever is captured in whichever order, the callbacks come in an order *)
(* that module Streams allows: what is proved of it holds for captures.    *)
(***************************************************************************)
THEOREM CaptureImplementsStreams == Spec => Notices!Spec
<1>1. Init => Notices!Init
  BY DEF Init
<1>2. IInv /\ [Next \/ Idle]_vars => [Notices!Next]_(Notices!vars)
  BY NoticeStep
<1> QED BY <1>1, <1>2, IInvHolds, PTL DEF Spec, Notices!Spec

(***************************************************************************)
(* A whole packet of a chunk is passed over only if it came early, or      *)
(* behind a first segment that came before the SYN-ACK.                    *)
(***************************************************************************)
LEMMA PassedOverWasEarly ==
  ASSUME IInv, NEW p \in TcpPacket, p.dir \in Directions, process_packet(p),
         chunk'.kind = "packet", NEW k \in chunk'.segs,
         report' # [dir |-> chunk'.dir, seg |-> k]
  PROVE  /\ chunk'.dir = p.dir
         /\ \/ k \in flow[p.dir].early
            \/ report'.seg = 1 /\ 1 \in flow[p.dir].early
<1> DEFINE d == p.dir
           f == flow[d]
<1>1. PICK g : IsFlow(g, Len(Content[d])) /\ Advances(d, g, p)
  BY Facts, ProcessEffect
<1>2. IsFlow(f, Len(Content[d])) /\ Len(Content[d]) \in Nat
  BY Facts, ContentAssumption, EmptySeq DEF FlowsAreSent
<1> DEFINE segs == f.next .. g.next - 1
<1>3. /\ on_data(d, segs)
      /\ segs \subseteq f.early \cup {p.seg}
      /\ g.next > f.next => f.next > 0 /\ Min(segs) = f.next
  BY <1>1 DEF Advances, Quiet
<1>4. /\ report' = [dir |-> d, seg |-> Min(segs)]
      /\ chunk' = [kind |-> "packet", dir |-> d, segs |-> segs]
  BY <1>3, DataEffect
<1>5. /\ f.next \in Nat /\ g.next \in Nat
      /\ f.next > 1 => \A m \in f.early : m > f.next
  BY <1>1, <1>2 DEF IsFlow
<1>6. k \in segs /\ g.next > f.next /\ f.next > 0 /\ Min(segs) = f.next /\ k > f.next
  <2>1. k \in segs
    BY <1>4
  <2>2. g.next > f.next /\ k >= f.next /\ k \in Int
    BY <1>5, <2>1
  <2>3. f.next > 0 /\ Min(segs) = f.next
    BY <1>3, <2>2
  <2>4. k # f.next
    BY <1>4, <2>3
  <2> QED BY <1>5, <2>1, <2>2, <2>3, <2>4
<1>7. CASE k = p.seg
  <2>1. f.next \in segs /\ f.next # p.seg
    BY <1>5, <1>6, <1>7
  <2>2. f.next \in f.early
    BY <1>3, <2>1
  <2>3. f.next = 1
    BY <1>5, <1>6, <2>2
  <2> QED BY <1>4, <1>6, <2>2, <2>3
<1> QED BY <1>3, <1>4, <1>6, <1>7

(***************************************************************************)
(* A capture loses a whole packet that dissect() would report only when    *)
(* tins had it early, or it lies behind a first segment that came before   *)
(* the SYN-ACK: dissect() looks at the first packet of each chunk.         *)
(***************************************************************************)
THEOREM EarlyPacketsAreLost == Spec => OnlyEarlyPacketsAreLost
<1>1. ASSUME IInv, [Next \/ Idle]_vars
      PROVE  [\A d \in Directions : \A k \in DOMAIN Content[d] :
                /\ chunk' # chunk /\ chunk'.kind = "packet" /\ chunk'.dir = d
                /\ k \in chunk'.segs /\ report' # [dir |-> d, seg |-> k]
                /\ Content[d][k] = "whole"
                => \/ k \in flow[d].early
                   \/ report'.seg = 1 /\ 1 \in flow[d].early]_vars
  <2> SUFFICES ASSUME Next \/ Idle, NEW d \in Directions, NEW k \in DOMAIN Content[d],
                      chunk' # chunk, chunk'.kind = "packet", chunk'.dir = d,
                      k \in chunk'.segs, report' # [dir |-> d, seg |-> k]
               PROVE  k \in flow[d].early \/ (report'.seg = 1 /\ 1 \in flow[d].early)
    BY <1>1
  <2>1. ASSUME NEW p \in TcpPacket, p.dir \in Directions, process_packet(p)
        PROVE  k \in flow[d].early \/ (report'.seg = 1 /\ 1 \in flow[d].early)
    BY <1>1, <2>1, PassedOverWasEarly
  <2>2. ~ Quiet
    BY DEF Quiet
  <2>3. ~ (SnifferEnds \/ FlowOffTheEnd \/ BeginCapture \/ Idle \/ \E p \in DnsPacket : dns_cb(p))
    BY DEF SnifferEnds, FlowOffTheEnd, BeginCapture, Idle, vars, dns_cb
  <2> QED
    BY <1>1, <2>1, <2>2, <2>3, Facts, Steps
    DEF FollowSyn, FollowPartial, Closed, Forget
<1> QED BY <1>1, IInvHolds, PTL DEF Spec, OnlyEarlyPacketsAreLost

(* A packet in two segments is reported from a chunk that has both of them. *)
LEMMA JoinedWasEarly ==
  ASSUME IInv, NEW p \in TcpPacket, p.dir \in Directions, process_packet(p),
         NEW d \in Directions, NEW k \in DOMAIN Content[d],
         report' = [dir |-> d, seg |-> k], Content[d][k] = "head"
  PROVE  {k, k + 1} \cap flow[d].early # {}
<1>1. PICK g : IsFlow(g, Len(Content[p.dir])) /\ Advances(p.dir, g, p)
  BY Facts, ProcessEffect
<1> DEFINE segs == flow[p.dir].next .. g.next - 1
<1>2. Content[d] \in Seq({"whole", "head", "tail"}) /\ k > 0
  BY Facts, ContentAssumption, EmptySeq
<1>3. on_data(p.dir, segs) /\ segs \subseteq flow[p.dir].early \cup {p.seg}
  BY <1>1, <1>2 DEF Advances, Quiet
<1>4. segs # {} /\ BeginsWithPacket(p.dir, segs) /\ p.dir = d /\ k = Min(segs)
  BY <1>2, <1>3, DataEffect
<1>5. k + 1 \in segs
  BY <1>4 DEF BeginsWithPacket
<1>6. k \in segs
  <2>1. flow[p.dir].next \in Nat /\ g.next \in Nat
    BY <1>1, Facts DEF FlowsAreSent, IsFlow
  <2>2. g.next > flow[p.dir].next
    BY <1>4, <2>1
  <2>3. Min(segs) = flow[p.dir].next
    BY <1>1, <1>4, <2>2 DEF Advances, Quiet
  <2> QED BY <1>4, <2>1, <2>2, <2>3
<1>7. k # k + 1
  BY <1>2
<1> QED BY <1>3, <1>4, <1>5, <1>6, <1>7

(***************************************************************************)
(* The dissector does not put packets together that come in two segments:  *)
(* one is reported only if a segment of it was captured before its turn.   *)
(***************************************************************************)
THEOREM InOrderPacketsAreNotJoined == Spec => OnlyReorderingJoinsPackets
<1>1. ASSUME IInv, [Next \/ Idle]_vars
      PROVE  [\A d \in Directions : \A k \in DOMAIN Content[d] :
                /\ chunk' # chunk /\ report' = [dir |-> d, seg |-> k]
                /\ Content[d][k] = "head"
                => {k, k + 1} \cap flow[d].early # {}]_vars
  <2> SUFFICES ASSUME Next \/ Idle, NEW d \in Directions, NEW k \in DOMAIN Content[d],
                      chunk' # chunk, report' = [dir |-> d, seg |-> k],
                      Content[d][k] = "head"
               PROVE  {k, k + 1} \cap flow[d].early # {}
    BY <1>1
  <2>1. ASSUME NEW p \in TcpPacket, p.dir \in Directions, process_packet(p)
        PROVE  {k, k + 1} \cap flow[d].early # {}
    BY <1>1, <2>1, JoinedWasEarly
  <2>2. report' # [seg |-> 0]
    OBVIOUS
  <2>3. ~ Quiet
    BY <2>2 DEF Quiet
  <2>4. ~ (SnifferEnds \/ FlowOffTheEnd \/ BeginCapture \/ Idle \/ \E p \in DnsPacket : dns_cb(p))
    BY <2>2 DEF SnifferEnds, FlowOffTheEnd, BeginCapture, Idle, vars, dns_cb
  <2> QED
    BY <1>1, <2>1, <2>3, <2>4, Facts, Steps
    DEF FollowSyn, FollowPartial, Closed, Forget
<1> QED BY <1>1, IInvHolds, PTL DEF Spec, OnlyReorderingJoinsPackets

-----------------------------------------------------------------------------
(* The capture implements Reporter. *)

LEMMA ReporterDirections ==
  /\ streams \subseteq Stream => Reports!Directions(streams) = Directions
  /\ streams' \subseteq Stream => Reports!Directions(streams') = Directions'
BY DEF Reports!Directions, Directions

(* The direction of a packet goes on to the segment behind what is handed on. *)
LEMMA ProcessReports ==
  ASSUME IInv, NEW p \in TcpPacket, p.dir \in Directions, process_packet(p)
  PROVE  Reports!Next
<1> DEFINE d == p.dir
           f == flow[d]
           n == Len(Content[d])
           place == [e \in DOMAIN flow |-> flow[e].next]
<1>1. UNCHANGED streams
  BY DEF process_packet, noticeVars
<1>2. PICK g : IsFlow(g, n) /\ flow' = [flow EXCEPT ![d] = g] /\ Advances(d, g, p)
  BY Facts, ProcessEffect
<1>3. /\ DOMAIN flow = Directions /\ d \in Stream /\ n \in Nat
      /\ IsFlow(f, n) /\ place[d] = f.next
      /\ d \in Reports!Directions(streams)
  BY Facts, ReporterDirections, TcpPacketTypes, ContentAssumption, EmptySeq DEF FlowsAreSent
<1>4. /\ f.next \in Nat /\ g.next \in 0 .. n + 1
      /\ place' = [place EXCEPT ![d] = g.next]
  <2>1. f.next \in Nat /\ g.next \in 0 .. n + 1
    BY <1>2, <1>3 DEF IsFlow
  <2>2. DOMAIN flow' = DOMAIN flow
    BY <1>2
  <2>3. \A e \in DOMAIN flow : flow'[e].next = IF e = d THEN g.next ELSE flow[e].next
    BY <1>2, <1>3
  <2>4. place' = [e \in DOMAIN flow |-> flow'[e].next]
    BY <2>2
  <2> QED BY <2>1, <2>3, <2>4
<1>5. CASE g.next = f.next
  <2>1. place' = place
    BY <1>3, <1>4, <1>5
  <2>2. report' = Reports!Nothing
    <3>1. f.next .. g.next - 1 = {}
      BY <1>4, <1>5
    <3> QED BY <1>2, <3>1, DataEffect DEF Advances, Quiet, Reports!Nothing
  <2> QED BY <1>1, <2>1, <2>2 DEF Reports!Next, Reports!Rest
<1>6. CASE g.next # f.next
  <2> DEFINE here == [dir |-> d, seg |-> place[d]]
  <2>1. g.next \in place[d] + 1 .. n + 1
    BY <1>2, <1>3, <1>4, <1>6 DEF Advances
  <2>2. CASE f.next = 0
    <3>1. report' = Reports!Nothing
      BY <1>2, <1>4, <1>6, <2>2 DEF Advances, Quiet, Reports!Nothing
    <3>2. Reports!GoOn(d)
      BY <1>1, <1>3, <1>4, <2>1, <2>2, <3>1 DEF Reports!GoOn
    <3> QED BY <1>3, <3>2 DEF Reports!Next
  <2>3. CASE f.next # 0
    <3> DEFINE segs == f.next .. g.next - 1
    <3>1. on_data(d, segs) /\ g.next > f.next /\ Min(segs) = f.next
      BY <1>2, <1>4, <1>6, <2>3 DEF Advances
    <3>2. segs # {}
      BY <1>4, <3>1
    <3> HIDE DEF segs
    <3>3. report' \in {Reports!Nothing, here}
      BY <1>3, <3>1, <3>2, DataEffect DEF Reports!Nothing
    <3>4. Content[d][place[d]] = "whole" => report' = here
      <4>1. SUFFICES ASSUME Content[d][Min(segs)] = "whole" PROVE report' = here
        BY <1>3, <3>1
      <4>2. BeginsWithPacket(d, segs)
        BY <4>1 DEF BeginsWithPacket
      <4>3. report' = [dir |-> d, seg |-> Min(segs)]
        BY <3>1, <3>2, <4>2, DataEffect
      <4> QED BY <1>3, <3>1, <4>3
    <3> HIDE DEF here
    <3>5. CASE Content[d][place[d]] = "whole"
      <4>1. Reports!GoOn(d)
        BY <1>1, <1>3, <1>4, <2>1, <2>3, <3>4, <3>5 DEF Reports!GoOn, here
      <4> QED BY <1>3, <4>1 DEF Reports!Next
    <3>6. CASE Content[d][place[d]] # "whole"
      <4>1. Reports!GoOn(d)
        BY <1>1, <1>3, <1>4, <2>1, <2>3, <3>3, <3>6 DEF Reports!GoOn, here
      <4> QED BY <1>3, <4>1 DEF Reports!Next
    <3> QED BY <3>5, <3>6
  <2> QED BY <2>2, <2>3
<1> QED BY <1>5, <1>6

LEMMA ReporterStep ==
  ASSUME IInv, IInv', [Next \/ Idle]_vars
  PROVE  [Reports!Next]_(Reports!vars)
<1> DEFINE place == [d \in DOMAIN flow |-> flow[d].next]
<1>1. /\ Reports!Directions(streams) = Directions
      /\ Reports!Directions(streams') = Directions'
      /\ streams \subseteq Stream /\ streams' \subseteq Stream
      /\ DOMAIN flow = Directions /\ DOMAIN flow' = Directions'
  <2>1. streams \subseteq Stream /\ DOMAIN flow = Directions
    BY Facts
  <2>2. streams' \subseteq Stream /\ DOMAIN flow' = Directions'
    BY DEF IInv, TypeOK, Notices!TypeOK, Stream
  <2> QED BY <2>1, <2>2, ReporterDirections
<1>2. ASSUME NEW p \in TcpPacket, FollowSyn(p) \/ FollowPartial(p)
      PROVE  Reports!Next
  <2>1. /\ p.dir \in Stream /\ p.dir \notin Directions
        /\ streams' = streams \cup {p.dir}
        /\ Directions \subseteq Directions'
        /\ \A d \in Directions : flow'[d] = flow[d]
    BY <1>1, <1>2, OpenEffect, TcpPacketTypes
  <2>2. /\ DOMAIN place' = Directions'
        /\ \A d \in Directions : place'[d] = place[d]
    BY <1>1, <2>1
  <2>3. report' = Reports!Nothing
    BY <1>2 DEF FollowSyn, FollowPartial, Quiet, Reports!Nothing
  <2>4. Reports!Open(p.dir)
    BY <1>1, <2>1, <2>2, <2>3 DEF Reports!Open
  <2> QED BY <2>1, <2>4 DEF Reports!Next
<1>3. ASSUME NEW s \in streams, streams' = streams \ {s}, Quiet,
             flow' = [d \in Directions \ {s, Flip(s)} |-> flow[d]]
      PROVE  Reports!Next
  <2>1. \A d \in Directions' : d \in Directions /\ flow'[d] = flow[d]
    BY <1>1, <1>3
  <2>2. place' = [d \in Directions' |-> place[d]]
    BY <1>1, <2>1
  <2>3. Reports!Close(s)
    BY <1>1, <1>3, <2>2 DEF Reports!Close, Quiet, Reports!Nothing
  <2> QED BY <1>1, <2>3 DEF Reports!Next
<1>4. ASSUME UNCHANGED <<streams, flow>>, report' = [seg |-> 0] \/ UNCHANGED report
      PROVE  [Reports!Next]_(Reports!vars)
  BY <1>4 DEF Reports!Next, Reports!Rest, Reports!vars, Reports!Nothing
<1>5. CASE UNCHANGED vars
  BY <1>4, <1>5 DEF vars, noticeVars
<1>6. CASE Next \/ Idle
  <2>1. ASSUME Closed PROVE Reports!Next
    BY <1>3, <2>1, ClosedEffect
  <2>2. ASSUME NEW s \in Stream, Forget(s) PROVE Reports!Next
    BY <1>3, <2>2, ForgetEffect
  <2>3. ASSUME NEW p \in TcpPacket, p.dir \in Directions, process_packet(p)
        PROVE  Reports!Next
    BY <2>3, ProcessReports
  <2>4. ASSUME BeginCapture \/ SnifferEnds \/ FlowOffTheEnd \/ Idle \/ \E p \in DnsPacket : dns_cb(p)
        PROVE  [Reports!Next]_(Reports!vars)
    BY <1>4, <2>4 DEF BeginCapture, SnifferEnds, FlowOffTheEnd, Idle, vars, noticeVars, dns_cb
  <2> QED BY <1>2, <1>6, <2>1, <2>2, <2>3, <2>4, Facts, Steps
<1> QED BY <1>5, <1>6

(***************************************************************************)
(* Whatever is lost, repeated or reordered on its way to the capture: the  *)
(* packets of a direction are reported in the order they were sent, none   *)
(* twice, and only between the notices of its stream.                      *)
(***************************************************************************)
THEOREM CaptureImplementsReporter == Spec => ImplementsReporter
<1>1. ASSUME Init PROVE Reports!Init
  <2>1. streams = {} /\ DOMAIN flow = {} /\ report = [seg |-> 0]
    BY <1>1 DEF Init, Notices!Init
  <2> QED BY <2>1 DEF Reports!Init, Reports!Nothing
<1>2. IInv /\ IInv' /\ [Next \/ Idle]_vars => [Reports!Next]_(Reports!vars)
  BY ReporterStep
<1> QED
  BY <1>1, <1>2, IInvHolds, PTL DEF Spec, ImplementsReporter, Reports!Spec

=============================================================================
