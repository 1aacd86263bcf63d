------------------------------- MODULE Capture -------------------------------
(***************************************************************************)
(* The capture of packets: dissect() of src/dissect.cpp with its filter,   *)
(* the loop of the sniffer and what it does with each packet, dns_cb, and  *)
(* the callbacks of the stream follower.  The notices are those of module  *)
(* Streams.  The dissection of a chunk, the subject of module HandlePkt,   *)
(* is here one step with the outcomes that module has.                     *)
(*                                                                         *)
(* A packet is captured, or not, at any time and any number of times: the  *)
(* capture sees retransmissions and other orders than the receiver, and    *)
(* misses what the kernel drops.                                           *)
(***************************************************************************)
EXTENDS Follower, Sequences, FiniteSetsExt

CONSTANTS
  Connection, LOCALHOST_HEX, LO_HEX, MAX_COLOR_DEFS,   \* see Streams
  Forgettable,   \* the streams that may come to the limits of the follower
  Content,       \* of each direction, the segments: "whole" packets, or the
                 \* "head" and the "tail" of a packet in two segments
  FilterLists,   \* the lists of filters that main() may pass
  EnDns          \* the values of option -dns to look at

VARIABLES
  streams, cm, colmp, taken_colors, reply, painted, notice, orphaned, leaked,
  pc,
  flist, en_dns,   \* arguments of dissect()
  filter,          \* the filter string, as the set of its clauses
  pkt,             \* the packet that is being processed
  flow,            \* the two directions of every followed stream
  report,          \* the packet reported last, by direction and segment
  chunk            \* the chunk dissected last: direction, segments, outcome

Notices == INSTANCE Streams

noticeVars == <<streams, cm, colmp, taken_colors, reply, painted, notice,
                orphaned, leaked>>
vars == <<noticeVars, pc, flist, en_dns, filter, pkt, flow, report, chunk>>

Stream  == Notices!Stream
Flip(s) == Notices!Flip(s)

ASSUME ColorAssumption == MAX_COLOR_DEFS \in Nat \ {0}

ASSUME ConnectionAssumption ==
  \A s \in Connection : s = [client |-> s.client, server |-> s.server]

ASSUME ContentAssumption ==
  \A d \in Stream : Content[d] \in Seq({"whole", "head", "tail"})

(* A packet on the wire is named by its direction, the sender as client. *)
TcpPacket ==
       [kind : {"syn"}, dir : Connection]
  \cup [kind : {"syn-ack"}, dir : {Flip(s) : s \in Connection}]
  \cup [kind : {"fin", "rst"}, dir : Stream]
  \cup (UNION {[kind : {"data"}, dir : {d}, seg : DOMAIN Content[d],
                fin : {FALSE}] : d \in Stream})
  \cup {[kind |-> "data", dir |-> d, seg |-> Len(Content[d]), fin |-> TRUE] :
          d \in {e \in Stream : Content[e] # <<>>}}

(* A DNS query, with a payload that libtins can parse or one it cannot. *)
DnsPacket == [kind : {"dns"}, dir : Connection, legal : BOOLEAN]

Directions == streams \cup {Flip(s) : s \in streams}
StreamOf(d) == IF d \in streams THEN d ELSE Flip(d)

Init ==
  /\ Notices!Init
  /\ pc = "start"
  /\ flist \in FilterLists
  /\ en_dns \in EnDns
  /\ filter = {}
  /\ pkt = [kind |-> "none"]
  /\ flow = [d \in {} |-> UnknownFlow]
  /\ report = [seg |-> 0]
  /\ chunk = [kind |-> "none"]

-----------------------------------------------------------------------------
(***************************************************************************)
(* The filter: the ports, and one clause per filter of the command line.   *)
(* An entry of another type is passed over.                                *)
(***************************************************************************)
PortClause == IF en_dns THEN <<"ports", {"mqtt", "dns"}>> ELSE <<"ports", {"mqtt"}>>

HostClause(f) ==
  CASE f.type = "FILTER_MAC_T" -> {<<"ether host", f.param>>}
    [] f.type = "FILTER_IP_T"  -> {<<"ip host", f.param>>}
    [] OTHER                   -> {}

LastHostOnly == IF flist = <<>> THEN {} ELSE HostClause(flist[Len(flist)])  \* mutant of HostClauses
HostClauses == UNION {HostClause(flist[i]) : i \in DOMAIN flist}

(* What pcap makes of a clause: "host" is the source or the destination. *)
Satisfies(p, clause) ==
  CASE clause[1] = "ports"      -> (IF p.kind = "dns" THEN "dns" ELSE "mqtt") \in clause[2]
    [] clause[1] = "ether host" -> clause[2] \in {p.dir.client.hw, p.dir.server.hw}
    [] clause[1] = "ip host"    -> clause[2] \in {p.dir.client.ip, p.dir.server.ip}

IsSelected(p) == \A clause \in filter : Satisfies(p, clause)

(***************************************************************************)
(* The sniffer is constructed with the filter, which throws if the device  *)
(* cannot be opened or the filter has no meaning to pcap.                  *)
(***************************************************************************)
BeginCapture ==
  /\ pc = "start"
  /\ filter' = {PortClause} \cup HostClauses
  /\ pc' \in {"loop", "caught"}
  /\ UNCHANGED <<noticeVars, flist, en_dns, pkt, flow, report, chunk>>

-----------------------------------------------------------------------------
(* Nothing is dissected. *)
Quiet == report' = [seg |-> 0] /\ chunk' = [kind |-> "none"]

(***************************************************************************)
(* handle_mqtt_pkt dissects the packet at the head of a chunk: see         *)
(* FirstPacketIsReported of module HandlePkt.  If the packet does not end  *)
(* in the chunk, or the chunk begins inside of a packet, anything may be   *)
(* printed, and the handler may throw or kill the program.                 *)
(***************************************************************************)
BeginsWithPacket(d, segs) ==
  LET k == Min(segs)
  IN  \/ Content[d][k] = "whole"
      \/ Content[d][k] = "head" /\ k + 1 \in segs

handle_mqtt_pkt(d, segs) ==
  IF segs # {} /\ BeginsWithPacket(d, segs)
  THEN /\ report' = [dir |-> d, seg |-> Min(segs)]
       /\ chunk' = [kind |-> "packet", dir |-> d, segs |-> segs]
  ELSE /\ report' = [seg |-> 0]
       /\ chunk' \in [kind : IF segs = {} THEN {"nothing"}
                             ELSE {"garbage", "thrown", "killed"},
                      dir : {d}, segs : {segs}]

on_client_data(d, segs) == handle_mqtt_pkt(d, segs)

on_server_data(d, segs) ==
  IF segs = {}
  THEN /\ chunk' = [kind |-> "0 len packet?", dir |-> d, segs |-> segs]
       /\ report' = [seg |-> 0]
  ELSE handle_mqtt_pkt(d, segs)

on_data(d, segs) ==
  IF d \in streams THEN on_client_data(d, segs) ELSE on_server_data(d, segs)

(* auto_cleanup_payloads: the next chunk has no segment of this one. *)
EverythingSoFar(segs) == 1 .. Max(segs \cup {0})     \* mutant of AutoCleanup
AutoCleanup(segs) == segs

(* The callbacks that on_new_connection registers with the new stream. *)
DataCallbacksOnly == {"client data", "server data"}    \* mutant of Callbacks
Callbacks == {"client data", "server data", "stream closed"}

-----------------------------------------------------------------------------
(***************************************************************************)
(* A packet of a stream that is not followed.  A SYN is the beginning of   *)
(* one; data make one too, because partial streams are followed, and are   *)
(* then processed.  Anything else is ignored.                              *)
(***************************************************************************)
NewStream(p, client, server) ==
  /\ Notices!on_new_connection(p.dir)
  /\ flow' = [d \in Directions \cup {p.dir, Flip(p.dir)} |->
                IF d = p.dir THEN client
                ELSE IF d = Flip(p.dir) THEN server ELSE flow[d]]

FollowSyn(p) ==
  /\ pc = "loop" /\ p.kind = "syn" /\ p.dir \notin Directions
  /\ NewStream(p, FlowFrom(1), UnknownFlow)
  /\ Quiet
  /\ UNCHANGED <<pc, flist, en_dns, filter, pkt>>

(* Its acknowledgement tells how much the other side has sent. *)
FollowPartial(p) ==
  /\ pc = "loop" /\ p.kind = "data" /\ p.dir \notin Directions
  /\ \E ack \in 1 .. Len(Content[Flip(p.dir)]) + 1 :
       NewStream(p, FlowFrom(p.seg), FlowFrom(ack))
  /\ pkt' = p
  /\ pc' = "process"
  /\ Quiet
  /\ UNCHANGED <<flist, en_dns, filter>>

(* After the data callback: an exception passes through the follower. *)
Continue(d, newFlow, kind) ==
  CASE kind = "thrown" -> "caught"
    [] kind = "killed" -> "killed"
    [] OTHER -> IF IsFinished(newFlow[d], newFlow[Flip(d)]) THEN "finish" ELSE "loop"

Signal(p) ==
  /\ p.kind \in {"syn", "syn-ack", "fin", "rst"}
  /\ flow' = [flow EXCEPT ![p.dir] =
                CASE p.kind = "syn"     -> @
                  [] p.kind = "syn-ack" -> Synchronise(@)
                  [] p.kind = "fin"     -> Finish(@)
                  [] p.kind = "rst"     -> Reset(@)]
  /\ Quiet
  /\ pc' = Continue(p.dir, flow', chunk'.kind)

Data(p) ==
  /\ p.kind = "data"
  /\ LET f == IF p.fin THEN Finish(flow[p.dir]) ELSE flow[p.dir]
     IN  \E r \in Arrivals(f, p.seg) :
           /\ flow' = [flow EXCEPT ![p.dir] = r.flow]
           /\ IF r.calls THEN on_data(p.dir, AutoCleanup(r.chunk)) ELSE Quiet
  /\ pc' = Continue(p.dir, flow', chunk'.kind)

(* A packet of a followed stream, or the one that has just started one. *)
process_packet(p) ==
  /\ Signal(p) \/ Data(p)
  /\ pkt' = IF pc' = "finish" THEN p ELSE [kind |-> "none"]
  /\ UNCHANGED <<noticeVars, flist, en_dns, filter>>

ProcessFollowed(p) ==
  /\ pc = "loop" /\ p.kind # "dns" /\ p.dir \in Directions
  /\ process_packet(p)

ProcessFirst == pc = "process" /\ \E p \in {pkt} : process_packet(p)

(* The follower calls the closed callback and drops the stream. *)
Closed ==
  \E s \in streams :
    /\ pc = "finish" /\ s = StreamOf(pkt.dir)
    /\ IF "stream closed" \in Callbacks
         THEN Notices!on_connection_closed(s)
         ELSE Notices!Forget(s)
    /\ flow' = [d \in Directions \ {s, Flip(s)} |-> flow[d]]
    /\ pkt' = [kind |-> "none"]
    /\ pc' = "loop"
    /\ Quiet
    /\ UNCHANGED <<flist, en_dns, filter>>

(* The limits and timeouts of the follower, of which it tells nobody. *)
Forget(s) ==
  /\ pc = "loop" /\ s \in Forgettable
  /\ Notices!Forget(s)
  /\ flow' = [d \in Directions \ {s, Flip(s)} |-> flow[d]]
  /\ Quiet
  /\ UNCHANGED <<pc, flist, en_dns, filter, pkt>>

(***************************************************************************)
(* dns_cb prints the queries of a packet.  An exception that says that the *)
(* payload is missing or malformed is swallowed by the sniffer's loop.     *)
(***************************************************************************)
dns_cb(p) ==
  /\ pc = "loop" /\ p.kind = "dns"
  /\ chunk' = [kind |-> IF p.legal THEN "dns" ELSE "swallowed"]
  /\ report' = [seg |-> 0]
  /\ UNCHANGED <<noticeVars, pc, flist, en_dns, filter, pkt, flow>>

(***************************************************************************)
(* sniff_loop returns by itself when pcap has no more packets: it failed,  *)
(* or the interface is gone.  libtins may also throw an exception of its   *)
(* own while it processes a packet, which the loop does not swallow.       *)
(***************************************************************************)
SnifferEnds ==
  /\ \/ pc = "loop" /\ pc' \in {"over", "caught"}
     \/ pc = "process" /\ pc' = "caught"
  /\ UNCHANGED <<noticeVars, flist, en_dns, filter, pkt, flow, report, chunk>>

(***************************************************************************)
(* Behind the loop and the exception handler dissect() has no return:      *)
(* see the README.                                                         *)
(***************************************************************************)
FlowOffTheEnd ==
  /\ pc \in {"over", "caught"}
  /\ pc' \in {"returned", "killed"}
  /\ UNCHANGED <<noticeVars, flist, en_dns, filter, pkt, flow, report, chunk>>

sniff(p) ==
  /\ IsSelected(p)
  /\ FollowSyn(p) \/ FollowPartial(p) \/ ProcessFollowed(p) \/ dns_cb(p)

Step == BeginCapture \/ ProcessFirst \/ Closed \/ SnifferEnds \/ FlowOffTheEnd

Next ==
  \/ \E p \in TcpPacket \cup DnsPacket : sniff(p)
  \/ \E s \in Stream : Forget(s)
  \/ Step

(* The sniffer waits for a packet that the filter selects, or all is over. *)
Idle == pc \in {"loop", "returned", "killed"} /\ UNCHANGED vars

Spec == Init /\ [][Next \/ Idle]_vars

-----------------------------------------------------------------------------
(***************************************************************************)
(* Properties.                                                             *)
(***************************************************************************)

(* Every variable has its type; both directions of a stream are followed. *)
TypeOK ==
  /\ Notices!TypeOK
  /\ pc \in {"start", "loop", "process", "finish",
            "over", "caught", "returned", "killed"}
  /\ flow \in [Directions -> Flow]
  /\ \A d \in DOMAIN flow :
       /\ flow[d].next \in 0 .. Len(Content[d]) + 1
       /\ flow[d].next > 1 => \A k \in flow[d].early : k > flow[d].next
  /\ CASE pc \in {"process", "finish"} -> pkt \in TcpPacket
       [] pc \in {"start", "loop"}      -> pkt = [kind |-> "none"]
       [] OTHER                         -> pkt \in TcpPacket \cup {[kind |-> "none"]}

Reports == INSTANCE Reporter WITH
  open <- streams,
  place <- [d \in DOMAIN flow |-> flow[d].next],
  OtherSide <- [s \in Stream |-> Flip(s)]

(***************************************************************************)
(* Whatever is lost, repeated or reordered on its way to the capture: the  *)
(* packets of a direction are reported in the order they were sent, none   *)
(* twice, none before the open or after the close notice of its stream,    *)
(* and the packet at the head of a chunk is not passed over.               *)
(***************************************************************************)
ImplementsReporter == Reports!Spec

(***************************************************************************)
(* A whole packet that is handed to a data callback and not reported had   *)
(* been captured before the segment it was waiting for, or follows a first *)
(* segment that was captured before the SYN-ACK: without a gap and in      *)
(* order, no packet that fits its segment is lost.                         *)
(***************************************************************************)
OnlyEarlyPacketsAreLost ==
  [][\A d \in Directions : \A k \in DOMAIN Content[d] :
       /\ chunk' # chunk /\ chunk'.kind = "packet" /\ chunk'.dir = d
       /\ k \in chunk'.segs /\ report' # [dir |-> d, seg |-> k]
       /\ Content[d][k] = "whole"
       => \/ k \in flow[d].early
          \/ report'.seg = 1 /\ 1 \in flow[d].early]_vars

(***************************************************************************)
(* The chunks of a stream are not joined, since payloads are cleaned up    *)
(* after each callback: a packet in two segments is reported only if one   *)
(* of them was captured before its turn and so handed on with the other.   *)
(***************************************************************************)
OnlyReorderingJoinsPackets ==
  [][\A d \in Directions : \A k \in DOMAIN Content[d] :
       /\ chunk' # chunk /\ report' = [dir |-> d, seg |-> k]
       /\ Content[d][k] = "head"
       => {k, k + 1} \cap flow[d].early # {}]_vars

(***************************************************************************)
(* The streams that are followed, and announced, are connections of every  *)
(* host named by the options, seen in both directions.                     *)
(***************************************************************************)
FollowsWhatWasAskedFor ==
  \A s \in streams, i \in DOMAIN flist :
    LET ends == {s.client, s.server}
    IN  CASE flist[i].type = "FILTER_MAC_T" -> \E e \in ends : e.hw = flist[i].param
          [] flist[i].type = "FILTER_IP_T"  -> \E e \in ends : e.ip = flist[i].param
          [] OTHER -> TRUE

(* A stream that both sides have finished, or one has reset, gets its close notice. *)
FinishIsAnnounced ==
  [][\A s \in streams \ streams' :
       IsFinished(flow[s], flow[Flip(s)]) =>
         notice'.kind = "---" /\ notice'.stream = s]_vars

=============================================================================
