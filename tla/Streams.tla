------------------------------- MODULE Streams -------------------------------
(***************************************************************************)
(* The TCP streams the dissector follows and the notices it prints when    *)
(* one opens and closes: on_new_connection, on_connection_closed and       *)
(* addRmStream of src/dissect.cpp, which use the colour table of module    *)
(* ConnPairs.                                                              *)
(*                                                                         *)
(* The stream follower is libtins code.  What the dissector sees of it: a  *)
(* stream is followed from a SYN, or, since partial streams are followed   *)
(* too, from the first data packet of an unknown stream, whose sender then *)
(* counts as the client; the closed callback comes once, when both sides   *)
(* sent a FIN or one a RST; a stream that is idle for too long or buffers  *)
(* too much is forgotten, which the dissector is not told because it       *)
(* registers no termination callback.                                      *)
(***************************************************************************)
EXTENDS Integers

CONSTANTS
  Connection,       \* the TCP connections on the wire, as streams
  LOCALHOST_HEX,    \* the address named "localhost"
  LO_HEX,           \* the address named "lo"
  MAX_COLOR_DEFS    \* the number of colours, 8 in the code

(* A stream has a client and a server endpoint: MAC, IPv4 address and port. *)
Flip(s) == [client |-> s.server, server |-> s.client]

ASSUME ColorAssumption == MAX_COLOR_DEFS \in Nat \ {0}

ASSUME ConnectionAssumption ==
  \A s \in Connection : s = [client |-> s.client, server |-> s.server]

Stream == Connection \cup {Flip(s) : s \in Connection}

ip_hex_to_name(iphex) ==
  CASE iphex = LOCALHOST_HEX -> "localhost"
    [] iphex = LO_HEX        -> "lo"
    [] OTHER                 -> "N/A"

(***************************************************************************)
(* The id string of addRmStream: no port is part of it.  The hash of the   *)
(* string is taken to be injective.                                        *)
(***************************************************************************)
IdOf(s) == <<s.client.hw, s.client.ip, ip_hex_to_name(s.server.ip)>>

Id == {IdOf(s) : s \in Stream}

VARIABLES
  streams,          \* the streams the follower follows
  cm, colmp, taken_colors, reply,   \* cPairs, the colour table
  painted,          \* the colour of the open notice of every followed stream
  notice,           \* the last notice printed: which stream, in which colour
  (* What happened to the ids of streams; read by no action. *)
  orphaned,         \* followed streams whose id another stream has popped
  leaked            \* ids whose last stream was forgotten without a pop

Table == INSTANCE ConnPairs WITH Hash <- Id

table == <<cm, colmp, taken_colors, reply>>
vars  == <<streams, table, painted, notice, orphaned, leaked>>

Init ==
  /\ streams = {}
  /\ Table!Init
  /\ painted = [s \in {} |-> 0]
  /\ notice = [kind |-> "none"]
  /\ orphaned = {}
  /\ leaked = {}

Siblings(s) == {t \in streams \ {s} : IdOf(t) = IdOf(s)}

(***************************************************************************)
(* addRmStream pushes or pops the id of a stream and prints the notice in  *)
(* the colour it gets back.  The first definition is a mutant: a plausible *)
(* mistake in the other, used by nothing.                                  *)
(***************************************************************************)
AlwaysAdds(s, adding) ==                                 \* mutant of addRmStream
  /\ Table!push(IdOf(s))
  /\ notice' = [kind |-> IF adding THEN "+++" ELSE "---",
                stream |-> s, color |-> reply'.color]

addRmStream(s, adding) ==
  /\ IF adding THEN Table!push(IdOf(s)) ELSE Table!pop(IdOf(s))
  /\ notice' = [kind |-> IF adding THEN "+++" ELSE "---",
                stream |-> s, color |-> reply'.color]

(***************************************************************************)
(* The follower meets a stream it does not follow, in this direction or    *)
(* the other: on_new_connection adds it and registers the data and closed  *)
(* callbacks of the stream.                                                *)
(***************************************************************************)
on_new_connection(s) ==
  /\ s \notin streams /\ Flip(s) \notin streams
  /\ streams' = streams \cup {s}
  /\ addRmStream(s, TRUE)
  /\ painted' = [t \in streams' |-> IF t = s THEN reply'.color ELSE painted[t]]
  /\ leaked' = leaked \ {IdOf(s)}
  /\ UNCHANGED orphaned

(***************************************************************************)
(* A followed stream finishes: on_connection_closed removes it.            *)
(***************************************************************************)
on_connection_closed(s) ==
  /\ s \in streams
  /\ streams' = streams \ {s}
  /\ addRmStream(s, FALSE)
  /\ painted' = [t \in streams' |-> painted[t]]
  /\ orphaned' = (orphaned \cup Siblings(s)) \ {s}
  /\ leaked' = leaked \ {IdOf(s)}

(***************************************************************************)
(* The follower forgets a stream because of a timeout or of its buffer     *)
(* limits.  No callback of the dissector runs.                             *)
(***************************************************************************)
Forget(s) ==
  /\ s \in streams
  /\ streams' = streams \ {s}
  /\ painted' = [t \in streams' |-> painted[t]]
  /\ orphaned' = orphaned \ {s}
  /\ leaked' = IF IdOf(s) \in cm /\ Siblings(s) \subseteq orphaned
               THEN leaked \cup {IdOf(s)} ELSE leaked
  /\ UNCHANGED <<table, notice>>

Next ==
  \E s \in Stream : on_new_connection(s) \/ on_connection_closed(s) \/ Forget(s)

Spec == Init /\ [][Next]_vars

-----------------------------------------------------------------------------
(***************************************************************************)
(* Properties.                                                             *)
(***************************************************************************)

Color == Table!Color

NoticeType ==
  [kind : {"none"}] \cup [kind : {"+++", "---"}, stream : Stream, color : Color]

(* Every variable has its type; no connection is followed in both directions. *)
TypeOK ==
  /\ streams \subseteq Stream
  /\ \A s \in streams : Flip(s) \in streams => Flip(s) = s
  /\ Table!TypeOK
  /\ painted \in [streams -> Color]
  /\ notice \in NoticeType
  /\ orphaned \subseteq streams
  /\ leaked \subseteq Id

(***************************************************************************)
(* The table holds the ids of the followed streams and nothing else, but   *)
(* for two exceptions: an id is missing if another stream with the same id *)
(* has closed, and it stays if its last stream was forgotten without a     *)
(* close.  So the colours are used up only by streams that are forgotten.  *)
(***************************************************************************)
TableIsAccountedFor ==
  cm = {IdOf(s) : s \in streams \ orphaned} \cup leaked

(***************************************************************************)
(* As long as its id is in the table, the table has for a stream the       *)
(* colour its open notice was printed in, whatever other streams opened    *)
(* and closed since and even if the colours ran out in between.            *)
(***************************************************************************)
ColourIsKept ==
  \A s \in streams \ orphaned : painted[s] = Table!ColourOf(IdOf(s))

(***************************************************************************)
(* A reader of the output can tell streams apart: two followed streams     *)
(* with different ids were announced in different colours, unless in       *)
(* colour 0 or unless the id of one was popped by another stream.          *)
(***************************************************************************)
PaintedApart ==
  \A s, t \in streams \ orphaned :
    painted[s] = painted[t] /\ painted[s] # 0 => IdOf(s) = IdOf(t)

(* The step prints the close notice of s. *)
Closes(s) == s \in streams /\ s \notin streams' /\ notice' # notice

(***************************************************************************)
(* The close notice of a stream has the colour of its open notice, and pop *)
(* reports no error, unless another stream with the same id has closed     *)
(* since it was opened.                                                    *)
(***************************************************************************)
UnsharedCloseNoticeMatches ==
  [][\A s \in Stream : Closes(s) /\ s \notin orphaned =>
       notice'.color = painted[s] /\ ~ reply'.error]_vars

(***************************************************************************)
(* What the comment of pop says, "return the old color so it prints        *)
(* matching close notice": every close notice has the colour of the open   *)
(* notice.                                                                 *)
(***************************************************************************)
CloseNoticeMatches ==
  [][\A s \in Stream : Closes(s) => notice'.color = painted[s]]_vars

(***************************************************************************)
(* What a reader of the output can rely on, as a pool of the ids that are  *)
(* announced.  An id is in the pool, in the colour of its open notice,     *)
(* while a stream is followed that has it and no sibling has popped it.    *)
(***************************************************************************)
Announced == {IdOf(s) : s \in streams \ orphaned}

Announcer(h) == CHOOSE s \in streams \ orphaned : IdOf(s) = h

AnnouncedIn == [h \in Announced |-> painted[Announcer(h)]]

IdPool == INSTANCE ColourPool WITH Hash <- Id, Shared <- {0}, painted <- AnnouncedIn

(***************************************************************************)
(* The open notices implement the colour pool, for any connections: an id  *)
(* is announced in a colour that no other announced id has, except colour  *)
(* 0, by every stream that shares it, and keeps it until its last one ends *)
(* or one of them closes.                                                  *)
(***************************************************************************)
ImplementsIdPool == IdPool!Spec

=============================================================================
