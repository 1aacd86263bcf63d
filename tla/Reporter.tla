------------------------------ MODULE Reporter ------------------------------
(***************************************************************************)
(* What the dissector promises about the packets of TCP streams, without   *)
(* saying how segments are put in order: between the open notice and the   *)
(* close notice of a stream it goes through the segments of each direction *)
(* in the order they were sent, never back, and reports the packet at the  *)
(* place it has come to.  Segments that it passes over in the same step    *)
(* are not reported.                                                       *)
(***************************************************************************)
EXTENDS Integers, Sequences

CONSTANTS
  Stream,      \* the streams, each with a direction
  OtherSide,   \* the stream in the other direction
  Content      \* of each direction, whether a segment is a "whole" packet

VARIABLES
  open,       \* the streams with an open notice and no close notice
  place,      \* per direction the segment to go on with, 0 if not yet known
  report      \* the packet just reported, by direction and segment

vars == <<open, place, report>>

Directions(streams) == streams \cup {OtherSide[s] : s \in streams}

Nothing == [seg |-> 0]

Init ==
  /\ open = {}
  /\ place = [d \in {} |-> 0]
  /\ report = Nothing

(* From where a stream is followed is not promised. *)
Open(s) ==
  /\ s \notin Directions(open)
  /\ open' = open \cup {s}
  /\ DOMAIN place' = Directions(open')
  /\ \A d \in Directions(open) : place'[d] = place[d]
  /\ report' = Nothing

GoOn(d) ==
  LET here == [dir |-> d, seg |-> place[d]]
  IN  /\ d \in Directions(open)
      /\ \E n \in place[d] + 1 .. Len(Content[d]) + 1 :
           place' = [place EXCEPT ![d] = n]
      /\ CASE place[d] = 0                    -> report' = Nothing
           [] place[d] > 0
              /\ Content[d][place[d]] = "whole" -> report' = here
           [] OTHER                           -> report' \in {Nothing, here}
  /\ UNCHANGED open

(* A close notice, or the stream is forgotten without one. *)
Close(s) ==
  /\ s \in open
  /\ open' = open \ {s}
  /\ place' = [d \in Directions(open') |-> place[d]]
  /\ report' = Nothing

Rest == report' = Nothing /\ UNCHANGED <<open, place>>

Next == Rest \/ \E s \in Stream : Open(s) \/ Close(s) \/ GoOn(s)

Spec == Init /\ [][Next]_vars

=============================================================================
