------------------------------ MODULE Follower ------------------------------
(***************************************************************************)
(* What libtins does with the segments of one direction of a TCP stream,   *)
(* as far as src/dissect.cpp depends on it.  It is not code of the         *)
(* repository.  Segments are numbered from 1 in the order of their sequence *)
(* numbers; each is captured once, several times or never, at any time.    *)
(***************************************************************************)
EXTENDS Integers, FiniteSets

FlowState == {"unknown", "open", "fin", "rst"}

(* next is the segment waited for, early those that came before it. *)
Flow == [state : FlowState, next : Nat, early : SUBSET Nat]

(* The server of a stream whose SYN was captured: its numbers are not known. *)
UnknownFlow == [state |-> "unknown", next |-> 0, early |-> {}]

FlowFrom(k) == [state |-> "open", next |-> k, early |-> {}]

(* A SYN-ACK makes the numbers known. *)
Synchronise(f) ==
  IF f.state = "unknown" THEN [state |-> "open", next |-> 1, early |-> f.early] ELSE f

(* A FIN counts as soon as it is captured, even before data sent ahead of it. *)
Finish(f) == [f EXCEPT !.state = "fin"]
Reset(f)  == [f EXCEPT !.state = "rst"]

IsFinished(f, g) ==
  \/ "rst" \in {f.state, g.state}
  \/ f.state = "fin" /\ g.state = "fin"

(* The segments without a gap from next on. *)
Run(next, arrived) == {m \in arrived : m >= next /\ next .. m \subseteq arrived}

(***************************************************************************)
(* Segment k is captured: the flow after it, whether the data callback is  *)
(* called, and the segments handed to it.  The segments that waited for    *)
(* this one are handed on with it, in one chunk.  Of a repeated segment    *)
(* nothing is new; if it is the last one, what is left of it is an empty   *)
(* chunk, with which the callback is called.  While the numbers are        *)
(* unknown a segment looks far ahead, and waits, or far behind, and is     *)
(* dropped.  The first definition is a mutant of the second.               *)
(***************************************************************************)
OnlyTheArrived(f, k) ==                                 \* mutant of Arrivals
  {[flow |-> IF k = f.next THEN [f EXCEPT !.next = k + 1]
                           ELSE [f EXCEPT !.early = @ \cup {k}],
    calls |-> k = f.next, chunk |-> {k}]}

Arrivals(f, k) ==
  LET run == Run(f.next, f.early \cup {k})
      Quiet(flow) == [flow |-> flow, calls |-> FALSE, chunk |-> {}]
  IN  CASE f.next = 0 -> {Quiet(f), Quiet([f EXCEPT !.early = @ \cup {k}])}
        [] f.next > 0 /\ k < f.next ->
             {[flow |-> f, calls |-> k = f.next - 1, chunk |-> {}]}
        [] OTHER ->
             {[flow |-> [state |-> f.state, next |-> f.next + Cardinality(run),
                         early |-> (f.early \cup {k}) \ run],
               calls |-> run # {}, chunk |-> run]}

=============================================================================
