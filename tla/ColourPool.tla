----------------------------- MODULE ColourPool -----------------------------
(***************************************************************************)
(* What the colour table of mqtt-dissector promises, without the table: a  *)
(* connection is painted in one colour from the moment it is tracked until *)
(* it is forgotten, and two tracked connections never have the same colour *)
(* unless that colour is one of Shared.                                    *)
(*                                                                         *)
(* The pool is unlimited in the number of connections; only the colours    *)
(* are few.  With Shared = {} an acquisition is possible only while some   *)
(* colour is unused, with Shared # {} it is always possible.               *)
(***************************************************************************)
CONSTANTS
  Hash,    \* the connections, named by their hash
  Color,   \* the colours a connection can be painted in
  Shared   \* a subset of Color: the colours several connections may have at once

VARIABLE painted   \* the colour of every tracked connection

Tracked == DOMAIN painted

Init == painted = [h \in {} |-> 0]

(* A connection that is not tracked takes a shared colour or an unused one. *)
Acquire(h, c) ==
  /\ h \notin Tracked
  /\ c \in Shared \/ \A g \in Tracked : painted[g] # c
  /\ painted' = [g \in Tracked \cup {h} |-> IF g = h THEN c ELSE painted[g]]

(* A tracked connection is forgotten, the others keep their colours. *)
Release(h) ==
  /\ h \in Tracked
  /\ painted' = [g \in Tracked \ {h} |-> painted[g]]

Next == \E h \in Hash : Release(h) \/ \E c \in Color : Acquire(h, c)

Spec == Init /\ [][Next]_painted

=============================================================================
