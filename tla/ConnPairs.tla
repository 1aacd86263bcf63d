------------------------------ MODULE ConnPairs ------------------------------
(***************************************************************************)
(* The table of known connections and of the colours they are painted in:  *)
(* class TU::ConnPairs of src/include/tins_utils.hpp, with its two         *)
(* operations push and pop.                                                *)
(*                                                                         *)
(* A connection is known by the hash of its id string; the string that _cm *)
(* stores with the hash is never read back and is left out, so _cm is the  *)
(* set of its keys.  push and pop may be called with any hash in any       *)
(* order: which calls the dissector really makes is the subject of module  *)
(* Streams.                                                                *)
(*                                                                         *)
(* A definition marked as a mutant is a plausible mistake in the one named *)
(* and is used by nothing; it shows which properties would notice it.      *)
(***************************************************************************)
EXTENDS Integers

CONSTANTS
  Hash,             \* the hashes of the connection ids
  MAX_COLOR_DEFS    \* the number of colours, 8 in the code

ASSUME ColorAssumption == MAX_COLOR_DEFS \in Nat \ {0}

VARIABLES
  cm,               \* keys of _cm: the hashes of the known connections
  colmp,            \* _colmp: the colour of a hash, a partial map
  taken_colors,     \* which colours are in use
  reply             \* what the last call returned, and whether it failed

vars == <<cm, colmp, taken_colors, reply>>

Color == 0 .. MAX_COLOR_DEFS - 1

(* The value of the C++ expression _colmp[h]: a missing key reads as 0. *)
ColourOf(h) == IF h \in DOMAIN colmp THEN colmp[h] ELSE 0

AnyColour(c) == c \in Color                             \* mutant of IsFirstFree
IsFirstFree(c) ==
  /\ ~ taken_colors[c]
  /\ \A d \in Color : d < c => taken_colors[d]

PoolIsFull == \A c \in Color : taken_colors[c]

Init ==
  /\ cm = {}
  /\ colmp = [h \in {} |-> 0]
  /\ taken_colors = [c \in Color |-> FALSE]
  /\ reply = [color |-> 0, error |-> FALSE]

Return(c) == reply' = [color |-> c, error |-> FALSE]

PushRecolours(h) ==                                     \* mutant of PushKnown
  /\ h \in cm
  /\ \E c \in Color :
       /\ IF h \in DOMAIN colmp THEN c = colmp[h] ELSE c = 0 \/ ~ taken_colors[c]
       /\ colmp' = [g \in DOMAIN colmp \cup {h} |-> IF g = h THEN c ELSE colmp[g]]
       /\ taken_colors' = [taken_colors EXCEPT ![c] = TRUE]
       /\ Return(c)
  /\ UNCHANGED cm

(***************************************************************************)
(* push of a hash that is known already: its colour, or 0 if it was given  *)
(* none.  Nothing is allocated, even if a colour has become free since.    *)
(***************************************************************************)
PushKnown(h) ==
  /\ h \in cm
  /\ Return(ColourOf(h))
  /\ UNCHANGED <<cm, colmp, taken_colors>>

(* push of a new hash, which takes the first free colour. *)
PushNew(h) ==
  /\ h \notin cm
  /\ cm' = cm \cup {h}
  /\ \E c \in Color :
       /\ IsFirstFree(c)
       /\ colmp' = [g \in DOMAIN colmp \cup {h} |-> IF g = h THEN c ELSE colmp[g]]
       /\ taken_colors' = [taken_colors EXCEPT ![c] = TRUE]
       /\ Return(c)

(* push of a new hash when no colour is free: it is known but colourless. *)
PushFull(h) ==
  /\ h \notin cm
  /\ PoolIsFull
  /\ cm' = cm \cup {h}
  /\ Return(0)
  /\ UNCHANGED <<colmp, taken_colors>>

push(h) == PushKnown(h) \/ PushNew(h) \/ PushFull(h)

(***************************************************************************)
(* pop of a known hash.  _colmp[hash] of a colourless connection creates   *)
(* the entry 0, so colour 0 is freed whoever has it; the entry is erased   *)
(* again at the end.                                                       *)
(***************************************************************************)
FreeNothing(h) == UNCHANGED taken_colors                      \* mutant of Free
Free(h) == taken_colors' = [taken_colors EXCEPT ![ColourOf(h)] = FALSE]

EraseNothing(h) == UNCHANGED colmp                            \* mutant of Erase
Erase(h) == colmp' = [g \in DOMAIN colmp \ {h} |-> colmp[g]]

PopErasesFirst(h) ==                                     \* mutant of PopKnown
  /\ h \in cm
  /\ cm' = cm \ {h}
  /\ Erase(h)
  /\ taken_colors' = [taken_colors EXCEPT ![ColourOf(h)'] = FALSE]
  /\ Return(ColourOf(h)')

PopKnown(h) ==
  /\ h \in cm
  /\ Free(h)
  /\ cm' = cm \ {h}
  /\ Erase(h)
  /\ Return(ColourOf(h))

(* pop of an unknown hash prints an error and returns colour 0. *)
PopUnknown(h) ==
  /\ h \notin cm
  /\ reply' = [color |-> 0, error |-> TRUE]
  /\ UNCHANGED <<cm, colmp, taken_colors>>

pop(h) == PopKnown(h) \/ PopUnknown(h)

Next == \E h \in Hash : push(h) \/ pop(h)

Spec == Init /\ [][Next]_vars

-----------------------------------------------------------------------------
(***************************************************************************)
(* Properties.                                                             *)
(***************************************************************************)

(* Every variable has its type; a coloured connection is a known one. *)
TypeOK ==
  /\ cm \subseteq Hash
  /\ DOMAIN colmp \subseteq cm
  /\ colmp \in [DOMAIN colmp -> Color]
  /\ taken_colors \in [Color -> BOOLEAN]
  /\ reply \in [color : Color, error : BOOLEAN]

(***************************************************************************)
(* No colour leaks out of the table: a colour that is marked as taken is   *)
(* the colour of some known connection, whatever order push and pop were   *)
(* called in and whatever connections were pushed while the pool was full. *)
(***************************************************************************)
TakenIsHeld ==
  \A c \in Color : taken_colors[c] => \E h \in DOMAIN colmp : colmp[h] = c

(***************************************************************************)
(* Every colour but 0 is exclusive and stays reserved: a connection that   *)
(* has it is the only one that has it, and it is marked as taken, so that  *)
(* push cannot give it away a second time.                                 *)
(***************************************************************************)
NonZeroIsExclusive ==
  \A h \in DOMAIN colmp : colmp[h] # 0 =>
    /\ taken_colors[colmp[h]]
    /\ \A g \in DOMAIN colmp : colmp[g] = colmp[h] => g = h

(***************************************************************************)
(* As long as a connection is known, no call of push or pop, for it or for *)
(* another one, changes the colour it is printed in: not even the pop of a *)
(* colourless connection, which writes the entry _colmp[hash] and erases   *)
(* it again.                                                               *)
(***************************************************************************)
ColourIsStable ==
  [][\A h \in cm : h \in cm' => ColourOf(h)' = ColourOf(h)]_vars

(***************************************************************************)
(* The comment of pop, "mark as free again": a colour is marked as free    *)
(* only by the pop of the connection that had it.                          *)
(***************************************************************************)
FreedByItsHolder ==
  [][\A c \in Color : taken_colors[c] /\ ~ taken_colors'[c] =>
       \E h \in DOMAIN colmp : colmp[h] = c /\ h \notin cm']_vars

(***************************************************************************)
(* The colours connections are printed in: colourless ones in colour 0.    *)
(* Read so, the table is a ColourPool in which only colour 0 is shared.    *)
(***************************************************************************)
Painted == [h \in cm |-> ColourOf(h)]

Overflowing == INSTANCE ColourPool WITH painted <- Painted, Shared <- {0}

(* The table implements the pool in which colour 0 may be shared. *)
ImplementsPool == Overflowing!Spec

Exclusive == INSTANCE ColourPool WITH painted <- Painted, Shared <- {}

(***************************************************************************)
(* The table implements the pool in which no colour is ever shared.  This  *)
(* needs an environment with no more connection ids than colours.          *)
(***************************************************************************)
ImplementsExclusivePool == Exclusive!Spec

=============================================================================
