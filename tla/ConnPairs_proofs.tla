-------------------------- MODULE ConnPairs_proofs --------------------------
(***************************************************************************)
(* Proofs about the colour table, for every set of connection ids and      *)
(* every number of colours.                                                *)
(***************************************************************************)
EXTENDS ConnPairs, FiniteSets, FiniteSetTheorems, TLAPS

(***************************************************************************)
(* The inductive invariant.  ColourIsStable and the refinement need all    *)
(* three parts: NonZeroIsExclusive is inductive only if a free colour has  *)
(* no holder but possibly 0, which is what it says of taken_colors.        *)
(***************************************************************************)
IInv == TypeOK /\ TakenIsHeld /\ NonZeroIsExclusive

LEMMA ZeroIsAColour == 0 \in Color
BY ColorAssumption DEF Color

LEMMA ColourOfType == ASSUME TypeOK, NEW h PROVE ColourOf(h) \in Color
BY ZeroIsAColour DEF TypeOK, ColourOf

-----------------------------------------------------------------------------
(* What one step of each operation preserves. *)

LEMMA InitIInv == Init => IInv
BY ZeroIsAColour DEF Init, IInv, TypeOK, TakenIsHeld, NonZeroIsExclusive

LEMMA PushKnownIInv ==
  ASSUME IInv, NEW h \in Hash, PushKnown(h) PROVE IInv'
<1>1. TypeOK'
  BY ColourOfType DEF IInv, TypeOK, PushKnown, Return
<1>2. TakenIsHeld'
  BY DEF IInv, TakenIsHeld, PushKnown
<1>3. NonZeroIsExclusive'
  BY DEF IInv, NonZeroIsExclusive, PushKnown
<1> QED BY <1>1, <1>2, <1>3 DEF IInv

LEMMA PushNewIInv ==
  ASSUME IInv, NEW h \in Hash, PushNew(h) PROVE IInv'
<1>1. PICK c \in Color :
        /\ IsFirstFree(c)
        /\ colmp' = [g \in DOMAIN colmp \cup {h} |-> IF g = h THEN c ELSE colmp[g]]
        /\ taken_colors' = [taken_colors EXCEPT ![c] = TRUE]
        /\ Return(c)
  BY DEF PushNew
<1>2. h \notin DOMAIN colmp /\ ~ taken_colors[c]
  BY <1>1 DEF IInv, TypeOK, PushNew, IsFirstFree
<1>3. TypeOK'
  <2>1. cm' \subseteq Hash /\ DOMAIN colmp' \subseteq cm'
    BY <1>1 DEF IInv, TypeOK, PushNew
  <2>2. colmp' \in [DOMAIN colmp' -> Color]
    BY <1>1 DEF IInv, TypeOK
  <2>3. taken_colors' \in [Color -> BOOLEAN]
    BY <1>1 DEF IInv, TypeOK
  <2>4. reply' \in [color : Color, error : BOOLEAN]
    BY <1>1 DEF Return
  <2> QED BY <2>1, <2>2, <2>3, <2>4 DEF TypeOK
<1>4. TakenIsHeld'
  <2> SUFFICES ASSUME NEW d \in Color, taken_colors'[d]
               PROVE  \E g \in DOMAIN colmp' : colmp'[g] = d
    BY DEF TakenIsHeld
  <2>1. CASE d = c
    BY <1>1, <2>1
  <2>2. CASE d # c
    <3>1. taken_colors[d]
      BY <1>1, <2>2 DEF IInv, TypeOK
    <3>2. PICK g \in DOMAIN colmp : colmp[g] = d
      BY <3>1 DEF IInv, TakenIsHeld
    <3> QED BY <1>1, <1>2, <3>2
  <2> QED BY <2>1, <2>2
<1>5. NonZeroIsExclusive'
  <2> SUFFICES ASSUME NEW g \in DOMAIN colmp', colmp'[g] # 0
               PROVE  /\ taken_colors'[colmp'[g]]
                      /\ \A k \in DOMAIN colmp' : colmp'[k] = colmp'[g] => k = g
    BY DEF NonZeroIsExclusive
  <2>1. \A k \in DOMAIN colmp : colmp[k] # 0 => colmp[k] # c
    BY <1>2 DEF IInv, NonZeroIsExclusive
  <2>2. CASE g = h
    BY <1>1, <1>2, <2>1, <2>2 DEF IInv, TypeOK
  <2>3. CASE g # h
    BY <1>1, <1>2, <2>1, <2>3 DEF IInv, TypeOK, NonZeroIsExclusive
  <2> QED BY <2>2, <2>3
<1> QED BY <1>3, <1>4, <1>5 DEF IInv

LEMMA PushFullIInv ==
  ASSUME IInv, NEW h \in Hash, PushFull(h) PROVE IInv'
<1>1. TypeOK'
  BY ZeroIsAColour DEF IInv, TypeOK, PushFull, Return
<1>2. TakenIsHeld'
  BY DEF IInv, TakenIsHeld, PushFull
<1>3. NonZeroIsExclusive'
  BY DEF IInv, NonZeroIsExclusive, PushFull
<1> QED BY <1>1, <1>2, <1>3 DEF IInv

LEMMA PopKnownIInv ==
  ASSUME IInv, NEW h \in Hash, PopKnown(h) PROVE IInv'
<1>1. ColourOf(h) \in Color
  BY ColourOfType DEF IInv
<1>2. TypeOK'
  BY <1>1 DEF IInv, TypeOK, PopKnown, Free, Erase, Return
<1>3. TakenIsHeld'
  <2> SUFFICES ASSUME NEW d \in Color, taken_colors'[d]
               PROVE  \E g \in DOMAIN colmp' : colmp'[g] = d
    BY DEF TakenIsHeld
  <2>1. taken_colors[d] /\ d # ColourOf(h)
    BY <1>1 DEF IInv, TypeOK, PopKnown, Free, Erase
  <2>2. PICK g \in DOMAIN colmp : colmp[g] = d
    BY <2>1 DEF IInv, TakenIsHeld
  <2>3. g # h
    BY <2>1, <2>2 DEF ColourOf
  <2> QED BY <2>2, <2>3 DEF PopKnown, Free, Erase
<1>4. NonZeroIsExclusive'
  <2> SUFFICES ASSUME NEW g \in DOMAIN colmp', colmp'[g] # 0
               PROVE  /\ taken_colors'[colmp'[g]]
                      /\ \A k \in DOMAIN colmp' : colmp'[k] = colmp'[g] => k = g
    BY DEF NonZeroIsExclusive
  <2>1. g \in DOMAIN colmp /\ g # h /\ colmp'[g] = colmp[g]
    BY DEF PopKnown, Free, Erase
  <2>2. colmp[g] \in Color /\ colmp[g] # 0
    BY <2>1 DEF IInv, TypeOK
  <2>3. ColourOf(h) # colmp[g]
    BY <2>1, <2>2 DEF ColourOf, IInv, NonZeroIsExclusive
  <2>4. taken_colors'[colmp'[g]]
    BY <1>1, <2>1, <2>2, <2>3 DEF IInv, TypeOK, PopKnown, Free, Erase, NonZeroIsExclusive
  <2>5. \A k \in DOMAIN colmp' : colmp'[k] = colmp'[g] => k = g
    BY <2>1, <2>2 DEF IInv, PopKnown, Free, Erase, NonZeroIsExclusive
  <2> QED BY <2>4, <2>5
<1> QED BY <1>2, <1>3, <1>4 DEF IInv

LEMMA PopUnknownIInv ==
  ASSUME IInv, NEW h \in Hash, PopUnknown(h) PROVE IInv'
<1>1. TypeOK'
  BY ZeroIsAColour DEF IInv, TypeOK, PopUnknown
<1>2. TakenIsHeld'
  BY DEF IInv, TakenIsHeld, PopUnknown
<1>3. NonZeroIsExclusive'
  BY DEF IInv, NonZeroIsExclusive, PopUnknown
<1> QED BY <1>1, <1>2, <1>3 DEF IInv

LEMMA NextIInv == IInv /\ [Next]_vars => IInv'
<1> SUFFICES ASSUME IInv, [Next]_vars PROVE IInv'
  OBVIOUS
<1>1. CASE UNCHANGED vars
  BY <1>1 DEF vars, IInv, TypeOK, TakenIsHeld, NonZeroIsExclusive
<1>2. CASE Next
  <2>1. PICK h \in Hash : push(h) \/ pop(h)
    BY <1>2 DEF Next
  <2> QED
    BY <2>1, PushKnownIInv, PushNewIInv, PushFullIInv, PopKnownIInv, PopUnknownIInv
    DEF push, pop
<1> QED BY <1>1, <1>2

(* In every state a taken colour is held, and no colour but 0 by two. *)
THEOREM IInvHolds == Spec => []IInv
BY InitIInv, NextIInv, PTL DEF Spec

-----------------------------------------------------------------------------
(* Every variable of the table keeps its type. *)
THEOREM TypeCorrect == Spec => []TypeOK
<1>1. IInv => TypeOK
  BY DEF IInv
<1> QED BY <1>1, IInvHolds, PTL

(* No colour is marked as taken without a connection that has it (push, pop). *)
THEOREM NoColourLeaks == Spec => []TakenIsHeld
<1>1. IInv => TakenIsHeld
  BY DEF IInv
<1> QED BY <1>1, IInvHolds, PTL

(* Only colour 0 can ever be the colour of two connections (push, pop). *)
THEOREM OnlyZeroIsShared == Spec => []NonZeroIsExclusive
<1>1. IInv => NonZeroIsExclusive
  BY DEF IInv
<1> QED BY <1>1, IInvHolds, PTL

-----------------------------------------------------------------------------
(* The colour of a known connection under each operation. *)

LEMMA PushNewColours ==
  ASSUME IInv, NEW h \in Hash, PushNew(h)
  PROVE  /\ h \notin cm
         /\ cm' = cm \cup {h}
         /\ \A g \in cm : ColourOf(g)' = ColourOf(g)
         /\ ColourOf(h)' \in Color
         /\ ~ taken_colors[ColourOf(h)']
BY DEF IInv, TypeOK, PushNew, IsFirstFree, ColourOf

LEMMA PopKnownColours ==
  ASSUME IInv, NEW h \in Hash, PopKnown(h)
  PROVE  /\ h \in cm
         /\ cm' = cm \ {h}
         /\ \A g \in cm' : ColourOf(g)' = ColourOf(g)
BY DEF IInv, TypeOK, PopKnown, Free, Erase, ColourOf

LEMMA ColoursAreStable ==
  IInv /\ [Next]_vars => \A h \in cm : h \in cm' => ColourOf(h)' = ColourOf(h)
<1> SUFFICES ASSUME IInv, [Next]_vars, NEW g \in cm, g \in cm'
             PROVE  ColourOf(g)' = ColourOf(g)
  OBVIOUS
<1>1. CASE UNCHANGED vars
  BY <1>1 DEF vars, ColourOf
<1>2. CASE Next
  <2>1. PICK h \in Hash : push(h) \/ pop(h)
    BY <1>2 DEF Next
  <2>2. CASE PushKnown(h) \/ PushFull(h) \/ PopUnknown(h)
    BY <2>2 DEF PushKnown, PushFull, PopUnknown, ColourOf
  <2>3. CASE PushNew(h)
    BY <2>3, PushNewColours
  <2>4. CASE PopKnown(h)
    BY <2>4, PopKnownColours
  <2> QED BY <2>1, <2>2, <2>3, <2>4 DEF push, pop
<1> QED BY <1>1, <1>2

(***************************************************************************)
(* No call of push or pop changes the colour of a connection that stays    *)
(* known, whoever it is called for.                                        *)
(***************************************************************************)
THEOREM ColoursStayStable == Spec => ColourIsStable
<1>1. IInv /\ [Next]_vars
        => [\A h \in cm : h \in cm' => ColourOf(h)' = ColourOf(h)]_vars
  BY ColoursAreStable
<1> QED BY <1>1, IInvHolds, PTL DEF Spec, ColourIsStable

-----------------------------------------------------------------------------
(* The table implements the pool in which colour 0 may be shared. *)

LEMMA PaintedType == TypeOK => Painted \in [cm -> Color]
BY ColourOfType DEF Painted

LEMMA PoolInit == Init => Overflowing!Init
BY DEF Init, Painted, Overflowing!Init

LEMMA PoolStep == IInv /\ [Next]_vars => [Overflowing!Next]_Painted
<1> SUFFICES ASSUME IInv, [Next]_vars
             PROVE  Overflowing!Next \/ Painted' = Painted
  OBVIOUS
<1>1. CASE UNCHANGED vars
  BY <1>1 DEF vars, Painted, ColourOf
<1>2. CASE Next
  <2>1. PICK h \in Hash : push(h) \/ pop(h)
    BY <1>2 DEF Next
  <2>2. CASE PushKnown(h) \/ PopUnknown(h)
    BY <2>2 DEF PushKnown, PopUnknown, Painted, ColourOf
  <2>3. CASE PushNew(h) \/ PushFull(h)
    <3>1. h \notin cm /\ cm' = cm \cup {h}
      BY <2>3 DEF PushNew, PushFull
    <3>2. \A g \in cm : ColourOf(g)' = ColourOf(g)
      BY <2>1, <3>1, <1>2, ColoursAreStable
    <3>3. ColourOf(h)' \in Color
      BY <2>3, PushNewColours, ZeroIsAColour DEF PushFull, ColourOf, IInv, TypeOK
    <3>4. ColourOf(h)' \in {0} \/ \A g \in cm : ColourOf(g) # ColourOf(h)'
      <4>1. CASE PushNew(h)
        <5>1. ~ taken_colors[ColourOf(h)']
          BY <4>1, PushNewColours
        <5> QED BY <5>1 DEF ColourOf, IInv, NonZeroIsExclusive
      <4>2. CASE PushFull(h)
        BY <4>2 DEF PushFull, ColourOf, IInv, TypeOK
      <4> QED BY <2>3, <4>1, <4>2
    <3>5. Overflowing!Acquire(h, ColourOf(h)')
      BY <3>1, <3>2, <3>3, <3>4
      DEF Overflowing!Acquire, Overflowing!Tracked, Painted
    <3> QED BY <3>3, <3>5 DEF Overflowing!Next
  <2>4. CASE PopKnown(h)
    <3>1. Overflowing!Release(h)
      BY <2>4, PopKnownColours
      DEF Overflowing!Release, Overflowing!Tracked, Painted
    <3> QED BY <3>1 DEF Overflowing!Next
  <2> QED BY <2>1, <2>2, <2>3, <2>4 DEF push, pop
<1> QED BY <1>1, <1>2

(***************************************************************************)
(* Every behaviour of the table is one of the pool: push and pop paint and *)
(* forget one connection at a time, keep the colours of all others, and    *)
(* two connections have one colour only if it is 0.                        *)
(***************************************************************************)
THEOREM TableImplementsPool == Spec => ImplementsPool
BY PoolInit, PoolStep, IInvHolds, PTL DEF Spec, ImplementsPool, Overflowing!Spec

-----------------------------------------------------------------------------
(***************************************************************************)
(* With no more connection ids than colours the pool is never full when a  *)
(* new connection arrives: by the pigeonhole principle, since every taken  *)
(* colour has a holder among the other connections.                        *)
(***************************************************************************)
FewEnoughIds == IsFiniteSet(Hash) /\ Cardinality(Hash) <= MAX_COLOR_DEFS

(* Then every known connection has a colour, reserved for it, 0 included. *)
EveryoneIsColoured ==
  /\ cm \subseteq DOMAIN colmp
  /\ \A h \in DOMAIN colmp : taken_colors[colmp[h]]
  /\ \A g, h \in DOMAIN colmp : colmp[g] = colmp[h] => g = h

LEMMA ColorCount == IsFiniteSet(Color) /\ Cardinality(Color) = MAX_COLOR_DEFS
<1>1. 0 \in Int /\ MAX_COLOR_DEFS - 1 \in Int
  BY ColorAssumption
<1> QED BY <1>1, FS_Interval, ColorAssumption DEF Color

LEMMA NeverFull ==
  ASSUME FewEnoughIds, IInv, NEW h \in Hash, h \notin cm
  PROVE  ~ PoolIsFull
<1> SUFFICES ASSUME PoolIsFull PROVE FALSE
  OBVIOUS
<1> DEFINE holder == [c \in Color |-> CHOOSE g \in DOMAIN colmp : colmp[g] = c]
<1>1. \A c \in Color : holder[c] \in DOMAIN colmp /\ colmp[holder[c]] = c
  BY DEF PoolIsFull, IInv, TakenIsHeld
<1> DEFINE Others == Hash \ {h}
<1>2. holder \in [Color -> Others]
  BY <1>1 DEF IInv, TypeOK
<1>3. IsFiniteSet(Others) /\ Cardinality(Others) = Cardinality(Hash) - 1
  BY FS_RemoveElement DEF FewEnoughIds
<1>4. Cardinality(Others) < Cardinality(Color)
  BY <1>3, ColorCount, FS_CardinalityType, ColorAssumption DEF FewEnoughIds
<1> HIDE DEF holder, Others
<1>5. \E c, d \in Color : c # d /\ holder[c] = holder[d]
  BY <1>2, <1>3, <1>4, ColorCount, FS_PigeonHole
<1> QED BY <1>1, <1>5

LEMMA EveryoneIsColouredStep ==
  ASSUME FewEnoughIds, IInv, EveryoneIsColoured, [Next]_vars
  PROVE  EveryoneIsColoured'
<1>1. CASE UNCHANGED vars
  BY <1>1 DEF vars, EveryoneIsColoured
<1>2. CASE Next
  <2>1. PICK h \in Hash : push(h) \/ pop(h)
    BY <1>2 DEF Next
  <2>2. CASE PushKnown(h) \/ PopUnknown(h)
    BY <2>2 DEF PushKnown, PopUnknown, EveryoneIsColoured
  <2>3. CASE PushFull(h)
    BY <2>3, NeverFull DEF PushFull
  <2>4. CASE PushNew(h)
    BY <2>4 DEF PushNew, IsFirstFree, EveryoneIsColoured, IInv, TypeOK
  <2>5. CASE PopKnown(h)
    BY <2>5 DEF PopKnown, Free, Erase, ColourOf, EveryoneIsColoured, IInv, TypeOK
  <2> QED BY <2>1, <2>2, <2>3, <2>4, <2>5 DEF push, pop
<1> QED BY <1>1, <1>2

LEMMA ExclusiveStep ==
  ASSUME FewEnoughIds, IInv, EveryoneIsColoured, [Next]_vars
  PROVE  [Exclusive!Next]_Painted
<1> SUFFICES ASSUME Next PROVE Exclusive!Next \/ Painted' = Painted
  BY DEF vars, Painted, ColourOf
<1>1. PICK h \in Hash : push(h) \/ pop(h)
  BY DEF Next
<1>2. CASE PushKnown(h) \/ PopUnknown(h)
  BY <1>2 DEF PushKnown, PopUnknown, Painted, ColourOf
<1>3. CASE PushFull(h)
  BY <1>3, NeverFull DEF PushFull
<1>4. CASE PushNew(h)
  <2>1. \A g \in cm : ColourOf(g) # ColourOf(h)'
    BY <1>4, PushNewColours DEF EveryoneIsColoured, ColourOf
  <2>2. Exclusive!Acquire(h, ColourOf(h)')
    BY <1>4, <2>1, PushNewColours
    DEF Exclusive!Acquire, Exclusive!Tracked, Painted
  <2> QED BY <1>4, <2>2, PushNewColours DEF Exclusive!Next
<1>5. CASE PopKnown(h)
  <2>1. Exclusive!Release(h)
    BY <1>5, PopKnownColours
    DEF Exclusive!Release, Exclusive!Tracked, Painted
  <2> QED BY <2>1 DEF Exclusive!Next
<1> QED BY <1>1, <1>2, <1>3, <1>4, <1>5 DEF push, pop

(***************************************************************************)
(* With at most MAX_COLOR_DEFS connection ids, push and pop implement the  *)
(* pool in which no two connections ever have the same colour.             *)
(***************************************************************************)
THEOREM FewIdsNeverShare == FewEnoughIds => (Spec => ImplementsExclusivePool)
<1> SUFFICES ASSUME FewEnoughIds PROVE Spec => ImplementsExclusivePool
  OBVIOUS
<1>1. Init => EveryoneIsColoured
  BY DEF Init, EveryoneIsColoured
<1>2. Init => Exclusive!Init
  BY DEF Init, Painted, Exclusive!Init
<1>3. IInv /\ EveryoneIsColoured /\ [Next]_vars => EveryoneIsColoured'
  BY EveryoneIsColouredStep
<1>4. IInv /\ EveryoneIsColoured /\ [Next]_vars => [Exclusive!Next]_Painted
  BY ExclusiveStep
<1> QED
  BY <1>1, <1>2, <1>3, <1>4, IInvHolds, PTL
  DEF Spec, ImplementsExclusivePool, Exclusive!Spec

=============================================================================
