----------------------- MODULE RemainingLength_proofs -----------------------
(***************************************************************************)
(* Proofs about the fixed header, for chunks of any length and bytes of    *)
(* any value.                                                              *)
(***************************************************************************)
EXTENDS RemainingLength, TLAPS

(* How far the loop has come, and that all bytes but the last continue it. *)
Progress ==
  /\ pc = "type"      => pos = 0
  /\ pc = "length"    => pos \in 1 .. 4 /\ (pos > 1 => pos < pktlen)
  /\ pc = "body"      => pos \in 2 .. 4 /\ (pos > 2 => pos <= pktlen)
  /\ pc = "malformed" => pos = 5 /\ pktlen >= 5

AllContinue(n) == \A i \in 1 .. n : Continues(ByteAt(i))

Continued ==
  /\ pc = "length" => AllContinue(NumRead)
  /\ pc \in {"body", "malformed"} => AllContinue(NumRead - 1)

(* The loop ended because of the last byte or because the chunk did. *)
Ended ==
  pc = "body" /\ pos < pktlen => ~ Continues(ByteAt(NumRead))

(***************************************************************************)
(* The inductive invariant: DecodesItsPrefix bounds rlen, which the type   *)
(* of rlen needs, and Continued and Ended say which bytes were read.       *)
(***************************************************************************)
IInv == TypeOK /\ Progress /\ DecodesItsPrefix /\ Continued /\ Ended

-----------------------------------------------------------------------------
LEMMA BaseType == Base \in Nat /\ Base > 1
BY DEF Base

(* The weights grow by a factor of Base, and only the last is malformed. *)
LEMMA Weights ==
  /\ Weight(0) = 1
  /\ \A n \in 0 .. 4 : Weight(n) \in Nat \ {0}
  /\ \A n \in 0 .. 3 : Weight(n + 1) = Weight(n) * Base
  /\ \A n \in 0 .. 3 : Weight(n) < Weight(n + 1)
  /\ Weight(3) = Base * Base * Base
<1> DEFINE B1 == Base
           B2 == B1 * Base
           B3 == B2 * Base
           B4 == B3 * Base
<1>1. \A k \in Nat \ {0} : k * Base \in Nat \ {0} /\ k < k * Base
  BY BaseType
<1>2. B1 \in Nat \ {0} /\ 1 < B1
  BY BaseType
<1>3. B2 \in Nat \ {0} /\ B1 < B2
  BY <1>1, <1>2
<1>4. B3 \in Nat \ {0} /\ B2 < B3
  BY <1>1, <1>3
<1>5. B4 \in Nat \ {0} /\ B3 < B4
  BY <1>1, <1>4
<1>6. /\ Weight(0) = 1 /\ Weight(1) = B1 /\ Weight(2) = B2
      /\ Weight(3) = B3 /\ Weight(4) = B4
  BY DEF Weight
<1>7. B1 = 1 * Base
  BY BaseType
<1> QED BY <1>2, <1>3, <1>4, <1>5, <1>6, <1>7

LEMMA ChunkType ==
  ASSUME TypeOK PROVE pktlen \in Nat /\ \A i \in 1 .. pktlen : pktbuf[i] \in Byte
<1>1. pktbuf \in Seq(Byte)
  BY ChunkAssumption DEF TypeOK
<1> QED BY <1>1 DEF pktlen

(* A read inside the chunk or of its NUL gives the byte that is there. *)
LEMMA ReadAt ==
  ASSUME TypeOK, NEW i \in Nat, NEW b \in At(i)
  PROVE  /\ b \in Byte /\ b \in 0 .. 255
         /\ LengthBits(b) \in 0 .. Base - 1
         /\ i <= pktlen => b = ByteAt(i)
<1>1. b \in Byte
  <2>1. CASE i < pktlen
    <3>1. i + 1 \in 1 .. pktlen /\ b = pktbuf[i + 1]
      BY <2>1, ChunkType DEF At
    <3> QED BY <3>1, ChunkType
  <2>2. CASE i = pktlen
    BY <2>2, ChunkType, ByteAssumption DEF At
  <2>3. CASE i > pktlen
    BY <2>3, ChunkType, GarbageAssumption DEF At
  <2> QED BY <2>1, <2>2, <2>3, ChunkType
<1>2. b \in 0 .. 255
  BY <1>1, ByteAssumption
<1>3. LengthBits(b) \in 0 .. Base - 1
  BY <1>2 DEF LengthBits, Base
<1>4. i <= pktlen => b = ByteAt(i)
  BY ChunkType DEF At, ByteAt
<1> QED BY <1>1, <1>2, <1>3, <1>4

LEMMA InitIInv == Init => IInv
<1> SUFFICES ASSUME Init PROVE IInv
  OBVIOUS
<1>1. TypeOK
  BY Weights, ByteAssumption DEF Init, TypeOK
<1>2. Value(0) = 0
  BY DEF Value
<1> QED
  BY <1>1, <1>2, Weights
  DEF Init, IInv, Progress, DecodesItsPrefix, Continued, Ended, NumRead

LEMMA ReadTypeIInv == ASSUME IInv, ReadType PROVE IInv'
<1>1. pos = 0 /\ rlen = 0 /\ mult = 1
  BY Weights DEF IInv, Progress, DecodesItsPrefix, ReadType, NumRead, TypeOK
<1>2. tmp' \in Byte
  BY <1>1, ReadAt DEF IInv, ReadType
<1>3. Value(0)' = 0
  BY DEF Value
<1>4. TypeOK'
  BY <1>1, <1>2 DEF IInv, TypeOK, ReadType
<1>5. Progress' /\ Continued' /\ Ended'
  BY <1>1
  DEF ReadType, Progress, Continued, Ended, NumRead, AllContinue
<1>6. DecodesItsPrefix'
  BY <1>1, <1>3, Weights DEF ReadType, DecodesItsPrefix, NumRead
<1> QED BY <1>4, <1>5, <1>6 DEF IInv

-----------------------------------------------------------------------------
(* One iteration of the loop. *)

(* Seven more bits of weight w do not carry beyond the next weight. *)
LEMMA NoCarry ==
  ASSUME NEW w \in Nat, NEW r \in Nat, r < w, NEW b \in 0 .. Base - 1
  PROVE  r + b * w \in Nat /\ r + b * w < w * Base
<1>1. b * w \in Nat /\ b * w <= (Base - 1) * w
  BY BaseType
<1>2. (Base - 1) * w = w * Base - w
  BY BaseType
<1>3. w * Base \in Nat
  BY BaseType
<1> QED BY <1>1, <1>2, <1>3

(* Adding the bits of one more byte to the value of a prefix. *)
LEMMA ValueStep ==
  ASSUME TypeOK, NEW n \in 0 .. 3
  PROVE  Value(n + 1) = Value(n) + LengthBits(ByteAt(n + 1)) * Weight(n)
<1> DEFINE P(i) == LengthBits(ByteAt(i)) * Weight(i - 1)
           T(i, m) == IF i <= m THEN P(i) ELSE 0
<1>1. \A i \in 1 .. 4 : P(i) \in Nat
  <2> TAKE i \in 1 .. 4
  <2>1. ByteAt(i) \in 0 .. 255
    <3>1. pktlen \in Nat /\ (i < pktlen => i + 1 \in 1 .. pktlen)
      BY ChunkType
    <3> QED BY <3>1, ChunkType, ByteAssumption DEF ByteAt
  <2>2. LengthBits(ByteAt(i)) \in Nat
    BY <2>1 DEF LengthBits, Base
  <2>3. i - 1 \in 0 .. 4 /\ Weight(i - 1) \in Nat
    BY Weights
  <2> QED BY <2>2, <2>3
<1>2. \A m \in 0 .. 4 : Value(m) = T(1, m) + T(2, m) + T(3, m) + T(4, m)
  BY DEF Value
<1>3. P(n + 1) = LengthBits(ByteAt(n + 1)) * Weight(n)
  OBVIOUS
<1> HIDE DEF P
<1>4. Value(n + 1) = Value(n) + P(n + 1)
  BY <1>1, <1>2
<1> QED BY <1>3, <1>4

LEMMA ReadLengthIInv == ASSUME IInv, ReadLength PROVE IInv'
<1>1. PICK n \in 0 .. 3 :
        n = NumRead /\ pos = n + 1 /\ pos <= 4 /\ (n > 0 => pos < pktlen)
  BY DEF IInv, Progress, ReadLength, NumRead
<1>2. mult = Weight(n) /\ mult \in Nat /\ rlen \in Nat /\ rlen < Weight(n)
  BY <1>1, Weights DEF IInv, TypeOK, DecodesItsPrefix
<1>3. /\ tmp' \in Byte
      /\ LengthBits(tmp') \in 0 .. Base - 1
      /\ pos <= pktlen => tmp' = ByteAt(pos)
  BY <1>1, ReadAt DEF IInv, ReadLength
<1>4. pos' = n + 2 /\ NumRead' = n + 1 /\ pktlen' = pktlen
  BY <1>1 DEF ReadLength, NumRead, pktlen
<1>5. mult' = Weight(n + 1)
  BY <1>1, <1>2, Weights DEF ReadLength
<1>6. rlen' \in Nat /\ rlen' < Weight(n + 1)
  BY <1>1, <1>2, <1>3, NoCarry, Weights DEF ReadLength, Add
<1>7. mult' > Base * Base * Base <=> n = 3
  BY <1>1, <1>5, Weights
<1>8. pktlen \in Nat
  BY ChunkType DEF IInv
<1>9. pc' = IF n = 3                                    THEN "malformed"
            ELSE IF Continues(tmp') /\ n + 2 < pktlen  THEN "length"
            ELSE                                           "body"
  BY <1>4, <1>7 DEF ReadLength, TooLong, GoesOn
<1>10. \A i : ByteAt(i)' = ByteAt(i)
  BY DEF ByteAt, ReadLength, pktlen
<1>11. TypeOK'
  <2>1. pos' \in 0 .. 5
    BY <1>1, <1>4
  <2>2. rlen' \in 0 .. Weight(4) - 1
    BY <1>1, <1>6, Weights
  <2>3. mult' \in {Weight(i) : i \in 0 .. 4}
    BY <1>1, <1>5
  <2> QED BY <1>3, <1>9, <2>1, <2>2, <2>3 DEF TypeOK, IInv, ReadLength
<1>12. Progress'
  BY <1>1, <1>4, <1>8, <1>9 DEF Progress
<1>13. DecodesItsPrefix'
  <2>1. ASSUME pktlen > 0 PROVE rlen' = Value(n + 1)'
    <3>1. tmp' = ByteAt(n + 1)
      BY <1>1, <1>3, <1>8, <2>1
    <3>2. rlen = Value(n)
      BY <1>1, <2>1 DEF IInv, DecodesItsPrefix
    <3>3. rlen' = Value(n) + LengthBits(ByteAt(n + 1)) * Weight(n)
      BY <1>2, <3>1, <3>2 DEF ReadLength, Add
    <3>4. Value(n + 1)' = Value(n + 1)
      BY <1>4, <1>10 DEF Value
    <3> QED BY <1>1, <3>3, <3>4, ValueStep DEF IInv
  <2> QED BY <1>4, <1>5, <1>6, <2>1 DEF DecodesItsPrefix
<1>14. Continued'
  <2>1. AllContinue(n)
    BY <1>1 DEF IInv, Continued, ReadLength
  <2>2. pc' = "length" => Continues(ByteAt(n + 1))
    BY <1>1, <1>3, <1>8, <1>9
  <2>3. \A i \in 1 .. n + 1 : i \in 1 .. n \/ i = n + 1
    BY <1>1
  <2>4. pc' = "length" => AllContinue(n + 1)'
    BY <1>10, <2>1, <2>2, <2>3 DEF AllContinue
  <2>5. AllContinue(n)'
    BY <1>10, <2>1 DEF AllContinue
  <2> QED BY <1>1, <1>4, <1>9, <2>4, <2>5 DEF Continued
<1>15. Ended'
  BY <1>1, <1>3, <1>4, <1>8, <1>9, <1>10 DEF Ended
<1> QED BY <1>11, <1>12, <1>13, <1>14, <1>15 DEF IInv

LEMMA NextIInv == IInv /\ [Next \/ Done]_vars => IInv'
<1> SUFFICES ASSUME IInv, [Next \/ Done]_vars PROVE IInv'
  OBVIOUS
<1>1. CASE UNCHANGED vars
  <2>1. \A i : ByteAt(i)' = ByteAt(i)
    BY <1>1 DEF vars, ByteAt, pktlen
  <2>2. Value(NumRead)' = Value(NumRead)
    BY <1>1, <2>1 DEF vars, Value, NumRead
  <2> QED
    BY <1>1, <2>1, <2>2
    DEF vars, IInv, TypeOK, Progress, DecodesItsPrefix, Continued, Ended,
        NumRead, AllContinue, pktlen
<1>2. CASE Next
  BY <1>2, ReadTypeIInv, ReadLengthIInv DEF Next
<1> QED BY <1>1, <1>2 DEF Done

(* What the loop has read are continuing bytes, and rlen is their value. *)
THEOREM IInvHolds == Spec => []IInv
BY InitIInv, NextIInv, PTL DEF Spec

-----------------------------------------------------------------------------
(***************************************************************************)
(* Every variable keeps its type, in particular rlen stays below 128^4, so *)
(* that the uint32_t of the code does not overflow.                        *)
(***************************************************************************)
THEOREM TypeCorrect == Spec => []TypeOK
<1>1. IInv => TypeOK
  BY DEF IInv
<1> QED BY <1>1, IInvHolds, PTL

(* After every iteration rlen is the value of the length bytes read. *)
THEOREM LoopDecodesItsPrefix == Spec => []DecodesItsPrefix
<1>1. IInv => DecodesItsPrefix
  BY DEF IInv
<1> QED BY <1>1, IInvHolds, PTL

LEMMA ShortLengths ==
  ASSUME IInv, NEW n \in 1 .. 3, HasLength(n), pc \in {"body", "malformed"}
  PROVE  pc = "body" /\ pos = n + 1 /\ rlen = Value(n)
<1>1. pktlen \in Nat /\ n < pktlen
  BY ChunkType DEF IInv, HasLength
<1>2. CASE pc = "malformed"
  <2>1. NumRead - 1 = 3
    BY <1>2 DEF IInv, Progress, NumRead
  <2>2. Continues(ByteAt(n))
    BY <1>2, <2>1 DEF IInv, Continued, AllContinue
  <2> QED BY <2>2 DEF HasLength
<1>3. CASE pc = "body"
  <2>1. PICK k \in 1 .. 3 : k = NumRead /\ pos = k + 1
    BY <1>3 DEF IInv, Progress, NumRead
  <2>2. \A i \in 1 .. k - 1 : Continues(ByteAt(i))
    BY <1>3, <2>1 DEF IInv, Continued, AllContinue
  <2>3. n >= k
    BY <2>2 DEF HasLength
  <2>4. n <= k
    <3> SUFFICES ASSUME n > k PROVE FALSE
      OBVIOUS
    <3>1. Continues(ByteAt(k))
      BY DEF HasLength
    <3>2. ~ Continues(ByteAt(k))
      BY <1>1, <1>3, <2>1 DEF IInv, Ended
    <3> QED BY <3>1, <3>2
  <2>5. n = k
    BY <2>3, <2>4
  <2> QED BY <1>1, <1>3, <2>1, <2>5 DEF IInv, DecodesItsPrefix
<1> QED BY <1>2, <1>3

(***************************************************************************)
(* handle_mqtt_pkt decodes every Remaining Length of up to three bytes,    *)
(* whatever follows it in the chunk.                                       *)
(***************************************************************************)
THEOREM ShortLengthsDecoded == Spec => []ShortLengthsAreDecoded
<1>1. IInv => ShortLengthsAreDecoded
  BY ShortLengths DEF ShortLengthsAreDecoded
<1> QED BY <1>1, IInvHolds, PTL

(* Only a length that does not end within three bytes is called malformed. *)
THEOREM OnlyLongIsMalformed == Spec => []MalformedIsLong
<1>1. IInv => MalformedIsLong
  BY DEF IInv, Progress, Continued, NumRead, AllContinue, MalformedIsLong
<1> QED BY <1>1, IInvHolds, PTL

(* The loop reads nothing behind a chunk of two or more bytes. *)
THEOREM LoopReadsOnlyTheChunk == Spec => []ReadsOnlyTheChunk
<1>1. IInv => ReadsOnlyTheChunk
  BY ChunkType DEF IInv, TypeOK, Progress, ReadsOnlyTheChunk
<1> QED BY <1>1, IInvHolds, PTL

=============================================================================
