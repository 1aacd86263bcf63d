--------------------------- MODULE RemainingLength ---------------------------
(***************************************************************************)
(* The fixed header of a packet: the first part of handle_mqtt_pkt of      *)
(* src/dissect.cpp, which reads the type byte and then decodes the         *)
(* Remaining Length, one byte per iteration of the loop.                   *)
(*                                                                         *)
(* Positions count from 0, as in the code.  pktbuf is the buffer of a      *)
(* std::string: it ends with a NUL byte at position pktlen, and what is    *)
(* behind that is anything.                                                *)
(***************************************************************************)
EXTENDS Integers, Sequences

CONSTANTS
  Byte,      \* the byte values that occur
  Garbage,   \* those that a read behind the NUL of a chunk may give
  Chunk      \* the chunks of payload handle_mqtt_pkt is called with

ASSUME ByteAssumption    == 0 \in Byte /\ Byte \subseteq 0 .. 255
ASSUME GarbageAssumption == Garbage \subseteq Byte /\ Garbage # {}
ASSUME ChunkAssumption   == Chunk \subseteq Seq(Byte)

VARIABLES
  pktbuf,    \* the chunk
  pos,       \* the next position to read
  tmp,       \* the last byte read
  rlen,      \* the Remaining Length decoded so far
  mult,      \* what the next 7 bits count
  pc         \* "type", "length", then "malformed" or "body"

vars == <<pktbuf, pos, tmp, rlen, mult, pc>>

pktlen == Len(pktbuf)

(* The values a read of pktbuf[i] may give. *)
At(i) == IF i < pktlen THEN {pktbuf[i + 1]} ELSE IF i = pktlen THEN {0} ELSE Garbage

Base == 128

Continues(b) == b >= Base        \* the continuation bit

WholeByte(b) == b                \* mutant of LengthBits
LengthBits(b) == b % Base        \* the other seven bits

(* What the bits of the length byte n + 1 count. *)
Weight(n) ==
  CASE n = 0 -> 1
    [] n = 1 -> Base
    [] n = 2 -> Base * Base
    [] n = 3 -> Base * Base * Base
    [] n = 4 -> Base * Base * Base * Base

Init ==
  /\ pktbuf \in Chunk
  /\ pos = 0
  /\ tmp = 0
  /\ rlen = 0
  /\ mult = 1
  /\ pc = "type"

(* The type byte; flags are taken from it by module HandlePkt. *)
ReadType ==
  /\ pc = "type"
  /\ tmp' \in At(pos)
  /\ pos' = pos + 1
  /\ pc' = "length"
  /\ UNCHANGED <<pktbuf, rlen, mult>>

BigEndian(b) == rlen * Base + LengthBits(b)              \* mutant of Add
Add(b) == rlen + LengthBits(b) * mult

TooLongByOne(m) == m >= Base * Base * Base               \* mutant of TooLong
TooLong(m) == m > Base * Base * Base

GoesOnForever(b, end) == Continues(b)                    \* mutant of GoesOn
GoesOn(b, end) == Continues(b) /\ end < pktlen

ReadLengthWithoutStep ==                                 \* mutant of ReadLength
  /\ pc = "length"
  /\ tmp' \in At(pos)
  /\ pc' = IF Continues(tmp') THEN "length" ELSE "body"
  /\ UNCHANGED <<pktbuf, pos, rlen, mult>>

(***************************************************************************)
(* One iteration of the do-while loop.  The test for a malformed length    *)
(* comes after the byte is added and before the continuation bit is looked *)
(* at; the length stays below 2^28, so uint32_t does not wrap.             *)
(***************************************************************************)
ReadLength ==
  /\ pc = "length"
  /\ tmp' \in At(pos)
  /\ pos' = pos + 1
  /\ rlen' = Add(tmp')
  /\ mult' = mult * Base
  /\ pc' = IF TooLong(mult')             THEN "malformed"
           ELSE IF GoesOn(tmp', pos')    THEN "length"
           ELSE                               "body"
  /\ UNCHANGED pktbuf

Next == ReadType \/ ReadLength

Done == pc \in {"malformed", "body"} /\ UNCHANGED vars

Spec == Init /\ [][Next \/ Done]_vars

-----------------------------------------------------------------------------
(***************************************************************************)
(* Properties.                                                             *)
(***************************************************************************)

(* Every variable has its type; rlen stays below 128^4 = 2^28. *)
TypeOK ==
  /\ pktbuf \in Chunk
  /\ pos \in 0 .. 5
  /\ tmp \in Byte
  /\ rlen \in 0 .. Weight(4) - 1
  /\ mult \in {Weight(n) : n \in 0 .. 4}
  /\ pc \in {"type", "length", "malformed", "body"}

(* The length bytes of the chunk that have been read, the NUL included. *)
NumRead == IF pc = "type" THEN 0 ELSE pos - 1

ByteAt(i) == IF i < pktlen THEN pktbuf[i + 1] ELSE 0

(***************************************************************************)
(* The value the first n length bytes stand for, as section 2.2.3 of the   *)
(* MQTT specification defines it: seven bits each, the lowest first.       *)
(***************************************************************************)
Value(n) ==
  LET term(i) == IF i <= n THEN LengthBits(ByteAt(i)) * Weight(i - 1) ELSE 0
  IN  term(1) + term(2) + term(3) + term(4)

(***************************************************************************)
(* What has been decoded is what the bytes read stand for, and each byte   *)
(* is weighted with its own power of 128.  An empty chunk is the exception *)
(* because its length byte is read from behind the terminating NUL.        *)
(***************************************************************************)
DecodesItsPrefix ==
  /\ mult = Weight(NumRead)
  /\ rlen < mult
  /\ pktlen > 0 => rlen = Value(NumRead)

(* A complete Remaining Length of n bytes is in the chunk. *)
HasLength(n) ==
  /\ n < pktlen
  /\ \A i \in 1 .. n - 1 : Continues(ByteAt(i))
  /\ ~ Continues(ByteAt(n))

(***************************************************************************)
(* A Remaining Length of up to three bytes is decoded completely and to    *)
(* its value, and the position is then that of the variable header.        *)
(***************************************************************************)
ShortLengthsAreDecoded ==
  \A n \in 1 .. 3 :
    HasLength(n) /\ pc \in {"body", "malformed"}
      => pc = "body" /\ pos = n + 1 /\ rlen = Value(n)

(***************************************************************************)
(* A packet is called malformed only if its Remaining Length does not end  *)
(* within three bytes: no short, no cut-off and no empty chunk is.         *)
(***************************************************************************)
MalformedIsLong ==
  pc = "malformed" =>
    /\ pos = 5 /\ pktlen >= 5
    /\ \A i \in 1 .. 3 : Continues(ByteAt(i))

(***************************************************************************)
(* However the header is cut off, the loop reads nothing behind the chunk, *)
(* but for the NUL of a chunk of one byte and what is behind the NUL of an *)
(* empty one.                                                              *)
(***************************************************************************)
ReadsOnlyTheChunk == pktlen > 1 => pos <= pktlen

(***************************************************************************)
(* Section 2.2.3 of doc/mqtt-v3.1.1-os.pdf: "The maximum number of bytes   *)
(* in the Remaining Length field is four".  So one of four bytes is legal  *)
(* and is not malformed.                                                   *)
(***************************************************************************)
FourByteLengthsAreDecoded ==
  HasLength(4) => pc # "malformed"

=============================================================================
