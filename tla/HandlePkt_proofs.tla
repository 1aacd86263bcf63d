-------------------------- MODULE HandlePkt_proofs --------------------------
(***************************************************************************)
(* Proofs about the dissection of a chunk, for chunks of any bytes and any *)
(* length, and for any packets.                                            *)
(***************************************************************************)
EXTENDS HandlePkt, SequenceTheorems, WellFoundedInduction, TLAPS

-----------------------------------------------------------------------------
(***************************************************************************)
(* Proofs about packets and their bytes: what a packet is made of, and     *)
(* where its fields lie in a chunk of bytes that it begins.                *)
(***************************************************************************)

(* Bytes that lie in a chunk b from position k on, which counts from 0. *)

Holds(b, k, s) ==
  /\ k + Len(s) <= Len(b)
  /\ \A i \in 1 .. Len(s) : b[k + i] = s[i]

LEMMA HoldsPrefix ==
  ASSUME NEW S, NEW s \in Seq(S), NEW T, NEW b \in Seq(T), IsPrefix(s, b)
  PROVE  Holds(b, 0, s)
<1>1. Len(s) \in Nat /\ Len(b) \in Nat /\ Len(s) <= Len(b)
  BY DEF IsPrefix
<1>2. SubSeq(s, 1, Len(s)) = SubSeq(b, 1, Len(s))
  BY DEF IsPrefix
<1>3. \A i \in 1 .. Len(s) : SubSeq(s, 1, Len(s))[i] = s[i]
  BY <1>1
<1>4. \A i \in 1 .. Len(s) : SubSeq(b, 1, Len(s))[i] = b[i]
  BY <1>1
<1>5. \A i \in 1 .. Len(s) : b[i] = s[i] /\ 0 + i = i
  BY <1>1, <1>2, <1>3, <1>4
<1> QED BY <1>1, <1>5 DEF Holds

LEMMA HoldsConcat ==
  ASSUME NEW S, NEW s \in Seq(S), NEW t \in Seq(S), NEW T, NEW b \in Seq(T),
         NEW k \in Nat, Holds(b, k, s \o t)
  PROVE  Holds(b, k, s) /\ Holds(b, k + Len(s), t)
<1>1. PICK m, n \in Nat : m = Len(s) /\ n = Len(t)
  OBVIOUS
<1>2. /\ Len(s \o t) = m + n
      /\ \A i \in 1 .. m : (s \o t)[i] = s[i]
      /\ \A i \in 1 .. n : (s \o t)[m + i] = t[i]
  BY <1>1
<1>3. k + (m + n) <= Len(b) /\ Len(b) \in Nat
  BY <1>2 DEF Holds
<1>4. \A i \in 1 .. m : b[k + i] = s[i]
  <2> SUFFICES ASSUME NEW i \in 1 .. m
               PROVE  b[k + i] = s[i]
    OBVIOUS
  <2>1. b[k + i] = (s \o t)[i]
    BY <1>2 DEF Holds
  <2> QED BY <1>2, <2>1
<1>5. \A i \in 1 .. n : b[(k + m) + i] = t[i]
  <2> SUFFICES ASSUME NEW i \in 1 .. n
               PROVE  b[(k + m) + i] = t[i]
    OBVIOUS
  <2>1. m + i \in 1 .. m + n /\ k + (m + i) = (k + m) + i
    OBVIOUS
  <2>2. b[k + (m + i)] = (s \o t)[m + i]
    BY <1>2, <2>1 DEF Holds
  <2> QED BY <1>2, <2>1, <2>2
<1> QED BY <1>1, <1>3, <1>4, <1>5 DEF Holds

LEMMA ConcatLength ==
  ASSUME NEW S, NEW s \in Seq(S), NEW t \in Seq(S)
  PROVE  s \o t \in Seq(S) /\ Len(s \o t) = Len(s) + Len(t)
BY ConcatProperties

LEMMA ConcatItems ==
  ASSUME NEW s \in Seq(Nat), NEW t \in Seq(Nat)
  PROVE  /\ s \o t \in Seq(Nat) /\ Len(s \o t) = Len(s) + Len(t)
         /\ \A i \in 1 .. Len(s) : (s \o t)[i] = s[i]
         /\ \A i \in 1 .. Len(t) : (s \o t)[Len(s) + i] = t[i]
OBVIOUS

LEMMA HoldsThree ==
  ASSUME NEW s \in Seq(Nat), NEW t \in Seq(Nat), NEW u \in Seq(Nat),
         NEW T, NEW b \in Seq(T), NEW k \in Nat, Holds(b, k, s \o t \o u)
  PROVE  /\ Holds(b, k, s) /\ Holds(b, k + Len(s), t)
         /\ Holds(b, k + Len(s) + Len(t), u)
         /\ Len(s \o t \o u) = Len(s) + Len(t) + Len(u)
<1>1. PICK v \in Seq(Nat) : v = s \o t /\ Len(v) = Len(s) + Len(t)
  BY ConcatLength
<1>2. Holds(b, k, v \o u)
  BY <1>1
<1>3. Holds(b, k, v) /\ Holds(b, k + Len(v), u)
  BY <1>2, HoldsConcat
<1>4. Holds(b, k, s) /\ Holds(b, k + Len(s), t)
  BY <1>1, <1>3, HoldsConcat
<1>5. Len(v \o u) = Len(v) + Len(u)
  BY ConcatLength
<1>6. k + Len(v) = k + Len(s) + Len(t)
  BY <1>1
<1> QED BY <1>1, <1>3, <1>4, <1>5, <1>6

-----------------------------------------------------------------------------
(* Numbers and texts. *)

LEMMA Octets == Octet \subseteq Nat /\ Seq(Octet) \subseteq Seq(Nat)
BY SeqMonotonic DEF Octet

LEMMA Utf8Octets == Utf8 \subseteq Seq(Octet) /\ Utf8 \subseteq Seq(Nat)
BY SeqMonotonic, Octets DEF Utf8

LEMMA Uint16Bytes ==
  ASSUME NEW n \in Nat
  PROVE  Uint16(n) \in Seq(Nat) /\ Len(Uint16(n)) = 2
<1>1. n \div 256 \in Nat /\ n % 256 \in Nat
  OBVIOUS
<1> QED BY <1>1 DEF Uint16

LEMMA TextBytes ==
  ASSUME NEW s \in Seq(Nat)
  PROVE  Text(s) \in Seq(Nat) /\ Len(Text(s)) = 2 + Len(s)
<1>1. Uint16(Len(s)) \in Seq(Nat) /\ Len(Uint16(Len(s))) = 2
  BY Uint16Bytes
<1>2. \A u \in Seq(Nat) : u \o s \in Seq(Nat) /\ Len(u \o s) = Len(u) + Len(s)
  BY ConcatProperties
<1> QED BY <1>1, <1>2 DEF Text

LEMMA HoldsUint16 ==
  ASSUME NEW T, NEW b \in Seq(T), NEW k \in Nat, NEW n \in Nat, Holds(b, k, Uint16(n))
  PROVE  k + 2 <= Len(b) /\ b[k + 1] = n \div 256 /\ b[k + 2] = n % 256
<1>1. Len(Uint16(n)) = 2 /\ Uint16(n)[1] = n \div 256 /\ Uint16(n)[2] = n % 256
  BY DEF Uint16
<1> QED BY <1>1 DEF Holds

LEMMA HoldsText ==
  ASSUME NEW T, NEW b \in Seq(T), NEW k \in Nat, NEW s \in Seq(Nat), Holds(b, k, Text(s))
  PROVE  Holds(b, k, Uint16(Len(s))) /\ Holds(b, k + 2, s)
<1>1. Uint16(Len(s)) \in Seq(Nat) /\ Len(Uint16(Len(s))) = 2
  BY Uint16Bytes
<1>2. Holds(b, k, Uint16(Len(s)) \o s)
  BY DEF Text
<1> QED BY <1>1, <1>2, HoldsConcat

-----------------------------------------------------------------------------
(***************************************************************************)
(* Sequences of bytes in a row.  FlattenSeq is defined by recursion over   *)
(* the rows; that there is such a function is shown by induction.          *)
(***************************************************************************)

LEMMA LeastElement ==
  ASSUME NEW S \in SUBSET Nat, S # {}
  PROVE  \E x \in S : \A y \in S : x <= y
<1> DEFINE less == {pair \in Nat \X Nat : pair[1] < pair[2]}
<1>1. PICK x \in S : \A y \in S : ~ (<<y, x>> \in less)
  <2>1. IsWellFoundedOn(less, Nat)
    BY NatLessThanWellFounded DEF OpToRel
  <2> HIDE DEF less
  <2> QED BY <2>1, WFMin
<1>2. ASSUME NEW y \in S PROVE x <= y
  <2>1. x \in Nat /\ y \in Nat
    OBVIOUS
  <2>2. <<y, x>> \in less <=> y < x
    BY <2>1
  <2> QED BY <1>1, <2>1, <2>2
<1> QED BY <1>2

IsUpTo(seqs, n, f) ==
  f = [i \in 1 .. n |-> IF i = 1 THEN seqs[i] ELSE f[i - 1] \o seqs[i]]

(* The first i of them in a row. *)
UpTo(seqs) ==
  LET flatten[i \in 1 .. Len(seqs)] ==
        IF i = 1 THEN seqs[i] ELSE flatten[i - 1] \o seqs[i]
  IN  flatten

LEMMA UpToExists ==
  ASSUME NEW seqs, NEW n \in Nat
  PROVE  \E f : IsUpTo(seqs, n, f)
<1> DEFINE Missing == {m \in Nat : ~ \E f : IsUpTo(seqs, m, f)}
<1>1. ASSUME NEW m \in Nat, NEW f, IsUpTo(seqs, m, f)
      PROVE  \E g : IsUpTo(seqs, m + 1, g)
  <2> DEFINE g == [i \in 1 .. m + 1 |-> IF i <= m THEN f[i]
                                        ELSE IF i = 1 THEN seqs[i] ELSE f[i - 1] \o seqs[i]]
  <2>1. \A i \in 1 .. m : f[i] = IF i = 1 THEN seqs[i] ELSE f[i - 1] \o seqs[i]
    BY <1>1 DEF IsUpTo
  <2>2. \A i \in 1 .. m + 1 : g[i] = IF i = 1 THEN seqs[i] ELSE g[i - 1] \o seqs[i]
    BY <2>1
  <2>3. IsUpTo(seqs, m + 1, g)
    BY <2>2 DEF IsUpTo
  <2> QED BY <2>3
<1>2. \E f : IsUpTo(seqs, 0, f)
  <2>1. IsUpTo(seqs, 0, <<>>)
    BY DEF IsUpTo
  <2> QED BY <2>1
<1>3. Missing = {}
  <2> SUFFICES ASSUME Missing # {} PROVE FALSE
    OBVIOUS
  <2>1. PICK m \in Missing : \A x \in Missing : m <= x
    BY LeastElement
  <2>2. m \in Nat /\ m # 0 /\ ~ \E f : IsUpTo(seqs, m, f)
    BY <1>2, <2>1
  <2>3. m - 1 \in Nat /\ m - 1 \notin Missing /\ (m - 1) + 1 = m
    BY <2>1, <2>2
  <2>4. PICK f : IsUpTo(seqs, m - 1, f)
    BY <2>3
  <2>5. \E g : IsUpTo(seqs, (m - 1) + 1, g)
    BY <1>1, <2>3, <2>4
  <2> QED BY <2>2, <2>3, <2>5
<1> QED BY <1>3

LEMMA UpToRows ==
  ASSUME NEW seqs \in Seq(Seq(Nat))
  PROVE  /\ \A i \in 1 .. Len(seqs) :
              UpTo(seqs)[i] = IF i = 1 THEN seqs[i] ELSE UpTo(seqs)[i - 1] \o seqs[i]
         /\ \A i \in 1 .. Len(seqs) : UpTo(seqs)[i] \in Seq(Nat)
<1>u. PICK n \in Nat, u \in {UpTo(seqs)} : n = Len(seqs) /\ u = UpTo(seqs)
  OBVIOUS
<1> DEFINE Other == {m \in Nat : m \in 1 .. n /\ u[m] \notin Seq(Nat)}
<1>1. IsUpTo(seqs, n, u)
  <2>1. \E f : IsUpTo(seqs, n, f)
    BY UpToExists
  <2> QED BY <1>u, <2>1 DEF IsUpTo, UpTo
<1>2. \A i \in 1 .. n : u[i] = IF i = 1 THEN seqs[i] ELSE u[i - 1] \o seqs[i]
  BY <1>1 DEF IsUpTo
<1>3. \A i \in 1 .. n : seqs[i] \in Seq(Nat)
  BY <1>u
<1>4. Other = {}
  <2> SUFFICES ASSUME Other # {} PROVE FALSE
    OBVIOUS
  <2>1. PICK m \in Other : \A x \in Other : m <= x
    <3>1. Other \in SUBSET Nat
      OBVIOUS
    <3> HIDE DEF Other
    <3> QED BY <3>1, LeastElement
  <2>2. m \in 1 .. n /\ u[m] \notin Seq(Nat)
    BY <2>1
  <2>3. CASE m = 1
    BY <1>2, <1>3, <2>2, <2>3
  <2>4. CASE m # 1
    <3>1. m - 1 \in 1 .. n /\ ~ (m <= m - 1)
      BY <2>2, <2>4
    <3>2. u[m - 1] \in Seq(Nat)
      BY <2>1, <3>1
    <3>3. u[m] = u[m - 1] \o seqs[m]
      BY <1>2, <2>2, <2>4
    <3> QED BY <1>3, <2>2, <3>2, <3>3
  <2> QED BY <2>3, <2>4
<1>5. \A i \in 1 .. n : u[i] \in Seq(Nat)
  BY <1>4
<1> QED BY <1>u, <1>2, <1>5

LEMMA FlattenBytes ==
  ASSUME NEW seqs \in Seq(Seq(Nat))
  PROVE  /\ FlattenSeq(seqs) \in Seq(Nat)
         /\ seqs = <<>> => FlattenSeq(seqs) = <<>>
         /\ seqs # <<>> => FlattenSeq(seqs) = UpTo(seqs)[Len(seqs)]
         /\ Len(seqs) = 1 => FlattenSeq(seqs) = seqs[1]
<1>1. CASE seqs = <<>>
  BY <1>1 DEF FlattenSeq
<1>2. CASE seqs # <<>>
  <2>1. Len(seqs) \in Nat \ {0}
    BY <1>2
  <2>2. FlattenSeq(seqs) = UpTo(seqs)[Len(seqs)]
    BY <2>1 DEF FlattenSeq, UpTo
  <2>3. Len(seqs) \in 1 .. Len(seqs)
    BY <2>1
  <2> QED BY <1>2, <2>2, <2>3, UpToRows
<1> QED BY <1>1, <1>2

(* If a row of sequences lies in a chunk, so does each, behind those before it. *)
LEMMA HoldsRows ==
  ASSUME NEW seqs \in Seq(Seq(Nat)), NEW T, NEW b \in Seq(T), NEW k \in Nat,
         Holds(b, k, FlattenSeq(seqs))
  PROVE  \A i \in 1 .. Len(seqs) :
           /\ Holds(b, k, UpTo(seqs)[i])
           /\ i > 1 => Holds(b, k + Len(UpTo(seqs)[i - 1]), seqs[i])
<1>1. PICK n \in Nat, u \in {UpTo(seqs)} : n = Len(seqs) /\ u = UpTo(seqs)
  OBVIOUS
<1>2. /\ \A i \in 1 .. n : u[i] = IF i = 1 THEN seqs[i] ELSE u[i - 1] \o seqs[i]
      /\ \A i \in 1 .. n : u[i] \in Seq(Nat)
      /\ \A i \in 1 .. n : seqs[i] \in Seq(Nat)
  <2>1. \A i \in 1 .. n : seqs[i] \in Seq(Nat)
    BY <1>1
  <2> QED BY <1>1, <2>1, UpToRows
<1>3. ASSUME NEW i \in 1 .. n, i > 1, Holds(b, k, u[i])
      PROVE  Holds(b, k, u[i - 1]) /\ Holds(b, k + Len(u[i - 1]), seqs[i])
  <2>1. i - 1 \in 1 .. n /\ i # 1
    BY <1>3
  <2>2. u[i] = u[i - 1] \o seqs[i]
    BY <1>2, <2>1
  <2>3. Holds(b, k, u[i - 1] \o seqs[i])
    BY <1>3, <2>2
  <2> QED BY <1>2, <2>1, <2>3, HoldsConcat
<1>4. ASSUME NEW i \in 1 .. n PROVE Holds(b, k, u[i])
  <2> DEFINE Absent == {m \in Nat : m < n /\ ~ Holds(b, k, u[n - m])}
  <2>1. Absent = {}
    <3> SUFFICES ASSUME Absent # {} PROVE FALSE
      OBVIOUS
    <3>1. PICK m \in Absent : \A x \in Absent : m <= x
      BY LeastElement
    <3>2. m \in Nat /\ m < n /\ ~ Holds(b, k, u[n - m])
      BY <3>1
    <3>3. Holds(b, k, u[n])
      BY <1>1, <3>2, FlattenBytes
    <3>4. m # 0
      BY <3>2, <3>3
    <3>5. m - 1 \in Nat /\ m - 1 < n /\ ~ (m <= m - 1)
      BY <3>2, <3>4
    <3>6. Holds(b, k, u[n - (m - 1)])
      BY <3>1, <3>5
    <3>7. n - (m - 1) \in 1 .. n /\ n - (m - 1) > 1 /\ (n - (m - 1)) - 1 = n - m
      BY <3>2, <3>4
    <3> QED BY <1>3, <3>2, <3>6, <3>7
  <2>2. n - i \in Nat /\ n - i < n /\ n - (n - i) = i
    OBVIOUS
  <2> QED BY <2>1, <2>2
<1> QED BY <1>1, <1>3, <1>4

-----------------------------------------------------------------------------
(* What the packets of each type are made of. *)

LEMMA PublishParts ==
  ASSUME NEW p \in Packets, p.type = PUBLISH
  PROVE  /\ p.dup \in BOOLEAN /\ p.qos \in 0 .. 2 /\ p.retain \in BOOLEAN
         /\ p.topic \in Utf8 /\ p.id \in Word /\ p.payload \in Binary
         /\ Body(p) = PublishBody(p)
<1>1. p \in [type : {PUBLISH}, dup : BOOLEAN, qos : 0 .. 2, retain : BOOLEAN,
             topic : Utf8, id : Word, payload : Binary]
  BY DEF Packets, CONNECT, CONNACK, PUBLISH, PUBACK, PUBREC, PUBREL, PUBCOMP,
         SUBSCRIBE, SUBACK, UNSUBSCRIBE, UNSUBACK, PINGREQ, PINGRESP, DISCONNECT
<1>2. Body(p) = PublishBody(p)
  BY DEF Body, CONNECT, CONNACK, PUBLISH, PUBACK, PUBREC, PUBREL, PUBCOMP,
         SUBSCRIBE, SUBACK, UNSUBSCRIBE, UNSUBACK
<1> QED BY <1>1, <1>2

LEMMA ConnectParts ==
  ASSUME NEW p \in Packets, p.type = CONNECT
  PROVE  /\ p.id \in Utf8 /\ p.will \in Maybe([topic : Utf8, message : Binary])
         /\ p.user \in Maybe(Utf8) /\ p.pass \in Maybe(Binary)
         /\ Body(p) = ConnectBody(p)
<1>1. p \in [type : {CONNECT}, id : Utf8, will : Maybe([topic : Utf8, message : Binary]),
             user : Maybe(Utf8), pass : Maybe(Binary)]
  BY DEF Packets, CONNECT, CONNACK, PUBLISH, PUBACK, PUBREC, PUBREL, PUBCOMP,
         SUBSCRIBE, SUBACK, UNSUBSCRIBE, UNSUBACK, PINGREQ, PINGRESP, DISCONNECT
<1>2. Body(p) = ConnectBody(p)
  BY DEF Body, CONNECT, CONNACK, PUBLISH, PUBACK, PUBREC, PUBREL, PUBCOMP,
         SUBSCRIBE, SUBACK, UNSUBSCRIBE, UNSUBACK
<1> QED BY <1>1, <1>2

Entry == [topic : Utf8, qos : 0 .. 2]

LEMMA SubscribeParts ==
  ASSUME NEW p \in Packets, p.type = SUBSCRIBE
  PROVE  /\ p.id \in Word /\ p.filters \in Some(Entry)
         /\ Body(p) = SubscribeBody(p)
<1>1. p \in [type : {SUBSCRIBE}, id : Word, filters : Some([topic : Utf8, qos : 0 .. 2])]
  BY DEF Packets, CONNECT, CONNACK, PUBLISH, PUBACK, PUBREC, PUBREL, PUBCOMP,
         SUBSCRIBE, SUBACK, UNSUBSCRIBE, UNSUBACK, PINGREQ, PINGRESP, DISCONNECT
<1>2. Body(p) = SubscribeBody(p)
  BY DEF Body, CONNECT, CONNACK, PUBLISH, PUBACK, PUBREC, PUBREL, PUBCOMP,
         SUBSCRIBE, SUBACK, UNSUBSCRIBE, UNSUBACK
<1> QED BY <1>1, <1>2 DEF Entry

LEMMA UnsubscribeParts ==
  ASSUME NEW p \in Packets, p.type = UNSUBSCRIBE
  PROVE  /\ p.id \in Word /\ p.filters \in Some(Utf8)
         /\ Body(p) = UnsubscribeBody(p)
<1>1. p \in [type : {UNSUBSCRIBE}, id : Word, filters : Some(Utf8)]
  BY DEF Packets, CONNECT, CONNACK, PUBLISH, PUBACK, PUBREC, PUBREL, PUBCOMP,
         SUBSCRIBE, SUBACK, UNSUBSCRIBE, UNSUBACK, PINGREQ, PINGRESP, DISCONNECT
<1>2. Body(p) = UnsubscribeBody(p)
  BY DEF Body, CONNECT, CONNACK, PUBLISH, PUBACK, PUBREC, PUBREL, PUBCOMP,
         SUBSCRIBE, SUBACK, UNSUBSCRIBE, UNSUBACK
<1> QED BY <1>1, <1>2

LEMMA SubackParts ==
  ASSUME NEW p \in Packets, p.type = SUBACK
  PROVE  /\ p.id \in Word /\ p.codes \in Some(Octet)
         /\ Body(p) = SubackBody(p)
<1>1. p \in [type : {SUBACK}, id : Word, codes : Some(Octet)]
  BY DEF Packets, CONNECT, CONNACK, PUBLISH, PUBACK, PUBREC, PUBREL, PUBCOMP,
         SUBSCRIBE, SUBACK, UNSUBSCRIBE, UNSUBACK, PINGREQ, PINGRESP, DISCONNECT
<1>2. Body(p) = SubackBody(p)
  BY DEF Body, CONNECT, CONNACK, PUBLISH, PUBACK, PUBREC, PUBREL, PUBCOMP,
         SUBSCRIBE, SUBACK, UNSUBSCRIBE, UNSUBACK
<1> QED BY <1>1, <1>2

LEMMA AckParts ==
  ASSUME NEW p \in Packets, p.type \in {PUBACK, PUBREC, PUBREL, PUBCOMP, UNSUBACK}
  PROVE  /\ p.id \in Word
         /\ Body(p) = Uint16(p.id)
<1>1. p \in [type : {PUBACK, PUBREC, PUBREL, PUBCOMP, UNSUBACK}, id : Word]
  BY DEF Packets, CONNECT, CONNACK, PUBLISH, PUBACK, PUBREC, PUBREL, PUBCOMP,
         SUBSCRIBE, SUBACK, UNSUBSCRIBE, UNSUBACK, PINGREQ, PINGRESP, DISCONNECT
<1>2. Body(p) = Uint16(p.id)
  BY DEF Body, CONNECT, CONNACK, PUBLISH, PUBACK, PUBREC, PUBREL, PUBCOMP,
         SUBSCRIBE, SUBACK, UNSUBSCRIBE, UNSUBACK
<1> QED BY <1>1, <1>2

LEMMA ConnackParts ==
  ASSUME NEW p \in Packets, p.type = CONNACK
  PROVE  /\ p.code \in Octet
         /\ Body(p) = <<0, p.code>>
<1>1. p \in [type : {CONNACK}, code : Octet]
  BY DEF Packets, CONNECT, CONNACK, PUBLISH, PUBACK, PUBREC, PUBREL, PUBCOMP,
         SUBSCRIBE, SUBACK, UNSUBSCRIBE, UNSUBACK, PINGREQ, PINGRESP, DISCONNECT
<1>2. Body(p) = <<0, p.code>>
  BY DEF Body, CONNECT, CONNACK, PUBLISH, PUBACK, PUBREC, PUBREL, PUBCOMP,
         SUBSCRIBE, SUBACK, UNSUBSCRIBE, UNSUBACK
<1> QED BY <1>1, <1>2

LEMMA BareParts ==
  ASSUME NEW p \in Packets, p.type \in {PINGREQ, PINGRESP, DISCONNECT}
  PROVE  Body(p) = <<>>
  BY DEF Body, CONNECT, CONNACK, PUBLISH, PUBACK, PUBREC, PUBREL, PUBCOMP,
         SUBSCRIBE, SUBACK, UNSUBSCRIBE, UNSUBACK, PINGREQ, PINGRESP, DISCONNECT

(* The first byte of a packet. *)
LEMMA FirstByte ==
  ASSUME NEW p \in Packets
  PROVE  /\ p.type \in 1 .. 14 /\ Flags(p) \in 0 .. 15
         /\ p.type = PUBLISH => /\ (Flags(p) \div 2) % 4 = p.qos
                               /\ (Flags(p) >= 8) = p.dup
                               /\ (Flags(p) % 2 = 1) = p.retain
<1>1. p.type \in 1 .. 14
  BY DEF Packets, CONNECT, CONNACK, PUBLISH, PUBACK, PUBREC, PUBREL, PUBCOMP,
         SUBSCRIBE, SUBACK, UNSUBSCRIBE, UNSUBACK, PINGREQ, PINGRESP, DISCONNECT
<1>2. CASE p.type = PUBLISH
  <2>1. p.dup \in BOOLEAN /\ p.qos \in 0 .. 2 /\ p.retain \in BOOLEAN
    BY <1>2, PublishParts
  <2>2. Flags(p) = Bit(p.dup, 8) + 2 * p.qos + Bit(p.retain, 1)
    BY <1>2 DEF Flags, PUBLISH, PUBREL, SUBSCRIBE, UNSUBSCRIBE
  <2>3. \A d, r \in BOOLEAN : \A q \in 0 .. 2 :
          LET f == Bit(d, 8) + 2 * q + Bit(r, 1)
          IN  f \in 0 .. 15 /\ (f \div 2) % 4 = q /\ (f >= 8) = d /\ (f % 2 = 1) = r
    BY DEF Bit
  <2> QED BY <1>1, <2>1, <2>2, <2>3
<1>3. CASE p.type # PUBLISH
  <2>1. Flags(p) \in {0, 2}
    BY <1>3 DEF Flags
  <2> QED BY <1>1, <1>3, <2>1
<1> QED BY <1>2, <1>3

(* A packet at the head of a chunk: its fixed header and its body. *)
LEMMA PacketHolds ==
  ASSUME NEW p \in Packets, Body(p) \in Seq(Nat),
         NEW T, NEW b \in Seq(T), IsPrefix(Encode(p), b)
  PROVE  /\ Len(Body(p)) \in Nat /\ Len(b) \in Nat /\ 2 + Len(Body(p)) <= Len(b)
         /\ b[1] = 16 * p.type + Flags(p) /\ b[2] = Len(Body(p))
         /\ Holds(b, 2, Body(p))
         /\ Len(Encode(p)) = 2 + Len(Body(p))
<1>1. PICK n \in Nat, d \in Nat : n = 16 * p.type + Flags(p) /\ d = Len(Body(p))
  <2>1. PICK t \in 1 .. 14, f \in 0 .. 15 : t = p.type /\ f = Flags(p)
    BY FirstByte
  <2>2. 16 * t + f \in Nat
    OBVIOUS
  <2>3. Len(Body(p)) \in Nat
    OBVIOUS
  <2> QED BY <2>1, <2>2, <2>3
<1>2. Encode(p) = <<n, d>> \o Body(p)
  BY <1>1 DEF Encode
<1>3. <<n, d>> \in Seq(Nat) /\ Len(<<n, d>>) = 2 /\ <<n, d>>[1] = n /\ <<n, d>>[2] = d
  OBVIOUS
<1>4. Encode(p) \in Seq(Nat) /\ Len(Encode(p)) = 2 + d
  BY <1>1, <1>2, <1>3, ConcatProperties
<1>5. Holds(b, 0, <<n, d>> \o Body(p))
  BY <1>2, <1>4, HoldsPrefix
<1>6. Holds(b, 0, <<n, d>>) /\ Holds(b, 0 + 2, Body(p))
  BY <1>3, <1>5, HoldsConcat
<1>7. b[0 + 1] = n /\ b[0 + 2] = d
  BY <1>3, <1>6 DEF Holds
<1>8. 2 + d <= Len(b)
  BY <1>1, <1>6 DEF Holds
<1> QED BY <1>1, <1>4, <1>6, <1>7, <1>8

(* Where the fields of a PUBLISH lie. *)
LEMMA PublishHolds ==
  ASSUME NEW p \in Packets, p.type = PUBLISH, NEW T, NEW b \in Seq(T), NEW k \in Nat,
         Holds(b, k, Body(p))
  PROVE  LET from == k + 2 + Len(p.topic) + (IF p.qos > 0 THEN 2 ELSE 0)
         IN  /\ Len(p.topic) \in Nat /\ Len(p.payload) \in Nat
             /\ Holds(b, k, Text(p.topic))
             /\ p.qos > 0 => Holds(b, k + 2 + Len(p.topic), Uint16(p.id))
             /\ Holds(b, from, p.payload)
             /\ k + Len(Body(p)) = from + Len(p.payload)
<1>1. PICK topic \in Seq(Nat), n \in Nat, payload \in Seq(Nat), q \in 0 .. 2 :
        p.topic = topic /\ p.id = n /\ p.payload = payload /\ p.qos = q
  BY PublishParts, Octets, Utf8Octets DEF Binary, Word
<1>2. PICK ident : ident = IF q > 0 THEN Uint16(n) ELSE <<>>
  OBVIOUS
<1>3. ident \in Seq(Nat) /\ Len(ident) = IF q > 0 THEN 2 ELSE 0
  <2>1. Uint16(n) \in Seq(Nat) /\ Len(Uint16(n)) = 2
    BY Uint16Bytes
  <2>2. <<>> \in Seq(Nat) /\ Len(<<>>) = 0
    OBVIOUS
  <2>3. CASE q > 0
    BY <1>2, <2>1, <2>3
  <2>4. CASE ~(q > 0)
    BY <1>2, <2>2, <2>4
  <2> QED BY <2>3, <2>4
<1>4. PICK text \in Seq(Nat) : text = Text(topic) /\ Len(text) = 2 + Len(topic)
  BY TextBytes
<1>5. Body(p) = text \o ident \o payload
  BY <1>1, <1>2, <1>4, PublishParts DEF PublishBody
<1>6. /\ Holds(b, k, text) /\ Holds(b, k + Len(text), ident)
      /\ Holds(b, k + Len(text) + Len(ident), payload)
      /\ Len(Body(p)) = Len(text) + Len(ident) + Len(payload)
  <2>1. Holds(b, k, text \o ident \o payload)
    BY <1>5
  <2>2. ident \in Seq(Nat)
    BY <1>3
  <2>3. /\ Holds(b, k, text) /\ Holds(b, k + Len(text), ident)
        /\ Holds(b, k + Len(text) + Len(ident), payload)
        /\ Len(text \o ident \o payload) = Len(text) + Len(ident) + Len(payload)
    BY <2>1, <2>2, HoldsThree
  <2> QED BY <1>5, <2>3
<1>7. k + Len(text) + Len(ident) = k + 2 + Len(topic) + (IF q > 0 THEN 2 ELSE 0)
  BY <1>3, <1>4
<1>8. q > 0 => Holds(b, k + 2 + Len(topic), Uint16(n))
  <2>1. k + Len(text) = k + 2 + Len(topic)
    BY <1>4
  <2> QED BY <1>2, <1>6, <2>1
<1>9. k + Len(Body(p)) = k + 2 + Len(topic) + (IF q > 0 THEN 2 ELSE 0) + Len(payload)
  BY <1>3, <1>4, <1>6
<1> QED BY <1>1, <1>4, <1>6, <1>7, <1>8, <1>9

-----------------------------------------------------------------------------
(* The optional fields of a CONNECT. *)

LEMMA MaybeCases ==
  ASSUME NEW S, NEW s \in Maybe(S)
  PROVE  s = <<>> \/ (Len(s) = 1 /\ s[1] \in S /\ DOMAIN s = 1 .. 1)
<1>1. s \in Seq(S) /\ Len(s) \in Nat /\ Len(s) <= 1 /\ DOMAIN s = 1 .. Len(s)
  BY DEF Maybe
<1>2. Len(s) = 0 \/ Len(s) = 1
  BY <1>1
<1> QED BY <1>1, <1>2

MaybeText(s) == IF s = <<>> THEN <<>> ELSE Text(s[1])

LEMMA MaybeTextBytes ==
  ASSUME NEW s \in Maybe(Seq(Nat))
  PROVE  /\ FlattenSeq([i \in DOMAIN s |-> Text(s[i])]) = MaybeText(s)
         /\ MaybeText(s) \in Seq(Nat)
         /\ Len(MaybeText(s)) = IF s = <<>> THEN 0 ELSE 2 + Len(s[1])
<1>f. PICK f : f = [i \in DOMAIN s |-> Text(s[i])]
  OBVIOUS
<1>1. CASE s = <<>>
  <2>1. f = <<>>
    BY <1>f, <1>1
  <2>2. FlattenSeq(f) = <<>> /\ <<>> \in Seq(Nat) /\ Len(<<>>) = 0
    BY <2>1 DEF FlattenSeq
  <2>3. MaybeText(s) = <<>>
    BY <1>1 DEF MaybeText
  <2>4. MaybeText(s) \in Seq(Nat) /\ Len(MaybeText(s)) = 0
    BY <2>3
  <2>5. FlattenSeq(f) = MaybeText(s)
    BY <2>2, <2>3
  <2> QED BY <1>f, <1>1, <2>4, <2>5
<1>2. CASE s # <<>>
  <2>1. s[1] \in Seq(Nat) /\ DOMAIN s = 1 .. 1
    BY <1>2, MaybeCases
  <2>2. Text(s[1]) \in Seq(Nat) /\ Len(Text(s[1])) = 2 + Len(s[1])
    BY <2>1, TextBytes
  <2>3. f \in Seq(Seq(Nat)) /\ Len(f) = 1 /\ f[1] = Text(s[1])
    BY <1>f, <2>1, <2>2
  <2>4. FlattenSeq(f) = Text(s[1])
    BY <2>3, FlattenBytes
  <2> QED BY <1>f, <1>2, <2>2, <2>4 DEF MaybeText
<1> QED BY <1>1, <1>2

MaybeWill(w) == IF w = <<>> THEN <<>> ELSE Text(w[1].topic) \o Text(w[1].message)

LEMMA MaybeWillBytes ==
  ASSUME NEW w \in Maybe([topic : Seq(Nat), message : Seq(Nat)])
  PROVE  /\ FlattenSeq([i \in DOMAIN w |-> Text(w[i].topic) \o Text(w[i].message)])
              = MaybeWill(w)
         /\ MaybeWill(w) \in Seq(Nat)
         /\ Len(MaybeWill(w)) =
              IF w = <<>> THEN 0 ELSE 4 + Len(w[1].topic) + Len(w[1].message)
<1>f. PICK f : f = [i \in DOMAIN w |-> Text(w[i].topic) \o Text(w[i].message)]
  OBVIOUS
<1>1. CASE w = <<>>
  <2>1. f = <<>>
    BY <1>f, <1>1
  <2>2. FlattenSeq(f) = <<>> /\ <<>> \in Seq(Nat) /\ Len(<<>>) = 0
    BY <2>1 DEF FlattenSeq
  <2>3. MaybeWill(w) = <<>>
    BY <1>1 DEF MaybeWill
  <2>4. MaybeWill(w) \in Seq(Nat) /\ Len(MaybeWill(w)) = 0
    BY <2>3
  <2>5. FlattenSeq(f) = MaybeWill(w)
    BY <2>2, <2>3
  <2> QED BY <1>f, <1>1, <2>4, <2>5
<1>2. CASE w # <<>>
  <2>1. w[1] \in [topic : Seq(Nat), message : Seq(Nat)] /\ DOMAIN w = 1 .. 1
    BY <1>2, MaybeCases
  <2>2. PICK t, m \in Seq(Nat) : t = w[1].topic /\ m = w[1].message
    BY <2>1
  <2>3. PICK x, y \in Seq(Nat) : x = Text(t) /\ y = Text(m)
                                /\ Len(x) = 2 + Len(t) /\ Len(y) = 2 + Len(m)
    BY TextBytes
  <2>4. PICK z \in Seq(Nat) : z = x \o y /\ Len(z) = Len(x) + Len(y)
    BY ConcatLength
  <2>5. Len(z) = 4 + Len(t) + Len(m)
    BY <2>3, <2>4
  <2>7. f \in Seq(Seq(Nat)) /\ Len(f) = 1 /\ f[1] = z
    BY <1>f, <2>1, <2>2, <2>3, <2>4
  <2>8. FlattenSeq(f) = z
    BY <2>7, FlattenBytes
  <2>9. MaybeWill(w) = z
    BY <1>2, <2>2, <2>3, <2>4 DEF MaybeWill
  <2> QED BY <1>2, <1>f, <2>2, <2>5, <2>8, <2>9
<1> QED BY <1>1, <1>2

(* Where the strings of a CONNECT lie in a chunk that it begins. *)
Size(s) == IF s = <<>> THEN 0 ELSE 2 + Len(s[1])
WillSize(p) ==
  IF p.will = <<>> THEN 0 ELSE 4 + Len(p.will[1].topic) + Len(p.will[1].message)

AfterId(p)   == 14 + Len(p.id)
AfterWill(p) == AfterId(p) + WillSize(p)
AfterUser(p) == AfterWill(p) + Size(p.user)
AfterPass(p) == AfterUser(p) + Size(p.pass)

(* The sequences of bytes that a CONNECT consists of behind its fixed part. *)
LEMMA ConnectStrings ==
  ASSUME NEW p \in Packets, p.type = CONNECT
  PROVE  /\ p.id \in Seq(Nat) /\ p.user \in Maybe(Seq(Nat)) /\ p.pass \in Maybe(Seq(Nat))
         /\ p.will \in Maybe([topic : Seq(Nat), message : Seq(Nat)])
         /\ ConnectFlags(p) \in Nat
<1>1. /\ p.id \in Utf8 /\ p.will \in Maybe([topic : Utf8, message : Binary])
      /\ p.user \in Maybe(Utf8) /\ p.pass \in Maybe(Binary)
  BY ConnectParts
<1>2. Utf8 \subseteq Seq(Nat) /\ Binary \subseteq Seq(Nat)
  BY Octets, Utf8Octets DEF Binary
<1>3. \A S, U : S \subseteq U => Maybe(S) \subseteq Maybe(U)
  BY SeqMonotonic DEF Maybe
<1>4. [topic : Utf8, message : Binary] \subseteq [topic : Seq(Nat), message : Seq(Nat)]
  BY <1>2
<1>5. ConnectFlags(p) \in Nat
  BY DEF ConnectFlags, Bit
<1>6. Maybe(Utf8) \subseteq Maybe(Seq(Nat)) /\ Maybe(Binary) \subseteq Maybe(Seq(Nat))
  BY <1>2, <1>3
<1>7. Maybe([topic : Utf8, message : Binary])
        \subseteq Maybe([topic : Seq(Nat), message : Seq(Nat)])
  BY <1>3, <1>4
<1> QED BY <1>1, <1>2, <1>5, <1>6, <1>7

ConnectRow(p, start, ident, will, user, pass) ==
  /\ Body(p) = start \o ident \o will \o user \o pass
  /\ Len(start) = 10 /\ start[8] = ConnectFlags(p)
  /\ ident = Text(p.id) /\ will = MaybeWill(p.will)
  /\ user = MaybeText(p.user) /\ pass = MaybeText(p.pass)
  /\ Len(ident) = 2 + Len(p.id) /\ Len(will) = WillSize(p)
  /\ Len(user) = Size(p.user) /\ Len(pass) = Size(p.pass)

LEMMA ConnectBytes ==
  ASSUME NEW p \in Packets, p.type = CONNECT
  PROVE  \E start \in Seq(Nat), ident \in Seq(Nat), will \in Seq(Nat), user \in Seq(Nat),
            pass \in Seq(Nat) : ConnectRow(p, start, ident, will, user, pass)
<1>1. PICK flags \in Nat : flags = ConnectFlags(p)
  BY ConnectStrings
<1>2. PICK start : start = Text(<<77, 81, 84, 84>>) \o <<4, flags>> \o Uint16(60)
  OBVIOUS
<1>4. start \in Seq(Nat) /\ Len(start) = 10 /\ start[8] = flags
  <2>1. PICK name \in Seq(Nat) : name = <<77, 81, 84, 84>> /\ Len(name) = 4
    <3>1. <<77, 81, 84, 84>> \in Seq(Nat) /\ Len(<<77, 81, 84, 84>>) = 4
      OBVIOUS
    <3> QED BY <3>1
  <2>2. PICK m \in Seq(Nat) : m = Text(name) /\ Len(m) = 2 + Len(name)
    BY TextBytes
  <2>3. PICK l \in Seq(Nat) : l = <<4, flags>> /\ Len(l) = 2 /\ l[2] = flags
    <3>1. <<4, flags>> \in Seq(Nat) /\ Len(<<4, flags>>) = 2 /\ <<4, flags>>[2] = flags
      OBVIOUS
    <3> QED BY <3>1
  <2>4. PICK u \in Seq(Nat) : u = Uint16(60) /\ Len(u) = 2
    BY Uint16Bytes
  <2>5. PICK n \in Seq(Nat) : n = m \o l
    BY ConcatItems
  <2>6. Len(m) = 6 /\ 2 \in 1 .. Len(l) /\ 8 \in 1 .. 6 + 2
    BY <2>1, <2>2, <2>3
  <2>7. Len(n) = 8 /\ n[8] = l[2]
    <3>1. Len(n) = Len(m) + Len(l) /\ n[Len(m) + 2] = l[2]
      <4>1. /\ Len(m \o l) = Len(m) + Len(l)
            /\ \A i \in 1 .. Len(l) : (m \o l)[Len(m) + i] = l[i]
        BY ConcatItems
      <4> QED BY <2>5, <2>6, <4>1
    <3>2. Len(m) + Len(l) = 8 /\ Len(m) + 2 = 8
      BY <2>3, <2>6
    <3> QED BY <3>1, <3>2
  <2>8. start = n \o u
    BY <1>2, <2>1, <2>2, <2>3, <2>4, <2>5
  <2>9. 8 \in 1 .. Len(n)
    BY <2>7
  <2>10. start \in Seq(Nat) /\ Len(start) = Len(n) + Len(u) /\ start[8] = n[8]
    BY <2>8, <2>9, ConcatItems
  <2> QED BY <2>3, <2>4, <2>7, <2>10
<1>5. PICK ident \in Seq(Nat) : ident = Text(p.id) /\ Len(ident) = 2 + Len(p.id)
  BY ConnectStrings, TextBytes
<1>6. PICK will \in Seq(Nat) :
        /\ will = MaybeWill(p.will) /\ Len(will) = WillSize(p)
        /\ FlattenSeq([i \in DOMAIN p.will |-> Text(p.will[i].topic)
                                              \o Text(p.will[i].message)]) = will
  BY ConnectStrings, MaybeWillBytes DEF WillSize
<1>7. PICK user \in Seq(Nat) :
        /\ user = MaybeText(p.user) /\ Len(user) = Size(p.user)
        /\ FlattenSeq([i \in DOMAIN p.user |-> Text(p.user[i])]) = user
  BY ConnectStrings, MaybeTextBytes DEF Size
<1>8. PICK pass \in Seq(Nat) :
        /\ pass = MaybeText(p.pass) /\ Len(pass) = Size(p.pass)
        /\ FlattenSeq([i \in DOMAIN p.pass |-> Text(p.pass[i])]) = pass
  BY ConnectStrings, MaybeTextBytes DEF Size
<1>9. Body(p) = start \o ident \o will \o user \o pass
  BY <1>1, <1>2, <1>5, <1>6, <1>7, <1>8, ConnectParts DEF ConnectBody
<1> QED BY <1>1, <1>4, <1>5, <1>6, <1>7, <1>8, <1>9 DEF ConnectRow

(* Five sequences of bytes in a row. *)
FiveInARow(b, k, s, t, u, v, w) ==
  /\ Holds(b, k, s) /\ Holds(b, k + Len(s), t)
  /\ Holds(b, k + Len(s) + Len(t), u)
  /\ Holds(b, k + Len(s) + Len(t) + Len(u), v)
  /\ Holds(b, k + Len(s) + Len(t) + Len(u) + Len(v), w)
  /\ Len(s \o t \o u \o v \o w) = Len(s) + Len(t) + Len(u) + Len(v) + Len(w)

LEMMA HoldsFive ==
  ASSUME NEW s \in Seq(Nat), NEW t \in Seq(Nat), NEW u \in Seq(Nat), NEW v \in Seq(Nat),
         NEW w \in Seq(Nat),
         NEW T, NEW b \in Seq(T), NEW k \in Nat, Holds(b, k, s \o t \o u \o v \o w)
  PROVE  FiveInARow(b, k, s, t, u, v, w)
<1>1. PICK x \in Seq(Nat) : x = s \o t \o u
  <2>1. s \o t \in Seq(Nat)
    OBVIOUS
  <2>2. s \o t \o u \in Seq(Nat)
    BY <2>1
  <2> QED BY <2>2
<1>2. Holds(b, k, x \o v \o w)
  BY <1>1
<1>3. /\ Holds(b, k, x) /\ Holds(b, k + Len(x), v) /\ Holds(b, k + Len(x) + Len(v), w)
      /\ Len(x \o v \o w) = Len(x) + Len(v) + Len(w)
  BY <1>2, HoldsThree
<1>4. Holds(b, k, s \o t \o u)
  BY <1>1, <1>3
<1>5. /\ Holds(b, k, s) /\ Holds(b, k + Len(s), t) /\ Holds(b, k + Len(s) + Len(t), u)
      /\ Len(s \o t \o u) = Len(s) + Len(t) + Len(u)
  BY <1>4, HoldsThree
<1>6. /\ k + Len(x) = k + Len(s) + Len(t) + Len(u)
      /\ k + Len(x) + Len(v) = k + Len(s) + Len(t) + Len(u) + Len(v)
  BY <1>1, <1>5
<1>7. Len(x \o v \o w) = Len(s) + Len(t) + Len(u) + Len(v) + Len(w)
  BY <1>1, <1>3, <1>5
<1> QED BY <1>1, <1>3, <1>5, <1>6, <1>7 DEF FiveInARow

LEMMA ConnectHolds ==
  ASSUME NEW p \in Packets, p.type = CONNECT, NEW T, NEW b \in Seq(T),
         Holds(b, 2, Body(p))
  PROVE  /\ b[10] = ConnectFlags(p) /\ 12 <= Len(b)
         /\ Holds(b, 12, Text(p.id))
         /\ p.will # <<>> =>
              /\ Holds(b, AfterId(p), Text(p.will[1].topic))
              /\ Holds(b, AfterId(p) + 2 + Len(p.will[1].topic), Text(p.will[1].message))
         /\ p.user # <<>> => Holds(b, AfterWill(p), Text(p.user[1]))
         /\ p.pass # <<>> => Holds(b, AfterUser(p), Text(p.pass[1]))
         /\ 2 + Len(Body(p)) = AfterPass(p)
<1>1. PICK start \in Seq(Nat), ident \in Seq(Nat), will \in Seq(Nat), user \in Seq(Nat),
           pass \in Seq(Nat) : ConnectRow(p, start, ident, will, user, pass)
  BY ConnectBytes
<1>0. /\ Body(p) = start \o ident \o will \o user \o pass
      /\ Len(start) = 10 /\ start[8] = ConnectFlags(p)
      /\ ident = Text(p.id) /\ will = MaybeWill(p.will)
      /\ user = MaybeText(p.user) /\ pass = MaybeText(p.pass)
      /\ Len(ident) = 2 + Len(p.id) /\ Len(will) = WillSize(p)
      /\ Len(user) = Size(p.user) /\ Len(pass) = Size(p.pass)
  BY <1>1 DEF ConnectRow
<1>2. Holds(b, 2, start \o ident \o will \o user \o pass)
  BY <1>0
<1>3. /\ Holds(b, 2, start) /\ Holds(b, 2 + Len(start), ident)
      /\ Holds(b, 2 + Len(start) + Len(ident), will)
      /\ Holds(b, 2 + Len(start) + Len(ident) + Len(will), user)
      /\ Holds(b, 2 + Len(start) + Len(ident) + Len(will) + Len(user), pass)
      /\ Len(start \o ident \o will \o user \o pass)
           = Len(start) + Len(ident) + Len(will) + Len(user) + Len(pass)
  <2>1. FiveInARow(b, 2, start, ident, will, user, pass)
    BY <1>2, HoldsFive
  <2> QED BY <2>1 DEF FiveInARow
<1>4. PICK l \in Nat, m \in Nat, n \in Nat, o \in Nat :
        /\ l = Len(ident) /\ m = Len(will) /\ n = Len(user) /\ o = Len(pass)
  OBVIOUS
<1>5. /\ Holds(b, AfterId(p), will) /\ Holds(b, AfterWill(p), user)
      /\ Holds(b, AfterUser(p), pass) /\ Holds(b, 12, ident)
      /\ 2 + Len(Body(p)) = AfterPass(p) /\ AfterId(p) \in Nat
  <2>1. Len(p.id) \in Nat /\ l = 2 + Len(p.id)
    BY <1>0, <1>4, ConnectStrings
  <2>2. AfterId(p) = 12 + l
    BY <2>1 DEF AfterId
  <2>3. AfterWill(p) = 12 + l + m
    BY <1>0, <1>4, <2>2 DEF AfterWill
  <2>4. AfterUser(p) = 12 + l + m + n
    BY <1>0, <1>4, <2>3 DEF AfterUser
  <2>5. AfterPass(p) = 12 + l + m + n + o
    BY <1>0, <1>4, <2>4 DEF AfterPass
  <2>6. /\ 2 + 10 = 12 /\ 2 + 10 + l = 12 + l /\ 2 + 10 + l + m = 12 + l + m
        /\ 2 + 10 + l + m + n = 12 + l + m + n
        /\ 2 + (10 + l + m + n + o) = 12 + l + m + n + o
    OBVIOUS
  <2>7. /\ Holds(b, 2 + 10, ident) /\ Holds(b, 2 + 10 + l, will)
        /\ Holds(b, 2 + 10 + l + m, user) /\ Holds(b, 2 + 10 + l + m + n, pass)
        /\ Len(Body(p)) = 10 + l + m + n + o
    BY <1>0, <1>3, <1>4
  <2>8. AfterId(p) \in Nat
    BY <2>2
  <2> QED BY <2>2, <2>3, <2>4, <2>5, <2>6, <2>7, <2>8
<1>6. b[2 + 8] = start[8] /\ 2 + 10 <= Len(b)
  BY <1>0, <1>3 DEF Holds
<1>7. ASSUME p.will # <<>>
      PROVE  /\ Holds(b, AfterId(p), Text(p.will[1].topic))
             /\ Holds(b, AfterId(p) + 2 + Len(p.will[1].topic), Text(p.will[1].message))
  <2>1. p.will[1] \in [topic : Seq(Nat), message : Seq(Nat)]
    BY <1>7, ConnectStrings, MaybeCases
  <2>2. PICK t, v \in Seq(Nat) : t = p.will[1].topic /\ v = p.will[1].message
    BY <2>1
  <2>3. PICK x, y \in Seq(Nat) : x = Text(t) /\ y = Text(v) /\ Len(x) = 2 + Len(t)
    BY TextBytes
  <2>4. will = x \o y
    BY <1>0, <1>7, <2>2, <2>3 DEF MaybeWill
  <2>5. AfterId(p) \in Nat /\ Holds(b, AfterId(p), x \o y)
    BY <1>5, <2>4
  <2>6. Holds(b, AfterId(p), x) /\ Holds(b, AfterId(p) + Len(x), y)
    BY <2>5, HoldsConcat
  <2>7. AfterId(p) + Len(x) = AfterId(p) + 2 + Len(t)
    <3>1. PICK a \in Nat, c \in Nat : a = AfterId(p) /\ c = Len(t)
      BY <2>5
    <3>2. a + (2 + c) = a + 2 + c
      OBVIOUS
    <3> QED BY <2>3, <3>1, <3>2
  <2> QED BY <2>2, <2>3, <2>6, <2>7
<1>8. p.user # <<>> => Holds(b, AfterWill(p), Text(p.user[1]))
  BY <1>0, <1>5 DEF MaybeText
<1>9. p.pass # <<>> => Holds(b, AfterUser(p), Text(p.pass[1]))
  BY <1>0, <1>5 DEF MaybeText
<1>10. Holds(b, 12, Text(p.id)) /\ 2 + Len(Body(p)) = AfterPass(p)
  BY <1>0, <1>5
<1> QED BY <1>0, <1>6, <1>7, <1>8, <1>9, <1>10

-----------------------------------------------------------------------------
(* The lists of a SUBSCRIBE, an UNSUBSCRIBE and a SUBACK. *)

FilterTexts(p) == [i \in DOMAIN p.filters |-> Text(p.filters[i])]

FilterEntries(p) ==
  [i \in DOMAIN p.filters |-> Text(p.filters[i].topic) \o <<p.filters[i].qos>>]

LEMMA UnsubscribeBytes ==
  ASSUME NEW p \in Packets, p.type = UNSUBSCRIBE
  PROVE  /\ FilterTexts(p) \in Seq(Seq(Nat)) /\ Len(FilterTexts(p)) = Len(p.filters)
         /\ p.filters \in Seq(Utf8) /\ Len(p.filters) > 0
         /\ p.id \in Nat
         /\ Body(p) = Uint16(p.id) \o FlattenSeq(FilterTexts(p))
<1>1. p.filters \in Seq(Utf8) /\ Len(p.filters) > 0 /\ p.id \in Nat
  BY UnsubscribeParts DEF Some, Word
<1>2. PICK n \in Nat, fs \in {p.filters} : n = Len(p.filters) /\ fs = p.filters
                          /\ \A i \in 1 .. n : fs[i] \in Utf8
  BY <1>1
<1>3. \A i \in 1 .. n : Text(fs[i]) \in Seq(Nat)
  BY <1>2, Utf8Octets, TextBytes
<1>4. FilterTexts(p) = [i \in 1 .. n |-> Text(fs[i])]
  BY <1>1, <1>2 DEF FilterTexts
<1>5. FilterTexts(p) \in Seq(Seq(Nat)) /\ Len(FilterTexts(p)) = n
  BY <1>3, <1>4
<1>6. Body(p) = Uint16(p.id) \o FlattenSeq(FilterTexts(p))
  BY UnsubscribeParts DEF UnsubscribeBody, FilterTexts
<1> QED BY <1>1, <1>2, <1>5, <1>6

LEMMA SubscribeBytes ==
  ASSUME NEW p \in Packets, p.type = SUBSCRIBE
  PROVE  /\ FilterEntries(p) \in Seq(Seq(Nat)) /\ Len(FilterEntries(p)) = Len(p.filters)
         /\ p.filters \in Seq(Entry) /\ Len(p.filters) > 0
         /\ p.id \in Nat
         /\ Body(p) = Uint16(p.id) \o FlattenSeq(FilterEntries(p))
<1>1. /\ p.filters \in Seq(Entry) /\ Len(p.filters) > 0
      /\ p.id \in Nat
  BY SubscribeParts DEF Some, Word
<1>2. PICK n \in Nat, fs \in {p.filters} : n = Len(p.filters) /\ fs = p.filters
                          /\ \A i \in 1 .. n : fs[i] \in Entry
  BY <1>1
<1>3. ASSUME NEW i \in 1 .. n PROVE Text(fs[i].topic) \o <<fs[i].qos>> \in Seq(Nat)
  <2>1. PICK t \in Seq(Nat), q \in Nat : t = fs[i].topic /\ q = fs[i].qos
    <3>1. fs[i].topic \in Utf8 /\ fs[i].qos \in 0 .. 2
      BY <1>2 DEF Entry
    <3>2. fs[i].topic \in Seq(Nat) /\ fs[i].qos \in Nat
      BY <3>1, Utf8Octets
    <3> QED BY <3>2
  <2>2. Text(t) \in Seq(Nat) /\ <<q>> \in Seq(Nat)
    BY TextBytes
  <2> QED BY <2>1, <2>2
<1>4. FilterEntries(p) = [i \in 1 .. n |-> Text(fs[i].topic) \o <<fs[i].qos>>]
  BY <1>1, <1>2 DEF FilterEntries
<1>5. FilterEntries(p) \in Seq(Seq(Nat)) /\ Len(FilterEntries(p)) = n
  BY <1>3, <1>4
<1>6. Body(p) = Uint16(p.id) \o FlattenSeq(FilterEntries(p))
  BY SubscribeParts DEF SubscribeBody, FilterEntries
<1> QED BY <1>1, <1>2, <1>5, <1>6

LEMMA BodyBytes == ASSUME NEW p \in Packets PROVE Body(p) \in Seq(Nat)
<1>1. CASE p.type = CONNECT
  <2>1. PICK start \in Seq(Nat), ident \in Seq(Nat), will \in Seq(Nat), user \in Seq(Nat),
             pass \in Seq(Nat) : ConnectRow(p, start, ident, will, user, pass)
    BY <1>1, ConnectBytes
  <2>2. Body(p) = start \o ident \o will \o user \o pass
    BY <2>1 DEF ConnectRow
  <2> QED BY <2>2
<1>2. CASE p.type = PUBLISH
  <2>1. PICK topic \in Seq(Nat), n \in Nat, payload \in Seq(Nat), q \in 0 .. 2 :
          p.topic = topic /\ p.id = n /\ p.payload = payload /\ p.qos = q
    BY <1>2, PublishParts, Octets, Utf8Octets DEF Binary, Word
  <2>2. PICK ident \in Seq(Nat) : ident = IF q > 0 THEN Uint16(n) ELSE <<>>
    <3>1. Uint16(n) \in Seq(Nat) /\ <<>> \in Seq(Nat)
      BY Uint16Bytes
    <3> QED BY <3>1
  <2>3. PICK text \in Seq(Nat) : text = Text(topic)
    BY TextBytes
  <2>4. Body(p) = text \o ident \o payload
    BY <1>2, <2>1, <2>2, <2>3, PublishParts DEF PublishBody
  <2> QED BY <2>4
<1>3. CASE p.type = SUBSCRIBE
  <2>1. Uint16(p.id) \in Seq(Nat) /\ FlattenSeq(FilterEntries(p)) \in Seq(Nat)
    BY <1>3, SubscribeBytes, Uint16Bytes, FlattenBytes
  <2>2. Body(p) = Uint16(p.id) \o FlattenSeq(FilterEntries(p))
    BY <1>3, SubscribeBytes
  <2> QED BY <2>1, <2>2
<1>4. CASE p.type = UNSUBSCRIBE
  <2>1. Uint16(p.id) \in Seq(Nat) /\ FlattenSeq(FilterTexts(p)) \in Seq(Nat)
    BY <1>4, UnsubscribeBytes, Uint16Bytes, FlattenBytes
  <2>2. Body(p) = Uint16(p.id) \o FlattenSeq(FilterTexts(p))
    BY <1>4, UnsubscribeBytes
  <2> QED BY <2>1, <2>2
<1>5. CASE p.type = SUBACK
  <2>1. p.id \in Nat /\ p.codes \in Seq(Nat)
    BY <1>5, SubackParts, Octets DEF Some, Word
  <2>2. Uint16(p.id) \in Seq(Nat)
    BY <2>1, Uint16Bytes
  <2>3. Body(p) = Uint16(p.id) \o p.codes
    BY <1>5, SubackParts DEF SubackBody
  <2> QED BY <2>1, <2>2, <2>3
<1>6. CASE p.type \in {PUBACK, PUBREC, PUBREL, PUBCOMP, UNSUBACK}
  <2>1. p.id \in Nat
    BY <1>6, AckParts DEF Word
  <2> QED BY <1>6, <2>1, AckParts, Uint16Bytes
<1>7. CASE p.type = CONNACK
  <2>1. p.code \in Nat
    BY <1>7, ConnackParts, Octets
  <2>2. <<0, p.code>> \in Seq(Nat)
    BY <2>1
  <2> QED BY <1>7, <2>2, ConnackParts
<1>8. CASE p.type \in {PINGREQ, PINGRESP, DISCONNECT}
  <2>1. Body(p) = <<>>
    BY <1>8, BareParts
  <2> QED BY <2>1
<1>9. \/ p.type \in {CONNECT, CONNACK, PUBLISH, PUBACK, PUBREC, PUBREL, PUBCOMP, SUBSCRIBE}
      \/ p.type \in {SUBACK, UNSUBSCRIBE, UNSUBACK, PINGREQ, PINGRESP, DISCONNECT}
  BY FirstByte
  DEF CONNECT, CONNACK, PUBLISH, PUBACK, PUBREC, PUBREL, PUBCOMP,
      SUBSCRIBE, SUBACK, UNSUBSCRIBE, UNSUBACK, PINGREQ, PINGRESP, DISCONNECT
<1> QED BY <1>1, <1>2, <1>3, <1>4, <1>5, <1>6, <1>7, <1>8, <1>9

(* Where the i-th filter of an UNSUBSCRIBE lies. *)
FilterFrom(p, i) == IF i = 1 THEN 4 ELSE 4 + Len(UpTo(FilterTexts(p))[i - 1])

LEMMA UnsubscribeHolds ==
  ASSUME NEW p \in Packets, p.type = UNSUBSCRIBE, NEW T, NEW b \in Seq(T),
         Holds(b, 2, Body(p))
  PROVE  /\ Holds(b, 2, Uint16(p.id))
         /\ \A i \in 1 .. Len(p.filters) :
              /\ FilterFrom(p, i) \in Nat /\ p.filters[i] \in Utf8
              /\ Holds(b, FilterFrom(p, i), Text(p.filters[i]))
              /\ FilterFrom(p, i + 1) = FilterFrom(p, i) + 2 + Len(p.filters[i])
         /\ 2 + Len(Body(p)) = FilterFrom(p, Len(p.filters) + 1)
<1>1. PICK texts \in Seq(Seq(Nat)) : texts = FilterTexts(p)
  BY UnsubscribeBytes
<1>2. PICK n \in Nat, u \in {UpTo(texts)} :
        n = Len(p.filters) /\ n = Len(texts) /\ n > 0 /\ u = UpTo(texts)
  BY <1>1, UnsubscribeBytes
<1>3. PICK ident \in Seq(Nat) : ident = Uint16(p.id) /\ Len(ident) = 2
  BY UnsubscribeBytes, Uint16Bytes
<1>4. FlattenSeq(texts) \in Seq(Nat) /\ FlattenSeq(texts) = u[n]
  BY <1>2, FlattenBytes
<1>5. Body(p) = ident \o FlattenSeq(texts)
  BY <1>1, <1>3, UnsubscribeBytes
<1>6. Holds(b, 2, ident) /\ Holds(b, 2 + Len(ident), FlattenSeq(texts))
  BY <1>4, <1>5, HoldsConcat
<1>7. Holds(b, 4, FlattenSeq(texts)) /\ Len(Body(p)) = 2 + Len(u[n])
  <2>1. 2 + Len(ident) = 4
    BY <1>3
  <2>2. Len(ident \o FlattenSeq(texts)) = Len(ident) + Len(FlattenSeq(texts))
    BY <1>4, ConcatLength
  <2> QED BY <1>3, <1>4, <1>5, <1>6, <2>1, <2>2
<1>8. \A i \in 1 .. n : /\ Holds(b, 4, u[i])
                        /\ i > 1 => Holds(b, 4 + Len(u[i - 1]), texts[i])
  BY <1>2, <1>7, HoldsRows
<1>9. \A i \in 1 .. n : /\ u[i] = IF i = 1 THEN texts[i] ELSE u[i - 1] \o texts[i]
                        /\ u[i] \in Seq(Nat)
  BY <1>2, UpToRows
<1>10. ASSUME NEW i \in 1 .. n
       PROVE  /\ FilterFrom(p, i) \in Nat /\ p.filters[i] \in Utf8
              /\ Holds(b, FilterFrom(p, i), Text(p.filters[i]))
              /\ FilterFrom(p, i + 1) = FilterFrom(p, i) + 2 + Len(p.filters[i])
  <2>0. PICK fs \in Seq(Utf8) : fs = p.filters /\ Len(fs) = n
    BY <1>2, UnsubscribeBytes
  <2>1. p.filters[i] \in Utf8 /\ DOMAIN p.filters = 1 .. n
    BY <2>0
  <2>2. PICK x \in Seq(Nat) : x = p.filters[i]
    BY <2>1, Utf8Octets
  <2>3. PICK t \in Seq(Nat) : t = Text(x) /\ Len(t) = 2 + Len(x)
    BY TextBytes
  <2>4. texts[i] = t
    BY <1>1, <2>1, <2>2, <2>3 DEF FilterTexts
  <2>5. FilterFrom(p, i + 1) = 4 + Len(u[i])
    BY <1>1, <1>2 DEF FilterFrom
  <2>6. CASE i = 1
    <3>1. u[i] = t /\ FilterFrom(p, i) = 4
      BY <1>9, <2>4, <2>6 DEF FilterFrom
    <3>2. Holds(b, 4, t)
      BY <1>8, <3>1
    <3>3. 4 \in Nat /\ 4 + Len(t) = 4 + 2 + Len(x)
      BY <2>3
    <3>4. Holds(b, 4, Text(p.filters[i]))
      BY <2>2, <2>3, <3>2
    <3>5. FilterFrom(p, i + 1) = 4 + 2 + Len(p.filters[i])
      BY <2>2, <2>5, <3>1, <3>3
    <3> QED BY <2>1, <3>1, <3>3, <3>4, <3>5
  <2>7. CASE i # 1
    <3>1. i - 1 \in 1 .. n /\ i > 1
      BY <2>7
    <3>2. PICK v \in Seq(Nat) : v = u[i - 1] /\ Len(v) \in Nat
      BY <1>9, <3>1
    <3>3. FilterFrom(p, i) = 4 + Len(v)
      BY <1>1, <1>2, <2>7, <3>2 DEF FilterFrom
    <3>4. u[i] = v \o t
      BY <1>9, <2>4, <2>7, <3>2
    <3>5. Len(u[i]) = Len(v) + Len(t)
      BY <3>4, ConcatLength
    <3>6. Holds(b, 4 + Len(v), t)
      BY <1>8, <2>4, <3>1, <3>2
    <3>7. 4 + Len(v) \in Nat /\ 4 + (Len(v) + Len(t)) = 4 + Len(v) + 2 + Len(x)
      <4>1. Len(v) \in Nat /\ Len(x) \in Nat /\ Len(t) = 2 + Len(x)
        BY <2>3
      <4> QED BY <4>1
    <3> QED BY <2>1, <2>2, <2>3, <2>5, <3>3, <3>5, <3>6, <3>7
  <2> QED BY <2>6, <2>7
<1>11. FilterFrom(p, n + 1) = 4 + Len(u[n]) /\ Len(u[n]) \in Nat
  BY <1>1, <1>2, <1>9 DEF FilterFrom
<1> QED BY <1>2, <1>3, <1>6, <1>7, <1>10, <1>11

LEMMA SubscribeHolds ==
  ASSUME NEW p \in Packets, p.type = SUBSCRIBE, Len(p.filters) = 1,
         NEW T, NEW b \in Seq(T), Holds(b, 2, Body(p))
  PROVE  LET topic == p.filters[1].topic
         IN  /\ p.filters[1] \in Entry
             /\ Holds(b, 2, Uint16(p.id)) /\ Holds(b, 4, Text(topic))
             /\ b[7 + Len(topic)] = p.filters[1].qos
             /\ Len(Body(p)) = 5 + Len(topic) /\ 7 + Len(topic) <= Len(b)
<1>1. p.filters[1] \in Entry /\ DOMAIN p.filters = 1 .. 1
  BY SubscribeBytes
<1>2. PICK t \in Seq(Nat), q \in Nat : t = p.filters[1].topic /\ q = p.filters[1].qos
  <2>1. p.filters[1].topic \in Seq(Nat) /\ p.filters[1].qos \in Nat
    BY <1>1, Utf8Octets DEF Entry
  <2> QED BY <2>1
<1>3. PICK ident \in Seq(Nat) : ident = Uint16(p.id) /\ Len(ident) = 2
  BY SubscribeBytes, Uint16Bytes
<1>4. PICK text \in Seq(Nat) : text = Text(t) /\ Len(text) = 2 + Len(t)
  BY TextBytes
<1>5. PICK l \in Seq(Nat) : l = <<q>> /\ Len(l) = 1 /\ l[1] = q
  <2>1. <<q>> \in Seq(Nat) /\ Len(<<q>>) = 1 /\ <<q>>[1] = q
    OBVIOUS
  <2> QED BY <2>1
<1>6. FilterEntries(p)[1] = text \o l
  BY <1>1, <1>2, <1>4, <1>5 DEF FilterEntries
<1>7. FlattenSeq(FilterEntries(p)) = text \o l
  BY <1>6, SubscribeBytes, FlattenBytes
<1>8. Body(p) = ident \o (text \o l)
  BY <1>3, <1>7, SubscribeBytes
<1>9. PICK e \in Seq(Nat) : e = text \o l /\ Len(e) = Len(text) + Len(l)
  BY ConcatLength
<1>10. Holds(b, 2, ident) /\ Holds(b, 2 + Len(ident), e) /\ Len(Body(p)) = Len(ident) + Len(e)
  BY <1>8, <1>9, HoldsConcat, ConcatLength
<1>11. Holds(b, 4, e)
  BY <1>3, <1>10
<1>12. Holds(b, 4, text) /\ Holds(b, 4 + Len(text), l)
  BY <1>9, <1>11, HoldsConcat
<1>13. b[4 + Len(text) + 1] = q /\ 4 + Len(text) + 1 <= Len(b)
  BY <1>5, <1>12 DEF Holds
<1>14. 4 + Len(text) + 1 = 7 + Len(t) /\ Len(Body(p)) = 5 + Len(t)
  BY <1>3, <1>4, <1>5, <1>9, <1>10
<1> QED BY <1>1, <1>2, <1>3, <1>4, <1>10, <1>12, <1>13, <1>14

LEMMA SubackHolds ==
  ASSUME NEW p \in Packets, p.type = SUBACK, Len(p.codes) = 1,
         NEW T, NEW b \in Seq(T), Holds(b, 2, Body(p))
  PROVE  /\ p.codes[1] \in Octet /\ b[5] = p.codes[1]
         /\ Len(Body(p)) = 3 /\ 5 <= Len(b)
<1>1. p.codes \in Seq(Octet) /\ p.id \in Nat
  BY SubackParts DEF Some, Word
<1>2. PICK codes \in Seq(Nat) : codes = p.codes
  BY <1>1, Octets
<1>3. PICK ident \in Seq(Nat) : ident = Uint16(p.id) /\ Len(ident) = 2
  BY <1>1, Uint16Bytes
<1>4. Body(p) = ident \o codes
  BY <1>2, <1>3, SubackParts DEF SubackBody
<1>5. Holds(b, 2, ident) /\ Holds(b, 2 + Len(ident), codes) /\ Len(Body(p)) = Len(ident) + Len(codes)
  BY <1>4, HoldsConcat, ConcatLength
<1>6. Holds(b, 4, codes)
  BY <1>3, <1>5
<1>7. b[4 + 1] = codes[1] /\ 4 + 1 <= Len(b)
  <2>1. Len(codes) = 1 /\ 1 \in 1 .. 1
    BY <1>2
  <2> QED BY <1>6, <2>1 DEF Holds
<1> QED BY <1>1, <1>2, <1>3, <1>5, <1>7

-----------------------------------------------------------------------------
(***************************************************************************)
(* The inductive invariants.  The first is about any chunk.                *)
(***************************************************************************)
Keys == {CF_CLIENT_ID, CF_WILL_TOP, CF_WILL_MSG, CF_PASSWORD, CF_USERNAME}

TypeInv ==
  /\ TypeOK
  /\ fields \in Seq(Keys \cup {UserXorPass})
  /\ pc = "thrown" => type = PUBLISH

(***************************************************************************)
(* The rest is about a packet p at the head of the chunk: what has been    *)
(* read and printed of it where the handler is.                            *)
(***************************************************************************)
Parsed == {p \in Packet : IsParsed(p)}

AtHead(p) == IsPrefix(Encode(p), pktbuf)

TypeRead(p) ==
  pc \notin {"callback", "type"} => /\ type = p.type
                                    /\ p.type = PUBLISH => qos = p.qos

(* The packets that the parsers take apart in this chunk. *)
Covered(p) == p.type \in {SUBSCRIBE, UNSUBSCRIBE} => pktbuf = Encode(p)

NoInfo == info = [k \in {} |-> <<>>]

Start ==
  pos = 0 /\ rlen = 0 /\ mult = 1 /\ behind = 0 /\ printed = <<>> /\ NoInfo

AtLength(p) ==
  /\ pos = 1 /\ rlen = 0 /\ mult = 1 /\ behind = 0 /\ NoInfo
  /\ printed = FlagsReport(p)

AtBody(p) ==
  /\ pos = 2 /\ rlen = Len(Body(p)) /\ behind = 0 /\ NoInfo
  /\ printed = FlagsReport(p) \o Item(p.type = PUBLISH, <<"length", Len(Body(p))>>)

(* The fields of a CONNECT that are still to come, from each of them on. *)
PassFields(p) == Item(p.pass # <<>>, CF_PASSWORD)
UserFields(p) == Item(p.user # <<>>, CF_USERNAME) \o PassFields(p)
XorFields(p)  == Item((p.user # <<>>) # (p.pass # <<>>), UserXorPass) \o UserFields(p)
MsgFields(p)  == <<CF_WILL_MSG>> \o XorFields(p)
WillFields(p) == IF p.will = <<>> THEN XorFields(p) ELSE <<CF_WILL_TOP>> \o MsgFields(p)
IdFields(p)   == <<CF_CLIENT_ID>> \o WillFields(p)

WillKeys(p) == IF p.will = <<>> THEN {} ELSE {CF_WILL_TOP, CF_WILL_MSG}
UserKeys(p) == IF p.user = <<>> THEN {} ELSE {CF_USERNAME}
PassKeys(p) == IF p.pass = <<>> THEN {} ELSE {CF_PASSWORD}

TextOf(p, k) ==
  CASE k = CF_CLIENT_ID -> p.id
    [] k = CF_WILL_TOP  -> p.will[1].topic
    [] k = CF_WILL_MSG  -> p.will[1].message
    [] k = CF_USERNAME  -> p.user[1]
    [] k = CF_PASSWORD  -> p.pass[1]

Extracted(p, keys) == info = [k \in keys |-> AsText(TextOf(p, k))]

FlagsPrinted(p) == FlagsReport(p) \o <<<<"flags", ConnectFlags(p)>>>>
XorPrinted(p) ==
  FlagsPrinted(p) \o Item((p.user # <<>>) # (p.pass # <<>>), <<"username xor password">>)

AtIdField(p) ==
  /\ fields = IdFields(p) /\ pos = 12
  /\ Extracted(p, {}) /\ printed = FlagsPrinted(p)

AtWillField(p) ==
  /\ fields = WillFields(p) /\ pos = AfterId(p)
  /\ Extracted(p, {CF_CLIENT_ID}) /\ printed = FlagsPrinted(p)

AtMsgField(p) ==
  /\ fields = MsgFields(p) /\ pos = AfterId(p) + 2 + Len(p.will[1].topic)
  /\ p.will # <<>>
  /\ Extracted(p, {CF_CLIENT_ID, CF_WILL_TOP}) /\ printed = FlagsPrinted(p)

AtXor(p) ==
  /\ fields = XorFields(p) /\ pos = AfterWill(p)
  /\ Extracted(p, {CF_CLIENT_ID} \cup WillKeys(p)) /\ printed = FlagsPrinted(p)

AtUserField(p) ==
  /\ fields = UserFields(p) /\ pos = AfterWill(p)
  /\ Extracted(p, {CF_CLIENT_ID} \cup WillKeys(p)) /\ printed = XorPrinted(p)

AtPassField(p) ==
  /\ fields = PassFields(p) /\ pos = AfterUser(p)
  /\ Extracted(p, {CF_CLIENT_ID} \cup WillKeys(p) \cup UserKeys(p))
  /\ printed = XorPrinted(p)

AtLastField(p) ==
  /\ fields = <<>> /\ pos = AfterPass(p)
  /\ Extracted(p, {CF_CLIENT_ID} \cup WillKeys(p) \cup UserKeys(p) \cup PassKeys(p))
  /\ printed = XorPrinted(p)

AtFields(p) ==
  /\ p.type = CONNECT /\ behind = 0
  /\ \/ AtIdField(p) \/ AtWillField(p) \/ AtMsgField(p) \/ AtXor(p)
     \/ AtUserField(p) \/ AtPassField(p) \/ AtLastField(p)

(* The loop over the filters: those before the next one are printed. *)
AtFilters(p) ==
  /\ behind = 0
  /\ \/ p.type = SUBSCRIBE /\ pos = 4 /\ printed = FlagsReport(p)
     \/ /\ p.type = UNSUBSCRIBE
        /\ \E i \in DOMAIN p.filters :
             /\ pos = FilterFrom(p, i)
             /\ printed = FlagsReport(p) \o [j \in 1 .. i - 1 |-> <<"-", p.filters[j]>>]

(* The payload of a PUBLISH is printed to the end of the chunk. *)
PayloadFrom(p) == 4 + Len(p.topic) + (IF p.qos > 0 THEN 2 ELSE 0)

PublishPrinted(p) ==
  FlagsReport(p)
  \o <<<<"length", Len(Body(p))>>, <<"qos", p.qos>>>>
  \o Item(p.qos > 0, <<"id", p.id>>)
  \o <<<<"topic", p.topic>>>>
  \o Item(dump_payloads, <<"payload", AsText(SubSeq(pktbuf, PayloadFrom(p) + 1, pktlen))>>)

(* Of a CONNECT with a user name alone an error is printed too. *)
FieldsPrintedOf(p) ==
  <<<<"field", CF_CLIENT_ID, p.id>>>>
  \o FlattenSeq([i \in DOMAIN p.will |->
                   <<<<"field", CF_WILL_TOP, p.will[i].topic>>,
                     <<"field", CF_WILL_MSG, AsText(p.will[i].message)>>>>])
  \o [i \in DOMAIN p.pass |-> <<"field", CF_PASSWORD, AsText(p.pass[i])>>]
  \o [i \in DOMAIN p.user |-> <<"field", CF_USERNAME, p.user[i]>>]

ConnectPrinted(p) == XorPrinted(p) \o FieldsPrintedOf(p)

Printed(p) ==
  CASE p.type = PUBLISH -> PublishPrinted(p)
    [] p.type = CONNECT -> ConnectPrinted(p)
    [] OTHER -> ReportOf(p)

(* Where the identifier is read, of those packets that are taken to have one. *)
IdFrom(p) ==
  CASE p.type = SUBSCRIBE   -> 1 + Len(Body(p))
    [] p.type \in {UNSUBSCRIBE, SUBACK} -> 2 + Len(Body(p))
    [] OTHER -> 2

AtId(p) ==
  /\ behind = 0
  /\ p.type \in MQTT_CTRL_EXPECTS_ID => pos = IdFrom(p)
  /\ printed = IF p.type = PUBACK THEN FlagsReport(p) ELSE Printed(p)

AtEnd(p) ==
  /\ printed = Printed(p)
  /\ pktbuf = Encode(p) => behind = IF p.type \in {UNSUBSCRIBE, SUBACK} THEN 1 ELSE 0

HeadInv(p) ==
  /\ pc \notin {"malformed", "thrown", "killed"}
  /\ pc \in {"callback", "type"} => Start
  /\ pc = "length"   => AtLength(p)
  /\ pc = "body"     => AtBody(p)
  /\ pc = "fields"   => AtFields(p)
  /\ pc = "filters"  => AtFilters(p)
  /\ pc = "id"       => AtId(p)
  /\ pc = "returned" => AtEnd(p)

IInv ==
  /\ TypeInv
  /\ pc \in {"callback", "type"} => Start
  /\ \A p \in Parsed : AtHead(p) => /\ TypeRead(p)
                                    /\ Covered(p) => HeadInv(p)

-----------------------------------------------------------------------------
(* What is read is a byte, a number of two bytes or a string. *)

LEMMA ReadByte ==
  ASSUME pktbuf \in Seq(Byte), NEW i \in Nat
  PROVE  At(i) \subseteq Byte /\ At(i) \subseteq Octet
<1>1. PICK n : n = Len(pktbuf)
  OBVIOUS
<1>2. n \in Nat /\ \A k \in 1 .. n : pktbuf[k] \in Byte
  BY <1>1
<1>3. At(i) = IF i < n THEN {pktbuf[i + 1]} ELSE IF i = n THEN {0} ELSE Garbage
  BY <1>1 DEF At, Header!At, Header!pktlen
<1> QED BY <1>2, <1>3, ByteAssumption, GarbageAssumption

LEMMA ReadUint16 ==
  ASSUME pktbuf \in Seq(Byte), NEW i \in Nat
  PROVE  Uint16At(i) \subseteq Word
<1>1. At(i) \subseteq Octet /\ At(i + 1) \subseteq Octet
  BY ReadByte
<1> QED BY <1>1 DEF Uint16At, Octet, Word

LEMMA ReadString ==
  ASSUME pktbuf \in Seq(Byte), NEW i \in Nat, NEW s \in StringsAt(i)
  PROVE  s.end \in Nat /\ s.from \in Nat /\ s.end >= i + 2
BY ReadUint16 DEF StringsAt, Word

LEMMA Reading ==
  ASSUME pktbuf \in Seq(Byte), behind \in Nat, NEW end \in Nat, Touch(end)
  PROVE  behind' \in Nat
<1>1. pktlen \in Nat
  BY DEF pktlen, Header!pktlen
<1> QED BY <1>1 DEF Touch

LEMMA TypeParts ==
  ASSUME NEW b \in Octet
  PROVE  b \div 16 \in 0 .. 15 /\ QosBits(b) \in 0 .. 3 /\ b % 128 \in Nat
<1>1. b \in Nat /\ b < 256
  BY DEF Octet
<1> QED BY <1>1 DEF QosBits

-----------------------------------------------------------------------------
(* Types. *)
LEMMA InitType == Init => TypeInv
BY ByteAssumption, ChunkAssumption
DEF Init, TypeInv, TypeOK, PUBLISH, Word

LEMMA CallbackType == ASSUME TypeInv, on_client_data \/ on_server_data PROVE TypeInv'
BY DEF TypeInv, TypeOK, on_client_data, on_server_data, Final

LEMMA ReadTypeType == ASSUME TypeInv, ReadType PROVE TypeInv'
<1>1. pktbuf \in Seq(Byte) /\ pos \in Nat
  BY DEF TypeInv, TypeOK
<1>2. tmp' \in Byte /\ tmp' \in Octet
  BY <1>1, ReadByte DEF ReadType, Header!ReadType, At
<1>3. type' \in 0 .. 15 /\ qos' \in 0 .. 3
  BY <1>2, TypeParts DEF ReadType, TypeInv, TypeOK
<1>4. pos' \in Nat /\ pc' = "length" /\ UNCHANGED <<pktbuf, rlen, mult>>
  <2>1. Header!ReadType
    BY DEF ReadType
  <2> QED BY <1>1, <2>1 DEF Header!ReadType
<1>5. UNCHANGED <<isClient, id, fields, info, behind>>
  BY DEF ReadType
<1> QED BY <1>1, <1>2, <1>3, <1>4, <1>5 DEF TypeInv, TypeOK, Final

LEMMA ReadLengthType == ASSUME TypeInv, ReadLength PROVE TypeInv'
<1>1. pktbuf \in Seq(Byte) /\ pos \in Nat /\ rlen \in Nat /\ mult \in Nat /\ behind \in Nat
  BY DEF TypeInv, TypeOK
<1>2. tmp' \in Byte /\ tmp' \in Octet /\ pos' \in Nat
  BY <1>1, ReadByte DEF ReadLength, Header!ReadLength, At
<1>3. behind' \in Nat
  BY <1>1, <1>2, Reading DEF ReadLength
<1>4. rlen' \in Nat /\ mult' \in Nat
  <2>0. PICK b \in Octet : b = tmp'
    BY <1>2
  <2>1. b % 128 \in Nat
    BY TypeParts
  <2>2. (b % 128) * mult \in Nat
    BY <1>1, <2>1
  <2>3. rlen' = rlen + (b % 128) * mult /\ mult' = mult * 128
    BY <2>0 DEF ReadLength, Header!ReadLength, Header!Add, Header!LengthBits, Header!Base
  <2> QED BY <1>1, <2>2, <2>3
<1>5. pc' \in {"malformed", "length", "body"}
  BY DEF ReadLength, Header!ReadLength
<1> QED BY <1>1, <1>2, <1>3, <1>4, <1>5
        DEF TypeInv, TypeOK, ReadLength, Header!ReadLength, Final

LEMMA ConnectType == ASSUME TypeInv, ParseConnect PROVE TypeInv'
<1>1. pktbuf \in Seq(Byte) /\ pos \in Nat /\ behind \in Nat
  BY DEF TypeInv, TypeOK
<1>2. pos' \in Nat /\ behind' \in Nat
  BY <1>1, Reading DEF ParseConnect
<1>3. fields' \in Seq(Keys \cup {UserXorPass})
  <2>1. PICK flags : fields' = Announced(flags)
    BY DEF ParseConnect
  <2>2. Announced(flags) \in Seq(Keys \cup {UserXorPass})
    <3> DEFINE S == Seq(Keys \cup {UserXorPass})
    <3>1. /\ <<CF_CLIENT_ID>> \in S /\ <<CF_WILL_TOP, CF_WILL_MSG>> \in S /\ <<>> \in S
          /\ <<UserXorPass>> \in S /\ <<CF_USERNAME>> \in S /\ <<CF_PASSWORD>> \in S
      BY DEF Keys
    <3>2. \A s, t \in S : s \o t \in S
      OBVIOUS
    <3>3. \A c, k : <<k>> \in S => Item(c, k) \in S
      BY <3>1 DEF Item
    <3> HIDE DEF S
    <3>4. Announced(flags) \in S
      BY <3>1, <3>2, <3>3 DEF Announced
    <3> QED BY <3>4 DEF S
  <2> QED BY <2>1, <2>2
<1> QED BY <1>1, <1>2, <1>3 DEF TypeInv, TypeOK, ParseConnect, Final

LEMMA XorType == ASSUME TypeInv, ReportUserXorPass PROVE TypeInv'
<1>1. fields' \in Seq(Keys \cup {UserXorPass})
  <2>1. PICK fs \in Seq(Keys \cup {UserXorPass}) : fs = fields
    BY DEF TypeInv
  <2> QED BY <2>1, HeadTailProperties DEF ReportUserXorPass
<1> QED BY <1>1 DEF TypeInv, TypeOK, ReportUserXorPass

LEMMA ExtractType == ASSUME TypeInv, ExtractField PROVE TypeInv'
<1>1. pktbuf \in Seq(Byte) /\ pos \in Nat /\ behind \in Nat
  BY DEF TypeInv, TypeOK
<1>2. PICK s \in StringsAt(pos) :
        /\ info' = [k \in DOMAIN info \cup {Head(fields)} |->
                      IF k = Head(fields) THEN Contents(s) ELSE info[k]]
        /\ pos' = s.end
  BY DEF ExtractField
<1>3. pos' \in Nat /\ behind' \in Nat
  BY <1>1, <1>2, ReadString, Reading DEF ExtractField
<1>4. Head(fields) \in Keys /\ fields' \in Seq(Keys \cup {UserXorPass})
  BY DEF TypeInv, ExtractField
<1>5. DOMAIN info' = DOMAIN info \cup {Head(fields)}
  BY <1>2
<1> QED BY <1>1, <1>3, <1>4, <1>5 DEF TypeInv, TypeOK, ExtractField, Keys

LEMMA FieldsType == ASSUME TypeInv, PrintFields PROVE TypeInv'
BY DEF TypeInv, TypeOK, PrintFields, Final

LEMMA PublishType == ASSUME TypeInv, ParsePublish PROVE TypeInv'
<1>1. pktbuf \in Seq(Byte) /\ pos \in Nat /\ behind \in Nat
  BY DEF TypeInv, TypeOK
<1>0. PICK s \in StringsAt(pos) :
        \E start \in {s.end, s.end + 2} :
          /\ Touch(start)
          /\ pos' = IF pktlen - start >= 0 THEN start ELSE pos
          /\ pc' = CASE pktlen - start >= 0 -> "id" [] pktlen - start = -1 -> "killed"
                     [] OTHER -> "thrown"
  BY DEF ParsePublish
<1>2. PICK start \in {s.end, s.end + 2} :
        /\ Touch(start)
        /\ pos' = IF pktlen - start >= 0 THEN start ELSE pos
        /\ pc' = CASE pktlen - start >= 0 -> "id" [] pktlen - start = -1 -> "killed"
                   [] OTHER -> "thrown"
  BY <1>0
<1>3. start \in Nat
  BY <1>1, <1>2, ReadString
<1>4. pos' \in Nat /\ behind' \in Nat
  BY <1>1, <1>2, <1>3, Reading
<1>5. pc' \in {"id", "killed", "thrown"}
  BY <1>2
<1> QED BY <1>1, <1>4, <1>5 DEF TypeInv, TypeOK, ParsePublish, Final

LEMMA SkipIdType == ASSUME TypeInv, SkipId PROVE TypeInv'
<1>1. pos' \in Nat /\ behind' \in Nat
  BY Reading DEF TypeInv, TypeOK, SkipId
<1> QED BY <1>1 DEF TypeInv, TypeOK, SkipId, Final

LEMMA FilterType == ASSUME TypeInv, ParseFilter PROVE TypeInv'
<1>1. pktbuf \in Seq(Byte) /\ pos \in Nat /\ behind \in Nat
  BY DEF TypeInv, TypeOK
<1>2. PICK s \in StringsAt(pos) :
        /\ Touch(s.end + 1) /\ pos' = s.end
        /\ pc' = IF MoreFilters(s.end) THEN "filters" ELSE "id"
  BY DEF ParseFilter
<1>3. pos' \in Nat /\ behind' \in Nat
  BY <1>1, <1>2, ReadString, Reading
<1>4. pc' \in {"filters", "id"}
  BY <1>2
<1> QED BY <1>1, <1>3, <1>4 DEF TypeInv, TypeOK, ParseFilter, Final

LEMMA SubackType == ASSUME TypeInv, ParseSuback PROVE TypeInv'
<1>0. pktbuf \in Seq(Byte) /\ behind \in Nat /\ pos + 3 \in Nat
  BY DEF TypeInv, TypeOK
<1>1. pos' \in Nat /\ behind' \in Nat
  BY <1>0, Reading DEF ParseSuback
<1> QED BY <1>1 DEF TypeInv, TypeOK, ParseSuback, Final

LEMMA PacketIdType == ASSUME TypeInv, ParsePacketId PROVE TypeInv'
<1>1. pktbuf \in Seq(Byte) /\ pos \in Nat /\ behind \in Nat /\ id \in Word
  BY DEF TypeInv, TypeOK
<1>2. id' \in Word /\ behind' \in Nat
  BY <1>1, ReadUint16, Reading DEF ParsePacketId, IdPosition
<1> QED BY <1>1, <1>2 DEF TypeInv, TypeOK, ParsePacketId, Final

LEMMA OtherType == ASSUME TypeInv, SkipBody \/ Segfault \/ UNCHANGED vars PROVE TypeInv'
<1>1. CASE SkipBody
  BY <1>1 DEF TypeInv, TypeOK, SkipBody, Final
<1>2. CASE Segfault
  BY <1>2 DEF TypeInv, TypeOK, Segfault, Final
<1>3. CASE UNCHANGED vars
  BY <1>3 DEF TypeInv, TypeOK, vars, header
<1> QED BY <1>1, <1>2, <1>3

LEMMA NextType == ASSUME TypeInv, [Next \/ Done]_vars PROVE TypeInv'
BY CallbackType, ReadTypeType, ReadLengthType, ConnectType, XorType, ExtractType,
   FieldsType, PublishType, SkipIdType, FilterType, SubackType, PacketIdType, OtherType
DEF Next, Step, Done

-----------------------------------------------------------------------------
(* What is read where the bytes of a packet lie. *)

LEMMA ReadHere ==
  ASSUME pktbuf \in Seq(Byte), NEW i \in Nat, i < Len(pktbuf)
  PROVE  At(i) = {pktbuf[i + 1]}
BY DEF At, Header!At, Header!pktlen

LEMMA ReadNumber ==
  ASSUME pktbuf \in Seq(Byte), NEW k \in Nat, NEW n \in Nat, Holds(pktbuf, k, Uint16(n))
  PROVE  Uint16At(k) = {n}
<1>1. k + 2 <= Len(pktbuf) /\ pktbuf[k + 1] = n \div 256 /\ pktbuf[k + 2] = n % 256
  BY HoldsUint16
<1>2. At(k) = {n \div 256}
  BY <1>1, ReadHere
<1>3. At(k + 1) = {n % 256}
  <2>1. k + 1 \in Nat /\ k + 1 < Len(pktbuf) /\ (k + 1) + 1 = k + 2
    BY <1>1
  <2> QED BY <1>1, <2>1, ReadHere
<1>4. PICK h \in Nat, l \in Nat : h = n \div 256 /\ l = n % 256 /\ 256 * h + l = n
  OBVIOUS
<1>5. PICK A, B : A = At(k) /\ B = At(k + 1)
  OBVIOUS
<1>6. A = {h} /\ B = {l}
  BY <1>2, <1>3, <1>4, <1>5
<1>7. Uint16At(k) = {256 * hi + lo : hi \in A, lo \in B}
  BY <1>5 DEF Uint16At
<1>8. {256 * hi + lo : hi \in A, lo \in B} = {256 * h + l}
  BY <1>6
<1> QED BY <1>4, <1>7, <1>8

LEMMA ReadText ==
  ASSUME pktbuf \in Seq(Byte), NEW k \in Nat, NEW s \in Seq(Nat), Holds(pktbuf, k, Text(s)),
         NEW x \in StringsAt(k)
  PROVE  /\ x.from = k + 2 /\ x.end = k + 2 + Len(s) /\ x.end <= pktlen
         /\ Contents(x) = AsText(s)
<1>1. Holds(pktbuf, k, Uint16(Len(s))) /\ Holds(pktbuf, k + 2, s)
  BY HoldsText
<1>2. Uint16At(k) = {Len(s)}
  BY <1>1, ReadNumber
<1>3. x.from = k + 2 /\ x.end = k + 2 + Len(s)
  BY <1>2 DEF StringsAt
<1>4. PICK l \in Nat, n \in Nat : l = Len(s) /\ n = Len(pktbuf)
  OBVIOUS
<1>5. k + 2 + l <= n /\ \A i \in 1 .. l : pktbuf[k + 2 + i] = s[i]
  BY <1>1, <1>4 DEF Holds
<1>6. x.end <= pktlen
  BY <1>3, <1>4, <1>5 DEF pktlen, Header!pktlen
<1>7. SubSeq(pktbuf, k + 2 + 1, k + 2 + l) = s
  <2>1. PICK t : t = SubSeq(pktbuf, k + 2 + 1, k + 2 + l)
    OBVIOUS
  <2>2. t \in Seq(Byte) /\ Len(t) = l /\ \A i \in 1 .. l : t[i] = pktbuf[k + 2 + i]
    BY <1>4, <1>5, <2>1
  <2>3. t \in Seq(Nat)
    BY <2>2, SeqMonotonic, ByteAssumption DEF Octet
  <2> QED BY <1>4, <1>5, <2>1, <2>2, <2>3, SeqEqual
<1>8. Contents(x) = AsText(SubSeq(pktbuf, k + 2 + 1, k + 2 + l))
  BY <1>3, <1>4, <1>5, <1>6 DEF Contents, pktlen, Header!pktlen
<1> QED BY <1>3, <1>6, <1>7, <1>8

LEMMA NoNul ==
  ASSUME NEW s \in Utf8
  PROVE  AsText(s) = s
<1>1. \A i \in 1 .. Len(s) : s[i] # 0
  BY DEF Utf8
<1>2. {i \in 1 .. Len(s) : s[i] = 0} = {}
  BY <1>1
<1>3. SelectInSeq(s, LAMBDA b : b = 0) = 0
  BY <1>2 DEF SelectInSeq
<1> QED BY <1>3 DEF AsText

(* Of a text that is not printed to its end the rest does not matter. *)
LEMMA ReadInside ==
  ASSUME behind = 0, NEW end \in Nat, end <= pktlen + 1, Touch(end), pktlen \in Nat
  PROVE  behind' = 0
BY DEF Touch

LEMMA HeadHolds ==
  ASSUME TypeInv, NEW p \in Packet, AtHead(p)
  PROVE  /\ p \in Packets /\ pktbuf \in Seq(Byte) /\ pktlen = Len(pktbuf) /\ pktlen \in Nat
         /\ Len(Body(p)) \in Nat /\ Len(Body(p)) < 128 /\ 2 + Len(Body(p)) <= pktlen
         /\ At(0) = {16 * p.type + Flags(p)} /\ At(1) = {Len(Body(p))}
         /\ Holds(pktbuf, 2, Body(p))
<1>1. p \in Packets /\ Len(Body(p)) < 128 /\ pktbuf \in Seq(Byte)
  BY PacketAssumption DEF TypeInv, TypeOK
<1>2. pktlen = Len(pktbuf) /\ pktlen \in Nat
  BY <1>1 DEF pktlen, Header!pktlen
<1>3. /\ Len(Body(p)) \in Nat /\ 2 + Len(Body(p)) <= Len(pktbuf)
      /\ pktbuf[1] = 16 * p.type + Flags(p) /\ pktbuf[2] = Len(Body(p))
      /\ Holds(pktbuf, 2, Body(p))
  BY <1>1, BodyBytes, PacketHolds DEF AtHead
<1>4. At(0) = {pktbuf[1]} /\ At(1) = {pktbuf[2]}
  <2>1. 0 < Len(pktbuf) /\ 1 < Len(pktbuf) /\ 0 + 1 = 1 /\ 1 + 1 = 2
    BY <1>2, <1>3
  <2> QED BY <1>1, <2>1, ReadHere
<1> QED BY <1>1, <1>2, <1>3, <1>4

-----------------------------------------------------------------------------
(* Sequences of items of any kind. *)

Row(s) == \E S : s \in Seq(S)

LEMMA RowConcat ==
  ASSUME NEW s, NEW t, Row(s), Row(t)
  PROVE  Row(s \o t)
<1>1. PICK S : s \in Seq(S)
  BY DEF Row
<1>2. PICK T : t \in Seq(T)
  BY DEF Row
<1>3. s \in Seq(S \cup T) /\ t \in Seq(S \cup T)
  BY <1>1, <1>2, SeqMonotonic
<1>4. s \o t \in Seq(S \cup T)
  BY <1>3
<1> QED BY <1>4 DEF Row

LEMMA RowItem ==
  ASSUME NEW x
  PROVE  /\ Row(<<>>) /\ Row(<<x>>)
         /\ Item(TRUE, x) = <<x>> /\ Item(FALSE, x) = <<>>
         /\ \A c : Row(Item(c, x))
<1>1. <<>> \in Seq({x}) /\ <<x>> \in Seq({x})
  OBVIOUS
<1>2. Row(<<>>) /\ Row(<<x>>)
  BY <1>1 DEF Row
<1>3. Item(TRUE, x) = <<x>> /\ Item(FALSE, x) = <<>>
  BY DEF Item
<1>4. \A c : Row(Item(c, x))
  BY <1>2 DEF Item
<1> QED BY <1>2, <1>3, <1>4

LEMMA RowEmpty ==
  ASSUME NEW s, Row(s)
  PROVE  <<>> \o s = s /\ s \o <<>> = s
BY ConcatEmptySeq DEF Row

LEMMA FlagsRow == ASSUME NEW p PROVE Row(FlagsReport(p))
<1>1. /\ Row(<<<<"type", p.type>>>>)
      /\ Row(Item(p.type = PUBLISH /\ p.dup, <<"dup">>))
      /\ Row(Item(p.type = PUBLISH /\ p.retain, <<"retain">>))
  BY RowItem
<1> QED BY <1>1, RowConcat DEF FlagsReport

-----------------------------------------------------------------------------
(* The fixed header of a packet at the head of the chunk. *)

LEMMA CallbackHead ==
  ASSUME TypeInv, pc \in {"callback", "type"} => Start,
         NEW p \in Packet, AtHead(p), on_client_data \/ on_server_data
  PROVE  HeadInv(p)' /\ Start' /\ pc' = "type"
<1>1. pktlen # 0
  BY HeadHolds
<1>2. pc' = "type" /\ pc = "callback" /\ Start
  <2>1. CASE on_client_data
    BY <2>1 DEF on_client_data
  <2>2. CASE on_server_data
    BY <1>1, <2>2 DEF on_server_data
  <2> QED BY <2>1, <2>2
<1>3. printed' = printed
  <2>1. CASE on_client_data
    BY <2>1 DEF on_client_data
  <2>2. CASE on_server_data
    <3>1. Item(pktlen = 0, <<"0 len packet?">>) = <<>>
      BY <1>1 DEF Item
    <3>2. printed = <<>> /\ printed' = printed \o <<>>
      BY <1>2, <2>2, <3>1 DEF on_server_data, Report, Start
    <3> QED BY <3>2
  <2> QED BY <2>1, <2>2
<1>4. UNCHANGED <<pos, rlen, mult, behind, info>>
  BY DEF on_client_data, on_server_data
<1>5. Start'
  BY <1>2, <1>3, <1>4 DEF Start, NoInfo
<1> QED BY <1>2, <1>5 DEF HeadInv

LEMMA ReadTypeHead ==
  ASSUME TypeInv, pc \in {"callback", "type"} => Start,
         NEW p \in Packet, AtHead(p), ReadType
  PROVE  HeadInv(p)' /\ TypeRead(p)'
<1>1. p \in Packets /\ At(0) = {16 * p.type + Flags(p)}
  BY HeadHolds
<1>2. PICK t \in 1 .. 14, f \in 0 .. 15 : t = p.type /\ f = Flags(p)
  BY <1>1, FirstByte
<1>3. Start /\ Header!ReadType
  BY DEF ReadType, Header!ReadType
<1>4. tmp' = 16 * t + f
  BY <1>1, <1>2, <1>3 DEF Header!ReadType, Start, At
<1>5. (16 * t + f) \div 16 = t /\ (16 * t + f) % 16 = f /\ (16 * t + f) % 2 = f % 2
      /\ ((16 * t + f) \div 2) % 4 = (f \div 2) % 4
  OBVIOUS
<1>6. type' = t
  BY <1>4, <1>5 DEF ReadType
<1>7. p.type = PUBLISH =>
        /\ p.dup \in BOOLEAN /\ p.retain \in BOOLEAN
        /\ qos' = p.qos /\ (tmp' % 16 >= 8) = p.dup /\ (tmp' % 2 = 1) = p.retain
  BY <1>1, <1>2, <1>4, <1>5, <1>6, FirstByte, PublishParts DEF ReadType, QosBits
<1>8. printed' = FlagsReport(p)
  <2> DEFINE D == Item(p.type = PUBLISH /\ p.dup, <<"dup">>)
             R == Item(p.type = PUBLISH /\ p.retain, <<"retain">>)
             T == <<<<"type", p.type>>>>
             F == IF p.type = PUBLISH THEN dumpFlags(tmp') ELSE <<>>
  <2>1. printed' = <<>> \o (dumpMQTTType(p.type) \o F)
    BY <1>2, <1>3, <1>6 DEF ReadType, Report, Start
  <2>2. dumpMQTTType(p.type) = T \o <<>>
    <3>1. p.type \notin {0, MQTT_CTRL_TYPES_MAX}
      BY <1>2 DEF MQTT_CTRL_TYPES_MAX
    <3>2. Item(p.type \in {0, MQTT_CTRL_TYPES_MAX}, <<"invalid type">>) = <<>>
      BY <3>1 DEF Item
    <3> QED BY <3>2 DEF dumpMQTTType
  <2>3. Row(T) /\ Row(D) /\ Row(R)
    BY RowItem
  <2>4. F = D \o R
    <3>1. CASE p.type = PUBLISH
      BY <1>7, <3>1 DEF dumpFlags
    <3>2. CASE p.type # PUBLISH
      <4>1. D = <<>> /\ R = <<>> /\ F = <<>>
        BY <3>2 DEF Item
      <4> HIDE DEF D, R, F
      <4> QED BY <4>1
    <3> QED BY <3>1, <3>2
  <2>5. T \o <<>> = T /\ T \o (D \o R) = T \o D \o R /\ Row(T \o D \o R)
    BY <2>3, RowEmpty, RowConcat
  <2>6. FlagsReport(p) = T \o D \o R
    BY DEF FlagsReport
  <2> HIDE DEF D, R, T, F
  <2> QED BY <2>1, <2>2, <2>4, <2>5, <2>6, RowEmpty
<1>9. pc' = "length" /\ AtLength(p)'
  <2>1. pc' = "length" /\ pos' = 1 /\ rlen' = 0 /\ mult' = 1
    BY <1>3 DEF Header!ReadType, Start
  <2>2. behind' = 0 /\ NoInfo'
    BY <1>3 DEF ReadType, Start, NoInfo
  <2> QED BY <1>8, <2>1, <2>2 DEF AtLength
<1> QED BY <1>2, <1>6, <1>7, <1>9 DEF HeadInv, TypeRead

LEMMA ReadLengthHead ==
  ASSUME TypeInv, NEW p \in Packet, AtHead(p), TypeRead(p), HeadInv(p), ReadLength
  PROVE  HeadInv(p)'
<1>1. PICK d \in Nat, n \in Nat : d = Len(Body(p)) /\ n = pktlen /\ d < 128 /\ 2 + d <= n
                              /\ At(1) = {d}
  BY HeadHolds
<1>2. pc = "length" /\ AtLength(p)
  BY DEF ReadLength, Header!ReadLength, HeadInv
<1>3. pos = 1 /\ rlen = 0 /\ mult = 1 /\ behind = 0
  BY <1>2 DEF AtLength
<1>4. tmp' = d /\ pos' = 2 /\ mult' = 128
  BY <1>1, <1>3 DEF ReadLength, Header!ReadLength, At, Header!Base
<1>5. rlen' = d
  <2>1. d % 128 = d
    BY <1>1
  <2>2. rlen' = 0 + (d % 128) * 1
    BY <1>3, <1>4 DEF ReadLength, Header!ReadLength, Header!Add, Header!LengthBits, Header!Base
  <2> QED BY <2>1, <2>2
<1>6. pc' = "body"
  <2>1. ~ Header!TooLong(128) /\ ~ Header!GoesOn(d, 2)
    BY <1>1 DEF Header!TooLong, Header!GoesOn, Header!Continues, Header!Base
  <2> QED BY <1>4, <2>1 DEF ReadLength, Header!ReadLength
<1>7. behind' = 0
  <2>1. Touch(2)
    BY <1>4 DEF ReadLength
  <2>2. 2 <= pktlen + 1 /\ pktlen \in Nat
    BY <1>1
  <2> QED BY <1>3, <2>1, <2>2, ReadInside
<1>8. printed' = FlagsReport(p) \o Item(p.type = PUBLISH, <<"length", d>>)
  <2>1. type = p.type
    BY <1>2 DEF TypeRead
  <2>2. printed' = printed \o (Item(pc' = "malformed", <<"malformed">>)
                              \o Item(pc' = "body" /\ type = PUBLISH, <<"length", rlen'>>))
    BY DEF ReadLength, Report
  <2>3. /\ Item(pc' = "malformed", <<"malformed">>) = <<>>
        /\ Item(pc' = "body" /\ type = PUBLISH, <<"length", rlen'>>)
             = Item(p.type = PUBLISH, <<"length", d>>)
    BY <1>5, <1>6, <2>1 DEF Item
  <2>4. <<>> \o Item(p.type = PUBLISH, <<"length", d>>) = Item(p.type = PUBLISH, <<"length", d>>)
    BY RowItem, RowEmpty
  <2> QED BY <1>2, <2>2, <2>3, <2>4 DEF AtLength
<1>9. NoInfo'
  BY <1>2 DEF AtLength, NoInfo, ReadLength
<1> QED BY <1>1, <1>4, <1>5, <1>6, <1>7, <1>8, <1>9 DEF HeadInv, AtBody

-----------------------------------------------------------------------------
(* The body of a PUBLISH. *)

LEMMA PublishHead ==
  ASSUME TypeInv, NEW p \in Packet, AtHead(p), TypeRead(p), HeadInv(p), ParsePublish
  PROVE  HeadInv(p)'
<1>1. pc = "body" /\ AtBody(p) /\ type = PUBLISH
  BY DEF ParsePublish, HeadInv
<1>2. p.type = PUBLISH /\ qos = p.qos
  BY <1>1 DEF TypeRead
<1>3. p \in Packets /\ pktbuf \in Seq(Byte) /\ pktlen = Len(pktbuf) /\ pktlen \in Nat
      /\ Holds(pktbuf, 2, Body(p))
  BY HeadHolds
<1>4. PICK topic \in Utf8, n \in Nat, q \in 0 .. 2 : topic = p.topic /\ n = p.id /\ q = p.qos
  BY <1>2, <1>3, PublishParts DEF Word
<1>l. PICK l \in Nat : l = Len(topic)
  <2>1. Len(topic) \in Nat
    BY Utf8Octets
  <2> QED BY <2>1
<1>5. PICK from \in Nat :
        /\ from = IF q > 0 THEN 4 + l + 2 ELSE 4 + l
        /\ from = PayloadFrom(p) /\ from <= pktlen
  <2>1. /\ Len(p.payload) \in Nat
        /\ Holds(pktbuf, 2 + 2 + Len(topic) + (IF q > 0 THEN 2 ELSE 0), p.payload)
    BY <1>2, <1>3, <1>4, PublishHolds
  <2>2. PICK m \in Nat : m = Len(p.payload)
    BY <2>1
  <2>3. PICK f \in Nat : f = IF q > 0 THEN 4 + l + 2 ELSE 4 + l
    OBVIOUS
  <2>4. f = 2 + 2 + l + (IF q > 0 THEN 2 ELSE 0) /\ f = 4 + l + (IF q > 0 THEN 2 ELSE 0)
    BY <2>3
  <2>5. f = PayloadFrom(p)
    BY <1>l, <1>4, <2>4 DEF PayloadFrom
  <2>6. f + m <= pktlen
    BY <1>l, <1>3, <2>1, <2>2, <2>4 DEF Holds
  <2>7. f <= pktlen
    BY <1>3, <2>6
  <2> QED BY <2>3, <2>5, <2>7
<1>6. /\ Holds(pktbuf, 2, Text(topic)) /\ topic \in Seq(Nat)
      /\ q > 0 => Holds(pktbuf, 4 + l, Uint16(n))
  <2>1. 2 + 2 + l = 4 + l
    OBVIOUS
  <2> QED BY <1>2, <1>3, <1>4, <1>l, <2>1, PublishHolds, Utf8Octets
<1>7. pos = 2 /\ behind = 0
  BY <1>1 DEF AtBody
<1>8. PICK s \in StringsAt(2), pktID \in (IF q > 0 THEN Uint16At(4 + l) ELSE {0}) :
        /\ Touch(from)
        /\ pos' = IF pktlen - from >= 0 THEN from ELSE pos
        /\ pc' = CASE pktlen - from >= 0 -> "id" [] pktlen - from = -1 -> "killed"
                   [] OTHER -> "thrown"
        /\ Report(  <<<<"qos", qos>>>>
                \o Item(HasPublishId, <<"id", pktID>>)
                \o Item(pktlen - from >= 0, <<"topic", Contents(s)>>)
                \o Item(pktlen - from >= 0 /\ dump_payloads,
                        <<"payload", AsText(SubSeq(pktbuf, from + 1, pktlen))>>))
  <2>1. HasPublishId = (q > 0)
    BY <1>2, <1>4 DEF HasPublishId
  <2>2. \A s \in StringsAt(2) : s.end = 4 + l
    BY <1>3, <1>l, <1>6, ReadText
  <2> QED BY <1>5, <1>7, <2>1, <2>2 DEF ParsePublish
<1>9. pktlen - from >= 0
  BY <1>3, <1>5
<1>10. pc' = "id" /\ pos' = from
  BY <1>8, <1>9
<1>11. behind' = 0
  <2>1. from <= pktlen + 1
    BY <1>3, <1>5
  <2> QED BY <1>3, <1>7, <1>8, <2>1, ReadInside
<1>12. Contents(s) = topic
  BY <1>3, <1>6, ReadText, NoNul
<1>13. ASSUME q > 0 PROVE pktID = n
  <2>1. Holds(pktbuf, 4 + l, Uint16(n)) /\ 4 + l \in Nat
    BY <1>6, <1>13
  <2>2. Uint16At(4 + l) = {n}
    BY <1>3, <2>1, ReadNumber
  <2> QED BY <1>8, <1>13, <2>2
<1>14. printed' = PublishPrinted(p)
  <2> DEFINE F == FlagsReport(p)
             L == <<"length", Len(Body(p))>>
             Q == <<"qos", p.qos>>
             I == Item(p.qos > 0, <<"id", p.id>>)
             T == <<<<"topic", p.topic>>>>
             P == Item(dump_payloads, <<"payload", AsText(SubSeq(pktbuf, PayloadFrom(p) + 1, pktlen))>>)
  <2>1. printed = F \o <<L>>
    BY <1>1, <1>2 DEF AtBody, Item
  <2>2. Item(HasPublishId, <<"id", pktID>>) = I
    BY <1>2, <1>4, <1>13 DEF Item, HasPublishId
  <2>3. Item(pktlen - from >= 0, <<"topic", Contents(s)>>) = T
    BY <1>4, <1>9, <1>12 DEF Item
  <2>4. Item(pktlen - from >= 0 /\ dump_payloads,
             <<"payload", AsText(SubSeq(pktbuf, from + 1, pktlen))>>) = P
    BY <1>5, <1>9 DEF Item
  <2>5. printed' = printed \o (<<Q>> \o I \o T \o P)
    BY <1>2, <1>8, <2>2, <2>3, <2>4 DEF Report
  <2>6. /\ Row(F) /\ Row(<<L>>) /\ Row(<<Q>>) /\ Row(I) /\ Row(T) /\ Row(P)
    <3>1. Row(F)
      BY FlagsRow
    <3>2. Row(I) /\ Row(P)
      BY RowItem DEF Item
    <3>3. Row(T) /\ Row(<<L>>) /\ Row(<<Q>>)
      <4> HIDE DEF L, Q
      <4> QED BY RowItem
    <3> QED BY <3>1, <3>2, <3>3
  <2>7. <<L, Q>> = <<L>> \o <<Q>>
    OBVIOUS
  <2>8. PublishPrinted(p) = F \o <<L, Q>> \o I \o T \o P
    BY DEF PublishPrinted
  <2> HIDE DEF F, L, Q, I, T, P
  <2>9. printed' = F \o <<L>> \o <<Q>> \o I \o T \o P
    <3>1. PICK x, y : x = F \o <<L>> /\ Row(x) /\ y = <<Q>> /\ Row(y)
      BY <2>6, RowConcat
    <3>2. PICK i, t, r : i = I /\ t = T /\ r = P /\ Row(i) /\ Row(t) /\ Row(r)
      BY <2>6
    <3>3. Row(x) /\ Row(y) /\ Row(i) /\ Row(t) /\ Row(r)
      BY <3>1, <3>2
    <3>4. x \o (y \o i \o t \o r) = x \o y \o i \o t \o r
      BY <3>3
    <3> QED BY <2>1, <2>5, <3>1, <3>2, <3>4
  <2>10. F \o <<L>> \o <<Q>> = F \o (<<L>> \o <<Q>>)
    <3>1. PICK x, y, z : x = F /\ y = <<L>> /\ z = <<Q>> /\ Row(x) /\ Row(y) /\ Row(z)
      BY <2>6
    <3>2. x \o y \o z = x \o (y \o z)
      BY SMTT(20)
    <3> QED BY <3>1, <3>2
  <2> QED BY <2>7, <2>8, <2>9, <2>10
<1>15. AtId(p)'
  <2>1. ~ (p.type \in MQTT_CTRL_EXPECTS_ID) /\ p.type # PUBACK
    BY <1>2 DEF MQTT_CTRL_EXPECTS_ID, PUBLISH, PUBACK, PUBREC, PUBREL, PUBCOMP, SUBSCRIBE,
                SUBACK, UNSUBSCRIBE, UNSUBACK
  <2>2. Printed(p)' = PublishPrinted(p)'
    BY <1>2 DEF Printed, PUBLISH, CONNECT
  <2>3. PublishPrinted(p)' = PublishPrinted(p)
    BY DEF ParsePublish, PublishPrinted, pktlen, Header!pktlen
  <2> QED BY <1>11, <1>14, <2>1, <2>2, <2>3 DEF AtId
<1> QED BY <1>10, <1>15 DEF HeadInv

-----------------------------------------------------------------------------
(* The bodies that are not taken apart, a SUBACK, and the identifier. *)

LEMMA EncodeLength ==
  ASSUME NEW p \in Packet
  PROVE  Len(Encode(p)) = 2 + Len(Body(p))
<1>1. PICK b \in Seq(Nat), t \in {16 * p.type + Flags(p)} : b = Body(p) /\ t = 16 * p.type + Flags(p)
  BY PacketAssumption, BodyBytes
<1>2. b \in Seq(Nat \cup {t}) /\ <<t, Len(b)>> \in Seq(Nat \cup {t})
  <2>1. b \in Seq(Nat \cup {t})
    BY SeqMonotonic
  <2>2. Len(b) \in Nat
    OBVIOUS
  <2> QED BY <2>1, <2>2
<1>3. Len(<<t, Len(b)>> \o b) = Len(<<t, Len(b)>>) + Len(b)
  BY <1>2, ConcatLength
<1>4. Len(<<t, Len(b)>>) = 2
  OBVIOUS
<1> QED BY <1>1, <1>3, <1>4 DEF Encode

LEMMA OneItem ==
  ASSUME NEW f, f = [i \in 1 .. 1 |-> f[i]]
  PROVE  f = <<f[1]>>
OBVIOUS

LEMMA SkipBodyHead ==
  ASSUME TypeInv, NEW p \in Packet, AtHead(p), TypeRead(p), HeadInv(p), SkipBody
  PROVE  HeadInv(p)'
<1>1. pc = "body" /\ AtBody(p) /\ pc' = "id" /\ type = p.type
  BY DEF SkipBody, HeadInv, TypeRead
<1>2. p.type \notin {CONNECT, PUBLISH, SUBSCRIBE, UNSUBSCRIBE, SUBACK}
  BY <1>1 DEF SkipBody, MQTT_CTRL_EXPECTS_CTRL_PAYLOAD
<1>3. printed' = FlagsReport(p)
  <2>1. printed = FlagsReport(p) \o <<>>
    BY <1>1, <1>2 DEF AtBody, Item
  <2> QED BY <2>1, FlagsRow, RowEmpty DEF SkipBody
<1>4. p.type # PUBACK => Printed(p)' = FlagsReport(p)
  <2> SUFFICES ASSUME p.type # PUBACK PROVE Printed(p)' = FlagsReport(p)
    OBVIOUS
  <2>1. BodyReport(p) = <<>>
    BY <1>2 DEF BodyReport
  <2> QED BY <1>2, <2>1, FlagsRow, RowEmpty DEF Printed, ReportOf, CONNECT, PUBLISH
<1>5. pos' = 2 /\ behind' = 0
  BY <1>1 DEF SkipBody, AtBody
<1>6. IdFrom(p) = 2
  BY <1>2 DEF IdFrom
<1> QED BY <1>1, <1>3, <1>4, <1>5, <1>6 DEF HeadInv, AtId

LEMMA SubackHead ==
  ASSUME TypeInv, NEW p \in Parsed, AtHead(p), TypeRead(p), HeadInv(p), ParseSuback
  PROVE  HeadInv(p)'
<1>1. pc = "body" /\ AtBody(p) /\ pc' = "id" /\ p.type = SUBACK
  BY DEF ParseSuback, HeadInv, TypeRead
<1>2. p \in Packets /\ pktbuf \in Seq(Byte) /\ pktlen = Len(pktbuf) /\ pktlen \in Nat
      /\ Holds(pktbuf, 2, Body(p)) /\ p \in Packet
  BY HeadHolds DEF Parsed
<1>3. p.codes[1] \in Octet /\ pktbuf[5] = p.codes[1] /\ Len(Body(p)) = 3 /\ 5 <= Len(pktbuf)
      /\ p.codes \in Seq(Octet) /\ Len(p.codes) = 1
  BY <1>1, <1>2, SubackHolds, SubackParts DEF Parsed, IsParsed, Some
<1>4. At(4) = {p.codes[1]}
  <2>1. 4 < Len(pktbuf) /\ 4 + 1 = 5
    BY <1>2, <1>3
  <2> QED BY <1>2, <1>3, <2>1, ReadHere
<1>5. pos = 2 /\ behind = 0 /\ pos + 2 = 4 /\ pos + 3 = 5
  BY <1>1 DEF AtBody
<1>6. pos' = 5 /\ behind' = 0
  <2>0. pos' = 5 /\ Touch(pos')
    BY <1>5 DEF ParseSuback
  <2>1. pos' = 5 /\ Touch(5) /\ 5 <= pktlen + 1
    BY <1>2, <1>3, <2>0
  <2> QED BY <1>2, <1>5, <2>1, ReadInside
<1>7. printed' = ReportOf(p)
  <2> DEFINE c == p.codes[1]
  <2>1. printed' = printed \o <<<<"return code", c >= 128, c % 128>>>>
    BY <1>4, <1>5 DEF ParseSuback, Report
  <2>2. printed = FlagsReport(p) \o <<>>
    BY <1>1 DEF AtBody, Item, SUBACK, PUBLISH
  <2>3. printed = FlagsReport(p)
    BY <2>2, FlagsRow, RowEmpty
  <2>4. BodyReport(p) = SubackReport(p)
    BY <1>1 DEF BodyReport, CONNECT, PUBLISH, SUBSCRIBE, UNSUBSCRIBE, SUBACK, PUBACK
  <2>5. SubackReport(p) = <<<<"return code", c >= 128, c % 128>>>>
    <3>1. DOMAIN p.codes = 1 .. 1
      BY <1>3
    <3>2. SubackReport(p) = [i \in 1 .. 1 |-> SubackReport(p)[i]]
      BY <3>1 DEF SubackReport
    <3>0. 1 \in DOMAIN p.codes
      BY <3>1
    <3>3. SubackReport(p)[1] = <<"return code", c >= 128, c % 128>>
      BY <3>0, Zenon DEF SubackReport
    <3>4. PICK f : f = SubackReport(p)
      OBVIOUS
    <3>5. f = <<f[1]>>
      BY <3>2, <3>4, OneItem
    <3> QED BY <3>3, <3>4, <3>5
  <2> QED BY <2>1, <2>3, <2>4, <2>5 DEF ReportOf
<1>8. IdFrom(p) = 5
  BY <1>1, <1>3 DEF IdFrom, SUBSCRIBE, UNSUBSCRIBE, SUBACK
<1>9. Printed(p)' = ReportOf(p) /\ p.type # PUBACK
  BY <1>1 DEF Printed, SUBACK, PUBLISH, CONNECT, PUBACK
<1> QED BY <1>1, <1>6, <1>7, <1>8, <1>9 DEF HeadInv, AtId

LEMMA PacketIdHead ==
  ASSUME TypeInv, Row(printed),
         NEW p \in Packet, AtHead(p), TypeRead(p), HeadInv(p), ParsePacketId
  PROVE  HeadInv(p)'
<1>1. pc = "id" /\ AtId(p) /\ pc' = "returned" /\ type = p.type /\ behind = 0
  BY DEF ParsePacketId, HeadInv, TypeRead, AtId
<1>2. p \in Packets /\ pktbuf \in Seq(Byte) /\ pktlen = Len(pktbuf) /\ pktlen \in Nat
      /\ Holds(pktbuf, 2, Body(p)) /\ Len(Body(p)) \in Nat
  BY HeadHolds
<1>3. p.type \in {PUBACK, PUBREC, PUBREL, PUBCOMP, UNSUBACK} =>
        /\ pos = 2 /\ Len(Body(p)) = 2 /\ p.id \in Nat /\ Uint16At(2) = {p.id}
  <2> SUFFICES ASSUME p.type \in {PUBACK, PUBREC, PUBREL, PUBCOMP, UNSUBACK}
               PROVE  /\ pos = 2 /\ Len(Body(p)) = 2 /\ p.id \in Nat /\ Uint16At(2) = {p.id}
    OBVIOUS
  <2>1. p.id \in Nat /\ Body(p) = Uint16(p.id)
    BY <1>2, AckParts DEF Word
  <2>2. pos = 2
    BY <1>1 DEF AtId, IdFrom, MQTT_CTRL_EXPECTS_ID, PUBACK, PUBREC, PUBREL, PUBCOMP,
                SUBSCRIBE, SUBACK, UNSUBSCRIBE, UNSUBACK
  <2>3. Len(Body(p)) = 2
    BY <2>1, Uint16Bytes
  <2>4. PICK n \in Nat : n = p.id
    BY <2>1
  <2>5. pktbuf \in Seq(Byte) /\ Holds(pktbuf, 2, Uint16(n))
    BY <1>2, <2>1, <2>4
  <2>6. Uint16At(2) = {n}
    BY <2>5, ReadNumber
  <2> QED BY <2>1, <2>2, <2>3, <2>4, <2>6
<1>4. printed' = Printed(p)
  <2>1. CASE p.type = PUBACK
    <3>1. id' = p.id
      BY <1>1, <1>3, <2>1 DEF ParsePacketId, IdPosition, MQTT_CTRL_EXPECTS_ID
    <3>2. printed = FlagsReport(p)
      BY <1>1, <2>1 DEF AtId
    <3>3. printed' = FlagsReport(p) \o <<<<"id", p.id>>>>
      BY <1>1, <2>1, <3>1, <3>2 DEF ParsePacketId, Report, Item
    <3>4. BodyReport(p) = <<<<"id", p.id>>>>
      BY <2>1 DEF BodyReport, CONNECT, PUBLISH, SUBSCRIBE, UNSUBSCRIBE, SUBACK, PUBACK
    <3>5. p.type # PUBLISH /\ p.type # CONNECT
      BY <2>1 DEF PUBACK, PUBLISH, CONNECT
    <3> QED BY <3>3, <3>4, <3>5 DEF Printed, ReportOf
  <2>2. CASE p.type # PUBACK
    <3>1. printed = Printed(p)
      BY <1>1, <2>2 DEF AtId
    <3>2. printed' = printed \o <<>>
      BY <1>1, <2>2 DEF ParsePacketId, Report, Item
    <3> QED BY <3>1, <3>2, RowEmpty
  <2> QED BY <2>1, <2>2
<1>5. Printed(p)' = Printed(p)
  <2>1. PublishPrinted(p)' = PublishPrinted(p)
    BY DEF ParsePacketId, PublishPrinted, pktlen, Header!pktlen
  <2> QED BY <2>1 DEF Printed
<1>6. ASSUME pktbuf = Encode(p)
      PROVE  behind' = IF p.type \in {UNSUBSCRIBE, SUBACK} THEN 1 ELSE 0
  <2>1. PICK l \in Nat : l = Len(Body(p)) /\ pktlen = 2 + l
    BY <1>2, <1>6, EncodeLength
  <2>2. CASE p.type \notin MQTT_CTRL_EXPECTS_ID
    BY <1>1, <2>2 DEF ParsePacketId, MQTT_CTRL_EXPECTS_ID
  <2>3. CASE p.type \in MQTT_CTRL_EXPECTS_ID
    <3>1. Touch(pos + 2) /\ pos = IdFrom(p)
      BY <1>1, <2>3 DEF ParsePacketId, AtId, IdPosition
    <3>2. CASE p.type \in {PUBACK, PUBREC, PUBREL, PUBCOMP, UNSUBACK}
      <4>1. p.type \notin {UNSUBSCRIBE, SUBACK} /\ pos = 2 /\ l = 2
        BY <1>3, <2>1, <3>2
           DEF PUBACK, PUBREC, PUBREL, PUBCOMP, SUBACK, UNSUBSCRIBE, UNSUBACK
      <4> QED BY <1>1, <2>1, <3>1, <4>1 DEF Touch
    <3>3. CASE p.type = SUBSCRIBE
      <4>1. p.type \notin {UNSUBSCRIBE, SUBACK} /\ pos = 1 + l
        BY <2>1, <3>1, <3>3 DEF IdFrom, SUBSCRIBE, SUBACK, UNSUBSCRIBE
      <4> QED BY <1>1, <2>1, <3>1, <4>1 DEF Touch
    <3>4. CASE p.type \in {UNSUBSCRIBE, SUBACK}
      <4>1. pos = 2 + l
        BY <2>1, <3>1, <3>4 DEF IdFrom, SUBSCRIBE, SUBACK, UNSUBSCRIBE
      <4> QED BY <1>1, <2>1, <3>1, <3>4, <4>1 DEF Touch
    <3> QED BY <2>3, <3>2, <3>3, <3>4 DEF MQTT_CTRL_EXPECTS_ID
  <2> QED BY <2>2, <2>3
<1>7. AtEnd(p)'
  BY <1>4, <1>5, <1>6 DEF AtEnd, ParsePacketId
<1> QED BY <1>1, <1>7 DEF HeadInv

-----------------------------------------------------------------------------
(* The filters of a SUBSCRIBE and an UNSUBSCRIBE that fill the chunk. *)

LEMMA SkipIdHead ==
  ASSUME TypeInv, NEW p \in Parsed, AtHead(p), TypeRead(p), HeadInv(p), SkipId
  PROVE  HeadInv(p)'
<1>1. /\ pc = "body" /\ AtBody(p) /\ pc' = "filters"
      /\ p.type \in {SUBSCRIBE, UNSUBSCRIBE} /\ p.type # PUBLISH
  BY DEF SkipId, HeadInv, TypeRead, SUBSCRIBE, UNSUBSCRIBE, PUBLISH
<1>2. p \in Packets /\ pktbuf \in Seq(Byte) /\ pktlen = Len(pktbuf) /\ pktlen \in Nat
      /\ Holds(pktbuf, 2, Body(p))
  BY HeadHolds DEF Parsed
<1>3. p.id \in Nat /\ Holds(pktbuf, 2, Uint16(p.id))
  <2>1. CASE p.type = SUBSCRIBE
    <3>1. Len(p.filters) = 1
      BY <2>1 DEF Parsed, IsParsed
    <3> QED BY <1>2, <2>1, <3>1, SubscribeHolds, SubscribeBytes
  <2>2. CASE p.type = UNSUBSCRIBE
    BY <1>2, <2>2, UnsubscribeHolds, UnsubscribeBytes
  <2> QED BY <1>1, <2>1, <2>2
<1>4. 4 <= pktlen
  BY <1>2, <1>3, HoldsUint16
<1>5. pos' = 4 /\ behind' = 0
  <2>1. pos' = 4 /\ Touch(4) /\ behind = 0
    BY <1>1 DEF SkipId, AtBody
  <2> QED BY <1>2, <1>4, <2>1, ReadInside
<1>6. printed' = FlagsReport(p)
  <2>1. printed = FlagsReport(p) \o <<>>
    BY <1>1 DEF AtBody, Item
  <2> QED BY <2>1, FlagsRow, RowEmpty DEF SkipId
<1>7. AtFilters(p)'
  <2>1. CASE p.type = SUBSCRIBE
    BY <1>5, <1>6, <2>1 DEF AtFilters
  <2>2. CASE p.type = UNSUBSCRIBE
    <3>1. 1 \in DOMAIN p.filters /\ FilterFrom(p, 1) = 4
      BY <1>2, <2>2, UnsubscribeBytes DEF FilterFrom
    <3>2. [j \in 1 .. 1 - 1 |-> <<"-", p.filters[j]>>] = <<>>
      OBVIOUS
    <3>3. FlagsReport(p) \o <<>> = FlagsReport(p)
      BY FlagsRow, RowEmpty
    <3>4. \E i \in DOMAIN p.filters :
            /\ pos' = FilterFrom(p, i)
            /\ printed' = FlagsReport(p) \o [j \in 1 .. i - 1 |-> <<"-", p.filters[j]>>]
      BY <1>5, <1>6, <3>1, <3>2, <3>3
    <3> QED BY <1>5, <2>2, <3>4 DEF AtFilters
  <2> QED BY <1>1, <2>1, <2>2
<1> QED BY <1>1, <1>7 DEF HeadInv

LEMMA SubscribeFilterHead ==
  ASSUME TypeInv, NEW p \in Parsed, AtHead(p), Covered(p), TypeRead(p), HeadInv(p),
         p.type = SUBSCRIBE, ParseFilter
  PROVE  HeadInv(p)'
<1>1. pc = "filters" /\ AtFilters(p) /\ type = SUBSCRIBE
  BY DEF ParseFilter, HeadInv, TypeRead
<1>2. p \in Packets /\ pktbuf \in Seq(Byte) /\ pktlen = Len(pktbuf) /\ pktlen \in Nat
      /\ Holds(pktbuf, 2, Body(p)) /\ p \in Packet
  BY HeadHolds DEF Parsed
<1>3. pos = 4 /\ behind = 0 /\ printed = FlagsReport(p)
  BY <1>1 DEF AtFilters, SUBSCRIBE, UNSUBSCRIBE
<1>4. Len(p.filters) = 1
  BY DEF Parsed, IsParsed
<1>5. p.filters[1] \in Entry
  BY <1>2, <1>4, SubscribeHolds
<1>6. PICK topic \in Utf8, q \in 0 .. 2 : topic = p.filters[1].topic /\ q = p.filters[1].qos
  BY <1>5 DEF Entry
<1>7. PICK l \in Nat : l = Len(topic)
  BY Utf8Octets
<1>8. /\ Holds(pktbuf, 4, Text(topic)) /\ pktbuf[7 + l] = q
      /\ Len(Body(p)) = 5 + l /\ 7 + l <= Len(pktbuf)
  BY <1>2, <1>4, <1>6, <1>7, SubscribeHolds
<1>9. pktlen = 7 + l
  <2>1. pktbuf = Encode(p)
    BY DEF Covered
  <2>2. Len(Encode(p)) = 2 + Len(Body(p))
    BY <1>2, EncodeLength
  <2> QED BY <1>2, <1>8, <2>1, <2>2
<1>10. \A s \in StringsAt(4) : s.end = 6 + l /\ Contents(s) = topic
  <2>1. \A s \in StringsAt(4) : s.end = 4 + 2 + l /\ Contents(s) = topic
    BY <1>2, <1>7, <1>8, ReadText, NoNul, Utf8Octets
  <2> QED BY <2>1
<1>11. At(6 + l) = {q}
  <2>1. 6 + l \in Nat /\ 6 + l < Len(pktbuf) /\ (6 + l) + 1 = 7 + l
    BY <1>8
  <2> QED BY <1>2, <1>8, <2>1, ReadHere
<1>12. /\ printed' = printed \o <<<<"+", topic, q % 4>>>>
       /\ Touch((6 + l) + 1) /\ pos' = 6 + l
       /\ pc' = IF MoreFilters(6 + l) THEN "filters" ELSE "id"
  BY <1>1, <1>3, <1>10, <1>11 DEF ParseFilter, Report
<1>13. pc' = "id"
  <2>1. ~ MoreFilters(6 + l)
    BY <1>9 DEF MoreFilters
  <2> QED BY <1>12, <2>1
<1>14. behind' = 0
  <2>1. (6 + l) + 1 <= pktlen + 1 /\ (6 + l) + 1 \in Nat
    BY <1>9
  <2> QED BY <1>2, <1>3, <1>12, <2>1, ReadInside
<1>15. printed' = ReportOf(p)
  <2>1. BodyReport(p) = SubscribeReport(p)
    BY DEF BodyReport, CONNECT, PUBLISH, SUBSCRIBE, UNSUBSCRIBE, SUBACK, PUBACK
  <2>2. DOMAIN p.filters = 1 .. 1
    BY <1>2, <1>4, SubscribeBytes
  <2>3. PICK f : f = SubscribeReport(p)
    OBVIOUS
  <2>4. f = [i \in 1 .. 1 |-> f[i]] /\ f[1] = <<"+", topic, q>>
    BY <1>6, <2>2, <2>3 DEF SubscribeReport
  <2>5. f = <<f[1]>>
    BY <2>4, OneItem
  <2>6. q % 4 = q
    OBVIOUS
  <2> QED BY <1>3, <1>12, <2>1, <2>3, <2>4, <2>5, <2>6 DEF ReportOf
<1>16. pos' = IdFrom(p)
  <2>1. IdFrom(p) = 1 + Len(Body(p))
    BY DEF IdFrom, SUBSCRIBE, UNSUBSCRIBE, SUBACK
  <2> QED BY <1>8, <1>12, <2>1
<1>17. Printed(p)' = ReportOf(p) /\ p.type # PUBACK
  BY DEF Printed, SUBSCRIBE, PUBLISH, CONNECT, PUBACK
<1> QED BY <1>13, <1>14, <1>15, <1>16, <1>17 DEF HeadInv, AtId

LEMMA OneMoreFilter ==
  ASSUME NEW fs, NEW i \in Nat
  PROVE  [j \in 1 .. i |-> <<"-", fs[j]>>] \o <<<<"-", fs[i + 1]>>>>
           = [j \in 1 .. i + 1 |-> <<"-", fs[j]>>]
<1> DEFINE f == [j \in 1 .. i |-> <<"-", fs[j]>>]
           g == [j \in 1 .. i + 1 |-> <<"-", fs[j]>>]
           S == {<<"-", fs[j]>> : j \in 1 .. i + 1}
           x == <<"-", fs[i + 1]>>
<1>1. f \in Seq(S) /\ g \in Seq(S) /\ <<x>> \in Seq(S) /\ Len(f) = i /\ Len(g) = i + 1
  OBVIOUS
<1>2. \A j \in 1 .. i : f[j] = g[j]
  OBVIOUS
<1>3. g[i + 1] = x
  OBVIOUS
<1> HIDE DEF f, g, S, x
<1>4. f \o <<x>> \in Seq(S) /\ Len(f \o <<x>>) = i + 1
  BY <1>1
<1>5. ASSUME NEW j \in 1 .. i + 1 PROVE (f \o <<x>>)[j] = g[j]
  BY <1>1, <1>2, <1>3
<1>6. f \o <<x>> = g
  BY <1>1, <1>4, <1>5, SeqEqual
<1> QED BY <1>6 DEF f, g, x

LEMMA UnsubscribeFilterHead ==
  ASSUME TypeInv, NEW p \in Parsed, AtHead(p), Covered(p), TypeRead(p), HeadInv(p),
         p.type = UNSUBSCRIBE, ParseFilter
  PROVE  HeadInv(p)'
<1>1. pc = "filters" /\ AtFilters(p) /\ type = UNSUBSCRIBE /\ type # SUBSCRIBE
  BY DEF ParseFilter, HeadInv, TypeRead, SUBSCRIBE, UNSUBSCRIBE
<1>2. p \in Packets /\ pktbuf \in Seq(Byte) /\ pktlen = Len(pktbuf) /\ pktlen \in Nat
      /\ Holds(pktbuf, 2, Body(p)) /\ p \in Packet
  BY HeadHolds DEF Parsed
<1>3. PICK n \in Nat, fs \in Seq(Utf8) : n = Len(fs) /\ fs = p.filters
  BY <1>2, UnsubscribeBytes
<1>4. behind = 0 /\ \E i \in DOMAIN p.filters :
        /\ pos = FilterFrom(p, i)
        /\ printed = FlagsReport(p) \o [j \in 1 .. i - 1 |-> <<"-", p.filters[j]>>]
  BY <1>1 DEF AtFilters, SUBSCRIBE, UNSUBSCRIBE
<1>5. PICK i \in 1 .. n :
        /\ pos = FilterFrom(p, i)
        /\ printed = FlagsReport(p) \o [j \in 1 .. i - 1 |-> <<"-", fs[j]>>]
  <2>1. PICK i \in DOMAIN p.filters :
          /\ pos = FilterFrom(p, i)
          /\ printed = FlagsReport(p) \o [j \in 1 .. i - 1 |-> <<"-", p.filters[j]>>]
    BY <1>4
  <2>2. i \in 1 .. n
    BY <1>3
  <2>3. printed = FlagsReport(p) \o [j \in 1 .. i - 1 |-> <<"-", fs[j]>>]
    BY <1>3, <2>1
  <2> QED BY <2>1, <2>2, <2>3
<1>6. \A k \in 1 .. n :
        /\ FilterFrom(p, k) \in Nat /\ fs[k] \in Utf8
        /\ Holds(pktbuf, FilterFrom(p, k), Text(fs[k]))
        /\ FilterFrom(p, k + 1) = FilterFrom(p, k) + 2 + Len(fs[k])
  BY <1>2, <1>3, UnsubscribeHolds
<1>7. PICK from \in Nat, topic \in Utf8, l \in Nat :
        from = FilterFrom(p, i) /\ topic = fs[i] /\ l = Len(topic)
  <2>1. Len(fs[i]) \in Nat
    BY <1>6, Utf8Octets
  <2> QED BY <1>6, <2>1
<1>8. Holds(pktbuf, from, Text(topic)) /\ FilterFrom(p, i + 1) = from + 2 + l
  BY <1>6, <1>7
<1>9. pktlen = FilterFrom(p, n + 1) /\ 2 + Len(Body(p)) = FilterFrom(p, n + 1)
  <2>1. pktbuf = Encode(p)
    BY DEF Covered
  <2>2. Len(Encode(p)) = 2 + Len(Body(p))
    BY <1>2, EncodeLength
  <2>3. 2 + Len(Body(p)) = FilterFrom(p, n + 1)
    BY <1>2, <1>3, UnsubscribeHolds
  <2> QED BY <1>2, <2>1, <2>2, <2>3
<1>10. PICK end \in Nat : end = from + 2 + l
  OBVIOUS
<1>11. \A s \in StringsAt(from) : s.end = end /\ s.end <= pktlen /\ Contents(s) = topic
  BY <1>2, <1>7, <1>8, <1>10, ReadText, NoNul, Utf8Octets
<1>12. /\ printed' = printed \o <<<<"-", topic>>>>
       /\ Touch(end + 1) /\ pos' = end /\ end <= pktlen
       /\ pc' = IF MoreFilters(end) THEN "filters" ELSE "id"
  BY <1>1, <1>5, <1>7, <1>11 DEF ParseFilter, Report
<1>13. behind' = 0
  <2>1. end + 1 <= pktlen + 1 /\ end + 1 \in Nat
    BY <1>2, <1>12
  <2> QED BY <1>2, <1>4, <1>12, <2>1, ReadInside
<1>14. printed' = FlagsReport(p) \o [j \in 1 .. i |-> <<"-", fs[j]>>]
  <2>1. i - 1 \in Nat /\ (i - 1) + 1 = i
    OBVIOUS
  <2>2. PICK m \in Nat : m = i - 1 /\ m + 1 = i
    BY <2>1
  <2>3. [j \in 1 .. m |-> <<"-", fs[j]>>] \o <<<<"-", fs[m + 1]>>>>
          = [j \in 1 .. m + 1 |-> <<"-", fs[j]>>]
    BY OneMoreFilter
  <2>4. PICK x, y : /\ x = [j \in 1 .. i - 1 |-> <<"-", fs[j]>>]
                    /\ y = [j \in 1 .. i |-> <<"-", fs[j]>>]
    OBVIOUS
  <2>5. x \o <<<<"-", topic>>>> = y
    BY <1>7, <2>2, <2>3, <2>4
  <2>6. printed' = FlagsReport(p) \o x \o <<<<"-", topic>>>>
    BY <1>5, <1>12, <2>4
  <2>7. printed' = FlagsReport(p) \o (x \o <<<<"-", topic>>>>)
    BY <2>6
  <2> QED BY <2>4, <2>5, <2>7
<1>15. CASE i = n
  <2>1. end = pktlen /\ pos' = pktlen
    BY <1>8, <1>9, <1>10, <1>12, <1>15
  <2>2. pc' = "id"
    BY <1>2, <1>12, <2>1 DEF MoreFilters
  <2>3. pos' = IdFrom(p)
    BY <1>9, <2>1 DEF IdFrom, SUBSCRIBE, UNSUBSCRIBE, SUBACK
  <2>4. DOMAIN p.filters = 1 .. n
    BY <1>3
  <2>5. UnsubscribeReport(p) = [j \in 1 .. i |-> <<"-", fs[j]>>]
    BY <1>3, <1>15, <2>4 DEF UnsubscribeReport
  <2>6. BodyReport(p) = UnsubscribeReport(p)
    BY DEF BodyReport, CONNECT, PUBLISH, SUBSCRIBE, UNSUBSCRIBE, SUBACK, PUBACK
  <2>7. printed' = ReportOf(p)
    BY <1>14, <2>5, <2>6 DEF ReportOf
  <2>8. Printed(p)' = ReportOf(p) /\ p.type # PUBACK
    BY DEF Printed, UNSUBSCRIBE, PUBLISH, CONNECT, PUBACK
  <2> QED BY <1>13, <2>2, <2>3, <2>7, <2>8 DEF HeadInv, AtId
<1>16. CASE i # n
  <2>1. PICK k \in 1 .. n : k = i + 1
    BY <1>16
  <2>2. k - 1 = i /\ k \in DOMAIN p.filters /\ FilterFrom(p, k) = end
    BY <1>3, <1>8, <1>10, <2>1
  <2>3. end + 2 <= pktlen
    <3>1. PICK t \in Seq(Nat) : t = fs[k]
      BY <1>6, Utf8Octets
    <3>2. Holds(pktbuf, end, Text(t))
      BY <1>6, <2>2, <3>1
    <3>3. Len(Text(t)) = 2 + Len(t) /\ Len(t) \in Nat
      BY TextBytes
    <3> QED BY <1>2, <3>2, <3>3 DEF Holds
  <2>4. pc' = "filters"
    BY <1>2, <1>12, <2>3 DEF MoreFilters
  <2>5. printed' = FlagsReport(p) \o [j \in 1 .. k - 1 |-> <<"-", p.filters[j]>>]
    BY <1>3, <1>14, <2>2
  <2>6. AtFilters(p)'
    BY <1>12, <1>13, <2>2, <2>5 DEF AtFilters
  <2> QED BY <2>4, <2>6 DEF HeadInv
<1> QED BY <1>15, <1>16

-----------------------------------------------------------------------------
(* The flags and the fields of a CONNECT. *)

LEMMA NextField ==
  ASSUME NEW x \in Nat, NEW s \in Seq(Nat)
  PROVE  /\ <<x>> \o s \in Seq(Nat) /\ <<x>> \o s # <<>>
         /\ Head(<<x>> \o s) = x /\ Tail(<<x>> \o s) = s
<1>1. PICK t \in Seq(Nat) : t = <<x>> \o s
  <2>1. <<x>> \in Seq(Nat)
    OBVIOUS
  <2>2. <<x>> \o s \in Seq(Nat)
    BY <2>1
  <2> QED BY <2>2
<1>2. Len(t) = 1 + Len(s) /\ t[1] = x /\ \A i \in 1 .. Len(s) : t[1 + i] = s[i]
  BY <1>1
<1>3. Tail(t) \in Seq(Nat) /\ Len(Tail(t)) = Len(s) /\ Head(t) = x /\ t # <<>>
  BY <1>2
<1>4. \A i \in 1 .. Len(s) : Tail(t)[i] = s[i]
  BY <1>2
<1>5. Tail(t) = s
  BY <1>3, <1>4, SeqEqual
<1> QED BY <1>1, <1>3, <1>5

LEMMA TwoInARow ==
  ASSUME NEW a, NEW b
  PROVE  <<a, b>> = <<a>> \o <<b>>
<1>1. PICK S : S = {a, b}
  OBVIOUS
<1>2. a \in S /\ b \in S
  BY <1>1
<1>3. PICK s \in Seq(S), t \in Seq(S) :
        s = <<a>> /\ t = <<b>> /\ Len(s) = 1 /\ Len(t) = 1 /\ s[1] = a /\ t[1] = b
  <2>1. <<a>> \in Seq(S) /\ <<b>> \in Seq(S)
    BY <1>2
  <2> QED BY <2>1
<1>4. s \o t \in Seq(S) /\ Len(s \o t) = 2
  BY <1>3, ConcatProperties
<1>5. (s \o t)[1] = a /\ (s \o t)[2] = b
  BY <1>3
<1>6. PICK u \in Seq(S), v \in Seq(S) : u = s \o t /\ v = <<a, b>>
  <2>1. <<a, b>> \in Seq(S)
    BY <1>2
  <2> QED BY <1>4, <2>1
<1>7. Len(u) = 2 /\ Len(v) = 2 /\ u[1] = a /\ u[2] = b /\ v[1] = a /\ v[2] = b
  BY <1>4, <1>5, <1>6
<1>8. \A i \in 1 .. 2 : u[i] = v[i]
  BY <1>7
<1>9. u = v
  BY <1>7, <1>8, SeqEqual
<1> QED BY <1>3, <1>6, <1>9

LEMMA FieldNumbers ==
  /\ CF_CLIENT_ID = 0 /\ CF_WILL_TOP = 3 /\ CF_WILL_MSG = 4
  /\ CF_PASSWORD = 7 /\ CF_USERNAME = 8 /\ UserXorPass = 9
BY DEF CF_CLIENT_ID, CF_WILL_TOP, CF_WILL_MSG, CF_PASSWORD, CF_USERNAME, UserXorPass

LEMMA FieldRows ==
  ASSUME NEW p
  PROVE  /\ PassFields(p) \in Seq(Nat) /\ UserFields(p) \in Seq(Nat)
         /\ XorFields(p) \in Seq(Nat) /\ MsgFields(p) \in Seq(Nat)
         /\ WillFields(p) \in Seq(Nat)
<1>1. \A c, k : k \in Nat => Item(c, k) \in Seq(Nat)
  BY DEF Item
<1>2. PassFields(p) \in Seq(Nat)
  BY <1>1, FieldNumbers DEF PassFields
<1>3. UserFields(p) \in Seq(Nat)
  <2>1. Item(p.user # <<>>, CF_USERNAME) \in Seq(Nat)
    BY <1>1, FieldNumbers
  <2> QED BY <1>2, <2>1, ConcatLength DEF UserFields
<1>4. XorFields(p) \in Seq(Nat)
  <2>1. Item((p.user # <<>>) # (p.pass # <<>>), UserXorPass) \in Seq(Nat)
    BY <1>1, FieldNumbers
  <2> QED BY <1>3, <2>1, ConcatLength DEF XorFields
<1>5. MsgFields(p) \in Seq(Nat)
  BY <1>4, NextField, FieldNumbers DEF MsgFields
<1>6. WillFields(p) \in Seq(Nat)
  BY <1>4, <1>5, NextField, FieldNumbers DEF WillFields
<1> QED BY <1>2, <1>3, <1>4, <1>5, <1>6

LEMMA AnnouncedFields ==
  ASSUME NEW p
  PROVE  Announced(ConnectFlags(p)) = IdFields(p)
<1>1. PICK f : f = ConnectFlags(p)
  OBVIOUS
<1>2. /\ ((f \div 4) % 2 = 1) <=> p.will # <<>>
      /\ (f >= 128) <=> p.user # <<>>
      /\ ((f \div 64) % 2 = 1) <=> p.pass # <<>>
  <2>1. f = (IF p.user # <<>> THEN 128 ELSE 0) + (IF p.pass # <<>> THEN 64 ELSE 0)
            + (IF p.will # <<>> THEN 4 ELSE 0) + 2
    BY <1>1 DEF ConnectFlags, Bit
  <2>2. PICK w, u, x : w = p.will /\ u = p.user /\ x = p.pass
    OBVIOUS
  <2>3. f \in {2, 6, 66, 70, 130, 134, 194, 198}
    BY <2>1
  <2> QED BY <2>1, <2>3
<1>3. /\ Announced(f) = <<CF_CLIENT_ID>>
                     \o (IF p.will # <<>> THEN <<CF_WILL_TOP, CF_WILL_MSG>> ELSE <<>>)
                     \o Item((p.user # <<>>) # (p.pass # <<>>), UserXorPass)
                     \o Item(p.user # <<>>, CF_USERNAME)
                     \o Item(p.pass # <<>>, CF_PASSWORD)
  BY <1>2 DEF Announced, Item, hasWill, hasUser, hasPass
<1>4. PICK x, u, r : /\ x = Item((p.user # <<>>) # (p.pass # <<>>), UserXorPass)
                     /\ u = Item(p.user # <<>>, CF_USERNAME)
                     /\ r = Item(p.pass # <<>>, CF_PASSWORD)
  OBVIOUS
<1>5. XorFields(p) = x \o (u \o r)
  BY <1>4 DEF XorFields, UserFields, PassFields
<1>6. CASE p.will = <<>>
  <2>1. Announced(f) = <<CF_CLIENT_ID>> \o <<>> \o x \o u \o r
    BY <1>3, <1>4, <1>6
  <2>2. IdFields(p) = <<CF_CLIENT_ID>> \o (x \o (u \o r))
    BY <1>5, <1>6 DEF IdFields, WillFields
  <2> QED BY <1>1, <2>1, <2>2
<1>7. CASE p.will # <<>>
  <2>1. Announced(f) = <<CF_CLIENT_ID>> \o <<CF_WILL_TOP, CF_WILL_MSG>> \o x \o u \o r
    BY <1>3, <1>4, <1>7
  <2>2. IdFields(p) = <<CF_CLIENT_ID>> \o (<<CF_WILL_TOP>> \o (<<CF_WILL_MSG>>
                                                               \o (x \o (u \o r))))
    BY <1>5, <1>7 DEF IdFields, WillFields, MsgFields
  <2>3. <<CF_WILL_TOP, CF_WILL_MSG>> = <<CF_WILL_TOP>> \o <<CF_WILL_MSG>>
    BY TwoInARow
  <2> QED BY <1>1, <2>1, <2>2, <2>3
<1> QED BY <1>6, <1>7

LEMMA ConnectHead ==
  ASSUME TypeInv, NEW p \in Packet, AtHead(p), TypeRead(p), HeadInv(p), ParseConnect
  PROVE  HeadInv(p)'
<1>1. pc = "body" /\ AtBody(p) /\ p.type = CONNECT /\ pc' = "fields"
  BY DEF ParseConnect, HeadInv, TypeRead
<1>2. p \in Packets /\ pktbuf \in Seq(Byte) /\ pktlen = Len(pktbuf) /\ pktlen \in Nat
      /\ Holds(pktbuf, 2, Body(p))
  BY HeadHolds
<1>3. pktbuf[10] = ConnectFlags(p) /\ 12 <= Len(pktbuf)
  BY <1>1, <1>2, ConnectHolds
<1>4. pos = 2 /\ behind = 0 /\ printed = FlagsReport(p) \o <<>>
  BY <1>1 DEF AtBody, Item, CONNECT, PUBLISH
<1>5. At(2 + 7) = {ConnectFlags(p)}
  <2>1. 2 + 7 \in Nat /\ 2 + 7 < Len(pktbuf) /\ (2 + 7) + 1 = 10
    BY <1>2, <1>3
  <2> QED BY <1>2, <1>3, <2>1, ReadHere
<1>6. fields' = IdFields(p) /\ printed' = FlagsPrinted(p)
  BY <1>4, <1>5, AnnouncedFields
     DEF ParseConnect, Report, FlagsPrinted, mqtt_dump_ctrl_connect_header
<1>7. pos' = 12 /\ behind' = 0
  <2>1. pos' = 12 /\ Touch(12) /\ 12 <= pktlen + 1
    BY <1>2, <1>3, <1>4 DEF ParseConnect
  <2> QED BY <1>2, <1>4, <2>1, ReadInside
<1>8. Extracted(p, {})'
  BY <1>1 DEF ParseConnect, AtBody, NoInfo, Extracted
<1>9. AtFields(p)'
  BY <1>1, <1>6, <1>7, <1>8 DEF AtFields, AtIdField
<1> QED BY <1>1, <1>9 DEF HeadInv

(* One field more is extracted. *)
LEMMA ExtractOne ==
  ASSUME TypeInv, NEW p, NEW keys, Extracted(p, keys), NEW k \in Nat, NEW t \in Seq(Nat),
         Head(fields) = k, TextOf(p, k) = t, Holds(pktbuf, pos, Text(t)), behind = 0,
         ExtractField
  PROVE  /\ Extracted(p, keys \cup {k})' /\ pos' = pos + 2 + Len(t) /\ behind' = 0
         /\ fields' = Tail(fields) /\ printed' = printed /\ pc' = pc
<1>1. pktbuf \in Seq(Byte) /\ pos \in Nat /\ pktlen \in Nat
  BY DEF TypeInv, TypeOK, pktlen, Header!pktlen
<1>2. PICK x \in StringsAt(pos) :
        /\ info' = [j \in DOMAIN info \cup {k} |-> IF j = k THEN Contents(x) ELSE info[j]]
        /\ pos' = x.end
  BY DEF ExtractField
<1>3. x.end = pos + 2 + Len(t) /\ x.end <= pktlen /\ Contents(x) = AsText(t)
  BY <1>1, ReadText
<1>4. info' = [j \in keys \cup {k} |-> AsText(TextOf(p, j))]
  BY <1>2, <1>3 DEF Extracted
<1>5. behind' = 0
  <2>1. x.end \in Nat /\ x.end <= pktlen + 1 /\ Touch(x.end)
    BY <1>1, <1>2, <1>3 DEF ExtractField
  <2> QED BY <1>1, <2>1, ReadInside
<1> QED BY <1>2, <1>3, <1>4, <1>5 DEF Extracted, ExtractField

(* Fields that are not there are passed over. *)
LEMMA NoField ==
  ASSUME NEW p, AtFields(p), AfterId(p) \in Nat
  PROVE  /\ AtWillField(p) /\ p.will = <<>> => AtXor(p)
         /\ AtXor(p) /\ ((p.user # <<>>) = (p.pass # <<>>)) => AtUserField(p)
         /\ AtUserField(p) /\ p.user = <<>> /\ AfterWill(p) \in Nat => AtPassField(p)
         /\ AtPassField(p) /\ p.pass = <<>> /\ AfterUser(p) \in Nat => AtLastField(p)
<1>1. ASSUME AtWillField(p), p.will = <<>> PROVE AtXor(p)
  <2>1. WillFields(p) = XorFields(p) /\ AfterWill(p) = AfterId(p)
    BY <1>1 DEF WillFields, AfterWill, WillSize
  <2>2. {CF_CLIENT_ID} \cup WillKeys(p) = {CF_CLIENT_ID}
    BY <1>1 DEF WillKeys
  <2> QED BY <1>1, <2>1, <2>2 DEF AtWillField, AtXor
<1>2. ASSUME AtXor(p), (p.user # <<>>) = (p.pass # <<>>) PROVE AtUserField(p)
  <2>1. XorFields(p) = <<>> \o UserFields(p)
    BY <1>2 DEF XorFields, Item
  <2>2. XorPrinted(p) = FlagsPrinted(p) \o <<>>
    BY <1>2 DEF XorPrinted, Item
  <2> QED BY <1>2, <2>1, <2>2 DEF AtXor, AtUserField
<1>3. ASSUME AtUserField(p), p.user = <<>>, AfterWill(p) \in Nat PROVE AtPassField(p)
  <2>1. UserFields(p) = <<>> \o PassFields(p)
    BY <1>3 DEF UserFields, Item
  <2>2. AfterUser(p) = AfterWill(p)
    BY <1>3 DEF AfterUser, Size
  <2>3. {CF_CLIENT_ID} \cup WillKeys(p) \cup UserKeys(p) = {CF_CLIENT_ID} \cup WillKeys(p)
    BY <1>3 DEF UserKeys
  <2>4. Extracted(p, {CF_CLIENT_ID} \cup WillKeys(p) \cup UserKeys(p))
    BY <1>3, <2>3 DEF AtUserField
  <2> QED BY <1>3, <2>1, <2>2, <2>4 DEF AtUserField, AtPassField
<1>4. ASSUME AtPassField(p), p.pass = <<>>, AfterUser(p) \in Nat PROVE AtLastField(p)
  <2>1. PassFields(p) = <<>> /\ AfterPass(p) = AfterUser(p)
    BY <1>4 DEF PassFields, Item, AfterPass, Size
  <2>2. {CF_CLIENT_ID} \cup WillKeys(p) \cup UserKeys(p) \cup PassKeys(p)
          = {CF_CLIENT_ID} \cup WillKeys(p) \cup UserKeys(p)
    BY <1>4 DEF PassKeys
  <2> QED BY <1>4, <2>1, <2>2 DEF AtPassField, AtLastField
<1> QED BY <1>1, <1>2, <1>3, <1>4

(* What follows each field. *)
LEMMA ConnectNumbers ==
  ASSUME NEW p \in Packets, p.type = CONNECT
  PROVE  /\ AfterId(p) \in Nat /\ AfterWill(p) \in Nat /\ AfterUser(p) \in Nat
         /\ AfterPass(p) \in Nat
         /\ AfterId(p) = 14 + Len(p.id) /\ p.id \in Utf8
         /\ p.will # <<>> =>
              /\ p.will[1] \in [topic : Utf8, message : Binary]
              /\ AfterWill(p) = AfterId(p) + 4 + Len(p.will[1].topic) + Len(p.will[1].message)
         /\ p.user # <<>> => p.user[1] \in Utf8 /\ AfterUser(p) = AfterWill(p) + 2 + Len(p.user[1])
         /\ p.pass # <<>> => p.pass[1] \in Binary /\ AfterPass(p) = AfterUser(p) + 2 + Len(p.pass[1])
<1>1. /\ p.id \in Utf8 /\ p.will \in Maybe([topic : Utf8, message : Binary])
      /\ p.user \in Maybe(Utf8) /\ p.pass \in Maybe(Binary)
  BY ConnectParts
<1>2. \A s \in Seq(Nat) : Len(s) \in Nat
  OBVIOUS
<1>3. Binary \subseteq Seq(Nat) /\ Utf8 \subseteq Seq(Nat)
  BY Octets, Utf8Octets DEF Binary
<1>4. AfterId(p) \in Nat /\ AfterId(p) = 14 + Len(p.id)
  BY <1>1, <1>2, <1>3 DEF AfterId
<1>5. /\ AfterWill(p) \in Nat
      /\ p.will # <<>> =>
           /\ p.will[1] \in [topic : Utf8, message : Binary]
           /\ AfterWill(p) = AfterId(p) + 4 + Len(p.will[1].topic) + Len(p.will[1].message)
  <2>1. CASE p.will = <<>>
    BY <1>4, <2>1 DEF AfterWill, WillSize
  <2>2. CASE p.will # <<>>
    <3>1. p.will[1] \in [topic : Utf8, message : Binary]
      BY <1>1, <2>2, MaybeCases
    <3>2. PICK l \in Nat, m \in Nat : l = Len(p.will[1].topic) /\ m = Len(p.will[1].message)
      BY <1>2, <1>3, <3>1
    <3>3. AfterWill(p) = AfterId(p) + (4 + l + m)
      BY <2>2, <3>2 DEF AfterWill, WillSize
    <3>4. AfterWill(p) = AfterId(p) + 4 + l + m /\ AfterWill(p) \in Nat
      <4>1. PICK a \in Nat : a = AfterId(p)
        BY <1>4
      <4>2. a + (4 + l + m) = a + 4 + l + m /\ a + 4 + l + m \in Nat
        OBVIOUS
      <4> QED BY <3>3, <4>1, <4>2
    <3> QED BY <2>2, <3>1, <3>2, <3>4
  <2> QED BY <2>1, <2>2
<1>6. /\ AfterUser(p) \in Nat
      /\ p.user # <<>> => p.user[1] \in Utf8 /\ AfterUser(p) = AfterWill(p) + 2 + Len(p.user[1])
  <2>1. CASE p.user = <<>>
    BY <1>5, <2>1 DEF AfterUser, Size
  <2>2. CASE p.user # <<>>
    <3>1. p.user[1] \in Utf8
      BY <1>1, <2>2, MaybeCases
    <3>2. PICK l \in Nat : l = Len(p.user[1])
      BY <1>2, <1>3, <3>1
    <3>3. AfterUser(p) = AfterWill(p) + (2 + l)
      BY <2>2, <3>2 DEF AfterUser, Size
    <3>4. PICK a \in Nat : a = AfterWill(p)
      BY <1>5
    <3>5. a + (2 + l) = a + 2 + l /\ a + 2 + l \in Nat
      OBVIOUS
    <3> QED BY <2>2, <3>1, <3>2, <3>3, <3>4, <3>5
  <2> QED BY <2>1, <2>2
<1>7. /\ AfterPass(p) \in Nat
      /\ p.pass # <<>> => p.pass[1] \in Binary /\ AfterPass(p) = AfterUser(p) + 2 + Len(p.pass[1])
  <2>1. CASE p.pass = <<>>
    BY <1>6, <2>1 DEF AfterPass, Size
  <2>2. CASE p.pass # <<>>
    <3>1. p.pass[1] \in Binary
      BY <1>1, <2>2, MaybeCases
    <3>2. PICK l \in Nat : l = Len(p.pass[1])
      BY <1>2, <1>3, <3>1
    <3>3. AfterPass(p) = AfterUser(p) + (2 + l)
      BY <2>2, <3>2 DEF AfterPass, Size
    <3>4. PICK a \in Nat : a = AfterUser(p)
      BY <1>6
    <3>5. a + (2 + l) = a + 2 + l /\ a + 2 + l \in Nat
      OBVIOUS
    <3> QED BY <2>2, <3>1, <3>2, <3>3, <3>4, <3>5
  <2> QED BY <2>1, <2>2
<1> QED BY <1>1, <1>4, <1>5, <1>6, <1>7

LEMMA Texts ==
  ASSUME NEW p
  PROVE  /\ TextOf(p, CF_CLIENT_ID) = p.id
         /\ TextOf(p, CF_WILL_TOP) = p.will[1].topic
         /\ TextOf(p, CF_WILL_MSG) = p.will[1].message
         /\ TextOf(p, CF_USERNAME) = p.user[1]
         /\ TextOf(p, CF_PASSWORD) = p.pass[1]
BY DEF TextOf, CF_CLIENT_ID, CF_WILL_TOP, CF_WILL_MSG, CF_USERNAME, CF_PASSWORD


LEMMA IdFieldHead ==
  ASSUME TypeInv, NEW p \in Packet, AtHead(p), AtFields(p), AtIdField(p), ExtractField
  PROVE  AtWillField(p)' /\ behind' = 0 /\ pc' = pc
<1>1. p \in Packets /\ pktbuf \in Seq(Byte) /\ Holds(pktbuf, 2, Body(p)) /\ p.type = CONNECT
  BY HeadHolds DEF AtFields
<1>2. p.id \in Seq(Nat) /\ Holds(pktbuf, 12, Text(p.id)) /\ AfterId(p) = 14 + Len(p.id)
  BY <1>1, ConnectHolds, ConnectNumbers, Utf8Octets
<1>3. fields = <<CF_CLIENT_ID>> \o WillFields(p) /\ pos = 12 /\ Extracted(p, {}) /\ behind = 0
      /\ printed = FlagsPrinted(p)
  BY DEF AtFields, AtIdField, IdFields
<1>4. Head(fields) = CF_CLIENT_ID /\ Tail(fields) = WillFields(p) /\ CF_CLIENT_ID \in Nat
  BY <1>3, FieldRows, FieldNumbers, NextField
<1>5. Holds(pktbuf, pos, Text(p.id)) /\ TextOf(p, CF_CLIENT_ID) = p.id
  BY <1>2, <1>3, Texts
<1>6. /\ Extracted(p, {} \cup {CF_CLIENT_ID})' /\ pos' = pos + 2 + Len(p.id) /\ behind' = 0
      /\ fields' = Tail(fields) /\ printed' = printed /\ pc' = pc
  BY <1>2, <1>3, <1>4, <1>5, ExtractOne
<1>7. pos' = AfterId(p)
  BY <1>2, <1>3, <1>6
<1>8. {} \cup {CF_CLIENT_ID} = {CF_CLIENT_ID}
  OBVIOUS
<1>9. Extracted(p, {CF_CLIENT_ID})'
  BY <1>6, <1>8
<1> QED BY <1>3, <1>4, <1>6, <1>7, <1>9 DEF AtWillField

LEMMA WillFieldHead ==
  ASSUME TypeInv, NEW p \in Packet, AtHead(p), AtFields(p), AtWillField(p), p.will # <<>>,
         ExtractField
  PROVE  AtMsgField(p)' /\ behind' = 0 /\ pc' = pc
<1>1. p \in Packets /\ pktbuf \in Seq(Byte) /\ Holds(pktbuf, 2, Body(p)) /\ p.type = CONNECT
  BY HeadHolds DEF AtFields
<1>2. p.will[1].topic \in Seq(Nat) /\ Holds(pktbuf, AfterId(p), Text(p.will[1].topic))
  BY <1>1, ConnectHolds, ConnectNumbers, Utf8Octets
<1>3. fields = <<CF_WILL_TOP>> \o MsgFields(p) /\ pos = AfterId(p) /\ behind = 0
      /\ Extracted(p, {CF_CLIENT_ID}) /\ printed = FlagsPrinted(p)
  BY DEF AtFields, AtWillField, WillFields
<1>4. Head(fields) = CF_WILL_TOP /\ Tail(fields) = MsgFields(p) /\ CF_WILL_TOP \in Nat
  BY <1>3, FieldRows, FieldNumbers, NextField
<1>5. Holds(pktbuf, pos, Text(p.will[1].topic)) /\ TextOf(p, CF_WILL_TOP) = p.will[1].topic
  BY <1>2, <1>3, Texts
<1>6. /\ Extracted(p, {CF_CLIENT_ID} \cup {CF_WILL_TOP})'
      /\ pos' = pos + 2 + Len(p.will[1].topic) /\ behind' = 0
      /\ fields' = Tail(fields) /\ printed' = printed /\ pc' = pc
  BY <1>2, <1>3, <1>4, <1>5, ExtractOne
<1>7. {CF_CLIENT_ID} \cup {CF_WILL_TOP} = {CF_CLIENT_ID, CF_WILL_TOP}
  OBVIOUS
<1>8. Extracted(p, {CF_CLIENT_ID, CF_WILL_TOP})'
  BY <1>6, <1>7
<1> QED BY <1>3, <1>4, <1>6, <1>8 DEF AtMsgField

LEMMA MsgFieldHead ==
  ASSUME TypeInv, NEW p \in Packet, AtHead(p), AtFields(p), AtMsgField(p), ExtractField
  PROVE  AtXor(p)' /\ behind' = 0 /\ pc' = pc
<1>1. p \in Packets /\ pktbuf \in Seq(Byte) /\ Holds(pktbuf, 2, Body(p)) /\ p.type = CONNECT
      /\ p.will # <<>>
  BY HeadHolds DEF AtFields, AtMsgField
<1>2. /\ p.will[1].message \in Seq(Nat) /\ p.will[1].topic \in Seq(Nat)
      /\ Holds(pktbuf, AfterId(p) + 2 + Len(p.will[1].topic), Text(p.will[1].message))
      /\ AfterWill(p) = AfterId(p) + 4 + Len(p.will[1].topic) + Len(p.will[1].message)
      /\ AfterId(p) \in Nat
  BY <1>1, ConnectHolds, ConnectNumbers, Utf8Octets, Octets DEF Binary
<1>3. fields = <<CF_WILL_MSG>> \o XorFields(p) /\ behind = 0
      /\ pos = AfterId(p) + 2 + Len(p.will[1].topic)
      /\ Extracted(p, {CF_CLIENT_ID, CF_WILL_TOP}) /\ printed = FlagsPrinted(p)
  BY DEF AtFields, AtMsgField, MsgFields
<1>4. Head(fields) = CF_WILL_MSG /\ Tail(fields) = XorFields(p) /\ CF_WILL_MSG \in Nat
  BY <1>3, FieldRows, FieldNumbers, NextField
<1>5. Holds(pktbuf, pos, Text(p.will[1].message)) /\ TextOf(p, CF_WILL_MSG) = p.will[1].message
  BY <1>2, <1>3, Texts
<1>6. /\ Extracted(p, {CF_CLIENT_ID, CF_WILL_TOP} \cup {CF_WILL_MSG})'
      /\ pos' = pos + 2 + Len(p.will[1].message) /\ behind' = 0
      /\ fields' = Tail(fields) /\ printed' = printed /\ pc' = pc
  BY <1>2, <1>3, <1>4, <1>5, ExtractOne
<1>7. pos' = AfterWill(p)
  <2>1. PICK a \in Nat, l \in Nat, m \in Nat :
          a = AfterId(p) /\ l = Len(p.will[1].topic) /\ m = Len(p.will[1].message)
    BY <1>2
  <2>2. pos' = a + 2 + l + 2 + m /\ AfterWill(p) = a + 4 + l + m
    BY <1>2, <1>3, <1>6, <2>1
  <2> QED BY <2>2
<1>8. {CF_CLIENT_ID, CF_WILL_TOP} \cup {CF_WILL_MSG} = {CF_CLIENT_ID} \cup WillKeys(p)
  BY <1>1 DEF WillKeys
<1>9. Extracted(p, {CF_CLIENT_ID} \cup WillKeys(p))'
  BY <1>6, <1>8
<1> QED BY <1>3, <1>4, <1>6, <1>7, <1>9 DEF AtXor

LEMMA UserFieldHead ==
  ASSUME TypeInv, NEW p \in Packet, AtHead(p), AtFields(p), AtUserField(p), p.user # <<>>,
         ExtractField
  PROVE  AtPassField(p)' /\ behind' = 0 /\ pc' = pc
<1>1. p \in Packets /\ pktbuf \in Seq(Byte) /\ Holds(pktbuf, 2, Body(p)) /\ p.type = CONNECT
  BY HeadHolds DEF AtFields
<1>2. p.user[1] \in Seq(Nat) /\ Holds(pktbuf, AfterWill(p), Text(p.user[1]))
      /\ AfterUser(p) = AfterWill(p) + 2 + Len(p.user[1])
  BY <1>1, ConnectHolds, ConnectNumbers, Utf8Octets
<1>3. fields = <<CF_USERNAME>> \o PassFields(p) /\ pos = AfterWill(p) /\ behind = 0
      /\ Extracted(p, {CF_CLIENT_ID} \cup WillKeys(p)) /\ printed = XorPrinted(p)
  BY DEF AtFields, AtUserField, UserFields, Item
<1>4. Head(fields) = CF_USERNAME /\ Tail(fields) = PassFields(p) /\ CF_USERNAME \in Nat
  BY <1>3, FieldRows, FieldNumbers, NextField
<1>5. Holds(pktbuf, pos, Text(p.user[1])) /\ TextOf(p, CF_USERNAME) = p.user[1]
  BY <1>2, <1>3, Texts
<1>6. /\ Extracted(p, {CF_CLIENT_ID} \cup WillKeys(p) \cup {CF_USERNAME})'
      /\ pos' = pos + 2 + Len(p.user[1]) /\ behind' = 0
      /\ fields' = Tail(fields) /\ printed' = printed /\ pc' = pc
  BY <1>2, <1>3, <1>4, <1>5, ExtractOne
<1>7. Extracted(p, {CF_CLIENT_ID} \cup WillKeys(p) \cup UserKeys(p))'
  BY <1>6 DEF UserKeys
<1> QED BY <1>2, <1>3, <1>4, <1>6, <1>7 DEF AtPassField

LEMMA PassFieldHead ==
  ASSUME TypeInv, NEW p \in Packet, AtHead(p), AtFields(p), AtPassField(p), p.pass # <<>>,
         ExtractField
  PROVE  AtLastField(p)' /\ behind' = 0 /\ pc' = pc
<1>1. p \in Packets /\ pktbuf \in Seq(Byte) /\ Holds(pktbuf, 2, Body(p)) /\ p.type = CONNECT
  BY HeadHolds DEF AtFields
<1>2. p.pass[1] \in Seq(Nat) /\ Holds(pktbuf, AfterUser(p), Text(p.pass[1]))
      /\ AfterPass(p) = AfterUser(p) + 2 + Len(p.pass[1])
  BY <1>1, ConnectHolds, ConnectNumbers, Octets DEF Binary
<1>3. fields = <<CF_PASSWORD>> \o <<>> /\ pos = AfterUser(p) /\ behind = 0
      /\ Extracted(p, {CF_CLIENT_ID} \cup WillKeys(p) \cup UserKeys(p))
      /\ printed = XorPrinted(p)
  BY DEF AtFields, AtPassField, PassFields, Item
<1>4. Head(fields) = CF_PASSWORD /\ Tail(fields) = <<>> /\ CF_PASSWORD \in Nat
  BY <1>3, FieldNumbers, NextField
<1>5. Holds(pktbuf, pos, Text(p.pass[1])) /\ TextOf(p, CF_PASSWORD) = p.pass[1]
  BY <1>2, <1>3, Texts
<1>6. /\ Extracted(p, {CF_CLIENT_ID} \cup WillKeys(p) \cup UserKeys(p) \cup {CF_PASSWORD})'
      /\ pos' = pos + 2 + Len(p.pass[1]) /\ behind' = 0
      /\ fields' = Tail(fields) /\ printed' = printed /\ pc' = pc
  BY <1>2, <1>3, <1>4, <1>5, ExtractOne
<1>7. Extracted(p, {CF_CLIENT_ID} \cup WillKeys(p) \cup UserKeys(p) \cup PassKeys(p))'
  BY <1>6 DEF PassKeys
<1> QED BY <1>2, <1>3, <1>4, <1>6, <1>7 DEF AtLastField

(* The field that comes first is one of those that are there. *)
FirstIs(k) == fields # <<>> /\ Head(fields) = k

LEMMA FirstField ==
  ASSUME NEW p \in Packets, AtFields(p)
  PROVE  \/ AtIdField(p) /\ FirstIs(CF_CLIENT_ID)
         \/ AtWillField(p) /\ p.will # <<>> /\ FirstIs(CF_WILL_TOP)
         \/ AtMsgField(p) /\ FirstIs(CF_WILL_MSG)
         \/ AtXor(p) /\ ((p.user # <<>>) # (p.pass # <<>>)) /\ FirstIs(UserXorPass)
         \/ AtUserField(p) /\ p.user # <<>> /\ FirstIs(CF_USERNAME)
         \/ AtPassField(p) /\ p.pass # <<>> /\ FirstIs(CF_PASSWORD)
         \/ AtLastField(p) /\ fields = <<>>
<1>0. AfterId(p) \in Nat /\ AfterWill(p) \in Nat /\ AfterUser(p) \in Nat
  BY ConnectNumbers DEF AtFields
<1>a. \A k \in Nat, s \in Seq(Nat) : fields = <<k>> \o s => FirstIs(k)
  BY NextField DEF FirstIs
<1>1. CASE AtIdField(p)
  <2>1. fields = <<CF_CLIENT_ID>> \o WillFields(p)
    BY <1>1 DEF AtIdField, IdFields
  <2> QED BY <1>1, <1>a, <2>1, FieldRows, FieldNumbers
<1>2. CASE AtMsgField(p)
  <2>1. fields = <<CF_WILL_MSG>> \o XorFields(p)
    BY <1>2 DEF AtMsgField, MsgFields
  <2> QED BY <1>2, <1>a, <2>1, FieldRows, FieldNumbers
<1>3. CASE AtLastField(p)
  BY <1>3 DEF AtLastField
<1>4. CASE AtPassField(p)
  <2>1. CASE p.pass = <<>>
    BY <1>0, <1>3, <1>4, <2>1, NoField
  <2>2. CASE p.pass # <<>>
    <3>1. fields = <<CF_PASSWORD>> \o <<>>
      BY <1>4, <2>2 DEF AtPassField, PassFields, Item
    <3>2. <<>> \in Seq(Nat)
      OBVIOUS
    <3> QED BY <1>4, <1>a, <2>2, <3>1, <3>2, FieldNumbers
  <2> QED BY <2>1, <2>2
<1>5. CASE AtUserField(p)
  <2>1. CASE p.user = <<>>
    BY <1>0, <1>4, <1>5, <2>1, NoField
  <2>2. CASE p.user # <<>>
    <3>1. fields = <<CF_USERNAME>> \o PassFields(p)
      BY <1>5, <2>2 DEF AtUserField, UserFields, Item
    <3> QED BY <1>5, <1>a, <2>2, <3>1, FieldRows, FieldNumbers
  <2> QED BY <2>1, <2>2
<1>6. CASE AtXor(p)
  <2>1. CASE (p.user # <<>>) = (p.pass # <<>>)
    BY <1>0, <1>5, <1>6, <2>1, NoField
  <2>2. CASE (p.user # <<>>) # (p.pass # <<>>)
    <3>1. fields = <<UserXorPass>> \o UserFields(p)
      BY <1>6, <2>2 DEF AtXor, XorFields, Item
    <3> QED BY <1>6, <1>a, <2>2, <3>1, FieldRows, FieldNumbers
  <2> QED BY <2>1, <2>2
<1>7. CASE AtWillField(p)
  <2>1. CASE p.will = <<>>
    BY <1>0, <1>6, <1>7, <2>1, NoField
  <2>2. CASE p.will # <<>>
    <3>1. fields = <<CF_WILL_TOP>> \o MsgFields(p)
      BY <1>7, <2>2 DEF AtWillField, WillFields
    <3> QED BY <1>7, <1>a, <2>2, <3>1, FieldRows, FieldNumbers
  <2> QED BY <2>1, <2>2
<1> QED BY <1>1, <1>2, <1>3, <1>4, <1>5, <1>6, <1>7 DEF AtFields

LEMMA ExtractHead ==
  ASSUME TypeInv, NEW p \in Packet, AtHead(p), HeadInv(p), ExtractField
  PROVE  HeadInv(p)'
<1>1. pc = "fields" /\ AtFields(p) /\ fields # <<>> /\ Head(fields) # UserXorPass /\ p \in Packets
  BY HeadHolds DEF ExtractField, HeadInv
<1>2. \/ AtIdField(p) \/ (AtWillField(p) /\ p.will # <<>>) \/ AtMsgField(p)
      \/ (AtUserField(p) /\ p.user # <<>>) \/ (AtPassField(p) /\ p.pass # <<>>)
  BY <1>1, FirstField DEF FirstIs
<1>3. /\ AtWillField(p)' \/ AtMsgField(p)' \/ AtXor(p)' \/ AtPassField(p)' \/ AtLastField(p)'
      /\ behind' = 0 /\ pc' = pc
  BY <1>1, <1>2, IdFieldHead, WillFieldHead, MsgFieldHead, UserFieldHead, PassFieldHead
<1> QED BY <1>1, <1>3 DEF HeadInv, AtFields

LEMMA XorHead ==
  ASSUME TypeInv, NEW p \in Packet, AtHead(p), HeadInv(p), ReportUserXorPass
  PROVE  HeadInv(p)'
<1>1. /\ pc = "fields" /\ AtFields(p) /\ fields # <<>> /\ Head(fields) = UserXorPass
      /\ p \in Packets /\ pc' = pc
  BY HeadHolds DEF ReportUserXorPass, HeadInv
<1>2. AtXor(p) /\ ((p.user # <<>>) # (p.pass # <<>>))
  BY <1>1, FirstField, FieldNumbers DEF FirstIs
<1>3. fields = <<UserXorPass>> \o UserFields(p)
  BY <1>2 DEF AtXor, XorFields, Item
<1>4. fields' = UserFields(p)
  <2>1. UserFields(p) \in Seq(Nat) /\ UserXorPass \in Nat
    BY FieldRows, FieldNumbers
  <2>2. Tail(fields) = UserFields(p)
    BY <1>3, <2>1, NextField
  <2> QED BY <2>2 DEF ReportUserXorPass
<1>5. printed' = XorPrinted(p)
  BY <1>2 DEF ReportUserXorPass, Report, AtXor, XorPrinted, Item
<1>6. pos' = AfterWill(p) /\ Extracted(p, {CF_CLIENT_ID} \cup WillKeys(p))' /\ behind' = 0
  BY <1>1, <1>2 DEF ReportUserXorPass, AtXor, Extracted, AtFields
<1>7. AtUserField(p)'
  BY <1>4, <1>5, <1>6 DEF AtUserField
<1> QED BY <1>1, <1>6, <1>7 DEF HeadInv, AtFields

LEMMA FlattenOne ==
  ASSUME NEW x
  PROVE  FlattenSeq(<<x>>) = x
<1>1. PICK s, u : s = <<x>> /\ u = UpTo(s)
  OBVIOUS
<1>2. Len(s) = 1 /\ s[1] = x
  BY <1>1
<1>3. IsUpTo(s, 1, u)
  <2>1. \E f : IsUpTo(s, 1, f)
    BY UpToExists
  <2> QED BY <1>1, <1>2, <2>1 DEF IsUpTo, UpTo
<1>4. u[1] = x
  BY <1>2, <1>3 DEF IsUpTo
<1>5. FlattenSeq(s) = u[1]
  BY <1>1, <1>2 DEF FlattenSeq, UpTo
<1> QED BY <1>1, <1>4, <1>5

LEMMA FlattenNone == FlattenSeq(<<>>) = <<>>
BY DEF FlattenSeq

LEMMA FieldsPrinted ==
  ASSUME NEW p \in Packets, p.type = CONNECT,
         Extracted(p, {CF_CLIENT_ID} \cup WillKeys(p) \cup UserKeys(p) \cup PassKeys(p))
  PROVE  /\ Field(CF_CLIENT_ID) = <<<<"field", CF_CLIENT_ID, p.id>>>>
         /\ Field(CF_WILL_TOP) \o Field(CF_WILL_MSG)
              = FlattenSeq([i \in DOMAIN p.will |->
                              <<<<"field", CF_WILL_TOP, p.will[i].topic>>,
                                <<"field", CF_WILL_MSG, AsText(p.will[i].message)>>>>])
         /\ Field(CF_PASSWORD) = [i \in DOMAIN p.pass |-> <<"field", CF_PASSWORD, AsText(p.pass[i])>>]
         /\ Field(CF_USERNAME) = [i \in DOMAIN p.user |-> <<"field", CF_USERNAME, p.user[i]>>]
<1> DEFINE keys == {CF_CLIENT_ID} \cup WillKeys(p) \cup UserKeys(p) \cup PassKeys(p)
<1>1. DOMAIN info = keys /\ \A k \in keys : info[k] = AsText(TextOf(p, k))
  BY DEF Extracted
<1>2. /\ CF_CLIENT_ID \in keys
      /\ (CF_WILL_TOP \in keys) <=> p.will # <<>>
      /\ (CF_WILL_MSG \in keys) <=> p.will # <<>>
      /\ (CF_USERNAME \in keys) <=> p.user # <<>>
      /\ (CF_PASSWORD \in keys) <=> p.pass # <<>>
  BY FieldNumbers DEF WillKeys, UserKeys, PassKeys
<1>3. \A k : Field(k) = IF k \in keys THEN <<<<"field", k, AsText(TextOf(p, k))>>>> ELSE <<>>
  BY <1>1 DEF Field, Item
<1>4. /\ p.id \in Utf8 /\ p.will \in Maybe([topic : Utf8, message : Binary])
      /\ p.user \in Maybe(Utf8) /\ p.pass \in Maybe(Binary)
  BY ConnectParts
<1> HIDE DEF keys
<1>5. Field(CF_CLIENT_ID) = <<<<"field", CF_CLIENT_ID, p.id>>>>
  BY <1>2, <1>3, <1>4, NoNul, Texts
<1>6. Field(CF_PASSWORD) = [i \in DOMAIN p.pass |-> <<"field", CF_PASSWORD, AsText(p.pass[i])>>]
  <2>1. CASE p.pass = <<>>
    BY <1>2, <1>3, <2>1
  <2>2. CASE p.pass # <<>>
    <3>1. DOMAIN p.pass = 1 .. 1
      BY <1>4, <2>2, MaybeCases
    <3>2. PICK f : f = [i \in 1 .. 1 |-> <<"field", CF_PASSWORD, AsText(p.pass[i])>>]
      OBVIOUS
    <3>3. f = <<f[1]>> /\ f[1] = <<"field", CF_PASSWORD, AsText(p.pass[1])>>
      BY <3>2, OneItem
    <3>4. Field(CF_PASSWORD) = <<<<"field", CF_PASSWORD, AsText(p.pass[1])>>>>
      BY <1>2, <1>3, <2>2, Texts
    <3> QED BY <3>1, <3>2, <3>3, <3>4
  <2> QED BY <2>1, <2>2
<1>7. Field(CF_USERNAME) = [i \in DOMAIN p.user |-> <<"field", CF_USERNAME, p.user[i]>>]
  <2>1. CASE p.user = <<>>
    BY <1>2, <1>3, <2>1
  <2>2. CASE p.user # <<>>
    <3>1. DOMAIN p.user = 1 .. 1 /\ p.user[1] \in Utf8
      BY <1>4, <2>2, MaybeCases
    <3>2. PICK f : f = [i \in 1 .. 1 |-> <<"field", CF_USERNAME, p.user[i]>>]
      OBVIOUS
    <3>3. f = <<f[1]>> /\ f[1] = <<"field", CF_USERNAME, p.user[1]>>
      BY <3>2, OneItem
    <3>4. Field(CF_USERNAME) = <<<<"field", CF_USERNAME, p.user[1]>>>>
      BY <1>2, <1>3, <2>2, <3>1, NoNul, Texts
    <3> QED BY <3>1, <3>2, <3>3, <3>4
  <2> QED BY <2>1, <2>2
<1>8. Field(CF_WILL_TOP) \o Field(CF_WILL_MSG)
        = FlattenSeq([i \in DOMAIN p.will |->
                        <<<<"field", CF_WILL_TOP, p.will[i].topic>>,
                          <<"field", CF_WILL_MSG, AsText(p.will[i].message)>>>>])
  <2>1. CASE p.will = <<>>
    <3>1. PICK f : f = [i \in DOMAIN p.will |->
                          <<<<"field", CF_WILL_TOP, p.will[i].topic>>,
                            <<"field", CF_WILL_MSG, AsText(p.will[i].message)>>>>]
      OBVIOUS
    <3>3. f = <<>>
      BY <2>1, <3>1
    <3>2. Field(CF_WILL_TOP) = <<>> /\ Field(CF_WILL_MSG) = <<>>
      BY <1>2, <1>3, <2>1
    <3>4. FlattenSeq(f) = <<>> \o <<>>
      BY <3>3, FlattenNone
    <3> QED BY <3>1, <3>2, <3>4
  <2>2. CASE p.will # <<>>
    <3>0. DOMAIN p.will = 1 .. 1 /\ p.will[1] \in [topic : Utf8, message : Binary]
      BY <1>4, <2>2, MaybeCases
    <3>1. DOMAIN p.will = 1 .. 1 /\ p.will[1].topic \in Utf8
      BY <3>0
    <3>2. PICK a, b : /\ a = <<"field", CF_WILL_TOP, p.will[1].topic>>
                      /\ b = <<"field", CF_WILL_MSG, AsText(p.will[1].message)>>
      OBVIOUS
    <3>3. PICK f : f = [i \in 1 .. 1 |->
                          <<<<"field", CF_WILL_TOP, p.will[i].topic>>,
                            <<"field", CF_WILL_MSG, AsText(p.will[i].message)>>>>]
      OBVIOUS
    <3>4. f[1] = <<a, b>>
      BY <3>2, <3>3
    <3>5. f = <<f[1]>>
      BY <3>3, OneItem
    <3>6. FlattenSeq(f) = <<a, b>>
      BY <3>4, <3>5, FlattenOne
    <3>7. Field(CF_WILL_TOP) = <<a>> /\ Field(CF_WILL_MSG) = <<b>>
      BY <1>2, <1>3, <2>2, <3>1, <3>2, NoNul, Texts
    <3>8. <<a, b>> = <<a>> \o <<b>>
      BY TwoInARow
    <3> QED BY <3>1, <3>3, <3>6, <3>7, <3>8
  <2> QED BY <2>1, <2>2
<1> QED BY <1>5, <1>6, <1>7, <1>8

LEMMA PrintFieldsHead ==
  ASSUME TypeInv, NEW p \in Packet, AtHead(p), HeadInv(p), PrintFields
  PROVE  HeadInv(p)'
<1>1. pc = "fields" /\ AtFields(p) /\ fields = <<>> /\ p \in Packets /\ pc' = "id"
      /\ p.type = CONNECT /\ behind = 0
  BY HeadHolds DEF PrintFields, HeadInv, AtFields
<1>2. AtLastField(p)
  BY <1>1, FirstField DEF FirstIs
<1>3. PICK c, w, t, m, r, u :
        /\ c = Field(CF_CLIENT_ID) /\ t = Field(CF_WILL_TOP) /\ m = Field(CF_WILL_MSG)
        /\ r = Field(CF_PASSWORD) /\ u = Field(CF_USERNAME) /\ w = t \o m
  OBVIOUS
<1>4. printed' = printed \o (c \o w \o r \o u)
  <2>1. printed' = printed \o (Field(CF_CLIENT_ID) \o Field(CF_WILL_TOP) \o Field(CF_WILL_MSG)
                               \o Field(CF_PASSWORD) \o Field(CF_USERNAME))
    BY DEF PrintFields, Report
  <2>2. printed' = printed \o (c \o t \o m \o r \o u)
    BY <1>3, <2>1
  <2>3. c \o t \o m \o r \o u = c \o (t \o m) \o r \o u
    BY SMTT(20)
  <2> QED BY <1>3, <2>2, <2>3
<1>5. FieldsPrintedOf(p) = c \o w \o r \o u
  <2>1. Extracted(p, {CF_CLIENT_ID} \cup WillKeys(p) \cup UserKeys(p) \cup PassKeys(p))
    BY <1>2 DEF AtLastField
  <2>2. /\ c = <<<<"field", CF_CLIENT_ID, p.id>>>>
        /\ w = FlattenSeq([i \in DOMAIN p.will |->
                             <<<<"field", CF_WILL_TOP, p.will[i].topic>>,
                               <<"field", CF_WILL_MSG, AsText(p.will[i].message)>>>>])
        /\ r = [i \in DOMAIN p.pass |-> <<"field", CF_PASSWORD, AsText(p.pass[i])>>]
        /\ u = [i \in DOMAIN p.user |-> <<"field", CF_USERNAME, p.user[i]>>]
    BY <1>1, <1>3, <2>1, FieldsPrinted
  <2> QED BY <2>2 DEF FieldsPrintedOf
<1>6. printed = XorPrinted(p)
  BY <1>2 DEF AtLastField
<1>8. printed' = ConnectPrinted(p)
  BY <1>4, <1>5, <1>6 DEF ConnectPrinted
<1>9. AtId(p)'
  <2>1. ~ (p.type \in MQTT_CTRL_EXPECTS_ID) /\ p.type # PUBACK /\ p.type # PUBLISH
    BY <1>1 DEF MQTT_CTRL_EXPECTS_ID, CONNECT, PUBLISH, PUBACK, PUBREC, PUBREL, PUBCOMP,
                SUBSCRIBE, SUBACK, UNSUBSCRIBE, UNSUBACK
  <2>2. Printed(p)' = ConnectPrinted(p) /\ behind' = 0
    BY <1>1, <2>1 DEF Printed, PrintFields
  <2> QED BY <1>8, <2>1, <2>2 DEF AtId
<1> QED BY <1>1, <1>9 DEF HeadInv

-----------------------------------------------------------------------------
(* The invariants hold at the beginning, and every step keeps them. *)

LEMMA PrintedRow ==
  ASSUME Row(printed), [Next \/ Done]_vars
  PROVE  Row(printed')
<1>0. \A x : Row(<<x>>) /\ \A c : Row(Item(c, x))
  BY RowItem
<1>1. ASSUME NEW items, Row(items), Report(items) PROVE Row(printed')
  BY <1>1, RowConcat DEF Report
<1>2. CASE on_server_data
  BY <1>0, <1>1, <1>2 DEF on_server_data
<1>3. CASE ReadType
  <2>1. \A k : Row(dumpMQTTType(k))
    BY <1>0, RowConcat DEF dumpMQTTType
  <2>2. \A b : Row(dumpFlags(b))
    BY <1>0, RowConcat DEF dumpFlags
  <2>3. PICK a, b : Report(a \o b) /\ Row(a) /\ Row(b)
    BY <1>0, <1>3, <2>1, <2>2, RowItem DEF ReadType
  <2> QED BY <1>1, <2>3, RowConcat
<1>4. CASE ReadLength
  <2>1. PICK a, b : Report(a \o b) /\ Row(a) /\ Row(b)
    BY <1>0, <1>4 DEF ReadLength
  <2> QED BY <1>1, <2>1, RowConcat
<1>5. CASE ParseConnect
  BY <1>0, <1>1, <1>5 DEF ParseConnect, mqtt_dump_ctrl_connect_header
<1>6. CASE ReportUserXorPass
  BY <1>0, <1>1, <1>6 DEF ReportUserXorPass
<1>7. CASE PrintFields
  <2>1. \A k : Row(Field(k))
    BY <1>0 DEF Field
  <2>2. PICK a, b, c, d, e :
          Report(a \o b \o c \o d \o e) /\ Row(a) /\ Row(b) /\ Row(c) /\ Row(d) /\ Row(e)
    BY <1>7, <2>1 DEF PrintFields
  <2> QED BY <1>1, <2>2, RowConcat
<1>8. CASE ParsePublish
  <2>1. PICK s, pktID, start :
          Report(  <<<<"qos", qos>>>>
                \o Item(HasPublishId, <<"id", pktID>>)
                \o Item(pktlen - start >= 0, <<"topic", Contents(s)>>)
                \o Item(pktlen - start >= 0 /\ dump_payloads,
                        <<"payload", AsText(SubSeq(pktbuf, start + 1, pktlen))>>))
    BY <1>8 DEF ParsePublish
  <2> DEFINE a == <<<<"qos", qos>>>>
             b == Item(HasPublishId, <<"id", pktID>>)
             c == Item(pktlen - start >= 0, <<"topic", Contents(s)>>)
             d == Item(pktlen - start >= 0 /\ dump_payloads,
                       <<"payload", AsText(SubSeq(pktbuf, start + 1, pktlen))>>)
  <2>2. Row(a)
    BY <1>0
  <2>3. Row(b) /\ Row(c) /\ Row(d)
    BY RowItem DEF Item
  <2>4. Report(a \o b \o c \o d)
    BY <2>1
  <2> HIDE DEF a, b, c, d
  <2>5. Row(a \o b \o c \o d)
    BY <2>2, <2>3, RowConcat
  <2> QED BY <1>1, <2>4, <2>5
<1>9. CASE ParseFilter
  <2>1. PICK x : Report(<<x>>)
    BY <1>9 DEF ParseFilter
  <2> QED BY <1>0, <1>1, <2>1
<1>10. CASE ParseSuback
  <2>1. PICK x : Report(<<x>>)
    BY <1>10 DEF ParseSuback
  <2> QED BY <1>0, <1>1, <2>1
<1>11. CASE ParsePacketId
  BY <1>0, <1>1, <1>11 DEF ParsePacketId
<1>12. CASE UNCHANGED printed
  BY <1>12
<1> QED BY <1>2, <1>3, <1>4, <1>5, <1>6, <1>7, <1>8, <1>9, <1>10, <1>11, <1>12
        DEF Next, Step, Done, vars, on_client_data, ExtractField, SkipId, SkipBody, Segfault

LEMMA InitI == Init => IInv /\ Row(printed)
<1> SUFFICES ASSUME Init PROVE IInv /\ Row(printed)
  OBVIOUS
<1>1. TypeInv
  BY InitType
<1>2. pc = "callback" /\ printed = <<>>
  BY DEF Init
<1>3. Start
  BY DEF Init, Start, NoInfo
<1>4. Row(printed)
  BY <1>2, RowItem
<1> QED BY <1>1, <1>2, <1>3, <1>4 DEF IInv, TypeRead, HeadInv

LEMMA CallbackStart ==
  ASSUME pc \in {"callback", "type"} => Start, on_client_data \/ on_server_data,
         pc' \in {"callback", "type"}
  PROVE  Start'
<1>1. Start
  BY DEF on_client_data, on_server_data
<1>2. CASE on_client_data
  BY <1>1, <1>2 DEF on_client_data, Start, NoInfo
<1>3. CASE on_server_data
  <2>1. pktlen # 0
    BY <1>3 DEF on_server_data
  <2>2. printed' = <<>> \o <<>>
    BY <1>1, <1>3, <2>1 DEF on_server_data, Report, Item, Start
  <2>3. printed' = <<>>
    BY <2>2
  <2>4. UNCHANGED <<pos, rlen, mult, info, behind>>
    BY <1>3 DEF on_server_data
  <2> QED BY <1>1, <2>3, <2>4 DEF Start, NoInfo
<1> QED BY <1>2, <1>3

LEMMA SegfaultHead ==
  ASSUME IInv, NEW p \in Parsed, AtHead(p), Covered(p), Segfault
  PROVE  FALSE
<1>1. HeadInv(p) /\ behind > Slack /\ pc \notin Final /\ TypeInv
  BY DEF IInv, Segfault
<1>2. behind = 0
  <2>1. pc \in {"callback", "type", "length", "body", "fields", "filters", "id"}
    BY <1>1 DEF TypeInv, TypeOK
  <2> QED BY <1>1, <2>1 DEF HeadInv, Start, AtLength, AtBody, AtFields, AtFilters, AtId
<1> QED BY <1>1, <1>2, SlackAssumption

(* The actions behind the first byte. *)
Later ==
  \/ ReadLength \/ ParseConnect \/ ReportUserXorPass \/ ExtractField \/ PrintFields
  \/ ParsePublish \/ SkipId \/ ParseFilter \/ ParseSuback \/ SkipBody \/ ParsePacketId

LEMMA LaterHead ==
  ASSUME IInv, Row(printed), NEW p \in Parsed, AtHead(p), Covered(p), Later
  PROVE  HeadInv(p)'
<1>1. TypeInv /\ TypeRead(p) /\ HeadInv(p) /\ p \in Packet
  BY DEF IInv, Parsed
<1>2. CASE ParseFilter
  <2>1. pc = "filters" /\ AtFilters(p)
    BY <1>1, <1>2 DEF ParseFilter, HeadInv
  <2>2. p.type = SUBSCRIBE \/ p.type = UNSUBSCRIBE
    BY <2>1 DEF AtFilters
  <2> QED BY <1>1, <1>2, <2>2, SubscribeFilterHead, UnsubscribeFilterHead
<1>3. CASE ReadLength
  BY <1>1, <1>3, ReadLengthHead
<1>4. CASE ParseConnect \/ ReportUserXorPass \/ ExtractField \/ PrintFields
  BY <1>1, <1>4, ConnectHead, XorHead, ExtractHead, PrintFieldsHead
<1>5. CASE ParsePublish
  BY <1>1, <1>5, PublishHead
<1>6. CASE SkipId \/ ParseSuback
  BY <1>1, <1>6, SkipIdHead, SubackHead
<1>7. CASE SkipBody \/ ParsePacketId
  BY <1>1, <1>7, SkipBodyHead, PacketIdHead
<1> QED BY <1>2, <1>3, <1>4, <1>5, <1>6, <1>7 DEF Later

LEMMA LaterType ==
  ASSUME Later \/ Segfault
  PROVE  /\ UNCHANGED <<pktbuf, type, qos>> /\ pc' \notin {"callback", "type"}
         /\ Later => pc \notin {"callback", "type"}
<1>1. CASE ReadLength
  BY <1>1 DEF ReadLength, Header!ReadLength
<1>2. CASE ParsePublish
  <2>1. pc' \in {"id", "killed", "thrown"}
    BY <1>2 DEF ParsePublish
  <2> QED BY <1>2, <2>1 DEF ParsePublish
<1>3. CASE ParseFilter
  <2>1. pc' \in {"filters", "id"}
    BY <1>3 DEF ParseFilter
  <2> QED BY <1>3, <2>1 DEF ParseFilter
<1>4. CASE Segfault
  BY <1>4 DEF Segfault, Later, Final, ReadLength, Header!ReadLength, ParseConnect,
     ReportUserXorPass, ExtractField, PrintFields, ParsePublish, SkipId, ParseFilter,
     ParseSuback, SkipBody, ParsePacketId
<1> QED BY <1>1, <1>2, <1>3, <1>4
        DEF Later, ParseConnect, ReportUserXorPass, ExtractField, PrintFields, SkipId,
            ParseSuback, SkipBody, ParsePacketId

LEMMA NextI == ASSUME IInv, Row(printed), [Next \/ Done]_vars PROVE IInv'
<1>1. TypeInv /\ TypeInv'
  BY NextType DEF IInv
<1>2. CASE on_client_data \/ on_server_data
  <2>1. UNCHANGED pktbuf /\ (pc' \in {"callback", "type"} => Start')
    BY <1>2, CallbackStart DEF IInv, on_client_data, on_server_data
  <2>2. ASSUME NEW p \in Parsed, AtHead(p)
        PROVE  TypeRead(p)' /\ HeadInv(p)'
    <3>1. HeadInv(p)' /\ pc' = "type"
      BY <1>1, <1>2, <2>2, CallbackHead DEF IInv, Parsed
    <3> QED BY <3>1 DEF TypeRead
  <2> QED BY <1>1, <2>1, <2>2 DEF IInv, AtHead
<1>3. CASE ReadType
  <2>1. UNCHANGED pktbuf /\ pc' = "length"
    BY <1>3 DEF ReadType, Header!ReadType
  <2>2. ASSUME NEW p \in Parsed, AtHead(p)
        PROVE  TypeRead(p)' /\ HeadInv(p)'
    BY <1>1, <1>3, <2>2, ReadTypeHead DEF IInv, Parsed
  <2> QED BY <1>1, <2>1, <2>2 DEF IInv, AtHead
<1>4. CASE Later
  <2>1. /\ UNCHANGED <<pktbuf, type, qos>> /\ pc' \notin {"callback", "type"}
        /\ pc \notin {"callback", "type"}
    BY <1>4, LaterType
  <2>2. ASSUME NEW p \in Parsed, AtHead(p)
        PROVE  TypeRead(p)' /\ (Covered(p) => HeadInv(p)')
    <3>1. TypeRead(p)
      BY <2>2 DEF IInv
    <3> QED BY <1>4, <2>1, <2>2, <3>1, LaterHead DEF TypeRead
  <2>3. \A p \in Parsed : AtHead(p)' => AtHead(p) /\ (Covered(p)' => Covered(p))
    BY <2>1 DEF AtHead, Covered
  <2> QED BY <1>1, <2>1, <2>2, <2>3 DEF IInv
<1>5. CASE Segfault
  <2>1. /\ UNCHANGED <<pktbuf, type, qos>> /\ pc' \notin {"callback", "type"}
    BY <1>5, LaterType
  <2>2. pc \notin {"callback", "type"}
    BY <1>5, SlackAssumption DEF IInv, Segfault, Start
  <2>3. ASSUME NEW p \in Parsed, AtHead(p)
        PROVE  TypeRead(p)' /\ (Covered(p) => HeadInv(p)')
    <3>1. TypeRead(p) /\ ~ Covered(p)
      BY <1>5, <2>3, SegfaultHead DEF IInv
    <3> QED BY <2>1, <2>2, <3>1 DEF TypeRead
  <2>4. \A p \in Parsed : AtHead(p)' => AtHead(p) /\ (Covered(p)' => Covered(p))
    BY <2>1 DEF AtHead, Covered
  <2> QED BY <1>1, <2>1, <2>3, <2>4 DEF IInv
<1>6. CASE UNCHANGED vars
  <2>1. UNCHANGED <<pktbuf, pos, rlen, mult, pc, type, qos, fields, info, behind, printed>>
    BY <1>6 DEF vars, header
  <2>2. Start' = Start
    BY <2>1 DEF Start, NoInfo
  <2>3. ASSUME NEW p
        PROVE  /\ TypeRead(p) => TypeRead(p)'
               /\ (AtHead(p)' => AtHead(p)) /\ (Covered(p)' => Covered(p))
    BY <2>1 DEF TypeRead, AtHead, Covered
  <2>4. ASSUME NEW p, HeadInv(p) PROVE HeadInv(p)'
    <3>1. pktlen' = pktlen
      BY <2>1 DEF pktlen, Header!pktlen
    <3>2. \A k : Extracted(p, k)' = Extracted(p, k)
      BY <2>1 DEF Extracted
    <3>3. AtFields(p)' = AtFields(p)
      BY <2>1, <3>2 DEF AtFields, AtIdField, AtWillField, AtMsgField, AtXor, AtUserField,
                        AtPassField, AtLastField
    <3>4. AtLength(p)' = AtLength(p) /\ AtBody(p)' = AtBody(p) /\ AtFilters(p)' = AtFilters(p)
      BY <2>1 DEF AtLength, AtBody, AtFilters, NoInfo
    <3>5. Printed(p)' = Printed(p)
      BY <2>1, <3>1 DEF Printed, PublishPrinted
    <3>6. AtId(p)' = AtId(p) /\ AtEnd(p)' = AtEnd(p)
      BY <2>1, <3>5 DEF AtId, AtEnd
    <3> QED BY <2>1, <2>2, <2>4, <3>3, <3>4, <3>6 DEF HeadInv
  <2> QED BY <1>1, <2>1, <2>2, <2>3, <2>4 DEF IInv
<1> QED BY <1>2, <1>3, <1>4, <1>5, <1>6 DEF Next, Step, Done, Later

LEMMA Invariant == Spec => [](IInv /\ Row(printed))
<1>1. Init => IInv /\ Row(printed)
  BY InitI
<1>2. IInv /\ Row(printed) /\ [Next \/ Done]_vars => (IInv /\ Row(printed))'
  <2>1. ASSUME IInv, Row(printed), [Next \/ Done]_vars PROVE IInv' /\ Row(printed')
    BY <2>1, NextI, PrintedRow
  <2>2. Row(printed)' = Row(printed')
    BY DEF Row
  <2> QED BY <2>1, <2>2
<1> QED BY <1>1, <1>2, PTL DEF Spec

-----------------------------------------------------------------------------
(* A text that begins with another is printed as one that does so as well. *)

FirstNul(s) == SelectInSeq(s, LAMBDA b : b = 0)

LEMMA FirstNulIs ==
  ASSUME NEW s \in Seq(Nat)
  PROVE  \/ /\ FirstNul(s) = 0
            /\ \A i \in 1 .. Len(s) : s[i] # 0
            /\ AsText(s) = s
         \/ /\ FirstNul(s) \in 1 .. Len(s) /\ s[FirstNul(s)] = 0
            /\ \A i \in 1 .. Len(s) : s[i] = 0 => FirstNul(s) <= i
            /\ AsText(s) = SubSeq(s, 1, FirstNul(s) - 1)
<1> DEFINE I == {i \in 1 .. Len(s) : s[i] = 0}
<1>1. FirstNul(s) = IF I # {} THEN Min(I) ELSE 0
  BY DEF FirstNul, SelectInSeq
<1>2. AsText(s) = IF FirstNul(s) = 0 THEN s ELSE SubSeq(s, 1, FirstNul(s) - 1)
  BY DEF AsText, FirstNul
<1>3. CASE I = {}
  BY <1>1, <1>2, <1>3
<1>4. CASE I # {}
  <2>1. I \in SUBSET Nat
    OBVIOUS
  <2>2. \E x \in I : \A y \in I : x <= y
    <3> HIDE DEF I
    <3> QED BY <1>4, <2>1, LeastElement
  <2>3. Min(I) \in I /\ \A y \in I : Min(I) <= y
    <3> HIDE DEF I
    <3> QED BY <2>2 DEF Min
  <2>4. PICK m \in I : m = Min(I) /\ \A y \in I : m <= y
    BY <2>3
  <2>5. m = FirstNul(s) /\ m # 0
    BY <1>1, <1>4, <2>4
  <2>6. m \in 1 .. Len(s) /\ s[m] = 0 /\ \A i \in 1 .. Len(s) : s[i] = 0 => m <= i
    BY <2>4
  <2> QED BY <1>2, <2>5, <2>6
<1> QED BY <1>3, <1>4

LEMMA FirstPart ==
  ASSUME NEW s \in Seq(Nat), NEW k \in Nat, k <= Len(s)
  PROVE  /\ SubSeq(s, 1, k) \in Seq(Nat) /\ Len(SubSeq(s, 1, k)) = k
         /\ \A i \in 1 .. k : SubSeq(s, 1, k)[i] = s[i]
         /\ k = Len(s) => SubSeq(s, 1, k) = s
<1>0. PICK n \in Nat : n = Len(s)
  OBVIOUS
<1>1. PICK u : n = Len(s) /\ u = SubSeq(s, 1, k)
  BY <1>0
<1>2. u \in Seq(Nat) /\ Len(u) = k /\ \A i \in 1 .. k : u[i] = s[i]
  <2>1. \A i \in 1 .. k : s[i] \in Nat
    BY <1>1
  <2>2. /\ SubSeq(s, 1, k) \in Seq(Nat)
        /\ Len(SubSeq(s, 1, k)) = IF 1 <= k THEN k - 1 + 1 ELSE 0
        /\ \A i \in 1 .. k - 1 + 1 : SubSeq(s, 1, k)[i] = s[1 + i - 1]
    BY <2>1, SubSeqProperties
  <2> QED BY <1>1, <2>2
<1>3. k = n => u = s
  BY <1>1, <1>2, SeqEqual
<1> QED BY <1>1, <1>2, <1>3

LEMMA TextPrefix ==
  ASSUME NEW s \in Seq(Nat), NEW t \in Seq(Nat), Len(s) <= Len(t),
         \A i \in 1 .. Len(s) : s[i] = t[i]
  PROVE  IsPrefix(AsText(s), AsText(t))
<1>1. PICK l \in Nat, m \in Nat : l = Len(s) /\ m = Len(t) /\ l <= m
  OBVIOUS
<1>2. PICK a : \/ /\ a = 0 /\ AsText(s) = s
                  /\ \A i \in 1 .. l : s[i] # 0
               \/ /\ a \in 1 .. l /\ s[a] = 0 /\ AsText(s) = SubSeq(s, 1, a - 1)
                  /\ \A i \in 1 .. l : s[i] = 0 => a <= i
  BY <1>1, FirstNulIs
<1>3. PICK b : \/ /\ b = 0 /\ AsText(t) = t
                  /\ \A i \in 1 .. m : t[i] # 0
               \/ /\ b \in 1 .. m /\ t[b] = 0 /\ AsText(t) = SubSeq(t, 1, b - 1)
                  /\ \A i \in 1 .. m : t[i] = 0 => b <= i
  BY <1>1, FirstNulIs
<1>4. \A i \in 1 .. l : s[i] = t[i] /\ i \in 1 .. m
  BY <1>1
<1>5. ASSUME NEW j \in Nat, NEW k \in Nat, j <= l, k <= m, j <= k
      PROVE  IsPrefix(SubSeq(s, 1, j), SubSeq(t, 1, k))
  <2>1. PICK u \in Seq(Nat), v \in Seq(Nat) :
          /\ u = SubSeq(s, 1, j) /\ v = SubSeq(t, 1, k) /\ Len(u) = j /\ Len(v) = k
          /\ \A i \in 1 .. j : u[i] = s[i]
          /\ \A i \in 1 .. k : v[i] = t[i]
    <3>1. PICK u : u = SubSeq(s, 1, j)
      OBVIOUS
    <3>2. PICK v : v = SubSeq(t, 1, k)
      OBVIOUS
    <3>3. u \in Seq(Nat) /\ Len(u) = j /\ \A i \in 1 .. j : u[i] = s[i]
      BY <1>1, <1>5, <3>1, FirstPart
    <3>4. v \in Seq(Nat) /\ Len(v) = k /\ \A i \in 1 .. k : v[i] = t[i]
      BY <1>1, <1>5, <3>2, FirstPart
    <3> QED BY <3>1, <3>2, <3>3, <3>4
  <2>2. \A i \in 1 .. j : i \in 1 .. k /\ i \in 1 .. l
    BY <1>5
  <2>3. \A i \in 1 .. j : u[i] = v[i]
    BY <1>4, <2>1, <2>2
  <2>4. PICK x \in Seq(Nat) :
          /\ x = SubSeq(u, 1, j) /\ Len(x) = j /\ \A i \in 1 .. j : x[i] = u[i]
    <3>1. j <= Len(u)
      BY <2>1
    <3> QED BY <3>1, FirstPart
  <2>5. PICK y \in Seq(Nat) :
          /\ y = SubSeq(v, 1, j) /\ Len(y) = j /\ \A i \in 1 .. j : y[i] = v[i]
    <3>1. j <= Len(v)
      BY <1>5, <2>1
    <3> QED BY <3>1, FirstPart
  <2>6. x = y
    BY <2>3, <2>4, <2>5, SeqEqual
  <2> QED BY <1>5, <2>1, <2>4, <2>5, <2>6 DEF IsPrefix
<1>6. s = SubSeq(s, 1, l) /\ t = SubSeq(t, 1, m)
  BY <1>1, FirstPart
<1>7. CASE a = 0
  <2>1. AsText(s) = SubSeq(s, 1, l) /\ \A i \in 1 .. l : t[i] # 0
    BY <1>2, <1>4, <1>6, <1>7
  <2>2. CASE b = 0
    <3>1. AsText(t) = SubSeq(t, 1, m)
      BY <1>3, <1>6, <2>2
    <3> QED BY <1>1, <1>5, <2>1, <3>1
  <2>3. CASE b # 0
    <3>1. b \in 1 .. m /\ t[b] = 0 /\ AsText(t) = SubSeq(t, 1, b - 1)
      BY <1>3, <2>3
    <3>2. b - 1 \in Nat /\ l <= b - 1 /\ b - 1 <= m /\ l <= l
      BY <2>1, <3>1
    <3> QED BY <1>5, <2>1, <3>1, <3>2
  <2> QED BY <2>2, <2>3
<1>8. CASE a # 0
  <2>1. a \in 1 .. l /\ s[a] = 0 /\ AsText(s) = SubSeq(s, 1, a - 1)
        /\ \A i \in 1 .. l : s[i] = 0 => a <= i
    BY <1>2, <1>8
  <2>2. t[a] = 0 /\ a \in 1 .. m
    BY <1>4, <2>1
  <2>3. b \in 1 .. m /\ t[b] = 0 /\ AsText(t) = SubSeq(t, 1, b - 1)
        /\ \A i \in 1 .. m : t[i] = 0 => b <= i
    BY <1>3, <2>2
  <2>4. a = b
    <3>1. b <= a /\ b \in 1 .. l
      BY <2>1, <2>2, <2>3
    <3>2. s[b] = 0
      BY <1>4, <2>3, <3>1
    <3> QED BY <2>1, <2>3, <3>1, <3>2
  <2>5. a - 1 \in Nat /\ a - 1 <= l /\ a - 1 <= m /\ a - 1 <= a - 1
    BY <2>1, <2>2
  <2> QED BY <1>5, <2>1, <2>3, <2>4, <2>5
<1> QED BY <1>7, <1>8

LEMMA PayloadBytes ==
  ASSUME IInv, NEW p \in Parsed, AtHead(p), p.type = PUBLISH
  PROVE  LET rest == SubSeq(pktbuf, PayloadFrom(p) + 1, pktlen)
         IN  /\ p.payload \in Seq(Nat) /\ rest \in Seq(Nat) /\ Len(p.payload) <= Len(rest)
             /\ \A i \in 1 .. Len(p.payload) : p.payload[i] = rest[i]
             /\ pktbuf = Encode(p) => rest = p.payload
<1>1. p \in Packets /\ p \in Packet /\ pktbuf \in Seq(Byte) /\ pktlen = Len(pktbuf)
      /\ Holds(pktbuf, 2, Body(p)) /\ Len(Body(p)) \in Nat
  BY HeadHolds DEF IInv, Parsed
<1>2. p.payload \in Seq(Nat) /\ p.topic \in Seq(Nat) /\ p.qos \in 0 .. 2
  BY <1>1, PublishParts, Utf8Octets, Octets DEF Binary
<1>3. PICK l \in Nat, m \in Nat, n \in Nat : l = Len(p.topic) /\ m = Len(p.payload) /\ n = pktlen
  BY <1>1, <1>2
<1>4. PICK f \in Nat : f = 4 + l + (IF p.qos > 0 THEN 2 ELSE 0) /\ f = PayloadFrom(p)
  <2>1. PICK g \in Nat : g = 4 + l + (IF p.qos > 0 THEN 2 ELSE 0)
    OBVIOUS
  <2>2. PayloadFrom(p) = 4 + l + (IF p.qos > 0 THEN 2 ELSE 0)
    BY <1>3 DEF PayloadFrom
  <2> QED BY <2>1, <2>2
<1>5. Holds(pktbuf, f, p.payload) /\ 2 + Len(Body(p)) = f + m
  <2>1. /\ Holds(pktbuf, 2 + 2 + Len(p.topic) + (IF p.qos > 0 THEN 2 ELSE 0), p.payload)
        /\ 2 + Len(Body(p)) = 2 + 2 + Len(p.topic) + (IF p.qos > 0 THEN 2 ELSE 0) + Len(p.payload)
    BY <1>1, PublishHolds
  <2>2. 2 + 2 + l + (IF p.qos > 0 THEN 2 ELSE 0) = f
    BY <1>4
  <2> QED BY <1>3, <2>1, <2>2
<1>6. f + m <= n /\ \A i \in 1 .. m : pktbuf[f + i] = p.payload[i]
  BY <1>1, <1>3, <1>5 DEF Holds
<1>7. PICK r : r = SubSeq(pktbuf, f + 1, n)
  OBVIOUS
<1>8. r \in Seq(Byte) /\ Len(r) = n - f /\ \A i \in 1 .. n - f : r[i] = pktbuf[f + i]
  <2>1. \A i \in f + 1 .. n : pktbuf[i] \in Byte
    BY <1>1, <1>3
  <2>2. /\ SubSeq(pktbuf, f + 1, n) \in Seq(Byte)
        /\ Len(SubSeq(pktbuf, f + 1, n)) = IF f + 1 <= n THEN n - (f + 1) + 1 ELSE 0
        /\ \A i \in 1 .. n - (f + 1) + 1 : SubSeq(pktbuf, f + 1, n)[i] = pktbuf[(f + 1) + i - 1]
    BY <2>1, SubSeqProperties
  <2>3. f <= n /\ \A i \in 1 .. n - f : (f + 1) + i - 1 = f + i
    BY <1>6
  <2> QED BY <1>7, <2>2, <2>3
<1>9. r \in Seq(Nat)
  BY <1>8, SeqMonotonic, ByteAssumption DEF Octet
<1>10. m <= Len(r) /\ \A i \in 1 .. m : p.payload[i] = r[i]
  BY <1>6, <1>8
<1>11. ASSUME pktbuf = Encode(p) PROVE r = p.payload
  <2>1. n = f + m
    BY <1>1, <1>3, <1>5, <1>11, EncodeLength
  <2>2. Len(r) = m
    BY <1>8, <2>1
  <2> QED BY <1>2, <1>3, <1>9, <1>10, <2>2, SeqEqual
<1> QED BY <1>2, <1>3, <1>4, <1>7, <1>9, <1>10, <1>11

-----------------------------------------------------------------------------
(* The packets that the properties are about. *)

LEMMA WirePackets ==
  ASSUME NEW w \in OnTheWire
  PROVE  /\ w.packet \in Parsed
         /\ IsAtHead(w) = AtHead(w.packet)
         /\ IsAlone(w) = (pktbuf = Encode(w.packet))
<1>1. PICK p \in Packet : IsParsed(p) /\ w = [packet |-> p, bytes |-> Encode(p)]
  BY DEF OnTheWire
<1>2. w.packet = p /\ w.bytes = Encode(p)
  BY <1>1
<1> QED BY <1>1, <1>2 DEF Parsed, IsAtHead, AtHead, IsAlone

LEMMA AloneIsAtHead ==
  ASSUME TypeInv, NEW p \in Packet, pktbuf = Encode(p)
  PROVE  AtHead(p) /\ Covered(p)
<1>1. pktbuf \in Seq(Byte)
  BY DEF TypeInv, TypeOK
<1>2. IsPrefix(pktbuf, pktbuf)
  BY <1>1 DEF IsPrefix
<1> QED BY <1>2 DEF AtHead, Covered

(* What is printed at the end of a packet that is taken apart. *)
LEMMA EndOf ==
  ASSUME IInv, NEW p \in Parsed, AtHead(p), Covered(p), pc \in Final
  PROVE  pc = "returned" /\ AtEnd(p)
BY DEF IInv, HeadInv, Final


(* No error is printed of a CONNECT with a password or without a user name *)
(* but the one it deserves.                                                *)
LEMMA ConnectIsReported ==
  ASSUME NEW p, p.type = CONNECT, ~ HasUserOnly(p)
  PROVE  ConnectPrinted(p) = ReportOf(p)
<1>1. PICK f, k, x : /\ f = FlagsReport(p) /\ k = <<<<"flags", ConnectFlags(p)>>>>
                     /\ x = Item(p.user = <<>> /\ p.pass # <<>>, <<"username xor password">>)
  OBVIOUS
<1>2. PICK c, w, r, u :
        /\ c = <<<<"field", CF_CLIENT_ID, p.id>>>>
        /\ w = FlattenSeq([i \in DOMAIN p.will |->
                             <<<<"field", CF_WILL_TOP, p.will[i].topic>>,
                               <<"field", CF_WILL_MSG, AsText(p.will[i].message)>>>>])
        /\ r = [i \in DOMAIN p.pass |-> <<"field", CF_PASSWORD, AsText(p.pass[i])>>]
        /\ u = [i \in DOMAIN p.user |-> <<"field", CF_USERNAME, p.user[i]>>]
  OBVIOUS
<1>3. ((p.user # <<>>) # (p.pass # <<>>)) <=> (p.user = <<>> /\ p.pass # <<>>)
  BY DEF HasUserOnly
<1>4. Item((p.user # <<>>) # (p.pass # <<>>), <<"username xor password">>) = x
  BY <1>1, <1>3 DEF Item
<1>5. ConnectPrinted(p) = f \o k \o x \o (c \o w \o r \o u)
  BY <1>1, <1>2, <1>4 DEF ConnectPrinted, XorPrinted, FlagsPrinted, FieldsPrintedOf
<1>6. BodyReport(p) = ConnectReport(p)
  BY DEF BodyReport, CONNECT, PUBLISH, SUBSCRIBE, UNSUBSCRIBE, SUBACK, PUBACK
<1>7. ReportOf(p) = f \o (k \o x \o c \o w \o r \o u)
  BY <1>1, <1>2, <1>6 DEF ReportOf, ConnectReport
<1>8. f \o k \o x \o (c \o w \o r \o u) = f \o (k \o x \o c \o w \o r \o u)
  BY SMTT(20)
<1> QED BY <1>5, <1>7, <1>8

LEMMA WholeReport ==
  ASSUME IInv, NEW p \in Parsed, IsSupported(p), pktbuf = Encode(p)
  PROVE  Printed(p) = ReportOf(p)
<1>1. CASE p.type # PUBLISH
  BY <1>1, ConnectIsReported DEF Printed, IsSupported
<1>2. CASE p.type = PUBLISH
  <2>1. AtHead(p)
    BY AloneIsAtHead DEF IInv, Parsed
  <2>2. SubSeq(pktbuf, PayloadFrom(p) + 1, pktlen) = p.payload
    BY <1>2, <2>1, PayloadBytes
  <2>3. PICK f, l, i, t, r :
          /\ f = FlagsReport(p) /\ l = <<<<"length", Len(Body(p))>>, <<"qos", p.qos>>>>
          /\ i = Item(p.qos > 0, <<"id", p.id>>) /\ t = <<<<"topic", p.topic>>>>
          /\ r = Item(dump_payloads, <<"payload", AsText(p.payload)>>)
    OBVIOUS
  <2>4. PublishPrinted(p) = f \o l \o i \o t \o r
    BY <2>2, <2>3 DEF PublishPrinted
  <2>5. BodyReport(p) = PublishReport(p)
    BY <1>2 DEF BodyReport, CONNECT, PUBLISH, SUBSCRIBE, UNSUBSCRIBE, SUBACK, PUBACK
  <2>6. ReportOf(p) = f \o (l \o i \o t \o r)
    BY <2>3, <2>5 DEF ReportOf, PublishReport
  <2>7. f \o l \o i \o t \o r = f \o (l \o i \o t \o r)
    BY SMTT(20)
  <2> QED BY <1>2, <2>4, <2>6, <2>7 DEF Printed, PUBLISH, CONNECT
<1> QED BY <1>1, <1>2

(* The items of a report before the payload. *)
BeforePayload(p) ==
  FlagsReport(p)
  \o <<<<"length", Len(Body(p))>>, <<"qos", p.qos>>>>
  \o Item(p.qos > 0, <<"id", p.id>>)
  \o <<<<"topic", p.topic>>>>

LEMMA BeforePayloadItems ==
  ASSUME NEW p
  PROVE  \E S : BeforePayload(p) \in Seq(S) /\ \A x \in S : x[1] # "payload"
<1> DEFINE S == {<<"type", p.type>>, <<"dup">>, <<"retain">>, <<"length", Len(Body(p))>>,
                 <<"qos", p.qos>>, <<"id", p.id>>, <<"topic", p.topic>>}
<1>1. \A x \in S : x[1] # "payload"
  OBVIOUS
<1>2. \A x \in S : <<x>> \in Seq(S) /\ \A c : Item(c, x) \in Seq(S)
  <2> HIDE DEF S
  <2> QED BY DEF Item
<1>3. \A s, t \in Seq(S) : s \o t \in Seq(S)
  <2> HIDE DEF S
  <2> QED OBVIOUS
<1>4. PICK a, b, c, l, q, i, t :
        /\ a = <<<<"type", p.type>>>>
        /\ b = Item(p.type = PUBLISH /\ p.dup, <<"dup">>)
        /\ c = Item(p.type = PUBLISH /\ p.retain, <<"retain">>)
        /\ l = <<<<"length", Len(Body(p))>>>> /\ q = <<<<"qos", p.qos>>>>
        /\ i = Item(p.qos > 0, <<"id", p.id>>) /\ t = <<<<"topic", p.topic>>>>
  OBVIOUS
<1>5. /\ <<"type", p.type>> \in S /\ <<"dup">> \in S /\ <<"retain">> \in S
      /\ <<"length", Len(Body(p))>> \in S /\ <<"qos", p.qos>> \in S /\ <<"id", p.id>> \in S
      /\ <<"topic", p.topic>> \in S
  OBVIOUS
<1> HIDE DEF S
<1>6. /\ a \in Seq(S) /\ b \in Seq(S) /\ c \in Seq(S) /\ l \in Seq(S) /\ q \in Seq(S)
      /\ i \in Seq(S) /\ t \in Seq(S)
  <2>1. a \in Seq(S) /\ l \in Seq(S) /\ q \in Seq(S) /\ t \in Seq(S)
    BY <1>2, <1>4, <1>5
  <2>2. b \in Seq(S) /\ c \in Seq(S) /\ i \in Seq(S)
    BY <1>2, <1>4, <1>5
  <2> QED BY <2>1, <2>2
<1>7. <<<<"length", Len(Body(p))>>, <<"qos", p.qos>>>> = l \o q
  BY <1>4, TwoInARow
<1>8. BeforePayload(p) = (a \o b \o c) \o (l \o q) \o i \o t
  BY <1>4, <1>7 DEF BeforePayload, FlagsReport
<1>9. a \o b \o c \in Seq(S) /\ l \o q \in Seq(S)
  BY <1>3, <1>6
<1>10. BeforePayload(p) \in Seq(S)
  BY <1>3, <1>6, <1>8, <1>9
<1> QED BY <1>1, <1>10

(* Report s says what r does, but may print more of the payload. *)
SameUpToPayload(r, s) ==
  /\ Len(s) = Len(r)
  /\ \A i \in DOMAIN r :
       IF r[i][1] = "payload" THEN IsPrefix(r[i][2], s[i][2]) ELSE s[i] = r[i]

(* So do two reports that differ in the payload that follows them. *)
LEMMA SameButForPayload ==
  ASSUME NEW S, NEW x \in Seq(S), \A y \in S : y[1] # "payload", NEW c,
         NEW a, NEW b, IsPrefix(a, b)
  PROVE  SameUpToPayload(x \o Item(c, <<"payload", a>>), x \o Item(c, <<"payload", b>>))
<1>1. PICK n \in Nat : n = Len(x) /\ \A i \in 1 .. n : x[i] \in S
  OBVIOUS
<1>2. CASE ~ c
  <2>1. Item(c, <<"payload", a>>) = <<>> /\ Item(c, <<"payload", b>>) = <<>>
    BY <1>2 DEF Item
  <2>2. x \o <<>> = x
    BY ConcatEmptySeq
  <2>3. SameUpToPayload(x, x)
    BY <1>1 DEF SameUpToPayload
  <2> QED BY <2>1, <2>2, <2>3
<1>3. CASE c
  <2>1. PICK y, z : y = <<"payload", a>> /\ z = <<"payload", b>>
    OBVIOUS
  <2>2. PICK r, s : r = x \o <<y>> /\ s = x \o <<z>>
    OBVIOUS
  <2>3. PICK T : T = S \cup {y, z}
    OBVIOUS
  <2>4. x \in Seq(T) /\ y \in T /\ z \in T
    BY <2>3, SeqMonotonic
  <2>5. r \in Seq(T) /\ s \in Seq(T) /\ Len(r) = n + 1 /\ Len(s) = n + 1
        /\ \A i \in 1 .. n : r[i] = x[i] /\ s[i] = x[i]
    BY <1>1, <2>2, <2>4
  <2>6. r[n + 1] = y /\ s[n + 1] = z
    BY <1>1, <2>2, <2>4
  <2>7. ASSUME NEW i \in 1 .. n
        PROVE  IF r[i][1] = "payload" THEN IsPrefix(r[i][2], s[i][2]) ELSE s[i] = r[i]
    BY <1>1, <2>5
  <2>8. IF r[n + 1][1] = "payload" THEN IsPrefix(r[n + 1][2], s[n + 1][2]) ELSE s[n + 1] = r[n + 1]
    <3>1. r[n + 1][1] = "payload" /\ r[n + 1][2] = a /\ s[n + 1][2] = b
      BY <2>1, <2>6
    <3> QED BY <3>1
  <2>9. DOMAIN r = 1 .. n + 1 /\ \A i \in 1 .. n + 1 : i \in 1 .. n \/ i = n + 1
    BY <2>5
  <2>10. \A i \in DOMAIN r :
           IF r[i][1] = "payload" THEN IsPrefix(r[i][2], s[i][2]) ELSE s[i] = r[i]
    BY <2>7, <2>8, <2>9
  <2>11. r = x \o Item(c, <<"payload", a>>) /\ s = x \o Item(c, <<"payload", b>>)
    BY <1>3, <2>1, <2>2 DEF Item
  <2>12. SameUpToPayload(r, s)
    BY <2>5, <2>10 DEF SameUpToPayload
  <2> QED BY <2>11, <2>12
<1> QED BY <1>2, <1>3

-----------------------------------------------------------------------------
(***************************************************************************)
(* Every variable has its type in every reachable state: type, QoS and     *)
(* identifier of mqtt.hpp are in the range of their C types for any bytes. *)
(***************************************************************************)
THEOREM TypeCorrect == Spec => []TypeOK
<1>1. IInv => TypeOK
  BY DEF IInv, TypeInv
<1> QED BY <1>1, Invariant, PTL

(***************************************************************************)
(* A chunk that is one packet is reported as this packet, field by field:  *)
(* for every packet that the parsers of mqtt.hpp can take apart, but for a *)
(* CONNECT with a user name alone, which line 219 calls an error.          *)
(***************************************************************************)
THEOREM SinglePacket == Spec => []SinglePacketIsReported
<1>1. IInv => SinglePacketIsReported
  <2> SUFFICES ASSUME IInv, pc \in Final, NEW w \in OnTheWire,
                      IsSupported(w.packet), IsAlone(w)
               PROVE  pc = "returned" /\ printed = ReportOf(w.packet)
    BY DEF SinglePacketIsReported
  <2>1. w.packet \in Parsed /\ pktbuf = Encode(w.packet)
    BY WirePackets
  <2>2. AtHead(w.packet) /\ Covered(w.packet)
    BY <2>1, AloneIsAtHead DEF IInv, Parsed
  <2>3. pc = "returned" /\ printed = Printed(w.packet)
    BY <2>1, <2>2, EndOf DEF AtEnd
  <2> QED BY <2>1, <2>3, WholeReport
<1> QED BY <1>1, Invariant, PTL

(***************************************************************************)
(* Bytes behind a packet whose fields end by themselves do not change its  *)
(* report: handle_mqtt_pkt is called with whatever TCP has delivered.      *)
(***************************************************************************)
THEOREM FirstPacket == Spec => []FirstPacketIsReported
<1>1. IInv => FirstPacketIsReported
  <2> SUFFICES ASSUME IInv, pc \in Final, NEW w \in OnTheWire,
                      IsSupported(w.packet), IsSelfDelimiting(w.packet), IsAtHead(w)
               PROVE  pc = "returned" /\ printed = ReportOf(w.packet)
    BY DEF FirstPacketIsReported
  <2>1. w.packet \in Parsed /\ AtHead(w.packet)
    BY WirePackets
  <2>2. Covered(w.packet) /\ w.packet.type # PUBLISH
    BY DEF IsSelfDelimiting, Covered
  <2>3. pc = "returned" /\ printed = Printed(w.packet)
    BY <2>1, <2>2, EndOf DEF AtEnd
  <2>4. Printed(w.packet) = ReportOf(w.packet)
    BY <2>2, ConnectIsReported DEF Printed, IsSupported
  <2> QED BY <2>3, <2>4
<1> QED BY <1>1, Invariant, PTL

(***************************************************************************)
(* Topic and identifier of a PUBLISH at the head of a chunk are reported   *)
(* right whatever follows it, and the payload that is printed begins with  *)
(* its own: mqtt_parse_publish takes the rest of the chunk for it.         *)
(***************************************************************************)
THEOREM PublishReported == Spec => []PublishIsReported
<1>1. IInv => PublishIsReported
  <2> SUFFICES ASSUME IInv, pc \in Final, NEW w \in OnTheWire,
                      w.packet.type = PUBLISH, IsAtHead(w)
               PROVE  LET report == ReportOf(w.packet)
                      IN  /\ pc = "returned"
                          /\ Len(printed) = Len(report)
                          /\ \A i \in DOMAIN report :
                               IF report[i][1] = "payload"
                               THEN IsPrefix(report[i][2], printed[i][2])
                               ELSE printed[i] = report[i]
    BY DEF PublishIsReported
  <2>1. PICK p : p = w.packet
    OBVIOUS
  <2>2. p \in Parsed /\ AtHead(p) /\ p.type = PUBLISH
    BY <2>1, WirePackets
  <2>3. Covered(p)
    BY <2>2 DEF Covered, PUBLISH, SUBSCRIBE, UNSUBSCRIBE
  <2>4. pc = "returned" /\ printed = PublishPrinted(p)
    BY <2>2, <2>3, EndOf DEF AtEnd, Printed, PUBLISH, CONNECT
  <2>5. PICK rest : rest = SubSeq(pktbuf, PayloadFrom(p) + 1, pktlen)
    OBVIOUS
  <2>6. IsPrefix(AsText(p.payload), AsText(rest))
    <3>1. /\ p.payload \in Seq(Nat) /\ rest \in Seq(Nat) /\ Len(p.payload) <= Len(rest)
          /\ \A i \in 1 .. Len(p.payload) : p.payload[i] = rest[i]
      BY <2>2, <2>5, PayloadBytes
    <3> QED BY <3>1, TextPrefix
  <2>7. PICK S, x : /\ x = BeforePayload(p) /\ x \in Seq(S)
                    /\ \A y \in S : y[1] # "payload"
    BY BeforePayloadItems
  <2>8. PICK a, b, r, s :
          /\ a = AsText(p.payload) /\ b = AsText(rest)
          /\ r = x \o Item(dump_payloads, <<"payload", a>>)
          /\ s = x \o Item(dump_payloads, <<"payload", b>>)
    OBVIOUS
  <2>9. printed = s
    BY <2>4, <2>5, <2>7, <2>8 DEF PublishPrinted, BeforePayload
  <2>10. ReportOf(p) = r
    <3>1. BodyReport(p) = PublishReport(p)
      BY <2>2 DEF BodyReport, CONNECT, PUBLISH, SUBSCRIBE, UNSUBSCRIBE, SUBACK, PUBACK
    <3>2. PICK f, l, i, t, e :
            /\ f = FlagsReport(p) /\ l = <<<<"length", Len(Body(p))>>, <<"qos", p.qos>>>>
            /\ i = Item(p.qos > 0, <<"id", p.id>>) /\ t = <<<<"topic", p.topic>>>>
            /\ e = Item(dump_payloads, <<"payload", AsText(p.payload)>>)
      OBVIOUS
    <3>3. ReportOf(p) = f \o (l \o i \o t \o e)
      BY <3>1, <3>2 DEF ReportOf, PublishReport
    <3>4. r = (f \o l \o i \o t) \o e
      BY <2>7, <2>8, <3>2 DEF BeforePayload
    <3>5. f \o (l \o i \o t \o e) = (f \o l \o i \o t) \o e
      BY SMTT(20)
    <3> QED BY <3>3, <3>4, <3>5
  <2>11. SameUpToPayload(r, s)
    <3>1. x \in Seq(S) /\ (\A y \in S : y[1] # "payload") /\ IsPrefix(a, b)
      BY <2>6, <2>7, <2>8
    <3>2. SameUpToPayload(x \o Item(dump_payloads, <<"payload", a>>),
                          x \o Item(dump_payloads, <<"payload", b>>))
      BY <3>1, SameButForPayload
    <3> QED BY <2>8, <3>2
  <2> QED BY <2>1, <2>4, <2>9, <2>10, <2>11 DEF SameUpToPayload
<1> QED BY <1>1, Invariant, PTL

(***************************************************************************)
(* Of a chunk that is one whole packet the parsers read its bytes and the  *)
(* NUL behind them, and of an UNSUBSCRIBE or a SUBACK one byte more: where *)
(* parse_packet_id looks for the identifier.                               *)
(***************************************************************************)
THEOREM WholePackets == Spec => []WholePacketsStayInChunk
<1>1. IInv => WholePacketsStayInChunk
  <2> SUFFICES ASSUME IInv, behind > 0, NEW w \in OnTheWire, IsAlone(w)
               PROVE  w.packet.type \in {UNSUBSCRIBE, SUBACK} /\ behind = 1
    BY DEF WholePacketsStayInChunk
  <2>1. w.packet \in Parsed /\ pktbuf = Encode(w.packet)
    BY WirePackets
  <2>2. AtHead(w.packet) /\ Covered(w.packet)
    BY <2>1, AloneIsAtHead DEF IInv, Parsed
  <2>3. HeadInv(w.packet)
    BY <2>1, <2>2 DEF IInv
  <2>4. pc = "returned"
    <3>1. pc \in {"callback", "type", "length", "body", "fields", "filters", "id"} \cup Final
      BY DEF IInv, TypeInv, TypeOK
    <3> QED BY <2>3, <3>1
            DEF HeadInv, Final, Start, AtLength, AtBody, AtFields, AtFilters, AtId
  <2>5. behind = IF w.packet.type \in {UNSUBSCRIBE, SUBACK} THEN 1 ELSE 0
    BY <2>1, <2>3, <2>4 DEF HeadInv, AtEnd
  <2> QED BY <2>5
<1> QED BY <1>1, Invariant, PTL

(***************************************************************************)
(* The handler throws, which nothing catches, only at a PUBLISH that the   *)
(* chunk cuts before its payload, or at bytes that look like one: never at *)
(* a chunk that begins with a whole packet.                                *)
(***************************************************************************)
THEOREM OnlyCutPublish == Spec => []OnlyCutPublishThrows
<1>1. IInv => OnlyCutPublishThrows
  <2> SUFFICES ASSUME IInv, pc = "thrown"
               PROVE  type = PUBLISH /\ \A w \in OnTheWire : ~ IsAtHead(w)
    BY DEF OnlyCutPublishThrows
  <2>1. type = PUBLISH
    BY DEF IInv, TypeInv
  <2>2. ASSUME NEW w \in OnTheWire, IsAtHead(w) PROVE FALSE
    <3>1. w.packet \in Parsed /\ AtHead(w.packet)
      BY <2>2, WirePackets
    <3>2. w.packet.type = PUBLISH
      BY <2>1, <3>1 DEF IInv, TypeRead
    <3>3. Covered(w.packet)
      BY <3>2 DEF Covered, PUBLISH, SUBSCRIBE, UNSUBSCRIBE
    <3> QED BY <3>1, <3>3 DEF IInv, HeadInv
  <2> QED BY <2>1, <2>2
<1> QED BY <1>1, Invariant, PTL

=============================================================================
