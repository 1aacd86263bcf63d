-------------------------------- MODULE Wire --------------------------------
(***************************************************************************)
(* MQTT 3.1.1 control packets and their encoding, as clients and brokers   *)
(* write them: what the dissector finds on the wire, and not its code.     *)
(* Topics, names and payloads are short sequences of bytes.                *)
(***************************************************************************)
EXTENDS Integers, Sequences, SequencesExt

(* The packet types of src/include/mqtt_v311.h. *)
CONNECT     == 1
CONNACK     == 2
PUBLISH     == 3
PUBACK      == 4
PUBREC      == 5
PUBREL      == 6
PUBCOMP     == 7
SUBSCRIBE   == 8
SUBACK      == 9
UNSUBSCRIBE == 10
UNSUBACK    == 11
PINGREQ     == 12
PINGRESP    == 13
DISCONNECT  == 14

Bit(condition, weight) == IF condition THEN weight ELSE 0

Uint16(n) == <<n \div 256, n % 256>>

Text(s) == Uint16(Len(s)) \o s

(***************************************************************************)
(* Packets.  The optional fields of a CONNECT are sequences of at most one *)
(* element.                                                                *)
(***************************************************************************)
Connect(id, will, user, pass) ==
  [type |-> CONNECT, id |-> id, will |-> will, user |-> user, pass |-> pass]

Publish(dup, qos, retain, topic, id, payload) ==
  [type |-> PUBLISH, dup |-> dup, qos |-> qos, retain |-> retain,
   topic |-> topic, id |-> id, payload |-> payload]

Subscribe(id, filters)   == [type |-> SUBSCRIBE, id |-> id, filters |-> filters]
Unsubscribe(id, filters) == [type |-> UNSUBSCRIBE, id |-> id, filters |-> filters]
Suback(id, codes)        == [type |-> SUBACK, id |-> id, codes |-> codes]
Connack(code)            == [type |-> CONNACK, code |-> code]

(* PUBACK, PUBREC, PUBREL, PUBCOMP and UNSUBACK. *)
Ack(type, id) == [type |-> type, id |-> id]

(* PINGREQ, PINGRESP and DISCONNECT. *)
Bare(type) == [type |-> type]

WithId == {PUBACK, PUBREC, PUBREL, PUBCOMP, SUBSCRIBE, SUBACK, UNSUBSCRIBE, UNSUBACK}

(* The low four bits of the first byte. *)
Flags(p) ==
  CASE p.type = PUBLISH -> Bit(p.dup, 8) + 2 * p.qos + Bit(p.retain, 1)
    [] p.type \in {PUBREL, SUBSCRIBE, UNSUBSCRIBE} -> 2
    [] OTHER -> 0

ConnectFlags(p) ==
  Bit(p.user # <<>>, 128) + Bit(p.pass # <<>>, 64) + Bit(p.will # <<>>, 4) + 2

(***************************************************************************)
(* Every packet there is.  Strings have no NUL; payloads, will messages    *)
(* and passwords are any bytes.  Lists have at least one entry.            *)
(***************************************************************************)
Octet  == {n \in Nat : n < 256}
Word   == {n \in Nat : n < 65536}
Utf8   == Seq(Octet \ {0})
Binary == Seq(Octet)
Maybe(S) == {s \in Seq(S) : Len(s) <= 1}
Some(S)  == {s \in Seq(S) : Len(s) > 0}

Packets ==
  [type : {CONNECT}, id : Utf8, will : Maybe([topic : Utf8, message : Binary]),
   user : Maybe(Utf8), pass : Maybe(Binary)]
  \cup [type : {PUBLISH}, dup : BOOLEAN, qos : 0 .. 2, retain : BOOLEAN,
        topic : Utf8, id : Word, payload : Binary]
  \cup [type : {SUBSCRIBE}, id : Word, filters : Some([topic : Utf8, qos : 0 .. 2])]
  \cup [type : {UNSUBSCRIBE}, id : Word, filters : Some(Utf8)]
  \cup [type : {SUBACK}, id : Word, codes : Some(Octet)]
  \cup [type : {CONNACK}, code : Octet]
  \cup [type : {PUBACK, PUBREC, PUBREL, PUBCOMP, UNSUBACK}, id : Word]
  \cup [type : {PINGREQ, PINGRESP, DISCONNECT}]

ConnectBody(p) ==
  Text(<<77, 81, 84, 84>>) \o <<4, ConnectFlags(p)>> \o Uint16(60)
  \o Text(p.id)
  \o FlattenSeq([i \in DOMAIN p.will |->
                   Text(p.will[i].topic) \o Text(p.will[i].message)])
  \o FlattenSeq([i \in DOMAIN p.user |-> Text(p.user[i])])
  \o FlattenSeq([i \in DOMAIN p.pass |-> Text(p.pass[i])])

PublishBody(p) ==
  Text(p.topic) \o (IF p.qos > 0 THEN Uint16(p.id) ELSE <<>>) \o p.payload

SubscribeBody(p) ==
  Uint16(p.id)
  \o FlattenSeq([i \in DOMAIN p.filters |->
                   Text(p.filters[i].topic) \o <<p.filters[i].qos>>])

UnsubscribeBody(p) ==
  Uint16(p.id) \o FlattenSeq([i \in DOMAIN p.filters |-> Text(p.filters[i])])

SubackBody(p) == Uint16(p.id) \o p.codes

(* Everything behind the fixed header. *)
Body(p) ==
  CASE p.type = CONNECT     -> ConnectBody(p)
    [] p.type = CONNACK     -> <<0, p.code>>
    [] p.type = PUBLISH     -> PublishBody(p)
    [] p.type = SUBSCRIBE   -> SubscribeBody(p)
    [] p.type = UNSUBSCRIBE -> UnsubscribeBody(p)
    [] p.type = SUBACK      -> SubackBody(p)
    [] p.type \in {PUBACK, PUBREC, PUBREL, PUBCOMP, UNSUBACK} -> Uint16(p.id)
    [] OTHER -> <<>>

(* The packets used are short: their Remaining Length is a single byte. *)
Encode(p) == <<16 * p.type + Flags(p), Len(Body(p))>> \o Body(p)

EncodeAll(packets) == FlattenSeq([i \in DOMAIN packets |-> Encode(packets[i])])

=============================================================================
