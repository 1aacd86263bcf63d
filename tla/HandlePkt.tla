------------------------------ MODULE HandlePkt ------------------------------
(***************************************************************************)
(* One chunk of stream payload is dissected and reported: on_client_data,  *)
(* on_server_data and handle_mqtt_pkt of src/dissect.cpp, with class       *)
(* PktData and the mqtt_parse_* functions of src/mqtt.hpp.  The fixed      *)
(* header is read by the steps of module RemainingLength.                  *)
(*                                                                         *)
(* What is printed is a sequence of items; the text around an item is left *)
(* out, and so is the QoS that UNSUBSCRIBE topics are printed with, which  *)
(* the packet does not have.  Of a string that reaches behind the chunk    *)
(* only the part in the chunk is kept.  Definitions marked as mutants are  *)
(* plausible mistakes that show which properties would notice them.        *)
(***************************************************************************)
EXTENDS Wire

CONSTANTS
  Byte, Garbage, Chunk,   \* see RemainingLength
  Packet,                 \* the packets on the wire
  Slack,                  \* bytes that can be read behind the NUL of a string
  dump_payloads           \* option -p

ASSUME ByteAssumption    == 0 \in Byte /\ Byte \subseteq Octet
ASSUME GarbageAssumption == Garbage \subseteq Byte /\ Garbage # {}
ASSUME ChunkAssumption   == Chunk \subseteq Seq(Byte)
ASSUME PacketAssumption  == \A p \in Packet : p \in Packets /\ Len(Body(p)) < 128
ASSUME SlackAssumption   == Slack \in Nat
ASSUME PayloadAssumption == dump_payloads \in BOOLEAN

VARIABLES
  pktbuf, pos, tmp, rlen, mult, pc,   \* see RemainingLength
  isClient,   \* the client sent the chunk
  type,       \* _type
  qos,        \* _qos, of a PUBLISH
  id,         \* _id
  fields,     \* the fields of a CONNECT that are still to be extracted
  info,       \* _mqttInfo: the fields extracted, by their keys
  behind,     \* how far behind the NUL of pktbuf bytes have been read
  printed     \* what has been printed

header == <<pktbuf, pos, tmp, rlen, mult, pc>>
vars   == <<header, isClient, type, qos, id, fields, info, behind, printed>>

Header == INSTANCE RemainingLength

pktlen == Header!pktlen
At(i)  == Header!At(i)

Final == {"malformed", "returned", "thrown", "killed"}

(* The keys of _mqttInfo. *)
CF_CLIENT_ID == 0
CF_WILL_TOP  == 3
CF_WILL_MSG  == 4
CF_PASSWORD  == 7
CF_USERNAME  == 8

(* No field: the place among them where the flags are compared. *)
UserXorPass == 9

(* The types that parse_packet_id takes to have a packet identifier. *)
MQTT_CTRL_EXPECTS_ID ==
  {PUBACK, PUBREC, PUBREL, PUBCOMP, SUBSCRIBE, SUBACK, UNSUBSCRIBE, UNSUBACK}

(* The types that mqtt_parse_ctrl_packet looks into, but for PUBLISH. *)
MQTT_CTRL_EXPECTS_CTRL_PAYLOAD == {CONNECT, SUBSCRIBE, SUBACK, UNSUBSCRIBE}

MQTT_CTRL_TYPES_MAX == 15

Init ==
  /\ pktbuf \in Chunk
  /\ isClient \in BOOLEAN
  /\ pos = 0 /\ tmp = 0 /\ rlen = 0 /\ mult = 1
  /\ pc = "callback"
  /\ type = 0 /\ qos = 0 /\ id = 0
  /\ fields = <<>>
  /\ info = [k \in {} |-> <<>>]
  /\ behind = 0
  /\ printed = <<>>

-----------------------------------------------------------------------------
(* Reading and printing. *)

Item(condition, item) == IF condition THEN <<item>> ELSE <<>>

Report(items) == printed' = printed \o items

(* The bytes before position end have been read. *)
Touch(end) == behind' = IF end - 1 - pktlen > behind THEN end - 1 - pktlen ELSE behind

LittleEndianAt(p) ==                                     \* mutant of Uint16At
  {256 * hi + lo : hi \in At(p + 1), lo \in At(p)}
Uint16At(p) == {256 * hi + lo : hi \in At(p), lo \in At(p + 1)}

(* mqtt_extract_string at p: a length of two bytes, then as many bytes. *)
StringsAt(p) == {[from |-> p + 2, end |-> p + 2 + n] : n \in Uint16At(p)}

(* What "%s" prints of some bytes: those before the first NUL. *)
AsText(bytes) ==
  LET nul == SelectInSeq(bytes, LAMBDA b : b = 0)
  IN  IF nul = 0 THEN bytes ELSE SubSeq(bytes, 1, nul - 1)

Contents(s) ==
  AsText(SubSeq(pktbuf, s.from + 1, IF s.end < pktlen THEN s.end ELSE pktlen))

-----------------------------------------------------------------------------
(* The callbacks.  Only on_server_data looks at the length of the chunk. *)

on_client_data ==
  /\ pc = "callback" /\ isClient
  /\ pc' = "type"
  /\ UNCHANGED <<pktbuf, pos, tmp, rlen, mult, isClient, type, qos, id, fields,
                 info, behind, printed>>

on_server_data ==
  /\ pc = "callback" /\ ~ isClient
  /\ pc' = IF pktlen = 0 THEN "returned" ELSE "type"
  /\ Report(Item(pktlen = 0, <<"0 len packet?">>))
  /\ UNCHANGED <<pktbuf, pos, tmp, rlen, mult, isClient, type, qos, id, fields,
                 info, behind>>

ShiftedOnly(b) == b \div 2                              \* mutant of QosBits
QosBits(b) == (b \div 2) % 4

dumpMQTTType(t) ==
  <<<<"type", t>>>> \o Item(t \in {0, MQTT_CTRL_TYPES_MAX}, <<"invalid type">>)

dumpFlags(b) ==
  Item(b % 16 >= 8, <<"dup">>) \o Item(b % 2 = 1, <<"retain">>)

(***************************************************************************)
(* The fixed header.  A PUBLISH prints its flags and its length.           *)
(***************************************************************************)
ReadType ==
  /\ Header!ReadType
  /\ type' = tmp' \div 16
  /\ qos' = IF type' = PUBLISH THEN QosBits(tmp') ELSE qos
  /\ Report(dumpMQTTType(type') \o (IF type' = PUBLISH THEN dumpFlags(tmp') ELSE <<>>))
  /\ UNCHANGED <<isClient, id, fields, info, behind>>

ReadLength ==
  /\ Header!ReadLength
  /\ Touch(pos')
  /\ Report(  Item(pc' = "malformed", <<"malformed">>)
          \o Item(pc' = "body" /\ type = PUBLISH, <<"length", rlen'>>))
  /\ UNCHANGED <<isClient, type, qos, id, fields, info>>

-----------------------------------------------------------------------------
(***************************************************************************)
(* mqtt_parse_ctrl_packet.  CONNECT: the ten bytes of the variable header, *)
(* then the strings that the flags announce.  The map prints them in the   *)
(* order of their keys.                                                    *)
(***************************************************************************)
hasWill(flags) == (flags \div 4) % 2 = 1
hasPass(flags) == (flags \div 64) % 2 = 1
hasUser(flags) == flags >= 128

(* The whole header is printed; the flags are all that is kept of it. *)
mqtt_dump_ctrl_connect_header(flags) == <<<<"flags", flags>>>>

Announced(flags) ==
     <<CF_CLIENT_ID>>
  \o (IF hasWill(flags) THEN <<CF_WILL_TOP, CF_WILL_MSG>> ELSE <<>>)
  \o Item(hasUser(flags) # hasPass(flags), UserXorPass)
  \o Item(hasUser(flags), CF_USERNAME)
  \o Item(hasPass(flags), CF_PASSWORD)

ParseConnect ==
  /\ pc = "body" /\ type = CONNECT
  /\ \E flags \in At(pos + 7) :
       /\ fields' = Announced(flags)
       /\ Report(mqtt_dump_ctrl_connect_header(flags))
  /\ pos' = pos + 10
  /\ Touch(pos')
  /\ pc' = "fields"
  /\ UNCHANGED <<pktbuf, tmp, rlen, mult, isClient, type, qos, id, info>>

ReportUserXorPass ==
  /\ pc = "fields" /\ fields # <<>> /\ Head(fields) = UserXorPass
  /\ Report(<<<<"username xor password">>>>)
  /\ fields' = Tail(fields)
  /\ UNCHANGED <<pktbuf, pos, tmp, rlen, mult, pc, isClient, type, qos, id, info,
                 behind>>

ExtractField ==
  /\ pc = "fields" /\ fields # <<>> /\ Head(fields) # UserXorPass
  /\ \E s \in StringsAt(pos) :
       /\ info' = [k \in DOMAIN info \cup {Head(fields)} |->
                     IF k = Head(fields) THEN Contents(s) ELSE info[k]]
       /\ pos' = s.end
  /\ fields' = Tail(fields)
  /\ Touch(pos')
  /\ UNCHANGED <<pktbuf, tmp, rlen, mult, pc, isClient, type, qos, id, printed>>

Field(k) == Item(k \in DOMAIN info, <<"field", k, info[k]>>)

PrintFields ==
  /\ pc = "fields" /\ fields = <<>>
  /\ Report(   Field(CF_CLIENT_ID) \o Field(CF_WILL_TOP) \o Field(CF_WILL_MSG)
            \o Field(CF_PASSWORD) \o Field(CF_USERNAME))
  /\ pc' = "id"
  /\ UNCHANGED <<pktbuf, pos, tmp, rlen, mult, isClient, type, qos, id, fields,
                 info, behind>>

AlwaysPublishId == qos >= 0                          \* mutant of HasPublishId
HasPublishId == qos > 0

(***************************************************************************)
(* PUBLISH: the payload is the rest of the chunk.  If the chunk ends       *)
(* before the payload begins its length is negative: -1 is passed on to    *)
(* memcpy, anything below makes operator new throw.                        *)
(***************************************************************************)
ParsePublish ==
  /\ pc = "body" /\ type = PUBLISH
  /\ \E s \in StringsAt(pos) :
     \E pktID \in IF HasPublishId THEN Uint16At(s.end) ELSE {0} :
       LET startPos == IF HasPublishId THEN s.end + 2 ELSE s.end
           plen     == pktlen - startPos
       IN  /\ Touch(startPos)
           /\ pos' = IF plen >= 0 THEN startPos ELSE pos
           /\ pc' = CASE plen >= 0 -> "id" [] plen = -1 -> "killed" [] OTHER -> "thrown"
           /\ Report(  <<<<"qos", qos>>>>
                   \o Item(HasPublishId, <<"id", pktID>>)
                   \o Item(plen >= 0, <<"topic", Contents(s)>>)
                   \o Item(plen >= 0 /\ dump_payloads,
                           <<"payload", AsText(SubSeq(pktbuf, startPos + 1, pktlen))>>))
  /\ UNCHANGED <<pktbuf, tmp, rlen, mult, isClient, type, qos, id, fields, info>>

(***************************************************************************)
(* SUBSCRIBE and UNSUBSCRIBE: the packet identifier is skipped, then the   *)
(* loop takes one topic filter per iteration.  It looks at the byte behind *)
(* the filter, which in a SUBSCRIBE is the QoS, but does not step over it. *)
(***************************************************************************)
SkipId ==
  /\ pc = "body" /\ type \in {SUBSCRIBE, UNSUBSCRIBE}
  /\ pos' = pos + 2
  /\ Touch(pos')
  /\ pc' = "filters"
  /\ UNCHANGED <<pktbuf, tmp, rlen, mult, isClient, type, qos, id, fields, info,
                 printed>>

MoreFiltersByOne(end) == end + 1 <= pktlen           \* mutant of MoreFilters
MoreFilters(end) == end + 1 < pktlen

ParseFilterWithoutStep ==                            \* mutant of ParseFilter
  /\ pc = "filters"
  /\ \E s \in StringsAt(pos) : pc' = IF MoreFilters(pos) THEN "filters" ELSE "id"
  /\ UNCHANGED <<pktbuf, pos, tmp, rlen, mult, isClient, type, qos, id, fields,
                 info, behind, printed>>

ParseFilter ==
  /\ pc = "filters"
  /\ \E s \in StringsAt(pos) :
     \E tmpQos \in At(s.end) :
       /\ Report(IF type = SUBSCRIBE THEN <<<<"+", Contents(s), tmpQos % 4>>>>
                                    ELSE <<<<"-", Contents(s)>>>>)
       /\ Touch(s.end + 1)
       /\ pos' = s.end
       /\ pc' = IF MoreFilters(s.end) THEN "filters" ELSE "id"
  /\ UNCHANGED <<pktbuf, tmp, rlen, mult, isClient, type, qos, id, fields, info>>

(* SUBACK: the packet identifier is skipped and one return code is read. *)
ParseSuback ==
  /\ pc = "body" /\ type = SUBACK
  /\ \E retcode \in At(pos + 2) :
       Report(<<<<"return code", retcode >= 128, retcode % 128>>>>)
  /\ pos' = pos + 3
  /\ Touch(pos')
  /\ pc' = "id"
  /\ UNCHANGED <<pktbuf, tmp, rlen, mult, isClient, type, qos, id, fields, info>>

SkipBody ==
  /\ pc = "body"
  /\ type \notin MQTT_CTRL_EXPECTS_CTRL_PAYLOAD \cup {PUBLISH}
  /\ pc' = "id"
  /\ UNCHANGED <<pktbuf, pos, tmp, rlen, mult, isClient, type, qos, id, fields,
                 info, behind, printed>>

OneTooFar == pos + 1                                  \* mutant of IdPosition
IdPosition == pos

(***************************************************************************)
(* parse_packet_id reads the identifier where the parser of the body has   *)
(* stopped; only that of a PUBACK is printed.  Then the handler returns.   *)
(***************************************************************************)
ParsePacketId ==
  /\ pc = "id"
  /\ \/ /\ type \in MQTT_CTRL_EXPECTS_ID
        /\ id' \in Uint16At(IdPosition)
        /\ Touch(IdPosition + 2)
     \/ /\ type \notin MQTT_CTRL_EXPECTS_ID
        /\ UNCHANGED <<id, behind>>
  /\ Report(Item(type = PUBACK, <<"id", id'>>))
  /\ pc' = "returned"
  /\ UNCHANGED <<pktbuf, pos, tmp, rlen, mult, isClient, type, qos, fields, info>>

(* A read too far behind the chunk may end the program. *)
Segfault ==
  /\ behind > Slack
  /\ pc \notin Final
  /\ pc' = "killed"
  /\ UNCHANGED <<pktbuf, pos, tmp, rlen, mult, isClient, type, qos, id, fields,
                 info, behind, printed>>

Step ==
  \/ on_client_data \/ on_server_data
  \/ ReadType \/ ReadLength
  \/ ParseConnect \/ ReportUserXorPass \/ ExtractField \/ PrintFields
  \/ ParsePublish
  \/ SkipId \/ ParseFilter
  \/ ParseSuback
  \/ SkipBody
  \/ ParsePacketId

Next == Step \/ Segfault

Done == pc \in Final /\ UNCHANGED vars

Spec == Init /\ [][Next \/ Done]_vars

(* The callback runs to its end without waiting for anything. *)
FairSpec == Spec /\ WF_vars(Step)

-----------------------------------------------------------------------------
(***************************************************************************)
(* Properties.                                                             *)
(***************************************************************************)

(* Every variable has its type. *)
TypeOK ==
  /\ pktbuf \in Seq(Byte)
  /\ pos \in Nat /\ rlen \in Nat /\ mult \in Nat /\ behind \in Nat
  /\ tmp \in Byte
  /\ pc \in {"callback", "type", "length", "body", "fields", "filters", "id"}
           \cup Final
  /\ isClient \in BOOLEAN
  /\ type \in 0 .. 15 /\ qos \in 0 .. 3 /\ id \in Word
  /\ DOMAIN info \subseteq {CF_CLIENT_ID, CF_WILL_TOP, CF_WILL_MSG,
                            CF_PASSWORD, CF_USERNAME}

(***************************************************************************)
(* What a correct dissector prints of packet p.  Payloads, passwords and   *)
(* will messages are printed as texts, which end at a NUL: that may not    *)
(* cost any other part of the report.  Of the flags of a CONNECT,          *)
(* mqtt_v311.h:84 forbids a password without a user name.                  *)
(***************************************************************************)
ConnectReport(p) ==
     <<<<"flags", ConnectFlags(p)>>>>
  \o Item(p.user = <<>> /\ p.pass # <<>>, <<"username xor password">>)
  \o <<<<"field", CF_CLIENT_ID, p.id>>>>
  \o FlattenSeq([i \in DOMAIN p.will |->
                   <<<<"field", CF_WILL_TOP, p.will[i].topic>>,
                     <<"field", CF_WILL_MSG, AsText(p.will[i].message)>>>>])
  \o [i \in DOMAIN p.pass |-> <<"field", CF_PASSWORD, AsText(p.pass[i])>>]
  \o [i \in DOMAIN p.user |-> <<"field", CF_USERNAME, p.user[i]>>]

PublishReport(p) ==
     <<<<"length", Len(Body(p))>>, <<"qos", p.qos>>>>
  \o Item(p.qos > 0, <<"id", p.id>>)
  \o <<<<"topic", p.topic>>>>
  \o Item(dump_payloads, <<"payload", AsText(p.payload)>>)

SubscribeReport(p) ==
  [i \in DOMAIN p.filters |-> <<"+", p.filters[i].topic, p.filters[i].qos>>]

UnsubscribeReport(p) == [i \in DOMAIN p.filters |-> <<"-", p.filters[i]>>]

SubackReport(p) ==
  [i \in DOMAIN p.codes |-> <<"return code", p.codes[i] >= 128, p.codes[i] % 128>>]

BodyReport(p) ==
  CASE p.type = CONNECT     -> ConnectReport(p)
    [] p.type = PUBLISH     -> PublishReport(p)
    [] p.type = SUBSCRIBE   -> SubscribeReport(p)
    [] p.type = UNSUBSCRIBE -> UnsubscribeReport(p)
    [] p.type = SUBACK      -> SubackReport(p)
    [] p.type = PUBACK      -> <<<<"id", p.id>>>>
    [] OTHER -> <<>>

FlagsReport(p) ==
     <<<<"type", p.type>>>>
  \o Item(p.type = PUBLISH /\ p.dup, <<"dup">>)
  \o Item(p.type = PUBLISH /\ p.retain, <<"retain">>)

ReportOf(p) == FlagsReport(p) \o BodyReport(p)

(* The packets the parsers of the bodies can take apart: lists have one entry. *)
IsParsed(p) ==
  /\ p.type = SUBSCRIBE => Len(p.filters) = 1
  /\ p.type = SUBACK    => Len(p.codes) = 1

(* A user name and no password, which is legal but reported as an error. *)
HasUserOnly(p) == p.type = CONNECT /\ p.user # <<>> /\ p.pass = <<>>

IsSupported(p) == IsParsed(p) /\ ~ HasUserOnly(p)

(* The packets with their bytes. *)
OnTheWire == {[packet |-> p, bytes |-> Encode(p)] : p \in {q \in Packet : IsParsed(q)}}

IsAlone(w)  == w.bytes = pktbuf
IsAtHead(w) == IsPrefix(w.bytes, pktbuf)

(***************************************************************************)
(* A chunk that is exactly one packet is reported as this packet, field by *)
(* field, for every packet type and combination of optional fields.        *)
(***************************************************************************)
SinglePacketIsReported ==
  pc \in Final =>
    \A w \in OnTheWire :
      IsSupported(w.packet) /\ IsAlone(w) =>
        pc = "returned" /\ printed = ReportOf(w.packet)

(* The parser of the body stops at the end of the packet by itself. *)
IsSelfDelimiting(p) == p.type \notin {PUBLISH, SUBSCRIBE, UNSUBSCRIBE}

(***************************************************************************)
(* If TCP delivers more than one packet in a chunk, or a packet and a part *)
(* of the next, what follows does not change the report of the first       *)
(* packet if its fields end by themselves.                                 *)
(***************************************************************************)
FirstPacketIsReported ==
  pc \in Final =>
    \A w \in OnTheWire :
      IsSupported(w.packet) /\ IsSelfDelimiting(w.packet) /\ IsAtHead(w) =>
        pc = "returned" /\ printed = ReportOf(w.packet)

(***************************************************************************)
(* Of a PUBLISH at the head of a chunk, topic and identifier are reported  *)
(* right whatever follows it, and the payload begins with its own.         *)
(***************************************************************************)
PublishIsReported ==
  pc \in Final =>
    \A w \in OnTheWire :
      w.packet.type = PUBLISH /\ IsAtHead(w) =>
        LET report == ReportOf(w.packet)
        IN  /\ pc = "returned"
            /\ Len(printed) = Len(report)
            /\ \A i \in DOMAIN report :
                 IF report[i][1] = "payload"
                 THEN IsPrefix(report[i][2], printed[i][2])
                 ELSE printed[i] = report[i]

(***************************************************************************)
(* The parsers stay in the chunk and its NUL if it is one whole packet,    *)
(* but for the identifier of an UNSUBSCRIBE or a SUBACK, which is read     *)
(* behind the body: one byte too far.                                      *)
(***************************************************************************)
WholePacketsStayInChunk ==
  behind > 0 =>
    \A w \in OnTheWire :
      IsAlone(w) => w.packet.type \in {UNSUBSCRIBE, SUBACK} /\ behind = 1

(***************************************************************************)
(* The handler throws, which ends the capture, only at a PUBLISH that the  *)
(* chunk does not hold to the end of its topic, or of what looks like one  *)
(* because the chunk does not begin where a packet does.                   *)
(***************************************************************************)
OnlyCutPublishThrows ==
  pc = "thrown" =>
    /\ type = PUBLISH
    /\ \A w \in OnTheWire : ~IsAtHead(w)

(* The handler comes to an end for every chunk. *)
Terminates == <>(pc \in Final)

(***************************************************************************)
(* Claims of the comments and documents of the repository.                 *)
(***************************************************************************)

(***************************************************************************)
(* doc/mqtt-v3.1.1-os.pdf, section 3.8.3: "The payload of a SUBSCRIBE      *)
(* Packet contains a list of Topic Filters".  The loop of                  *)
(* mqtt_parse_ctrl_subscribe is for such lists; every entry is reported.   *)
(***************************************************************************)
EveryFilterIsReported ==
  \A p \in Packet :
    p.type = SUBSCRIBE /\ pktbuf = Encode(p) /\ pc = "returned" =>
      printed = ReportOf(p)

(***************************************************************************)
(* src/include/mqtt_v311.h: "If the User Name Flag is set to 0, the        *)
(* Password Flag MUST be set to 0", and nothing for a User Name Flag of 1. *)
(* A CONNECT with a user name alone is reported without an error.          *)
(***************************************************************************)
UserNameAloneIsNoError ==
  \A p \in Packet :
    HasUserOnly(p) /\ pktbuf = Encode(p) /\ pc = "returned" => printed = ReportOf(p)

=============================================================================
