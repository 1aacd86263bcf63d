----------------------------- MODULE MCHandlePkt -----------------------------
(* Packets and chunks for TLC. *)
EXTENDS HandlePkt

(* Bytes for topics, names and payloads; 0 and 1 look like length bytes. *)
A == 65
Strings == {<<A>>, <<A, 1>>}
Ids     == {1, 258}

Connects ==
  {Connect(s, w, u, p) :
     s \in {<<>>, <<A>>},
     w \in {<<>>, <<[topic |-> <<A>>, message |-> <<>>]>>},
     u \in {<<>>, <<<<A, A>>>>}, p \in {<<>>, <<<<A>>>>}}

Publishes ==
  {Publish(d, 1, r, t, i, m) :
     d \in BOOLEAN, r \in BOOLEAN, t \in Strings, i \in Ids,
     m \in {<<>>, <<A, 1>>, <<A, 0, 1>>}}
  \cup {Publish(FALSE, q, FALSE, <<A>>, 1, m) : q \in {0, 2}, m \in {<<>>, <<A>>}}

Filter(t, q) == [topic |-> t, qos |-> q]

Subscribes ==
  {Subscribe(i, <<Filter(t, q)>>) : i \in Ids, t \in Strings, q \in 0 .. 2}
  \cup {Subscribe(1, <<Filter(<<A>>, q), Filter(<<A, 1>>, 1)>>) : q \in 0 .. 2}

Unsubscribes ==
  {Unsubscribe(i, <<t>>) : i \in Ids, t \in Strings}
  \cup {Unsubscribe(1, <<s, t>>) : s \in Strings, t \in Strings}

Subacks == {Suback(i, <<c>>) : i \in Ids, c \in {0, 2, 128}}
           \cup {Suback(1, <<c, d>>) : c \in {0, 128}, d \in {1, 128}}

Acks == {Ack(t, i) : t \in {PUBACK, PUBREC, PUBREL, PUBCOMP, UNSUBACK}, i \in Ids}
        \cup {Connack(c) : c \in {0, 5}}
        \cup {Bare(t) : t \in {PINGREQ, PINGRESP, DISCONNECT}}

AllPackets == Connects \cup Publishes \cup Subscribes \cup Unsubscribes
              \cup Subacks \cup Acks

(* One packet of every shape, for two packets in a row. *)
FewPackets ==
  {Connect(<<A>>, <<>>, <<<<A>>>>, <<<<A>>>>), Connack(0),
   Publish(FALSE, 0, FALSE, <<A>>, 1, <<>>),
   Publish(TRUE, 1, TRUE, <<A, 1>>, 258, <<A>>),
   Ack(PUBACK, 258), Subscribe(1, <<Filter(<<A>>, 1)>>), Suback(1, <<128>>),
   Unsubscribe(258, <<<<A, 1>>>>), Bare(PINGREQ)}

SomeBytes    == 0 .. 255
GarbageBytes == {0, 1, 255}

(* Each packet in a chunk of its own, and the empty chunk. *)
SingleChunks == {Encode(p) : p \in AllPackets} \cup {<<>>}

(* Two packets in a row in one chunk, or cut anywhere. *)
Rows == {EncodeAll(<<p, q>>) : p \in FewPackets, q \in FewPackets}

CutChunks == UNION {{SubSeq(r, i, j) : i \in DOMAIN r, j \in DOMAIN r} : r \in Rows}

AllChunks == SingleChunks \cup CutChunks

=============================================================================
