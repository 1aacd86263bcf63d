------------------------------ MODULE MCCapture ------------------------------
(* Small instances of Capture for TLC. *)
EXTENDS Capture

Endpoint(host) == [hw |-> host, ip |-> host, port |-> 1883 + host]

Broker == 9

(* Two hosts with a connection each to the broker. *)
To(host) == [client |-> Endpoint(host), server |-> Endpoint(Broker)]
TwoHosts == {To(1), To(2)}

(* Packets in a segment each, and one in two segments. *)
Segments ==
  [d \in Stream |->
     CASE d = To(1)       -> <<"whole">>
       [] d = Flip(To(1)) -> <<"whole", "whole">>
       [] d = To(2)       -> <<"head", "tail">>
       [] OTHER           -> <<>>]

Host(n) == [type |-> "FILTER_MAC_T", param |-> n]
Ip(n)   == [type |-> "FILTER_IP_T", param |-> n]

Filters == {<<>>, <<Host(1), Ip(Broker)>>}

=============================================================================
