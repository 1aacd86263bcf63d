------------------------------ MODULE MCStreams ------------------------------
(* Small instances of Streams for TLC. *)
EXTENDS Streams

(* Host n has one address per network interface, here the number n. *)
Endpoint(host, port) == [hw |-> host, ip |-> host, port |-> port]

To(host, cport, server) ==
  [client |-> Endpoint(host, cport), server |-> Endpoint(server, 1883)]

Localhost == 127
Remote    == 9

(* Two connections of host 1 to the same broker, one over the loopback. *)
SharedIds == {To(1, 50001, Remote), To(1, 50002, Remote),
              To(Localhost, 50001, Localhost)}

=============================================================================
