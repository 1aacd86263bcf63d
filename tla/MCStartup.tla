------------------------------ MODULE MCStartup ------------------------------
(* Command lines for TLC: many arguments in short lines, a few in longer. *)
EXTENDS Startup

Eth0  == <<"eth", "0">>
An    == <<"an">>
AnyIf == <<"any">>

(* Flags, values, values without a space, and texts that are nearly flags. *)
Arguments ==
  {<<"-i">>, <<"--iface">>, <<"-d">>, <<"-d", "ns">>, <<"-l">>, <<"-fm">>, <<"-fi">>,
   <<"-p">>, <<"-v">>, <<"-h">>, <<"-s">>, Eth0, An, AnyIf, <<>>,
   <<"-i", "eth", "0">>, <<"-d", "x">>, <<"-fi", "10">>, <<".", "5">>, <<"-", "7">>}

FewArguments ==
  {<<"-i">>, <<"-l">>, <<"-fi">>, <<"-p">>, <<"-d", "ns">>, <<"-h">>, Eth0, AnyIf, <<>>,
   <<"-i", "eth", "0">>, <<"-fi", "10">>, <<".", "5">>}

SomeCommands ==
  UNION {[1 .. n -> Arguments] : n \in 0 .. 3} \cup [1 .. 4 -> FewArguments]

SomeInterfaces == {Eth0, <<"lo">>}
SomeParts      == {An, AnyIf}
=============================================================================
