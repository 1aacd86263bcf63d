# mqtt-dissector in TLA+

TLA+ modules of the MQTT dissector, TLC configurations that check them on small
instances, and proofs that TLAPS checks. Paths are relative to the root of the
repository; `dissect.cpp`, `mqtt.hpp` and `main.cpp` are in `src/`,
`tins_utils.hpp`, `mqtt_v311.h`, `clipp.h` and `loguru.hpp` in `src/include/`.

## The system

`main()` reads the command line with clipp, a header that is part of the
repository, chooses an interface and calls `dissect()`. That captures TCP packets
of port 1883 (and DNS queries, with `-dns`), lets libtins reassemble the TCP
streams, takes every chunk of stream payload for one MQTT packet and prints what
it contains. It also prints a notice when a stream opens (`+++`) and when it
closes (`---`), painted in a colour that tells the connections apart.

The program has one thread. `dissect()` hands each captured packet to the libtins
`StreamFollower` from `sniff_loop`. The follower calls back into the dissector,
and each callback runs to its end before the next packet is looked at:

    main -> clipp parse -> filters, interface -> dissect
    sniff_loop --DNS packet--> dns_cb
               --TCP packet--> StreamFollower --on_new_connection-----> addRmStream --push--> ConnPairs
                                 |  |  `----on_connection_closed--> addRmStream --pop---> ConnPairs
                                 |  `-------on_client_data --------> handle_mqtt_pkt --> mqtt_parse_*
                                 `----------on_server_data --------> handle_mqtt_pkt --> mqtt_parse_*

There are no locks, retries or persistence in it. What is hard is the environment:
the order in which streams open, close, time out and share ids, which segments the
capture sees and in which order, where TCP cuts the byte stream into chunks, and
what is on the command line.

The exception is loguru, the logger, which has a mutex and a thread of its own. It
is linked only when the program is made `WITH_LOGURU=y` (`Makefile:35-41`), and
even then nothing calls `enable_logging` or logs, so what is modelled of it is the
library of the repository, used from several threads.

### Inventory

| Component | State | Operations | What makes it correct | Status |
|---|---|---|---|---|
| Connection table, `ConnPairs` (`tins_utils.hpp:43-88`) | `_cm`, `_colmp`, `taken_colors` | `push`, `pop` | a known connection keeps its colour; a colour has one holder; no colour is lost | `ConnPairs`, proved |
| Stream notices (`dissect.cpp:119-191`) | the open streams (in libtins), the table, what was printed | `on_new_connection`, `on_connection_closed` | a close notice looks like its open notice; different connections look different | `Streams`, proved |
| Fixed header (`dissect.cpp:194-221`) | `pos`, `tmp`, `rlen`, `mult` | type byte, length loop | decodes a legal length, stays in the chunk, ends | `RemainingLength`, proved |
| Packet dissection (`dissect.cpp:75-117, 194-243`, `mqtt.hpp`) | `PktData`, `pos` | a parser per packet type | reports what is in the packet; stays in the chunk; ends | `HandlePkt`, `Wire`, proved but for its end |
| Capture loop, DNS callback (`dissect.cpp:245-331`) | the sniffer, the follower | packet handler, exception handler | reports in order, once, between the notices; an error of one stream should not end the others | `Capture`, proved |
| Capture filter (`dissect.cpp:268-298`) | a string | from `-dns`, `-fm`, `-fi` | selects what the options say | `Capture`, proved |
| TCP reassembly (libtins) | place and early segments per direction | segment, FIN, RST, limits | external; the source of chunks | `Follower`, external, partly, proved |
| Startup (`main.cpp`) | options | parse, help, version, choice of interface | no capture on an interface, or with a filter, that was not asked for | `Startup`, proved |
| Interface list (`tins_utils.hpp:90-159`) | a snapshot, taken before `main()` | `valid_name`, `validate_iface` | | with startup, partly |
| Command line parser (`clipp.h`) | position and scopes in the tree of parameters, matches, what is missing | one argument, the end | reads what a reader of the command line would | `CommandLine`, `Parser`, proved, partly |
| Help page (`clipp.h`) | position, closing brackets | `usage_lines`, `documentation` | what it says is accepted | `Usage`, checked, partly |
| Logging (`loguru.hpp`) | files, cutoff, indentation, mutex, flush thread | log, scope, add and remove files, shutdown, abort, exit | every file has its messages, in one order, and they are flushed | `Logger`, proved but for liveness, partly (no signals) |
| Payload dump (`dump.hpp`) | none | none, `DUMP_TYPE_NONE` | | no behaviour |
| Output macros (`debug.h`, `dissect.hpp`), logging wrappers | | | | text only; not called |
| Scripts, vendor lists | | | | not part of the program |

The behaviours that are hard to test are the `hazards` of `PROJECT.json`, each
at the line where it bites.

## The modules

`ColourPool` is the abstract specification: connections acquire a colour nobody
else has, unless it is one of `Shared`, keep it, and release it.

`ConnPairs` is the class of that name. `cm`, `colmp` and `taken_colors` are its
members; `reply` is the value a call returns and whether it printed `error`.
`push` is `PushKnown`, `PushNew` or `PushFull`; `pop` is `PopKnown` or
`PopUnknown`. A missing key of `colmp` reads as 0, which is what `operator[]`
of the map returns; that `pop` inserts it first does not outlive the call, since
`pop` erases it, but it is why the pop of a colourless connection frees colour
0. `push` and `pop` are enabled for every hash in every state.

`Streams` adds the callbacks. A stream is a pair of endpoints (MAC, address,
port) with a direction. `on_new_connection` and `on_connection_closed` both go
through `addRmStream`, which forms the id from the MAC and address of the client
and the *name* of the server address (`ip_hex_to_name`), so without ports, and
calls the table. `Forget` is the external event that the follower drops a stream
and tells nobody, because the program registers no termination callback. Three
variables are read by no action: `painted` (the colour of each open notice),
`orphaned` (streams whose table entry was popped by another stream with the same
id) and `leaked` (ids that stay in the table although no stream has them). The
hash of an id string is taken to be injective. What the reader of the output sees is
a pool of *ids* (`Announced`, `AnnouncedIn`): streams with one id have one entry of it,
and an id that a sibling has popped has left it.

`RemainingLength` is the first half of `handle_mqtt_pkt`: the type byte and one
action per iteration of the length loop. `At(i)` is what reading `pktbuf[i]` may
give: a byte of the chunk, the NUL that ends `std::string::c_str()`, or any of
`Garbage` behind it.

`Wire` is not code of the repository: it is how clients and brokers encode MQTT
packets, needed to say what the bytes in a chunk mean. `Packets` is the set of all
of them: strings without a NUL, payloads, will messages and passwords of any bytes.
Every Remaining Length in it is one byte; longer ones are the business of
`RemainingLength`.

`HandlePkt` is one callback from its start to its end. It takes the steps of
`RemainingLength` (`Header!ReadType`, `Header!ReadLength`) and adds the flags of
the first byte, the parser of each packet type and `parse_packet_id`. `printed` is
the output as a sequence of items. `pc` ends as `returned`, `malformed`, `thrown`
(an exception left the handler; in the program that ends the capture) or
`killed`. `behind` is how many bytes behind the NUL have been read: more
than `Slack` may end the program (`Segfault`). A payload length of -1 is passed to
`memcpy` as the largest `size_t`; a smaller one makes `new char[]` throw.
Strings are printed with `%s`, so up to their first NUL (`AsText`).

`Reporter` is the abstract specification of a capture: between the two notices of
a stream it goes through the segments of each direction in the order they were
sent, never back, and reports the packet at the place it has come to.

`Follower` is libtins as `dissect.cpp` uses it, not code of the repository.
Segments are numbered in the order of their sequence numbers. A direction has a
state, the segment waited for and the segments that came early; `Arrivals` says
what a captured segment makes of it and which segments are handed to the data
callback, all those that are in order now in one chunk.

`Capture` is `dissect()`. Packets of the wire are captured in any order, again, or
not at all, so that loss, repetition and reordering are in the choice of the next
packet. `BeginCapture` makes the filter and opens the sniffer, which may throw.
A packet that the filter selects is a DNS packet (`dns_cb`), ignored, the
beginning of a stream (`FollowSyn`, `FollowPartial`: data make a stream too, and
are then processed in a second step) or a packet of a followed stream
(`ProcessFollowed`), which may hand a chunk to `on_client_data` or
`on_server_data` and may finish the stream, whose close notice comes in the step
after (`Closed`). The dissection of a chunk has the outcomes that `HandlePkt` has:
the packet at the head of the chunk is reported, or, if the chunk does not begin
with a complete packet, anything is printed, the handler throws or the program is
killed. An exception leads to `caught` and ends the capture. `sniff_loop` may also
return by itself, because pcap reports an error or the interface is gone, or libtins
may throw of its own accord (`SnifferEnds`). Behind either `dissect()` has no return
statement, which is undefined (`FlowOffTheEnd`), and so ends as `returned` or `killed`.
The notices are the actions of `Streams`, used as `Notices`.

`CommandLine` is the tree of parameters of `main.cpp`, built by the operators of
clipp, and the walk over it (`scoped_dfs_traverser`) as positions with scopes.
`Parser` matches an argument: whole flags first, then flags joined with their
value, then values; it keeps what has been matched and what is still missing, and
`execute_actions` sets the variables. `Usage` makes the help page out of the same
tree, as tokens. Texts are sequences of pieces, as fine as needed to see that
`-d` begins `-dns` and that `-ieth0` is `-i` with a value. Recursion of clipp is
written as recursive functions over positions, or as folds over the arguments where it
loops over them.

`Startup` is `main()`: `Begin` (root check, no arguments), a `ParseNext` per
argument, `Execute`, `MakeFilters`, `ChooseInterface` and `Dissect`. `Reading` and
`Means` say how a person reads `argv`; the parser, which is given what `sanitize_args`
has made of it, is compared with that. Two things a person cannot know of are
exceptions with a name: a line that `sanitize_args` rewrites because an argument such as
`.5` follows digits or a sign (`IsRewritten`), and the name of an interface that is a
part of "any", which `main()` takes for "any" (`IsMistakenForAny`).

`Logger` is loguru. Each thread is at a place `th[t].at` in its call; a step is
what is done between two points where another thread may come in. `Check` reads the
cutoff without the mutex, `Enter` takes it, `Deliver` is one file, `Finish` flushes,
opens the scope or aborts and gives the mutex up. `AddCallback`, `RemoveCallback`
and `RemoveAllCallbacks` change the files and then, in `Maximum`, the cutoff.
`streams` is what `fopen` returned, never reused, so that a use after `fclose` can
be seen: it is undefined in C++, is recorded in `misuse` and has no other effect.
`Poll` and `FlushThread` are the thread that flushes, `Rotate` moves a file away.
`file_reopen` is one step, in which it closes the file, logs about it and opens it
again: it runs under the mutex, and no other thread can see a point in between. A
signal could, which is why there are none (see the end). `levels`, `lost`, `dropped` and `misuse`
are histories that no action reads.

Definitions marked as mutants are plausible mistakes in the definition that
follows them. Nothing uses them; they are there to see that a property notices.

| Module | Extends or uses | Model checking | Proofs |
|---|---|---|---|
| `ColourPool` | | | |
| `ConnPairs` | `ColourPool` | `MCConnPairs` | `ConnPairs_proofs` |
| `Streams` | `ConnPairs` as `Table`, `ColourPool` | `MCStreams` | `Streams_proofs` |
| `RemainingLength` | | `MCRemainingLength` | `RemainingLength_proofs` |
| `Wire` | | | in `HandlePkt_proofs` |
| `HandlePkt` | `Wire`; `RemainingLength` as `Header` | `MCHandlePkt` | `HandlePkt_proofs` |
| `Reporter` | | | |
| `Follower` | | | in `Capture_proofs` |
| `Capture` | `Follower`; `Streams` as `Notices`, `Reporter` as `Reports` | `MCCapture` | `Capture_proofs` |
| `CommandLine` | | | |
| `Parser`, `Usage` | `CommandLine` | | |
| `Startup` | `Parser`, `Usage` | `MCStartup` | `Recursion`, `Startup_proofs` |
| `Logger` | | `MCLogger` | `Logger_proofs` |

## What the runs show

| Run | Checks | Instance |
|---|---|---|
| `table_overflow` | `TakenIsHeld`, `NonZeroIsExclusive`, `ColourIsStable`, refinement of `ColourPool` with colour 0 shared | 5 ids, 3 colours |
| `table_freed` | a disagreement, see below | 5 ids, 3 colours |
| `streams_shared` | `TableIsAccountedFor`, `PaintedApart`, `UnsharedCloseNoticeMatches`, refinement of `ColourPool` by the ids that are announced | 3 connections, two with one id and one over the loopback, 2 colours |
| `streams_mismatch` | a disagreement, see below | as `streams_shared` |
| `length_decode` | `DecodesItsPrefix`, `ShortLengthsAreDecoded`, `ReadsOnlyTheChunk` | all chunks of up to 5 bytes of 6 values |
| `length_four` | a disagreement, see below | as `length_decode` |
| `packets` | `SinglePacketIsReported`, `WholePacketsStayInChunk`, `FirstPacketIsReported`, `PublishIsReported`, `OnlyCutPublishThrows`, `Terminates` | every packet of `AllPackets` alone in a chunk, the empty chunk, and every part of every two of 9 packets in a row |
| `packet_filters`, `packet_username` | disagreements, see below | every packet alone |
| `capture_streams` | `FollowsWhatWasAskedFor`, `OnlyEarlyPacketsAreLost`, `OnlyReorderingJoinsPackets`, `FinishIsAnnounced`, refinement of `Reporter` | 2 connections, 2 colours, up to 2 segments in a direction, with and without filters |
| `startup_commands` | `ReadsAsWritten`, `HelpIsTrue`, `EveryArgumentIsInReach`, `NoTextIsLost`, `CapturesWhatWasAskedFor` | every command line of up to 3 of 19 arguments and of 4 of 12 |
| `log_files` | `OneOrder`, `EveryFileHasIt`, `DropsOnlyInAChange`, `ClosedOnlyThere`, `IndentedByOpenScopes`, `TheLastWordIsWritten`, `EverythingIsFlushed` | 2 threads, 3 calls, two paths of which one is rotated once |

Every passing run but `streams_shared` also checks the type invariant of its module
(that of `Streams` is part of the one of `Capture`). `log_files`, the largest, has 1.16
million distinct states.
Deadlock is checked everywhere. `ConnPairs` and `Streams` never stop; the others
have an explicit step for the end or for waiting (`Done`, `Idle`, `HasEnded`), so
that a deadlock is a state in which the program should go on and cannot.

What the runs show of the modules that are not about a disagreement:

* `capture_streams`: whatever the capture misses, sees twice or in another order,
  the packets of a direction are reported in the order they were sent, none twice
  and none outside of the notices of its stream. A whole packet is passed over only
  if it was captured before a segment it had to wait for, or if it lies in one chunk
  behind a first segment that was captured before the SYN-ACK. A packet in two segments
  is reported only if one of them was captured before its turn, so by accident: in order
  its head and its tail are taken for packets of their own, and a PUBLISH cut so may
  end the capture of all streams. "Once" is within one following of a stream: of one
  that is closed, or forgotten, and then joined in the middle because of a
  retransmission, packets may be reported again, between new notices.
* `startup_commands`: for every command line that `sanitize_args` does not rewrite clipp
  does what a reader expects, with these observations. Actions run even if the parse has errors. An empty argument is
  ignored without a word. A flag directly after an option that wants a value is read
  as that flag, and the value is missing. `-d` and `-l` are read and used by nothing.
  `-ieth0` works, `-dxyz` is unknown. The help page nowhere says `--iface`.
  Two kinds of input mean something else than they say, and nothing is claimed of them.
  `eth0` followed by `.5` becomes `eth` and `0.5` (`clipp.h:4987`), so an interface may
  lose its number to the next argument, and `-i eth0 -fi10 .5` captures with the filter
  "ip host 10.5". An interface whose name is a part of "any", the empty name included, is
  a capture on all of them (`main.cpp:115`). The model of clipp and the
  compiled header were compared on all 27,975 command lines of the instance: the
  options, the errors and the help page agree.
* `log_files`: a message is dropped only by a check that falls into
  `on_callback_change`, which sets the cutoff to OFF before it finds the maximum. A
  closed stream is used in two places: `add_file` writes its header without the
  mutex, and the flush after the messages about a file that is being reopened finds
  the closed file. A message that finds a file moved is in the reopened file, and in the
  other file too.

### Bounds

* Colours: 2 to 4 in place of 8. The code treats all alike but 0, and every
  path needs only that the pool can be full (more ids than colours) and that a
  colour other than 0 exists. The proofs are for any number.
* Ids and connections: more than colours. With five ids and three colours two
  connections are colourless at once, and one can be popped while the other
  stays; with three connections and two colours one is colourless.
  Connections occur in both directions, as partial streams do.
* Chunks of `RemainingLength`: five bytes are the longest header the loop reads,
  type byte included, and the values are the boundaries of the continuation bit
  and of the 7 bits. The proofs are for chunks of any length and any bytes.
* Packets: strings of 0 to 2 bytes, some of which look like a length;
  all combinations of will, user name and password; QoS 0 to 2; one and two
  filters or return codes; identifiers 1 and 258, with different bytes.
  A topic of one or two bytes suffices since the parsers never look into a
  string.
* `Garbage` is 0, 1 and 255: a short string, a slightly longer one and one that
  reaches far away. `Slack` is 8, so both outcomes of a read behind the chunk
  occur.
* `Capture`: two hosts with a connection each, in both directions; one direction
  with two packets, one with one, one with a packet in two segments and one without
  data. Two segments are enough for a gap, a repetition, an early segment and a chunk
  of two; two connections for an exception that ends a stream that has nothing to do
  with it. Packets are cut only between segments: what bytes inside of a chunk do is
  the business of `packets`. Both streams are `Forgettable`.
* `Startup`: the arguments are every short flag, a long one, values, values joined with
  their flag, texts that are nearly flags, an empty one, and those that `sanitize_args`
  changes. Three arguments suffice for an option with its value and another in any
  position; four for two options with their values.
* `Logger` (`MaxCalls`, `MaxRotations`): two calls of the main thread and one of the
  other, besides the ends of scopes and the flush thread, which are not bounded. In
  `log_files` both of the two paths may be added, or one twice, each with the verbosity
  ERROR or 1, and one is moved once and perhaps not opened again. Two settings: all
  flushed at once, with stderr for errors, or a flush interval and nothing on stderr.
  The third combination, a flush interval with stderr, doubles the states; stderr is
  written and flushed by the same operators as the files, and the proofs are for any.

### Fairness

`ConnPairs`, `Streams` and `Capture` have none: nothing obliges a connection to open
or to close, nor a packet to be captured. `HandlePkt!FairSpec` has weak fairness of
the step of the handler. A callback is straight-line C++ in the only thread,
waits for nothing and is not preempted by other parts of the program, so an
enabled step is taken. `Segfault` is not fair. `Logger!FairSpec` has weak fairness of
a thread in the middle of a call (it does not stop there, and a mutex that is given up
again and again is got in the end because the calls are bounded), of `Poll` (the flush
thread sleeps for an interval and looks again) and of `FlushThread`. No thread has to
make a call and no file has to be moved.

### Disagreements with the comments and documents

* `table_freed`: `pop` of a connection that got no colour clears
  `taken_colors[0]` although another connection has colour 0. The comment at
  `tins_utils.hpp:81` says "mark as free again".
* `streams_mismatch`: the id of a stream has no port, so two connections of one
  host to the same server share an entry. The first close pops it; the second
  prints `error` and a close notice in colour 0. The comment at
  `tins_utils.hpp:87` says "return the old color so it prints matching close
  notice".
* `length_four`: the fourth length byte is always malformed. Section 2.2.3 of
  `doc/mqtt-v3.1.1-os.pdf` says "The maximum number of bytes in the Remaining
  Length field is four". (The pseudocode of that section has the same test in the
  same place; its text and its table of values do not.)
* `packet_filters`: the loop over topic filters does not step over the QoS, so the
  second filter is read one byte too early. Section 3.8.3 of
  `doc/mqtt-v3.1.1-os.pdf` says "The payload of a SUBSCRIBE Packet contains a
  list of Topic Filters", and the loop counts them.
* `packet_username`: a CONNECT with a user name and without a password is reported as an
  error (`mqtt.hpp:219`), which `mqtt_v311.h:84` says only of the opposite: "If the User
  Name Flag is set to 0, the Password Flag MUST be set to 0".

What holds with those exceptions is the subject of the passing runs: `IsSupported`
leaves out of `SinglePacketIsReported` lists of several entries (`IsParsed`) and a
user name alone (`HasUserOnly`), and nothing else. Four more are no runs of their own:

* A second packet in a chunk is not reported, or is taken for payload of the first
  (`dissect.cpp:232-243`), although `README.md:3` says that the program dissects MQTT
  packets. `FirstPacketIsReported` says so of a packet whose fields end by themselves:
  what is printed of the chunk is the report of this packet, and no more.
* One return code of a SUBACK is read (`mqtt.hpp:288`). Section 3.9.3 of
  `doc/mqtt-v3.1.1-os.pdf` says "The payload contains a list of return codes".
* `parse_packet_id` reads the identifier of SUBSCRIBE, SUBACK and UNSUBSCRIBE from where
  the body's parser stopped, which is behind it. The value is never printed; only that of
  a PUBACK is, which is right.
* A payload is printed up to its first NUL, which `SinglePacketIsReported` and
  `PublishIsReported` also say.

One mistake is in code that the program does not reach: `group_surrounders` of
clipp appends `label_prefix` where it means the postfix (`clipp.h:5857`), and the
program has no labelled groups.

## What is proved

For every value of the constants that satisfies the named `ASSUME`s of the modules,
which TLC evaluates in every run: any set of ids or connections and any number of
colours of at least one (`ColorAssumption`), and what each module adds below. Every
theorem that names a property of a run is in the list `theorems` of `PROJECT.json`.

* `ConnPairs_proofs`. The inductive invariant is `TypeOK`, `TakenIsHeld` and
  `NonZeroIsExclusive` together: that `push` gives nobody a colour that is in use
  needs to know that the holder of a colour other than 0 has it marked, and
  that `pop` of a colourless connection may free colour 0 must not break that,
  which is why 0 is exempt. From it follow `ColourIsStable` and, with
  `Painted` as the refinement mapping, `ImplementsPool`. `FewIdsNeverShare` adds
  the assumption that there are at most as many ids as colours. Then a colour is
  free whenever a new connection comes, by counting: if all were taken, each
  would have a holder, the holders are fewer than the ids because the new one is
  not among them, so fewer than the colours.
* `Streams_proofs`, for any connections (`ConnectionAssumption` only says that they
  are records of two endpoints). The inductive invariant is `TypeOK`, the invariant of the
  table, `TableIsAccountedFor` and `ColourIsKept`: the table has a stream's
  colour only as long as it has its id, so the two need each other. The lemmas of
  `ConnPairs_proofs` are used for the instance whose hashes are the ids of
  streams. `PaintedApart` and `UnsharedCloseNoticeMatches` follow, and so does
  `NoticesImplementPool`: the ids that are announced, each in the colour of the open
  notice of a stream that has it and was not orphaned, implement the pool that may share
  colour 0. No assumption about ids is made, so that this holds of two clients of one
  broker, and of two connections with the same id. The step that is not obvious is the
  open notice of an id that is announced already: the new stream must have the colour
  that all the others have, which `ColourIsKept` says.
* `RemainingLength_proofs`, for chunks of any length and any bytes
  (`ByteAssumption`, `GarbageAssumption`, `ChunkAssumption`). The inductive invariant
  adds to `TypeOK` and `DecodesItsPrefix` how far the loop has come in terms of `pos`
  (`Progress`), that every byte read but the last continues (`Continued`) and why the
  loop ended (`Ended`). The bytes of the length are kept apart from the number 128:
  the proofs use only that it is a number above 1.
* `HandlePkt_proofs`, for chunks of any bytes and length, any bytes behind them, and
  every packet of MQTT 3.1.1 whose Remaining Length is below 128
  (`PacketAssumption`), with the exceptions of `IsSupported`. The inductive invariant `IInv` says, of every packet that the
  chunk begins with, what has been read and printed of it at each `pc` (`HeadInv`). In
  the fields of a CONNECT this is a stage per field, from `AtIdField` to
  `AtLastField`: which fields are still to come, where the next one begins, which
  texts are in `_mqttInfo`. In the loop over filters it is which of them has been
  reached. A SUBSCRIBE or an UNSUBSCRIBE is taken apart right only if it fills the
  chunk (`Covered`), since the loop goes on to the end of the chunk; the others are,
  whatever follows. `SinglePacketIsReported`, `FirstPacketIsReported`,
  `PublishIsReported` and `WholePacketsStayInChunk` are read off the end of that;
  `OnlyCutPublishThrows` follows since no `HeadInv` holds of `thrown`, and only
  `ParsePublish` goes there. That the payload printed of a PUBLISH begins with its own
  although both are cut at their first NUL is the lemma `TextPrefix`. The first half of
  the module is about `Wire`: what a packet of each type consists of, and where each of
  its fields lies in a chunk that begins with it (`Holds`). The lists of a packet are
  flattened sequences of texts. What has been flattened up to each entry (`UpTo`) is
  shown to exist by the least number for which it would not, and gives the place where
  the next entry begins.
* `Capture_proofs`, for any connections, any number of segments with any contents
  (`ContentAssumption`) and any filters. The inductive invariant is that of the
  notices together with `FlowsAreSent` (what is early was sent and lies beyond the
  segment waited for), what is known while a packet is in the hands of the follower
  (`InProcess`), what the filter is (`FilterIsMade`), and `FinishedIsClosed`: a finished
  stream is closed before anything else is captured, which is why the limits of the
  follower never drop one without its notice. From it follow
  `FollowsWhatWasAskedFor`, `FinishIsAnnounced`, `OnlyEarlyPacketsAreLost` and
  `OnlyReorderingJoinsPackets`, for which a chunk of more than one segment must contain
  one that came early. Every
  step of a capture is one of `Streams` or leaves it alone
  (`CaptureImplementsStreams`), so what `Streams_proofs` shows holds of captures; and
  every step is one of `Reporter` or a stutter (`CaptureImplementsReporter`): a chunk
  that is reported is ahead of all that has been reported of its direction. The lemmas
  about `Follower` come first: what it hands on when a segment arrives is an interval
  that begins with the segment waited for, and what it keeps lies beyond the next gap,
  for a direction of any number of segments.
* `Logger_proofs`, for any threads, paths, levels, flush intervals and stderr
  verbosities (`ThreadsAssumption`, `LevelsAssumption`, `SettingsAssumption`) and
  any bounds. The inductive invariant says who holds the mutex at which place
  (`Holders`), that every registered file has an open stream of its own
  (`FilesAreOpen`, `FilesAreApart`, `AddedIsOpen`), that the maximum verbosity is right
  while nobody changes the files (`MaximumIsKnown`), that no text has a message before
  its turn (`TextsInOrder`), how far the message in delivery has come (`Delivering`),
  that everything else has arrived or is recorded as lost (`Everywhere`) and that open
  scopes are counted (`ScopesAreCounted`, `Ending`). The lemmas have a step per action;
  those that neither deliver nor change files are treated at once (`Quiet`).
* `Startup_proofs`, for command lines of any number of arguments, each a text of any
  length (`CommandsAssumption`); the tree of parameters is the one of `main.cpp`. It
  goes from the small to the large:
  1. The walk over the tree. The traverser is at a parameter, at a group or past the end,
     and between two arguments it is either idle, with every parameter in reach, or waits
     for the value of a flag that has just been read (`PosOK`).
  2. What an argument matches, as a whole, joined with a flag, or as a text (`TryWhole`,
     `TryJoined`, `TryText`), from either kind of position, and where the parser is
     then. Which parameter has an argument that begins like two
     flags (`-d`, `-dns`) is settled here.
  3. One argument. `LinkedAt` links the parser to the reader `Means` after as many
     arguments: they have seen the same options and the same values, the parser waits
     for a value exactly where the reader does, a value is missing where the reader has
     an unfinished option, and the actions of the matches so far give the reader's
     options. `FirstLink` and `ArgumentStep` are the start and the step of that.
  4. The end. The errors of the parser are those of the reader (`SameErrors`), and
     `sanitize_args` changes neither the number of arguments nor the text they make
     together (`Sanitized`).
  5. The inductive invariant `StartupInv` (`StartupInvariant`): the link while the
     command line is parsed, and a `Stage` that says for each `pc` what has been read,
     decided and called: `Beginning`, `Alone`, `Reads`, `Decided`, `Filtered`, `Chosen`,
     `Refused`, `Captures`. `ReadsAsWritten`, `EveryArgumentIsInReach`, `NoTextIsLost`,
     `CapturesWhatWasAskedFor` and `TypeOK` are read off it. None of them is inductive:
     what an argument means depends on where the walk is when it comes. The link is
     between the parser and a reader of `args`; a line that is not `IsRewritten` is left as
     it is by `sanitize_args` (`Sanitized`), so that a reader of `argv` reads the same
     (`ReadAsItStands`). Of other lines only `NoTextIsLost`, `EveryArgumentIsInReach` and
     that only root captures are claimed.
* `Recursion` is what the operators of clipp need. The induction theorems of the library
  take an operator and cannot be used here, so a recursive function is unrolled by the
  least argument for which the claim would be false: folds over a sequence, functions
  that go down the tail of one, and functions whose argument gets smaller by a measure.
  The operator of the recursion is a constant of the module, which is instanced for
  each recursion of the model.

`FewIdsNeverShare`, `OnlyLongIsMalformed` and `CaptureImplementsStreams` are proved and
in no run: the first is about instances that the run is chosen not to be, the others
about what other properties of their runs cover.

Only model-checked are

* liveness, `Terminates` and `EverythingIsFlushed`, which is out of the prover's reach;
* `HelpIsTrue`: whether a line of the help describes a command line (`Describes`) is
  decided by a recursion over both, with a choice at every option that may be left out.
  It speaks of the lines that `Usage` makes of the tree, which TLC computes; that
  every command line they describe is free of errors follows from no link of the kind
  `Startup_proofs` has;
* the disagreements, which are counterexamples.

## Plan

Done: all modules above with their runs, and the proofs of every component that is
modelled but the help page. What is left:

1. `HandlePkt`: which single steps may read behind a chunk that is cut, and by how much.
2. `HelpIsTrue` for every command line, by a description of the lines of the help page
   as sequences of options, each there or not.

## Not modelled, and why

* clipp: alternatives, joinable and repeatable groups, greedy parameters, number
  matchers, filters of texts, interpolation of labels and the printing of groups for
  debugging, which `main.cpp` does not use; line wrapping and columns of the help.
* loguru: `init` and its arguments, the preamble, stack traces and error contexts, the
  stream and check macros, `create_directories`, the text helpers and a custom handler
  of fatal messages: text, or not a part of what is logged where. What a closed stream
  does when it is used is undefined and left out but for its record.
* Signals. The handler of loguru logs and flushes in the thread that the signal hits
  (`loguru.hpp:2961-3011`), which may hold the mutex: it is recursive, so the handler
  goes ahead between any two statements of a critical section, between the `fclose` and
  the `fopen` of `file_reopen` or between the close of a file and its removal from the
  list. The modules take a critical section for one step where no other thread sees a
  difference, so what they show holds up to the first signal and not from it on. The
  comment at `loguru.hpp:2996` calls what the handler does unsafe.
* libtins: sequence numbers, windows and the clock. Its limits are the choice to
  forget a stream of `Forgettable` at any time.
* The dumps of `IfaceInfo`, the colour macros, `print_buf_*` and the wording of what is
  printed have no state a property depends on; `dump.hpp` is compiled to nothing;
  `enable_logging` is called by nothing; the scripts are run by hand.
* Memory: the strings of a CONNECT are never deleted.
* The uninitialised members of `PktData` are never printed: flags are set and used for
  PUBLISH only, the identifier of a PUBACK is always read before it is printed; the
  model starts them at 0.
