\* SUBSCRIBE with two entries.
SPECIFICATION Spec
CONSTANTS
  Byte <- SomeBytes
  Garbage <- GarbageBytes
  Slack = 8
  dump_payloads = TRUE
  Packet <- AllPackets
  Chunk <- SingleChunks
INVARIANT EveryFilterIsReported
