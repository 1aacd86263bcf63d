\* Every packet in a chunk of its own, and two in a row, cut anywhere.
SPECIFICATION FairSpec
CONSTANTS
  Byte <- SomeBytes
  Garbage <- GarbageBytes
  Slack = 8
  dump_payloads = TRUE
  Packet <- AllPackets
  Chunk <- AllChunks
INVARIANT TypeOK
INVARIANT SinglePacketIsReported
INVARIANT WholePacketsStayInChunk
INVARIANT FirstPacketIsReported
INVARIANT PublishIsReported
INVARIANT OnlyCutPublishThrows
PROPERTY Terminates
