\* CONNECT with a user name and no password.
SPECIFICATION Spec
CONSTANTS
  Byte <- SomeBytes
  Garbage <- GarbageBytes
  Slack = 8
  dump_payloads = TRUE
  Packet <- AllPackets
  Chunk <- SingleChunks
INVARIANT UserNameAloneIsNoError
