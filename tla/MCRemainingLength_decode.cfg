\* Up to the fifth length byte, every combination of boundary values.
SPECIFICATION Spec
CONSTANTS
  Byte <- BoundaryBytes
  Garbage <- BoundaryBytes
  Chunk <- ShortChunks
  MaxLen = 5
INVARIANT TypeOK
INVARIANT DecodesItsPrefix
INVARIANT ShortLengthsAreDecoded
INVARIANT ReadsOnlyTheChunk
