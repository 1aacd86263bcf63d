SPECIFICATION Spec
CONSTANTS
  Byte <- BoundaryBytes
  Garbage <- BoundaryBytes
  Chunk <- ShortChunks
  MaxLen = 5
INVARIANT FourByteLengthsAreDecoded
