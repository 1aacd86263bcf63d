-------------------------- MODULE MCRemainingLength --------------------------
(* All chunks of up to MaxLen bytes over the boundary values of a byte. *)
EXTENDS RemainingLength

CONSTANT MaxLen

BoundaryBytes == {0, 1, 127, 128, 129, 255}

ShortChunks == UNION {[1 .. n -> BoundaryBytes] : n \in 0 .. MaxLen}

=============================================================================
