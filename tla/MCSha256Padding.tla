-------------------------- MODULE MCSha256Padding --------------------------
(* An instance of Sha256Padding for TLC: chunks around one and two blocks, *)
(* so that every length from 0 to MaxLength is reached in several ways.    *)
EXTENDS Sha256Padding

MCChunkSizes == {0, 1, 7, 55, 63, 64, 65, 130}
=============================================================================
