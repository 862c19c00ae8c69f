--------------------------- MODULE MCChunkContainer ---------------------------
(* An instance for TLC: one letter in two cases, chunks of two bytes. *)
EXTENDS ChunkContainer

MCLowerCase(c) == "a"
=============================================================================
