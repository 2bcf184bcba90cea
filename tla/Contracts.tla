----------------------------- MODULE Contracts -----------------------------
(***************************************************************************)
(* contracts::ids and the number types: what the client, the metadata      *)
(* store and the object store share.                                       *)
(*                                                                         *)
(* A ChunkId is deserialized as any string, and only ChunkId::parse checks *)
(* its form, so ChunkId holds malformed ids too.  U64Max and U32Max stand  *)
(* for u64::MAX and u32::MAX: proofs leave them open, TLC gives them small *)
(* values so that the overflow cases are reached.  None is Option::None    *)
(* and the absent entry of a map.                                          *)
(***************************************************************************)
EXTENDS Naturals, Sequences

CONSTANTS
  ChunkId,      \* the strings a ChunkId may hold
  WellFormed,   \* those of them that ChunkId::parse accepts
  U64Max,       \* u64::MAX
  None

ASSUME U64MaxAssumption == U64Max \in Nat
ASSUME WellFormedAssumption == WellFormed \subseteq ChunkId

U64 == 0 .. U64Max
=============================================================================
