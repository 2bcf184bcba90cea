-------------------------- MODULE MCMetadataStore --------------------------
(***************************************************************************)
(* Small instances of MetadataStore.  U64Max is 2, so sizes 0, 1 and 2     *)
(* exist and 1 + 2 overflows.                                              *)
(***************************************************************************)
EXTENDS MetadataStore, TLC

CONSTANTS c1, c2, cBad, mA, mB

MCManifests ==
  LET e(at, len, c, off) ==
        [logical_offset |-> at, length |-> len, chunk_id |-> c, chunk_offset |-> off]
      k(c, size) == [chunk_id |-> c, size |-> size]
      man(i, total, es, cs) ==
        [manifest_id |-> i, total_size |-> total, chunk_count |-> Len(es),
         entries |-> es, chunks |-> cs]
  IN  { \* two entries served by one chunk
        man(mA, 2, <<e(0, 1, c1, 0), e(1, 1, c1, 0)>>, <<k(c1, 1)>>),
        \* the same id with other content: the second byte of a larger chunk
        man(mA, 1, <<e(0, 1, c2, 1)>>, <<k(c2, 2)>>),
        \* an empty file
        man(mB, 0, <<>>, <<>>),
        \* lengths that only sum to total_size modulo 2^w
        man(mB, 1, <<e(0, 2, c2, 0), e(2, 2, c2, 0)>>, <<k(c2, 2)>>),
        \* a chunk id that does not parse
        man(mB, 1, <<e(0, 1, cBad, 0)>>, <<k(cBad, 1)>>) }

Symmetry == Permutations(FileId) \cup Permutations(VersionId)
              \cup Permutations(IdempotencyKey)
=============================================================================
