---------------------------- MODULE MCReassembly ----------------------------
(***************************************************************************)
(* Small instances of Reassembly.  u64::MAX is scaled down to 3, so a sum  *)
(* of two lengths overflows, and u32::MAX to 1, so a range of two bytes is *)
(* already longer than get_range can be asked for; isize::MAX is 2, so a   *)
(* valid manifest may give a size no Vec can have, and a Vec of two bytes  *)
(* may or may not find memory.                                             *)
(***************************************************************************)
EXTENDS Corruptor, TLC

MCb3(bytes) == <<"b3", bytes>>

(* Two chunk bodies, and the byte strings faults can turn them into. *)
bOne == <<1>>
bTwo == <<0, 1>>
MCBytes == UNION {[1 .. n -> 0 .. 1] : n \in 0 .. 2}

cOne == MCb3(bOne)
cTwo == MCb3(bTwo)
cBad == <<"bad", "does not parse">>
cX == <<"x", "generated">>
cY == <<"y", "generated">>
cDangling == <<"z", "corruptor">>
MCWellFormed == {cOne, cTwo, cX, cY, cDangling}
MCChunkId == MCWellFormed \cup {cBad}

entry(at, len, c, off) ==
  [logical_offset |-> at, length |-> len, chunk_id |-> c, chunk_offset |-> off]
meta(c, n) == [chunk_id |-> c, size |-> n]
man(total, count, es, cs) ==
  [manifest_id |-> gen, total_size |-> total, chunk_count |-> count,
   entries |-> es, chunks |-> cs]

(***************************************************************************)
(* The manifests whose reads are followed to the end: whole and partial    *)
(* entries, one chunk used twice, metadata that overstates a chunk, an     *)
(* entry too long for a range read, an empty file, one too large for a     *)
(* Vec, and invalid ones.                                                  *)
(***************************************************************************)
ReadManifests ==
  {man(0, 0, <<>>, <<>>),
   man(1, 1, <<entry(0, 1, cOne, 0)>>, <<meta(cOne, 1)>>),
   man(2, 2, <<entry(0, 1, cOne, 0), entry(1, 1, cTwo, 1)>>,
       <<meta(cOne, 1), meta(cTwo, 2)>>),
   man(2, 2, <<entry(0, 1, cTwo, 1), entry(1, 1, cTwo, 0)>>, <<meta(cTwo, 2)>>),
   man(3, 3, <<entry(0, 1, cTwo, 1), entry(1, 1, cOne, 0), entry(2, 1, cTwo, 0)>>,
       <<meta(cTwo, 2), meta(cOne, 1)>>),
   man(2, 1, <<entry(0, 2, cTwo, 0)>>, <<meta(cTwo, 2)>>),
   man(2, 2, <<entry(0, 1, cOne, 0), entry(1, 1, cOne, 1)>>, <<meta(cOne, 2)>>),
   man(1, 1, <<entry(0, 1, cBad, 0)>>, <<meta(cBad, 1)>>),
   man(1, 2, <<entry(0, 1, cOne, 0), entry(1, 1, cOne, 0)>>, <<meta(cOne, 1)>>),
   man(1, 2, <<entry(0, 2, cTwo, 0), entry(2, 3, cTwo, 0)>>, <<meta(cTwo, 3)>>)}

(***************************************************************************)
(* For the validator: every manifest of at most two entries over two good  *)
(* chunk ids and one that does not parse, with every combination of file   *)
(* offsets and lengths up to u64::MAX, and the lists of chunks below; the  *)
(* second record of the last list is never looked at.  Then, among all the *)
(* manifests, two whose chunk_count is wrong.                              *)
(***************************************************************************)
AnyEntry ==
  {entry(at, len, c, off) :
     at \in U64, len \in U64, c \in {cOne, cTwo}, off \in {0, U64Max}}
  \cup {entry(at, len, cBad, 0) : at \in U64, len \in U64}

SomeChunks ==
  {<<>>, <<meta(cOne, 2)>>, <<meta(cBad, 3)>>, <<meta(cTwo, 1), meta(cOne, U64Max)>>,
   <<meta(cOne, 1), meta(cOne, U64Max)>>}

Miscounted ==
  {man(0, 1, <<>>, <<>>), man(1, 2, <<entry(0, 1, cOne, 0)>>, <<meta(cOne, 2)>>)}

MCGeneratedId == {cX, cY}

AllManifests ==
  ReadManifests \cup Miscounted \cup Generated \cup Corrupted
  \cup {man(total, Len(es), es, cs) :
     total \in U64, cs \in SomeChunks,
     es \in UNION {[1 .. n -> AnyEntry] : n \in 0 .. 2}}

(* A read that is followed to the end starts with each chunk either stored *)
(* or absent; the others find nothing stored.                              *)
MCStoredFor(m) == IF m \in ReadManifests THEN SUBSET Stored ELSE {{}}
=============================================================================
