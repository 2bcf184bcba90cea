---------------------------- MODULE MCCloudClient ----------------------------
(***************************************************************************)
(* Two callers that build, publish and read the versions of one file, with *)
(* failed attempts.  Bodies have at most three bytes; u32::MAX and u64::MAX*)
(* are 3 and 7.                                                            *)
(***************************************************************************)
EXTENDS CloudClient, TLC

CONSTANTS f1, v1, v2, d1, k1, mA, mB

MCb3(bytes) == <<"b3", bytes>>

b1 == <<0, 1>>
bBig == <<1, 1, 1>>   \* larger than BodyLimit
MCBytes == {b1, bBig}
MCChunkId == {MCb3(b) : b \in MCBytes}

(* The two bytes of the chunk in turn; an empty file, and other content    *)
(* under the id of that.                                                   *)
MCManifests ==
  LET man(i, total, es, cs) ==
        [manifest_id |-> i, total_size |-> total, chunk_count |-> Len(es),
         entries |-> es, chunks |-> cs]
      e(at, len, off) == [logical_offset |-> at, length |-> len,
                          chunk_id |-> MCb3(b1), chunk_offset |-> off]
      k(size) == [chunk_id |-> MCb3(b1), size |-> size]
  IN  [ turned |-> man(mA, 2, <<e(0, 1, 1), e(1, 1, 0)>>, <<k(2)>>),
        empty |-> man(mB, 0, <<>>, <<>>),
        whole |-> man(mB, 2, <<e(0, 2, 0)>>, <<k(2)>>) ]

MCInputManifest == {MCManifests[n] : n \in DOMAIN MCManifests}

MCRequests ==
  {[op |-> "create_file", json |-> TRUE, parent_id |-> d1, name |-> 1, key |-> k1],
   [op |-> "stat_file", path |-> TRUE, file_id |-> f1],
   [op |-> "create_version", path |-> TRUE, json |-> TRUE, file_id |-> f1,
    version_id |-> v1, parent_version_id |-> None, manifest_id |-> mA],
   [op |-> "create_version", path |-> TRUE, json |-> TRUE, file_id |-> f1,
    version_id |-> v2, parent_version_id |-> v1, manifest_id |-> mB],
   [op |-> "commit_version", path |-> TRUE, version_id |-> v1],
   [op |-> "commit_version", path |-> TRUE, version_id |-> v2],
   [op |-> "get_manifest", path |-> TRUE, manifest_id |-> mA],
   [op |-> "get_chunk", chunk_id |-> MCb3(b1),
    range |-> [kind |-> "bytes", start |-> 1, end |-> 1]]}
  \cup {[op |-> "put_manifest", path |-> TRUE, json |-> TRUE,
         manifest_id |-> m.manifest_id, manifest |-> m] : m \in MCInputManifest}
  \cup {[op |-> "put_chunk", chunk_id |-> MCb3(b), body |-> b] : b \in MCBytes}

Symmetry == Permutations(Slot) \cup Permutations(Caller)
=============================================================================
