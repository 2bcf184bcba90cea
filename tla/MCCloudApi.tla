----------------------------- MODULE MCCloudApi -----------------------------
(***************************************************************************)
(* Small instances of CloudApi: bodies of at most three bytes, u32::MAX    *)
(* and u64::MAX scaled down to 3 and 7, and the content address of a body  *)
(* written as the body itself under a tag.                                 *)
(***************************************************************************)
EXTENDS CloudApi, TLC

CONSTANTS f1, v1, v2, d1, k1, mA, mB

MCb3(bytes) == <<"b3", bytes>>

b1 == <<1>>
b2 == <<0, 1>>
bBig == <<1, 1, 1>>   \* larger than BodyLimit
MCBytes == {b1, b2, bBig}

MCWellFormed == {MCb3(b) : b \in MCBytes}
MCChunkId == MCWellFormed \cup {<<"bad", b1>>}

MCManifests ==
  [one |-> [manifest_id |-> mA, total_size |-> 1, chunk_count |-> 1,
            entries |-> <<[logical_offset |-> 0, length |-> 1,
                           chunk_id |-> MCb3(b1), chunk_offset |-> 0]>>,
            chunks |-> <<[chunk_id |-> MCb3(b1), size |-> 1]>>]]

MCInputManifest == {MCManifests[n] : n \in DOMAIN MCManifests}

bytes(start, end) == [kind |-> "bytes", start |-> start, end |-> end]

(* Uploads and reads of chunks, racing with each other and with a manifest *)
(* that needs one of them, and requests that are refused or touch no store.*)
ChunkRequests ==
  {[op |-> "put_chunk", chunk_id |-> MCb3(b), body |-> b] : b \in MCBytes}
  \cup {[op |-> "put_chunk", chunk_id |-> MCb3(b1), body |-> b2],
        [op |-> "put_chunk", chunk_id |-> <<"bad", b1>>, body |-> b1]}
  \cup {[op |-> "get_chunk", chunk_id |-> MCb3(b2), range |-> g] :
          g \in {[kind |-> "none"], [kind |-> "malformed"], bytes(0, 1),
                 bytes(1, None), bytes(1, 0), bytes(1, 2), bytes(0, 7),
                 bytes(2, None)}}
  \cup {[op |-> "health"], [op |-> "no_route"],
        [op |-> "slow", path |-> TRUE], [op |-> "slow", path |-> FALSE],
        [op |-> "stat_file", path |-> FALSE, file_id |-> f1],
        [op |-> "create_file", json |-> FALSE, parent_id |-> d1, name |-> 1,
         key |-> k1],
        [op |-> "put_manifest", path |-> TRUE, json |-> TRUE, manifest_id |-> mB,
         manifest |-> MCManifests.one],
        [op |-> "put_manifest", path |-> TRUE, json |-> TRUE, manifest_id |-> mA,
         manifest |-> MCManifests.one],
        [op |-> "get_manifest", path |-> TRUE, manifest_id |-> mA],
        [op |-> "list_children", path |-> TRUE, dir_id |-> d1]}
=============================================================================
