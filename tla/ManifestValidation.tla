------------------------ MODULE ManifestValidation ------------------------
(***************************************************************************)
(* contracts::model and contracts::validate: what a manifest is and the    *)
(* rules it must obey before the store accepts it, before a version that   *)
(* names it is committed, and before the client reassembles a file.        *)
(*                                                                         *)
(* The fields come from the wire, so they are any u64; the code adds them  *)
(* with checked_add, which is an error past u64::MAX.                      *)
(***************************************************************************)
EXTENDS Contracts

CONSTANT ManifestId   \* manifest identities (UUIDs)

Chunk == [chunk_id : ChunkId, size : U64]

ManifestEntry ==
  [logical_offset : U64, length : U64, chunk_id : ChunkId, chunk_offset : U64]

Manifest ==
  [manifest_id : ManifestId, total_size : U64, chunk_count : U64,
   entries : Seq(ManifestEntry), chunks : Seq(Chunk)]

(* The number of segments of m, and the pairs of neighbours windows(2) yields. *)
Entries(m) == 1 .. Len(m.entries)
Windows(m) == 1 .. (Len(m.entries) - 1)

(* checked_add succeeds. *)
Fits(a, b) == a + b <= U64Max

LogicalEnd(e) == e.logical_offset + e.length

(***************************************************************************)
(* Manifest::chunk_size finds the first metadata record with that id.      *)
(***************************************************************************)
HasChunk(m, id) == \E k \in DOMAIN m.chunks : m.chunks[k].chunk_id = id

ChunkSize(m, id) ==
  LET first == CHOOSE k \in DOMAIN m.chunks :
                 /\ m.chunks[k].chunk_id = id
                 /\ \A j \in 1 .. (k - 1) : m.chunks[j].chunk_id # id
  IN  m.chunks[first].size

(* The sum of the entry lengths; the running sum of the code never exceeds *)
(* it, so the checked additions all succeed exactly when the total fits.   *)
LengthSum(es) ==
  LET sum[k \in 0 .. Len(es)] ==
        IF k = 0 THEN 0 ELSE sum[k - 1] + es[k].length
  IN  sum[Len(es)]

(***************************************************************************)
(* The named rules, each TRUE when the function of that name returns Ok.   *)
(***************************************************************************)
inv01_entries_sorted(m) ==
  \A k \in Windows(m) :
    m.entries[k].logical_offset <= m.entries[k + 1].logical_offset

inv02_entries_contiguous(m) ==
  \A k \in Windows(m) :
    /\ Fits(m.entries[k].logical_offset, m.entries[k].length)
    /\ LogicalEnd(m.entries[k]) >= m.entries[k + 1].logical_offset

inv03_no_overlap(m) ==
  \A k \in Windows(m) :
    /\ Fits(m.entries[k].logical_offset, m.entries[k].length)
    /\ LogicalEnd(m.entries[k]) <= m.entries[k + 1].logical_offset

inv04_starts_at_zero(m) ==
  m.entries # <<>> => m.entries[1].logical_offset = 0

inv05_lengths_sum_to_total(m) ==
  /\ LengthSum(m.entries) <= U64Max
  /\ LengthSum(m.entries) = m.total_size

inv06_count_matches(m) == m.chunk_count = Len(m.entries)

inv07_lengths_nonzero(m) == \A k \in Entries(m) : m.entries[k].length # 0

(* Fault: the addition wraps. *)
inv08_wrapping(m) ==
  \A k \in Entries(m) :
    LET e == m.entries[k]
    IN  /\ HasChunk(m, e.chunk_id)
        /\ (e.chunk_offset + e.length) % (U64Max + 1) <= ChunkSize(m, e.chunk_id)

inv08_chunk_offsets_within_chunk(m) ==
  \A k \in Entries(m) :
    LET e == m.entries[k]
    IN  /\ HasChunk(m, e.chunk_id)
        /\ Fits(e.chunk_offset, e.length)
        /\ e.chunk_offset + e.length <= ChunkSize(m, e.chunk_id)

inv09_chunk_ids_wellformed(m) ==
  /\ \A k \in DOMAIN m.chunks : m.chunks[k].chunk_id \in WellFormed
  /\ \A k \in Entries(m) : /\ m.entries[k].chunk_id \in WellFormed
                           /\ HasChunk(m, m.entries[k].chunk_id)
  /\ \A k \in DOMAIN m.chunks :
       \E j \in Entries(m) : m.entries[j].chunk_id = m.chunks[k].chunk_id

inv13_empty_file_is_valid(m) ==
  m.total_size = 0 => m.entries = <<>> /\ m.chunk_count = 0

(***************************************************************************)
(* validate_manifest returns Ok.  Every rule fails with the same code,     *)
(* IntegrityManifestInvalid, so the order of the checks shows only in the  *)
(* message.                                                                *)
(***************************************************************************)
ValidManifest(m) ==
  /\ inv13_empty_file_is_valid(m)
  /\ inv01_entries_sorted(m)
  /\ inv04_starts_at_zero(m)
  /\ inv02_entries_contiguous(m)
  /\ inv03_no_overlap(m)
  /\ inv07_lengths_nonzero(m)
  /\ inv05_lengths_sum_to_total(m)
  /\ inv06_count_matches(m)
  /\ inv09_chunk_ids_wellformed(m)
  /\ inv08_chunk_offsets_within_chunk(m)

(***************************************************************************)
(* VersionState: the only legal transition is Candidate -> Committed       *)
(* (invariant 10).                                                         *)
(***************************************************************************)
VersionState == {"Candidate", "Committed"}

can_transition_to(from, to) == from = "Candidate" /\ to = "Committed"
=============================================================================
