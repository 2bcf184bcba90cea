----------------------------- MODULE Corruptor -----------------------------
(***************************************************************************)
(* tools/corruptor: the edits the negative tests make to a manifest, and   *)
(* tests/generators' generate_manifest, which makes the manifest they      *)
(* start from.  The edited manifest is then read by Reassembly.  Entries   *)
(* are counted from 1.                                                     *)
(***************************************************************************)
EXTENDS Reassembly

CONSTANTS
  MaxFile,      \* bound on the size of generated files
  GeneratedId,  \* the addresses of generated chunks
  dangling,     \* the address of "corruptor::dangling reference"
  gen           \* the id of a generated manifest

ASSUME GeneratorAssumption ==
  /\ MaxFile \in U64 /\ gen \in ManifestId

ASSUME DanglingAssumption ==
  /\ GeneratedId \subseteq WellFormed
  /\ dangling \in WellFormed \ GeneratedId

-----------------------------------------------------------------------------
(***************************************************************************)
(* generate_manifest: full chunks, the last may be shorter, each chunk     *)
(* listed once, at its first use.  ids are the addresses of the bodies the *)
(* seed gives.                                                             *)
(***************************************************************************)
chunk_count(file_size, chunk_size) == (file_size + chunk_size - 1) \div chunk_size

BodyLen(file_size, chunk_size, k) ==
  LET left == file_size - (k - 1) * chunk_size
  IN  IF left < chunk_size THEN left ELSE chunk_size

Listed(chunks, id, len) ==
  IF \E j \in DOMAIN chunks : chunks[j].chunk_id = id THEN chunks
  ELSE Append(chunks, [chunk_id |-> id, size |-> len])

generate_manifest(file_size, chunk_size, ids) ==
  LET n == chunk_count(file_size, chunk_size)
      len(k) == BodyLen(file_size, chunk_size, k)
      chunks[k \in 0 .. n] ==
        IF k = 0 THEN <<>> ELSE Listed(chunks[k - 1], ids[k], len(k))
  IN  [manifest_id |-> gen, total_size |-> file_size, chunk_count |-> n,
       entries |-> [k \in 1 .. n |->
         [logical_offset |-> (k - 1) * chunk_size, length |-> len(k),
          chunk_id |-> ids[k], chunk_offset |-> 0]],
       chunks |-> chunks[n]]

(* Equal bodies have equal addresses, so equal addresses equal lengths. *)
Generated ==
  UNION {LET n == chunk_count(file_size, chunk_size)
         IN  {generate_manifest(file_size, chunk_size, ids) :
                ids \in {s \in [1 .. n -> GeneratedId] :
                           \A j, k \in 1 .. n : s[j] = s[k] =>
                             BodyLen(file_size, chunk_size, j)
                               = BodyLen(file_size, chunk_size, k)}} :
         file_size \in 0 .. MaxFile, chunk_size \in 1 .. MaxFile}

-----------------------------------------------------------------------------
swap_entries(m, a, b) ==
  [m EXCEPT !.entries =
     [k \in DOMAIN @ |-> IF k = a THEN @[b] ELSE IF k = b THEN @[a] ELSE @[k]]]

drop_entry(m, at) ==
  [m EXCEPT !.entries = SubSeq(@, 1, at - 1) \o SubSeq(@, at + 1, Len(@))]

(* total_size or chunk_count moved by one, not below zero. *)
Nudged(n) == {n + 1, IF n = 0 THEN 0 ELSE n - 1}
alter_total_size(m) == {[m EXCEPT !.total_size = n] : n \in Nudged(m.total_size)}
alter_chunk_count(m) == {[m EXCEPT !.chunk_count = n] : n \in Nudged(m.chunk_count)}

introduce_gap(m, at) ==
  [m EXCEPT !.total_size = @ + 1,
            !.entries = [k \in Entries(m) |->
              IF k > at THEN [m.entries[k] EXCEPT !.logical_offset = @ + 1]
              ELSE m.entries[k]]]

introduce_overlap(m, at) ==
  IF at + 1 \in Entries(m)
    THEN [m EXCEPT !.entries[at + 1].logical_offset = IF @ = 0 THEN 0 ELSE @ - 1]
    ELSE m

dangle_chunk_ref(m, at) == [m EXCEPT !.entries[at].chunk_id = dangling]

insert_zero_length_entry(m) ==
  IF m.entries = <<>> THEN m ELSE
  LET last == m.entries[Len(m.entries)]
  IN  [m EXCEPT !.chunk_count = @ + 1,
                !.entries = Append(@, [last EXCEPT !.logical_offset = LogicalEnd(last),
                                                   !.length = 0, !.chunk_offset = 0])]

EntryEdits(m) ==
  UNION {{drop_entry(m, at), introduce_gap(m, at), introduce_overlap(m, at),
          dangle_chunk_ref(m, at)} : at \in Entries(m)}

Swaps(m) == {swap_entries(m, a, b) : a, b \in Entries(m)}

Corruptions(m) ==
  alter_total_size(m) \cup alter_chunk_count(m)
  \cup {insert_zero_length_entry(m)}
  \cup EntryEdits(m) \cup Swaps(m)

(* The edits that change a generated manifest (swapping an entry with      *)
(* itself, or an overlap after the last entry, does not), as far as the    *)
(* result has u64 fields.                                                  *)
Corrupted ==
  UNION {{m \in Corruptions(g) : m # g /\ m \in Manifest} : g \in Generated}

(* CorruptionsCaught: a generated manifest is read, and after any edit of  *)
(* the corruptor that changes it, it is refused before the first request:  *)
(* each negative test fails for what it injected and nothing masks it.     *)
CorruptionsCaught ==
  /\ manifest \in Generated => result # "IntegrityManifestInvalid"
  /\ manifest \in Corrupted => pc \notin Reading /\ ~ValidManifest(manifest)
=============================================================================
