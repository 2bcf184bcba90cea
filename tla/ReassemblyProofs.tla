-------------------------- MODULE ReassemblyProofs --------------------------
(***************************************************************************)
(* Machine-checked proofs about Reassembly: what the client may conclude   *)
(* from a manifest that passed validation and from a read that returned,   *)
(* for every manifest, every byte string and every width of the integers;  *)
(* and about Corruptor, that each edit of a valid manifest is refused.     *)
(***************************************************************************)
EXTENDS Corruptor, ManifestProofs

USE U64MaxAssumption

(***************************************************************************)
(* The inductive invariant.  The loop of inv05 has added up to where its   *)
(* last entry ends, because the rules before it make the entries tile the  *)
(* file; while entries are read, the manifest is valid, the segments       *)
(* before the loop index are exact, and what the server has said of a      *)
(* chunk that no fault has hit is what it would say now.                   *)
(***************************************************************************)
(* Where the first n entries end. *)
EndOf(m, n) == IF n = 0 THEN 0 ELSE LogicalEnd(m.entries[n])

(* A chunk no fault has hit is stored as it was, or was never stored. *)
BlobsIntact ==
  \A c \in ChunkId \ damaged :
    blobs[c] # None => c \in Stored /\ blobs[c] = Body(c)

Progress ==
  /\ result = "running" <=> pc # "done"
  /\ pc = "validate" => i = 1 /\ sum = 0
  /\ pc = "sum" => BeforeSum(manifest) /\ sum = EndOf(manifest, i - 1)
  /\ pc \in Reading => ValidManifest(manifest)
  /\ pc \in Reading \ {"fetch"} => i <= Len(manifest.entries)
  /\ result = "IntegrityManifestInvalid" => ~ValidManifest(manifest)

EntryRange ==
  [kind |-> "bytes", start |-> Entry.chunk_offset,
   end |-> Entry.chunk_offset + Entry.length - 1]

(* What the server says of the current entry, asked now. *)
AnswerNow ==
  IF blobs[Entry.chunk_id] = None THEN Answer("ChunkNotFound", None)
  ELSE RangeReply(Entry.chunk_id, EntryRange, Len(blobs[Entry.chunk_id]))

ReplyOK ==
  \/ /\ reply.shape = "success" /\ reply.code = "Ok"
     /\ reply.val.body \in Seq(0 .. ByteMax)
     /\ Entry.chunk_offset = 0 => reply.val.body \in Bytes
  \/ /\ reply.shape = "ErrorResponse"
     /\ reply.code \in {"ChunkNotFound", "InvalidParameter",
                        "IntegrityHashMismatch", "IntegrityLengthMismatch"}
  \/ reply = Closed

Exchange ==
  /\ (pc = "headed" /\ Entry.chunk_id \notin damaged) =>
       /\ blobs[Entry.chunk_id] # None
       /\ size = Len(blobs[Entry.chunk_id])
  /\ pc = "headed" => size \in U64
  /\ pc = "answered" => ReplyOK
  /\ (pc = "answered" /\ Entry.chunk_id \notin damaged) => reply = AnswerNow

Exact(k) ==
  LET e == manifest.entries[k]
  IN  (Whole(manifest, e) \/ e.chunk_id \notin damaged) => SegmentExact(e)

Filled == pc \in Reading => \A k \in 1 .. (i - 1) : Exact(k)

ReadInv ==
  /\ TypeOK
  /\ BlobsIntact
  /\ Progress
  /\ Exchange
  /\ Filled
  /\ ResultExact
  /\ NoSpuriousError

-----------------------------------------------------------------------------
(***************************************************************************)
(* The validator.  What its rules say together is that the entries tile    *)
(* the file: each begins where those before it end.                        *)
(***************************************************************************)
Tiles(m) ==
  \A k \in Entries(m) : /\ m.entries[k].logical_offset = EndOf(m, k - 1)
                         /\ m.entries[k].length > 0

(* EntryFields: the fields of an entry are naturals. *)
LEMMA EntryFields ==
  ASSUME NEW m \in Manifest, NEW k \in Entries(m)
  PROVE  /\ m.entries[k].logical_offset \in U64
         /\ m.entries[k].length \in U64
         /\ m.entries[k].chunk_offset \in U64
         /\ m.entries[k].chunk_id \in ChunkId
         /\ LogicalEnd(m.entries[k]) \in Nat
         /\ Len(m.entries) \in Nat /\ m.total_size \in U64
<1>1. m.entries \in Seq(ManifestEntry) /\ m.total_size \in U64
  BY DEF Manifest
<1>2. m.entries[k] \in ManifestEntry /\ Len(m.entries) \in Nat
  BY <1>1 DEF Entries
<1>3. /\ m.entries[k].logical_offset \in U64 /\ m.entries[k].length \in U64
      /\ m.entries[k].chunk_offset \in U64 /\ m.entries[k].chunk_id \in ChunkId
  BY <1>2 DEF ManifestEntry
<1>4. LogicalEnd(m.entries[k]) \in Nat
  BY <1>3 DEF LogicalEnd, U64
<1> QED
  BY <1>1, <1>2, <1>3, <1>4

(* EntriesType: how many entries there are is a natural. *)
LEMMA EntriesType ==
  ASSUME NEW m \in Manifest
  PROVE  /\ m.entries \in Seq(ManifestEntry) /\ Len(m.entries) \in Nat
         /\ m.total_size \in U64 /\ m.total_size \in Nat
         /\ \A n \in 0 .. Len(m.entries) : EndOf(m, n) \in Nat
<1>1. m.entries \in Seq(ManifestEntry) /\ m.total_size \in U64
  BY DEF Manifest
<1>2. \A n \in 0 .. Len(m.entries) : EndOf(m, n) \in Nat
  BY <1>1, EntryFields DEF EndOf, Entries
<1> QED
  BY <1>1, <1>2 DEF U64

(* BeforeSumTiles: the rules before the sum make the entries tile. *)
LEMMA BeforeSumTiles ==
  ASSUME NEW m \in Manifest, BeforeSum(m)
  PROVE  Tiles(m)
<1> SUFFICES ASSUME NEW k \in Entries(m)
             PROVE  /\ m.entries[k].logical_offset = EndOf(m, k - 1)
                    /\ m.entries[k].length > 0
  BY DEF Tiles
<1>1. m.entries[k].length > 0
  BY EntryFields DEF BeforeSum, inv07_lengths_nonzero, U64
<1>2. CASE k = 1
  <2>1. m.entries # <<>>
    BY <1>2, EntriesType DEF Entries
  <2> QED
    BY <1>1, <1>2, <2>1 DEF BeforeSum, inv04_starts_at_zero, EndOf
<1>3. CASE k # 1
  <2>1. k - 1 \in Windows(m) /\ k - 1 \in Entries(m) /\ k = (k - 1) + 1
    BY <1>3, EntriesType DEF Windows, Entries
  <2>2. /\ LogicalEnd(m.entries[k - 1]) >= m.entries[k].logical_offset
        /\ LogicalEnd(m.entries[k - 1]) <= m.entries[k].logical_offset
    BY <2>1 DEF BeforeSum, inv02_entries_contiguous, inv03_no_overlap
  <2>3. LogicalEnd(m.entries[k - 1]) \in Nat /\ m.entries[k].logical_offset \in Nat
    BY <2>1, EntryFields DEF U64
  <2> QED
    BY <1>1, <2>1, <2>2, <2>3 DEF EndOf, Entries
<1> QED
  BY <1>2, <1>3

(* TilesOrdered: by induction, an entry ends before all later ones begin. *)
LEMMA TilesOrdered ==
  ASSUME NEW m \in Manifest, Tiles(m), NEW j \in Entries(m), NEW k \in Entries(m),
         j < k
  PROVE  LogicalEnd(m.entries[j]) <= m.entries[k].logical_offset
<1> DEFINE n == Len(m.entries)
           Ordered(a) == LogicalEnd(m.entries[j]) <= m.entries[a].logical_offset
           T == {d \in Nat : j + d + 1 <= n => Ordered(j + d + 1)}
<1>1. n \in Nat /\ j \in 1 .. n /\ k \in 1 .. n
  BY EntriesType DEF Entries
<1>2. ASSUME NEW a \in 2 .. n
      PROVE  /\ m.entries[a].logical_offset = LogicalEnd(m.entries[a - 1])
             /\ m.entries[a].logical_offset \in Nat
             /\ LogicalEnd(m.entries[a - 1]) \in Nat
             /\ m.entries[a].logical_offset <= LogicalEnd(m.entries[a])
             /\ LogicalEnd(m.entries[a]) \in Nat
  <2>1. a \in Entries(m) /\ a - 1 \in Entries(m) /\ a - 1 # 0
    BY <1>1 DEF Entries
  <2>2. m.entries[a].logical_offset = LogicalEnd(m.entries[a - 1])
    BY <2>1 DEF Tiles, EndOf
  <2>3. /\ m.entries[a].logical_offset \in Nat /\ m.entries[a].length \in Nat
        /\ LogicalEnd(m.entries[a - 1]) \in Nat /\ LogicalEnd(m.entries[a]) \in Nat
    BY <2>1, EntryFields DEF U64
  <2>4. m.entries[a].logical_offset <= LogicalEnd(m.entries[a])
    BY <2>3 DEF LogicalEnd
  <2> QED
    BY <2>2, <2>3, <2>4
<1> HIDE DEF n
<1>3. LogicalEnd(m.entries[j]) \in Nat
  BY EntryFields
<1>4. 0 \in T
  BY <1>1, <1>2, <1>3
<1>5. ASSUME NEW d \in Nat, d \in T PROVE d + 1 \in T
  <2> SUFFICES ASSUME j + d + 2 <= n PROVE Ordered(j + d + 2)
    BY <1>1
  <2>1. Ordered(j + d + 1)
    BY <1>1, <1>5
  <2>2. /\ m.entries[j + d + 2].logical_offset = LogicalEnd(m.entries[j + d + 1])
        /\ m.entries[j + d + 1].logical_offset <= LogicalEnd(m.entries[j + d + 1])
        /\ m.entries[j + d + 1].logical_offset \in Nat
        /\ LogicalEnd(m.entries[j + d + 1]) \in Nat
    <3>1. j + d + 2 \in 2 .. n /\ j + d + 1 \in 2 .. n /\ (j + d + 2) - 1 = j + d + 1
      BY <1>1
    <3> QED
      BY <1>2, <3>1
  <2> QED
    BY <1>3, <2>1, <2>2
<1> HIDE DEF T
<1>6. Nat \subseteq T
  BY <1>4, <1>5, NatInductionSet
<1>7. k - j - 1 \in T /\ j + (k - j - 1) + 1 = k
  BY <1>1, <1>6
<1> QED
  BY <1>1, <1>7 DEF T

(* TilesSum: the running sum of inv05 is where the entries end. *)
LEMMA TilesSum ==
  ASSUME NEW m \in Manifest, Tiles(m)
  PROVE  LengthSum(m.entries) = EndOf(m, Len(m.entries))
<1> DEFINE n == Len(m.entries)
<1>1. m.entries \in Seq(ManifestEntry) /\ n \in Nat
  BY EntriesType
<1>2. PICK f : IsPartialSums(f, m.entries, n) /\ LengthSum(m.entries) = f[n]
  BY <1>1, LengthSumIsPartialSum
<1> DEFINE T == {k \in Nat : k <= n => f[k] = EndOf(m, k)}
<1>3. 0 \in T
  BY <1>2 DEF IsPartialSums, EndOf
<1>4. ASSUME NEW k \in Nat, k \in T PROVE k + 1 \in T
  <2> SUFFICES ASSUME k + 1 <= n PROVE f[k + 1] = EndOf(m, k + 1)
    OBVIOUS
  <2>1. k + 1 \in 1 .. n /\ (k + 1) - 1 = k /\ k <= n /\ k + 1 # 0
    BY <1>1
  <2>2. f[k + 1] = f[k] + m.entries[k + 1].length /\ f[k] = EndOf(m, k)
    BY <1>2, <1>4, <2>1 DEF IsPartialSums
  <2>3. m.entries[k + 1].logical_offset = EndOf(m, k)
    BY <2>1 DEF Tiles, Entries
  <2> QED
    BY <2>1, <2>2, <2>3 DEF EndOf, LogicalEnd
<1> HIDE DEF T
<1>5. Nat \subseteq T
  BY <1>3, <1>4, NatInductionSet
<1> QED
  BY <1>1, <1>2, <1>5 DEF T

(* ValidIs: so validate_manifest accepts the manifests whose entries tile  *)
(* exactly total_size bytes and obey the rules about chunks.               *)
LEMMA ValidIs ==
  ASSUME NEW m \in Manifest
  PROVE  ValidManifest(m) <=> /\ Tiles(m)
                              /\ EndOf(m, Len(m.entries)) = m.total_size
                              /\ AfterSum(m)
<1> DEFINE n == Len(m.entries)
<1>0. n \in Nat /\ m.total_size \in U64 /\ m.entries \in Seq(ManifestEntry)
  BY EntriesType
<1>1. ASSUME ValidManifest(m)
      PROVE  Tiles(m) /\ EndOf(m, n) = m.total_size /\ AfterSum(m)
  <2>1. BeforeSum(m) /\ AfterSum(m)
    BY <1>1 DEF ValidManifest, BeforeSum, AfterSum
  <2>2. Tiles(m)
    BY <2>1, BeforeSumTiles
  <2> QED
    BY <1>1, <2>1, <2>2, TilesSum DEF ValidManifest, inv05_lengths_sum_to_total
<1>2. ASSUME Tiles(m), EndOf(m, n) = m.total_size, AfterSum(m)
      PROVE  ValidManifest(m)
  <2>1. inv05_lengths_sum_to_total(m)
    BY <1>0, <1>2, TilesSum DEF inv05_lengths_sum_to_total, U64
  <2>2. inv07_lengths_nonzero(m)
    BY <1>2 DEF Tiles, inv07_lengths_nonzero
  <2>3. inv13_empty_file_is_valid(m)
    <3> SUFFICES ASSUME m.total_size = 0 PROVE n = 0
      BY <1>0, <1>2
      DEF inv13_empty_file_is_valid, AfterSum, inv06_count_matches
    <3> SUFFICES ASSUME n # 0 PROVE FALSE
      OBVIOUS
    <3>1. n \in Entries(m) /\ LogicalEnd(m.entries[n]) = 0
      BY <1>0, <1>2 DEF Entries, EndOf
    <3> QED
      BY <1>2, <3>1, EntryFields DEF Tiles, LogicalEnd, U64
  <2>4. inv04_starts_at_zero(m)
    <3> SUFFICES ASSUME m.entries # <<>> PROVE m.entries[1].logical_offset = 0
      BY DEF inv04_starts_at_zero
    <3>1. 1 \in Entries(m)
      BY <1>0 DEF Entries
    <3> QED
      BY <1>2, <3>1 DEF Tiles, EndOf
  <2>5. ASSUME NEW k \in Windows(m)
        PROVE  /\ m.entries[k].logical_offset <= m.entries[k + 1].logical_offset
               /\ Fits(m.entries[k].logical_offset, m.entries[k].length)
               /\ LogicalEnd(m.entries[k]) = m.entries[k + 1].logical_offset
               /\ LogicalEnd(m.entries[k]) \in Nat
    <3>1. /\ k \in Entries(m) /\ k + 1 \in Entries(m) /\ (k + 1) - 1 = k /\ k # 0
      BY <1>0 DEF Windows, Entries
    <3>2. m.entries[k + 1].logical_offset = LogicalEnd(m.entries[k])
      BY <1>2, <3>1 DEF Tiles, EndOf
    <3>3. m.entries[k + 1].logical_offset <= U64Max
      BY <3>1, EntryFields DEF U64
    <3> QED
      BY <3>1, <3>2, <3>3, EntryFields DEF Fits, LogicalEnd, U64
  <2>6. /\ inv01_entries_sorted(m) /\ inv02_entries_contiguous(m)
        /\ inv03_no_overlap(m)
    <3>1. \A a, b \in Nat : a = b => a >= b /\ a <= b
      OBVIOUS
    <3> QED
      BY <2>5, <3>1
      DEF inv01_entries_sorted, inv02_entries_contiguous, inv03_no_overlap
  <2> QED
    BY <1>2, <2>1, <2>2, <2>3, <2>4, <2>6 DEF ValidManifest, AfterSum
<1> QED
  BY <1>1, <1>2

(* SizeOfChunk: the size of a described chunk is a u64. *)
LEMMA SizeOfChunk ==
  ASSUME NEW m \in Manifest, NEW c, HasChunk(m, c)
  PROVE  ChunkSize(m, c) \in U64
<1>1. PICK k \in DOMAIN m.chunks : ChunkSize(m, c) = m.chunks[k].size
  BY FirstChunk
<1>2. m.chunks \in Seq(Chunk)
  BY DEF Manifest
<1>3. m.chunks[k] \in Chunk
  BY <1>2
<1> QED
  BY <1>1, <1>3 DEF Chunk

(* TilesDescribe: entries that tile the file give every byte to exactly    *)
(* one of them.                                                            *)
LEMMA TilesDescribe ==
  ASSUME NEW m \in Manifest, Tiles(m), EndOf(m, Len(m.entries)) = m.total_size,
         AfterSum(m)
  PROVE  Describes(m)
<1> DEFINE n == Len(m.entries)
<1>0. n \in Nat /\ m.total_size \in Nat
  BY EntriesType
<1>1. ASSUME NEW k \in Entries(m)
      PROVE  /\ k \in 1 .. n
             /\ m.entries[k].logical_offset \in Nat /\ m.entries[k].length \in Nat
             /\ m.entries[k].length > 0
             /\ LogicalEnd(m.entries[k]) \in Nat
             /\ LogicalEnd(m.entries[k]) <= m.total_size
  <2>1. /\ k \in 1 .. n /\ n \in Entries(m)
        /\ EndOf(m, n) = LogicalEnd(m.entries[n])
    BY <1>0 DEF Entries, EndOf
  <2>2. /\ m.entries[k].logical_offset \in Nat /\ m.entries[k].length \in Nat
        /\ m.entries[k].length > 0 /\ LogicalEnd(m.entries[k]) \in Nat
    BY EntryFields DEF U64, Tiles
  <2>3. /\ m.entries[n].logical_offset \in Nat /\ m.entries[n].length \in Nat
        /\ LogicalEnd(m.entries[n]) = m.entries[n].logical_offset + m.entries[n].length
    BY <2>1, EntryFields DEF U64, LogicalEnd
  <2>4. k # n => LogicalEnd(m.entries[k]) <= m.entries[n].logical_offset
    BY <1>0, <2>1, TilesOrdered
  <2> QED
    BY <2>1, <2>2, <2>3, <2>4
<1>2. m.chunk_count = n
  BY DEF AfterSum, inv06_count_matches
<1>3. ASSUME NEW p \in 0 .. (m.total_size - 1)
      PROVE  \E k \in Entries(m) :
               /\ Covers(m.entries[k], p)
               /\ \A j \in Entries(m) \ {k} : ~Covers(m.entries[j], p)
  <2> DEFINE T == {k \in Entries(m) : p < LogicalEnd(m.entries[k])}
  <2>1. p \in Nat /\ p < m.total_size
    BY <1>0
  <2>2. n \in T
    <3>1. n # 0
      BY <1>0, <2>1 DEF EndOf
    <3> QED
      BY <1>0, <2>1, <3>1 DEF EndOf, Entries
  <2>3. T \subseteq Nat
    BY <1>1
  <2>4. PICK k \in T : \A j \in T : k <= j
    BY <2>2, <2>3, LeastNat
  <2>5. k \in Entries(m) /\ p < LogicalEnd(m.entries[k])
    BY <2>4
  <2>6. m.entries[k].logical_offset <= p
    <3>1. CASE k = 1
      BY <2>1, <2>5, <3>1 DEF Tiles, EndOf
    <3>2. CASE k # 1
      <4>1. k - 1 \in Entries(m) /\ ~(k <= k - 1) /\ k - 1 # 0
        BY <1>1, <2>5, <3>2 DEF Entries
      <4>2. ~(p < LogicalEnd(m.entries[k - 1]))
        BY <2>4, <4>1
      <4>3. LogicalEnd(m.entries[k - 1]) \in Nat
        BY <1>1, <4>1
      <4>4. m.entries[k].logical_offset = LogicalEnd(m.entries[k - 1])
        BY <2>5, <4>1 DEF Tiles, EndOf
      <4> QED
        BY <2>1, <4>2, <4>3, <4>4
    <3> QED
      BY <3>1, <3>2
  <2>7. ASSUME NEW j \in Entries(m), j # k PROVE ~Covers(m.entries[j], p)
    <3>0. /\ j \in Nat /\ k \in Nat
          /\ m.entries[j].logical_offset \in Nat /\ LogicalEnd(m.entries[j]) \in Nat
          /\ LogicalEnd(m.entries[k]) \in Nat /\ m.entries[k].logical_offset \in Nat
      BY <1>1, <2>5
    <3>1. CASE j < k
      <4>1. LogicalEnd(m.entries[j]) <= m.entries[k].logical_offset
        BY <2>5, <3>1, TilesOrdered
      <4> QED
        BY <2>1, <2>6, <3>0, <4>1 DEF Covers, LogicalEnd
    <3>2. CASE k < j
      <4>1. LogicalEnd(m.entries[k]) <= m.entries[j].logical_offset
        BY <2>5, <3>2, TilesOrdered
      <4> QED
        BY <2>1, <2>5, <3>0, <4>1 DEF Covers
    <3> QED
      BY <2>7, <3>0, <3>1, <3>2
  <2>8. Covers(m.entries[k], p)
    BY <2>5, <2>6 DEF Covers, LogicalEnd
  <2> QED
    BY <2>5, <2>7, <2>8
<1>4. ASSUME NEW k \in Entries(m)
      PROVE  LET e == m.entries[k]
             IN  /\ e.length > 0
                 /\ e.logical_offset + e.length <= m.total_size
                 /\ \A j \in 1 .. (k - 1) :
                      m.entries[j].logical_offset < e.logical_offset
                 /\ HasChunk(m, e.chunk_id)
                 /\ e.chunk_offset + e.length <= ChunkSize(m, e.chunk_id)
  <2>1. ASSUME NEW j \in 1 .. (k - 1)
        PROVE  m.entries[j].logical_offset < m.entries[k].logical_offset
    <3>1. j \in Entries(m) /\ j < k
      BY <1>1 DEF Entries
    <3>2. LogicalEnd(m.entries[j]) <= m.entries[k].logical_offset
      BY <3>1, TilesOrdered
    <3> QED
      BY <1>1, <3>1, <3>2 DEF LogicalEnd
  <2>2. /\ HasChunk(m, m.entries[k].chunk_id)
        /\ m.entries[k].chunk_offset + m.entries[k].length
             <= ChunkSize(m, m.entries[k].chunk_id)
    BY DEF AfterSum, inv08_chunk_offsets_within_chunk
  <2> QED
    BY <1>1, <2>1, <2>2 DEF LogicalEnd
<1>5. \A c \in DOMAIN m.chunks :
        /\ m.chunks[c].chunk_id \in WellFormed
        /\ \E k \in Entries(m) : m.entries[k].chunk_id = m.chunks[c].chunk_id
  BY DEF AfterSum, inv09_chunk_ids_wellformed
<1> QED
  BY <1>2, <1>3, <1>4, <1>5 DEF Describes

(***************************************************************************)
(* And the other way: if every byte belongs to exactly one entry, there is *)
(* no gap and no overlap.                                                  *)
(***************************************************************************)
LEMMA DescribesTiles ==
  ASSUME NEW m \in Manifest, Describes(m)
  PROVE  Tiles(m) /\ EndOf(m, Len(m.entries)) = m.total_size /\ AfterSum(m)
<1> DEFINE n == Len(m.entries)
           total == m.total_size
           At(k) == m.entries[k].logical_offset
           End(k) == LogicalEnd(m.entries[k])
<1>0. n \in Nat /\ total \in Nat /\ total <= U64Max /\ Entries(m) = 1 .. n
  BY EntriesType DEF U64, Entries
<1>1. ASSUME NEW k \in 1 .. n
      PROVE  /\ At(k) \in Nat /\ End(k) \in Nat /\ At(k) < End(k)
             /\ End(k) <= total
             /\ m.entries[k].length > 0
             /\ \A j \in 1 .. (k - 1) : At(j) < At(k)
  <2>1. /\ m.entries[k].length > 0
        /\ m.entries[k].logical_offset + m.entries[k].length <= total
        /\ \A j \in 1 .. (k - 1) : At(j) < At(k)
    BY <1>0 DEF Describes
  <2>2. At(k) \in Nat /\ m.entries[k].length \in Nat
        /\ End(k) = At(k) + m.entries[k].length
    BY <1>0, EntryFields DEF U64, LogicalEnd
  <2> QED
    BY <2>1, <2>2
<1>2. ASSUME NEW p \in Nat, p < total
      PROVE  \E k \in 1 .. n : At(k) <= p /\ p < End(k)
  <2>1. p \in 0 .. (m.total_size - 1)
    BY <1>0, <1>2
  <2>2. PICK k \in Entries(m) : Covers(m.entries[k], p)
    BY <2>1 DEF Describes
  <2>3. At(k) <= p /\ p < End(k)
    BY <2>2 DEF Covers, LogicalEnd
  <2> QED
    BY <1>0, <2>3
<1>3. ASSUME NEW p \in Nat, p < total, NEW j \in 1 .. n, NEW k \in 1 .. n,
             At(j) <= p, p < End(j), At(k) <= p, p < End(k)
      PROVE  j = k
  <2>0. p \in 0 .. (m.total_size - 1)
    BY <1>0, <1>3
  <2>1. PICK l \in Entries(m) :
          \A a \in Entries(m) \ {l} : ~Covers(m.entries[a], p)
    BY <2>0 DEF Describes
  <2>2. Covers(m.entries[j], p) /\ Covers(m.entries[k], p)
    BY <1>3 DEF Covers, LogicalEnd
  <2> QED
    BY <1>0, <2>1, <2>2
<1> HIDE DEF At, End, n, total
<1>4. ASSUME NEW j \in 1 .. n, NEW k \in 1 .. n, j < k PROVE End(j) <= At(k)
  <2> SUFFICES ASSUME At(k) < End(j) PROVE FALSE
    BY <1>1
  <2>1. j \in 1 .. (k - 1)
    BY <1>0, <1>4
  <2>2. At(j) <= At(k) /\ At(k) \in Nat /\ At(k) < total /\ At(k) < End(k)
    BY <1>0, <1>1, <2>1
  <2>3. j = k
    BY <1>1, <1>3, <2>2
  <2> QED
    BY <1>0, <1>4, <2>3
<1>5. ASSUME NEW k \in 1 .. n,
             \A j \in 1 .. n : k < j => End(k) < At(j)
      PROVE  End(k) = total
  <2> SUFFICES ASSUME End(k) < total PROVE FALSE
    BY <1>0, <1>1
  <2>1. PICK j \in 1 .. n : At(j) <= End(k) /\ End(k) < End(j)
    BY <1>1, <1>2
  <2>2. ~(k < j)
    BY <1>1, <1>5, <2>1
  <2>3. j # k
    BY <1>1, <2>1
  <2>4. j < k
    BY <1>0, <2>2, <2>3
  <2>5. End(j) <= At(k)
    BY <1>4, <2>4
  <2> QED
    BY <1>1, <2>1, <2>5
<1>6. EndOf(m, n) = total
  <2>1. CASE n = 0
    BY <1>0, <1>2, <2>1 DEF EndOf
  <2>2. CASE n # 0
    <3>1. n \in 1 .. n /\ \A j \in 1 .. n : ~(n < j)
      BY <1>0, <2>2
    <3> QED
      BY <1>5, <2>2, <3>1 DEF EndOf, End
  <2> QED
    BY <2>1, <2>2
<1>7. ASSUME NEW k \in 1 .. n PROVE At(k) = EndOf(m, k - 1)
  <2>1. CASE k = 1
    <3>1. 0 < total
      BY <1>0, <1>1
    <3>2. PICK j \in 1 .. n : At(j) <= 0
      BY <1>2, <3>1
    <3>3. j = 1
      <4> SUFFICES ASSUME j # 1 PROVE FALSE
        OBVIOUS
      <4>1. 1 \in 1 .. (j - 1) /\ 1 \in 1 .. n
        BY <1>0
      <4>2. At(1) < At(j) /\ At(1) \in Nat /\ At(j) \in Nat
        BY <1>1, <4>1
      <4> QED
        BY <3>2, <4>2
    <3> QED
      BY <1>1, <2>1, <3>2, <3>3 DEF EndOf
  <2>2. CASE k # 1
    <3>1. k - 1 \in 1 .. n /\ k - 1 < k /\ k - 1 # 0
      BY <1>0, <2>2
    <3>2. End(k - 1) <= At(k)
      BY <1>4, <3>1
    <3>3. ~(End(k - 1) < At(k))
      <4> SUFFICES ASSUME End(k - 1) < At(k) PROVE FALSE
        OBVIOUS
      <4>1. ASSUME NEW j \in 1 .. n, k - 1 < j PROVE End(k - 1) < At(j)
        <5>1. j = k \/ (k \in 1 .. (j - 1))
          BY <1>0, <4>1
        <5>2. At(k) <= At(j)
          BY <1>1, <5>1
        <5> QED
          BY <1>1, <3>1, <5>2
      <4>2. End(k - 1) = total
        BY <1>5, <3>1, <4>1
      <4> QED
        BY <1>0, <1>1, <4>2
    <3>4. End(k - 1) = At(k)
      BY <1>1, <3>1, <3>2, <3>3
    <3> QED
      BY <3>1, <3>4 DEF EndOf, End
  <2> QED
    BY <2>1, <2>2
<1>8. Tiles(m)
  BY <1>0, <1>1, <1>7 DEF Tiles, At
<1>9. AfterSum(m)
  <2>1. inv06_count_matches(m)
    BY DEF Describes, inv06_count_matches
  <2>2. ASSUME NEW k \in Entries(m)
        PROVE  LET e == m.entries[k]
               IN  /\ HasChunk(m, e.chunk_id) /\ e.chunk_id \in WellFormed
                   /\ Fits(e.chunk_offset, e.length)
                   /\ e.chunk_offset + e.length <= ChunkSize(m, e.chunk_id)
    <3>1. /\ HasChunk(m, m.entries[k].chunk_id)
          /\ m.entries[k].chunk_offset + m.entries[k].length
               <= ChunkSize(m, m.entries[k].chunk_id)
      BY DEF Describes
    <3>2. m.entries[k].chunk_id \in WellFormed
      BY <3>1 DEF HasChunk, Describes
    <3>3. ChunkSize(m, m.entries[k].chunk_id) \in U64
      BY <3>1, SizeOfChunk
    <3>4. Fits(m.entries[k].chunk_offset, m.entries[k].length)
      BY <3>1, <3>3, EntryFields DEF Fits, U64
    <3> QED
      BY <3>1, <3>2, <3>4
  <2>3. inv09_chunk_ids_wellformed(m)
    BY <2>2 DEF inv09_chunk_ids_wellformed, Describes
  <2>4. inv08_chunk_offsets_within_chunk(m)
    BY <2>2 DEF inv08_chunk_offsets_within_chunk
  <2> QED
    BY <2>1, <2>3, <2>4 DEF AfterSum
<1> QED
  BY <1>6, <1>8, <1>9 DEF n, total

(***************************************************************************)
(* For every manifest: the rules of validate_manifest accept exactly those *)
(* that describe a file byte by byte.                                      *)
(***************************************************************************)
THEOREM ValidatorCorrect ==
  ASSUME NEW m \in Manifest
  PROVE  ValidManifest(m) <=> Describes(m)
  BY ValidIs, TilesDescribe, DescribesTiles

-----------------------------------------------------------------------------
(***************************************************************************)
(* Slices, and what the server answers with.                               *)
(***************************************************************************)
(* SliceAt: a slice inside a sequence, element by element. *)
LEMMA SliceAt ==
  ASSUME NEW S, NEW bytes \in Seq(S), NEW offset \in Nat, NEW length \in Nat,
         offset + length <= Len(bytes)
  PROVE  /\ Slice(bytes, offset, length) \in Seq(S)
         /\ Len(Slice(bytes, offset, length)) = length
         /\ Slice(bytes, offset, length) = [x \in 1 .. length |-> bytes[offset + x]]
<1>1. Slice(bytes, offset, length) = [x \in 1 .. length |-> bytes[offset + x]]
  BY DEF Slice
<1>2. \A x \in 1 .. length : bytes[offset + x] \in S
  OBVIOUS
<1> QED
  BY <1>1, <1>2

(* SliceWhole: the slice that is everything. *)
LEMMA SliceWhole ==
  ASSUME NEW S, NEW bytes \in Seq(S)
  PROVE  Slice(bytes, 0, Len(bytes)) = bytes
<1>1. Slice(bytes, 0, Len(bytes)) = [x \in 1 .. Len(bytes) |-> bytes[0 + x]]
  BY SliceAt
<1> QED
  BY <1>1

(* BytesType: a byte string is a sequence of bytes, of u64 length. *)
LEMMA BytesType ==
  ASSUME NEW b \in Bytes
  PROVE  b \in Seq(0 .. ByteMax) /\ Len(b) \in U64 /\ Len(b) \in Nat /\ b # None
  BY BytesAssumption DEF U64

(* BodyIs: a chunk id has one body. *)
LEMMA BodyIs ==
  ASSUME NEW b \in Bytes
  PROVE  /\ Body(b3(b)) = b
         /\ b3(Body(b3(b))) = b3(b)
<1>1. Body(b3(b)) \in Bytes /\ b3(Body(b3(b))) = b3(b)
  BY DEF Body
<1> QED
  BY <1>1, CollisionFree

(* StoredBody: so has every id that is some chunk's address. *)
LEMMA StoredBody ==
  ASSUME NEW c \in Stored
  PROVE  Body(c) \in Bytes /\ verify(c, Body(c))
  BY BodyIs DEF Stored, verify

(* RangeAnswer: what get_range answers, and what its body can be. *)
LEMMA RangeAnswer ==
  ASSUME blobs \in [ChunkId -> Bytes \cup {None}], NEW c \in ChunkId,
         NEW start \in U64, NEW end \in U64, NEW known, NEW answer,
         answer = RangeReply(c, [kind |-> "bytes", start |-> start, end |-> end], known)
  PROVE  \/ /\ answer.shape = "success" /\ answer.code = "Ok"
            /\ blobs[c] # None
            /\ start + RangeLength(start, end) <= Len(blobs[c])
            /\ RangeLength(start, end) \in Nat
            /\ answer.val.body = Slice(blobs[c], start, RangeLength(start, end))
            /\ answer.val.body \in Seq(0 .. ByteMax)
            /\ start = 0 => answer.val.body \in Bytes
         \/ /\ answer.shape = "ErrorResponse"
            /\ answer.code \in {"ChunkNotFound", "InvalidParameter",
                                "IntegrityHashMismatch", "IntegrityLengthMismatch"}
         \/ answer = Closed
<1> DEFINE range == [kind |-> "bytes", start |-> start, end |-> end]
           L == RangeLength(start, end)
           found == get_range(c, start, L)
<1>1. RangeEnd(range, known) = end
  BY NoneAssumption DEF RangeEnd
<1>2. CASE ~RangeParses(range, known)
  BY <1>2 DEF RangeReply, Answer
<1>3. CASE RangeParses(range, known) /\ OverflowChecks /\ end - start = U64Max
  BY <1>1, <1>3 DEF RangeReply
<1>4. CASE RangeParses(range, known) /\ ~(OverflowChecks /\ end - start = U64Max)
  <2>0. start <= end
    BY <1>1, <1>4 DEF RangeParses
  <2>1. L \in Nat /\ start \in Nat
    <3>1. start \in Nat /\ end \in Nat
      BY DEF U64
    <3> QED
      BY <2>0, <3>1, WidthAssumption DEF RangeLength
  <2>2. answer = IF found.code # "Ok" THEN Answer(found.code, None)
                 ELSE Answer("Ok", [start |-> start, end |-> end, size |-> known,
                                    body |-> found.body])
    BY <1>1, <1>4 DEF RangeReply
  <2> HIDE DEF L
  <2>3. CASE found.code # "Ok"
    <3>1. found.code \in {"ChunkNotFound", "InvalidParameter",
                          "IntegrityHashMismatch", "IntegrityLengthMismatch"}
      BY <2>3 DEF get_range, Missed, Found
    <3> HIDE DEF found
    <3> QED
      BY <2>2, <2>3, <3>1 DEF Answer
  <2>4. CASE found.code = "Ok"
    <3>1. /\ blobs[c] # None /\ blobs[c] \in Bytes
          /\ ~(start + L > Len(blobs[c]))
          /\ found.body = Slice(blobs[c], start, L)
      BY <2>4 DEF get_range, Missed, Found
    <3>2. /\ blobs[c] \in Seq(0 .. ByteMax) /\ Len(blobs[c]) \in Nat
      BY <3>1, BytesType
    <3>3. start + L <= Len(blobs[c])
      BY <2>1, <3>1, <3>2
    <3>4. found.body \in Seq(0 .. ByteMax)
      BY <2>1, <3>1, <3>2, <3>3, SliceAt
    <3>5. start = 0 => found.body \in Bytes
      <4> SUFFICES ASSUME start = 0 PROVE found.body \in Bytes
        OBVIOUS
      <4>1. L \in 0 .. Len(blobs[c]) /\ 0 + 1 = 1 /\ 0 + L = L
        BY <2>1, <3>2, <3>3
      <4>2. found.body = SubSeq(blobs[c], 1, L)
        BY <3>1, <4>1 DEF Slice
      <4> QED
        BY <3>1, <4>1, <4>2, FaultAssumption
    <3>6. answer.shape = "success" /\ answer.code = "Ok"
          /\ answer.val.body = found.body
      BY <2>2, <2>4 DEF Answer
    <3> HIDE DEF found
    <3> QED
      BY <2>1, <3>1, <3>3, <3>4, <3>5, <3>6 DEF L
  <2> QED
    BY <2>3, <2>4
<1> QED
  BY <1>2, <1>3, <1>4

(* RangeExact: a range inside a verified chunk that get_range can be asked *)
(* for is answered with its bytes.                                         *)
LEMMA RangeExact ==
  ASSUME blobs \in [ChunkId -> Bytes \cup {None}], NEW c \in ChunkId,
         blobs[c] # None, verify(c, blobs[c]),
         NEW start \in U64, NEW length \in Nat \ {0},
         start + length <= Len(blobs[c]), length <= U32Max, NEW answer,
         answer = RangeReply(c, [kind |-> "bytes", start |-> start,
                                 end |-> start + length - 1], Len(blobs[c]))
  PROVE  /\ answer.shape = "success" /\ answer.code = "Ok"
         /\ answer.val.body = Slice(blobs[c], start, length)
<1> DEFINE end == start + length - 1
           range == [kind |-> "bytes", start |-> start, end |-> end]
<1>1. /\ start \in Nat /\ Len(blobs[c]) \in Nat /\ Len(blobs[c]) <= U64Max
      /\ end \in U64 /\ start <= end /\ end - start + 1 = length
      /\ end - start # U64Max
  BY BytesType DEF U64
<1>2. RangeLength(start, end) = length
  <2>1. \A a, b \in Nat : a < b => a % b = a
    OBVIOUS
  <2> QED
    BY <1>1, <2>1, WidthAssumption DEF RangeLength
<1>3. RangeEnd(range, Len(blobs[c])) = end
  BY <1>1, NoneAssumption DEF RangeEnd
<1>4. get_range(c, start, length) = Found(Slice(blobs[c], start, length))
  BY <1>1 DEF get_range
<1>5. answer = Answer("Ok", [start |-> start, end |-> end, size |-> Len(blobs[c]),
                             body |-> Slice(blobs[c], start, length)])
  BY <1>1, <1>2, <1>3, <1>4 DEF RangeReply, RangeParses, Found
<1> QED
  BY <1>5 DEF Answer

-----------------------------------------------------------------------------
(***************************************************************************)
(* The steps of the read keep the invariant.                               *)
(***************************************************************************)
(* What NoSpuriousError accepts as the cause of an error. *)
Cause(k) ==
  LET e == manifest.entries[k]
  IN  \/ e.chunk_id \in damaged
      \/ blobs[e.chunk_id] = None
      \/ Len(blobs[e.chunk_id]) # ChunkSize(manifest, e.chunk_id)
      \/ e.length > U32Max

(* ReadInit: the invariant holds when the read starts. *)
LEMMA ReadInit == Init => ReadInv
<1> SUFFICES ASSUME Init PROVE ReadInv
  OBVIOUS
<1>1. manifest \in InputManifest /\ manifest \in Manifest
  BY InputAssumption DEF Init
<1>2. PICK present \in StoredFor(manifest) :
        blobs = [c \in ChunkId |-> IF c \in present THEN Body(c) ELSE None]
  BY DEF Init
<1>3. \A c \in present : c \in Stored /\ Body(c) \in Bytes
  BY <1>1, StoredAssumption, StoredBody
<1>4. blobs \in [ChunkId -> Bytes \cup {None}]
  BY <1>2, <1>3
<1>5. Len(manifest.entries) \in Nat
  BY <1>1, EntriesType
<1>6. TypeOK
  <2>1. /\ i \in 1 .. (Len(manifest.entries) + 1) /\ sum \in U64
        /\ faults \in 0 .. MaxFaults
    BY <1>5, FaultAssumption DEF Init, U64
  <2>2. /\ pc \in {"validate", "sum", "done"} \cup Reading /\ pc \notin Reading
        /\ result \in Code /\ silent \in BOOLEAN
    BY DEF Init, Reading, Code
  <2>3. out \in Seq(0 .. ByteMax) /\ size \in U64 \cup {None} /\ damaged = {}
    BY DEF Init
  <2> QED
    BY <1>1, <1>4, <2>1, <2>2, <2>3 DEF TypeOK
<1>7. BlobsIntact
  BY <1>2, <1>3 DEF BlobsIntact
<1>8. Progress /\ Exchange /\ Filled /\ ResultExact /\ NoSpuriousError
  BY DEF Init, Progress, Exchange, Filled, Reading, ResultExact, NoSpuriousError
<1> QED
  BY <1>6, <1>7, <1>8 DEF ReadInv

(* StillRunning: what is said of a result is not disturbed before there is *)
(* one.                                                                    *)
LEMMA StillRunning ==
  ASSUME ReadInv, pc # "done", result' = result
  PROVE  ResultExact' /\ NoSpuriousError' /\ result = "running"
  BY DEF ReadInv, Progress, ResultExact, NoSpuriousError

(* EntryNow: the entry being fetched is one of a valid manifest. *)
LEMMA EntryNow ==
  ASSUME ReadInv, pc \in Reading \ {"fetch"}
  PROVE  /\ i \in Entries(manifest) /\ i \in Nat
         /\ manifest \in Manifest /\ Describes(manifest) /\ Tiles(manifest)
         /\ Entry = manifest.entries[i]
         /\ Entry.chunk_id \in ChunkId
         /\ Entry.logical_offset \in Nat /\ Entry.length \in Nat \ {0}
         /\ Entry.chunk_offset \in U64 /\ Entry.chunk_offset \in Nat
         /\ Entry.logical_offset + Entry.length <= manifest.total_size
         /\ manifest.total_size \in Nat /\ Len(out) = manifest.total_size
         /\ Entry.chunk_offset + Entry.length <= ChunkSize(manifest, Entry.chunk_id)
         /\ Entry.chunk_offset + Entry.length - 1 \in U64
<1>1. /\ manifest \in Manifest /\ ValidManifest(manifest)
      /\ Len(out) = manifest.total_size
      /\ i \in 1 .. (Len(manifest.entries) + 1) /\ i <= Len(manifest.entries)
  BY DEF ReadInv, TypeOK, Progress
<1>2. /\ i \in Entries(manifest) /\ i \in Nat
      /\ manifest.total_size \in Nat
  BY <1>1, EntriesType DEF Entries
<1>3. Tiles(manifest) /\ Describes(manifest)
  BY <1>1, ValidIs, ValidatorCorrect
<1>4. /\ Entry = manifest.entries[i]
      /\ Entry.chunk_id \in ChunkId /\ Entry.logical_offset \in U64
      /\ Entry.length \in U64 /\ Entry.chunk_offset \in U64
  BY <1>1, <1>2, EntryFields DEF Entry
<1>5. /\ Entry.length > 0
      /\ Entry.logical_offset + Entry.length <= manifest.total_size
      /\ HasChunk(manifest, Entry.chunk_id)
      /\ Entry.chunk_offset + Entry.length <= ChunkSize(manifest, Entry.chunk_id)
  BY <1>2, <1>3 DEF Entry, Describes
<1>6. ChunkSize(manifest, Entry.chunk_id) \in U64
  BY <1>1, <1>5, SizeOfChunk
<1>7. Entry.chunk_offset + Entry.length - 1 \in U64
  BY <1>4, <1>5, <1>6 DEF U64
<1> HIDE DEF Entry
<1> QED
  BY <1>1, <1>2, <1>3, <1>4, <1>5, <1>7 DEF U64

(* ReturnHolds: returning keeps the invariant when the result is justified. *)
LEMMA ReturnHolds ==
  ASSUME ReadInv, pc # "done", NEW code \in Code \ {"running"}, Return(code),
         code = "IntegrityManifestInvalid" => ~ValidManifest(manifest),
         code = "Ok" => /\ Len(out) = manifest.total_size
                        /\ \A k \in Entries(manifest) : Exact(k),
         code = "Aborted" => /\ ValidManifest(manifest)
                             /\ manifest.total_size > Memory,
         code \in {"Aborted", "Ok", "NetworkUnavailable", "IntegrityManifestInvalid"}
           \/ \E k \in Entries(manifest) : Cause(k)
  PROVE  ReadInv'
<1>0. manifest \in Manifest
  BY DEF ReadInv, TypeOK
<1>1. TypeOK'
  BY DEF ReadInv, TypeOK, Return, Reading
<1>2. BlobsIntact'
  BY DEF ReadInv, BlobsIntact, Return
<1>3. Progress' /\ Exchange' /\ Filled'
  BY DEF Return, Progress, Exchange, Filled, Reading
<1>4. ResultExact'
  BY DEF Return, ResultExact, Exact, SegmentExact, Entries
<1>5. NoSpuriousError'
  <2>1. /\ code = "IntegrityManifestInvalid" => ~Describes(manifest)
        /\ code = "Aborted" => Describes(manifest) /\ manifest.total_size > Memory
    BY <1>0, ValidatorCorrect
  <2>2. result' = code /\ UNCHANGED <<manifest, damaged, blobs>>
    BY DEF Return
  <2>3. Describes(manifest)' <=> Describes(manifest)
    BY <2>2
  <2> QED
    BY <2>1, <2>2, <2>3 DEF NoSpuriousError, Cause, Entries
<1> QED
  BY <1>1, <1>2, <1>3, <1>4, <1>5 DEF ReadInv

(* ValidateHolds, AddLengthHolds, AllocateHolds: the three parts of        *)
(* validate_manifest.                                                      *)
LEMMA ValidateHolds == ASSUME ReadInv, Validate PROVE ReadInv'
<1>1. CASE BeforeSum(manifest) /\ pc' = "sum"
           /\ UNCHANGED <<manifest, i, sum, size, reply, out, result, damaged,
                          faults, silent, blobs>>
  <2>1. TypeOK'
    BY <1>1 DEF ReadInv, TypeOK, Reading
  <2>2. BlobsIntact'
    BY <1>1 DEF ReadInv, BlobsIntact
  <2>3. i = 1 /\ sum = 0 /\ result = "running"
    BY DEF ReadInv, Progress, Validate
  <2>4. Progress' /\ Exchange' /\ Filled'
    BY <1>1, <2>3 DEF Progress, Exchange, Filled, Reading, EndOf
  <2>5. ResultExact' /\ NoSpuriousError'
    BY <1>1, StillRunning DEF Validate
  <2> QED
    BY <2>1, <2>2, <2>4, <2>5 DEF ReadInv
<1>2. CASE ~BeforeSum(manifest) /\ Return("IntegrityManifestInvalid")
  <2>1. ~ValidManifest(manifest)
    BY <1>2 DEF ValidManifest, BeforeSum
  <2>2. pc # "done" /\ "IntegrityManifestInvalid" \in Code \ {"running"}
    BY DEF Validate, Code
  <2> QED
    BY <1>2, <2>1, <2>2, ReturnHolds
<1> QED
  BY <1>1, <1>2 DEF Validate

LEMMA AddLengthHolds == ASSUME ReadInv, AddLength PROVE ReadInv'
<1> DEFINE e == manifest.entries[i]
<1>1. /\ pc = "sum" /\ manifest \in Manifest /\ sum \in U64
      /\ i \in Entries(manifest) /\ i \in Nat /\ i # 0
      /\ Len(manifest.entries) \in Nat
      /\ BeforeSum(manifest) /\ sum = EndOf(manifest, i - 1)
  <2>1. /\ pc = "sum" /\ manifest \in Manifest /\ sum \in U64
        /\ i \in 1 .. (Len(manifest.entries) + 1) /\ i <= Len(manifest.entries)
        /\ BeforeSum(manifest) /\ sum = EndOf(manifest, i - 1)
    BY DEF AddLength, ReadInv, TypeOK, Progress
  <2> QED
    BY <2>1, EntriesType DEF Entries
<1>2. Tiles(manifest)
  BY <1>1, BeforeSumTiles
<1>3. /\ sum + e.length = EndOf(manifest, i)
      /\ EndOf(manifest, i) = LogicalEnd(e)
  BY <1>1, <1>2 DEF Tiles, EndOf, LogicalEnd
<1>4. e.length \in U64 /\ LogicalEnd(e) \in Nat
  BY <1>1, EntryFields
<1>5. CASE /\ Fits(sum, e.length) /\ sum' = sum + e.length /\ i' = i + 1
           /\ UNCHANGED <<manifest, pc, size, reply, out, result, damaged,
                          faults, silent, blobs>>
  <2>1. /\ sum' \in U64 /\ i' \in 1 .. (Len(manifest.entries) + 1)
        /\ i' - 1 = i
    BY <1>1, <1>4, <1>5 DEF Fits, U64, Entries
  <2>2. TypeOK'
    BY <1>1, <1>5, <2>1 DEF ReadInv, TypeOK, Reading
  <2>3. BlobsIntact'
    BY <1>5 DEF ReadInv, BlobsIntact
  <2>4. Progress'
    BY <1>1, <1>3, <1>5, <2>1 DEF ReadInv, Progress, Reading
  <2>5. Exchange' /\ Filled'
    BY <1>1, <1>5 DEF Exchange, Filled, Reading
  <2>6. ResultExact' /\ NoSpuriousError'
    BY <1>1, <1>5, StillRunning
  <2> QED
    BY <2>2, <2>3, <2>4, <2>5, <2>6 DEF ReadInv
<1>6. CASE ~Fits(sum, e.length) /\ Return("IntegrityManifestInvalid")
  <2>1. ~ValidManifest(manifest)
    <3> SUFFICES ASSUME Describes(manifest) PROVE FALSE
      BY <1>1, ValidatorCorrect
    <3>1. LogicalEnd(e) <= manifest.total_size
      BY <1>1 DEF Describes, LogicalEnd
    <3>2. ~(LogicalEnd(e) <= U64Max)
      BY <1>3, <1>6 DEF Fits
    <3>3. manifest.total_size \in U64
      BY <1>1, EntriesType
    <3> QED
      BY <1>4, <3>1, <3>2, <3>3 DEF U64
  <2>2. pc # "done" /\ "IntegrityManifestInvalid" \in Code \ {"running"}
    BY <1>1 DEF Code
  <2> QED
    BY <1>6, <2>1, <2>2, ReturnHolds
<1> QED
  BY <1>5, <1>6 DEF AddLength

LEMMA AllocateHolds == ASSUME ReadInv, Allocate PROVE ReadInv'
<1>1. /\ pc = "sum" /\ manifest \in Manifest
      /\ Len(manifest.entries) \in Nat /\ i - 1 = Len(manifest.entries)
      /\ BeforeSum(manifest) /\ sum = EndOf(manifest, Len(manifest.entries))
      /\ manifest.total_size \in Nat
  <2>1. /\ pc = "sum" /\ manifest \in Manifest
        /\ i \in 1 .. (Len(manifest.entries) + 1) /\ i > Len(manifest.entries)
        /\ BeforeSum(manifest) /\ sum = EndOf(manifest, i - 1)
    BY DEF Allocate, ReadInv, TypeOK, Progress
  <2>2. Len(manifest.entries) \in Nat /\ manifest.total_size \in Nat
    BY <2>1, EntriesType
  <2>3. i - 1 = Len(manifest.entries)
    BY <2>1, <2>2
  <2> QED
    BY <2>1, <2>2, <2>3
<1>2. ValidManifest(manifest) <=> sum = manifest.total_size /\ AfterSum(manifest)
  BY <1>1, BeforeSumTiles, ValidIs
<1>3. CASE /\ sum = manifest.total_size /\ AfterSum(manifest)
           /\ pc' = "fetch" /\ i' = 1
           /\ out' = [p \in 1 .. manifest.total_size |-> 0]
           /\ UNCHANGED <<manifest, sum, size, reply, result, damaged, faults,
                          silent, blobs>>
  <2>1. out' \in Seq(0 .. ByteMax) /\ Len(out') = manifest.total_size
    BY <1>1, <1>3, BytesAssumption
  <2>2. TypeOK'
    BY <1>1, <1>3, <2>1 DEF ReadInv, TypeOK, Reading
  <2>3. BlobsIntact'
    BY <1>3 DEF ReadInv, BlobsIntact
  <2>4. result = "running"
    BY <1>1 DEF ReadInv, Progress
  <2>5. Progress' /\ Exchange' /\ Filled'
    BY <1>1, <1>2, <1>3, <2>4 DEF Progress, Exchange, Filled, Reading
  <2>6. ResultExact' /\ NoSpuriousError'
    BY <1>1, <1>3, StillRunning
  <2> QED
    BY <2>2, <2>3, <2>5, <2>6 DEF ReadInv
<1>4. CASE /\ ~(sum = manifest.total_size /\ AfterSum(manifest))
           /\ Return("IntegrityManifestInvalid")
  <2>1. pc # "done" /\ "IntegrityManifestInvalid" \in Code \ {"running"}
    BY <1>1 DEF Code
  <2> QED
    BY <1>2, <1>4, <2>1, ReturnHolds
<1>5. CASE /\ sum = manifest.total_size /\ AfterSum(manifest)
           /\ manifest.total_size > Memory /\ Return("Aborted")
  <2>1. pc # "done" /\ "Aborted" \in Code \ {"running"}
    BY <1>1 DEF Code
  <2> QED
    BY <1>2, <1>5, <2>1, ReturnHolds
<1> QED
  BY <1>3, <1>4, <1>5 DEF Allocate, vec

(* RequestHolds, ServerHeadHolds, ServerReadHolds: the request, and the    *)
(* two steps of the server, between which the store may be damaged.        *)
LEMMA RequestHolds == ASSUME ReadInv, Request PROVE ReadInv'
<1>1. TypeOK'
  BY DEF ReadInv, TypeOK, Request, Reading
<1>2. BlobsIntact' /\ Filled'
  BY DEF ReadInv, BlobsIntact, Filled, Exact, SegmentExact, Request, Reading
<1>3. Progress' /\ Exchange'
  BY DEF ReadInv, Progress, Exchange, Request, Reading
<1>4. ResultExact' /\ NoSpuriousError'
  BY StillRunning DEF Request
<1> QED
  BY <1>1, <1>2, <1>3, <1>4 DEF ReadInv

LEMMA ServerHeadHolds == ASSUME ReadInv, ServerHead PROVE ReadInv'
<1> DEFINE c == Entry.chunk_id
<1>1. /\ pc = "requested"
      /\ UNCHANGED <<manifest, i, sum, out, result, damaged, faults, silent, blobs>>
  BY DEF ServerHead
<1>2. /\ c \in ChunkId /\ blobs \in [ChunkId -> Bytes \cup {None}]
      /\ Entry' = Entry /\ AnswerNow' = AnswerNow
  <2>1. c \in ChunkId
    BY <1>1, EntryNow DEF Reading
  <2>2. Entry' = Entry
    BY <1>1 DEF Entry
  <2>3. AnswerNow' = AnswerNow
    BY <1>1, <2>2 DEF AnswerNow, EntryRange, RangeReply, get_range
  <2> QED
    BY <2>1, <2>2, <2>3 DEF ReadInv, TypeOK
<1>3. \/ /\ blobs[c] # None /\ pc' = "headed" /\ size' = Len(blobs[c])
         /\ size' \in U64
      \/ /\ blobs[c] = None /\ pc' = "answered" /\ UNCHANGED size
         /\ reply' = Answer("ChunkNotFound", None)
  BY <1>2, BytesType DEF ServerHead, head, Found, Missed
<1>4. TypeOK'
  BY <1>1, <1>3 DEF ReadInv, TypeOK, Reading
<1>5. BlobsIntact' /\ Filled' /\ Progress'
  BY <1>1, <1>3
  DEF ReadInv, BlobsIntact, Filled, Exact, SegmentExact, Progress, Reading
<1>6. Exchange'
  <2>1. CASE pc' = "headed"
    BY <1>1, <1>2, <1>3, <2>1 DEF Exchange
  <2>2. CASE pc' = "answered"
    <3>1. blobs[c] = None /\ reply' = Answer("ChunkNotFound", None)
      BY <1>3, <2>2
    <3>2. reply' = AnswerNow'
      BY <1>2, <3>1 DEF AnswerNow
    <3>3. ReplyOK'
      BY <3>1 DEF ReplyOK, Answer
    <3> QED
      BY <2>2, <3>2, <3>3 DEF Exchange
  <2> QED
    BY <1>3, <2>1, <2>2
<1>7. ResultExact' /\ NoSpuriousError'
  BY <1>1, StillRunning
<1> QED
  BY <1>4, <1>5, <1>6, <1>7 DEF ReadInv

LEMMA ServerReadHolds == ASSUME ReadInv, ServerRead PROVE ReadInv'
<1> DEFINE c == Entry.chunk_id
           end == Entry.chunk_offset + Entry.length - 1
<1>1. /\ pc = "headed" /\ pc' = "answered"
      /\ reply' = RangeReply(c, [kind |-> "bytes", start |-> Entry.chunk_offset,
                                 end |-> end], size)
      /\ UNCHANGED <<manifest, i, sum, size, out, result, damaged, faults,
                     silent, blobs>>
  BY DEF ServerRead
<1>2. /\ c \in ChunkId /\ Entry.chunk_offset \in U64 /\ end \in U64
      /\ blobs \in [ChunkId -> Bytes \cup {None}]
  BY <1>1, EntryNow DEF Reading, ReadInv, TypeOK
<1>3. Entry' = Entry /\ AnswerNow' = AnswerNow
  <2>1. Entry' = Entry
    BY <1>1 DEF Entry
  <2> QED
    BY <1>1, <2>1 DEF AnswerNow, EntryRange, RangeReply, get_range
<1>4. TypeOK'
  BY <1>1 DEF ReadInv, TypeOK, Reading
<1>5. BlobsIntact' /\ Filled' /\ Progress'
  BY <1>1
  DEF ReadInv, BlobsIntact, Filled, Exact, SegmentExact, Progress, Reading
<1>6. ReplyOK'
  BY <1>1, <1>2, <1>3, RangeAnswer DEF ReplyOK
<1>7. c \notin damaged => reply' = AnswerNow
  BY <1>1 DEF ReadInv, Exchange, AnswerNow, EntryRange
<1>8. Exchange'
  BY <1>1, <1>3, <1>6, <1>7 DEF Exchange
<1>9. ResultExact' /\ NoSpuriousError'
  BY <1>1, StillRunning
<1> QED
  BY <1>4, <1>5, <1>6, <1>8, <1>9 DEF ReadInv

(* CopiedIs: copy_from_slice makes the segment it writes to the bytes it   *)
(* is given, and changes no segment before it.                             *)
LEMMA CopiedIs ==
  ASSUME NEW S, out \in Seq(S), NEW at \in Nat, NEW body \in Seq(S),
         at + Len(body) <= Len(out), NEW copy, copy = Copied(at, body)
  PROVE  /\ copy \in Seq(S) /\ Len(copy) = Len(out)
         /\ Slice(copy, at, Len(body)) = body
         /\ \A offset, length \in Nat :
              offset + length <= at => Slice(copy, offset, length)
                                         = Slice(out, offset, length)
<1> DEFINE n == Len(out)
           m == Len(body)
           byte(p) == IF p \in (at + 1) .. (at + m) THEN body[p - at] ELSE out[p]
<1>1. n \in Nat /\ DOMAIN out = 1 .. n /\ m \in Nat /\ at + m <= n
  OBVIOUS
<1>2. copy = [p \in 1 .. n |-> byte(p)]
  BY <1>1 DEF Copied
<1>3. ASSUME NEW p \in 1 .. n PROVE byte(p) \in S
  <2>1. CASE p \in (at + 1) .. (at + m)
    <3>1. p - at \in 1 .. m
      BY <1>1, <2>1
    <3>2. body[p - at] \in S
      BY <3>1
    <3> QED
      BY <2>1, <3>2
  <2>2. CASE p \notin (at + 1) .. (at + m)
    <3>1. out[p] \in S
      OBVIOUS
    <3> QED
      BY <2>2, <3>1
  <2> QED
    BY <2>1, <2>2
<1>4. ASSUME NEW x \in 1 .. m PROVE at + x \in 1 .. n /\ byte(at + x) = body[x]
  <2>1. /\ at + x \in (at + 1) .. (at + m) /\ at + x \in 1 .. n
        /\ (at + x) - at = x
    BY <1>1
  <2> QED
    BY <2>1
<1>5. ASSUME NEW p \in 1 .. n, p <= at PROVE byte(p) = out[p]
  BY <1>1, <1>5
<1> HIDE DEF byte
<1>6. copy \in Seq(S) /\ Len(copy) = n
  BY <1>1, <1>2, <1>3
<1>7. Slice(copy, at, m) = body
  <2>0. at + m <= Len(copy)
    BY <1>1, <1>6
  <2>1. Slice(copy, at, m) = [x \in 1 .. m |-> copy[at + x]]
    <3> HIDE DEF m, n
    <3> QED
      BY <1>1, <1>6, <2>0 DEF Slice
  <2>2. \A x \in 1 .. m : copy[at + x] = body[x]
    BY <1>2, <1>4
  <2>3. body = [x \in 1 .. m |-> body[x]]
    OBVIOUS
  <2> QED
    BY <2>1, <2>2, <2>3
<1>8. ASSUME NEW offset \in Nat, NEW length \in Nat, offset + length <= at
      PROVE  Slice(copy, offset, length) = Slice(out, offset, length)
  <2>1. offset + length <= n /\ offset + length <= Len(copy)
    BY <1>1, <1>6, <1>8
  <2>2. /\ Slice(copy, offset, length) = [x \in 1 .. length |-> copy[offset + x]]
        /\ Slice(out, offset, length) = [x \in 1 .. length |-> out[offset + x]]
    <3> HIDE DEF m, n
    <3> QED
      BY <1>1, <1>6, <2>1 DEF Slice
  <2>3. ASSUME NEW x \in 1 .. length PROVE copy[offset + x] = out[offset + x]
    <3>1. offset + x \in 1 .. n /\ offset + x <= at
      BY <1>1, <1>8, <2>1
    <3> QED
      BY <1>2, <1>5, <3>1
  <2> QED
    BY <2>2, <2>3
<1> QED
  BY <1>6, <1>7, <1>8

(* ReplyExact: a reply that passes the checks, for a whole chunk or for    *)
(* one no fault has hit, holds the bytes that the chunk id addresses.      *)
LEMMA ReplyExact ==
  ASSUME ReadInv, pc = "answered", Verdict = "Ok",
         Whole(manifest, Entry) \/ Entry.chunk_id \notin damaged
  PROVE  reply.val.body = Slice(Body(Entry.chunk_id), Entry.chunk_offset, Entry.length)
<1> DEFINE c == Entry.chunk_id
           body == reply.val.body
           start == Entry.chunk_offset
           end == Entry.chunk_offset + Entry.length - 1
<1>1. /\ reply.shape # "closed" /\ reply.code = "Ok"
      /\ Len(body) = Entry.length
      /\ Whole(manifest, Entry) => verify(c, body)
  BY DEF Verdict
<1>2. /\ body \in Seq(0 .. ByteMax)
      /\ start = 0 => body \in Bytes
  BY <1>1 DEF ReadInv, Exchange, ReplyOK, Closed
<1>3. /\ c \in ChunkId /\ start \in U64 /\ end \in U64 /\ start \in Nat
      /\ blobs \in [ChunkId -> Bytes \cup {None}]
  BY EntryNow DEF Reading, ReadInv, TypeOK
<1>4. CASE Whole(manifest, Entry)
  <2>1. start = 0 /\ body \in Bytes /\ b3(body) = c
    BY <1>1, <1>2, <1>4 DEF Whole, verify
  <2>2. Body(c) = body
    BY <2>1, BodyIs
  <2>3. Slice(body, 0, Len(body)) = body
    BY <1>2, SliceWhole
  <2> QED
    BY <1>1, <2>1, <2>2, <2>3
<1>5. CASE c \notin damaged
  <2>1. reply = AnswerNow
    BY <1>5 DEF ReadInv, Exchange
  <2>2. /\ blobs[c] # None
        /\ reply = RangeReply(c, [kind |-> "bytes", start |-> start, end |-> end],
                              Len(blobs[c]))
    BY <1>1, <2>1 DEF AnswerNow, EntryRange, Answer
  <2>3. /\ RangeLength(start, end) \in Nat
        /\ start + RangeLength(start, end) <= Len(blobs[c])
        /\ body = Slice(blobs[c], start, RangeLength(start, end))
    <3> HIDE DEF c, start, end
    <3> QED
      BY <1>1, <1>3, <2>2, RangeAnswer DEF Closed
  <2>4. blobs[c] = Body(c) /\ blobs[c] \in Seq(0 .. ByteMax)
    BY <1>3, <1>5, <2>2, BytesType DEF ReadInv, BlobsIntact
  <2>5. Len(body) = RangeLength(start, end)
    BY <1>3, <2>3, <2>4, SliceAt
  <2> QED
    BY <1>1, <2>3, <2>4, <2>5
<1> QED
  BY <1>4, <1>5

(* ErrorCaused: a reply that does not pass them has a cause. *)
LEMMA ErrorCaused ==
  ASSUME ReadInv, pc = "answered", Verdict # "Ok"
  PROVE  Cause(i)
<1> DEFINE c == Entry.chunk_id
           start == Entry.chunk_offset
<1> SUFFICES ASSUME ~Cause(i) PROVE Verdict = "Ok"
  OBVIOUS
<1>1. /\ Entry = manifest.entries[i] /\ c \in ChunkId
      /\ start \in U64 /\ start \in Nat /\ Entry.length \in Nat \ {0}
      /\ start + Entry.length <= ChunkSize(manifest, c)
      /\ blobs \in [ChunkId -> Bytes \cup {None}]
  BY EntryNow DEF Reading, ReadInv, TypeOK
<1>2. /\ c \notin damaged /\ blobs[c] # None
      /\ Len(blobs[c]) = ChunkSize(manifest, c) /\ ~(Entry.length > U32Max)
  BY <1>1 DEF Cause
<1>3. /\ blobs[c] = Body(c) /\ c \in Stored /\ verify(c, blobs[c])
      /\ blobs[c] \in Seq(0 .. ByteMax) /\ Len(blobs[c]) \in Nat
  BY <1>1, <1>2, StoredBody, BytesType DEF ReadInv, BlobsIntact
<1>4. reply = RangeReply(c, [kind |-> "bytes", start |-> start,
                             end |-> start + Entry.length - 1], Len(blobs[c]))
  BY <1>2 DEF ReadInv, Exchange, AnswerNow, EntryRange
<1>5. /\ reply.shape = "success" /\ reply.code = "Ok"
      /\ reply.val.body = Slice(blobs[c], start, Entry.length)
  <2>1. Entry.length <= U32Max /\ start + Entry.length <= Len(blobs[c])
    BY <1>1, <1>2, WidthAssumption
  <2> HIDE DEF c, start
  <2> QED
    BY <1>1, <1>2, <1>3, <1>4, <2>1, RangeExact
<1>6. Len(reply.val.body) = Entry.length
  BY <1>1, <1>2, <1>3, <1>5, SliceAt
<1>7. Whole(manifest, Entry) => verify(c, reply.val.body)
  <2> SUFFICES ASSUME Whole(manifest, Entry) PROVE verify(c, reply.val.body)
    OBVIOUS
  <2>1. start = 0 /\ Entry.length = Len(blobs[c])
    BY <1>2 DEF Whole
  <2>2. reply.val.body = blobs[c]
    BY <1>3, <1>5, <2>1, SliceWhole
  <2> QED
    BY <1>3, <2>2
<1> QED
  BY <1>5, <1>6, <1>7 DEF Verdict

(* ReceiveHolds: the copy makes the current segment exact and leaves the   *)
(* earlier ones alone, because the entries do not overlap.                 *)
LEMMA ReceiveHolds == ASSUME ReadInv, Receive PROVE ReadInv'
<1>0. pc = "answered"
  BY DEF Receive
<1>1. CASE /\ Verdict = "Ok"
           /\ out' = Copied(Entry.logical_offset, reply.val.body)
           /\ pc' = "fetch" /\ i' = i + 1
           /\ reply' = None /\ size' = None
           /\ UNCHANGED <<manifest, sum, result, damaged, faults, silent, blobs>>
  <2> DEFINE body == reply.val.body
             at == Entry.logical_offset
  <2>1. /\ i \in Entries(manifest) /\ i \in Nat /\ manifest \in Manifest
        /\ Tiles(manifest) /\ Entry = manifest.entries[i]
        /\ at \in Nat /\ Entry.length \in Nat
        /\ at + Entry.length <= Len(out) /\ Len(out) = manifest.total_size
        /\ out \in Seq(0 .. ByteMax) /\ Len(out) \in Nat
    BY <1>0, EntryNow DEF Reading, ReadInv, TypeOK
  <2>2. /\ Len(body) = Entry.length /\ body \in Seq(0 .. ByteMax)
    BY <1>0, <1>1 DEF Verdict, ReadInv, Exchange, ReplyOK, Closed
  <2>3. /\ out' \in Seq(0 .. ByteMax) /\ Len(out') = Len(out)
        /\ Slice(out', at, Entry.length) = body
        /\ \A offset, length \in Nat :
             offset + length <= at => Slice(out', offset, length)
                                        = Slice(out, offset, length)
    <3>1. at + Len(body) <= Len(out)
      BY <2>1, <2>2
    <3>2. out' = Copied(at, body)
      BY <1>1
    <3> HIDE DEF body, at
    <3> QED
      BY <2>1, <2>2, <3>1, <3>2, CopiedIs
  <2>4. TypeOK'
    <3>1. Len(manifest.entries) \in Nat
      BY <2>1, EntriesType
    <3>2. i' \in 1 .. (Len(manifest.entries) + 1)
      BY <1>1, <2>1, <3>1 DEF Entries
    <3> QED
      BY <1>1, <2>1, <2>3, <3>2 DEF ReadInv, TypeOK, Reading
  <2>5. BlobsIntact' /\ Progress' /\ Exchange'
    BY <1>0, <1>1 DEF ReadInv, BlobsIntact, Progress, Exchange, Reading
  <2>6. Filled'
    <3> SUFFICES ASSUME NEW k \in 1 .. i PROVE Exact(k)'
      BY <1>1, <2>1 DEF Filled
    <3> DEFINE e == manifest.entries[k]
    <3>1. /\ k \in Entries(manifest) /\ k \in Nat /\ k <= i
          /\ e.logical_offset \in Nat /\ e.length \in Nat
      <4>1. k \in Entries(manifest) /\ k \in Nat /\ k <= i
        BY <2>1 DEF Entries
      <4> QED
        BY <2>1, <4>1, EntryFields DEF U64
    <3> SUFFICES ASSUME Whole(manifest, e) \/ e.chunk_id \notin damaged
                 PROVE  Slice(out', e.logical_offset, e.length)
                          = Slice(Body(e.chunk_id), e.chunk_offset, e.length)
      BY <1>1 DEF Exact, SegmentExact, Slice
    <3>2. CASE k = i
      <4>1. body = Slice(Body(e.chunk_id), e.chunk_offset, e.length)
        BY <1>0, <1>1, <2>1, <3>2, ReplyExact
      <4> QED
        BY <2>1, <2>3, <3>2, <4>1
    <3>3. CASE k # i
      <4>1. k < i /\ k \in 1 .. (i - 1)
        BY <2>1, <3>1, <3>3
      <4>2. e.logical_offset + e.length <= at
        BY <2>1, <3>1, <4>1, TilesOrdered DEF LogicalEnd
      <4>3. Slice(out, e.logical_offset, e.length)
              = Slice(Body(e.chunk_id), e.chunk_offset, e.length)
        BY <1>0, <4>1 DEF ReadInv, Filled, Exact, SegmentExact, Slice, Reading
      <4> QED
        BY <2>3, <3>1, <4>2, <4>3
    <3> QED
      BY <3>2, <3>3
  <2>7. ResultExact' /\ NoSpuriousError'
    BY <1>0, <1>1, StillRunning
  <2> QED
    BY <2>4, <2>5, <2>6, <2>7 DEF ReadInv
<1>2. CASE Verdict # "Ok" /\ Return(Verdict)
  <2>1. Verdict \in Code \ {"running", "Aborted", "IntegrityManifestInvalid"}
    BY <1>0, <1>2 DEF ReadInv, Exchange, ReplyOK, Closed, Verdict, Code
  <2>2. Cause(i) /\ i \in Entries(manifest)
    BY <1>0, <1>2, ErrorCaused, EntryNow DEF Reading
  <2> HIDE DEF Verdict
  <2> QED
    BY <1>0, <1>2, <2>1, <2>2, ReturnHolds
<1> QED
  BY <1>1, <1>2 DEF Receive

(* FinishHolds, ConnectionFailsHolds: the other two ways to return. *)
LEMMA FinishHolds == ASSUME ReadInv, Finish PROVE ReadInv'
<1>1. /\ pc = "fetch" /\ Return("Ok") /\ Len(out) = manifest.total_size
      /\ i \in 1 .. (Len(manifest.entries) + 1) /\ i > Len(manifest.entries)
      /\ manifest \in Manifest
      /\ \A k \in 1 .. (i - 1) : Exact(k)
  BY DEF Finish, ReadInv, TypeOK, Filled, Reading
<1>2. Entries(manifest) = 1 .. (i - 1)
  BY <1>1, EntriesType DEF Entries
<1>3. "Ok" \in Code \ {"running"}
  BY DEF Code
<1> QED
  BY <1>1, <1>2, <1>3, ReturnHolds

LEMMA ConnectionFailsHolds == ASSUME ReadInv, ConnectionFails PROVE ReadInv'
<1>1. "NetworkUnavailable" \in Code \ {"running"}
  BY DEF Code
<1> QED
  BY <1>1, ReturnHolds DEF ConnectionFails

(* FaultHolds: a fault changes what is stored under the chunk it damages   *)
(* and nothing else.                                                       *)
LEMMA FaultHolds == ASSUME ReadInv, Fault PROVE ReadInv'
<1>1. /\ faults < MaxFaults /\ pc # "done" /\ faults' = faults + 1
      /\ UNCHANGED <<manifest, pc, i, sum, out, result, size, reply, silent>>
  BY DEF Fault, client
<1>2. blobs \in [ChunkId -> Bytes \cup {None}]
  BY DEF ReadInv, TypeOK
<1>3. PICK c \in Stored :
        /\ \/ \E at \in 1 .. U64Max : corrupt_for_test(c, at)
           \/ \E len \in U64 : truncate_for_test(c, len)
           \/ delete(c)
        /\ damaged' = damaged \cup {c}
  BY DEF Fault
<1>4. \E new \in Bytes \cup {None} : blobs' = [blobs EXCEPT ![c] = new]
  <2>1. CASE \E at \in 1 .. U64Max : corrupt_for_test(c, at)
    <3>1. PICK at : /\ blobs[c] # None /\ at \in 1 .. Len(blobs[c])
                    /\ blobs' = [blobs EXCEPT ![c][at] = ByteMax - @]
      BY <2>1 DEF corrupt_for_test
    <3>2. [blobs[c] EXCEPT ![at] = ByteMax - @] \in Bytes
      BY <1>2, <3>1, FaultAssumption DEF Stored
    <3>3. blobs' = [blobs EXCEPT ![c] = [blobs[c] EXCEPT ![at] = ByteMax - @]]
      BY <1>2, <3>1
    <3> QED
      BY <3>2, <3>3
  <2>2. CASE \E len \in U64 : truncate_for_test(c, len)
    <3>1. PICK len \in U64 : /\ blobs[c] # None /\ len < Len(blobs[c])
                             /\ blobs' = [blobs EXCEPT ![c] = SubSeq(@, 1, len)]
      BY <2>2 DEF truncate_for_test
    <3>2. blobs[c] \in Bytes /\ Len(blobs[c]) \in Nat
      BY <1>2, <3>1, BytesType DEF Stored
    <3>3. SubSeq(blobs[c], 1, len) \in Bytes
      <4>1. len \in 0 .. Len(blobs[c])
        BY <3>1, <3>2 DEF U64
      <4> QED
        BY <3>2, <4>1, FaultAssumption
    <3>4. blobs' = [blobs EXCEPT ![c] = SubSeq(blobs[c], 1, len)]
      BY <1>2, <3>1
    <3> QED
      BY <3>3, <3>4
  <2>3. CASE delete(c)
    BY <2>3 DEF delete
  <2> QED
    BY <1>3, <2>1, <2>2, <2>3
<1>5. /\ c \in ChunkId /\ blobs' \in [ChunkId -> Bytes \cup {None}]
      /\ \A d \in ChunkId \ {c} : blobs'[d] = blobs[d]
  BY <1>2, <1>4 DEF Stored
<1>6. TypeOK'
  <2>1. faults' \in 0 .. MaxFaults
    BY <1>1, FaultAssumption DEF ReadInv, TypeOK
  <2> QED
    BY <1>1, <1>3, <1>5, <2>1 DEF ReadInv, TypeOK
<1>7. BlobsIntact'
  BY <1>3, <1>5 DEF ReadInv, BlobsIntact, Body, Stored
<1>8. Progress'
  BY <1>1 DEF ReadInv, Progress
<1>9. Exchange'
  <2>0. Entry' = Entry
    BY <1>1 DEF Entry
  <2>1. ASSUME pc \in Reading \ {"fetch"}, Entry.chunk_id \notin damaged'
        PROVE  /\ Entry.chunk_id \notin damaged
               /\ blobs'[Entry.chunk_id] = blobs[Entry.chunk_id]
               /\ AnswerNow' = AnswerNow
    <3>1. /\ Entry.chunk_id \notin damaged
          /\ blobs'[Entry.chunk_id] = blobs[Entry.chunk_id]
      BY <1>3, <1>5, <2>1, EntryNow
    <3> QED
      BY <2>0, <3>1 DEF AnswerNow, EntryRange, RangeReply, get_range
  <2>2. (pc' = "headed" /\ Entry'.chunk_id \notin damaged') =>
          /\ blobs'[Entry'.chunk_id] # None
          /\ size' = Len(blobs'[Entry'.chunk_id])
    BY <1>1, <2>0, <2>1 DEF ReadInv, Exchange, Reading
  <2>3. (pc' = "headed" => size' \in U64) /\ (pc' = "answered" => ReplyOK')
    BY <1>1, <2>0 DEF ReadInv, Exchange, ReplyOK
  <2>4. (pc' = "answered" /\ Entry'.chunk_id \notin damaged') => reply' = AnswerNow'
    BY <1>1, <2>0, <2>1 DEF ReadInv, Exchange, Reading
  <2> QED
    BY <2>2, <2>3, <2>4 DEF Exchange
<1>10. Filled'
  BY <1>1, <1>3 DEF ReadInv, Filled, Exact, SegmentExact
<1>11. ResultExact' /\ NoSpuriousError'
  BY <1>1, StillRunning
<1> QED
  BY <1>6, <1>7, <1>8, <1>9, <1>10, <1>11 DEF ReadInv

(* QuietHolds: a peer that goes silent, and a step that changes nothing. *)
LEMMA QuietHolds ==
  ASSUME ReadInv, GoSilent \/ UNCHANGED vars
  PROVE  ReadInv'
<1>1. /\ UNCHANGED <<manifest, pc, i, sum, size, reply, out, result, damaged,
                     faults, blobs>>
      /\ silent' \in BOOLEAN
  BY DEF GoSilent, vars, client, ReadInv, TypeOK
<1>2. TypeOK' /\ BlobsIntact' /\ Progress'
  BY <1>1 DEF ReadInv, TypeOK, BlobsIntact, Progress
<1>3. Exchange'
  <2>1. Entry' = Entry /\ EntryRange' = EntryRange
    BY <1>1 DEF EntryRange, Entry
  <2>2. ReplyOK' = ReplyOK
    BY <1>1, <2>1 DEF ReplyOK
  <2>3. AnswerNow' = AnswerNow
    BY <1>1, <2>1 DEF AnswerNow, RangeReply, get_range
  <2> QED
    BY <1>1, <2>1, <2>2, <2>3 DEF ReadInv, Exchange
<1>4. Filled' /\ ResultExact' /\ NoSpuriousError'
  BY <1>1 DEF ReadInv, Filled, Exact, SegmentExact, ResultExact, NoSpuriousError
<1> QED
  BY <1>2, <1>3, <1>4 DEF ReadInv

-----------------------------------------------------------------------------
(***************************************************************************)
(* The invariant holds throughout every read, with any faults at any       *)
(* moment between its steps.                                               *)
(***************************************************************************)
LEMMA ReadStep == ReadInv /\ [Next]_vars => ReadInv'
  BY ValidateHolds, AddLengthHolds, AllocateHolds, RequestHolds,
     ServerHeadHolds, ServerReadHolds, ReceiveHolds, FinishHolds,
     ConnectionFailsHolds, FaultHolds, QuietHolds
  DEF Next, Client, Server

LEMMA ReadInvariant == Spec => []ReadInv
  BY ReadInit, ReadStep, PTL DEF Spec

(* The variables of reassemble keep their types: the loop index stays in   *)
(* the entries, the running sum of inv05 in u64, the buffer at its size.   *)
THEOREM ReadTypeCorrect == Spec => []TypeOK
<1>1. ReadInv => TypeOK
  BY DEF ReadInv
<1> QED
  BY <1>1, ReadInvariant, PTL

(* Whatever manifest the client is given and whatever the server sends,    *)
(* copy_from_slice never panics: a reply that passed get_chunk_range's     *)
(* check fits the buffer, because a validated entry ends within the file.  *)
THEOREM CopyInBounds == Spec => []NoSliceOutOfBounds
<1>1. ReadInv => NoSliceOutOfBounds
  <2> SUFFICES ASSUME ReadInv, pc = "answered", Verdict = "Ok"
               PROVE  Entry.logical_offset + Len(reply.val.body) <= Len(out)
    BY DEF NoSliceOutOfBounds
  <2>1. Len(reply.val.body) = Entry.length
    BY DEF Verdict
  <2>2. /\ Entry.logical_offset + Entry.length <= manifest.total_size
        /\ Len(out) = manifest.total_size
    BY EntryNow DEF Reading
  <2> QED
    BY <2>1, <2>2
<1> QED
  BY <1>1, ReadInvariant, PTL

(* When reassemble returns Ok, every segment that is a whole chunk, and    *)
(* every segment of a chunk no fault has hit, is what its id addresses.    *)
THEOREM ReadExact == Spec => []ResultExact
<1>1. ReadInv => ResultExact
  BY DEF ReadInv
<1> QED
  BY <1>1, ReadInvariant, PTL

(* An error of reassemble other than the network's has a cause: a manifest *)
(* that describes no file, or a chunk that is damaged, absent, not of the  *)
(* size the manifest gives, or asked for by more than a u32.  It panics or *)
(* aborts only for a manifest that describes a file larger than Memory.    *)
THEOREM ErrorsHaveCause == Spec => []NoSpuriousError
<1>1. ReadInv => NoSpuriousError
  BY DEF ReadInv
<1> QED
  BY <1>1, ReadInvariant, PTL

(* The validator of reassemble, with its checked additions one entry at a  *)
(* time, lets through exactly the manifests that describe a file.          *)
THEOREM ValidatorIsExact == Spec => []ValidatorExact
<1>1. ReadInv => ValidatorExact
  BY ValidatorCorrect DEF ReadInv, TypeOK, Progress, ValidatorExact
<1> QED
  BY <1>1, ReadInvariant, PTL

-----------------------------------------------------------------------------
(***************************************************************************)
(* The generator: what generate_manifest makes is a manifest and passes    *)
(* validate_manifest.                                                      *)
(***************************************************************************)
(* LenOf: the length of a sequence whose domain is known. *)
LEMMA LenOf ==
  ASSUME NEW X, NEW s \in Seq(X), NEW n \in Nat, DOMAIN s = 1 .. n
  PROVE  Len(s) = n
<1>1. Len(s) \in Nat /\ DOMAIN s = 1 .. Len(s)
  OBVIOUS
<1>2. n # 0 => n \in 1 .. Len(s)
  BY <1>1
<1>3. Len(s) # 0 => Len(s) \in 1 .. n
  BY <1>1
<1> QED
  BY <1>1, <1>2, <1>3

(* CeilDiv: what div_ceil gives. *)
LEMMA CeilDiv ==
  ASSUME NEW F \in Nat, NEW S \in Nat \ {0}, NEW n, n = chunk_count(F, S)
  PROVE  /\ n \in Nat /\ F <= n * S
         /\ n # 0 => (n - 1) * S < F
         /\ n <= F
<1>1. n = (F + S - 1) \div S
  BY DEF chunk_count
<1>2. n \in Int
  BY <1>1
<1>3. S * n <= F + S - 1 /\ F + S - 1 < S * (n + 1)
  BY <1>1
<1>4. n \in Nat
  BY <1>2, <1>3
<1> QED
  BY <1>2, <1>3, <1>4

(* The lists of chunks generate_manifest has after each entry. *)
IsListing(f, ids, F, S, n) ==
  /\ f = [k \in 0 .. n |-> f[k]]
  /\ f[0] = <<>>
  /\ \A k \in 1 .. n : f[k] = Listed(f[k - 1], ids[k], BodyLen(F, S, k))

(* ListingExists: by induction on how many entries there are. *)
LEMMA ListingExists ==
  ASSUME NEW ids, NEW F, NEW S, NEW m \in Nat
  PROVE  \E f : IsListing(f, ids, F, S, m)
<1> DEFINE T == {n \in Nat : \E f : IsListing(f, ids, F, S, n)}
<1>1. 0 \in T
  <2>1. IsListing([k \in 0 .. 0 |-> <<>>], ids, F, S, 0)
    BY DEF IsListing
  <2> QED
    BY <2>1
<1>2. ASSUME NEW n \in Nat, n \in T PROVE n + 1 \in T
  <2>1. PICK f : IsListing(f, ids, F, S, n)
    BY <1>2
  <2> DEFINE last == Listed(f[n], ids[n + 1], BodyLen(F, S, n + 1))
             g == [k \in 0 .. (n + 1) |-> IF k = n + 1 THEN last ELSE f[k]]
  <2> HIDE DEF last
  <2>2. g[n + 1] = last /\ \A k \in 0 .. n : g[k] = f[k]
    OBVIOUS
  <2>3. g = [k \in 0 .. (n + 1) |-> g[k]]
    OBVIOUS
  <2> HIDE DEF g
  <2>4. g[0] = <<>>
    BY <2>1, <2>2 DEF IsListing
  <2>5. ASSUME NEW k \in 1 .. (n + 1)
        PROVE  g[k] = Listed(g[k - 1], ids[k], BodyLen(F, S, k))
    <3>1. CASE k = n + 1
      BY <2>2, <3>1 DEF last
    <3>2. CASE k # n + 1
      <4>1. k \in 1 .. n /\ k \in 0 .. n /\ k - 1 \in 0 .. n
        BY <3>2
      <4> QED
        BY <2>1, <2>2, <4>1 DEF IsListing
    <3> QED
      BY <3>1, <3>2
  <2>6. IsListing(g, ids, F, S, n + 1)
    BY <2>3, <2>4, <2>5 DEF IsListing
  <2> QED
    BY <2>6
<1> HIDE DEF T
<1>3. Nat \subseteq T
  BY <1>1, <1>2, NatInductionSet
<1> QED
  BY <1>3 DEF T

(* The entries generate_manifest makes. *)
EntriesMade(F, S, ids, n) ==
  [k \in 1 .. n |->
    [logical_offset |-> (k - 1) * S, length |-> BodyLen(F, S, k),
     chunk_id |-> ids[k], chunk_offset |-> 0]]

(* GeneratedParts: the fields of a generated manifest. *)
LEMMA GeneratedParts ==
  ASSUME NEW F \in Nat, NEW S \in Nat \ {0}, NEW ids,
         NEW n, n = chunk_count(F, S),
         NEW g, g = generate_manifest(F, S, ids)
  PROVE  /\ \E f : IsListing(f, ids, F, S, n) /\ g.chunks = f[n]
         /\ g = [manifest_id |-> gen, total_size |-> F, chunk_count |-> n,
                 entries |-> EntriesMade(F, S, ids, n), chunks |-> g.chunks]
<1> DEFINE Step(f) == [k \in 0 .. n |->
                         IF k = 0 THEN <<>>
                         ELSE Listed(f[k - 1], ids[k], BodyLen(F, S, k))]
           listing == CHOOSE f : f = Step(f)
<1>1. n \in Nat
  BY CeilDiv
<1>2. PICK f : IsListing(f, ids, F, S, n)
  BY <1>1, ListingExists
<1>3. f = Step(f)
  <2>1. ASSUME NEW k \in 0 .. n
        PROVE  f[k] = IF k = 0 THEN <<>>
                      ELSE Listed(f[k - 1], ids[k], BodyLen(F, S, k))
    <3>1. k # 0 => k \in 1 .. n
      OBVIOUS
    <3> QED
      BY <1>2, <3>1 DEF IsListing
  <2> QED
    BY <1>2, <2>1 DEF IsListing
<1>4. listing = Step(listing)
  <2> HIDE DEF Step
  <2> QED
    BY <1>3, Zenon
<1>5. IsListing(listing, ids, F, S, n)
  <2> HIDE DEF listing
  <2>1. listing = [k \in 0 .. n |-> listing[k]]
    BY <1>4
  <2>2. \A k \in 0 .. n :
          listing[k] = IF k = 0 THEN <<>>
                       ELSE Listed(listing[k - 1], ids[k], BodyLen(F, S, k))
    <3>1. \A k \in 0 .. n :
            Step(listing)[k] = IF k = 0 THEN <<>>
                               ELSE Listed(listing[k - 1], ids[k], BodyLen(F, S, k))
      OBVIOUS
    <3> HIDE DEF Step
    <3> QED
      BY <1>4, <3>1
  <2> QED
    BY <1>1, <2>1, <2>2 DEF IsListing
<1> DEFINE es == EntriesMade(F, S, ids, n)
           cs == listing[n]
<1>6. g = [manifest_id |-> gen, total_size |-> F, chunk_count |-> n,
           entries |-> es, chunks |-> cs]
  BY DEF generate_manifest, EntriesMade
<1>7. IsListing(listing, ids, F, S, n) /\ cs = listing[n]
  BY <1>5
<1> HIDE DEF es, cs, listing
<1>8. g.chunks = cs
  BY <1>6
<1>9. g = [manifest_id |-> gen, total_size |-> F, chunk_count |-> n,
           entries |-> es, chunks |-> g.chunks]
  BY <1>6, <1>8
<1> QED
  BY <1>7, <1>8, <1>9 DEF es


(* The metadata the entries give of their chunks. *)
Metas(F, S, ids, n) ==
  {[chunk_id |-> ids[k], size |-> BodyLen(F, S, k)] : k \in 1 .. n}

(* cs lists each chunk of the entries, and no other. *)
ListsAll(cs, ids, n) ==
  \A k \in 1 .. n : \E c \in DOMAIN cs : cs[c].chunk_id = ids[k]

ListsOnly(cs, F, S, ids, n) ==
  \A c \in DOMAIN cs :
    \E k \in 1 .. n : cs[c] = [chunk_id |-> ids[k], size |-> BodyLen(F, S, k)]

(* ListingHolds: the chunks listed are those of the entries. *)
LEMMA ListingHolds ==
  ASSUME NEW F, NEW S, NEW m \in Nat, NEW ids, NEW f, IsListing(f, ids, F, S, m)
  PROVE  /\ ListsAll(f[m], ids, m) /\ ListsOnly(f[m], F, S, ids, m)
         /\ f[m] \in Seq(Metas(F, S, ids, m))
<1> DEFINE Meta(k) == [chunk_id |-> ids[k], size |-> BodyLen(F, S, k)]
           Ms == Metas(F, S, ids, m)
           Names(n) == \A k \in 1 .. n : \E c \in DOMAIN f[n] : f[n][c].chunk_id = ids[k]
           T == {n \in Nat : n <= m => f[n] \in Seq(Ms) /\ Names(n)}
<1>1. 0 \in T
  <2>1. \A X : <<>> \in Seq(X)
    OBVIOUS
  <2>2. f[0] \in Seq(Ms)
    BY <2>1 DEF IsListing
  <2>3. Names(0)
    OBVIOUS
  <2> QED
    BY <2>2, <2>3
<1>2. ASSUME NEW n \in Nat, n \in T PROVE n + 1 \in T
  <2> SUFFICES ASSUME n + 1 <= m PROVE f[n + 1] \in Seq(Ms) /\ Names(n + 1)
    OBVIOUS
  <2> DEFINE new == Meta(n + 1)
  <2>1. f[n] \in Seq(Ms) /\ Names(n)
    BY <1>2
  <2>2. n + 1 \in 1 .. m /\ (n + 1) - 1 = n
    OBVIOUS
  <2>3. f[n + 1] = Listed(f[n], ids[n + 1], BodyLen(F, S, n + 1))
    BY <2>2 DEF IsListing
  <2>4. new \in Ms /\ new.chunk_id = ids[n + 1]
    BY <2>2 DEF Metas
  <2>5. CASE \E j \in DOMAIN f[n] : f[n][j].chunk_id = ids[n + 1]
    <3>1. f[n + 1] = f[n]
      BY <2>3, <2>5 DEF Listed
    <3> QED
      BY <2>1, <2>5, <3>1
  <2>6. CASE ~\E j \in DOMAIN f[n] : f[n][j].chunk_id = ids[n + 1]
    <3>1. f[n + 1] = Append(f[n], new)
      BY <2>3, <2>6 DEF Listed
    <3> HIDE DEF new
    <3>2. /\ f[n + 1] \in Seq(Ms) /\ Len(f[n + 1]) = Len(f[n]) + 1
          /\ f[n + 1][Len(f[n]) + 1] = new
          /\ DOMAIN f[n] = 1 .. Len(f[n]) /\ DOMAIN f[n + 1] = 1 .. (Len(f[n]) + 1)
          /\ \A c \in DOMAIN f[n] : f[n + 1][c] = f[n][c]
          /\ Len(f[n]) \in Nat
      BY <2>1, <2>4, <3>1
    <3>3. ASSUME NEW k \in 1 .. (n + 1)
          PROVE  \E c \in DOMAIN f[n + 1] : f[n + 1][c].chunk_id = ids[k]
      <4>1. CASE k = n + 1
        <5>1. Len(f[n]) + 1 \in DOMAIN f[n + 1]
          BY <3>2
        <5>2. f[n + 1][Len(f[n]) + 1].chunk_id = ids[k]
          BY <2>4, <3>2, <4>1
        <5> QED
          BY <5>1, <5>2
      <4>2. CASE k # n + 1
        <5>1. PICK c \in DOMAIN f[n] : f[n][c].chunk_id = ids[k]
          BY <2>1, <4>2
        <5>2. c \in DOMAIN f[n + 1] /\ f[n + 1][c].chunk_id = ids[k]
          BY <3>2, <5>1
        <5> QED
          BY <5>2
      <4> QED
        BY <4>1, <4>2
    <3> QED
      BY <3>2, <3>3
  <2> QED
    BY <2>5, <2>6
<1> HIDE DEF T
<1>3. Nat \subseteq T
  BY <1>1, <1>2, NatInductionSet
<1>4. f[m] \in Seq(Ms) /\ Names(m)
  <2> HIDE DEF Ms, Names
  <2>1. m \in T
    BY <1>3
  <2> QED
    BY <2>1 DEF T
<1>5. \A c \in DOMAIN f[m] : f[m][c] \in Ms
  <2> QED
    BY <1>4
<1>6. \A c \in DOMAIN f[m] :
        \E k \in 1 .. m : f[m][c] = [chunk_id |-> ids[k], size |-> BodyLen(F, S, k)]
  BY <1>5 DEF Metas
<1> QED
  BY <1>4, <1>6 DEF ListsAll, ListsOnly

(* Layout: the segments follow one another up to the end of the file. *)
LEMMA Layout ==
  ASSUME NEW F \in Nat, NEW S \in Nat \ {0}, NEW n, n = chunk_count(F, S),
         NEW k \in 1 .. n
  PROVE  /\ BodyLen(F, S, k) \in 1 .. F
         /\ (k - 1) * S \in 0 .. F
         /\ k # n => (k - 1) * S + BodyLen(F, S, k) = k * S
         /\ k = n => (k - 1) * S + BodyLen(F, S, k) = F
<1>1. n \in Nat /\ F <= n * S /\ (n - 1) * S < F
  BY CeilDiv
<1>2. (k - 1) * S <= (n - 1) * S /\ (k - 1) * S \in Nat
  BY <1>1
<1>3. (k - 1) * S < F
  <2>1. (n - 1) * S \in Int /\ (k - 1) * S \in Int
    BY <1>1
  <2> QED
    BY <1>1, <1>2, <2>1
<1>4. k # n => k * S <= (n - 1) * S
  <2>1. \A a, b, c \in Int : a <= b /\ c > 0 => a * c <= b * c
    OBVIOUS
  <2>2. k # n => k \in Int /\ n - 1 \in Int /\ k <= n - 1
    BY <1>1
  <2> QED
    BY <2>1, <2>2
<1>5. k * S = (k - 1) * S + S
  OBVIOUS
<1> DEFINE a == (k - 1) * S
           b == (n - 1) * S
<1>6. n * S = b + S
  BY <1>1
<1>7. /\ a \in Nat /\ b \in Int /\ a < F /\ b < F /\ F <= b + S
      /\ k # n => a + S <= b
      /\ k = n => a = b
      /\ k * S = a + S
  <2>1. b \in Int
    BY <1>1
  <2>2. k # n => a + S <= b
    BY <1>4, <1>5
  <2>3. F <= b + S
    BY <1>1, <1>6
  <2>4. a \in Nat /\ a < F /\ b < F /\ k * S = a + S
    BY <1>1, <1>2, <1>3, <1>5
  <2> QED
    BY <2>1, <2>2, <2>3, <2>4
<1>8. BodyLen(F, S, k) = IF F - a < S THEN F - a ELSE S
  BY DEF BodyLen
<1> HIDE DEF a, b
<1> QED
  <2>1. /\ BodyLen(F, S, k) \in 1 .. F
        /\ k # n => a + BodyLen(F, S, k) = a + S
        /\ k = n => a + BodyLen(F, S, k) = F
    BY <1>7, <1>8
  <2>2. a \in 0 .. F
    BY <1>7
  <2> QED
    BY <1>7, <2>1, <2>2 DEF a

(* GeneratedValid: what the generator makes passes validate_manifest, and  *)
(* names no chunk but those it generated.                                  *)
LEMMA GeneratedValid ==
  ASSUME NEW F \in Nat, NEW S \in Nat \ {0}, NEW n, n = chunk_count(F, S),
         NEW ids, ids \in [1 .. n -> GeneratedId],
         \A j, k \in 1 .. n : ids[j] = ids[k] => BodyLen(F, S, j) = BodyLen(F, S, k),
         NEW g, g \in Manifest, g = generate_manifest(F, S, ids)
  PROVE  /\ ValidManifest(g)
         /\ \A c \in DOMAIN g.chunks : g.chunks[c].chunk_id \in GeneratedId
<1> DEFINE len(k) == BodyLen(F, S, k)
<1>3. n \in Nat
  BY CeilDiv
<1>4. PICK f : IsListing(f, ids, F, S, n) /\ g.chunks = f[n]
  BY GeneratedParts
<1>5. /\ g.total_size = F /\ g.chunk_count = n
      /\ g.entries = [k \in 1 .. n |->
           [logical_offset |-> (k - 1) * S, length |-> len(k),
            chunk_id |-> ids[k], chunk_offset |-> 0]]
  <2>1. g = [manifest_id |-> gen, total_size |-> F, chunk_count |-> n,
             entries |-> EntriesMade(F, S, ids, n), chunks |-> g.chunks]
    BY GeneratedParts
  <2>2. /\ g.total_size = F /\ g.chunk_count = n
        /\ g.entries = EntriesMade(F, S, ids, n)
    BY <2>1
  <2> QED
    BY <2>2 DEF EntriesMade
<1>6. g.entries \in Seq(ManifestEntry) /\ Len(g.entries) \in Nat
  BY DEF Manifest
<1>7. Len(g.entries) = n /\ Entries(g) = 1 .. n
  <2>1. DOMAIN g.entries = 1 .. n /\ DOMAIN g.entries = 1 .. Len(g.entries)
    <3>1. DOMAIN g.entries = 1 .. n
      BY <1>5
    <3>2. DOMAIN g.entries = 1 .. Len(g.entries)
      BY <1>6
    <3> QED
      BY <3>1, <3>2
  <2> QED
    BY <1>3, <1>6, <2>1, LenOf DEF Entries
<1>8. ASSUME NEW k \in 1 .. n
      PROVE  /\ g.entries[k].logical_offset = (k - 1) * S
             /\ g.entries[k].length = len(k) /\ g.entries[k].chunk_id = ids[k]
             /\ g.entries[k].chunk_offset = 0 /\ ids[k] \in GeneratedId
             /\ LogicalEnd(g.entries[k]) = (k - 1) * S + len(k)
             /\ len(k) \in 1 .. F
  <2>1. g.entries[k] = [logical_offset |-> (k - 1) * S, length |-> len(k),
                        chunk_id |-> ids[k], chunk_offset |-> 0]
    BY <1>5
  <2>2. len(k) \in 1 .. F
    BY Layout
  <2> HIDE DEF len
  <2>3. LogicalEnd(g.entries[k]) = (k - 1) * S + len(k)
    BY <2>1 DEF LogicalEnd
  <2> QED
    BY <2>1, <2>2, <2>3
<1>9. Tiles(g)
  <2> SUFFICES ASSUME NEW k \in 1 .. n
               PROVE  /\ g.entries[k].logical_offset = EndOf(g, k - 1)
                      /\ g.entries[k].length > 0
    BY <1>7 DEF Tiles
  <2>1. g.entries[k].length > 0
    BY <1>3, <1>8
  <2>2. CASE k = 1
    <3>1. (1 - 1) * S = 0 /\ 1 - 1 = 0
      OBVIOUS
    <3>2. g.entries[1].logical_offset = (1 - 1) * S
      BY <1>8, <2>2
    <3>3. EndOf(g, k - 1) = 0
      BY <2>2, <3>1 DEF EndOf
    <3> QED
      BY <2>1, <2>2, <3>1, <3>2, <3>3
  <2>3. CASE k # 1
    <3>1. k - 1 \in 1 .. n /\ k - 1 # n /\ k - 1 # 0
      BY <1>3, <2>3
    <3>2. ((k - 1) - 1) * S + len(k - 1) = (k - 1) * S
      BY <1>3, <3>1, Layout
    <3>3. LogicalEnd(g.entries[k - 1]) = (k - 1) * S
      BY <1>8, <3>1, <3>2
    <3> QED
      BY <1>8, <2>1, <3>1, <3>3 DEF EndOf
  <2> QED
    BY <2>2, <2>3
<1>10. EndOf(g, Len(g.entries)) = g.total_size
  <2>1. CASE n = 0
    <3>1. F <= n * S
      BY <1>3, CeilDiv
    <3> QED
      BY <1>3, <1>5, <1>7, <2>1, <3>1 DEF EndOf
  <2>2. CASE n # 0
    <3>1. n \in 1 .. n
      BY <1>3, <2>2
    <3>2. (n - 1) * S + len(n) = F
      BY <1>3, <3>1, Layout
    <3> QED
      BY <1>5, <1>7, <1>8, <2>2, <3>1, <3>2 DEF EndOf
  <2> QED
    BY <2>1, <2>2
<1>11. /\ \A k \in 1 .. n : \E c \in DOMAIN g.chunks : g.chunks[c].chunk_id = ids[k]
       /\ \A c \in DOMAIN g.chunks : \E k \in 1 .. n :
            g.chunks[c].chunk_id = ids[k] /\ g.chunks[c].size = len(k)
  <2>1. ListsAll(g.chunks, ids, n) /\ ListsOnly(g.chunks, F, S, ids, n)
    BY <1>3, <1>4, ListingHolds
  <2>2. \A k \in 1 .. n : \E c \in DOMAIN g.chunks : g.chunks[c].chunk_id = ids[k]
    BY <2>1 DEF ListsAll
  <2>3. ASSUME NEW c \in DOMAIN g.chunks
        PROVE  \E k \in 1 .. n :
                 g.chunks[c].chunk_id = ids[k] /\ g.chunks[c].size = len(k)
    <3>1. PICK k \in 1 .. n :
            g.chunks[c] = [chunk_id |-> ids[k], size |-> BodyLen(F, S, k)]
      BY <2>1 DEF ListsOnly
    <3>2. g.chunks[c].chunk_id = ids[k] /\ g.chunks[c].size = len(k)
      BY <3>1
    <3> QED
      BY <3>2
  <2> HIDE DEF len
  <2> QED
    BY <2>2, <2>3
<1>12. \A c \in DOMAIN g.chunks : g.chunks[c].chunk_id \in GeneratedId
  BY <1>8, <1>11
<1>13. ASSUME NEW k \in 1 .. n
       PROVE  HasChunk(g, ids[k]) /\ ChunkSize(g, ids[k]) = len(k)
  <2>1. HasChunk(g, ids[k])
    BY <1>11 DEF HasChunk
  <2>2. PICK c \in DOMAIN g.chunks :
          g.chunks[c].chunk_id = ids[k] /\ ChunkSize(g, ids[k]) = g.chunks[c].size
    BY <2>1, FirstChunk
  <2>3. PICK j \in 1 .. n : g.chunks[c].chunk_id = ids[j] /\ g.chunks[c].size = len(j)
    BY <1>11
  <2>4. len(j) = len(k)
    BY <2>2, <2>3
  <2> HIDE DEF len
  <2> QED
    BY <2>1, <2>2, <2>3, <2>4
<1>14. AfterSum(g)
  <2>1. inv06_count_matches(g)
    BY <1>5, <1>7 DEF inv06_count_matches
  <2>2. inv09_chunk_ids_wellformed(g)
    <3>1. \A c \in DOMAIN g.chunks : g.chunks[c].chunk_id \in WellFormed
      BY <1>12, DanglingAssumption
    <3>2. \A k \in 1 .. n : /\ g.entries[k].chunk_id \in WellFormed
                             /\ HasChunk(g, g.entries[k].chunk_id)
      BY <1>8, <1>13, DanglingAssumption
    <3>3. ASSUME NEW c \in DOMAIN g.chunks
          PROVE  \E k \in 1 .. n : g.entries[k].chunk_id = g.chunks[c].chunk_id
      <4>1. PICK k \in 1 .. n : g.chunks[c].chunk_id = ids[k]
        BY <1>11
      <4>2. g.entries[k].chunk_id = ids[k]
        BY <1>8
      <4> QED
        BY <4>1, <4>2
    <3> QED
      BY <1>7, <3>1, <3>2, <3>3 DEF inv09_chunk_ids_wellformed
  <2>3. inv08_chunk_offsets_within_chunk(g)
    <3>1. ASSUME NEW k \in 1 .. n
          PROVE  /\ HasChunk(g, g.entries[k].chunk_id)
                 /\ Fits(g.entries[k].chunk_offset, g.entries[k].length)
                 /\ g.entries[k].chunk_offset + g.entries[k].length
                      <= ChunkSize(g, g.entries[k].chunk_id)
      <4>1. len(k) \in Nat /\ len(k) <= F /\ F <= U64Max /\ F \in Nat
        <5>1. g.total_size = F /\ g.total_size \in U64
          BY <1>5, EntriesType
        <5>2. len(k) \in 1 .. F
          BY <1>8
        <5> HIDE DEF len
        <5> QED
          BY <5>1, <5>2 DEF U64
      <4>2. HasChunk(g, ids[k]) /\ ChunkSize(g, ids[k]) = len(k)
        BY <1>13
      <4>3. /\ g.entries[k].length = len(k) /\ g.entries[k].chunk_id = ids[k]
            /\ g.entries[k].chunk_offset = 0
        BY <1>8
      <4> HIDE DEF len
      <4> QED
        BY <4>1, <4>2, <4>3 DEF Fits
    <3> QED
      BY <1>7, <3>1 DEF inv08_chunk_offsets_within_chunk
  <2> QED
    BY <2>1, <2>2, <2>3 DEF AfterSum
<1> QED
  BY <1>9, <1>10, <1>12, <1>14, ValidIs

(* GeneratedTyped: a generated manifest has u64 fields. *)
LEMMA GeneratedTyped ==
  ASSUME NEW F \in U64, NEW S \in Nat \ {0}, NEW n, n = chunk_count(F, S),
         NEW ids, ids \in [1 .. n -> GeneratedId],
         NEW g, g = generate_manifest(F, S, ids)
  PROVE  g \in Manifest
<1>1. F \in Nat /\ F <= U64Max /\ n \in Nat /\ n <= F
  BY CeilDiv DEF U64
<1>2. PICK f : IsListing(f, ids, F, S, n) /\ g.chunks = f[n]
  BY <1>1, GeneratedParts
<1>3. ASSUME NEW k \in 1 .. n
      PROVE  ids[k] \in ChunkId /\ BodyLen(F, S, k) \in U64 /\ (k - 1) * S \in U64
  <2>1. BodyLen(F, S, k) \in 1 .. F /\ (k - 1) * S \in 0 .. F
    BY <1>1, Layout
  <2>2. ids[k] \in ChunkId
    BY DanglingAssumption, WellFormedAssumption
  <2> QED
    BY <1>1, <2>1, <2>2 DEF U64
<1>4. g.chunks \in Seq(Chunk)
  <2>1. g.chunks \in Seq(Metas(F, S, ids, n))
    BY <1>1, <1>2, ListingHolds
  <2>2. Metas(F, S, ids, n) \subseteq Chunk
    BY <1>3 DEF Metas, Chunk
  <2> QED
    BY <2>1, <2>2
<1>5. EntriesMade(F, S, ids, n) \in Seq(ManifestEntry)
  <2>1. \A k \in 1 .. n : EntriesMade(F, S, ids, n)[k] \in ManifestEntry
    BY <1>1, <1>3 DEF EntriesMade, ManifestEntry, U64
  <2>2. EntriesMade(F, S, ids, n) = [k \in 1 .. n |-> EntriesMade(F, S, ids, n)[k]]
    BY DEF EntriesMade
  <2>3. EntriesMade(F, S, ids, n) \in [1 .. n -> ManifestEntry]
    BY <2>1, <2>2
  <2> QED
    BY <1>1, <2>3
<1>6. g = [manifest_id |-> gen, total_size |-> F, chunk_count |-> n,
           entries |-> EntriesMade(F, S, ids, n), chunks |-> g.chunks]
  BY <1>1, GeneratedParts
<1>7. n \in U64 /\ gen \in ManifestId
  BY <1>1, GeneratorAssumption DEF U64
<1> QED
  BY <1>4, <1>5, <1>6, <1>7 DEF Manifest

(* GeneratedSound: what the generator makes is a manifest that passes      *)
(* validate_manifest and does not name the dangling chunk.                 *)
LEMMA GeneratedSound ==
  ASSUME NEW g \in Generated
  PROVE  /\ g \in Manifest /\ ValidManifest(g)
         /\ \A c \in DOMAIN g.chunks : g.chunks[c].chunk_id # dangling
<1>1. PICK F \in 0 .. MaxFile, S \in 1 .. MaxFile :
        \E ids \in {s \in [1 .. chunk_count(F, S) -> GeneratedId] :
                      \A j, k \in 1 .. chunk_count(F, S) : s[j] = s[k] =>
                        BodyLen(F, S, j) = BodyLen(F, S, k)} :
          g = generate_manifest(F, S, ids)
  BY DEF Generated
<1>2. F \in U64 /\ F \in Nat /\ S \in Nat \ {0}
  BY GeneratorAssumption DEF U64
<1>3. PICK n : n = chunk_count(F, S)
  OBVIOUS
<1>4. PICK ids \in {s \in [1 .. n -> GeneratedId] :
                      \A j, k \in 1 .. n : s[j] = s[k] =>
                        BodyLen(F, S, j) = BodyLen(F, S, k)} :
        g = generate_manifest(F, S, ids)
  BY <1>1, <1>3
<1>5. /\ ids \in [1 .. n -> GeneratedId]
      /\ \A j, k \in 1 .. n : ids[j] = ids[k] => BodyLen(F, S, j) = BodyLen(F, S, k)
  OBVIOUS
<1>6. g \in Manifest
  BY <1>2, <1>3, <1>4, <1>5, GeneratedTyped
<1>7. /\ ValidManifest(g)
      /\ \A c \in DOMAIN g.chunks : g.chunks[c].chunk_id \in GeneratedId
  BY <1>2, <1>3, <1>4, <1>5, <1>6, GeneratedValid
<1> QED
  BY <1>6, <1>7, DanglingAssumption

-----------------------------------------------------------------------------
(***************************************************************************)
(* The corruptor: each edit of a valid manifest breaks the tiling, the     *)
(* total, the count or the references.                                     *)
(***************************************************************************)
(* ValidParts: what an edit can break. *)
LEMMA ValidParts ==
  ASSUME NEW m \in Manifest, ValidManifest(m)
  PROVE  /\ Tiles(m) /\ EndOf(m, Len(m.entries)) = m.total_size
         /\ m.chunk_count = Len(m.entries)
         /\ \A k \in Entries(m) : HasChunk(m, m.entries[k].chunk_id)
  BY ValidIs
  DEF AfterSum, inv06_count_matches, inv09_chunk_ids_wellformed

(* EndsAlike: where the entries end depends on nothing but the entry. *)
LEMMA EndsAlike ==
  ASSUME NEW g, NEW m, NEW k, k # 0 => m.entries[k] = g.entries[k]
  PROVE  EndOf(m, k) = EndOf(g, k)
BY DEF EndOf

LEMMA TotalCaught ==
  ASSUME NEW g \in Manifest, ValidManifest(g),
         NEW m \in Manifest, m \in alter_total_size(g), m # g
  PROVE  ~ValidManifest(m)
<1>1. PICK n : m = [g EXCEPT !.total_size = n]
  BY DEF alter_total_size
<1>2. m.entries = g.entries /\ m.total_size = n
  BY <1>1 DEF Manifest
<1>3. n # g.total_size
  BY <1>1 DEF Manifest
<1>4. EndOf(m, Len(m.entries)) = EndOf(g, Len(g.entries))
  BY <1>2, EndsAlike
<1> QED
  BY <1>2, <1>3, <1>4, ValidParts

LEMMA CountCaught ==
  ASSUME NEW g \in Manifest, ValidManifest(g),
         NEW m \in Manifest, m \in alter_chunk_count(g), m # g
  PROVE  ~ValidManifest(m)
<1>1. PICK n : m = [g EXCEPT !.chunk_count = n]
  BY DEF alter_chunk_count
<1>2. m.entries = g.entries /\ m.chunk_count = n
  BY <1>1 DEF Manifest
<1>3. n # g.chunk_count
  BY <1>1 DEF Manifest
<1> QED
  BY <1>2, <1>3, ValidParts

LEMMA EmptyEntryCaught ==
  ASSUME NEW g \in Manifest,
         NEW m \in Manifest, m = insert_zero_length_entry(g), m # g
  PROVE  ~ValidManifest(m)
<1> DEFINE last == g.entries[Len(g.entries)]
           new == [last EXCEPT !.logical_offset = LogicalEnd(last),
                               !.length = 0, !.chunk_offset = 0]
<1>1. /\ g.entries # <<>>
      /\ m = [g EXCEPT !.chunk_count = @ + 1, !.entries = Append(@, new)]
  BY DEF insert_zero_length_entry
<1>2. g.entries \in Seq(ManifestEntry) /\ Len(g.entries) \in Nat
  BY EntriesType
<1>3. Len(g.entries) \in 1 .. Len(g.entries)
  BY <1>1, <1>2
<1>4. last \in ManifestEntry
  BY <1>2, <1>3
<1>5. new.length = 0
  BY <1>4 DEF ManifestEntry
<1>6. m.entries = Append(g.entries, new)
  BY <1>1 DEF Manifest
<1> HIDE DEF new
<1>7. /\ Len(m.entries) = Len(g.entries) + 1
      /\ m.entries[Len(g.entries) + 1] = new
  BY <1>2, <1>6
<1>8. Len(g.entries) + 1 \in Entries(m)
  BY <1>2, <1>7 DEF Entries
<1>9. ~Tiles(m)
  BY <1>5, <1>7, <1>8 DEF Tiles
<1> QED
  BY <1>9, ValidParts

LEMMA DropCaught ==
  ASSUME NEW g \in Manifest, ValidManifest(g), NEW at \in Entries(g),
         NEW m \in Manifest, m = drop_entry(g, at)
  PROVE  ~ValidManifest(m)
<1> DEFINE n == Len(g.entries)
           before == SubSeq(g.entries, 1, at - 1)
           after == SubSeq(g.entries, at + 1, n)
<1>1. g.entries \in Seq(ManifestEntry) /\ n \in Nat /\ at \in 1 .. n
  BY EntriesType DEF Entries
<1>2. m.entries = before \o after /\ m.chunk_count = g.chunk_count
  BY DEF drop_entry, Manifest
<1>3. before \in Seq(ManifestEntry) /\ Len(before) = at - 1
  BY <1>1
<1>4. after \in Seq(ManifestEntry) /\ Len(after) = n - at
  BY <1>1
<1> HIDE DEF before, after
<1>5. Len(before \o after) = (at - 1) + (n - at)
  BY <1>3, <1>4
<1>6. Len(m.entries) # n
  BY <1>1, <1>2, <1>5
<1> QED
  BY <1>2, <1>6, ValidParts

LEMMA GapCaught ==
  ASSUME NEW g \in Manifest, ValidManifest(g), NEW at \in Entries(g),
         NEW m \in Manifest, m = introduce_gap(g, at)
  PROVE  ~ValidManifest(m)
<1> DEFINE n == Len(g.entries)
<1>1. g.entries \in Seq(ManifestEntry) /\ n \in Nat /\ at \in 1 .. n
  BY EntriesType DEF Entries
<1> DEFINE moved == [k \in Entries(g) |->
                      IF k > at THEN [g.entries[k] EXCEPT !.logical_offset = @ + 1]
                      ELSE g.entries[k]]
<1>2. m.total_size = g.total_size + 1 /\ m.entries = moved
  <2>1. m = [g EXCEPT !.total_size = @ + 1, !.entries = moved]
    BY DEF introduce_gap
  <2> HIDE DEF moved
  <2> QED
    BY <2>1 DEF Manifest
<1>3. DOMAIN g.entries = 1 .. n /\ Entries(g) = 1 .. n
  BY <1>1 DEF Entries
<1>4. Len(m.entries) = n
  <2>1. DOMAIN m.entries = 1 .. n /\ m.entries \in Seq(ManifestEntry)
    BY <1>2, <1>3, EntriesType
  <2> QED
    BY <1>1, <2>1, LenOf
<1>5. m.entries[at] = g.entries[at]
  BY <1>1, <1>2, <1>3
<1>6. EndOf(m, at) = EndOf(g, at) /\ EndOf(g, at) \in Nat /\ at # 0
  BY <1>1, <1>5, EndsAlike, EntriesType
<1>7. CASE at = n
  <2>1. EndOf(m, n) # m.total_size
    BY <1>2, <1>6, <1>7, ValidParts, EntriesType
  <2> QED
    BY <1>4, <2>1, ValidParts
<1>8. CASE at # n
  <2>1. at + 1 \in 1 .. n /\ at + 1 > at /\ (at + 1) - 1 = at
    BY <1>1, <1>8
  <2>2. m.entries[at + 1] = [g.entries[at + 1] EXCEPT !.logical_offset = @ + 1]
    BY <1>2, <1>3, <2>1
  <2>3. g.entries[at + 1] \in ManifestEntry
    BY <1>1, <2>1
  <2>4. m.entries[at + 1].logical_offset = g.entries[at + 1].logical_offset + 1
    BY <2>2, <2>3 DEF ManifestEntry
  <2>5. g.entries[at + 1].logical_offset = EndOf(g, at)
    BY <2>1, ValidParts DEF Tiles, Entries
  <2>6. ~Tiles(m)
    BY <1>4, <1>6, <2>1, <2>4, <2>5 DEF Tiles, Entries
  <2> QED
    BY <2>6, ValidParts
<1> QED
  BY <1>7, <1>8

LEMMA OverlapCaught ==
  ASSUME NEW g \in Manifest, ValidManifest(g), NEW at \in Entries(g),
         NEW m \in Manifest, m = introduce_overlap(g, at), m # g
  PROVE  ~ValidManifest(m)
<1> DEFINE n == Len(g.entries)
           moved == IF g.entries[at + 1].logical_offset = 0 THEN 0
                    ELSE g.entries[at + 1].logical_offset - 1
<1>1. /\ g.entries \in Seq(ManifestEntry) /\ n \in Nat
      /\ at \in 1 .. n /\ at + 1 \in 1 .. n /\ (at + 1) - 1 = at /\ at # at + 1
  BY EntriesType DEF Entries, introduce_overlap
<1>2. m.entries = [g.entries EXCEPT ![at + 1].logical_offset = moved]
  BY <1>1 DEF introduce_overlap, Manifest, Entries
<1>3. DOMAIN g.entries = 1 .. n /\ g.entries[at + 1] \in ManifestEntry
  BY <1>1
<1>4. /\ m.entries[at] = g.entries[at]
      /\ m.entries[at + 1] = [g.entries[at + 1] EXCEPT !.logical_offset = moved]
      /\ DOMAIN m.entries = 1 .. n
  BY <1>1, <1>2, <1>3
<1>5. Len(m.entries) = n
  BY <1>1, <1>4, LenOf, EntriesType
<1>6. m.entries[at + 1].logical_offset = moved
  BY <1>3, <1>4 DEF ManifestEntry
<1>7. g.entries[at + 1].logical_offset = EndOf(g, at)
  BY <1>1, ValidParts DEF Tiles, Entries
<1>8. EndOf(g, at) \in Nat /\ EndOf(g, at) > 0
  <2>1. g.entries[at].length > 0
    BY ValidParts DEF Tiles
  <2> QED
    BY <1>1, <2>1, EntryFields DEF EndOf, LogicalEnd, U64
<1>9. EndOf(m, at) = EndOf(g, at)
  BY <1>4, EndsAlike
<1>10. ~Tiles(m)
  BY <1>1, <1>5, <1>6, <1>7, <1>8, <1>9 DEF Tiles, Entries
<1> QED
  BY <1>10, ValidParts

LEMMA DangleCaught ==
  ASSUME NEW g \in Manifest, NEW at \in Entries(g),
         \A c \in DOMAIN g.chunks : g.chunks[c].chunk_id # dangling,
         NEW m \in Manifest, m = dangle_chunk_ref(g, at)
  PROVE  ~ValidManifest(m)
<1> DEFINE n == Len(g.entries)
<1>1. g.entries \in Seq(ManifestEntry) /\ n \in Nat /\ at \in 1 .. n
  BY EntriesType DEF Entries
<1>2. /\ m.entries = [g.entries EXCEPT ![at].chunk_id = dangling]
      /\ m.chunks = g.chunks
  BY DEF dangle_chunk_ref, Manifest
<1>3. DOMAIN g.entries = 1 .. n /\ g.entries[at] \in ManifestEntry
  BY <1>1
<1>4. /\ m.entries[at] = [g.entries[at] EXCEPT !.chunk_id = dangling]
      /\ DOMAIN m.entries = 1 .. n
  BY <1>1, <1>2, <1>3
<1>5. at \in Entries(m)
  BY <1>1, <1>4, LenOf, EntriesType DEF Entries
<1>6. m.entries[at].chunk_id = dangling
  BY <1>3, <1>4 DEF ManifestEntry
<1>7. ~HasChunk(m, dangling)
  BY <1>2 DEF HasChunk
<1> QED
  BY <1>5, <1>6, <1>7, ValidParts

LEMMA SwapCaught ==
  ASSUME NEW g \in Manifest, ValidManifest(g),
         NEW a \in Entries(g), NEW b \in Entries(g), a < b,
         NEW m \in Manifest,
         m = swap_entries(g, a, b) \/ m = swap_entries(g, b, a)
  PROVE  ~ValidManifest(m)
<1> DEFINE n == Len(g.entries)
<1>1. /\ g.entries \in Seq(ManifestEntry) /\ n \in Nat /\ a \in 1 .. n
      /\ b \in 1 .. n /\ DOMAIN g.entries = 1 .. n
  BY EntriesType DEF Entries
<1>2. /\ DOMAIN m.entries = 1 .. n
      /\ m.entries[a] = g.entries[b]
      /\ \A k \in 1 .. n : k # a /\ k # b => m.entries[k] = g.entries[k]
  BY <1>1 DEF swap_entries, Manifest
<1>3. a \in Entries(m)
  BY <1>1, <1>2, LenOf, EntriesType DEF Entries
<1>4. EndOf(m, a - 1) = EndOf(g, a - 1)
  <2>1. a - 1 # 0 => m.entries[a - 1] = g.entries[a - 1]
    BY <1>1, <1>2
  <2> QED
    BY <2>1, EndsAlike
<1>5. Tiles(g) /\ g.entries[a].logical_offset = EndOf(g, a - 1) /\ g.entries[a].length > 0
  BY ValidParts DEF Tiles
<1>6. LogicalEnd(g.entries[a]) <= g.entries[b].logical_offset
  BY <1>5, TilesOrdered
<1>7. EndOf(g, a - 1) < g.entries[b].logical_offset
  BY <1>5, <1>6, EntryFields DEF LogicalEnd, U64
<1>8. EndOf(m, a - 1) # m.entries[a].logical_offset
  <2>1. EndOf(g, a - 1) \in Nat
    BY <1>1, EntriesType
  <2>2. g.entries[b].logical_offset \in Nat
    BY EntryFields DEF U64
  <2> QED
    BY <1>2, <1>4, <1>7, <2>1, <2>2
<1>9. ~Tiles(m)
  BY <1>3, <1>8 DEF Tiles
<1> QED
  BY <1>9, ValidParts

(* EditsCaught: validate_manifest refuses what any edit that changes a     *)
(* valid manifest makes of it.                                             *)
LEMMA EditsCaught ==
  ASSUME NEW g \in Manifest, ValidManifest(g),
         \A c \in DOMAIN g.chunks : g.chunks[c].chunk_id # dangling,
         NEW m \in Manifest, m \in Corruptions(g), m # g
  PROVE  ~ValidManifest(m)
<1> DEFINE edits(at) == {drop_entry(g, at), introduce_gap(g, at),
                         introduce_overlap(g, at), dangle_chunk_ref(g, at)}
<1>1. CASE m \in alter_total_size(g)
  BY <1>1, TotalCaught
<1>2. CASE m \in alter_chunk_count(g)
  BY <1>2, CountCaught
<1>3. CASE m = insert_zero_length_entry(g)
  BY <1>3, EmptyEntryCaught
<1>4. ASSUME NEW at \in Entries(g), m \in edits(at)
      PROVE  ~ValidManifest(m)
  <2>1. CASE m = drop_entry(g, at)
    BY <2>1, DropCaught
  <2>2. CASE m = introduce_gap(g, at)
    BY <2>2, GapCaught
  <2>3. CASE m = introduce_overlap(g, at)
    BY <2>3, OverlapCaught
  <2>4. CASE m = dangle_chunk_ref(g, at)
    BY <2>4, DangleCaught
  <2> QED
    BY <1>4, <2>1, <2>2, <2>3, <2>4 
<1>5. ASSUME NEW a \in Entries(g), NEW b \in Entries(g), m = swap_entries(g, a, b)
      PROVE  ~ValidManifest(m)
  <2>1. a \in Nat /\ b \in Nat
    BY EntriesType DEF Entries
  <2>2. a # b
    <3> SUFFICES ASSUME a = b PROVE FALSE
      OBVIOUS
    <3>1. [k \in DOMAIN g.entries |->
             IF k = a THEN g.entries[b] ELSE IF k = b THEN g.entries[a]
             ELSE g.entries[k]] = g.entries
      BY EntriesType
    <3> QED
      BY <1>5, <3>1 DEF swap_entries, Manifest
  <2> QED
    BY <1>5, <2>1, <2>2, SwapCaught
<1>6. \/ m \in alter_total_size(g) \/ m \in alter_chunk_count(g)
      \/ m = insert_zero_length_entry(g)
      \/ \E at \in Entries(g) : m \in edits(at)
      \/ \E a, b \in Entries(g) : m = swap_entries(g, a, b)
  <2>1. m \in Swaps(g) => \E a, b \in Entries(g) : m = swap_entries(g, a, b)
    BY DEF Swaps
  <2>2. m \in EntryEdits(g) => \E at \in Entries(g) : m \in edits(at)
    BY DEF EntryEdits
  <2> HIDE DEF edits
  <2> QED
    BY <2>1, <2>2 DEF Corruptions
<1> QED
  BY <1>1, <1>2, <1>3, <1>4, <1>5, <1>6

(***************************************************************************)
(* For every run: a generated manifest is never refused, and one the       *)
(* corruptor has changed is refused before the first request.              *)
(***************************************************************************)
THEOREM EditsAreCaught == Spec => []CorruptionsCaught
<1>1. ReadInv => CorruptionsCaught
  <2> SUFFICES ASSUME ReadInv PROVE CorruptionsCaught
    OBVIOUS
  <2>1. ASSUME manifest \in Generated PROVE result # "IntegrityManifestInvalid"
    <3>1. ValidManifest(manifest)
      BY <2>1, GeneratedSound
    <3> QED
      BY <3>1 DEF ReadInv, Progress
  <2>2. ASSUME manifest \in Corrupted
        PROVE  pc \notin Reading /\ ~ValidManifest(manifest)
    <3>1. PICK g \in Generated :
            manifest \in Corruptions(g) /\ manifest # g /\ manifest \in Manifest
      BY <2>2 DEF Corrupted
    <3>2. ~ValidManifest(manifest)
      BY <3>1, GeneratedSound, EditsCaught
    <3> QED
      BY <3>2 DEF ReadInv, Progress
  <2> QED
    BY <2>1, <2>2 DEF CorruptionsCaught
<1> QED
  BY <1>1, ReadInvariant, PTL
=============================================================================
