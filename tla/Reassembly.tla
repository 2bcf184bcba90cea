----------------------------- MODULE Reassembly -----------------------------
(***************************************************************************)
(* client/core: CloudClient::reassemble.  One client reads one file back:  *)
(* it validates the manifest, then fetches the range of each entry with    *)
(* get_chunk_range, checks what came back and copies it into the output.   *)
(* The server answers each request in two steps (head, then get_range),    *)
(* and the object store may be damaged at any moment, the way the tests    *)
(* damage it: a byte flipped, an object truncated or deleted.              *)
(*                                                                         *)
(* The connection may fail, which the client sees as an error, or go       *)
(* silent: the peer is gone but nothing says so.  A file the client cannot *)
(* hold in memory ends the read with a panic, or the process: "Aborted".   *)
(***************************************************************************)
EXTENDS ManifestValidation, ChunkRange

CONSTANTS
  InputManifest,   \* the manifests the client is given
  StoredFor(_),    \* the sets of chunks that may be stored when m is read
  IsizeMax,        \* isize::MAX, the largest size of a Vec<u8>
  Memory,          \* the largest Vec<u8> that always fits into memory
  MaxFaults        \* bound on the faults injected into the object store

ASSUME InputAssumption == InputManifest \subseteq Manifest
ASSUME MemoryAssumption == IsizeMax \in Nat /\ Memory \in 0 .. IsizeMax
ASSUME NoneAssumption == None \notin U64
(* Bytes holds what the faults make of what is stored. *)
ASSUME FaultAssumption ==
  /\ MaxFaults \in Nat
  /\ \A b \in Bytes :
       /\ \A at \in 1 .. Len(b) : [b EXCEPT ![at] = ByteMax - @] \in Bytes
       /\ \A len \in 0 .. Len(b) : SubSeq(b, 1, len) \in Bytes

VARIABLES
  manifest,  \* the argument
  pc,        \* where reassemble is
  i,         \* the entry the current loop is at
  sum,       \* the running sum of inv05
  size,      \* what head told the server's handler
  reply,     \* what the server sent
  out,       \* the output buffer
  result,    \* what reassemble returned
  damaged,   \* the chunks a fault has hit
  faults,    \* how many faults so far
  silent     \* the peer no longer answers

client == <<manifest, pc, i, sum, out, result>>
vars == <<manifest, pc, i, sum, size, reply, out, result, damaged, faults,
          silent, blobs>>

(* The body a chunk id addresses. *)
Body(c) == CHOOSE b \in Bytes : b3(b) = c

Stored == {c \in ChunkId : \E b \in Bytes : b3(b) = c}

ASSUME StoredAssumption == \A m \in InputManifest : StoredFor(m) \subseteq SUBSET Stored

(***************************************************************************)
(* The read starts with each chunk either stored intact or absent.         *)
(***************************************************************************)
Init ==
  /\ manifest \in InputManifest
  /\ \E present \in StoredFor(manifest) :
       blobs = [c \in ChunkId |-> IF c \in present THEN Body(c) ELSE None]
  /\ pc = "validate" /\ i = 1 /\ sum = 0
  /\ size = None /\ reply = None /\ out = <<>> /\ result = "running"
  /\ damaged = {} /\ faults = 0 /\ silent = FALSE

Return(code) ==
  /\ pc' = "done"
  /\ result' = code
  /\ reply' = None
  /\ UNCHANGED <<manifest, i, sum, size, out, damaged, faults, silent, blobs>>

-----------------------------------------------------------------------------
(***************************************************************************)
(* validate_manifest, with the loop of inv05 spelled out: the rules before *)
(* it, its checked additions one entry at a time, the rules after it.      *)
(***************************************************************************)
BeforeSum(m) ==
  /\ inv13_empty_file_is_valid(m)
  /\ inv01_entries_sorted(m)
  /\ inv04_starts_at_zero(m)
  /\ inv02_entries_contiguous(m)
  /\ inv03_no_overlap(m)
  /\ inv07_lengths_nonzero(m)

AfterSum(m) ==
  /\ inv06_count_matches(m)
  /\ inv09_chunk_ids_wellformed(m)
  /\ inv08_chunk_offsets_within_chunk(m)

Validate ==
  /\ pc = "validate"
  /\ \/ /\ BeforeSum(manifest)
        /\ pc' = "sum"
        /\ UNCHANGED <<manifest, i, sum, size, reply, out, result, damaged,
                       faults, silent, blobs>>
     \/ /\ ~BeforeSum(manifest)
        /\ Return("IntegrityManifestInvalid")

AddLength ==
  /\ pc = "sum"
  /\ i <= Len(manifest.entries)
  /\ \/ /\ Fits(sum, manifest.entries[i].length)
        /\ sum' = sum + manifest.entries[i].length
        /\ i' = i + 1
        /\ UNCHANGED <<manifest, pc, size, reply, out, result, damaged, faults,
                       silent, blobs>>
     \/ /\ ~Fits(sum, manifest.entries[i].length)
        /\ Return("IntegrityManifestInvalid")

(* vec![0u8; n]: a size above isize::MAX panics, and memory that is short  *)
(* aborts the process.                                                     *)
vec(n) ==
  \/ /\ n <= IsizeMax
     /\ pc' = "fetch"
     /\ i' = 1
     /\ out' = [p \in 1 .. n |-> 0]
     /\ UNCHANGED <<manifest, sum, size, reply, result, damaged, faults, silent,
                    blobs>>
  \/ /\ n > Memory
     /\ Return("Aborted")

(* Fault: the sum is not compared with total_size. *)
Allocate_any_total ==
  /\ pc = "sum"
  /\ i > Len(manifest.entries)
  /\ \/ AfterSum(manifest) /\ vec(manifest.total_size)
     \/ ~AfterSum(manifest) /\ Return("IntegrityManifestInvalid")

(* Fault: the buffer has one byte per entry. *)
Allocate_by_count ==
  /\ pc = "sum"
  /\ i > Len(manifest.entries)
  /\ \/ /\ sum = manifest.total_size /\ AfterSum(manifest)
        /\ vec(manifest.chunk_count)
     \/ /\ ~(sum = manifest.total_size /\ AfterSum(manifest))
        /\ Return("IntegrityManifestInvalid")

(* The end of validate_manifest, and the output buffer. *)
Allocate ==
  /\ pc = "sum"
  /\ i > Len(manifest.entries)
  /\ \/ /\ sum = manifest.total_size /\ AfterSum(manifest)
        /\ vec(manifest.total_size)
     \/ /\ ~(sum = manifest.total_size /\ AfterSum(manifest))
        /\ Return("IntegrityManifestInvalid")

-----------------------------------------------------------------------------
(***************************************************************************)
(* get_chunk_range: the request, the two steps of the server, the reply.   *)
(***************************************************************************)
Entry == manifest.entries[i]

Request ==
  /\ pc = "fetch"
  /\ i <= Len(manifest.entries)
  /\ pc' = "requested"
  /\ UNCHANGED <<manifest, i, sum, size, reply, out, result, damaged, faults,
                 silent, blobs>>

ServerHead ==
  LET found == head(Entry.chunk_id)
  IN  /\ pc = "requested" /\ ~silent
      /\ IF found.code = "Ok"
           THEN pc' = "headed" /\ size' = found.body /\ UNCHANGED reply
           ELSE pc' = "answered" /\ reply' = Answer(found.code, None) /\ UNCHANGED size
      /\ UNCHANGED <<manifest, i, sum, out, result, damaged, faults, silent, blobs>>

ServerRead ==
  LET range == [kind |-> "bytes", start |-> Entry.chunk_offset,
                end |-> Entry.chunk_offset + Entry.length - 1]
  IN  /\ pc = "headed" /\ ~silent
      /\ pc' = "answered"
      /\ reply' = RangeReply(Entry.chunk_id, range, size)
      /\ UNCHANGED <<manifest, i, sum, size, out, result, damaged, faults,
                     silent, blobs>>

(* An entry that is the whole of its chunk, by the manifest's own account. *)
Whole(m, e) == e.chunk_offset = 0 /\ e.length = ChunkSize(m, e.chunk_id)

(* Fault: the length of the reply is not checked. *)
Verdict_any_length ==
  IF reply.shape = "closed" THEN "NetworkUnavailable"
  ELSE IF reply.code # "Ok" THEN reply.code
  ELSE IF Whole(manifest, Entry) /\ Len(reply.val.body) = Entry.length
          /\ ~verify(Entry.chunk_id, reply.val.body)
    THEN "IntegrityHashMismatch"
  ELSE "Ok"

(* What get_chunk_range and then reassemble make of the reply. *)
Verdict ==
  IF reply.shape = "closed" THEN "NetworkUnavailable"
  ELSE IF reply.code # "Ok" THEN reply.code
  ELSE IF Len(reply.val.body) # Entry.length THEN "IntegrityLengthMismatch"
  ELSE IF Whole(manifest, Entry) /\ ~verify(Entry.chunk_id, reply.val.body)
    THEN "IntegrityHashMismatch"
  ELSE "Ok"

(* out[at..at + bytes.len()].copy_from_slice(&bytes) *)
Copied(at, bytes) ==
  [p \in DOMAIN out |-> IF p \in (at + 1) .. (at + Len(bytes))
                          THEN bytes[p - at] ELSE out[p]]

(* Fault: bytes that fail the checks are fetched again, without a limit. *)
Receive_retries ==
  /\ pc = "answered"
  /\ \/ /\ Verdict = "Ok"
        /\ out' = Copied(Entry.logical_offset, reply.val.body)
        /\ pc' = "fetch" /\ i' = i + 1
        /\ reply' = None /\ size' = None
        /\ UNCHANGED <<manifest, sum, result, damaged, faults, silent, blobs>>
     \/ /\ Verdict \in {"IntegrityHashMismatch", "IntegrityLengthMismatch"}
        /\ pc' = "fetch"
        /\ reply' = None /\ size' = None
        /\ UNCHANGED <<manifest, i, sum, out, result, damaged, faults, silent, blobs>>
     \/ /\ Verdict \notin {"Ok", "IntegrityHashMismatch", "IntegrityLengthMismatch"}
        /\ Return(Verdict)

Receive ==
  /\ pc = "answered"
  /\ \/ /\ Verdict = "Ok"
        /\ out' = Copied(Entry.logical_offset, reply.val.body)
        /\ pc' = "fetch" /\ i' = i + 1
        /\ reply' = None /\ size' = None
        /\ UNCHANGED <<manifest, sum, result, damaged, faults, silent, blobs>>
     \/ /\ Verdict # "Ok"
        /\ Return(Verdict)

Finish ==
  /\ pc = "fetch"
  /\ i > Len(manifest.entries)
  /\ Return("Ok")

(* reqwest reports a broken connection (net_error). *)
ConnectionFails ==
  /\ pc \in {"requested", "headed", "answered"}
  /\ Return("NetworkUnavailable")

-----------------------------------------------------------------------------
(***************************************************************************)
(* The environment: faults in the object store, and a peer that stops      *)
(* answering without closing the connection.                               *)
(***************************************************************************)
Fault ==
  /\ faults < MaxFaults
  /\ pc # "done"
  /\ \E c \in Stored :
       /\ \/ \E at \in 1 .. U64Max : corrupt_for_test(c, at)
          \/ \E len \in U64 : truncate_for_test(c, len)
          \/ blobs[c] # None /\ delete(c)
       /\ damaged' = damaged \cup {c}
  /\ faults' = faults + 1
  /\ UNCHANGED <<client, size, reply, silent>>

GoSilent ==
  /\ ~silent
  /\ pc \in {"requested", "headed"}
  /\ silent' = TRUE
  /\ UNCHANGED <<client, size, reply, damaged, faults, blobs>>

Client == Validate \/ AddLength \/ Allocate \/ Request \/ Receive \/ Finish
Server == ServerHead \/ ServerRead

Next == Client \/ Server \/ ConnectionFails \/ Fault \/ GoSilent

Spec == Init /\ [][Next]_vars

FairSpec == Spec /\ WF_vars(Client) /\ WF_vars(Server)

-----------------------------------------------------------------------------
Reading == {"fetch", "requested", "headed", "answered"}

Code ==
  {"running", "Aborted", "Ok", "ChunkNotFound", "InvalidParameter", "NetworkUnavailable",
   "IntegrityManifestInvalid", "IntegrityHashMismatch", "IntegrityLengthMismatch"}

(* TypeOK: the variables of reassemble have the types of the code: the     *)
(* loop index stays within the entries, the running sum within u64, and    *)
(* the buffer has the size the manifest gives once it is allocated.        *)
TypeOK ==
  /\ manifest \in Manifest
  /\ pc \in {"validate", "sum", "done"} \cup Reading
  /\ i \in 1 .. (Len(manifest.entries) + 1)
  /\ sum \in U64
  /\ size \in U64 \cup {None}
  /\ out \in Seq(0 .. ByteMax)
  /\ pc \in Reading => Len(out) = manifest.total_size
  /\ result \in Code
  /\ damaged \subseteq ChunkId
  /\ faults \in 0 .. MaxFaults
  /\ silent \in BOOLEAN
  /\ blobs \in [ChunkId -> Bytes \cup {None}]

(***************************************************************************)
(* What a manifest should be, said byte by byte: every byte of the file    *)
(* belongs to exactly one entry, no entry reaches outside the file or is   *)
(* empty, entries come in file order, and every entry reads inside a       *)
(* well-formed chunk the manifest describes, with nothing left over.       *)
(***************************************************************************)
Covers(e, p) == e.logical_offset <= p /\ p < e.logical_offset + e.length

Describes(m) ==
  /\ m.chunk_count = Len(m.entries)
  /\ \A p \in 0 .. (m.total_size - 1) :
       \E k \in Entries(m) : /\ Covers(m.entries[k], p)
                             /\ \A j \in Entries(m) \ {k} : ~Covers(m.entries[j], p)
  /\ \A k \in Entries(m) :
       LET e == m.entries[k]
       IN  /\ e.length > 0
           /\ e.logical_offset + e.length <= m.total_size
           /\ \A j \in 1 .. (k - 1) : m.entries[j].logical_offset < e.logical_offset
           /\ HasChunk(m, e.chunk_id)
           /\ e.chunk_offset + e.length <= ChunkSize(m, e.chunk_id)
  /\ \A n \in DOMAIN m.chunks :
       /\ m.chunks[n].chunk_id \in WellFormed
       /\ \E k \in Entries(m) : m.entries[k].chunk_id = m.chunks[n].chunk_id

(* ValidatorExact: validate_manifest, with its checked arithmetic, accepts *)
(* exactly the manifests that describe a file byte by byte; reassemble     *)
(* reads none it should not, and refuses none it should read.  The         *)
(* one-formula ValidManifest the metadata store uses agrees.               *)
ValidatorExact ==
  /\ pc \in Reading => Describes(manifest)
  /\ result = "IntegrityManifestInvalid" => ~Describes(manifest)
  /\ ValidManifest(manifest) <=> Describes(manifest)

(* NoSliceOutOfBounds: the copy into out[at..at + bytes.len()] never       *)
(* panics: whatever manifest the client was given and whatever the server  *)
(* sent, a reply that passes the checks fits the buffer at its offset.     *)
NoSliceOutOfBounds ==
  (pc = "answered" /\ Verdict = "Ok") =>
    Entry.logical_offset + Len(reply.val.body) <= Len(out)

(* The bytes of the output that entry e stands for are those its chunk id  *)
(* addresses.                                                              *)
SegmentExact(e) ==
  SubSeq(out, e.logical_offset + 1, e.logical_offset + e.length)
    = Slice(Body(e.chunk_id), e.chunk_offset, e.length)

(* ResultExact: when reassemble returns Ok, every segment that is a whole  *)
(* chunk, and every segment of a chunk no fault has hit, holds the bytes   *)
(* its chunk id addresses, even if the store was damaged between two       *)
(* requests or between the two steps of one.                               *)
ResultExact ==
  result = "Ok" =>
    /\ Len(out) = manifest.total_size
    /\ \A k \in Entries(manifest) :
         LET e == manifest.entries[k]
         IN  (Whole(manifest, e) \/ e.chunk_id \notin damaged) => SegmentExact(e)

(* CorruptionNeverReturned: when reassemble returns Ok, every byte is the  *)
(* one the chunk ids address: "verify each backing chunk's content address *)
(* against the bytes returned".                                            *)
CorruptionNeverReturned ==
  result = "Ok" =>
    \A k \in Entries(manifest) : SegmentExact(manifest.entries[k])

(* NoSpuriousError: an error has a cause.  A valid manifest whose chunks   *)
(* are stored, undamaged, at the sizes it gives, and whose entries fit the *)
(* u32 length of a range read, is reassembled unless the network fails or  *)
(* the file does not fit into memory; and only a manifest that describes a *)
(* file that large makes the client panic or abort.                        *)
NoSpuriousError ==
  /\ (result \notin {"running", "Aborted", "Ok", "NetworkUnavailable"}
        /\ Describes(manifest)) =>
       \E k \in Entries(manifest) :
         LET e == manifest.entries[k]
         IN  \/ e.chunk_id \in damaged
             \/ blobs[e.chunk_id] = None
             \/ Len(blobs[e.chunk_id]) # ChunkSize(manifest, e.chunk_id)
             \/ e.length > U32Max
  /\ result = "Aborted" => Describes(manifest) /\ manifest.total_size > Memory

(* Terminates: a read ends, with a result or with the panic of a file too  *)
(* large, unless the server falls silent on a request that is open: what   *)
(* fails the client's checks is never asked for again.                     *)
Terminates == <>(silent \/ pc = "done")
=============================================================================
