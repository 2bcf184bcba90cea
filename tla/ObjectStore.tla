---------------------------- MODULE ObjectStore ----------------------------
(***************************************************************************)
(* objectstore: FakeObjectStore, the in-memory map from chunk ids to chunk *)
(* bodies.  Each operation holds the RwLock for its whole body and is      *)
(* atomic.  A body is the sequence of its bytes; b3 is ChunkId::from_bytes,*)
(* the BLAKE3 content address, taken to be collision-free.                 *)
(***************************************************************************)
EXTENDS Contracts

CONSTANTS
  ByteMax,  \* the largest byte (255)
  Bytes,    \* the byte strings clients send and faults leave behind
  b3(_)

ASSUME BytesAssumption ==
  /\ ByteMax \in Nat
  /\ Bytes \subseteq Seq(0 .. ByteMax)
  /\ \A b \in Bytes : Len(b) <= U64Max
  /\ None \notin Bytes
ASSUME CollisionFree == \A a, b \in Bytes : b3(a) = b3(b) => a = b

VARIABLE blobs

BlobInit == blobs = [c \in ChunkId |-> None]

(* ChunkId::verify *)
verify(id, bytes) == b3(bytes) = id

(* What a read returns: Ok with the bytes (or the size), or an error code. *)
Found(body) == [code |-> "Ok", body |-> body]
Missed(code) == [code |-> code, body |-> None]

(***************************************************************************)
(* put: the id must address the bytes, and bytes already stored under it   *)
(* must be the same.                                                       *)
(***************************************************************************)
(* Fault: the content address is not checked. *)
put_code_unverified(id, bytes) ==
  IF blobs[id] \in {None, bytes} THEN "Ok" ELSE "IntegrityChunkIdConflict"

put_code(id, bytes) ==
  IF verify(id, bytes) /\ blobs[id] \in {None, bytes}
    THEN "Ok" ELSE "IntegrityChunkIdConflict"

(* Fault: the last byte is lost. *)
put_short(id, bytes) ==
  blobs' = IF put_code(id, bytes) = "Ok"
             THEN [blobs EXCEPT ![id] = SubSeq(bytes, 1, Len(bytes) - 1)] ELSE blobs

put(id, bytes) ==
  blobs' = IF put_code(id, bytes) = "Ok"
             THEN [blobs EXCEPT ![id] = bytes] ELSE blobs

get(id) ==
  IF blobs[id] = None THEN Missed("ChunkNotFound")
  ELSE IF ~verify(id, blobs[id]) THEN Missed("IntegrityHashMismatch")
  ELSE Found(blobs[id])

(***************************************************************************)
(* get_range: bounds first, then, only when the range is the whole object, *)
(* the content address.                                                    *)
(***************************************************************************)
Slice(bytes, offset, length) == SubSeq(bytes, offset + 1, offset + length)

get_range(id, offset, length) ==
  IF blobs[id] = None THEN Missed("ChunkNotFound")
  ELSE IF offset + length > U64Max THEN Missed("InvalidParameter")
  ELSE IF offset + length > Len(blobs[id]) THEN Missed("IntegrityLengthMismatch")
  ELSE IF offset = 0 /\ length = Len(blobs[id]) /\ ~verify(id, blobs[id])
    THEN Missed("IntegrityHashMismatch")
  ELSE Found(Slice(blobs[id], offset, length))

head(id) ==
  IF blobs[id] = None THEN Missed("ChunkNotFound") ELSE Found(Len(blobs[id]))

(***************************************************************************)
(* The operations of ObjectStoreAdmin and of the tests that damage the     *)
(* store: delete, flip one byte, truncate.  No handler calls them.         *)
(***************************************************************************)
delete(id) == blobs' = [blobs EXCEPT ![id] = None]

corrupt_for_test(id, at) ==
  /\ blobs[id] # None
  /\ at \in 1 .. Len(blobs[id])
  /\ blobs' = [blobs EXCEPT ![id][at] = ByteMax - @]

truncate_for_test(id, len) ==
  /\ blobs[id] # None
  /\ len < Len(blobs[id])
  /\ blobs' = [blobs EXCEPT ![id] = SubSeq(@, 1, len)]
=============================================================================
