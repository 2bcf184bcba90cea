--------------------------- MODULE CloudApiProofs ---------------------------
(***************************************************************************)
(* Machine-checked proofs about CloudApi, for every number of requests in  *)
(* flight and every value of its constants.                                *)
(***************************************************************************)
EXTENDS CloudApi, MetadataStoreProofs, ManifestProofs

USE NoneAssumption

(***************************************************************************)
(* The fields of the requests that make a store call.                      *)
(***************************************************************************)
LEMMA RequestFields ==
  ASSUME NEW q \in ClientRequest
  PROVE  /\ q.op = "create_file" =>
              /\ q.parent_id \in DirectoryId /\ q.name \in Name
              /\ q.key \in IdempotencyKey
         /\ q.op = "stat_file" => q.file_id \in FileId
         /\ q.op = "list_children" => q.dir_id \in DirectoryId
         /\ q.op = "create_version" =>
              /\ q.file_id \in FileId /\ q.version_id \in VersionId
              /\ q.parent_version_id \in OptVersion
              /\ q.manifest_id \in ManifestId
         /\ q.op = "commit_version" => q.version_id \in VersionId
         /\ q.op = "put_manifest" => q.manifest \in InputManifest
         /\ q.op = "get_manifest" => q.manifest_id \in ManifestId
         /\ q.op = "put_chunk" => q.chunk_id \in ChunkId /\ q.body \in Bytes
         /\ q.op = "get_chunk" => q.chunk_id \in ChunkId /\ q.range \in RangeHeader
  BY RequestAssumption DEF Request

(* BytesFit: the length of a body is a u64. *)
LEMMA BytesFit ==
  ASSUME NEW b \in Bytes
  PROVE  b \in Seq(0 .. ByteMax) /\ Len(b) \in U64 /\ b # None
  BY BytesAssumption, U64MaxAssumption DEF U64

(* MetadataCallStep: a handler's store call is a step of the store. *)
LEMMA MetadataCallStep ==
  ASSUME ApiTypeOK, NEW r \in Slot, MetadataCall(r)
  PROVE  Next
<1> DEFINE q == slot[r].req
<1>1. q \in ClientRequest
  BY DEF MetadataCall, Accepted, ApiTypeOK
<1> QED
  BY <1>1, RequestFields DEF MetadataCall, Accepted, Accepts, Next

(* RegisterStep: so is the second half of put_chunk. *)
LEMMA RegisterStep ==
  ASSUME ApiTypeOK, NEW r \in Slot, RegisterBlob(r)
  PROVE  /\ Next
         /\ slot[r].req \in ClientRequest
         /\ slot[r].req.chunk_id \in ChunkId
         /\ slot[r].req.body \in Bytes
<1> DEFINE q == slot[r].req
<1>1. q \in ClientRequest /\ q.op = "put_chunk"
  BY DEF RegisterBlob, ApiTypeOK, Accepts
<1>2. q.chunk_id \in ChunkId /\ q.body \in Bytes /\ Len(q.body) \in U64
  BY <1>1, RequestFields, BytesFit
<1> QED
  BY <1>1, <1>2 DEF RegisterBlob, Next

(***************************************************************************)
(* The handlers reach the metadata store only through its operations.      *)
(***************************************************************************)
LEMMA StoreStep == ApiTypeOK /\ [ApiNext]_apiVars => [Next]_vars
<1> SUFFICES ASSUME ApiTypeOK, [ApiNext]_apiVars PROVE [Next]_vars
  OBVIOUS
<1>1. CASE UNCHANGED apiVars
  BY <1>1 DEF apiVars
<1>2. ASSUME NEW r \in Slot,
             (\E q \in ClientRequest : Send(r, q)) \/ Serve(r) \/ Abandon(r)
               \/ Finish(r)
      PROVE  [Next]_vars
  BY <1>2, MetadataCallStep, RegisterStep
  DEF Send, Serve, Abandon, Finish, Reject, Stateless, slow, PutBlob, HeadBlob,
      ReadBlob
<1> QED
  BY <1>1, <1>2 DEF ApiNext

-----------------------------------------------------------------------------
(***************************************************************************)
(* The types of the slots, whatever step changes one of them.              *)
(***************************************************************************)
(* TypeReply: a reply with one of the server's codes ends the handler. *)
LEMMA TypeReply ==
  ASSUME ApiTypeOK, NEW r \in Slot, NEW reply, reply.code \in ApiCode,
         slot[r].phase # "idle", Reply(r, reply),
         TypeOK', blobs' \in [ChunkId -> Bytes \cup {None}]
  PROVE  ApiTypeOK'
  BY DEF Reply, ApiTypeOK, Phase, Accepts

(* TypeIdle: nor does an exchange that ends. *)
LEMMA TypeIdle ==
  ASSUME ApiTypeOK, NEW r \in Slot, slot' = [slot EXCEPT ![r] = Idle],
         UNCHANGED <<vars, blobs>>
  PROVE  ApiTypeOK'
  BY DEF Idle, ApiTypeOK, TypeOK, Phase, Accepts, vars

(* HeadType: head gives a u64. *)
LEMMA HeadType ==
  ASSUME ApiTypeOK, NEW c \in ChunkId, head(c).code = "Ok"
  PROVE  /\ blobs[c] # None
         /\ head(c).body = Len(blobs[c])
         /\ head(c).body \in U64
  BY BytesFit DEF head, Found, Missed, ApiTypeOK

(* GetType, GetRangeType: the codes the object store answers with. *)
LEMMA GetType ==
  ASSUME NEW c
  PROVE  get(c).code \in {"Ok", "ChunkNotFound", "IntegrityHashMismatch"}
  BY DEF get, Found, Missed

(* See GetType. *)
LEMMA GetRangeType ==
  ASSUME NEW c, NEW offset, NEW length
  PROVE  get_range(c, offset, length).code \in
           {"Ok", "ChunkNotFound", "InvalidParameter",
            "IntegrityLengthMismatch", "IntegrityHashMismatch"}
  BY DEF get_range, Found, Missed

(***************************************************************************)
(* Every step keeps the types of the stores and of the exchanges.          *)
(***************************************************************************)
LEMMA ApiTypeStep == ApiTypeOK /\ [ApiNext]_apiVars => ApiTypeOK'
<1> SUFFICES ASSUME ApiTypeOK, [ApiNext]_apiVars PROVE ApiTypeOK'
  OBVIOUS
<1>0. TypeOK'
  BY StoreStep, TypeStep DEF ApiTypeOK
<1>1. CASE UNCHANGED apiVars
  BY <1>0, <1>1 DEF apiVars, ApiTypeOK, Accepts
<1>2. ASSUME NEW r \in Slot, NEW q \in ClientRequest, Send(r, q)
      PROVE  ApiTypeOK'
  BY <1>0, <1>2 DEF Send, ApiTypeOK, Phase, Accepts
<1>3. ASSUME NEW r \in Slot, Reject(r) PROVE ApiTypeOK'
  BY <1>0, <1>3, TypeReply
  DEF Reject, Answer, PlainText, ApiCode, Code, ApiTypeOK
<1>4. ASSUME NEW r \in Slot, Stateless(r) PROVE ApiTypeOK'
  BY <1>0, <1>4, TypeReply
  DEF Stateless, Accepted, Answer, ApiCode, Code, ApiTypeOK
<1>5. ASSUME NEW r \in Slot, slow(r) PROVE ApiTypeOK'
  <2>1. CASE slot[r].phase = "asleep" /\ Reply(r, Answer("Ok", None))
    BY <1>0, <1>5, <2>1, TypeReply DEF slow, Answer, ApiCode, Code, ApiTypeOK
  <2>2. CASE Accepted(r, "slow") /\ slot' = [slot EXCEPT ![r].phase = "asleep"]
    BY <1>0, <1>5, <2>2 DEF slow, Accepted, ApiTypeOK, Phase, Accepts
  <2> QED
    BY <1>5, <2>1, <2>2 DEF slow
<1>6. ASSUME NEW r \in Slot, MetadataCall(r) PROVE ApiTypeOK'
  <2>1. resp'.code \in ApiCode
    BY <1>0 DEF TypeOK, ApiCode
  <2>2. /\ slot[r].phase # "idle"
        /\ Reply(r, Answer(resp'.code, resp'.val))
        /\ blobs' = blobs
    BY <1>6 DEF MetadataCall, Accepted
  <2> QED
    BY <1>0, <2>1, <2>2, TypeReply DEF Answer, ApiTypeOK
<1>7. ASSUME NEW r \in Slot, PutBlob(r) PROVE ApiTypeOK'
  <2> DEFINE q == slot[r].req
             code == put_code(q.chunk_id, q.body)
  <2>1. q.chunk_id \in ChunkId /\ q.body \in Bytes
    BY <1>7, RequestFields DEF PutBlob, Accepted, Accepts, ApiTypeOK
  <2>2. blobs' \in [ChunkId -> Bytes \cup {None}]
    BY <1>7, <2>1 DEF PutBlob, put, ApiTypeOK
  <2>3. CASE code = "Ok"
    BY <1>0, <1>7, <2>2, <2>3
    DEF PutBlob, Accepted, Accepts, ApiTypeOK, Phase
  <2>4. CASE code # "Ok"
    <3>1. code = "IntegrityChunkIdConflict"
      BY <2>4 DEF put_code
    <3>2. slot[r].phase # "idle" /\ Reply(r, Answer(code, None))
      BY <1>7, <2>4 DEF PutBlob, Accepted
    <3> QED
      BY <1>0, <2>2, <3>1, <3>2, TypeReply DEF Answer, ApiCode, Code
  <2> QED
    BY <2>3, <2>4
<1>8. ASSUME NEW r \in Slot, RegisterBlob(r) PROVE ApiTypeOK'
  <2>1. resp'.code \in ApiCode
    BY <1>0 DEF TypeOK, ApiCode
  <2>2. /\ slot[r].phase # "idle"
        /\ Reply(r, Answer(resp'.code, resp'.val))
        /\ blobs' = blobs
    BY <1>8 DEF RegisterBlob
  <2> QED
    BY <1>0, <2>1, <2>2, TypeReply DEF Answer, ApiTypeOK
<1>9. ASSUME NEW r \in Slot, HeadBlob(r) PROVE ApiTypeOK'
  <2> DEFINE found == head(slot[r].req.chunk_id)
  <2>1. slot[r].req.chunk_id \in ChunkId
    BY <1>9, RequestFields DEF HeadBlob, Accepted, Accepts, ApiTypeOK
  <2>2. CASE found.code = "Ok"
    BY <1>0, <1>9, <2>1, <2>2, HeadType
    DEF HeadBlob, Accepted, Accepts, ApiTypeOK, Phase
  <2>3. CASE found.code # "Ok"
    <3>1. found.code = "ChunkNotFound"
      BY <2>3 DEF head, Found, Missed
    <3>2. slot[r].phase # "idle" /\ Reply(r, Answer(found.code, None))
          /\ blobs' = blobs
      BY <1>9, <2>3 DEF HeadBlob, Accepted
    <3> QED
      BY <1>0, <3>1, <3>2, TypeReply DEF Answer, ApiCode, Code, ApiTypeOK
  <2> QED
    BY <2>2, <2>3
<1>10. ASSUME NEW r \in Slot, ReadBlob(r) PROVE ApiTypeOK'
  <2> DEFINE q == slot[r].req
  <2>1. WholeReply(q.chunk_id).code \in ApiCode
    BY GetType DEF WholeReply, Answer, ApiCode, Code
  <2>2. RangeReply(q.chunk_id, q.range, slot[r].size).code \in ApiCode
    BY GetRangeType DEF RangeReply, Answer, Closed, ApiCode, Code
  <2> QED
    BY <1>0, <1>10, <2>1, <2>2, TypeReply DEF ReadBlob, ApiTypeOK
<1>11. ASSUME NEW r \in Slot, Abandon(r) \/ Finish(r) PROVE ApiTypeOK'
  BY <1>11, TypeIdle DEF Abandon, Finish
<1> QED
  BY <1>1, <1>2, <1>3, <1>4, <1>5, <1>6, <1>7, <1>8, <1>9, <1>10, <1>11
  DEF ApiNext, Serve

(***************************************************************************)
(* A slot holds a request and a reply exactly in the phases where an       *)
(* exchange has them, however the handlers interleave.                     *)
(***************************************************************************)
THEOREM ApiTypeCorrect == ApiSpec => []ApiTypeOK
<1>1. ApiInit => ApiTypeOK
  BY DEF ApiInit, Init, BlobInit, Idle, ApiTypeOK, TypeOK, Op, Code, Value, Phase
<1> QED
  BY <1>1, ApiTypeStep, PTL DEF ApiSpec

(***************************************************************************)
(* The API is a metadata store to its clients: whatever is proved of Spec  *)
(* holds of the store behind the handlers.                                 *)
(***************************************************************************)
THEOREM ApiIsStore == ApiSpec => Spec
<1>1. ApiInit => Init
  BY DEF ApiInit
<1> QED
  BY <1>1, StoreStep, ApiTypeCorrect, PTL DEF ApiSpec, Spec

-----------------------------------------------------------------------------
(***************************************************************************)
(* What a success reply val to the request q says of the stores.  It names *)
(* more than RepliesStayTrue does: also which thing q asked for, so that   *)
(* two answers to one request can be compared.                             *)
(***************************************************************************)
FileTold(file) ==
  /\ file.file_id \in FileId
  /\ files[file.file_id] # None
  /\ file.current_version_id # None =>
       file.current_version_id \in VersionId /\ IsCommitted(file.current_version_id)

ListingTold(d, listing) ==
  \A k \in DOMAIN listing.files :
    LET f == listing.files[k].file_id
    IN  f \in FileId /\ f \in Children(d)

VersionTold(q, version) ==
  /\ version \in Version
  /\ version.version_id = q.version_id
  /\ version.file_id = q.file_id
  /\ version.parent_version_id = q.parent_version_id
  /\ version.manifest_id = q.manifest_id
  /\ versions[q.version_id] \in {version, [version EXCEPT !.state = "Committed"]}

Read(q, size) ==
  IF q.range.kind = "none" THEN WholeReply(q.chunk_id)
                           ELSE RangeReply(q.chunk_id, q.range, size)

Told(q, val) ==
  /\ ~Refused(q) /\ ~Malformed(q)
  /\ q.op = "create_file" =>
       /\ q.name \notin IllegalName
       /\ file_idempotency[q.key] = val.file_id
       /\ FileTold(val)
  /\ q.op = "stat_file" => val.file_id = q.file_id /\ FileTold(val)
  /\ q.op = "list_children" => ListingTold(q.dir_id, val)
  /\ q.op = "create_version" => VersionTold(q, val)
  /\ q.op = "commit_version" =>
       versions[q.version_id] = val /\ IsCommitted(q.version_id)
  /\ q.op = "put_manifest" =>
       val = q.manifest /\ manifests[q.manifest.manifest_id] = val
  /\ q.op = "get_manifest" =>
       manifests[q.manifest_id] = val /\ val # None
  /\ q.op = "put_chunk" =>
       /\ val = [chunk_id |-> q.chunk_id, size |-> Len(q.body)]
       /\ chunks[q.chunk_id] = Len(q.body)
       /\ blobs[q.chunk_id] = q.body
  /\ q.op = "get_chunk" =>
       /\ blobs[q.chunk_id] # None
       /\ Read(q, Len(blobs[q.chunk_id])).shape = "success"
       /\ Read(q, Len(blobs[q.chunk_id])).val = val
  /\ q.op \in {"health", "no_route", "slow"} => val = None

(* The codes of an ErrorResponse. *)
ServerCode ==
  (Code \ {"Ok"}) \cup {"IntegrityHashMismatch", "IntegrityLengthMismatch"}

ReplyHolds(q, reply) ==
  \/ reply.shape = "success" /\ Told(q, reply.val)
  \/ reply.shape = "ErrorResponse" /\ reply.code \in ServerCode
  \/ reply \in {PlainText, Closed}

(***************************************************************************)
(* The inductive invariant.  RegistryBacked alone is not inductive: that a *)
(* stored blob has the address it is stored under is BlobsVerified, that   *)
(* RegisterBlob finds its blob stored is part of SlotHolds, which says     *)
(* that what a handler did or read before it lost the lock is still so     *)
(* when it goes on, and what it replied is still so until the reply is     *)
(* gone.                                                                   *)
(***************************************************************************)
BlobsVerified == \A c \in ChunkId : blobs[c] # None => verify(c, blobs[c])

SlotHolds(r) ==
  LET q == slot[r].req
  IN  /\ slot[r].phase = "asleep" => Accepts(r, "slow")
      /\ slot[r].phase = "stored" => blobs[q.chunk_id] = q.body
      /\ slot[r].phase = "headed" => /\ blobs[q.chunk_id] # None
                                     /\ slot[r].size = Len(blobs[q.chunk_id])
      /\ slot[r].phase = "replied" => ReplyHolds(q, slot[r].reply)

SlotsHold == \A r \in Slot : SlotHolds(r)

ApiInv ==
  /\ StoreInv
  /\ ApiTypeOK
  /\ BlobsVerified
  /\ RegistryBacked
  /\ SlotsHold

-----------------------------------------------------------------------------
(* No step replaces or removes a stored blob. *)
BlobsKept == \A c \in ChunkId : blobs[c] # None => blobs'[c] = blobs[c]

(* CommittedStays: a Committed version stays as it is. *)
LEMMA CommittedStays ==
  ASSUME TypeOK, Kept, NEW v \in VersionId, IsCommitted(v)
  PROVE  versions'[v] = versions[v] /\ IsCommitted(v)'
  BY DEF TypeOK, Kept, IsCommitted

(* ReadStays: a read of a stored blob gives the same answer later. *)
LEMMA ReadStays ==
  ASSUME NEW q, NEW size, blobs'[q.chunk_id] = blobs[q.chunk_id]
  PROVE  Read(q, size)' = Read(q, size)
  BY DEF Read, WholeReply, RangeReply, get, get_range, head

(***************************************************************************)
(* What a reply says of the stores stays true.                             *)
(***************************************************************************)
LEMMA ToldStays ==
  ASSUME TypeOK, TypeOK', Kept, BlobsKept,
         NEW q \in ClientRequest, NEW val, Told(q, val)
  PROVE  Told(q, val)'
<1>1. ~Refused(q)' /\ ~Malformed(q)'
  BY DEF Told, Refused, Malformed
<1>2. ASSUME FileTold(val) PROVE FileTold(val)'
  BY <1>2, CommittedStays DEF FileTold, Kept
<1>3. q.op = "create_file" =>
        file_idempotency'[q.key] = val.file_id /\ FileTold(val)'
  BY <1>2, RequestFields DEF Told, FileTold, Kept
<1>4. q.op = "list_children" => ListingTold(q.dir_id, val)'
  BY DEF Told, ListingTold, Children, Kept
<1>5. q.op = "create_version" => VersionTold(q, val)'
  <2> SUFFICES ASSUME q.op = "create_version" PROVE VersionTold(q, val)'
    OBVIOUS
  <2> DEFINE w == versions[q.version_id]
  <2>1. q.version_id \in VersionId /\ VersionTold(q, val)
    BY RequestFields DEF Told
  <2>2. /\ val \in Version
        /\ [val EXCEPT !.state = "Committed"] \in Version
        /\ w \in {val, [val EXCEPT !.state = "Committed"]}
    BY <2>1 DEF VersionTold, Version, VersionState
  <2>3. w # None
    BY <2>2, NoneAssumption
  <2>4. versions'[q.version_id] \in {w, [w EXCEPT !.state = "Committed"]}
    BY <2>1, <2>3 DEF Kept
  <2>5. [w EXCEPT !.state = "Committed"] = [val EXCEPT !.state = "Committed"]
    BY <2>2 DEF Version
  <2> QED
    BY <2>1, <2>2, <2>4, <2>5 DEF VersionTold
<1>6. q.op = "commit_version" =>
        versions'[q.version_id] = val /\ IsCommitted(q.version_id)'
  BY CommittedStays, RequestFields DEF Told
<1>7. q.op = "put_manifest" => manifests'[q.manifest.manifest_id] = val
  BY RequestFields, InputAssumption DEF Told, Kept, Manifest
<1>8. q.op = "get_manifest" => manifests'[q.manifest_id] = val
  BY RequestFields DEF Told, Kept
<1>9. q.op = "put_chunk" => /\ chunks'[q.chunk_id] = Len(q.body)
                            /\ blobs'[q.chunk_id] = q.body
  BY RequestFields, BytesFit DEF Told, Kept, BlobsKept
<1>10. q.op = "get_chunk" =>
         /\ blobs'[q.chunk_id] = blobs[q.chunk_id]
         /\ \A size : Read(q, size)' = Read(q, size)
  BY RequestFields, ReadStays DEF Told, BlobsKept
<1> QED
  BY <1>1, <1>2, <1>3, <1>4, <1>5, <1>6, <1>7, <1>8, <1>9, <1>10 DEF Told

(* SlotStays: what other slots' handlers do does not disturb a slot. *)
LEMMA SlotStays ==
  ASSUME ApiInv, TypeOK', Kept, BlobsKept, NEW s \in Slot, slot'[s] = slot[s]
  PROVE  SlotHolds(s)'
<1> DEFINE q == slot[s].req
<1>1. SlotHolds(s)
  BY DEF ApiInv, SlotsHold
<1>0. CASE slot[s].phase = "asleep"
  BY <1>0, <1>1 DEF SlotHolds, Accepts
<1>2. CASE slot[s].phase = "stored"
  <2>1. q \in ClientRequest /\ q.op = "put_chunk"
    BY <1>2 DEF ApiInv, ApiTypeOK, Accepts
  <2>2. q.chunk_id \in ChunkId /\ q.body # None
    BY <2>1, RequestFields, BytesFit
  <2> QED
    BY <1>1, <1>2, <2>2 DEF SlotHolds, BlobsKept
<1>3. CASE slot[s].phase = "headed"
  <2>1. q \in ClientRequest /\ q.op = "get_chunk"
    BY <1>3 DEF ApiInv, ApiTypeOK, Accepts
  <2>2. q.chunk_id \in ChunkId
    BY <2>1, RequestFields
  <2> QED
    BY <1>1, <1>3, <2>2 DEF SlotHolds, BlobsKept
<1>4. CASE slot[s].phase = "replied"
  <2> DEFINE reply == slot[s].reply
  <2>1. q \in ClientRequest /\ TypeOK
    BY <1>4 DEF ApiInv, ApiTypeOK
  <2>2. ReplyHolds(q, reply)
    BY <1>1, <1>4 DEF SlotHolds
  <2>3. CASE reply.shape = "success" /\ Told(q, reply.val)
    <3>1. PICK p, val : p \in ClientRequest /\ p = q /\ val = reply.val
      BY <2>1
    <3>2. Told(p, val)'
      BY <2>1, <2>3, <3>1, ToldStays
    <3>3. p = q' /\ val = reply'.val /\ reply'.shape = "success"
      BY <2>3, <3>1
    <3> QED
      BY <1>4, <3>2, <3>3 DEF SlotHolds, ReplyHolds
  <2>4. CASE ~(reply.shape = "success" /\ Told(q, reply.val))
    BY <1>4, <2>2, <2>4 DEF SlotHolds, ReplyHolds
  <2> QED
    BY <2>3, <2>4
<1> QED
  BY <1>0, <1>2, <1>3, <1>4 DEF SlotHolds

(***************************************************************************)
(* What a metadata handler replies holds in the state it leaves.           *)
(***************************************************************************)
LEMMA MetadataReply ==
  ASSUME ApiInv, TypeOK', NEW r \in Slot, MetadataCall(r),
         NEW q \in ClientRequest, q = slot[r].req,
         NEW val, val = resp'.val, resp'.code = "Ok"
  PROVE  Told(q, val)'
<1>1. ~Refused(q)' /\ ~Malformed(q)'
  BY DEF MetadataCall, Accepted, Accepts, Refused, Malformed
<1>2. q.op \in {"create_file", "stat_file", "list_children", "create_version",
                "commit_version", "put_manifest", "get_manifest"}
  BY DEF MetadataCall, Accepted, Accepts
<1> USE DEF ApiInv, StoreInv, TypeOK
<1>3. ASSUME NEW f \in FileId, files[f] # None
      PROVE  /\ files[f] \in File /\ files[f].file_id = f
             /\ FileTold(files[f])
  BY <1>3 DEF FileTold, CurrentIsCommitted, File, OptVersion
<1>4. q.op = "create_file" =>
        /\ q.name \notin IllegalName
        /\ file_idempotency'[q.key] = val.file_id
        /\ FileTold(val)'
  <2> SUFFICES ASSUME q.op = "create_file"
               PROVE  /\ q.name \notin IllegalName
                      /\ file_idempotency'[q.key] = val.file_id
                      /\ FileTold(val)'
    OBVIOUS
  <2>1. create_file(q.parent_id, q.name, q.key) /\ q.key \in IdempotencyKey
    BY RequestFields DEF MetadataCall, Accepted, Accepts
  <2>2. q.name \notin IllegalName
    BY <2>1 DEF create_file, Err
  <2>3. CASE file_idempotency[q.key] # None
    <3> DEFINE f == file_idempotency[q.key]
    <3>1. f \in FileId /\ files[f] # None /\ val = files[f] /\ UNCHANGED store
      BY <2>1, <2>2, <2>3 DEF create_file, Ok, OneFilePerKey
    <3>2. FileTold(files[f]) /\ files[f].file_id = f
      BY <1>3, <3>1
    <3> QED
      BY <2>2, <3>1, <3>2 DEF FileTold, store, IsCommitted
  <2>4. CASE file_idempotency[q.key] = None
    <3>1. PICK f \in FileId :
            InsertFile(q.key, [file_id |-> f, parent_id |-> q.parent_id,
                               name |-> q.name, current_version_id |-> None])
      BY <2>1, <2>2, <2>4 DEF create_file
    <3> DEFINE file == [file_id |-> f, parent_id |-> q.parent_id,
                        name |-> q.name, current_version_id |-> None]
    <3>2. /\ val = file
          /\ files' = [files EXCEPT ![file.file_id] = file]
          /\ file_idempotency' = [file_idempotency EXCEPT ![q.key] = file.file_id]
      BY <3>1 DEF InsertFile, Ok
    <3>3. file.file_id = f /\ file.current_version_id = None /\ file \in File
      BY RequestFields DEF File, OptVersion
    <3>4. file # None
      BY <3>3, NoneAssumption
    <3> HIDE DEF file
    <3> QED
      BY <2>1, <2>2, <3>2, <3>3, <3>4 DEF FileTold
  <2> QED
    BY <2>3, <2>4
<1>5. q.op = "stat_file" => val.file_id = q.file_id /\ FileTold(val)'
  <2> SUFFICES ASSUME q.op = "stat_file"
               PROVE  val.file_id = q.file_id /\ FileTold(val)'
    OBVIOUS
  <2>1. get_file(q.file_id) /\ q.file_id \in FileId
    BY RequestFields DEF MetadataCall, Accepted, Accepts
  <2>2. files[q.file_id] # None /\ val = files[q.file_id] /\ UNCHANGED store
    BY <2>1 DEF get_file, Ok, Err
  <2>3. FileTold(val) /\ val.file_id = q.file_id
    BY <1>3, <2>1, <2>2
  <2> QED
    BY <2>2, <2>3 DEF FileTold, store, IsCommitted
<1>6. q.op = "list_children" => ListingTold(q.dir_id, val)'
  <2> SUFFICES ASSUME q.op = "list_children" PROVE ListingTold(q.dir_id, val)'
    OBVIOUS
  <2>1. list_children(q.dir_id)
    BY DEF MetadataCall, Accepted, Accepts
  <2>2. PICK s \in Listings(q.dir_id) :
          val = [files |-> [k \in DOMAIN s |-> files[s[k]]]]
    <3>1. PICK s \in Listings(q.dir_id) :
            Ok("list_children", [files |-> [k \in DOMAIN s |-> files[s[k]]]])
      BY <2>1, Zenon DEF list_children
    <3> DEFINE listing == [files |-> [k \in DOMAIN s |-> files[s[k]]]]
    <3>2. Ok("list_children", listing)
      BY <3>1
    <3> HIDE DEF listing
    <3>3. val = listing
      BY <3>2 DEF Ok
    <3> QED
      BY <3>3, Zenon DEF listing
  <2>3. \A k \in DOMAIN s : s[k] \in FileId /\ s[k] \in Children(q.dir_id)
    BY DEF Listings, Children
  <2>4. \A k \in DOMAIN s : files[s[k]].file_id = s[k]
    BY <2>3 DEF Children
  <2>5. UNCHANGED store
    BY <2>1 DEF list_children
  <2> QED
    BY <2>2, <2>3, <2>4, <2>5 DEF ListingTold, Children, store
<1>7. q.op = "create_version" => VersionTold(q, val)'
  <2> SUFFICES ASSUME q.op = "create_version" PROVE VersionTold(q, val)'
    OBVIOUS
  <2>1. /\ create_version(q.file_id, q.version_id, q.parent_version_id,
                          q.manifest_id)
        /\ q.file_id \in FileId /\ q.version_id \in VersionId
        /\ q.parent_version_id \in OptVersion /\ q.manifest_id \in ManifestId
    BY RequestFields DEF MetadataCall, Accepted, Accepts
  <2>2. create_version_code(q.file_id, q.version_id, q.parent_version_id,
                            q.manifest_id) = "Ok"
    BY <2>1 DEF create_version, Err
  <2>3. CASE versions[q.version_id] = None
    <3> DEFINE w == [version_id |-> q.version_id, file_id |-> q.file_id,
                     parent_version_id |-> q.parent_version_id,
                     manifest_id |-> q.manifest_id, state |-> "Candidate"]
    <3>1. w \in Version
      BY <2>1 DEF Version, VersionState
    <3>2. val = w /\ versions' = [versions EXCEPT ![q.version_id] = w]
      BY <2>1, <2>2, <2>3 DEF create_version, InsertVersion, Ok
    <3>3. versions'[q.version_id] = w
      BY <2>1, <3>2
    <3>4. /\ w.version_id = q.version_id /\ w.file_id = q.file_id
          /\ w.parent_version_id = q.parent_version_id
          /\ w.manifest_id = q.manifest_id
      OBVIOUS
    <3> HIDE DEF w
    <3> QED
      BY <3>1, <3>2, <3>3, <3>4 DEF VersionTold
  <2>4. CASE versions[q.version_id] # None
    <3>1. val = versions[q.version_id] /\ UNCHANGED store
      BY <2>1, <2>2, <2>4 DEF create_version, Ok
    <3>2. SameVersion(val, q.file_id, q.parent_version_id, q.manifest_id)
      BY <2>2, <2>4, <3>1 DEF create_version_code
    <3> QED
      BY <2>1, <2>4, <3>1, <3>2 DEF VersionTold, SameVersion, store
  <2> QED
    BY <2>3, <2>4
<1>8. q.op = "commit_version" =>
        versions'[q.version_id] = val /\ IsCommitted(q.version_id)'
  <2> SUFFICES ASSUME q.op = "commit_version"
               PROVE  versions'[q.version_id] = val /\ IsCommitted(q.version_id)'
    OBVIOUS
  <2> DEFINE v == q.version_id
             w == [versions[v] EXCEPT !.state = "Committed"]
  <2>1. commit_version(v) /\ v \in VersionId
    BY RequestFields DEF MetadataCall, Accepted, Accepts
  <2>2. commit_version_code(v) = "Ok"
    BY <2>1 DEF commit_version, Err
  <2>3. versions[v] # None /\ versions[v] \in Version
    BY <2>1, <2>2 DEF commit_version_code
  <2>4. CASE versions[v].state = "Committed"
    BY <2>1, <2>2, <2>3, <2>4 DEF commit_version, Ok, store, IsCommitted
  <2>5. CASE versions[v].state # "Committed"
    <3>1. val = w /\ versions' = [versions EXCEPT ![v] = w]
      <4>1. Publish(v)
        BY <2>1, <2>2, <2>5 DEF commit_version
      <4>2. versions' = [versions EXCEPT ![v] = w] /\ Ok("commit_version", w)
        BY <4>1 DEF Publish
      <4> HIDE DEF w
      <4> QED
        BY <4>2 DEF Ok
    <3>2. w \in Version /\ w.state = "Committed"
      BY <2>3 DEF Version, VersionState
    <3>3. w # None
      BY <3>2, NoneAssumption
    <3> HIDE DEF w
    <3> QED
      BY <2>1, <3>1, <3>2, <3>3 DEF IsCommitted
  <2> QED
    BY <2>4, <2>5
<1>9. q.op = "put_manifest" =>
        val = q.manifest /\ manifests'[q.manifest.manifest_id] = val
  BY RequestFields, InputAssumption
  DEF MetadataCall, Accepted, Accepts, put_manifest, InsertManifest, Ok, Err,
      Manifest
<1>10. q.op = "get_manifest" => manifests'[q.manifest_id] = val /\ val # None
  BY RequestFields
  DEF MetadataCall, Accepted, Accepts, get_manifest, Ok, Err, store
<1> QED
  BY <1>1, <1>2, <1>4, <1>5, <1>6, <1>7, <1>8, <1>9, <1>10 DEF Told

(***************************************************************************)
(* One lemma per handler: the slot it serves holds what SlotHolds asks.    *)
(***************************************************************************)
(* SlotReplied: an error, or a success that tells the truth, is a reply    *)
(* that holds.                                                             *)
LEMMA SlotReplied ==
  ASSUME ApiTypeOK, NEW r \in Slot, NEW reply, Reply(r, reply),
         NEW q, q = slot[r].req, ReplyHolds(q, reply)'
  PROVE  SlotHolds(r)'
<1>1. /\ slot'[r].phase = "replied"
      /\ slot'[r].reply = reply
      /\ slot'[r].req = q
  BY DEF Reply, ApiTypeOK
<1> QED
  BY <1>1 DEF SlotHolds

(* MetadataHolds: the handlers that are one call of the metadata store. *)
LEMMA MetadataHolds ==
  ASSUME ApiInv, TypeOK', NEW r \in Slot, MetadataCall(r)
  PROVE  SlotHolds(r)'
<1>1. ApiTypeOK /\ slot[r].req \in ClientRequest
  BY DEF ApiInv, MetadataCall, Accepted, ApiTypeOK
<1>2. PICK q, val, code, reply :
        /\ q \in ClientRequest /\ q = slot[r].req
        /\ val = resp'.val /\ code = resp'.code
        /\ reply = Answer(code, val)
  BY <1>1
<1>3. Reply(r, reply) /\ code \in Code
  BY <1>2 DEF MetadataCall, TypeOK
<1>4. CASE code = "Ok"
  <2>1. Told(q, val)'
    BY <1>2, <1>4, MetadataReply
  <2>2. reply.shape = "success" /\ reply.val = val
    BY <1>2, <1>4 DEF Answer
  <2>3. ReplyHolds(q, reply)'
    BY <2>1, <2>2 DEF ReplyHolds
  <2> QED
    BY <1>1, <1>2, <1>3, <2>3, SlotReplied
<1>5. CASE code # "Ok"
  <2>1. reply.shape = "ErrorResponse" /\ reply.code \in ServerCode
    BY <1>2, <1>3, <1>5 DEF Answer, ServerCode
  <2>2. ReplyHolds(q, reply)'
    BY <2>1 DEF ReplyHolds
  <2> QED
    BY <1>1, <1>2, <1>3, <2>2, SlotReplied
<1> QED
  BY <1>4, <1>5

(* PutHolds: the first half of put_chunk. *)
LEMMA PutHolds ==
  ASSUME ApiInv, NEW r \in Slot, PutBlob(r)
  PROVE  /\ SlotHolds(r)'
         /\ BlobsKept
         /\ BlobsVerified'
<1> DEFINE q == slot[r].req
           code == put_code(q.chunk_id, q.body)
<1>1. /\ ApiTypeOK /\ blobs \in [ChunkId -> Bytes \cup {None}]
      /\ slot[r].phase = "sent" /\ q \in ClientRequest /\ q.op = "put_chunk"
  BY DEF ApiInv, ApiTypeOK, PutBlob, Accepted, Accepts
<1>2. q.chunk_id \in ChunkId /\ q.body \in Bytes /\ q.body # None
  BY <1>1, RequestFields, BytesFit
<1>3. CASE code = "Ok"
  <2>1. /\ verify(q.chunk_id, q.body) /\ blobs[q.chunk_id] \in {None, q.body}
        /\ blobs' = [blobs EXCEPT ![q.chunk_id] = q.body]
    BY <1>3 DEF PutBlob, put, put_code
  <2>2. slot'[r].phase = "stored" /\ slot'[r].req = q
    BY <1>1, <1>3 DEF PutBlob, ApiTypeOK
  <2>3. SlotHolds(r)'
    BY <1>1, <1>2, <2>1, <2>2 DEF SlotHolds
  <2>4. BlobsKept
    BY <1>1, <1>2, <2>1 DEF BlobsKept
  <2>5. BlobsVerified'
    BY <1>1, <1>2, <2>1 DEF BlobsVerified, ApiInv, verify
  <2> QED
    BY <2>3, <2>4, <2>5
<1>4. CASE code # "Ok"
  <2>1. PICK p, reply : p = q /\ reply = Answer("IntegrityChunkIdConflict", None)
    OBVIOUS
  <2>2. Reply(r, reply) /\ blobs' = blobs
    BY <1>4, <2>1 DEF PutBlob, put, put_code
  <2>3. ReplyHolds(p, reply)'
    BY <2>1 DEF Answer, ReplyHolds, ServerCode, Code
  <2> QED
    BY <1>1, <2>1, <2>2, <2>3, SlotReplied DEF BlobsKept, BlobsVerified, ApiInv
<1> QED
  BY <1>3, <1>4

(* RegisterHolds: its second half finds the blob and registers it, and     *)
(* cannot fail.                                                            *)
LEMMA RegisterHolds ==
  ASSUME ApiInv, TypeOK', NEW r \in Slot, RegisterBlob(r)
  PROVE  /\ register_chunk_code(slot[r].req.chunk_id, Len(slot[r].req.body)) = "Ok"
         /\ SlotHolds(r)'
         /\ RegistryBacked'
<1>1. PICK q \in ClientRequest : q = slot[r].req
  BY RegisterStep DEF ApiInv
<1>2. /\ ApiTypeOK /\ TypeOK /\ slot[r].phase = "stored"
      /\ q.op = "put_chunk" /\ ~Refused(q) /\ ~Malformed(q)
      /\ blobs[q.chunk_id] = q.body
  BY <1>1 DEF ApiInv, ApiTypeOK, RegisterBlob, Accepts, SlotsHold, SlotHolds
<1>3. /\ q.chunk_id \in ChunkId /\ q.body \in Bytes /\ q.body # None
      /\ Len(q.body) \in U64 /\ q.chunk_id \in WellFormed
  BY <1>2, RequestFields, BytesFit DEF Malformed
<1>4. register_chunk_code(q.chunk_id, Len(q.body)) = "Ok"
  BY <1>2, <1>3 DEF register_chunk_code, ApiInv, RegistryBacked
<1>5. /\ register_chunk(q.chunk_id, Len(q.body))
      /\ Reply(r, Answer(resp'.code, resp'.val))
      /\ blobs' = blobs
  BY <1>1 DEF RegisterBlob
<1>6. InsertChunk(q.chunk_id, Len(q.body))
  BY <1>4, <1>5 DEF register_chunk
<1>7. PICK reply, val :
        /\ val = [chunk_id |-> q.chunk_id, size |-> Len(q.body)]
        /\ reply = Answer("Ok", val)
  OBVIOUS
<1>8. Reply(r, reply)
  BY <1>5, <1>6, <1>7 DEF InsertChunk, Ok
<1>9. Told(q, val)'
  BY <1>2, <1>3, <1>5, <1>6, <1>7
  DEF Told, InsertChunk, TypeOK, Refused, Malformed
<1>10. ReplyHolds(q, reply)'
  BY <1>7, <1>9 DEF ReplyHolds, Answer
<1>11. RegistryBacked'
  BY <1>2, <1>3, <1>5, <1>6
  DEF RegistryBacked, InsertChunk, TypeOK, ApiInv, BlobsVerified, verify
<1> QED
  BY <1>1, <1>2, <1>4, <1>8, <1>10, <1>11, SlotReplied

(* HeadHolds: the first half of get_chunk. *)
LEMMA HeadHolds ==
  ASSUME ApiInv, NEW r \in Slot, HeadBlob(r)
  PROVE  SlotHolds(r)'
<1>1. PICK q \in ClientRequest : q = slot[r].req
  BY DEF ApiInv, ApiTypeOK, HeadBlob, Accepted
<1>2. ApiTypeOK /\ q.chunk_id \in ChunkId
  BY <1>1, RequestFields DEF ApiInv, HeadBlob, Accepted, Accepts
<1>3. CASE head(q.chunk_id).code = "Ok"
  <2>1. /\ slot'[r].phase = "headed" /\ slot'[r].req = q
        /\ slot'[r].size = head(q.chunk_id).body
        /\ blobs' = blobs
    BY <1>1, <1>2, <1>3 DEF HeadBlob, ApiTypeOK
  <2> QED
    BY <1>2, <1>3, <2>1, HeadType DEF SlotHolds
<1>4. CASE head(q.chunk_id).code # "Ok"
  <2>1. PICK reply : reply = Answer("ChunkNotFound", None)
    OBVIOUS
  <2>2. head(q.chunk_id).code = "ChunkNotFound"
    BY <1>4 DEF head, Found, Missed
  <2>3. Reply(r, reply)
    BY <1>1, <1>4, <2>1, <2>2 DEF HeadBlob
  <2>4. ReplyHolds(q, reply)'
    BY <2>1 DEF Answer, ReplyHolds, ServerCode, Code
  <2> QED
    BY <1>1, <1>2, <2>3, <2>4, SlotReplied
<1> QED
  BY <1>3, <1>4

(* ReadCodes: what a read can answer. *)
LEMMA ReadCodes ==
  ASSUME NEW q, NEW size, NEW reply, reply = Read(q, size)
  PROVE  \/ reply.shape = "success"
         \/ reply.shape = "ErrorResponse" /\ reply.code \in ServerCode
         \/ reply = Closed
<1>1. CASE q.range.kind = "none"
  BY <1>1, GetType DEF Read, WholeReply, Answer, ServerCode, Code
<1>2. CASE q.range.kind # "none"
  BY <1>2, GetRangeType DEF Read, RangeReply, Answer, ServerCode, Code
<1> QED
  BY <1>1, <1>2

(* ReadHolds: its second half reads the blob whose size the first one saw. *)
LEMMA ReadHolds ==
  ASSUME ApiInv, NEW r \in Slot, ReadBlob(r)
  PROVE  SlotHolds(r)'
<1>1. PICK q, size, reply :
        /\ q \in ClientRequest /\ q = slot[r].req /\ size = slot[r].size
        /\ reply = Read(q, size)
  BY DEF ApiInv, ApiTypeOK, ReadBlob
<1>2. /\ ApiTypeOK /\ q.op = "get_chunk" /\ ~Refused(q) /\ ~Malformed(q)
      /\ blobs[q.chunk_id] # None /\ size = Len(blobs[q.chunk_id])
  BY <1>1 DEF ApiInv, ApiTypeOK, ReadBlob, Accepts, SlotsHold, SlotHolds
<1>3. Reply(r, reply) /\ blobs' = blobs
  BY <1>1 DEF ReadBlob, Read
<1>4. CASE reply.shape = "success"
  <2>1. Read(q, size)' = reply
    BY <1>1, <1>3, ReadStays
  <2>2. Told(q, reply.val)'
    BY <1>2, <1>3, <1>4, <2>1 DEF Told, Refused, Malformed
  <2>3. ReplyHolds(q, reply)'
    BY <1>4, <2>2 DEF ReplyHolds
  <2> QED
    BY <1>1, <1>2, <1>3, <2>3, SlotReplied
<1>5. CASE reply.shape # "success"
  <2>1. ReplyHolds(q, reply)'
    BY <1>1, <1>5, ReadCodes DEF ReplyHolds
  <2> QED
    BY <1>1, <1>2, <1>3, <2>1, SlotReplied
<1> QED
  BY <1>4, <1>5

(* OtherHolds: the handlers that touch no store. *)
LEMMA OtherHolds ==
  ASSUME ApiInv, NEW r \in Slot, Reject(r) \/ Stateless(r) \/ slow(r)
  PROVE  SlotHolds(r)'
<1>1. ApiTypeOK /\ slot[r].req \in ClientRequest
  BY DEF ApiInv, ApiTypeOK, Reject, Stateless, slow, Accepted
<1>2. CASE Reject(r)
  <2>1. PICK q, reply :
          /\ q = slot[r].req /\ Reply(r, reply)
          /\ reply \in {PlainText, Answer("InvalidParameter", None)}
    BY <1>2 DEF Reject
  <2>2. ReplyHolds(q, reply)'
    BY <2>1 DEF Answer, ReplyHolds, ServerCode, Code
  <2> QED
    BY <1>1, <2>1, <2>2, SlotReplied
<1>3. CASE Stateless(r)
  <2>1. PICK q, reply :
          /\ q = slot[r].req /\ Reply(r, reply)
          /\ \/ q.op = "health" /\ reply = Answer("Ok", None)
             \/ q.op = "no_route" /\ reply = Answer("FileNotFound", None)
          /\ ~Refused(q) /\ ~Malformed(q)
    BY <1>3 DEF Stateless, Accepted, Accepts
  <2>2. ReplyHolds(q, reply)'
    <3>1. CASE q.op = "health" /\ reply = Answer("Ok", None)
      BY <2>1, <3>1 DEF Answer, ReplyHolds, Told, Refused, Malformed
    <3>2. CASE reply = Answer("FileNotFound", None)
      BY <3>2 DEF Answer, ReplyHolds, ServerCode, Code
    <3> QED
      BY <2>1, <3>1, <3>2
  <2> QED
    BY <1>1, <2>1, <2>2, SlotReplied
<1>4. CASE Accepted(r, "slow") /\ slot' = [slot EXCEPT ![r].phase = "asleep"]
  BY <1>1, <1>4 DEF Accepted, Accepts, ApiTypeOK, SlotHolds
<1>5. CASE slot[r].phase = "asleep" /\ Reply(r, Answer("Ok", None))
  <2>1. PICK q, reply :
          /\ q = slot[r].req /\ Reply(r, reply) /\ reply = Answer("Ok", None)
    BY <1>5
  <2>2. q.op = "slow" /\ ~Refused(q) /\ ~Malformed(q)
    BY <1>5, <2>1 DEF ApiInv, SlotsHold, SlotHolds, Accepts
  <2>3. ReplyHolds(q, reply)'
    BY <2>1, <2>2 DEF Answer, ReplyHolds, Told, Refused, Malformed
  <2> QED
    BY <1>1, <2>1, <2>3, SlotReplied
<1> QED
  BY <1>2, <1>3, <1>4, <1>5 DEF slow

(* ChunksUntouched: only RegisterBlob changes the registry. *)
LEMMA ChunksUntouched ==
  ASSUME NEW r, MetadataCall(r)
  PROVE  UNCHANGED <<chunks, blobs>>
  BY DEF MetadataCall, create_file, InsertFile, get_file, list_children,
         create_version, InsertVersion, commit_version, Publish, put_manifest,
         InsertManifest, get_manifest, store

(***************************************************************************)
(* Every step of every handler keeps the invariant.                        *)
(***************************************************************************)
LEMMA ApiInvStep == ApiInv /\ [ApiNext]_apiVars => ApiInv' /\ BlobsKept
<1> SUFFICES ASSUME ApiInv, [ApiNext]_apiVars PROVE ApiInv' /\ BlobsKept
  OBVIOUS
<1>1. /\ ApiTypeOK /\ TypeOK /\ StoreInv
      /\ [Next]_vars
      /\ ApiTypeOK' /\ TypeOK' /\ StoreInv'
      /\ Kept
  BY StoreStep, ApiTypeStep, InvStep, StoreKeeps DEF ApiInv, ApiTypeOK
<1>2. ASSUME UNCHANGED <<chunks, blobs>>
      PROVE  BlobsKept /\ BlobsVerified' /\ RegistryBacked'
  BY <1>2 DEF BlobsKept, BlobsVerified, RegistryBacked, verify, ApiInv
<1>3. ASSUME BlobsKept, UNCHANGED chunks PROVE RegistryBacked'
  BY <1>3 DEF BlobsKept, RegistryBacked, verify, ApiInv
<1>4. CASE UNCHANGED apiVars
  <2>1. UNCHANGED <<chunks, blobs, slot>>
    BY <1>4 DEF apiVars, vars
  <2> QED
    BY <1>1, <1>2, <2>1, SlotStays DEF ApiInv, SlotsHold
<1>5. ASSUME NEW r \in Slot,
             \A s \in Slot \ {r} : slot'[s] = slot[s],
             SlotHolds(r)', BlobsKept, BlobsVerified', RegistryBacked'
      PROVE  ApiInv' /\ BlobsKept
  BY <1>1, <1>5, SlotStays DEF ApiInv, SlotsHold
<1>6. ASSUME NEW r \in Slot, NEW q \in ClientRequest, Send(r, q)
      PROVE  ApiInv' /\ BlobsKept
  <2>1. UNCHANGED <<chunks, blobs>> /\ slot'[r].phase = "sent"
        /\ \A s \in Slot \ {r} : slot'[s] = slot[s]
    BY <1>1, <1>6 DEF Send, vars, ApiTypeOK
  <2>2. SlotHolds(r)'
    BY <2>1 DEF SlotHolds
  <2> QED
    BY <1>2, <1>5, <2>1, <2>2
<1>7. ASSUME NEW r \in Slot, Abandon(r) \/ Finish(r)
      PROVE  ApiInv' /\ BlobsKept
  <2>1. UNCHANGED <<chunks, blobs>> /\ slot'[r].phase = "idle"
        /\ \A s \in Slot \ {r} : slot'[s] = slot[s]
    BY <1>1, <1>7 DEF Abandon, Finish, Idle, vars, ApiTypeOK
  <2>2. SlotHolds(r)'
    BY <2>1 DEF SlotHolds
  <2> QED
    BY <1>2, <1>5, <2>1, <2>2
<1>8. ASSUME NEW r \in Slot, Serve(r) PROVE ApiInv' /\ BlobsKept
  <2>1. \A s \in Slot \ {r} : slot'[s] = slot[s]
    BY <1>1, <1>8
    DEF Serve, Reject, Stateless, slow, MetadataCall, PutBlob, RegisterBlob,
        HeadBlob, ReadBlob, Reply, ApiTypeOK
  <2>2. CASE Reject(r) \/ Stateless(r) \/ slow(r)
    BY <1>2, <1>5, <2>1, <2>2, OtherHolds DEF Reject, Stateless, slow, vars
  <2>3. CASE MetadataCall(r)
    BY <1>1, <1>2, <1>5, <2>1, <2>3, MetadataHolds, ChunksUntouched
  <2>4. CASE PutBlob(r)
    BY <1>3, <1>5, <2>1, <2>4, PutHolds DEF PutBlob, vars
  <2>5. CASE RegisterBlob(r)
    <3>1. BlobsKept /\ BlobsVerified'
      BY <2>5 DEF RegisterBlob, BlobsKept, BlobsVerified, verify, ApiInv
    <3> QED
      BY <1>1, <1>5, <2>1, <2>5, <3>1, RegisterHolds
  <2>6. CASE HeadBlob(r)
    BY <1>2, <1>5, <2>1, <2>6, HeadHolds DEF HeadBlob, vars
  <2>7. CASE ReadBlob(r)
    BY <1>2, <1>5, <2>1, <2>7, ReadHolds DEF ReadBlob, vars
  <2> QED
    BY <1>8, <2>2, <2>3, <2>4, <2>5, <2>6, <2>7 DEF Serve
<1> QED
  BY <1>4, <1>6, <1>7, <1>8 DEF ApiNext

(* ApiInvInit: two empty stores and no request satisfy the invariant. *)
LEMMA ApiInvInit == ApiInit => ApiInv
<1> SUFFICES ASSUME ApiInit PROVE ApiInv
  OBVIOUS
<1>1. StoreInv
  BY InvInit DEF ApiInit
<1>2. ApiTypeOK
  BY <1>1 DEF ApiInit, BlobInit, Idle, ApiTypeOK, StoreInv, Phase
<1>3. BlobsVerified /\ RegistryBacked
  BY DEF ApiInit, Init, BlobInit, BlobsVerified, RegistryBacked
<1>4. SlotsHold
  BY DEF ApiInit, Idle, SlotsHold, SlotHolds
<1> QED
  BY <1>1, <1>2, <1>3, <1>4 DEF ApiInv

(* ApiInvariant: it holds in every reachable state. *)
LEMMA ApiInvariant == ApiSpec => []ApiInv
  BY ApiInvInit, ApiInvStep, PTL DEF ApiSpec

-----------------------------------------------------------------------------
(***************************************************************************)
(* For any number of uploads in flight, a registered chunk is stored,      *)
(* under the address of its bytes and with the registered size.            *)
(***************************************************************************)
THEOREM RegistryIsBacked == ApiSpec => []RegistryBacked
<1>1. ApiInv => RegistryBacked
  BY DEF ApiInv
<1> QED
  BY <1>1, ApiInvariant, PTL

(***************************************************************************)
(* Nothing another request does between the two halves of put_chunk makes  *)
(* the second half fail.                                                   *)
(***************************************************************************)
THEOREM UploadsComplete == ApiSpec => []UploadCompletes
<1>1. ApiInv => UploadCompletes
  <2> SUFFICES ASSUME ApiInv, NEW r \in Slot, slot[r].phase = "stored"
               PROVE  register_chunk_code(slot[r].req.chunk_id,
                                          Len(slot[r].req.body)) = "Ok"
    BY DEF UploadCompletes
  <2> DEFINE q == slot[r].req
  <2>1. /\ q \in ClientRequest /\ q.op = "put_chunk" /\ ~Malformed(q)
        /\ blobs[q.chunk_id] = q.body
    BY DEF ApiInv, ApiTypeOK, Accepts, SlotsHold, SlotHolds
  <2>2. q.chunk_id \in ChunkId /\ q.chunk_id \in WellFormed
    BY <2>1, RequestFields DEF Malformed
  <2> QED
    BY <2>1, <2>2 DEF register_chunk_code, ApiInv, RegistryBacked
<1> QED
  BY <1>1, ApiInvariant, PTL

(***************************************************************************)
(* What a success reply told a client is still so when the client acts on  *)
(* it, whatever other requests do meanwhile.                               *)
(***************************************************************************)
THEOREM RepliesRemainTrue == ApiSpec => []RepliesStayTrue
<1>1. ApiInv => RepliesStayTrue
  <2> SUFFICES ASSUME ApiInv, NEW r \in Slot, slot[r].phase = "replied",
                      slot[r].reply.shape = "success"
               PROVE  LET op == slot[r].req.op
                          val == slot[r].reply.val
                      IN  CASE op = "put_chunk" ->
                                 chunks[val.chunk_id] = val.size
                                   /\ blobs[val.chunk_id] # None
                            [] op \in {"put_manifest", "get_manifest"} ->
                                 manifests[val.manifest_id] = val
                            [] op \in {"create_version", "commit_version"} ->
                                 \/ versions[val.version_id] = val
                                 \/ /\ op = "create_version"
                                    /\ versions[val.version_id]
                                         = [val EXCEPT !.state = "Committed"]
                            [] op \in {"create_file", "stat_file"} ->
                                 /\ files[val.file_id] # None
                                 /\ val.current_version_id # None =>
                                      IsCommitted(val.current_version_id)
                            [] OTHER -> TRUE
    BY DEF RepliesStayTrue
  <2> DEFINE q == slot[r].req
             val == slot[r].reply.val
  <2>1. q \in ClientRequest /\ Told(q, val) /\ TypeOK
    BY DEF ApiInv, ApiTypeOK, SlotsHold, SlotHolds, ReplyHolds, PlainText, Closed
  <2> HIDE DEF q, val
  <2>2. q.op = "put_chunk" =>
          chunks[val.chunk_id] = val.size /\ blobs[val.chunk_id] # None
    BY <2>1, RequestFields, BytesFit DEF Told
  <2>3. q.op \in {"put_manifest", "get_manifest"} => manifests[val.manifest_id] = val
    BY <2>1, RequestFields DEF Told, TypeOK
  <2>4. q.op = "commit_version" => versions[val.version_id] = val
    BY <2>1, RequestFields DEF Told, TypeOK, IsCommitted
  <2>5. q.op = "create_version" =>
          versions[val.version_id] \in {val, [val EXCEPT !.state = "Committed"]}
    BY <2>1 DEF Told, VersionTold
  <2>6. q.op \in {"create_file", "stat_file"} =>
          /\ files[val.file_id] # None
          /\ val.current_version_id # None => IsCommitted(val.current_version_id)
    BY <2>1 DEF Told, FileTold
  <2> QED
    BY <2>2, <2>3, <2>4, <2>5, <2>6 DEF q, val
<1> QED
  BY <1>1, ApiInvariant, PTL

-----------------------------------------------------------------------------
(* RangeWidth: the cast to u32 keeps a length that fits. *)
LEMMA RangeWidth ==
  ASSUME NEW start \in Nat, NEW end \in Nat, start <= end, end - start < U32Max
  PROVE  RangeLength(start, end) = end - start + 1
<1>1. \A a, m \in Nat : a < m => a % m = a
  OBVIOUS
<1> QED
  BY <1>1, WidthAssumption DEF RangeLength

(* RangeSuccess: what a success of get_chunk with a range consists of. *)
LEMMA RangeSuccess ==
  ASSUME NEW id, NEW range, NEW size, NEW reply, reply = RangeReply(id, range, size),
         reply.shape = "success"
  PROVE  /\ RangeParses(range, size)
         /\ reply.val.start = range.start /\ reply.val.end = RangeEnd(range, size)
         /\ reply.val.size = size
         /\ LET found == get_range(id, reply.val.start,
                                   RangeLength(reply.val.start, reply.val.end))
            IN  found.code = "Ok" /\ reply.val.body = found.body
<1> DEFINE end == RangeEnd(range, size)
           found == get_range(id, range.start, RangeLength(range.start, end))
           val == [start |-> range.start, end |-> end, size |-> size,
                   body |-> found.body]
<1> HIDE DEF val
<1>1. RangeParses(range, size) /\ found.code = "Ok" /\ reply = Answer("Ok", val)
  BY DEF RangeReply, Answer, Closed, val
<1>2. reply.val = val
  BY <1>1 DEF Answer
<1> QED
  BY <1>1, <1>2 DEF val

(* SliceLength: a slice inside the bytes has the length asked for. *)
LEMMA SliceLength ==
  ASSUME NEW bytes \in Seq(0 .. ByteMax), NEW offset \in Nat, NEW length \in Nat,
         offset + length <= Len(bytes)
  PROVE  Len(Slice(bytes, offset, length)) = length
  BY DEF Slice

(***************************************************************************)
(* A 206 reply carries the bytes its Content-Range names, and the size of  *)
(* the stored chunk, although it was read in an earlier critical section.  *)
(***************************************************************************)
THEOREM RangesExact == ApiSpec => []RangeRepliesExact
<1>1. ApiInv => RangeRepliesExact
  <2> SUFFICES ASSUME ApiInv, NEW r \in Slot, RangeReplied(r),
                      slot[r].reply.val.end - slot[r].reply.val.start < U32Max
               PROVE  /\ ExactRange(r)
                      /\ slot[r].reply.val.size = Len(blobs[slot[r].req.chunk_id])
    BY DEF RangeRepliesExact
  <2> DEFINE q == slot[r].req
             val == slot[r].reply.val
             body == blobs[q.chunk_id]
             found == get_range(q.chunk_id, val.start, RangeLength(val.start, val.end))
  <2>1. /\ q \in ClientRequest /\ q.op = "get_chunk" /\ q.range.kind = "bytes"
        /\ Told(q, val)
    BY DEF ApiInv, ApiTypeOK, SlotsHold, SlotHolds, ReplyHolds, PlainText, Closed,
           RangeReplied
  <2>2. q.chunk_id \in ChunkId /\ q.range \in RangeHeader
    BY <2>1, RequestFields
  <2>3. /\ body # None
        /\ RangeReply(q.chunk_id, q.range, Len(body)).shape = "success"
        /\ RangeReply(q.chunk_id, q.range, Len(body)).val = val
    BY <2>1 DEF Told, Read
  <2>4. body \in Seq(0 .. ByteMax) /\ Len(body) \in U64
    BY <2>2, <2>3, BytesFit DEF ApiInv, ApiTypeOK
  <2>5. /\ val.start = q.range.start /\ val.end = RangeEnd(q.range, Len(body))
        /\ val.size = Len(body) /\ val.body = found.body /\ found.code = "Ok"
        /\ RangeParses(q.range, Len(body))
    <3>1. PICK reply : reply = RangeReply(q.chunk_id, q.range, Len(body))
      OBVIOUS
    <3>2. reply.shape = "success" /\ reply.val = val
      BY <2>3, <3>1
    <3> HIDE DEF q, val, body
    <3> QED
      BY <3>1, <3>2, RangeSuccess
  <2>6. val.start \in Nat /\ val.end \in Nat /\ val.start <= val.end
    <3>1. q.range.start \in Nat /\ (q.range.end # None => q.range.end \in Nat)
      BY <2>1, <2>2 DEF RangeHeader, U64
    <3>2. Len(body) \in Nat
      BY <2>4
    <3>3. RangeEnd(q.range, Len(body)) \in Nat
      BY <3>1, <3>2 DEF RangeEnd
    <3>4. q.range.start <= RangeEnd(q.range, Len(body))
      BY <2>5 DEF RangeParses
    <3> QED
      BY <2>5, <3>1, <3>3, <3>4
  <2> HIDE DEF val, body, q
  <2>7. RangeLength(val.start, val.end) = val.end - val.start + 1
    BY <2>6, RangeWidth DEF val
  <2>8. /\ val.start + (val.end - val.start + 1) <= Len(body)
        /\ val.body = Slice(body, val.start, val.end - val.start + 1)
    BY <2>3, <2>4, <2>5, <2>6, <2>7, U64MaxAssumption
    DEF get_range, Missed, Found, body, U64
  <2>9. Len(val.body) = val.end - val.start + 1
    BY <2>4, <2>6, <2>8, SliceLength
  <2> QED
    BY <2>5, <2>8, <2>9 DEF ExactRange, val, body, q
<1> QED
  BY <1>1, ApiInvariant, PTL

(***************************************************************************)
(* Every segment of every Committed version can be read, whatever was      *)
(* uploaded, registered and committed in whatever order.                   *)
(***************************************************************************)
THEOREM CommittedReadable == ApiSpec => []CommittedServable
<1>1. ApiInv => CommittedServable
  <2> SUFFICES ASSUME ApiInv, NEW v \in VersionId, IsCommitted(v)
               PROVE  LET m == manifests[versions[v].manifest_id]
                      IN  \A k \in Entries(m) :
                            LET e == m.entries[k]
                                last == e.chunk_offset + e.length - 1
                                range == [kind |-> "bytes",
                                          start |-> e.chunk_offset, end |-> last]
                                body == blobs[e.chunk_id]
                                reply == RangeReply(e.chunk_id, range, Len(body))
                            IN  e.length <= U32Max =>
                                  /\ body # None
                                  /\ reply.code = "Ok"
                                  /\ reply.val.body
                                       = Slice(body, e.chunk_offset, e.length)
    BY DEF CommittedServable
  <2> DEFINE m == manifests[versions[v].manifest_id]
  <2>1. m \in Manifest /\ ValidManifest(m)
        /\ \A j \in DOMAIN m.chunks : Registered(m.chunks[j])
    <3>1. versions[v].manifest_id \in ManifestId /\ m # None
      BY DEF ApiInv, StoreInv, VersionsResolve, IsCommitted, Existing, TypeOK, Version
    <3> QED
      BY <3>1 DEF ApiInv, StoreInv, TypeOK, ManifestsResolve, ManifestResolves
  <2> HIDE DEF m
  <2> SUFFICES ASSUME NEW k \in Entries(m), m.entries[k].length <= U32Max
               PROVE  LET e == m.entries[k]
                          last == e.chunk_offset + e.length - 1
                          range == [kind |-> "bytes",
                                    start |-> e.chunk_offset, end |-> last]
                          body == blobs[e.chunk_id]
                          reply == RangeReply(e.chunk_id, range, Len(body))
                      IN  /\ body # None
                          /\ reply.code = "Ok"
                          /\ reply.val.body = Slice(body, e.chunk_offset, e.length)
    BY DEF m
  <2> DEFINE e == m.entries[k]
             last == e.chunk_offset + e.length - 1
             range == [kind |-> "bytes", start |-> e.chunk_offset, end |-> last]
             body == blobs[e.chunk_id]
  <2>2. e \in ManifestEntry
    BY <2>1 DEF Manifest, Entries
  <2>3. /\ HasChunk(m, e.chunk_id) /\ e.length # 0
        /\ Fits(e.chunk_offset, e.length)
        /\ e.chunk_offset + e.length <= ChunkSize(m, e.chunk_id)
    BY <2>1 DEF ValidManifest, inv07_lengths_nonzero, inv08_chunk_offsets_within_chunk
  <2>4. chunks[e.chunk_id] = ChunkSize(m, e.chunk_id)
    <3>1. PICK j \in DOMAIN m.chunks : /\ m.chunks[j].chunk_id = e.chunk_id
                                       /\ ChunkSize(m, e.chunk_id) = m.chunks[j].size
      BY <2>1, <2>3, FirstChunk
    <3> QED
      BY <2>1, <3>1 DEF Registered
  <2> HIDE DEF e
  <2>5. /\ e.chunk_id \in ChunkId
        /\ e.chunk_offset \in Nat /\ e.length \in Nat \ {0}
        /\ e.chunk_offset + e.length <= U64Max
    BY <2>2, <2>3, U64MaxAssumption DEF ManifestEntry, U64, Fits
  <2>6. chunks[e.chunk_id] # None
    <3>1. PICK j \in DOMAIN m.chunks : m.chunks[j].chunk_id = e.chunk_id
      BY <2>3 DEF HasChunk
    <3>2. m.chunks \in Seq(Chunk)
      BY <2>1 DEF Manifest
    <3>3. m.chunks[j] \in Chunk
      BY <3>1, <3>2
    <3>4. m.chunks[j].size \in U64
      BY <3>3 DEF Chunk
    <3> QED
      BY <2>1, <3>1, <3>4, NoneAssumption DEF Registered
  <2>7. /\ body # None /\ verify(e.chunk_id, body)
        /\ e.chunk_offset + e.length <= Len(body)
    BY <2>3, <2>4, <2>5, <2>6 DEF ApiInv, RegistryBacked
  <2>8. last \in U64 /\ last # None /\ e.chunk_offset <= last
    <3>1. last \in U64 /\ e.chunk_offset <= last
      BY <2>5, U64MaxAssumption DEF U64
    <3> QED
      BY <3>1, NoneAssumption
  <2>9. RangeLength(e.chunk_offset, last) = e.length
    <3>1. e.length <= U32Max
      BY DEF e
    <3>2. last \in Nat /\ last - e.chunk_offset < U32Max
      BY <2>5, <3>1, WidthAssumption
    <3> QED
      BY <2>5, <2>8, <3>2, RangeWidth
  <2>10. get_range(e.chunk_id, e.chunk_offset, e.length)
           = Found(Slice(body, e.chunk_offset, e.length))
    BY <2>5, <2>7, U64MaxAssumption, BytesFit DEF get_range, ApiInv, ApiTypeOK
  <2>11. RangeEnd(range, Len(body)) = last /\ RangeParses(range, Len(body))
    BY <2>8 DEF RangeEnd, RangeParses
  <2>12. last - e.chunk_offset # U64Max
    BY <2>5, U64MaxAssumption
  <2>13. RangeReply(e.chunk_id, range, Len(body))
           = Answer("Ok", [start |-> e.chunk_offset, end |-> last, size |-> Len(body),
                           body |-> Slice(body, e.chunk_offset, e.length)])
    BY <2>9, <2>10, <2>11, <2>12 DEF RangeReply, Found
  <2> QED
    BY <2>7, <2>13 DEF Answer, e
<1> QED
  BY <1>1, ApiInvariant, PTL
=============================================================================
