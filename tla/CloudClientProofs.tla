-------------------------- MODULE CloudClientProofs --------------------------
(***************************************************************************)
(* Machine-checked proofs about CloudClient: what a retry can do, for any  *)
(* number of callers, attempts and failures.                               *)
(***************************************************************************)
EXTENDS CloudClient, CloudApiProofs

USE NoneAssumption

(***************************************************************************)
(* The inductive invariant.  A waiting caller's slot carries an attempt of *)
(* its call.  All attempts of a caller carry one request, which is the one *)
(* the caller would send again.  And what the first success said is so, of *)
(* that request, for as long as an attempt of it may still be served: Told *)
(* of CloudApiProofs, which no step undoes.                                *)
(***************************************************************************)
Pending(p) == caller[p].phase \in {"waiting", "failed"}

CallerOK(p) ==
  /\ DOMAIN caller[p] = {"phase", "req", "slot", "effect"}
  /\ caller[p].phase \in {"free", "waiting", "failed"}
  /\ Pending(p) => /\ caller[p].req \in CallRequest
                   /\ caller[p].effect # None =>
                        Told(caller[p].req, caller[p].effect)
  /\ caller[p].phase = "waiting" => /\ caller[p].slot \in Slot
                                    /\ attempt[caller[p].slot] = p

AttemptOK(r) ==
  attempt[r] # None =>
    LET p == attempt[r]
    IN  /\ p \in Caller
        /\ slot[r].phase # "idle"
        /\ Pending(p) => slot[r].req = caller[p].req
        /\ caller[p].effect # None => Told(slot[r].req, caller[p].effect)
        /\ \A s \in Slot : attempt[s] = p => slot[s].req = slot[r].req

CallsHold ==
  /\ DOMAIN caller = Caller
  /\ DOMAIN attempt = Slot
  /\ \A p \in Caller : CallerOK(p)
  /\ \A r \in Slot : AttemptOK(r)

ClientInv == ApiInv /\ CallsHold

-----------------------------------------------------------------------------
(***************************************************************************)
(* A request whose answer is known to hold is answered the same way again. *)
(***************************************************************************)
(* A step of the exchange in r that serves, again, a call that told val. *)
Repeats(r, op, val) ==
  /\ UNCHANGED <<store, blobs>>
  /\ Decides(r) => /\ slot'[r].reply.shape = "success"
                   /\ SameThing(op, val, slot'[r].reply.val)

(* ListingComplete: list_children returns every file of the directory: as  *)
(* many different ones as there are.                                       *)
LEMMA ListingComplete ==
  ASSUME NEW d, NEW s \in Listings(d), NEW f \in Children(d)
  PROVE  \E k \in DOMAIN s : s[k] = f
<1> DEFINE C == Children(d)
           n == Cardinality(C)
<1>1. IsFiniteSet(C)
  BY FS_Subset, FileIdAssumption DEF Children
<1>2. n \in Nat
  BY <1>1, FS_CardinalityType
<1>3. s \in [1 .. n -> C] /\ \A i, j \in DOMAIN s : i < j => s[i] # s[j]
  BY DEF Listings
<1>4. IsFiniteSet(1 .. n) /\ Cardinality(1 .. n) = n
  BY <1>2, FS_Interval
<1> HIDE DEF n, C
<1>5. s \in Injection(1 .. n, C)
  <2>1. \A i, j \in 1 .. n : s[i] = s[j] => i = j
    BY <1>2, <1>3
  <2> QED
    BY <1>3, <2>1 DEF Injection, IsInjective
<1>6. s \in Surjection(1 .. n, C)
  BY <1>1, <1>4, <1>5, FS_Injection DEF n
<1> QED
  BY <1>3, <1>6 DEF Surjection, C

(* RepliesAgain: a reply that agrees, and no change, is a repetition. *)
LEMMA RepliesAgain ==
  ASSUME ApiTypeOK, NEW r \in Slot, NEW op, NEW val, NEW new,
         UNCHANGED <<store, blobs>>, Reply(r, Answer("Ok", new)),
         SameThing(op, val, new)
  PROVE  Repeats(r, op, val)
<1>1. slot'[r].reply = Answer("Ok", new)
  BY DEF Reply, ApiTypeOK
<1> QED
  BY <1>1 DEF Answer, Repeats

(***************************************************************************)
(* The handlers that are one call of the metadata store.                   *)
(***************************************************************************)
LEMMA MetadataAgain ==
  ASSUME ApiInv, NEW r \in Slot, MetadataCall(r),
         NEW q \in ClientRequest, q = slot[r].req, NEW val, Told(q, val)
  PROVE  Repeats(r, q.op, val)
<1>1. /\ ApiTypeOK /\ TypeOK /\ StoreInv /\ RetriesSucceed
      /\ UNCHANGED blobs
      /\ Reply(r, Answer(resp'.code, resp'.val))
  BY InvRetries DEF ApiInv, ApiTypeOK, MetadataCall
<1>2. SUFFICES ASSUME NEW op, op = q.op
               PROVE  /\ UNCHANGED store /\ resp'.code = "Ok"
                      /\ SameThing(op, val, resp'.val)
  <2>1. /\ UNCHANGED store /\ resp'.code = "Ok"
        /\ SameThing(q.op, val, resp'.val)
    BY <1>2
  <2> QED
    BY <1>1, <2>1, RepliesAgain
<1>3. CASE q.op = "create_file"
  <2>1. create_file(q.parent_id, q.name, q.key) /\ q.key \in IdempotencyKey
    BY <1>3, RequestFields DEF MetadataCall, Accepted, Accepts
  <2>2. /\ q.name \notin IllegalName /\ val.file_id \in FileId
        /\ file_idempotency[q.key] = val.file_id
        /\ files[val.file_id] # None
    BY <1>3 DEF Told, FileTold
  <2>3. /\ Ok("create_file", files[val.file_id]) /\ UNCHANGED store
    BY <2>1, <2>2 DEF create_file
  <2> QED
    BY <1>1, <1>2, <1>3, <2>2, <2>3 DEF Ok, SameThing, TypeOK
<1>4. CASE q.op = "stat_file"
  <2>1. get_file(q.file_id)
    BY <1>4 DEF MetadataCall, Accepted, Accepts
  <2>2. val.file_id = q.file_id /\ q.file_id \in FileId /\ files[q.file_id] # None
    BY <1>4 DEF Told, FileTold
  <2> QED
    BY <1>1, <1>2, <1>4, <2>1, <2>2 DEF get_file, Ok, SameThing, TypeOK
<1>5. CASE q.op = "list_children"
  <2>1. list_children(q.dir_id)
    BY <1>5 DEF MetadataCall, Accepted, Accepts
  <2>2. PICK s \in Listings(q.dir_id) :
          Ok("list_children", [files |-> [k \in DOMAIN s |-> files[s[k]]]])
    BY <2>1 DEF list_children
  <2>3. ASSUME NEW k \in DOMAIN val.files
        PROVE  \E j \in DOMAIN resp'.val.files :
                 val.files[k].file_id = resp'.val.files[j].file_id
    <3> DEFINE f == val.files[k].file_id
    <3>1. f \in FileId /\ f \in Children(q.dir_id)
      BY <1>5 DEF Told, ListingTold
    <3>2. PICK j \in DOMAIN s : s[j] = f
      BY <3>1, ListingComplete
    <3>3. files[f].file_id = f
      BY <1>1, <3>1 DEF Children, TypeOK
    <3> HIDE DEF f
    <3> QED
      BY <2>2, <3>2, <3>3 DEF Ok, f
  <2> QED
    BY <1>2, <1>5, <2>1, <2>2, <2>3 DEF list_children, Ok, SameThing
<1>6. CASE q.op = "create_version"
  <2>1. create_version(q.file_id, q.version_id, q.parent_version_id, q.manifest_id)
        /\ q.version_id \in VersionId
    BY <1>6, RequestFields DEF MetadataCall, Accepted, Accepts
  <2> DEFINE w == versions[q.version_id]
  <2>2. /\ val \in Version /\ val.file_id = q.file_id
        /\ val.parent_version_id = q.parent_version_id
        /\ val.manifest_id = q.manifest_id
        /\ w \in {val, [val EXCEPT !.state = "Committed"]}
    BY <1>6 DEF Told, VersionTold
  <2>3. /\ w \in Version /\ w.file_id = q.file_id
        /\ w.parent_version_id = q.parent_version_id
        /\ w.manifest_id = q.manifest_id
        /\ [val EXCEPT !.state = w.state] = w
    BY <2>2 DEF Version, VersionState
  <2>4. w # None /\ q.version_id \in Existing
    BY <2>1, <2>3, NoneAssumption DEF Existing
  <2>5. create_version_code(q.file_id, q.version_id, q.parent_version_id,
                            q.manifest_id) = "Ok"
    BY <1>1, <2>3, <2>4 DEF RetriesSucceed
  <2>6. Ok("create_version", w) /\ UNCHANGED store
    BY <2>1, <2>4, <2>5 DEF create_version
  <2> QED
    BY <1>2, <1>6, <2>3, <2>6 DEF Ok, SameThing
<1>7. CASE q.op = "commit_version"
  <2>1. commit_version(q.version_id) /\ q.version_id \in VersionId
    BY <1>7, RequestFields DEF MetadataCall, Accepted, Accepts
  <2>2. versions[q.version_id] = val /\ IsCommitted(q.version_id)
    BY <1>7 DEF Told
  <2>3. Ok("commit_version", val) /\ UNCHANGED store
    BY <2>1, <2>2 DEF commit_version, commit_version_code, IsCommitted
  <2> QED
    BY <1>2, <1>7, <2>3 DEF Ok, SameThing
<1>8. CASE q.op = "put_manifest"
  <2>1. put_manifest(q.manifest) /\ q.manifest \in Manifest
    BY <1>8, RequestFields, InputAssumption DEF MetadataCall, Accepted, Accepts
  <2> DEFINE i == q.manifest.manifest_id
  <2>2. i \in ManifestId /\ val = q.manifest /\ manifests[i] = val /\ val # None
    BY <1>8, <2>1, NoneAssumption DEF Told, Manifest
  <2>3. put_manifest_code(val) = "Ok"
    BY <1>1, <2>2 DEF RetriesSucceed
  <2>4. InsertManifest(val)
    BY <2>1, <2>2, <2>3 DEF put_manifest
  <2>5. manifests' = manifests
    BY <1>1, <2>2, <2>4 DEF InsertManifest, TypeOK
  <2> QED
    BY <1>2, <1>8, <2>4, <2>5 DEF InsertManifest, Ok, SameThing, store
<1>9. CASE q.op = "get_manifest"
  <2>1. get_manifest(q.manifest_id)
    BY <1>9 DEF MetadataCall, Accepted, Accepts
  <2>2. manifests[q.manifest_id] = val /\ val # None
    BY <1>9 DEF Told
  <2> QED
    BY <1>2, <1>9, <2>1, <2>2 DEF get_manifest, Ok, SameThing
<1> QED
  BY <1>3, <1>4, <1>5, <1>6, <1>7, <1>8, <1>9 DEF MetadataCall, Accepted, Accepts

(***************************************************************************)
(* Every step that serves such a request leaves both stores as they are,   *)
(* and the answer it decides, if it decides one, agrees.                   *)
(***************************************************************************)
LEMMA ServedAgain ==
  ASSUME ApiInv, NEW r \in Slot, Serve(r), NEW q, q = slot[r].req,
         NEW val, val # None, Told(q, val)
  PROVE  Repeats(r, q.op, val)
<1>1. /\ ApiTypeOK /\ q \in ClientRequest
      /\ ~Refused(q) /\ ~Malformed(q)
  BY DEF ApiInv, ApiTypeOK, Serve, Reject, Stateless, slow, MetadataCall, PutBlob,
         RegisterBlob, HeadBlob, ReadBlob, Accepted, Told
<1>2. CASE Reject(r)
  BY <1>1, <1>2 DEF Reject
<1>3. CASE Stateless(r) \/ slow(r)
  <2>1. q.op \in {"health", "no_route", "slow"}
    BY <1>3
    DEF Stateless, slow, Accepted, Accepts, ApiInv, SlotsHold, SlotHolds
  <2> QED
    BY <2>1 DEF Told
<1>4. CASE MetadataCall(r)
  BY <1>1, <1>4, MetadataAgain
<1>5. CASE PutBlob(r)
  <2>1. q.op = "put_chunk" /\ q.chunk_id \in ChunkId /\ q.body \in Bytes
        /\ q.body # None
    BY <1>1, <1>5, RequestFields, BytesFit DEF PutBlob, Accepted, Accepts
  <2>2. blobs[q.chunk_id] = q.body /\ verify(q.chunk_id, q.body)
    BY <2>1 DEF Told, ApiInv, BlobsVerified
  <2>3. put_code(q.chunk_id, q.body) = "Ok"
    BY <2>2 DEF put_code
  <2>4. blobs' = blobs
    BY <1>1, <1>5, <2>1, <2>2, <2>3 DEF PutBlob, put, ApiTypeOK
  <2>5. slot'[r].phase = "stored" /\ UNCHANGED store
    BY <1>1, <1>5, <2>3 DEF PutBlob, ApiTypeOK, vars, store
  <2> QED
    BY <2>4, <2>5 DEF Repeats, Decides
<1>6. CASE RegisterBlob(r)
  <2>1. q.op = "put_chunk" /\ q.chunk_id \in ChunkId
    BY <1>1, <1>6, RequestFields DEF RegisterBlob, ApiTypeOK, Accepts
  <2>2. /\ val = [chunk_id |-> q.chunk_id, size |-> Len(q.body)]
        /\ chunks[q.chunk_id] = Len(q.body)
        /\ q.chunk_id \in WellFormed
    BY <1>1, <2>1 DEF Told, Malformed
  <2>3. /\ InsertChunk(q.chunk_id, Len(q.body)) /\ UNCHANGED blobs
        /\ Reply(r, Answer(resp'.code, resp'.val))
    BY <1>6, <2>2 DEF RegisterBlob, register_chunk, register_chunk_code
  <2>4. chunks' = chunks
    BY <1>1, <2>1, <2>2, <2>3 DEF InsertChunk, ApiTypeOK, TypeOK
  <2>5. /\ UNCHANGED <<store, blobs>> /\ Reply(r, Answer("Ok", val))
    BY <2>2, <2>3, <2>4 DEF InsertChunk, Ok, store
  <2>6. SameThing(q.op, val, val)
    BY <2>1 DEF SameThing
  <2> QED
    BY <1>1, <2>5, <2>6, RepliesAgain
<1>7. CASE HeadBlob(r)
  <2>1. q.op = "get_chunk"
    BY <1>7 DEF HeadBlob, Accepted, Accepts
  <2>2. head(q.chunk_id).code = "Ok"
    BY <2>1 DEF Told, head, Found
  <2> QED
    BY <1>1, <1>7, <2>2 DEF HeadBlob, Repeats, Decides, ApiTypeOK, vars, store
<1>8. CASE ReadBlob(r)
  <2>1. q.op = "get_chunk" /\ slot[r].size = Len(blobs[q.chunk_id])
    BY <1>1, <1>8 DEF ReadBlob, ApiTypeOK, Accepts, ApiInv, SlotsHold, SlotHolds
  <2>2. /\ Reply(r, Read(q, Len(blobs[q.chunk_id])))
        /\ UNCHANGED <<vars, blobs>>
    BY <1>8, <2>1 DEF ReadBlob, Read
  <2>3. slot'[r].reply = Read(q, Len(blobs[q.chunk_id]))
    BY <1>1, <2>2 DEF Reply, ApiTypeOK
  <2>4. slot'[r].reply.shape = "success" /\ slot'[r].reply.val = val
    BY <2>1, <2>3 DEF Told
  <2> QED
    BY <2>1, <2>2, <2>4 DEF Repeats, SameThing, vars, store
<1> QED
  BY <1>2, <1>3, <1>4, <1>5, <1>6, <1>7, <1>8 DEF Serve

-----------------------------------------------------------------------------
(***************************************************************************)
(* The client reaches the server only by the requests it sends.            *)
(***************************************************************************)
LEMMA ClientStep == ClientInv /\ [ClientNext]_clientVars => [ApiNext]_apiVars
<1> SUFFICES ASSUME ClientInv, [ClientNext]_clientVars PROVE [ApiNext]_apiVars
  OBVIOUS
<1>1. CASE UNCHANGED clientVars
  BY <1>1 DEF clientVars
<1>2. ASSUME NEW p \in Caller, NEW r \in Slot,
             (\E q \in CallRequest : Call(p, r, q)) \/ Retry(p, r)
      PROVE  \E q \in ClientRequest : Send(r, q)
  BY <1>2, CallAssumption DEF Call, Retry, ClientInv, CallsHold, CallerOK, Pending
<1>3. ASSUME NEW p \in Caller, Return(p)
      PROVE  caller[p].slot \in Slot /\ Finish(caller[p].slot)
  BY <1>3 DEF Return, ClientInv, CallsHold, CallerOK
<1>4. ASSUME NEW p \in Caller, Fail(p) PROVE UNCHANGED apiVars
  BY <1>4 DEF Fail
<1>5. ASSUME NEW r \in Slot, ServeAttempt(r) \/ Discard(r)
      PROVE  Serve(r) \/ Abandon(r) \/ Finish(r)
  BY <1>5 DEF ServeAttempt, Discard
<1> QED
  BY <1>1, <1>2, <1>3, <1>4, <1>5 DEF ClientNext, ApiNext

(* What a reply told stays told. *)
ToldKept == \A q \in ClientRequest : \A val : Told(q, val) => Told(q, val)'

(* ApiKeeps: every step of the server keeps its invariant and what it told.*)
LEMMA ApiKeeps ==
  ASSUME ApiInv, [ApiNext]_apiVars
  PROVE  ApiInv' /\ ToldKept
<1>1. TypeOK /\ TypeOK' /\ ApiInv' /\ BlobsKept
  BY ApiInvStep DEF ApiInv, ApiTypeOK
<1>2. Kept
  BY StoreStep, StoreKeeps DEF ApiInv
<1> QED
  BY <1>1, <1>2, ToldStays DEF ToldKept

(* CallerKept: a caller that keeps its request and what it was told is     *)
(* still in order.                                                         *)
LEMMA CallerKept ==
  ASSUME ClientInv, ToldKept, NEW p \in Caller,
         DOMAIN caller'[p] = {"phase", "req", "slot", "effect"},
         caller'[p].phase \in {"free", "waiting", "failed"},
         Pending(p)' => /\ Pending(p)
                        /\ caller'[p].req = caller[p].req
                        /\ caller'[p].effect = caller[p].effect,
         caller'[p].phase = "waiting" => /\ caller'[p].slot \in Slot
                                         /\ attempt'[caller'[p].slot] = p
  PROVE  CallerOK(p)'
<1>1. CASE Pending(p)' /\ caller'[p].effect # None
  <2>1. PICK q, val : q = caller[p].req /\ val = caller[p].effect
    OBVIOUS
  <2>2. q \in CallRequest /\ Told(q, val)
    BY <1>1, <2>1 DEF ClientInv, CallsHold, CallerOK
  <2>3. Told(q, val)' /\ q = caller'[p].req /\ val = caller'[p].effect
    BY <1>1, <2>1, <2>2, CallAssumption DEF ToldKept
  <2> QED
    BY <2>2, <2>3 DEF CallerOK
<1>2. CASE ~(Pending(p)' /\ caller'[p].effect # None)
  BY <1>2 DEF CallerOK, ClientInv, CallsHold
<1> QED
  BY <1>1, <1>2

(* AttemptKept: so is an attempt that goes on, with the others of its call.*)
LEMMA AttemptKept ==
  ASSUME ClientInv, ToldKept, NEW r \in Slot,
         attempt'[r] # None => attempt'[r] = attempt[r],
         \A s \in Slot :
           (attempt'[s] # None /\ attempt'[s] = attempt'[r]) =>
             /\ attempt[s] = attempt[r]
             /\ slot'[s].phase # "idle" /\ slot'[s].req = slot[s].req,
         Pending(attempt[r])' => /\ Pending(attempt[r])
                                 /\ caller'[attempt[r]].req = caller[attempt[r]].req,
         caller'[attempt[r]].effect \in {caller[attempt[r]].effect, None}
  PROVE  AttemptOK(r)'
<1> SUFFICES ASSUME attempt'[r] # None PROVE AttemptOK(r)'
  BY DEF AttemptOK
<1>1. PICK p : p = attempt[r]
  OBVIOUS
<1>2. /\ p # None /\ p = attempt'[r] /\ p \in Caller
      /\ Pending(p) => slot[r].req = caller[p].req
      /\ caller[p].effect # None => Told(slot[r].req, caller[p].effect)
      /\ \A s \in Slot : attempt[s] = p => slot[s].req = slot[r].req
      /\ slot[r].phase # "idle"
  BY <1>1 DEF ClientInv, CallsHold, AttemptOK
<1>3. slot'[r].phase # "idle" /\ slot'[r].req = slot[r].req
  BY <1>2
<1>4. slot[r].req \in ClientRequest
  BY <1>2 DEF ClientInv, CallsHold, ApiInv, ApiTypeOK
<1>5. PICK q, val : q = slot[r].req /\ val = caller[p].effect
  OBVIOUS
<1>6. caller'[p].effect # None =>
        Told(q, val)' /\ q = slot'[r].req /\ val = caller'[p].effect
  BY <1>1, <1>2, <1>3, <1>4, <1>5 DEF ToldKept
<1>7. \A s \in Slot : attempt'[s] = p => slot'[s].req = slot'[r].req
  BY <1>1, <1>2, <1>3
<1>8. Pending(p)' => slot'[r].req = caller'[p].req
  BY <1>1, <1>2, <1>3
<1>9. caller'[p].effect # None => Told(slot[r].req, caller[p].effect)'
  BY <1>6
<1> QED
  BY <1>2, <1>3, <1>7, <1>8, <1>9 DEF AttemptOK

(***************************************************************************)
(* One lemma per action of the client.                                     *)
(***************************************************************************)
(* CallHolds: a new call starts with one attempt and nothing told. *)
LEMMA CallHolds ==
  ASSUME ClientInv, ToldKept, NEW p \in Caller, NEW r \in Slot,
         NEW q \in CallRequest, Call(p, r, q)
  PROVE  CallsHold'
<1>1. /\ DOMAIN slot = Slot /\ DOMAIN caller = Caller /\ DOMAIN attempt = Slot
      /\ slot[r].phase = "idle"
      /\ slot'[r].phase = "sent" /\ slot'[r].req = q
      /\ \A s \in Slot \ {r} : slot'[s] = slot[s]
  BY DEF ClientInv, CallsHold, ApiInv, ApiTypeOK, Call, Send
<1>2. /\ caller'[p] = [phase |-> "waiting", req |-> q, slot |-> r, effect |-> None]
      /\ \A c \in Caller \ {p} : caller'[c] = caller[c]
      /\ DOMAIN caller' = Caller
  BY <1>1 DEF Call
<1>3. /\ attempt'[r] = p
      /\ \A s \in Slot \ {r} :
           attempt'[s] = IF attempt[s] = p THEN None ELSE attempt[s]
      /\ DOMAIN attempt' = Slot
  BY <1>1 DEF Call
<1>4. ASSUME NEW c \in Caller PROVE CallerOK(c)'
  <2>1. CASE c = p
    BY <1>2, <1>3, <2>1 DEF CallerOK
  <2>2. CASE c # p
    <3>1. CallerOK(c) /\ c # None
      BY CallAssumption DEF ClientInv, CallsHold
    <3>2. caller[c].phase = "waiting" => caller[c].slot # r
      BY <1>1, <3>1 DEF ClientInv, CallsHold, CallerOK, AttemptOK
    <3>3. caller[c].phase = "waiting" => attempt'[caller[c].slot] = c
      BY <1>3, <2>2, <3>1, <3>2 DEF CallerOK
    <3>4. caller'[c] = caller[c]
      BY <1>2, <2>2
    <3> QED
      BY <3>1, <3>3, <3>4, CallerKept DEF CallerOK, Pending
  <2> QED
    BY <2>1, <2>2
<1>5. ASSUME NEW s \in Slot PROVE AttemptOK(s)'
  <2>1. CASE s = r
    <3>1. \A t \in Slot : attempt'[t] = p => t = r
      BY <1>3, CallAssumption
    <3> QED
      BY <1>1, <1>2, <1>3, <2>1, <3>1 DEF AttemptOK
  <2>2. CASE s # r /\ attempt'[s] # None
    <3>1. attempt'[s] = attempt[s] /\ attempt[s] # p /\ attempt[s] \in Caller
      BY <1>3, <2>2 DEF ClientInv, CallsHold, AttemptOK
    <3>2. caller'[attempt[s]] = caller[attempt[s]]
      BY <1>2, <3>1
    <3>3. ASSUME NEW t \in Slot, attempt'[t] # None, attempt'[t] = attempt'[s]
          PROVE  /\ attempt[t] = attempt[s]
                 /\ slot'[t].phase # "idle" /\ slot'[t].req = slot[t].req
      <4>1. t # r
        BY <1>3, <3>1, <3>3
      <4>2. attempt[t] = attempt[s] /\ attempt[t] # None /\ slot'[t] = slot[t]
        BY <1>1, <1>3, <3>1, <3>3, <4>1
      <4> QED
        BY <4>2 DEF ClientInv, CallsHold, AttemptOK
    <3> QED
      BY <3>1, <3>2, <3>3, AttemptKept DEF Pending
  <2>3. CASE attempt'[s] = None
    BY <2>3 DEF AttemptOK
  <2> QED
    BY <2>1, <2>2, <2>3
<1> QED
  BY <1>2, <1>3, <1>4, <1>5 DEF CallsHold

(* RetryHolds: a retry carries the same request as the attempts before it. *)
LEMMA RetryHolds ==
  ASSUME ClientInv, ToldKept, NEW p \in Caller, NEW r \in Slot, Retry(p, r)
  PROVE  CallsHold'
<1>1. /\ DOMAIN slot = Slot /\ DOMAIN caller = Caller /\ DOMAIN attempt = Slot
      /\ slot[r].phase = "idle" /\ attempt[r] = None
      /\ slot'[r].phase = "sent" /\ slot'[r].req = caller[p].req
      /\ \A s \in Slot \ {r} : slot'[s] = slot[s]
  BY DEF ClientInv, CallsHold, ApiInv, ApiTypeOK, Retry, Send, AttemptOK
<1>2. /\ CallerOK(p) /\ Pending(p) /\ p # None
  BY CallAssumption DEF ClientInv, CallsHold, Retry, Pending
<1>3. /\ DOMAIN caller' = Caller
      /\ DOMAIN caller'[p] = {"phase", "req", "slot", "effect"}
      /\ caller'[p].phase = "waiting" /\ caller'[p].slot = r
      /\ caller'[p].req = caller[p].req /\ caller'[p].effect = caller[p].effect
      /\ \A c \in Caller \ {p} : caller'[c] = caller[c]
  BY <1>1, <1>2 DEF Retry, CallerOK
<1>4. /\ DOMAIN attempt' = Slot /\ attempt'[r] = p
      /\ \A s \in Slot \ {r} : attempt'[s] = attempt[s]
  BY <1>1 DEF Retry
<1>5. ASSUME NEW c \in Caller PROVE CallerOK(c)'
  <2>1. CASE c = p
    BY <1>2, <1>3, <1>4, <2>1, CallerKept
  <2>2. CASE c # p
    <3>1. CallerOK(c) /\ c # None /\ caller'[c] = caller[c]
      BY <1>3, <2>2, CallAssumption DEF ClientInv, CallsHold
    <3>2. caller[c].phase = "waiting" => attempt'[caller[c].slot] = c
      BY <1>1, <1>4, <3>1 DEF CallerOK
    <3> QED
      BY <3>1, <3>2, CallerKept DEF CallerOK, Pending
  <2> QED
    BY <2>1, <2>2
<1>6. ASSUME NEW s \in Slot, attempt[s] = p PROVE slot[s].req = caller[p].req
  BY <1>2, <1>6 DEF ClientInv, CallsHold, AttemptOK
<1>7. AttemptOK(r)'
  <2>1. PICK q, val : q = caller[p].req /\ val = caller[p].effect
    OBVIOUS
  <2>2. q \in ClientRequest /\ (val # None => Told(q, val))
    BY <1>2, <2>1, CallAssumption DEF CallerOK
  <2>3. val # None => Told(q, val)'
    BY <2>2 DEF ToldKept
  <2>4. q = slot'[r].req /\ val = caller'[p].effect
    BY <1>1, <1>3, <2>1
  <2>5. \A s \in Slot : attempt'[s] = p => slot'[s].req = slot'[r].req
    BY <1>1, <1>4, <1>6
  <2> QED
    BY <1>1, <1>2, <1>3, <1>4, <2>3, <2>4, <2>5 DEF AttemptOK
<1>8. ASSUME NEW s \in Slot, s # r, attempt[s] # p PROVE AttemptOK(s)'
  <2> SUFFICES ASSUME attempt[s] # None PROVE AttemptOK(s)'
    BY <1>4, <1>8 DEF AttemptOK
  <2>1. attempt'[s] = attempt[s] /\ attempt[s] \in Caller
        /\ caller'[attempt[s]] = caller[attempt[s]]
    BY <1>3, <1>4, <1>8 DEF ClientInv, CallsHold, AttemptOK
  <2>2. ASSUME NEW t \in Slot, attempt'[t] = attempt'[s]
        PROVE  /\ attempt[t] = attempt[s]
               /\ slot'[t].phase # "idle" /\ slot'[t].req = slot[t].req
    BY <1>1, <1>4, <1>8, <2>1, <2>2 DEF ClientInv, CallsHold, AttemptOK
  <2> QED
    BY <2>1, <2>2, AttemptKept DEF Pending
<1>9. ASSUME NEW s \in Slot, s # r, attempt[s] = p PROVE AttemptOK(s)'
  <2>1. AttemptOK(s) /\ slot'[s] = slot[s] /\ attempt'[s] = p
    BY <1>1, <1>4, <1>9 DEF ClientInv, CallsHold
  <2>2. slot'[s].req = slot'[r].req
    BY <1>1, <1>6, <1>9, <2>1
  <2> QED
    BY <1>2, <1>4, <1>7, <1>9, <2>1, <2>2 DEF AttemptOK
<1> QED
  BY <1>3, <1>4, <1>5, <1>7, <1>8, <1>9 DEF CallsHold

(* EndHolds: an exchange ends (Return, Discard), or a connection breaks    *)
(* (Fail): one caller at most stops waiting, and only the ended exchange   *)
(* is no longer an attempt.                                                *)
LEMMA EndHolds ==
  ASSUME ClientInv, ToldKept,
         DOMAIN caller' = Caller, DOMAIN attempt' = Slot,
         \A s \in Slot :
           \/ slot'[s] = slot[s] /\ attempt'[s] = attempt[s]
           \/ /\ attempt'[s] = None
              /\ \A c \in Caller :
                   caller'[c].phase = "waiting" => caller[c].slot # s,
         \A c \in Caller :
           \/ caller'[c] = caller[c]
           \/ /\ DOMAIN caller'[c] = {"phase", "req", "slot", "effect"}
              /\ caller'[c].phase = "failed" /\ Pending(c)
              /\ caller'[c].req = caller[c].req
              /\ caller'[c].effect = caller[c].effect
           \/ /\ DOMAIN caller'[c] = {"phase", "req", "slot", "effect"}
              /\ caller'[c].phase = "free"
              /\ caller'[c].effect \in {caller[c].effect, None}
  PROVE  CallsHold'
<1>1. ASSUME NEW c \in Caller PROVE CallerOK(c)'
  <2>1. CallerOK(c)
    BY DEF ClientInv, CallsHold
  <2>2. CASE caller'[c] = caller[c]
    <3>1. caller[c].phase = "waiting" => attempt'[caller[c].slot] = c
      BY <2>1, <2>2 DEF CallerOK
    <3> QED
      BY <2>1, <2>2, <3>1, CallerKept DEF CallerOK, Pending
  <2>3. CASE caller'[c].phase \in {"failed", "free"}
    BY <2>1, <2>3, CallerKept DEF CallerOK, Pending
  <2> QED
    BY <2>2, <2>3
<1>2. ASSUME NEW s \in Slot PROVE AttemptOK(s)'
  <2> SUFFICES ASSUME attempt'[s] # None PROVE AttemptOK(s)'
    BY DEF AttemptOK
  <2>1. attempt'[s] = attempt[s] /\ attempt[s] \in Caller
    BY DEF ClientInv, CallsHold, AttemptOK
  <2>2. ASSUME NEW t \in Slot, attempt'[t] # None, attempt'[t] = attempt'[s]
        PROVE  /\ attempt[t] = attempt[s]
               /\ slot'[t].phase # "idle" /\ slot'[t].req = slot[t].req
    BY <2>1, <2>2 DEF ClientInv, CallsHold, AttemptOK
  <2>3. /\ Pending(attempt[s])' => /\ Pending(attempt[s])
                                   /\ caller'[attempt[s]].req = caller[attempt[s]].req
        /\ caller'[attempt[s]].effect \in {caller[attempt[s]].effect, None}
    BY <2>1 DEF Pending
  <2> QED
    BY <2>1, <2>2, <2>3, AttemptKept
<1> QED
  BY <1>1, <1>2 DEF CallsHold

(* FailHolds, ReturnHolds, DiscardHolds: the three are such ends. *)
LEMMA FailHolds ==
  ASSUME ClientInv, ToldKept, NEW p \in Caller, Fail(p)
  PROVE  CallsHold'
<1>1. CallerOK(p) /\ DOMAIN caller = Caller /\ DOMAIN attempt = Slot
  BY DEF ClientInv, CallsHold
<1>2. attempt' = attempt /\ slot' = slot
  BY DEF Fail, apiVars
<1>3. /\ DOMAIN caller' = Caller
      /\ DOMAIN caller'[p] = {"phase", "req", "slot", "effect"}
      /\ caller'[p].phase = "failed" /\ Pending(p)
      /\ caller'[p].req = caller[p].req /\ caller'[p].effect = caller[p].effect
      /\ \A c \in Caller \ {p} : caller'[c] = caller[c]
  BY <1>1 DEF Fail, CallerOK, Pending
<1> QED
  BY <1>1, <1>2, <1>3, EndHolds

(* See FailHolds. *)
LEMMA ReturnHolds ==
  ASSUME ClientInv, ToldKept, NEW p \in Caller, Return(p)
  PROVE  CallsHold'
<1> DEFINE r == caller[p].slot
<1>1. /\ CallerOK(p) /\ DOMAIN caller = Caller /\ DOMAIN attempt = Slot
      /\ DOMAIN slot = Slot /\ r \in Slot /\ attempt[r] = p /\ Pending(p)
  BY DEF ClientInv, CallsHold, CallerOK, Return, ApiInv, ApiTypeOK, Pending
<1>2. /\ attempt'[r] = None /\ DOMAIN attempt' = Slot
      /\ \A s \in Slot \ {r} : slot'[s] = slot[s] /\ attempt'[s] = attempt[s]
  BY <1>1 DEF Return, Finish
<1>3. /\ DOMAIN caller' = Caller
      /\ \A c \in Caller \ {p} : caller'[c] = caller[c]
      /\ DOMAIN caller'[p] = {"phase", "req", "slot", "effect"}
      /\ \/ /\ caller'[p].phase = "failed"
            /\ caller'[p].req = caller[p].req /\ caller'[p].effect = caller[p].effect
         \/ /\ caller'[p].phase = "free"
            /\ caller'[p].effect \in {caller[p].effect, None}
  BY <1>1 DEF Return, Free, CallerOK
<1>4. ASSUME NEW c \in Caller, caller'[c].phase = "waiting"
      PROVE  caller[c].slot # r
  <2>1. c # p /\ CallerOK(c) /\ caller[c].phase = "waiting"
    BY <1>3, <1>4 DEF ClientInv, CallsHold
  <2> QED
    BY <1>1, <2>1 DEF CallerOK
<1> HIDE DEF r
<1> QED
  BY <1>1, <1>2, <1>3, <1>4, EndHolds

(* See FailHolds. *)
LEMMA DiscardHolds ==
  ASSUME ClientInv, ToldKept, NEW r \in Slot, Discard(r)
  PROVE  CallsHold'
<1>1. DOMAIN caller = Caller /\ DOMAIN attempt = Slot /\ DOMAIN slot = Slot
  BY DEF ClientInv, CallsHold, ApiInv, ApiTypeOK
<1>2. /\ attempt'[r] = None /\ DOMAIN attempt' = Slot /\ caller' = caller
      /\ \A s \in Slot \ {r} : slot'[s] = slot[s] /\ attempt'[s] = attempt[s]
      /\ \A c \in Caller : caller[c].slot # r
  BY <1>1 DEF Discard, Abandon, Finish
<1> QED
  BY <1>1, <1>2, EndHolds

(* ServeHolds: a first success is told of the request of every attempt. *)
LEMMA ServeHolds ==
  ASSUME ClientInv, ToldKept, ApiInv', NEW r \in Slot, ServeAttempt(r)
  PROVE  CallsHold'
<1>1. /\ DOMAIN slot = Slot /\ DOMAIN caller = Caller /\ DOMAIN attempt = Slot
      /\ ApiTypeOK /\ Serve(r) /\ attempt' = attempt
  BY DEF ClientInv, CallsHold, ApiInv, ApiTypeOK, ServeAttempt
<1>2. /\ slot'[r].phase # "idle" /\ slot'[r].req = slot[r].req
      /\ \A s \in Slot \ {r} : slot'[s] = slot[s]
  BY <1>1
  DEF Serve, Reject, Stateless, slow, MetadataCall, PutBlob, RegisterBlob,
      HeadBlob, ReadBlob, Reply, ApiTypeOK
<1>3. CASE caller' = caller
  <2>1. ASSUME NEW c \in Caller PROVE CallerOK(c)'
    <3>1. CallerOK(c)
      BY DEF ClientInv, CallsHold
    <3> QED
      BY <1>1, <1>3, <3>1, CallerKept DEF CallerOK, Pending
  <2>2. ASSUME NEW s \in Slot PROVE AttemptOK(s)'
    <3>1. \A t \in Slot : attempt[t] # None =>
            slot'[t].phase # "idle" /\ slot'[t].req = slot[t].req
      BY <1>2 DEF ClientInv, CallsHold, AttemptOK
    <3> QED
      BY <1>1, <1>3, <3>1, AttemptKept DEF Pending
  <2> QED
    BY <1>1, <1>3, <2>1, <2>2 DEF CallsHold
<1>4. CASE caller' # caller
  <2>1. PICK p, q, val :
          /\ p = attempt[r] /\ q = slot[r].req /\ val = slot'[r].reply.val
    OBVIOUS
  <2>2. /\ p # None /\ caller[p].effect = None
        /\ slot'[r].phase = "replied" /\ slot'[r].reply.shape = "success"
        /\ caller' = [caller EXCEPT ![p].effect = val]
    BY <1>4, <2>1 DEF ServeAttempt
  <2>3. Told(q, val)'
    BY <1>2, <2>1, <2>2
    DEF ApiInv, SlotsHold, SlotHolds, ReplyHolds, PlainText, Closed
  <2>4. /\ p \in Caller /\ CallerOK(p)
        /\ Pending(p) => caller[p].req = q
        /\ \A s \in Slot : attempt[s] = p => slot[s].req = q
    BY <2>1, <2>2 DEF ClientInv, CallsHold, AttemptOK
  <2>5. /\ DOMAIN caller' = Caller
        /\ DOMAIN caller'[p] = {"phase", "req", "slot", "effect"}
        /\ caller'[p].phase = caller[p].phase /\ caller'[p].req = caller[p].req
        /\ caller'[p].slot = caller[p].slot /\ caller'[p].effect = val
        /\ \A c \in Caller \ {p} : caller'[c] = caller[c]
    BY <1>1, <2>2, <2>4 DEF CallerOK
  <2>6. ASSUME NEW c \in Caller PROVE CallerOK(c)'
    <3>1. CASE c = p
      <4>1. Pending(p)' => caller'[p].req = q /\ Pending(p)
        BY <2>4, <2>5 DEF Pending
      <4> QED
        BY <1>1, <2>3, <2>4, <2>5, <3>1, <4>1 DEF CallerOK
    <3>2. CASE c # p
      <4>1. CallerOK(c) /\ caller'[c] = caller[c]
        BY <2>5, <3>2 DEF ClientInv, CallsHold
      <4> QED
        BY <1>1, <4>1, CallerKept DEF CallerOK, Pending
    <3> QED
      BY <3>1, <3>2
  <2>7. ASSUME NEW s \in Slot PROVE AttemptOK(s)'
    <3>1. \A t \in Slot : attempt[t] # None =>
            slot'[t].phase # "idle" /\ slot'[t].req = slot[t].req
      BY <1>2 DEF ClientInv, CallsHold, AttemptOK
    <3>2. CASE attempt[s] = p
      <4>1. slot'[s].req = q /\ slot'[s].phase # "idle" /\ attempt'[s] = p
            /\ \A t \in Slot : attempt'[t] = p => slot'[t].req = q
        BY <1>1, <2>2, <2>4, <3>1, <3>2
      <4>2. Pending(p)' => caller'[p].req = q
        BY <2>4, <2>5 DEF Pending
      <4> QED
        BY <2>3, <2>4, <2>5, <4>1, <4>2 DEF AttemptOK
    <3>3. CASE attempt[s] # p /\ attempt[s] # None
      <4>1. attempt[s] \in Caller
        BY <3>3 DEF ClientInv, CallsHold, AttemptOK
      <4>2. caller'[attempt[s]] = caller[attempt[s]]
        BY <2>5, <3>3, <4>1
      <4> QED
        BY <1>1, <3>1, <4>2, AttemptKept DEF Pending
    <3>4. CASE attempt[s] = None
      BY <1>1, <3>4 DEF AttemptOK
    <3> QED
      BY <3>2, <3>3, <3>4
  <2> QED
    BY <1>1, <2>5, <2>6, <2>7 DEF CallsHold
<1> QED
  BY <1>3, <1>4

-----------------------------------------------------------------------------
(***************************************************************************)
(* Every step of the callers, the network and the server keeps the         *)
(* invariant.                                                              *)
(***************************************************************************)
LEMMA ClientInvStep == ClientInv /\ [ClientNext]_clientVars => ClientInv'
<1> SUFFICES ASSUME ClientInv, [ClientNext]_clientVars PROVE ClientInv'
  OBVIOUS
<1>1. ApiInv' /\ ToldKept
  BY ClientStep, ApiKeeps DEF ClientInv
<1>2. CASE UNCHANGED clientVars
  <2>1. caller' = caller /\ attempt' = attempt /\ slot' = slot
    BY <1>2 DEF clientVars, apiVars
  <2> QED
    BY <1>1, <2>1, EndHolds DEF ClientInv, CallsHold
<1>3. CASE ClientNext
  BY <1>1, <1>3, CallHolds, RetryHolds, FailHolds, ReturnHolds, ServeHolds,
     DiscardHolds
  DEF ClientNext, ClientInv
<1> QED
  BY <1>2, <1>3

(* ClientInvariant: it holds in every reachable state. *)
LEMMA ClientInvariant == ClientSpec => []ClientInv
<1>1. ClientInit => ClientInv
  BY ApiInvInit
  DEF ClientInit, ClientInv, CallsHold, CallerOK, AttemptOK, Free, Pending
<1> QED
  BY <1>1, ClientInvStep, PTL DEF ClientSpec

(***************************************************************************)
(* Callers that time out and retry see a server that behaves as CloudApi   *)
(* does: its theorems, and with ApiIsStore the metadata store's, hold of   *)
(* the whole system.                                                       *)
(***************************************************************************)
THEOREM ClientIsApi == ClientSpec => ApiSpec
<1>1. ClientInit => ApiInit
  BY DEF ClientInit
<1> QED
  BY <1>1, ClientStep, ClientInvariant, PTL DEF ClientSpec, ApiSpec

(* OnlyServed: only serving an attempt changes a store or decides a reply. *)
LEMMA OnlyServed ==
  ASSUME ClientInv, ClientNext, NEW r \in Slot,
         Decides(r) \/ (slot'[r] # slot[r] /\ ~UNCHANGED <<store, blobs>>)
  PROVE  Serve(r)
<1>1. ApiTypeOK /\ DOMAIN slot = Slot
  BY DEF ClientInv, ApiInv, ApiTypeOK
<1>2. ASSUME NEW s \in Slot, NEW q, Send(s, q)
      PROVE  UNCHANGED <<store, blobs>> /\ ~Decides(r)
  BY <1>1, <1>2 DEF Send, Decides, vars, store, ApiTypeOK
<1>3. ASSUME NEW s, Abandon(s) \/ Finish(s)
      PROVE  UNCHANGED <<store, blobs>> /\ ~Decides(r)
  BY <1>1, <1>3 DEF Abandon, Finish, Idle, Decides, vars, store
<1>4. ASSUME NEW p \in Caller, Fail(p)
      PROVE  UNCHANGED <<store, blobs>> /\ ~Decides(r)
  BY <1>4 DEF Fail, apiVars, vars, store, Decides
<1>5. ASSUME NEW s \in Slot, Serve(s), s # r PROVE slot'[r] = slot[r]
  BY <1>1, <1>5
  DEF Serve, Reject, Stateless, slow, MetadataCall, PutBlob, RegisterBlob,
      HeadBlob, ReadBlob, Reply, ApiTypeOK
<1> QED
  BY <1>2, <1>3, <1>4, <1>5
  DEF ClientNext, Call, Retry, Return, ServeAttempt, Discard, Decides

(* LateAttempt: an attempt served after another one of its call succeeded. *)
LEMMA LateAttempt ==
  ASSUME ClientInv, NEW r \in Slot, Serve(r), attempt[r] # None,
         caller[attempt[r]].effect # None
  PROVE  Repeats(r, slot[r].req.op, caller[attempt[r]].effect)
<1>1. PICK q, val : q = slot[r].req /\ val = caller[attempt[r]].effect
  OBVIOUS
<1>2. Told(q, val) /\ val # None /\ ApiInv
  BY <1>1 DEF ClientInv, CallsHold, AttemptOK
<1> QED
  BY <1>1, <1>2, ServedAgain

(***************************************************************************)
(* However often a call is retried and however late an attempt of it is    *)
(* served, only the first success has an effect on the stores.             *)
(***************************************************************************)
THEOREM EffectOnce == ClientSpec => OnceOnly
<1>1. ASSUME ClientInv, [ClientNext]_clientVars
      PROVE  [\A r \in Slot :
                (attempt[r] # None /\ slot'[r] # slot[r]) =>
                  (caller[attempt[r]].effect # None =>
                     UNCHANGED <<store, blobs>>)]_clientVars
  BY <1>1, OnlyServed, LateAttempt DEF Repeats
<1> QED
  BY <1>1, ClientInvariant, PTL DEF ClientSpec, OnceOnly

(***************************************************************************)
(* Once one attempt of a call has succeeded, every attempt of it that the  *)
(* server still decides succeeds and is told about the same thing.         *)
(***************************************************************************)
THEOREM AttemptsAgree == ClientSpec => RepeatsAgree
<1>1. ASSUME ClientInv, [ClientNext]_clientVars
      PROVE  [\A r \in Slot :
                (attempt[r] # None /\ Decides(r)) =>
                  LET effect == caller[attempt[r]].effect
                      reply == slot'[r].reply
                  IN  effect # None =>
                        /\ reply.shape = "success"
                        /\ SameThing(slot[r].req.op, effect, reply.val)]_clientVars
  BY <1>1, OnlyServed, LateAttempt DEF Repeats
<1> QED
  BY <1>1, ClientInvariant, PTL DEF ClientSpec, RepeatsAgree

(***************************************************************************)
(* A server error reaches the caller with its own code, which the registry *)
(* lets a server send and the filesystem can report.                       *)
(***************************************************************************)
THEOREM ServerCodesTravel == ClientSpec => []CodesTravel
<1>1. ASSUME NEW code \in ServerCode
      PROVE  /\ code \in ErrorCode /\ status_for(code) \in {400, 404, 409, 422}
             /\ origin(code) # "Client"
             /\ ~is_startup_only(code) /\ ntstatus(code) # "none"
  BY DEF ServerCode, Code, ErrorCode, StartupOnly, Missing, Integrity, status_for,
         origin, is_startup_only, ntstatus
<1>2. ClientInv => CodesTravel
  <2> SUFFICES ASSUME ClientInv, NEW p \in Caller, Answered(p),
                      Reply_to(p).shape = "ErrorResponse"
               PROVE  LET code == Reply_to(p).code
                      IN  /\ code \in ErrorCode
                          /\ Decode(caller[p].req, Reply_to(p)) = code
                          /\ origin(code) # "Client"
                          /\ ~is_startup_only(code) /\ ntstatus(code) # "none"
    BY DEF CodesTravel
  <2>1. Reply_to(p).code \in ServerCode
    BY DEF ClientInv, CallsHold, CallerOK, Answered, Reply_to, ApiInv, SlotsHold,
           SlotHolds, ReplyHolds, PlainText, Closed
  <2>2. ~is_success(status(Reply_to(p)))
    BY <1>1, <2>1 DEF status, is_success
  <2>3. Decode(caller[p].req, Reply_to(p)) = Reply_to(p).code
    BY <2>2 DEF Decode
  <2> QED
    BY <1>1, <2>1, <2>3
<1> QED
  BY <1>2, ClientInvariant, PTL
=============================================================================
