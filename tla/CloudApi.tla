------------------------------ MODULE CloudApi ------------------------------
(***************************************************************************)
(* cloud/api: the handlers of the router over the metadata store and the   *)
(* object store, with several requests in flight.                          *)
(*                                                                         *)
(* A slot is one HTTP exchange.  Most handlers make one store call under   *)
(* one lock and are one step.  put_chunk stores the blob and then          *)
(* registers it, get_chunk asks for the size and then reads: two critical  *)
(* sections, between which the threads serving other requests run.         *)
(* A client may go away: axum drops the handler at its next await, so      *)
(* before its first store call, in a sleep, or between the two reads of    *)
(* get_chunk; put_chunk does not yield between its two calls.  A reply may *)
(* never arrive; the server cannot tell.                                   *)
(***************************************************************************)
EXTENDS MetadataStore, ChunkRange

CONSTANTS
  BodyLimit,      \* the largest body axum's extractors accept (2 MB)
  Slot,
  ClientRequest   \* the requests clients send

VARIABLE slot

(***************************************************************************)
(* The requests of the router.  path is FALSE when an id (for slow, the    *)
(* number) in the path does not parse; json is FALSE when the Json         *)
(* extractor refuses the body (an unknown field, a missing one).  no_route *)
(* is any path the router does not know.                                   *)
(***************************************************************************)
Request ==
       [op : {"create_file"}, json : BOOLEAN,
        parent_id : DirectoryId, name : Name, key : IdempotencyKey]
  \cup [op : {"stat_file"}, path : BOOLEAN, file_id : FileId]
  \cup [op : {"list_children"}, path : BOOLEAN, dir_id : DirectoryId]
  \cup [op : {"create_version"}, path : BOOLEAN, json : BOOLEAN,
        file_id : FileId, version_id : VersionId,
        parent_version_id : OptVersion, manifest_id : ManifestId]
  \cup [op : {"commit_version"}, path : BOOLEAN, version_id : VersionId]
  \cup [op : {"put_manifest"}, path : BOOLEAN, json : BOOLEAN,
        manifest_id : ManifestId, manifest : InputManifest]
  \cup [op : {"get_manifest"}, path : BOOLEAN, manifest_id : ManifestId]
  \cup [op : {"put_chunk"}, chunk_id : ChunkId, body : Bytes]
  \cup [op : {"get_chunk"}, chunk_id : ChunkId, range : RangeHeader]
  \cup [op : {"health", "no_route"}]
  \cup [op : {"slow"}, path : BOOLEAN]

ASSUME RequestAssumption == ClientRequest \subseteq Request

(* axum answers with plain text before the handler runs. *)
Refused(q) ==
  CASE q.op \in {"create_file", "create_version", "put_manifest"} -> ~q.json
    [] q.op = "put_chunk" -> Len(q.body) > BodyLimit
    [] q.op = "slow" -> ~q.path
    [] OTHER -> FALSE

(* The handler's own checks of its path, before any store call. *)
Malformed(q) ==
  CASE q.op \in {"create_file", "health", "no_route", "slow"} -> FALSE
    [] q.op \in {"put_chunk", "get_chunk"} -> q.chunk_id \notin WellFormed
    [] q.op = "put_manifest" -> ~q.path \/ q.manifest_id # q.manifest.manifest_id
    [] OTHER -> ~q.path

Idle == [phase |-> "idle", req |-> None, size |-> None, reply |-> None]

ApiInit ==
  /\ Init
  /\ BlobInit
  /\ slot = [r \in Slot |-> Idle]

apiVars == <<vars, blobs, slot>>

Reply(r, reply) ==
  slot' = [slot EXCEPT ![r].phase = "replied", ![r].reply = reply]

-----------------------------------------------------------------------------
Send(r, q) ==
  /\ slot[r].phase = "idle"
  /\ slot' = [slot EXCEPT ![r].phase = "sent", ![r].req = q]
  /\ UNCHANGED <<vars, blobs>>

Reject(r) ==
  LET q == slot[r].req
  IN  /\ slot[r].phase = "sent"
      /\ Refused(q) \/ Malformed(q)
      /\ Reply(r, IF Refused(q) THEN PlainText ELSE Answer("InvalidParameter", None))
      /\ UNCHANGED <<vars, blobs>>

Accepts(r, op) ==
  /\ slot[r].req.op = op
  /\ ~Refused(slot[r].req) /\ ~Malformed(slot[r].req)

Accepted(r, op) == slot[r].phase = "sent" /\ Accepts(r, op)

(* The handlers that are one call of the metadata store. *)
MetadataCall(r) ==
  LET q == slot[r].req
  IN  /\ \/ /\ Accepted(r, "create_file")
            /\ create_file(q.parent_id, q.name, q.key)
         \/ /\ Accepted(r, "stat_file")
            /\ get_file(q.file_id)
         \/ /\ Accepted(r, "list_children")
            /\ list_children(q.dir_id)
         \/ /\ Accepted(r, "create_version")
            /\ create_version(q.file_id, q.version_id, q.parent_version_id,
                              q.manifest_id)
         \/ /\ Accepted(r, "commit_version")
            /\ commit_version(q.version_id)
         \/ /\ Accepted(r, "put_manifest")
            /\ put_manifest(q.manifest)
         \/ /\ Accepted(r, "get_manifest")
            /\ get_manifest(q.manifest_id)
      /\ Reply(r, Answer(resp'.code, resp'.val))
      /\ UNCHANGED blobs

(* The handlers that touch no store: health, the fallback, and slow, which *)
(* sleeps before it answers.                                               *)
Stateless(r) ==
  /\ \/ Accepted(r, "health") /\ Reply(r, Answer("Ok", None))
     \/ Accepted(r, "no_route") /\ Reply(r, Answer("FileNotFound", None))
  /\ UNCHANGED <<vars, blobs>>

slow(r) ==
  /\ \/ Accepted(r, "slow") /\ slot' = [slot EXCEPT ![r].phase = "asleep"]
     \/ slot[r].phase = "asleep" /\ Reply(r, Answer("Ok", None))
  /\ UNCHANGED <<vars, blobs>>

(***************************************************************************)
(* put_chunk: blobs.put, then meta.register_chunk.                         *)
(***************************************************************************)
PutBlob(r) ==
  LET q == slot[r].req
      code == put_code(q.chunk_id, q.body)
  IN  /\ Accepted(r, "put_chunk")
      /\ put(q.chunk_id, q.body)
      /\ IF code = "Ok"
           THEN slot' = [slot EXCEPT ![r].phase = "stored"]
           ELSE Reply(r, Answer(code, None))
      /\ UNCHANGED vars

RegisterBlob(r) ==
  LET q == slot[r].req
  IN  /\ slot[r].phase = "stored"
      /\ register_chunk(q.chunk_id, Len(q.body))
      /\ Reply(r, Answer(resp'.code, resp'.val))
      /\ UNCHANGED blobs

(***************************************************************************)
(* get_chunk: blobs.head, then blobs.get or blobs.get_range.               *)
(***************************************************************************)
(* Fault: a missing chunk is not answered. *)
HeadBlob_hangs(r) ==
  LET found == head(slot[r].req.chunk_id)
  IN  /\ Accepted(r, "get_chunk")
      /\ found.code = "Ok"
      /\ slot' = [slot EXCEPT ![r].phase = "headed", ![r].size = found.body]
      /\ UNCHANGED <<vars, blobs>>

HeadBlob(r) ==
  LET found == head(slot[r].req.chunk_id)
  IN  /\ Accepted(r, "get_chunk")
      /\ IF found.code = "Ok"
           THEN slot' = [slot EXCEPT ![r].phase = "headed", ![r].size = found.body]
           ELSE Reply(r, Answer(found.code, None))
      /\ UNCHANGED <<vars, blobs>>

ReadBlob(r) ==
  LET q == slot[r].req
  IN  /\ slot[r].phase = "headed"
      /\ Reply(r, IF q.range.kind = "none" THEN WholeReply(q.chunk_id)
                  ELSE RangeReply(q.chunk_id, q.range, slot[r].size))
      /\ UNCHANGED <<vars, blobs>>

-----------------------------------------------------------------------------
(* The client goes away and the handler is dropped at an await. *)
Abandon(r) ==
  /\ slot[r].phase \in {"sent", "headed", "asleep"}
  /\ slot' = [slot EXCEPT ![r] = Idle]
  /\ UNCHANGED <<vars, blobs>>

(* The reply reaches the client, or is lost with the connection. *)
Finish(r) ==
  /\ slot[r].phase = "replied"
  /\ slot' = [slot EXCEPT ![r] = Idle]
  /\ UNCHANGED <<vars, blobs>>

Serve(r) ==
  \/ Reject(r) \/ Stateless(r) \/ slow(r) \/ MetadataCall(r)
  \/ PutBlob(r) \/ RegisterBlob(r)
  \/ HeadBlob(r) \/ ReadBlob(r)

ApiNext ==
  \E r \in Slot :
    \/ \E q \in ClientRequest : Send(r, q)
    \/ Serve(r)
    \/ Abandon(r)
    \/ Finish(r)

ApiSpec == ApiInit /\ [][ApiNext]_apiVars

(* The runtime keeps polling every handler it has not dropped. *)
FairApiSpec == ApiSpec /\ \A r \in Slot : WF_apiVars(Serve(r))

-----------------------------------------------------------------------------
Phase == {"idle", "sent", "stored", "headed", "asleep", "replied"}

ApiCode == Code \cup {"IntegrityHashMismatch", "IntegrityLengthMismatch",
                      "rejected", "panic"}

(* ApiTypeOK: the stores keep their types, and a slot holds a request and  *)
(* a reply exactly in the phases where the exchange has them.              *)
ApiTypeOK ==
  /\ TypeOK
  /\ blobs \in [ChunkId -> Bytes \cup {None}]
  /\ DOMAIN slot = Slot
  /\ \A r \in Slot :
       /\ DOMAIN slot[r] = {"phase", "req", "size", "reply"}
       /\ slot[r].phase \in Phase
       /\ slot[r].phase # "idle" => slot[r].req \in ClientRequest
       /\ slot[r].phase = "stored" => Accepts(r, "put_chunk")
       /\ slot[r].phase = "headed" => /\ Accepts(r, "get_chunk")
                                      /\ slot[r].size \in U64
       /\ slot[r].phase = "replied" => slot[r].reply.code \in ApiCode

(* RegistryBacked: a registered chunk is stored, under the address of its  *)
(* bytes and with the registered size, at every moment: put_chunk registers*)
(* only what it has stored, and no interleaving of two uploads undoes it.  *)
RegistryBacked ==
  \A c \in ChunkId :
    chunks[c] # None => /\ blobs[c] # None
                        /\ verify(c, blobs[c])
                        /\ Len(blobs[c]) = chunks[c]

(* UploadCompletes: between the two halves of put_chunk nothing another    *)
(* request does can make the second half fail, so an upload never stores   *)
(* its blob and then reports an error.                                     *)
UploadCompletes ==
  \A r \in Slot :
    slot[r].phase = "stored" =>
      register_chunk_code(slot[r].req.chunk_id, Len(slot[r].req.body)) = "Ok"

(* CommittedServable: every segment of every Committed version can be      *)
(* read: the Range request the client makes for it (at most u32::MAX bytes)*)
(* is answered with exactly the bytes of the stored chunk.                 *)
CommittedServable ==
  \A v \in VersionId :
    IsCommitted(v) =>
      LET m == manifests[versions[v].manifest_id]
      IN  \A k \in Entries(m) :
            LET e == m.entries[k]
                last == e.chunk_offset + e.length - 1
                range == [kind |-> "bytes", start |-> e.chunk_offset, end |-> last]
                body == blobs[e.chunk_id]
                reply == RangeReply(e.chunk_id, range, Len(body))
            IN  e.length <= U32Max =>
                  /\ body # None
                  /\ reply.code = "Ok"
                  /\ reply.val.body = Slice(body, e.chunk_offset, e.length)

(* RepliesStayTrue: what a success reply told a client is still so for as  *)
(* long as the client may act on it, whatever other requests do meanwhile: *)
(* an acknowledged chunk is stored and registered, an acknowledged manifest*)
(* is the stored one, an acknowledged version exists with that content,    *)
(* committed if the reply said so, and a current_version_id that was       *)
(* reported names a version that is still Committed.                       *)
RepliesStayTrue ==
  \A r \in Slot :
    (slot[r].phase = "replied" /\ slot[r].reply.shape = "success") =>
      LET op == slot[r].req.op
          val == slot[r].reply.val
      IN  CASE op = "put_chunk" ->
                 chunks[val.chunk_id] = val.size /\ blobs[val.chunk_id] # None
            [] op \in {"put_manifest", "get_manifest"} ->
                 manifests[val.manifest_id] = val
            [] op \in {"create_version", "commit_version"} ->
                 \/ versions[val.version_id] = val
                 \/ /\ op = "create_version"
                    /\ versions[val.version_id] = [val EXCEPT !.state = "Committed"]
            [] op \in {"create_file", "stat_file"} ->
                 /\ files[val.file_id] # None
                 /\ val.current_version_id # None =>
                      IsCommitted(val.current_version_id)
            [] OTHER -> TRUE

(* A successful answer to a Range request is the requested bytes. *)
ExactRange(r) ==
  LET q == slot[r].req
      val == slot[r].reply.val
      length == val.end - val.start + 1
  IN  /\ Len(val.body) = length
      /\ val.body = Slice(blobs[q.chunk_id], val.start, length)

RangeReplied(r) ==
  /\ slot[r].phase = "replied"
  /\ slot[r].req.op = "get_chunk"
  /\ slot[r].req.range.kind = "bytes"
  /\ slot[r].reply.shape = "success"

(* RangeRepliesExact: a 206 reply to a request for at most u32::MAX bytes  *)
(* carries exactly the bytes its Content-Range names, although the size in *)
(* it was read in an earlier critical section.                             *)
RangeRepliesExact ==
  \A r \in Slot :
    (RangeReplied(r) /\ slot[r].reply.val.end - slot[r].reply.val.start < U32Max)
      => ExactRange(r) /\ slot[r].reply.val.size = Len(blobs[slot[r].req.chunk_id])

(* NoShortRead: every 206 reply carries exactly the bytes its Content-Range*)
(* names; a range past the stored object's end is an error.  This is what  *)
(* the API description says of get_chunk.                                  *)
NoShortRead == \A r \in Slot : RangeReplied(r) => ExactRange(r)

(* RequestsAnswered: a request is answered or its client has gone away; no *)
(* request waits for another, and none is left between its two steps.      *)
RequestsAnswered ==
  \A r \in Slot :
    (slot[r].phase \in {"sent", "stored", "headed", "asleep"})
      ~> (slot[r].phase \in {"replied", "idle"})
=============================================================================
