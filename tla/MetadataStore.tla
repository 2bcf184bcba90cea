--------------------------- MODULE MetadataStore ---------------------------
(***************************************************************************)
(* cloud/metadata: InMemoryMetadataStore.  Every operation takes the one   *)
(* Mutex around Inner for its whole body, so each is one atomic action.    *)
(*                                                                         *)
(* A map of the code is a total function here, with None for a missing     *)
(* entry; None also stands for Option::None.  The timestamps of a File and *)
(* a Version are left out: no operation reads them.  A fresh FileId is any *)
(* id not in use (FileId::new is a UUID), so FileId bounds the number of   *)
(* files created.  resp is what the last call returned.                    *)
(***************************************************************************)
EXTENDS ManifestValidation, FiniteSets

CONSTANTS
  FileId, VersionId, DirectoryId,
  IdempotencyKey,
  Name,           \* file names, as their ranks in the order of str::cmp
  IllegalName,    \* empty, or with a slash, a backslash or a NUL
  InputManifest   \* the manifests clients submit

ASSUME NameAssumption == Name \subseteq Nat /\ IllegalName \subseteq Name
ASSUME InputAssumption == InputManifest \subseteq Manifest
ASSUME FileIdAssumption == IsFiniteSet(FileId)

OptVersion == VersionId \cup {None}

File ==
  [file_id : FileId, parent_id : DirectoryId, name : Name,
   current_version_id : OptVersion]

Version ==
  [version_id : VersionId, file_id : FileId, parent_version_id : OptVersion,
   manifest_id : ManifestId, state : VersionState]

ASSUME NoneAssumption ==
  /\ None \notin FileId /\ None \notin VersionId /\ None \notin U64
  /\ None \notin File /\ None \notin Version /\ None \notin Manifest

VARIABLES files, file_idempotency, versions, manifests, chunks, resp

store == <<files, file_idempotency, versions, manifests, chunks>>
vars  == <<files, file_idempotency, versions, manifests, chunks, resp>>

Init ==
  /\ files = [f \in FileId |-> None]
  /\ file_idempotency = [k \in IdempotencyKey |-> None]
  /\ versions = [v \in VersionId |-> None]
  /\ manifests = [i \in ManifestId |-> None]
  /\ chunks = [c \in ChunkId |-> None]
  /\ resp = [op |-> "none", code |-> "Ok", val |-> None]

(* What the call returns: Ok(val), or Err(code) with no value. *)
Ok(op, val)  == resp' = [op |-> op, code |-> "Ok", val |-> val]
Err(op, code) == resp' = [op |-> op, code |-> code, val |-> None]

-----------------------------------------------------------------------------
(***************************************************************************)
(* create_file.  The name is checked before the lock is taken; a known     *)
(* key returns the file it made, whatever the other arguments are.         *)
(***************************************************************************)
(* Fault: the key is not recorded. *)
InsertFile_forgets_key(key, file) ==
  /\ files[file.file_id] = None
  /\ files' = [files EXCEPT ![file.file_id] = file]
  /\ Ok("create_file", file)
  /\ UNCHANGED <<file_idempotency, versions, manifests, chunks>>

InsertFile(key, file) ==
  /\ files[file.file_id] = None
  /\ file_idempotency' = [file_idempotency EXCEPT ![key] = file.file_id]
  /\ files' = [files EXCEPT ![file.file_id] = file]
  /\ Ok("create_file", file)
  /\ UNCHANGED <<versions, manifests, chunks>>

create_file(parent_id, name, key) ==
  LET existing == file_idempotency[key]
  IN  \/ /\ name \in IllegalName
         /\ Err("create_file", "InvalidParameter")
         /\ UNCHANGED store
      \/ /\ name \notin IllegalName
         /\ existing # None
         /\ Ok("create_file", files[existing])
         /\ UNCHANGED store
      \/ /\ name \notin IllegalName
         /\ existing = None
         /\ \E f \in FileId :
              InsertFile(key, [file_id |-> f, parent_id |-> parent_id,
                               name |-> name, current_version_id |-> None])

get_file(file_id) ==
  /\ IF files[file_id] = None
       THEN Err("get_file", "FileNotFound")
       ELSE Ok("get_file", files[file_id])
  /\ UNCHANGED store

(***************************************************************************)
(* list_children.  The stable sort leaves files of equal name in the       *)
(* arbitrary order of HashMap::values.                                     *)
(***************************************************************************)
Children(dir_id) == {f \in FileId : files[f] # None /\ files[f].parent_id = dir_id}

Listings(dir_id) ==
  LET C == Children(dir_id)
  IN  {s \in [1 .. Cardinality(C) -> C] :
         \A i, j \in DOMAIN s :
           i < j => /\ s[i] # s[j]
                    /\ files[s[i]].name <= files[s[j]].name}

list_children(dir_id) ==
  /\ \E s \in Listings(dir_id) :
       Ok("list_children", [files |-> [k \in DOMAIN s |-> files[s[k]]]])
  /\ UNCHANGED store

-----------------------------------------------------------------------------
(***************************************************************************)
(* register_chunk.  The map holds the size; its key is the chunk's id.     *)
(***************************************************************************)
(* Fault: registering a chunk a second time is a conflict. *)
register_chunk_code_once(chunk_id, size) ==
  IF chunk_id \notin WellFormed THEN "InvalidParameter"
  ELSE IF chunks[chunk_id] # None THEN "IntegrityChunkIdConflict"
  ELSE "Ok"

register_chunk_code(chunk_id, size) ==
  IF chunk_id \notin WellFormed THEN "InvalidParameter"
  ELSE IF chunks[chunk_id] \notin {None, size} THEN "IntegrityChunkIdConflict"
  ELSE "Ok"

InsertChunk(chunk_id, size) ==
  /\ chunks' = [chunks EXCEPT ![chunk_id] = size]
  /\ Ok("register_chunk", [chunk_id |-> chunk_id, size |-> size])
  /\ UNCHANGED <<files, file_idempotency, versions, manifests>>

register_chunk(chunk_id, size) ==
  LET code == register_chunk_code(chunk_id, size)
  IN  \/ /\ code = "Ok"
         /\ InsertChunk(chunk_id, size)
      \/ /\ code # "Ok"
         /\ Err("register_chunk", code)
         /\ UNCHANGED store

(***************************************************************************)
(* put_manifest.  After validation, the loop over m.chunks stops at the    *)
(* first record that is not registered with the same size; then content    *)
(* already stored under the id must be the same.                           *)
(***************************************************************************)
Registered(c) == chunks[c.chunk_id] = c.size

FirstUnregistered(m) ==
  CHOOSE k \in DOMAIN m.chunks :
    /\ ~Registered(m.chunks[k])
    /\ \A j \in 1 .. (k - 1) : Registered(m.chunks[j])

(* Fault: no look at the registered chunks. *)
put_manifest_code_dangling(m) ==
  IF ~ValidManifest(m) THEN "IntegrityManifestInvalid"
  ELSE IF manifests[m.manifest_id] \notin {None, m} THEN "IntegrityManifestInvalid"
  ELSE "Ok"

(* Fault: a stored manifest is overwritten. *)
put_manifest_code_overwrites(m) ==
  IF ~ValidManifest(m) THEN "IntegrityManifestInvalid"
  ELSE IF \E k \in DOMAIN m.chunks : ~Registered(m.chunks[k]) THEN "ChunkNotFound"
  ELSE "Ok"

put_manifest_code(m) ==
  IF ~ValidManifest(m) THEN "IntegrityManifestInvalid"
  ELSE IF \E k \in DOMAIN m.chunks : ~Registered(m.chunks[k]) THEN
    IF chunks[m.chunks[FirstUnregistered(m)].chunk_id] = None
      THEN "ChunkNotFound" ELSE "IntegrityManifestInvalid"
  ELSE IF manifests[m.manifest_id] \notin {None, m} THEN "IntegrityManifestInvalid"
  ELSE "Ok"

InsertManifest(m) ==
  /\ manifests' = [manifests EXCEPT ![m.manifest_id] = m]
  /\ Ok("put_manifest", m)
  /\ UNCHANGED <<files, file_idempotency, versions, chunks>>

put_manifest(m) ==
  LET code == put_manifest_code(m)
  IN  \/ /\ code = "Ok"
         /\ InsertManifest(m)
      \/ /\ code # "Ok"
         /\ Err("put_manifest", code)
         /\ UNCHANGED store

get_manifest(manifest_id) ==
  /\ IF manifests[manifest_id] = None
       THEN Err("get_manifest", "ManifestNotFound")
       ELSE Ok("get_manifest", manifests[manifest_id])
  /\ UNCHANGED store

-----------------------------------------------------------------------------
(***************************************************************************)
(* create_version.  The version id is chosen by the client; a second call  *)
(* with the same file, parent and manifest returns the version as it is.   *)
(***************************************************************************)
(* Fault: a repeated create must find the version still a Candidate. *)
SameVersion_candidate(version, file_id, parent, manifest_id) ==
  /\ version.file_id = file_id
  /\ version.parent_version_id = parent
  /\ version.manifest_id = manifest_id
  /\ version.state = "Candidate"

SameVersion(version, file_id, parent, manifest_id) ==
  /\ version.file_id = file_id
  /\ version.parent_version_id = parent
  /\ version.manifest_id = manifest_id

(* Fault: the parent may belong to another file. *)
create_version_code_any_parent(file_id, version_id, parent, manifest_id) ==
  IF files[file_id] = None THEN "FileNotFound"
  ELSE IF manifests[manifest_id] = None THEN "ManifestNotFound"
  ELSE IF parent # None /\ versions[parent] = None THEN "VersionNotFound"
  ELSE IF /\ versions[version_id] # None
          /\ ~SameVersion(versions[version_id], file_id, parent, manifest_id)
    THEN "IntegrityChunkIdConflict"
  ELSE "Ok"

create_version_code(file_id, version_id, parent, manifest_id) ==
  IF files[file_id] = None THEN "FileNotFound"
  ELSE IF manifests[manifest_id] = None THEN "ManifestNotFound"
  ELSE IF parent # None /\ versions[parent] = None THEN "VersionNotFound"
  ELSE IF parent # None /\ versions[parent].file_id # file_id
    THEN "IntegrityManifestInvalid"
  ELSE IF /\ versions[version_id] # None
          /\ ~SameVersion(versions[version_id], file_id, parent, manifest_id)
    THEN "IntegrityChunkIdConflict"
  ELSE "Ok"

InsertVersion(version) ==
  /\ versions' = [versions EXCEPT ![version.version_id] = version]
  /\ Ok("create_version", version)
  /\ UNCHANGED <<files, file_idempotency, manifests, chunks>>

create_version(file_id, version_id, parent, manifest_id) ==
  LET code == create_version_code(file_id, version_id, parent, manifest_id)
  IN  \/ /\ code = "Ok"
         /\ versions[version_id] = None
         /\ InsertVersion([version_id |-> version_id, file_id |-> file_id,
                           parent_version_id |-> parent,
                           manifest_id |-> manifest_id, state |-> "Candidate"])
      \/ /\ code = "Ok"
         /\ versions[version_id] # None
         /\ Ok("create_version", versions[version_id])
         /\ UNCHANGED store
      \/ /\ code # "Ok"
         /\ Err("create_version", code)
         /\ UNCHANGED store

(***************************************************************************)
(* commit_version.  Committing again returns the version and changes       *)
(* nothing; otherwise the manifest is validated once more, the state flips *)
(* and the file, if it exists, points at the version: all under the lock.  *)
(***************************************************************************)
commit_version_code(version_id) ==
  LET version == versions[version_id]
  IN  IF version = None THEN "VersionNotFound"
      ELSE IF version.state = "Committed" THEN "Ok"
      ELSE IF ~can_transition_to(version.state, "Committed")
        THEN "IntegrityManifestInvalid"
      ELSE IF manifests[version.manifest_id] = None THEN "ManifestNotFound"
      ELSE IF ~ValidManifest(manifests[version.manifest_id])
        THEN "IntegrityManifestInvalid"
      ELSE "Ok"

(* Fault: the file is pointed at the version, whose state does not change. *)
Publish_keeps_candidate(version_id) ==
  LET file_id == versions[version_id].file_id
  IN  /\ files' = IF files[file_id] = None THEN files
                  ELSE [files EXCEPT ![file_id] =
                          [@ EXCEPT !.current_version_id = version_id]]
      /\ Ok("commit_version", versions[version_id])
      /\ UNCHANGED <<versions, file_idempotency, manifests, chunks>>

(* Fault: the file is pointed at the manifest instead of the version. *)
Publish_wrong_id(version_id) ==
  LET committed == [versions[version_id] EXCEPT !.state = "Committed"]
      file_id == committed.file_id
  IN  /\ versions' = [versions EXCEPT ![version_id] = committed]
      /\ files' = IF files[file_id] = None THEN files
                  ELSE [files EXCEPT ![file_id] =
                          [@ EXCEPT !.current_version_id = committed.manifest_id]]
      /\ Ok("commit_version", committed)
      /\ UNCHANGED <<file_idempotency, manifests, chunks>>

Publish(version_id) ==
  LET committed == [versions[version_id] EXCEPT !.state = "Committed"]
      file_id == committed.file_id
  IN  /\ versions' = [versions EXCEPT ![version_id] = committed]
      /\ files' = IF files[file_id] = None THEN files
                  ELSE [files EXCEPT ![file_id] =
                          [@ EXCEPT !.current_version_id = version_id]]
      /\ Ok("commit_version", committed)
      /\ UNCHANGED <<file_idempotency, manifests, chunks>>

(* Fault: committing again repeats the publication. *)
commit_version_again(version_id) ==
  LET code == commit_version_code(version_id)
  IN  \/ code = "Ok" /\ Publish(version_id)
      \/ code # "Ok" /\ Err("commit_version", code) /\ UNCHANGED store

commit_version(version_id) ==
  LET code == commit_version_code(version_id)
  IN  \/ /\ code = "Ok"
         /\ versions[version_id].state = "Committed"
         /\ Ok("commit_version", versions[version_id])
         /\ UNCHANGED store
      \/ /\ code = "Ok"
         /\ versions[version_id].state # "Committed"
         /\ Publish(version_id)
      \/ /\ code # "Ok"
         /\ Err("commit_version", code)
         /\ UNCHANGED store

get_current_version(version_id) ==
  LET version == versions[version_id]
  IN  /\ IF version # None /\ version.state = "Committed"
           THEN Ok("get_current_version", version)
           ELSE Err("get_current_version", "VersionNotFound")
      /\ UNCHANGED store

-----------------------------------------------------------------------------
Next ==
  \/ \E d \in DirectoryId, n \in Name, k \in IdempotencyKey : create_file(d, n, k)
  \/ \E f \in FileId : get_file(f)
  \/ \E d \in DirectoryId : list_children(d)
  \/ \E c \in ChunkId, s \in U64 : register_chunk(c, s)
  \/ \E m \in InputManifest : put_manifest(m)
  \/ \E i \in ManifestId : get_manifest(i)
  \/ \E f \in FileId, v \in VersionId, p \in OptVersion, i \in ManifestId :
       create_version(f, v, p, i)
  \/ \E v \in VersionId : commit_version(v)
  \/ \E v \in VersionId : get_current_version(v)

Spec == Init /\ [][Next]_vars

-----------------------------------------------------------------------------
Code ==
  {"Ok", "InvalidParameter", "FileNotFound", "VersionNotFound",
   "ManifestNotFound", "ChunkNotFound", "IntegrityManifestInvalid",
   "IntegrityChunkIdConflict"}

Op ==
  {"none", "create_file", "get_file", "list_children", "register_chunk",
   "put_manifest", "get_manifest", "create_version", "commit_version",
   "get_current_version"}

Value ==
  File \cup Version \cup Manifest \cup Chunk \cup [files : Seq(File)] \cup {None}

(* TypeOK: the maps of Inner and the returned value have the types the     *)
(* code declares for them, and every record is stored under its own id.    *)
TypeOK ==
  /\ files \in [FileId -> File \cup {None}]
  /\ file_idempotency \in [IdempotencyKey -> FileId \cup {None}]
  /\ versions \in [VersionId -> Version \cup {None}]
  /\ manifests \in [ManifestId -> Manifest \cup {None}]
  /\ chunks \in [ChunkId -> U64 \cup {None}]
  /\ resp \in [op : Op, code : Code, val : Value]
  /\ \A f \in FileId : files[f] # None => files[f].file_id = f
  /\ \A v \in VersionId : versions[v] # None => versions[v].version_id = v
  /\ \A i \in ManifestId : manifests[i] # None => manifests[i].manifest_id = i

IsCommitted(v) == versions[v] # None /\ versions[v].state = "Committed"

(* CurrentIsCommitted (invariant 11): whatever order versions are created, *)
(* committed and re-committed in, a file's current_version_id names a      *)
(* Committed version of that same file.                                    *)
CurrentIsCommitted ==
  \A f \in FileId :
    (files[f] # None /\ files[f].current_version_id # None) =>
      LET v == files[f].current_version_id
      IN  IsCommitted(v) /\ versions[v].file_id = f

Existing == {v \in VersionId : versions[v] # None}

ParentsResolve ==
  \A v \in Existing :
    LET p == versions[v].parent_version_id
    IN  p # None => p \in Existing /\ versions[p].file_id = versions[v].file_id

(* HistoryWellFounded (invariant 12 and more): version ids are chosen by   *)
(* clients, yet following parent_version_id stays inside one file, never   *)
(* meets a missing version and never comes back: no set of versions is     *)
(* closed under "parent of".                                               *)
HistoryWellFounded ==
  /\ ParentsResolve
  /\ \A S \in SUBSET Existing :
       S # {} => \E v \in S : versions[v].parent_version_id \notin S

(* The manifest is valid, and each chunk it lists is registered with the   *)
(* size it gives.                                                          *)
ManifestResolves(i) ==
  /\ manifests[i] # None
  /\ ValidManifest(manifests[i])
  /\ \A k \in DOMAIN manifests[i].chunks : Registered(manifests[i].chunks[k])

(* CommittedResolvable: every Committed version, the current one or an     *)
(* older one, belongs to a file and names a stored manifest that satisfies *)
(* all the rules and whose chunks are all still registered at their sizes. *)
CommittedResolvable ==
  \A v \in VersionId :
    IsCommitted(v) => /\ files[versions[v].file_id] # None
                      /\ ManifestResolves(versions[v].manifest_id)

(* OneFilePerKey: create_file is safe to retry.  The indexing files[..] of *)
(* its retry path always finds the file, two keys never share a file, and  *)
(* no file exists without the key that made it.                            *)
OneFilePerKey ==
  /\ \A k \in IdempotencyKey :
       file_idempotency[k] # None => files[file_idempotency[k]] # None
  /\ \A j, k \in IdempotencyKey :
       (file_idempotency[j] = file_idempotency[k] /\ file_idempotency[j] # None)
         => j = k
  /\ \A f \in FileId :
       files[f] # None => \E k \in IdempotencyKey : file_idempotency[k] = f

(* RetriesSucceed: a client that lost the answer to a call that took       *)
(* effect may repeat the call at any later time, whatever others did in    *)
(* between: the same put_manifest, create_version and register_chunk are   *)
(* accepted again, and a commit that was possible has not become an error. *)
RetriesSucceed ==
  /\ \A i \in ManifestId :
       manifests[i] # None => put_manifest_code(manifests[i]) = "Ok"
  /\ \A v \in Existing :
       /\ create_version_code(versions[v].file_id, v,
            versions[v].parent_version_id, versions[v].manifest_id) = "Ok"
       /\ commit_version_code(v) = "Ok"
  /\ \A c \in ChunkId :
       chunks[c] # None => register_chunk_code(c, chunks[c]) = "Ok"

-----------------------------------------------------------------------------
(***************************************************************************)
(* What a reader of the store sees: the snapshot a Committed version       *)
(* resolves to, and the head of each file.                                 *)
(***************************************************************************)
Resolved(v) ==
  [file |-> versions[v].file_id,
   parent |-> versions[v].parent_version_id,
   content |-> manifests[versions[v].manifest_id]]

publishedView == [v \in VersionId |-> IF IsCommitted(v) THEN Resolved(v) ELSE None]

headView ==
  [f \in FileId |-> IF files[f] = None THEN None ELSE files[f].current_version_id]

History == INSTANCE VersionHistory WITH
  Content <- InputManifest, published <- publishedView, head <- headView

(* ImplementsHistory: to its readers the store is VersionHistory.  No step *)
(* changes or withdraws a published snapshot, down to the manifest it      *)
(* resolves to; a Candidate is invisible; and the head moves only to a     *)
(* version published in that very step, so a delayed or repeated commit    *)
(* never takes a file back to an older version.                            *)
ImplementsHistory == History!Spec
=============================================================================
