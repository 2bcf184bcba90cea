------------------------ MODULE MetadataStoreProofs ------------------------
(***************************************************************************)
(* Machine-checked proofs about MetadataStore, for every value of its      *)
(* constants.                                                              *)
(***************************************************************************)
EXTENDS MetadataStore, FiniteSetTheorems, TLAPS

USE NoneAssumption

(***************************************************************************)
(* list_children returns a sequence of files.                              *)
(***************************************************************************)
LEMMA ListingType ==
  ASSUME NEW d \in DirectoryId, NEW s \in Listings(d),
         files \in [FileId -> File \cup {None}]
  PROVE  [k \in DOMAIN s |-> files[s[k]]] \in Seq(File)
<1>1. Children(d) \subseteq FileId
  BY DEF Children
<1>2. IsFiniteSet(Children(d))
  BY <1>1, FS_Subset, FileIdAssumption
<1>3. Cardinality(Children(d)) \in Nat
  BY <1>2, FS_CardinalityType
<1> DEFINE n == Cardinality(Children(d))
<1>4. s \in [1 .. n -> Children(d)]
  BY DEF Listings
<1>5. \A k \in 1 .. n : files[s[k]] \in File
  BY <1>4 DEF Children
<1> HIDE DEF n
<1>6. [k \in DOMAIN s |-> files[s[k]]] \in [1 .. n -> File]
  BY <1>4, <1>5
<1> QED
  BY <1>3, <1>6 DEF n

(***************************************************************************)
(* Every step keeps the types of the maps and of the returned value: each  *)
(* operation of the store, on its Ok path and on each of its error paths.  *)
(***************************************************************************)
LEMMA TypeStep == TypeOK /\ [Next]_vars => TypeOK'
<1> SUFFICES ASSUME TypeOK, [Next]_vars PROVE TypeOK'
  OBVIOUS
<1> USE DEF TypeOK
<1>1. ASSUME NEW d \in DirectoryId, NEW n \in Name, NEW k \in IdempotencyKey,
             create_file(d, n, k)
      PROVE  TypeOK'
  <2>1. CASE /\ n \in IllegalName
             /\ Err("create_file", "InvalidParameter") /\ UNCHANGED store
    BY <2>1 DEF Err, store, Op, Code, Value
  <2>2. CASE /\ file_idempotency[k] # None
             /\ Ok("create_file", files[file_idempotency[k]])
             /\ UNCHANGED store
    BY <2>2 DEF Ok, store, Op, Code, Value
  <2>3. ASSUME NEW f \in FileId,
               InsertFile(k, [file_id |-> f, parent_id |-> d, name |-> n,
                              current_version_id |-> None])
        PROVE  TypeOK'
    <3>1. [file_id |-> f, parent_id |-> d, name |-> n,
           current_version_id |-> None] \in File
      BY DEF File, OptVersion
    <3> QED
      BY <2>3, <3>1 DEF InsertFile, Ok, Op, Code, Value
  <2> QED
    BY <1>1, <2>1, <2>2, <2>3 DEF create_file
<1>2. ASSUME NEW f \in FileId, get_file(f) PROVE TypeOK'
  BY <1>2 DEF get_file, Ok, Err, store, Op, Code, Value
<1>3. ASSUME NEW d \in DirectoryId, list_children(d) PROVE TypeOK'
  BY <1>3, ListingType DEF list_children, Ok, store, Op, Code, Value
<1>4. ASSUME NEW c \in ChunkId, NEW s \in U64, register_chunk(c, s)
      PROVE  TypeOK'
  BY <1>4 DEF register_chunk, register_chunk_code, InsertChunk, Ok, Err, store, Op, Code,
              Value, Chunk
<1>5. ASSUME NEW m \in InputManifest, put_manifest(m) PROVE TypeOK'
  <2>1. m \in Manifest /\ m.manifest_id \in ManifestId
    BY InputAssumption DEF Manifest
  <2>2. put_manifest_code(m) \in Code
    BY DEF put_manifest_code, Code
  <2> QED
    BY <1>5, <2>1, <2>2 DEF put_manifest, InsertManifest, Ok, Err, store, Op, Code, Value
<1>6. ASSUME NEW i \in ManifestId, get_manifest(i) PROVE TypeOK'
  BY <1>6 DEF get_manifest, Ok, Err, store, Op, Code, Value
<1>7. ASSUME NEW f \in FileId, NEW v \in VersionId, NEW p \in OptVersion,
             NEW i \in ManifestId, create_version(f, v, p, i)
      PROVE  TypeOK'
  <2>1. create_version_code(f, v, p, i) \in Code
    BY DEF create_version_code, Code
  <2>2. [version_id |-> v, file_id |-> f, parent_version_id |-> p,
         manifest_id |-> i, state |-> "Candidate"] \in Version
    BY DEF Version, VersionState
  <2> QED
    BY <1>7, <2>1, <2>2 DEF create_version, InsertVersion, Ok, Err, store, Op, Code, Value
<1>8. ASSUME NEW v \in VersionId, commit_version(v) PROVE TypeOK'
  <2>1. commit_version_code(v) \in Code
    BY DEF commit_version_code, Code
  <2>2. CASE commit_version_code(v) = "Ok" /\ Publish(v)
    <3> DEFINE committed == [versions[v] EXCEPT !.state = "Committed"]
    <3>1. versions[v] \in Version
      BY <2>2 DEF commit_version_code
    <3>2. committed \in Version /\ committed.version_id = v
          /\ committed.file_id \in FileId
      BY <3>1 DEF Version, VersionState
    <3>3. \A g \in File : [g EXCEPT !.current_version_id = v] \in File
                          /\ [g EXCEPT !.current_version_id = v].file_id = g.file_id
      BY DEF File, OptVersion
    <3> QED
      BY <2>2, <3>2, <3>3 DEF Publish, Ok, Op, Code, Value
  <2>3. CASE ~(commit_version_code(v) = "Ok" /\ Publish(v))
    <3>1. commit_version_code(v) = "Ok" => versions[v] \in Version
      BY DEF commit_version_code
    <3> QED
      BY <1>8, <2>1, <2>3, <3>1 DEF commit_version, Ok, Err, store, Op, Code, Value
  <2> QED
    BY <2>2, <2>3
<1>9. ASSUME NEW v \in VersionId, get_current_version(v) PROVE TypeOK'
  BY <1>9 DEF get_current_version, Ok, Err, store, Op, Code, Value
<1>10. CASE UNCHANGED vars
  BY <1>10 DEF vars
<1> QED
  BY <1>1, <1>2, <1>3, <1>4, <1>5, <1>6, <1>7, <1>8, <1>9, <1>10 DEF Next

(***************************************************************************)
(* The types of MetadataStore hold in every reachable state: the maps of   *)
(* Inner only ever hold records of the declared shape under their own ids, *)
(* whatever requests arrive.                                               *)
(***************************************************************************)
THEOREM TypeCorrect == Spec => []TypeOK
<1>1. Init => TypeOK
  BY DEF Init, TypeOK, Op, Code, Value
<1> QED
  BY <1>1, TypeStep, PTL DEF Spec

-----------------------------------------------------------------------------
(***************************************************************************)
(* The six ways a step can change the maps.  Reads and refused calls       *)
(* change none of them.                                                    *)
(***************************************************************************)
LEMMA StepEffects ==
  ASSUME TypeOK, [Next]_vars
  PROVE  \/ UNCHANGED store
         \/ \E k \in IdempotencyKey, g \in File :
              /\ file_idempotency[k] = None
              /\ g.current_version_id = None
              /\ InsertFile(k, g)
         \/ \E c \in ChunkId, s \in U64 :
              register_chunk_code(c, s) = "Ok" /\ InsertChunk(c, s)
         \/ \E m \in InputManifest :
              put_manifest_code(m) = "Ok" /\ InsertManifest(m)
         \/ \E w \in Version :
              /\ w.state = "Candidate"
              /\ versions[w.version_id] = None
              /\ create_version_code(w.file_id, w.version_id,
                   w.parent_version_id, w.manifest_id) = "Ok"
              /\ InsertVersion(w)
         \/ \E v \in VersionId :
              /\ commit_version_code(v) = "Ok"
              /\ versions[v].state # "Committed"
              /\ Publish(v)
<1>1. ASSUME NEW d \in DirectoryId, NEW n \in Name, NEW k \in IdempotencyKey,
             create_file(d, n, k), ~UNCHANGED store
      PROVE  \E g \in File : /\ file_idempotency[k] = None
                             /\ g.current_version_id = None
                             /\ InsertFile(k, g)
  <2>1. PICK f \in FileId :
          /\ file_idempotency[k] = None
          /\ InsertFile(k, [file_id |-> f, parent_id |-> d, name |-> n,
                            current_version_id |-> None])
    BY <1>1 DEF create_file
  <2> DEFINE g == [file_id |-> f, parent_id |-> d, name |-> n,
                   current_version_id |-> None]
  <2>2. g \in File /\ g.current_version_id = None
    BY DEF File, OptVersion
  <2> QED
    BY <2>1, <2>2
<1>2. ASSUME NEW f \in FileId, NEW v \in VersionId, NEW p \in OptVersion,
             NEW i \in ManifestId, create_version(f, v, p, i), ~UNCHANGED store
      PROVE  \E w \in Version :
               /\ w.state = "Candidate"
               /\ versions[w.version_id] = None
               /\ create_version_code(w.file_id, w.version_id,
                    w.parent_version_id, w.manifest_id) = "Ok"
               /\ InsertVersion(w)
  <2> DEFINE w == [version_id |-> v, file_id |-> f, parent_version_id |-> p,
                   manifest_id |-> i, state |-> "Candidate"]
  <2>1. w \in Version
    BY DEF Version, VersionState
  <2>2. /\ create_version_code(f, v, p, i) = "Ok"
        /\ versions[v] = None
        /\ InsertVersion(w)
    BY <1>2 DEF create_version
  <2>3. /\ w.version_id = v /\ w.file_id = f /\ w.parent_version_id = p
        /\ w.manifest_id = i /\ w.state = "Candidate"
    OBVIOUS
  <2> HIDE DEF w
  <2> QED
    BY <2>1, <2>2, <2>3
<1>3. CASE UNCHANGED vars
  BY <1>3 DEF vars, store
<1> QED
  BY <1>1, <1>2, <1>3
  DEF Next, get_file, list_children, register_chunk, put_manifest, get_manifest,
      commit_version, get_current_version

(***************************************************************************)
(* The inductive invariant.  The properties a run checks speak of          *)
(* Committed versions; to be inductive they must hold of Candidates too,   *)
(* since commit_version checks only the manifest again: a version's file   *)
(* and manifest are found when it is created and must not go away, a       *)
(* stored manifest must stay valid and its chunks registered, and a        *)
(* registered id must be one that parses.                                  *)
(***************************************************************************)
VersionsResolve ==
  \A v \in Existing : /\ files[versions[v].file_id] # None
                      /\ manifests[versions[v].manifest_id] # None

ManifestsResolve ==
  \A i \in ManifestId :
    manifests[i] # None => manifests[i] \in InputManifest /\ ManifestResolves(i)

ChunksWellFormed == \A c \in ChunkId : chunks[c] # None => c \in WellFormed

StoreInv ==
  /\ TypeOK
  /\ CurrentIsCommitted
  /\ HistoryWellFounded
  /\ OneFilePerKey
  /\ VersionsResolve
  /\ ManifestsResolve
  /\ ChunksWellFormed

(* InvInit: a new, empty store satisfies the invariant. *)
LEMMA InvInit == Init => StoreInv
<1> SUFFICES ASSUME Init PROVE StoreInv
  OBVIOUS
<1>1. TypeOK
  BY DEF Init, TypeOK, Op, Code, Value
<1>2. Existing = {}
  BY DEF Init, Existing
<1> QED
  BY <1>1, <1>2
  DEF Init, StoreInv, CurrentIsCommitted, HistoryWellFounded, ParentsResolve,
      OneFilePerKey, VersionsResolve, ManifestsResolve, ChunksWellFormed

(* InvInsertFile: create_file's new file and key keep it. *)
LEMMA InvInsertFile ==
  ASSUME StoreInv, TypeOK', NEW k \in IdempotencyKey, NEW g \in File,
         file_idempotency[k] = None, g.current_version_id = None,
         InsertFile(k, g)
  PROVE  StoreInv'
<1> DEFINE f == g.file_id
<1>1. /\ f \in FileId /\ files[f] = None
      /\ files' = [files EXCEPT ![f] = g]
      /\ file_idempotency' = [file_idempotency EXCEPT ![k] = f]
      /\ UNCHANGED <<versions, manifests, chunks>>
  BY DEF InsertFile, File
<1>2. g # None
  BY NoneAssumption
<1> HIDE DEF f
<1> USE DEF StoreInv, TypeOK
<1>3. CurrentIsCommitted'
  BY <1>1 DEF CurrentIsCommitted, IsCommitted
<1>4. HistoryWellFounded'
  BY <1>1 DEF HistoryWellFounded, ParentsResolve, Existing
<1>5. OneFilePerKey'
  BY <1>1, <1>2 DEF OneFilePerKey
<1>6. VersionsResolve'
  BY <1>1 DEF VersionsResolve, Existing
<1>7. ManifestsResolve' /\ ChunksWellFormed'
  BY <1>1 DEF ManifestsResolve, ManifestResolves, Registered, ChunksWellFormed
<1> QED
  BY <1>3, <1>4, <1>5, <1>6, <1>7

(* InvInsertChunk: register_chunk keeps it; no registered size changes. *)
LEMMA InvInsertChunk ==
  ASSUME StoreInv, TypeOK', NEW c \in ChunkId, NEW s \in U64,
         register_chunk_code(c, s) = "Ok", InsertChunk(c, s)
  PROVE  StoreInv'
<1>1. /\ chunks' = [chunks EXCEPT ![c] = s]
      /\ UNCHANGED <<files, file_idempotency, versions, manifests>>
      /\ c \in WellFormed /\ chunks[c] \in {None, s}
  BY DEF InsertChunk, register_chunk_code
<1> USE DEF StoreInv, TypeOK
<1>2. CurrentIsCommitted' /\ OneFilePerKey'
  BY <1>1 DEF CurrentIsCommitted, IsCommitted, OneFilePerKey
<1>3. HistoryWellFounded'
  BY <1>1 DEF HistoryWellFounded, ParentsResolve, Existing
<1>4. VersionsResolve' /\ ChunksWellFormed'
  BY <1>1 DEF VersionsResolve, Existing, ChunksWellFormed
<1>5. ManifestsResolve'
  <2>1. ASSUME NEW i \in ManifestId, manifests[i] # None,
               NEW k \in DOMAIN manifests[i].chunks
        PROVE  Registered(manifests[i].chunks[k])'
    <3> DEFINE d == manifests[i].chunks[k]
    <3>1. chunks[d.chunk_id] = d.size
      BY <2>1 DEF ManifestsResolve, ManifestResolves, Registered
    <3>2. d \in Chunk
      BY <2>1 DEF Manifest
    <3>3. d.chunk_id \in ChunkId /\ d.size \in U64
      BY <3>2 DEF Chunk
    <3> HIDE DEF d
    <3>4. chunks'[d.chunk_id] = d.size
      BY <1>1, <3>1, <3>3
    <3> QED
      BY <3>4, <1>1 DEF Registered, d
  <2> QED
    BY <1>1, <2>1 DEF ManifestsResolve, ManifestResolves
<1> QED
  BY <1>2, <1>3, <1>4, <1>5

(* InvInsertManifest: put_manifest keeps it; no stored manifest changes. *)
LEMMA InvInsertManifest ==
  ASSUME StoreInv, TypeOK', NEW m \in InputManifest,
         put_manifest_code(m) = "Ok", InsertManifest(m)
  PROVE  StoreInv'
<1>1. m \in Manifest /\ m.manifest_id \in ManifestId /\ m # None
  BY InputAssumption, NoneAssumption DEF Manifest
<1>2. /\ manifests' = [manifests EXCEPT ![m.manifest_id] = m]
      /\ UNCHANGED <<files, file_idempotency, versions, chunks>>
  BY DEF InsertManifest
<1>3. /\ ValidManifest(m)
      /\ \A k \in DOMAIN m.chunks : Registered(m.chunks[k])
  BY DEF put_manifest_code
<1> USE DEF StoreInv, TypeOK
<1>4. CurrentIsCommitted' /\ OneFilePerKey' /\ ChunksWellFormed'
  BY <1>2 DEF CurrentIsCommitted, IsCommitted, OneFilePerKey, ChunksWellFormed
<1>5. HistoryWellFounded'
  BY <1>2 DEF HistoryWellFounded, ParentsResolve, Existing
<1>6. VersionsResolve'
  BY <1>1, <1>2 DEF VersionsResolve, Existing, Version
<1>7. ManifestsResolve'
  BY <1>1, <1>2, <1>3 DEF ManifestsResolve, ManifestResolves, Registered
<1> QED
  BY <1>4, <1>5, <1>6, <1>7

(***************************************************************************)
(* A new version's parent exists and the version itself did not, so it     *)
(* closes no cycle of parents.                                             *)
(***************************************************************************)
LEMMA InvInsertVersion ==
  ASSUME StoreInv, TypeOK', NEW w \in Version,
         w.state = "Candidate", versions[w.version_id] = None,
         create_version_code(w.file_id, w.version_id,
           w.parent_version_id, w.manifest_id) = "Ok",
         InsertVersion(w)
  PROVE  StoreInv'
<1> DEFINE v == w.version_id
           p == w.parent_version_id
<1>1. /\ v \in VersionId /\ p \in VersionId \cup {None} /\ w.file_id \in FileId
      /\ w.manifest_id \in ManifestId /\ w # None
  BY NoneAssumption DEF Version, OptVersion
<1>2. /\ versions' = [versions EXCEPT ![v] = w]
      /\ UNCHANGED <<files, file_idempotency, manifests, chunks>>
  BY DEF InsertVersion
<1>3. /\ files[w.file_id] # None
      /\ manifests[w.manifest_id] # None
      /\ p # None => versions[p] # None /\ versions[p].file_id = w.file_id
  BY DEF create_version_code
<1> USE DEF StoreInv, TypeOK
<1>4. CurrentIsCommitted'
  BY <1>1, <1>2 DEF CurrentIsCommitted, IsCommitted
<1>5. HistoryWellFounded'
  <2>1. Existing' = Existing \cup {v} /\ v \notin Existing
    BY <1>1, <1>2 DEF Existing
  <2>2. \A u \in Existing : versions'[u] = versions[u]
    BY <1>2, <2>1 DEF Existing
  <2>3. versions'[v] = w
    BY <1>1, <1>2
  <2>4. ParentsResolve'
    BY <1>1, <1>3, <2>1, <2>2, <2>3
    DEF HistoryWellFounded, ParentsResolve, Existing
  <2>5. ASSUME NEW S \in SUBSET Existing', S # {}
        PROVE  \E u \in S : versions'[u].parent_version_id \notin S
    <3>1. CASE S \ {v} = {}
      <4>1. S = {v}
        BY <2>5, <3>1
      <4>2. p # v
        BY <1>1, <1>3, NoneAssumption
      <4> QED
        BY <2>3, <4>1, <4>2
    <3>2. CASE S \ {v} # {}
      <4>1. S \ {v} \in SUBSET Existing
        BY <2>1
      <4>2. PICK u \in S \ {v} : versions[u].parent_version_id \notin S \ {v}
        BY <3>2, <4>1 DEF HistoryWellFounded
      <4>3. u \in Existing
        BY <4>1
      <4>4. versions[u].parent_version_id # v
        BY <1>1, <2>1, <4>3, NoneAssumption
        DEF HistoryWellFounded, ParentsResolve
      <4> QED
        BY <2>2, <4>2, <4>3, <4>4
    <3> QED
      BY <3>1, <3>2
  <2> QED
    BY <2>4, <2>5 DEF HistoryWellFounded
<1>6. VersionsResolve'
  BY <1>1, <1>2, <1>3 DEF VersionsResolve, Existing
<1>7. OneFilePerKey' /\ ManifestsResolve' /\ ChunksWellFormed'
  BY <1>2 DEF OneFilePerKey, ManifestsResolve, ManifestResolves, Registered,
              ChunksWellFormed
<1> QED
  BY <1>4, <1>5, <1>6, <1>7

(* InvPublish: commit_version keeps it: the head it sets is Committed. *)
LEMMA InvPublish ==
  ASSUME StoreInv, TypeOK', NEW v \in VersionId,
         commit_version_code(v) = "Ok", versions[v].state # "Committed",
         Publish(v)
  PROVE  StoreInv'
<1> DEFINE w == [versions[v] EXCEPT !.state = "Committed"]
           f == versions[v].file_id
<1> USE DEF StoreInv, TypeOK
<1>1. versions[v] # None /\ versions[v] \in Version
  BY DEF commit_version_code
<1>2. /\ w \in Version /\ w # None /\ w.state = "Committed" /\ w.file_id = f
      /\ w.parent_version_id = versions[v].parent_version_id
      /\ w.manifest_id = versions[v].manifest_id
  BY <1>1, NoneAssumption DEF Version, VersionState
<1>3. f \in FileId /\ files[f] # None /\ files[f] \in File
  BY <1>1 DEF VersionsResolve, Existing, Version
<1> DEFINE g == [files[f] EXCEPT !.current_version_id = v]
<1>4. g \in File /\ g # None /\ g.current_version_id = v
  BY <1>3, NoneAssumption DEF File, OptVersion
<1>5. /\ versions' = [versions EXCEPT ![v] = w]
      /\ files' = [files EXCEPT ![f] = g]
      /\ UNCHANGED <<file_idempotency, manifests, chunks>>
  BY <1>2, <1>3 DEF Publish
<1> HIDE DEF w, f, g
<1>6. /\ Existing' = Existing
      /\ \A u \in Existing :
           /\ versions'[u].parent_version_id = versions[u].parent_version_id
           /\ versions'[u].file_id = versions[u].file_id
           /\ versions'[u].manifest_id = versions[u].manifest_id
  BY <1>1, <1>2, <1>5 DEF Existing, f
<1>7. \A h \in FileId : files'[h] # None <=> files[h] # None
  BY <1>3, <1>4, <1>5
<1>8. CurrentIsCommitted'
  BY <1>1, <1>2, <1>3, <1>4, <1>5 DEF CurrentIsCommitted, IsCommitted, File, OptVersion
<1>9. HistoryWellFounded'
  <2>1. ParentsResolve'
    BY <1>6 DEF HistoryWellFounded, ParentsResolve
  <2>2. ASSUME NEW S \in SUBSET Existing', S # {}
        PROVE  \E u \in S : versions'[u].parent_version_id \notin S
    BY <1>6, <2>2 DEF HistoryWellFounded
  <2> QED
    BY <2>1, <2>2 DEF HistoryWellFounded
<1>10. OneFilePerKey'
  BY <1>5, <1>7 DEF OneFilePerKey
<1>11. VersionsResolve'
  <2>1. \A u \in Existing : versions[u].file_id \in FileId
    BY DEF Existing, Version
  <2> QED
    BY <1>5, <1>6, <1>7, <2>1 DEF VersionsResolve
<1>12. ManifestsResolve' /\ ChunksWellFormed'
  BY <1>5 DEF ManifestsResolve, ManifestResolves, Registered, ChunksWellFormed
<1> QED
  BY <1>8, <1>9, <1>10, <1>11, <1>12

(* InvStep: every step of the store keeps it. *)
LEMMA InvStep == StoreInv /\ [Next]_vars => StoreInv'
<1> SUFFICES ASSUME StoreInv, [Next]_vars PROVE StoreInv'
  OBVIOUS
<1>1. TypeOK /\ TypeOK'
  BY TypeStep DEF StoreInv
<1>2. CASE UNCHANGED store
  BY <1>1, <1>2
  DEF store, StoreInv, CurrentIsCommitted, IsCommitted, HistoryWellFounded,
      ParentsResolve, Existing, OneFilePerKey, VersionsResolve,
      ManifestsResolve, ManifestResolves, Registered, ChunksWellFormed
<1> QED
  BY <1>1, <1>2, StepEffects, InvInsertFile, InvInsertChunk, InvInsertManifest,
     InvInsertVersion, InvPublish

(* StoreInvariant: it holds in every reachable state. *)
LEMMA StoreInvariant == Spec => []StoreInv
  BY InvInit, InvStep, PTL DEF Spec

(***************************************************************************)
(* Invariant 11 of the schemas, for every number of files and versions: a  *)
(* file's current_version_id always names a Committed version of that      *)
(* file.                                                                   *)
(***************************************************************************)
THEOREM CurrentCommitted == Spec => []CurrentIsCommitted
<1>1. StoreInv => CurrentIsCommitted
  BY DEF StoreInv
<1> QED
  BY <1>1, StoreInvariant, PTL

(***************************************************************************)
(* Invariant 12 and its consequence: the parents of a version lie in its   *)
(* file, exist, and never lead back to it, although clients choose the     *)
(* version ids.                                                            *)
(***************************************************************************)
THEOREM WellFoundedHistory == Spec => []HistoryWellFounded
<1>1. StoreInv => HistoryWellFounded
  BY DEF StoreInv
<1> QED
  BY <1>1, StoreInvariant, PTL

(***************************************************************************)
(* Keys and files correspond one to one: a retried create_file finds the   *)
(* file it made and makes no second one.                                   *)
(***************************************************************************)
THEOREM KeysAndFiles == Spec => []OneFilePerKey
<1>1. StoreInv => OneFilePerKey
  BY DEF StoreInv
<1> QED
  BY <1>1, StoreInvariant, PTL

(***************************************************************************)
(* A Committed version always resolves to a valid manifest whose chunks    *)
(* are registered with the sizes the manifest gives.                       *)
(***************************************************************************)
THEOREM CommittedResolves == Spec => []CommittedResolvable
<1>1. StoreInv => CommittedResolvable
  <2> SUFFICES ASSUME StoreInv, NEW v \in VersionId, IsCommitted(v)
               PROVE  /\ files[versions[v].file_id] # None
                      /\ ManifestResolves(versions[v].manifest_id)
    BY DEF CommittedResolvable
  <2>1. versions[v] \in Version /\ v \in Existing
    BY DEF StoreInv, TypeOK, IsCommitted, Existing
  <2>2. versions[v].manifest_id \in ManifestId
    BY <2>1 DEF Version
  <2> QED
    BY <2>1, <2>2 DEF StoreInv, VersionsResolve, ManifestsResolve
<1> QED
  BY <1>1, StoreInvariant, PTL

(* InvRetries: what is stored is what the repeated call checks for. *)
LEMMA InvRetries == StoreInv => RetriesSucceed
<1> SUFFICES ASSUME StoreInv PROVE RetriesSucceed
  OBVIOUS
<1> USE DEF StoreInv, TypeOK
<1>1. ASSUME NEW i \in ManifestId, manifests[i] # None
      PROVE  put_manifest_code(manifests[i]) = "Ok"
  BY <1>1 DEF ManifestsResolve, ManifestResolves, put_manifest_code
<1>2. ASSUME NEW v \in Existing
      PROVE  /\ versions[v] \in Version
             /\ versions[v].file_id \in FileId
             /\ versions[v].manifest_id \in ManifestId
             /\ versions[v].state \in VersionState
             /\ v \in VersionId /\ versions[v] # None
  BY <1>2 DEF Existing, Version
<1>3. ASSUME NEW v \in Existing
      PROVE  create_version_code(versions[v].file_id, v,
               versions[v].parent_version_id, versions[v].manifest_id) = "Ok"
  BY <1>2, <1>3
  DEF create_version_code, SameVersion, VersionsResolve, HistoryWellFounded,
      ParentsResolve, Existing
<1>4. ASSUME NEW v \in Existing PROVE commit_version_code(v) = "Ok"
  BY <1>2, <1>4
  DEF commit_version_code, can_transition_to, VersionState, VersionsResolve,
      ManifestsResolve, ManifestResolves
<1>5. ASSUME NEW c \in ChunkId, chunks[c] # None
      PROVE  register_chunk_code(c, chunks[c]) = "Ok"
  BY <1>5 DEF ChunksWellFormed, register_chunk_code
<1> QED
  BY <1>1, <1>3, <1>4, <1>5 DEF RetriesSucceed

(***************************************************************************)
(* A call that took effect is accepted again whenever it is repeated:      *)
(* register_chunk, put_manifest, create_version and commit_version.        *)
(***************************************************************************)
THEOREM RetriesAccepted == Spec => []RetriesSucceed
  BY InvRetries, StoreInvariant, PTL

-----------------------------------------------------------------------------
(***************************************************************************)
(* Nothing is undone.  A key keeps its file, a file its directory, an id   *)
(* its manifest or its chunk; a version only turns Committed.              *)
(***************************************************************************)
Kept ==
  /\ \A k \in IdempotencyKey :
       file_idempotency[k] # None => file_idempotency'[k] = file_idempotency[k]
  /\ \A f \in FileId :
       files[f] # None => /\ files'[f] # None
                          /\ files'[f].parent_id = files[f].parent_id
  /\ \A v \in VersionId :
       versions[v] # None =>
         \/ versions'[v] = versions[v]
         \/ /\ versions[v].state = "Candidate"
            /\ versions'[v] = [versions[v] EXCEPT !.state = "Committed"]
  /\ \A i \in ManifestId : manifests[i] # None => manifests'[i] = manifests[i]
  /\ \A c \in ChunkId : chunks[c] # None => chunks'[c] = chunks[c]

(* StoreKeeps: no step of the store undoes one before it. *)
LEMMA StoreKeeps == StoreInv /\ [Next]_vars => Kept
<1> SUFFICES ASSUME StoreInv, [Next]_vars PROVE Kept
  OBVIOUS
<1> USE DEF StoreInv, TypeOK
<1>1. CASE UNCHANGED store
  BY <1>1 DEF store, Kept
<1>2. ASSUME NEW k \in IdempotencyKey, NEW g \in File,
             file_idempotency[k] = None, InsertFile(k, g)
      PROVE  Kept
  BY <1>2 DEF InsertFile, Kept
<1>3. ASSUME NEW c \in ChunkId, NEW s \in U64,
             register_chunk_code(c, s) = "Ok", InsertChunk(c, s)
      PROVE  Kept
  BY <1>3 DEF register_chunk_code, InsertChunk, Kept
<1>4. ASSUME NEW m \in InputManifest, put_manifest_code(m) = "Ok",
             InsertManifest(m)
      PROVE  Kept
  BY <1>4 DEF put_manifest_code, InsertManifest, Kept
<1>5. ASSUME NEW w \in Version, versions[w.version_id] = None, InsertVersion(w)
      PROVE  Kept
  BY <1>5 DEF InsertVersion, Kept
<1>6. ASSUME NEW v \in VersionId, commit_version_code(v) = "Ok",
             versions[v].state # "Committed", Publish(v)
      PROVE  Kept
  <2> DEFINE f == versions[v].file_id
             w == [versions[v] EXCEPT !.state = "Committed"]
             g == [files[f] EXCEPT !.current_version_id = v]
  <2>1. versions[v] # None /\ versions[v] \in Version /\ versions[v].state = "Candidate"
    BY <1>6 DEF commit_version_code, Version, VersionState
  <2>2. f \in FileId /\ files[f] # None /\ files[f] \in File
    BY <2>1 DEF VersionsResolve, Existing, Version
  <2>3. g # None /\ g.parent_id = files[f].parent_id
    BY <2>2, NoneAssumption DEF File, OptVersion
  <2>4. /\ versions' = [versions EXCEPT ![v] = w]
        /\ files' = [files EXCEPT ![f] = g]
        /\ UNCHANGED <<file_idempotency, manifests, chunks>>
    BY <1>6, <2>1, <2>2 DEF Publish, Version
  <2> HIDE DEF f, g
  <2> QED
    BY <2>1, <2>2, <2>3, <2>4 DEF Kept
<1> QED
  BY <1>1, <1>2, <1>3, <1>4, <1>5, <1>6, StepEffects

-----------------------------------------------------------------------------
(***************************************************************************)
(* Refinement.  A step of the store is Publish of VersionHistory when it   *)
(* is a first commit, and leaves both views alone otherwise.               *)
(***************************************************************************)
LEMMA HistoryInit == Init => History!Init
  BY DEF Init, History!Init, publishedView, headView, IsCommitted

Stutter == UNCHANGED <<publishedView, headView>>

(* StutterInsertFile: readers of the history see nothing of create_file. *)
LEMMA StutterInsertFile ==
  ASSUME StoreInv, NEW k \in IdempotencyKey, NEW g \in File,
         g.current_version_id = None, InsertFile(k, g)
  PROVE  Stutter
<1>1. /\ g.file_id \in FileId /\ files[g.file_id] = None /\ g # None
      /\ files' = [files EXCEPT ![g.file_id] = g]
      /\ UNCHANGED <<versions, manifests>>
  BY NoneAssumption DEF InsertFile, File
<1>2. headView' = headView
  BY <1>1 DEF headView, StoreInv, TypeOK
<1>3. publishedView' = publishedView
  BY <1>1 DEF publishedView, IsCommitted, Resolved
<1> QED
  BY <1>2, <1>3 DEF Stutter

(* StutterInsertManifest: put_manifest changes no published snapshot. *)
LEMMA StutterInsertManifest ==
  ASSUME StoreInv, NEW m \in InputManifest, put_manifest_code(m) = "Ok",
         InsertManifest(m)
  PROVE  Stutter
<1>1. /\ m.manifest_id \in ManifestId
      /\ manifests' = [manifests EXCEPT ![m.manifest_id] = m]
      /\ UNCHANGED <<files, versions>>
      /\ manifests[m.manifest_id] \in {None, m}
  BY InputAssumption DEF InsertManifest, put_manifest_code, Manifest
<1>2. ASSUME NEW v \in VersionId, IsCommitted(v)
      PROVE  manifests'[versions[v].manifest_id] = manifests[versions[v].manifest_id]
  <2>1. /\ versions[v].manifest_id \in ManifestId
        /\ manifests[versions[v].manifest_id] # None
    BY <1>2 DEF IsCommitted, StoreInv, TypeOK, Version, VersionsResolve, Existing
  <2> QED
    BY <1>1, <2>1 DEF StoreInv, TypeOK
<1>3. publishedView' = publishedView
  BY <1>1, <1>2 DEF publishedView, IsCommitted, Resolved
<1>4. headView' = headView
  BY <1>1 DEF headView
<1> QED
  BY <1>3, <1>4 DEF Stutter

(* StutterInsertVersion: a Candidate is not part of the history. *)
LEMMA StutterInsertVersion ==
  ASSUME StoreInv, NEW w \in Version, w.state = "Candidate",
         versions[w.version_id] = None, InsertVersion(w)
  PROVE  Stutter
<1>1. /\ w.version_id \in VersionId
      /\ versions' = [versions EXCEPT ![w.version_id] = w]
      /\ UNCHANGED <<files, manifests>>
  BY DEF InsertVersion, Version
<1>2. publishedView' = publishedView
  BY <1>1 DEF publishedView, IsCommitted, Resolved, StoreInv, TypeOK
<1>3. headView' = headView
  BY <1>1 DEF headView
<1> QED
  BY <1>2, <1>3 DEF Stutter

(* PublishStep: a first commit is a step of the history. *)
LEMMA PublishStep ==
  ASSUME StoreInv, NEW v \in VersionId, commit_version_code(v) = "Ok",
         versions[v].state # "Committed", Publish(v)
  PROVE  History!Next
<1> DEFINE w == [versions[v] EXCEPT !.state = "Committed"]
           f == versions[v].file_id
           s == Resolved(v)
<1> USE DEF StoreInv, TypeOK
<1>1. versions[v] # None /\ versions[v] \in Version /\ v \in Existing
  BY DEF commit_version_code, Existing
<1>2. /\ w \in Version /\ w # None /\ w.state = "Committed" /\ w.file_id = f
      /\ w.parent_version_id = versions[v].parent_version_id
      /\ w.manifest_id = versions[v].manifest_id
  BY <1>1, NoneAssumption DEF Version, VersionState
<1>3. f \in FileId /\ files[f] # None /\ files[f] \in File
  BY <1>1 DEF VersionsResolve, Version
<1> DEFINE g == [files[f] EXCEPT !.current_version_id = v]
<1>4. g # None /\ g.current_version_id = v
  BY <1>3, NoneAssumption DEF File, OptVersion
<1>5. /\ versions' = [versions EXCEPT ![v] = w]
      /\ files' = [files EXCEPT ![f] = g]
      /\ UNCHANGED manifests
  BY <1>2, <1>3 DEF Publish
<1>6. s \in History!Snapshot /\ s.file = f
  <2>1. /\ versions[v].manifest_id \in ManifestId
        /\ versions[v].parent_version_id \in VersionId \cup {None}
    BY <1>1 DEF Version, OptVersion
  <2>2. manifests[versions[v].manifest_id] \in InputManifest
    BY <1>1, <2>1 DEF VersionsResolve, ManifestsResolve
  <2> QED
    BY <1>3, <2>1, <2>2 DEF Resolved, History!Snapshot
<1> HIDE DEF w, f, g
<1>7. publishedView[v] = None
  BY DEF publishedView, IsCommitted
<1>8. publishedView' = [publishedView EXCEPT ![v] = s]
  <2>1. IsCommitted(v)' /\ Resolved(v)' = s
    BY <1>2, <1>5 DEF IsCommitted, Resolved, f
  <2>2. ASSUME NEW u \in VersionId, u # v
        PROVE  (IsCommitted(u)' <=> IsCommitted(u)) /\ Resolved(u)' = Resolved(u)
    BY <1>5, <2>2 DEF IsCommitted, Resolved
  <2> HIDE DEF s
  <2> QED
    BY <2>1, <2>2 DEF publishedView
<1>9. headView' = [headView EXCEPT ![f] = v]
  BY <1>3, <1>4, <1>5 DEF headView
<1> QED
  BY <1>6, <1>7, <1>8, <1>9 DEF History!Next, History!Publish

(***************************************************************************)
(* The store implements VersionHistory: published snapshots never change,  *)
(* Candidates are invisible, and the head of a file moves only to a        *)
(* version published in that step.                                         *)
(***************************************************************************)
THEOREM Refinement == Spec => ImplementsHistory
<1>1. StoreInv /\ [Next]_vars => [History!Next]_<<publishedView, headView>>
  <2> SUFFICES ASSUME StoreInv, [Next]_vars PROVE History!Next \/ Stutter
    BY DEF Stutter
  <2>1. TypeOK
    BY DEF StoreInv
  <2>2. CASE UNCHANGED store
    BY <2>2 DEF store, Stutter, publishedView, headView, IsCommitted, Resolved
  <2>3. ASSUME NEW c \in ChunkId, NEW s \in U64, InsertChunk(c, s)
        PROVE  Stutter
    BY <2>3 DEF InsertChunk, Stutter, publishedView, headView, IsCommitted, Resolved
  <2> QED
    BY <2>1, <2>2, <2>3, StepEffects, StutterInsertFile, StutterInsertManifest,
       StutterInsertVersion, PublishStep
<1> QED
  BY <1>1, HistoryInit, StoreInvariant, PTL DEF Spec, ImplementsHistory, History!Spec
=============================================================================
