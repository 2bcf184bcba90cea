# SPACE: TLA+ models, checks and proofs

SPACE keeps versioned files in the cloud.  A file names a current version, a
version names a manifest, a manifest maps the bytes of the file onto immutable
chunks whose id is the BLAKE3 hash of their bytes.  A client uploads chunks and a
manifest, creates a version (a *Candidate*), commits it, and later reads the
file back range by range.  This directory models that path: the two stores, the
HTTP handlers over them, the client's calls over a failing network and its read;
and around it the lives of the two processes, client and server, and their log.

## Inventory of the system

| Component | State | Operations | Talks to | What makes it correct |
|---|---|---|---|---|
| metadata store, `cloud/metadata` | maps of files, idempotency keys, versions, manifests, chunks under one `Mutex` | nine, each one critical section | called by the API | a current version is Committed and of that file; history is acyclic; a committed version resolves; calls can be repeated; published versions never change |
| manifest validation, `contracts/src/validate.rs` | none | ten structural rules over wire-supplied `u64` | called by the store and by the client | accepts exactly the manifests that describe a file, whatever the numbers |
| object store, `objectstore` | map from chunk id to bytes under one `RwLock` | put, get, get_range, head, delete, two test faults | called by the API | serves the bytes its id addresses, never a short read |
| cloud API, `cloud/api` | none of its own; requests in flight | twelve routes, two of them with two store calls | both stores, the client | the stores agree; replies are exact and stay true; every request is answered |
| client, `client/core/src/lib.rs` | none; one call in progress | one request per method, `reassemble` many | API | a call can be repeated after any failure; server codes arrive; returns the right bytes or an error with a cause, panics for nothing but a file too large for memory, ends |
| error registry, `contracts/src/errors.rs` | none | classification tables: retry, origin, NTSTATUS; HTTP status in the API | all | what may be retried is safe to repeat; no status hides a code |
| server lifecycle, `cloud/api/src/main.rs` | serving, draining | bind, serve, drain | API | answers what it has read, drains, then stops unless a client stalls |
| client startup, `client/core/src/startup.rs`, configuration `client/config` | phase of startup | parse, load, validate, idle, shut down | file system | processes that share directories do not disturb each other, whatever I/O fails; Ctrl-C ends it |
| fault points, `faults` | registry of armed points | arm, disarm, hit | nothing yet | off in release |
| logging, `contracts/src/logging.rs` | the global layer and its guard, spans, a locked writer, a bounded channel and a worker | init, open and record a span, log an event | all | lines never mix, the schema is kept, no thread is held up |
| redaction, `contracts/src/redaction.rs` | none | format a value | logging | no secret |
| test harness, `tests/harness` | a port, a server process and a log directory per test | start, wait until healthy, drop | server processes | no process left, evidence kept, tests isolated |
| generators, corruptor, `tests`, `tools` | none | make a valid manifest, damage it | validation | every damage is caught |
| auth, chunks, database, manifests, versions under `cloud/`, WinFsp adapter | none | none: stubs | | |

What is hard here: requests of several clients interleave between the two store
calls of `put_chunk` and of `get_chunk`; clients disappear in the middle and
repeat calls whose answer they lost; version ids are chosen by clients; offsets
and lengths come from the wire and are added and cut to 32 bits; the store may be
damaged between any two reads; a peer may go silent; a request whose caller has
given up may still be served, after its own retry; Ctrl-C may come between any two
steps, also before its handler is installed; a client may not read its response;
processes share directories, where writing or removing a file may fail; threads share
one log, whose channel drops what it has no room for.  `PROJECT.json` lists each
hazard at its line with the properties that would catch it.

## Modules

| Module | Models | Built on |
|---|---|---|
| `Contracts` | ids, `u64` | |
| `ManifestValidation` | `model.rs`, `validate.rs` | `Contracts` |
| `MetadataStore` | `cloud/metadata` | `ManifestValidation` |
| `VersionHistory` | what readers are promised: a set of published, immutable snapshots and a head per file | |
| `ObjectStore` | `objectstore` | `Contracts` |
| `ChunkRange` | the Range arithmetic and replies of `get_chunk` | `ObjectStore` |
| `CloudApi` | the handlers, requests in flight | `MetadataStore`, `ChunkRange` |
| `ErrorRegistry` | the tables of `errors.rs` and `status_for` | |
| `CloudClient` | `CloudClient`'s calls as attempts over a failing network, composed with the server | `CloudApi`, `ErrorRegistry` |
| `Reassembly` | `CloudClient::reassemble` against the server's two steps and a failing environment | `ManifestValidation`, `ChunkRange` |
| `Corruptor` | `generate_manifest` and the corruptor's edits, whose results `Reassembly` reads | `Reassembly` |
| `Logging` | `contracts/src/logging.rs`: threads, spans, the layer, the channel and its worker | |
| `ClientStartup` | `client/main`, `startup.rs`, `client/config`: several client processes on one machine | |
| `ServerLifecycle` | `cloud/api/src/main.rs`: bind, serve, drain, with the connections | |
| `MC...` | the small instances TLC checks | |
| `MetadataStoreProofs` | theorems about `MetadataStore` | `MetadataStore` |
| `ManifestProofs` | lemmas about the operators of `ManifestValidation` | `ManifestValidation` |
| `CloudApiProofs` | theorems about `CloudApi` | `CloudApi`, `MetadataStoreProofs`, `ManifestProofs` |
| `CloudClientProofs` | theorems about `CloudClient` | `CloudClient`, `CloudApiProofs` |
| `ReassemblyProofs` | theorems about `Reassembly`, the validator and the corruptor | `Corruptor`, `ManifestProofs` |
| `ClientStartupProofs`, `LoggingProofs`, `ServerLifecycleProofs` | theorems about those modules | the module |

Correspondence of state.  A map of the code is a total function with `None` for a
missing entry.  `files`, `file_idempotency`, `versions`, `manifests`, `chunks`
are the fields of `Inner`; `chunks` keeps only the size, since the key is the
id.  `blobs` is the map of `FakeObjectStore`.  `resp` is what the last metadata
call returned.  `slot[r]` is one HTTP exchange: its request, the handler's local
`size`, its reply.  In `Reassembly`, `pc`, `i`, `sum`, `out` are the locals of
`reassemble` and of the loop of `inv05`, `size` and `reply` those of the server's
handler.

Correspondence of steps.  An operation of the metadata store holds the `Mutex`
for its whole body and never awaits inside it, so it is one action; `create_file`
checks the name before it takes the lock, which reads no shared state.  An
operation of the object store holds the `RwLock`.  A handler with one store call
is one step; `put_chunk` and `get_chunk` are two.  A dropped connection drops the
handler's future at an await: before the first store call, or between `head` and
`get_range`, where the second lock is awaited.  `put_chunk` does not yield between
its two calls: the `Mutex` of the metadata store is a blocking one and nothing
else is awaited, so it is not abandoned there; other threads do run there.

In `ClientStartup` a configuration file is a record of what the checks tell apart
and its check is one step, except for `check_paths_writable`, where writing and
removing a probe are steps of their own because other processes see the file.
Either may fail: a write with the file already there, which ends the process, or a
removal, whose error the code ignores.  `io_errors` remembers the failures for the
properties.  A record says whether a table of the file has a key that looks like a
credential and whether its fields are those of `Config`; that
`deny_unknown_fields` rejects all others is serde's, and is assumed.

`ServerLifecycle` looks at a connection only as graceful shutdown does: queued,
open without a request, waiting for the rest of a body, in its handler, responding,
closed; what axum and tokio do there is taken from how `main` uses them.  The
response is handed to the socket at once or waits for the client to read it
(`ReadResponse`), and the connection is in progress until then.  `AwaitSignal` is the
first poll of the task axum spawns for `shutdown_signal`: until then the server may
already accept and answer, and Ctrl-C kills it.

In `Reassembly` the buffer is `vec(total_size)`: above `isize::MAX` it panics, above
`Memory` it may find no memory and abort; both are the result `Aborted`.

In `CloudClient` a call is a sequence of attempts, each an exchange in a slot of
`CloudApi`.  `Fail` is `net_error`: the caller forgets the exchange and may repeat
the call or make another, while the exchange goes on at the server, is dropped by
it, or has been served already.  `retryable` of `errors.rs` decides which outcomes
may be repeated; the repository has the table and not yet the engine that reads it,
so `Retry` may come or not.  `effect` remembers what the first successful attempt
said, for the properties only.  `Decode` is the end of `send` and of
`get_chunk_range`.

In `Logging` the two calls at the end of `init` are steps of their own, the fields
of a line are merged in one step (they are local to the thread), and a line is
`Pieces` writes under the lock.  A write to the non-blocking writer is one message
for the worker, or is dropped.  What `tracing` and `tracing_appender` do is taken
from how the code uses them.  The request span of the API, which is entered across
an await, is not followed from thread to thread: a thread's spans are its own.

What is abstracted: timestamps (no operation reads them); names, as ranks in the
order of their text with a set of illegal ones; the text form of ids (`WellFormed`
holds the chunk ids that parse, `path` and `json` say whether a path or a body
does); headers other than Range, so the request id too; messages of errors; the text
of log lines, whose fields are a function from names to values.
`list_children` returns any order of files with equal names, as the stable sort of
a hash map's values does.

## Runs

`tlc -config X.cfg M` for the pairs below.

| Run | Config | Shows |
|---|---|---|
| metadata | `MCMetadataStore.cfg` | the store's invariants, safe retries, and that it implements `VersionHistory` |
| chunks | `MCCloudApi_chunks.cfg` | uploads and downloads in flight: registry and object store agree, an upload is never half done, ranges are exact, every request is answered |
| client | `MCCloudClient.cfg` | two callers building, publishing and reading over a failing network: repeats name what the first attempt made and change nothing, codes arrive, every committed segment can be served, replies stay true |
| read | `MCReassembly_read.cfg` | the client's read under faults: the copy stays in bounds, no wrong whole chunk, no error without a cause, no panic but for a file too large for memory, it ends; `validate_manifest` accepts exactly the manifests that describe a file byte by byte; every edit of the corruptor is caught |
| shortread | `MCCloudApi_shortread.cfg` | violated: the length of a Range is cut to 32 bits |
| lostcode | `MCCloudClient_lostcode.cfg` | violated: a rejection by an extractor is plain text, and reaches the caller as ProtocolViolation |
| corrupt | `MCReassembly_corrupt.cfg` | violated: corruption in a chunk used in part is returned |
| startup | `MCClientStartup.cfg` | clients starting together: probe files do not disturb each other, one that stays has a kill or an I/O error behind it, Ctrl-C ends the process |
| serve | `MCServerLifecycle.cfg` | no request that was read is cut off, only a client that stalls while sending or reading holds up the drain |
| deadline | `MCServerLifecycle_deadline.cfg` | violated: the drain has no deadline |
| logging | `MCLogging.cfg` | threads that initialise and use one log: the pieces of different events never mix, the schema is kept, the installed layer keeps its worker, nobody waits for ever |
| gluedlines | `MCLogging_lines.cfg` | violated: a dropped piece or newline leaves a line that is not one JSON object |

The five violations are disagreements between the code and what the repository
says of it; `PROJECT.json` quotes both sides.  `deadline` also stands for "No code
path blocks indefinitely" (`contracts/src/errors.rs:9`).  The client breaks that
sentence too: it sets no timeout, and `Terminates` has to except a silent peer.
`LinesWhole` and `gluedlines` belong together: what goes into one channel stays
apart and in order, but a drop takes a piece of a line and not the line.

### Bounds

- `metadata`: two files, two versions, two manifest ids with five manifests
  (shared chunks, other content under a used id, an empty file, lengths that only
  sum up modulo the word size, a malformed id), two keys, sizes up to 2.  Two of
  each kind are what the properties relate: a version and its parent, two files a
  parent could be confused between, two keys, two contents of one id.
- `chunks`: two requests in flight, which is enough for every pair of handlers to
  interleave; `u64::MAX` is 7 and `u32::MAX` is 3, so both the cut to 32 bits and
  the overflow of a full range happen with bodies of three bytes.
- `client`, `lostcode`: two callers, two exchanges, one failed attempt
  (`MaxFailures`), one file with two versions, three manifests of which two claim
  one id, two chunk bodies of which one is over the body limit.  One failure is
  enough for an attempt to be served before, during or after its own retry and
  after the other caller's calls.  `chunks` and `client` use different requests:
  ranges of every kind and refused requests there, versions and commits here.
- `read`, `corrupt`: ten manifests of up to three entries (whole, partial, shared,
  overstated, too long, empty, too large for a Vec, invalid) are read to the end,
  with every set of stored chunks and two faults, `u64::MAX` 3, `u32::MAX` 1,
  `isize::MAX` 2 and `Memory` 1: a file of three bytes has no buffer, one of two may
  or may not have one.  Two faults
  damage two chunks, or one chunk twice (a byte flipped and back).  `read` also
  starts from all manifests of at most two entries, with all offsets and lengths up
  to `u64::MAX`, two chunk offsets (one for the id that does not parse) and five
  chunk lists (every rule speaks of one
  entry or of two neighbours), and from the generated manifests of files of up to
  `MaxFile` bytes with every edit; these find an empty store, since they are about
  validation.
- `logging`, `gluedlines`: two threads that both initialise, one with a directory and one with a
  stream, three lines of two pieces, a channel of two messages, two nested spans.
  The channel is full after one line, so a second one loses its end, its start or
  all of it.
- `startup`: two processes, two directories of which any subset is usable, seventeen
  command lines, a file for each way of failing (bounds are hit at 64 and 65
  threads, 4095 and 4096 bytes), one Ctrl-C per process, the rules of a release
  build.  Any write or removal of a probe may fail.  Two processes are enough for one
  to overwrite, remove or inherit the probe of the other.
- `serve`, `deadline`: two connections, one of which can stall while the other is
  served, and two signals, so that the second meets a draining server.  The handler
  is installed at any moment after the server begins to serve.

Symmetry is used for model values that no operator orders or chooses among.
Deadlock is checked except where the modelled processes end: the runs of
`Reassembly`, `ClientStartup`, `ServerLifecycle` and `Logging`.

### Fairness

`FairApiSpec` assumes weak fairness of the handler's steps in each slot: the
runtime polls every handler it has not dropped, and no lock is held across an
await.  `FairSpec` of `Reassembly` assumes it of the client's and the server's
steps; faults, broken connections and silence are never forced.  `Terminates`
is conditional on the peer not going silent.
`ClientStartup` assumes that the operating system runs every process, and nothing
of Ctrl-C.  `ServerLifecycle` assumes that the runtime polls `main`, the task of
`shutdown_signal` and every connection's task; clients may leave a request half sent
or a response unread, which is why `DrainHeldOnlyByClient` is conditional and
`DrainsWithinDeadline` fails.
`Logging` assumes that the scheduler runs every thread and the worker; nothing makes
a thread log or the process end.  `CloudClient` is checked for safety only.

## Proofs

`tlapm M.tla` for each of `MetadataStoreProofs`, `ManifestProofs`, `CloudApiProofs`,
`CloudClientProofs`, `ReassemblyProofs`, `ClientStartupProofs`, `LoggingProofs` and
`ServerLifecycleProofs`; none takes more than a few minutes.  Every safety property
a passing run checks is a theorem, for all values of the constants.

| Theorem | States |
|---|---|
| `TypeCorrect`, `CurrentCommitted`, `WellFoundedHistory`, `KeysAndFiles`, `CommittedResolves` | the invariants of the metadata store |
| `RetriesAccepted` | `RetriesSucceed`, an action property |
| `Refinement` | `ImplementsHistory` |
| `ApiTypeCorrect`, `RegistryIsBacked`, `UploadsComplete`, `RepliesRemainTrue`, `RangesExact`, `CommittedReadable` | the invariants of the API, for any number of exchanges, chunks and ranges |
| `ApiIsStore` | `ApiSpec => Spec`: behind the handlers the metadata store is the one its theorems are about |
| `ClientIsApi` | `ClientSpec => ApiSpec`: callers that time out and repeat only do to the server what `CloudApi` allows |
| `EffectOnce` | `OnceOnly`: only the first success of a call changes the stores |
| `AttemptsAgree` | `RepeatsAgree`: later attempts name what the first made |
| `ServerCodesTravel` | `CodesTravel` |
| `ValidatorCorrect` | a manifest passes `validate_manifest` exactly when it describes a file byte by byte |
| `ReadTypeCorrect`, `CopyInBounds`, `ReadExact`, `ErrorsHaveCause`, `ValidatorIsExact` | the invariants of the read |
| `EditsAreCaught` | `CorruptionsCaught`: generated manifests are valid, edited ones never |
| `StartupTypeCorrect`, `ProbesRemoved`, `RefusalsAreOwn` | the invariants of the startup, for any number of processes |
| `LogTypeCorrect`, `LinesNeverMix`, `SchemaAlwaysKept`, `InstalledWorkerKept` | the invariants of the log, for any number of threads, spans and pieces |
| `DrainsOnSignalOnly` | `TypeOK` of the server's life |

### Assumptions

The constants are arbitrary but for these, which TLC evaluates on every run:

- `u64::MAX` and `u32::MAX` are naturals, and the wider one ends where the
  narrower does (`WidthAssumption`); stored bodies are byte strings no longer than
  `u64::MAX` (`BytesAssumption`).
- Different bodies have different addresses (`CollisionFree`): BLAKE3 is not
  broken.  `RegistryBacked`, `ResultExact` and all that speak of content rest on it.
- What clients send has the declared types (`InputAssumption`, `RequestAssumption`,
  `CallAssumption`), and `None` and the lists of malformed ids and illegal names are
  what they are called; `FileId` is finite, so that a listing is a sequence.
- What always fits into memory is no larger than `isize::MAX` (`MemoryAssumption`).
- A flipped or cut body is a body (`FaultAssumption`); a read starts with chunks
  stored as they are or absent (`StoredAssumption`).
- Generated file sizes are `u64` and generated chunks have good ids, the dangling
  one another (`GeneratorAssumption`, `DanglingAssumption`).
- Command lines are strings and what they name is a path, as the default is
  (`StartupAssumption`); a line has at least one piece, the channel room for one
  (`LoggingAssumption`); `MaxSignalsAssumption`, `FailureAssumption`.

### Inductive invariants

`StoreInv`.  The checked invariants, and: every version, Candidate or Committed,
belongs to a file and names a stored manifest (`VersionsResolve`); every stored
manifest was submitted, is valid and has its chunks registered
(`ManifestsResolve`); every registered chunk id parses (`ChunksWellFormed`).
`CommittedResolvable` speaks of Committed versions only and is not inductive:
nothing in it says that the manifest a Candidate names will be there when it is
committed.  `StepEffects` reduces the nine operations to six effects.  Acyclicity
is "every non-empty set of versions has a member whose parent is outside it": a new
version has an existing parent and is no version's parent yet, so adding it to a
set leaves the old member as witness.

`ApiInv`.  `StoreInv`, `RegistryBacked`, and: a blob has the address it is stored
under (`BlobsVerified`); what a handler did or read before its second lock is still
so when it goes on, and what it replied is still so (`SlotsHold`).  `Told` says for
each operation what a success tells; it is kept because versions, manifests, chunks,
blobs and keys are only added, and a Committed version never changes.

`ClientInv`.  `ApiInv`, and `CallsHold`: all attempts of a caller carry one request,
and what the first success said is still so (`Told`) while an attempt of that
request can be served.  A request whose answer is known to hold is answered the same
way again and changes nothing; `OnceOnly` and `RepeatsAgree` follow.

`ReadInv`.  The running sum of `inv05` is where its last entry ends, because the
rules before it make the entries tile the file (`Tiles`); while entries are read
the manifest is valid; what was copied so far is exact, and a reply about an
undamaged chunk is what the server would say now.  That `Tiles`, the total and the
rules after the sum are together `ValidManifest` (`ValidIs`) is also how the corruptor's
edits are refuted: each breaks one of them.

`StartupInv`.  The checked invariants, that the arguments left to parse are those of
a command line (`ArgsLeft`), and that a process with a probe of its own wrote it into
a usable directory (`ProbedUsable`), so that a removal that fails names one.

`LogInv`.  Who may fill `GUARD` and the layer (`Installed`); that each thread writes
a line of its own and the holder of the lock is the one that writes (`Threads`); and
of the log with the queue behind it (`Blocks`): a line is one block in order, one
without a gap unless a piece was dropped, and a line being written is its end.
`LinesWhole` alone says nothing of the pieces still in the channel.

Statements over sequences of any length (sums, searches, stacks of spans, lists of
chunks) are proved with `NatInductionSet`, induction stated for a set of numbers,
or with the minimum of a set; recursive functions are unfolded one step at a time.
Two properties changed when they were proved.  `RepeatsAgree` is now about every
success of a repeated call, as an action property: the invariant it replaces, over
the replies in the slots, held only because the run has two of them.  `SchemaKept`
says that a `message` given as null stays null, as the code has it.

### Only model-checked

Liveness: `RequestsAnswered`, `Terminates`, `SignalStops`, `NoRequestCutOff`,
`DrainHeldOnlyByClient`, `LogSettles`.  They need fairness and ENABLED, which the
proof system does not handle.

## Plan

1. Contracts, validation, metadata store, history, its proofs (done).
2. Object store, API, client read (done).
3. Client startup and configuration, the server's life (done).
4. The client's calls over a failing network with the error registry, the test
   tools that damage manifests, the log (done).
5. Proofs of the safety properties of all of them (done).
6. Left: the safety part of the liveness arguments (which steps a waiting handler,
   connection or thread can wait for), stated as invariants and proved.

## Not modelled

- Redaction and the text forms of ids: pure formatting and parsing of one value.
- The request id of the API: it is logged and echoed and decides nothing.
- The fault-point registry: no code consults it, so arming a point has no effect.
- The rules 11 and 12 of `validate.rs` as functions: only their own tests call them.
  What they say of versions is checked of the store itself.
- `exists` of the object store, which nothing calls, and its conformance suite, the
  test harness, generated byte streams, trees and fixtures: test support.
- The WinFsp adapter and the five empty cloud crates: no behaviour.
- Persistence and crashes of the server: the stores are in memory, so a restart is
  `Init`.
