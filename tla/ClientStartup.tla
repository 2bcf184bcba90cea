--------------------------- MODULE ClientStartup ---------------------------
(***************************************************************************)
(* client/core/src/startup.rs and client/config: a client process from its *)
(* arguments to its exit.  Several processes start on one machine and      *)
(* share the directories their configurations name; each directory is      *)
(* probed by writing a file into it and removing it again.  Ctrl-C may     *)
(* come at any moment, and so may an I/O error.                            *)
(*                                                                         *)
(* A configuration file is what the checks tell apart: whether it is TOML, *)
(* whether a table of it has a key that looks like a credential, whether   *)
(* its fields are the ones Config declares, and the values of those        *)
(* fields.  The deadline of the shutdown cannot pass: the future under     *)
(* tokio::time::timeout ends at its first poll.                            *)
(***************************************************************************)
EXTENDS Naturals, Sequences

CONSTANTS
  Client,     \* processes
  Dir,        \* directories
  Path,       \* paths of configuration files
  ConfigAt,   \* the file at each path, or None
  Argv,       \* the command lines they are started with
  Release,    \* TRUE in a build without debug assertions
  None

(* What follows "--config" on a command line is a path. *)
PathsNamed(args) ==
  \A k \in 1 .. (Len(args) - 1) : args[k] = "--config" => args[k + 1] \in Path

ASSUME StartupAssumption ==
  /\ "config.toml" \in Path
  /\ \A args \in Argv : args \in Seq(STRING) /\ PathsNamed(args)
  /\ None \notin Nat

VARIABLES
  pc,
  argv,           \* the arguments not yet looked at
  print_version,
  config,         \* the path of the configuration file
  at,             \* which of the four paths is being checked
  usable,         \* the directories that exist and accept a file
  logs_ok,        \* the directory SPACE_CLIENT_LOG_DIR names can be used
  probes,         \* the directories with a .space-write-probe in them
  io_errors,      \* the writes and removals of a probe that failed
  signalled,      \* Ctrl-C was pressed
  exit,           \* the exit status, None while running
  code            \* the error code printed

env  == <<usable, logs_ok>>
disk == <<probes, io_errors>>
vars == <<pc, argv, print_version, config, at, usable, logs_ok, probes,
          io_errors, signalled, exit, code>>

-----------------------------------------------------------------------------
(***************************************************************************)
(* Config::load: the checks of the text and of the values.                 *)
(***************************************************************************)
Bounds ==
  [worker_threads |-> <<1, 64>>, callback_timeout_ms |-> <<100, 300000>>,
   shutdown_deadline_ms |-> <<100, 120000>>,
   chunk_size_bytes |-> <<4096, 1073741824>>,
   max_concurrent_requests |-> <<1, 256>>, connect_timeout_ms |-> <<100, 120000>>,
   request_timeout_ms |-> <<100, 600000>>, max_retries |-> <<0, 20>>,
   backoff_base_ms |-> <<1, 60000>>, foreground_priority |-> <<1, 100>>,
   background_priority |-> <<1, 100>>, max_prefetch_requests |-> <<0, 64>>]

one_of ==
  [hash_algorithm |-> {"blake3"}, eviction_policy |-> {"lru", "slru"},
   wal_fsync_policy |-> {"always", "interval", "never"},
   auth_mode |-> {"token", "none"},
   level |-> {"trace", "debug", "info", "warn", "error"}, format |-> {"json"}]

range(f, key) == f.num[key] \in Bounds[key][1] .. Bounds[key][2]

validate(f) ==
  /\ \A key \in DOMAIN Bounds : range(f, key)
  /\ \A key \in DOMAIN one_of : f.choice[key] \in one_of[key]
  /\ f.num["max_bytes"] >= f.num["chunk_size_bytes"]
  /\ f.num["max_dirty_bytes"] >= f.num["chunk_size_bytes"]
  /\ f.num["background_priority"] < f.num["foreground_priority"]
  /\ f.letter_ok /\ f.url_ok

(* walk_keys descends into tables, not into arrays. *)
reject_secret_keys(f) == f.secret_key

(* deny_unknown_fields and the types of the fields, in arrays too. *)
KnownFields(f) == f.fields_ok

from_str_validated(f) ==
  IF ~f.toml \/ reject_secret_keys(f) \/ ~KnownFields(f) THEN "CONFIG_INVALID"
  ELSE IF f.config_version # 1 THEN "CONFIG_UNSUPPORTED_VERSION"
  ELSE IF ~validate(f) THEN "CONFIG_INVALID"
  ELSE "Ok"

check_release_only_rules(f) ==
  Release => f.choice["wal_fsync_policy"] # "never" /\ f.choice["auth_mode"] # "none"

-----------------------------------------------------------------------------
Init ==
  /\ argv \in [Client -> Argv]
  /\ usable \in SUBSET Dir
  /\ logs_ok \in BOOLEAN
  /\ pc = [c \in Client |-> "args"]
  /\ print_version = [c \in Client |-> FALSE]
  /\ config = [c \in Client |-> "config.toml"]
  /\ at = [c \in Client |-> 1]
  /\ probes = {} /\ io_errors = {}
  /\ signalled = [c \in Client |-> FALSE]
  /\ exit = [c \in Client |-> None]
  /\ code = [c \in Client |-> None]

(* The exit status of a process that a signal has ended. *)
Interrupted == 130

Goto(c, to) == pc' = [pc EXCEPT ![c] = to]

Exit(c, status, line) ==
  /\ Goto(c, "exited")
  /\ exit' = [exit EXCEPT ![c] = status]
  /\ code' = [code EXCEPT ![c] = line]

(* parse_args, one argument at a time. *)
ParseArg(c) ==
  LET args == argv[c]
  IN  /\ pc[c] = "args" /\ args # <<>>
      /\ \/ /\ Head(args) \in {"--version", "-V"}
            /\ print_version' = [print_version EXCEPT ![c] = TRUE]
            /\ argv' = [argv EXCEPT ![c] = Tail(args)]
            /\ UNCHANGED <<pc, config, exit, code>>
         \/ /\ Head(args) = "--config" /\ Len(args) > 1
            /\ config' = [config EXCEPT ![c] = args[2]]
            /\ argv' = [argv EXCEPT ![c] = SubSeq(args, 3, Len(args))]
            /\ UNCHANGED <<pc, print_version, exit, code>>
         \/ /\ \/ Head(args) = "--config" /\ Len(args) = 1
               \/ Head(args) \notin {"--version", "-V", "--config"}
            /\ Exit(c, 2, "INVALID_PARAMETER")
            /\ UNCHANGED <<argv, print_version, config>>
      /\ UNCHANGED <<at, env, disk, signalled>>

(* Fault: prepare goes on with a configuration that was rejected. *)
Prepare_rejected(c) ==
  /\ pc[c] = "args" /\ argv[c] = <<>>
  /\ ~print_version[c]
  /\ ConfigAt[config[c]] # None
  /\ Goto(c, "paths")
  /\ UNCHANGED <<argv, print_version, config, at, env, disk, signalled, exit, code>>

(* prepare: the version, or the configuration up to its paths. *)
Prepare(c) ==
  LET f == ConfigAt[config[c]]
  IN  /\ pc[c] = "args" /\ argv[c] = <<>>
      /\ \/ /\ print_version[c]
            /\ Exit(c, 0, None)
         \/ /\ ~print_version[c]
            /\ f = None
            /\ Exit(c, 1, "CONFIG_MISSING")
         \/ /\ ~print_version[c]
            /\ f # None
            /\ from_str_validated(f) # "Ok"
            /\ Exit(c, 1, from_str_validated(f))
         \/ /\ ~print_version[c]
            /\ f # None
            /\ from_str_validated(f) = "Ok"
            /\ Goto(c, "paths")
            /\ UNCHANGED <<exit, code>>
      /\ UNCHANGED <<argv, print_version, config, at, env, disk, signalled>>

(***************************************************************************)
(* check_paths_writable: each path must be a directory; a probe is written *)
(* into it, overwriting one that is already there, and removed.  The write *)
(* may fail before the file is there or after (a full disk), and the       *)
(* removal for any reason, which is ignored; that another process was      *)
(* faster is one.  Only the name of the file counts: it exists from the    *)
(* moment the file is opened, and removing it under another process that   *)
(* still has it open takes the name away at once (POSIX semantics, which   *)
(* Windows has too from version 1809).                                     *)
(***************************************************************************)
PathOf(c) == ConfigAt[config[c]].paths[at[c]]

IoError(c, call) ==
  io_errors' = io_errors \cup {[client |-> c, dir |-> PathOf(c), call |-> call]}

(* Fault: the probe must not exist yet. *)
WriteProbe_exclusive(c) ==
  /\ pc[c] = "paths"
  /\ \/ /\ PathOf(c) \in usable \ probes
        /\ probes' = probes \cup {PathOf(c)}
        /\ Goto(c, "probed")
        /\ UNCHANGED <<io_errors, exit, code>>
     \/ /\ PathOf(c) \in usable \ probes
        /\ probes' \in {probes, probes \cup {PathOf(c)}}
        /\ IoError(c, "write")
        /\ Exit(c, 1, "CONFIG_INVALID")
     \/ /\ PathOf(c) \notin usable \ probes
        /\ Exit(c, 1, "CONFIG_INVALID")
        /\ UNCHANGED disk
  /\ UNCHANGED <<argv, print_version, config, at, env, signalled>>

WriteProbe(c) ==
  /\ pc[c] = "paths"
  /\ \/ /\ PathOf(c) \in usable
        /\ probes' = probes \cup {PathOf(c)}
        /\ Goto(c, "probed")
        /\ UNCHANGED <<io_errors, exit, code>>
     \/ /\ PathOf(c) \in usable
        /\ probes' \in {probes, probes \cup {PathOf(c)}}
        /\ IoError(c, "write")
        /\ Exit(c, 1, "CONFIG_INVALID")
     \/ /\ PathOf(c) \notin usable
        /\ Exit(c, 1, "CONFIG_INVALID")
        /\ UNCHANGED disk
  /\ UNCHANGED <<argv, print_version, config, at, env, signalled>>

(* Fault: the probe of the last directory stays. *)
RemoveProbe_but_last(c) ==
  /\ pc[c] = "probed"
  /\ \/ /\ probes' = IF at[c] = 4 THEN probes ELSE probes \ {PathOf(c)}
        /\ UNCHANGED io_errors
     \/ UNCHANGED probes /\ IoError(c, "remove")
  /\ at' = IF at[c] = 4 THEN at ELSE [at EXCEPT ![c] = @ + 1]
  /\ Goto(c, IF at[c] = 4 THEN "checked" ELSE "paths")
  /\ UNCHANGED <<argv, print_version, config, env, signalled, exit, code>>

RemoveProbe(c) ==
  /\ pc[c] = "probed"
  /\ \/ probes' = probes \ {PathOf(c)} /\ UNCHANGED io_errors
     \/ UNCHANGED probes /\ IoError(c, "remove")
  /\ at' = IF at[c] = 4 THEN at ELSE [at EXCEPT ![c] = @ + 1]
  /\ Goto(c, IF at[c] = 4 THEN "checked" ELSE "paths")
  /\ UNCHANGED <<argv, print_version, config, env, signalled, exit, code>>

(* The release-only rules, then logging::init, which panics when the       *)
(* appender cannot be built.                                               *)
Start(c) ==
  LET f == ConfigAt[config[c]]
  IN  /\ pc[c] = "checked"
      /\ \/ /\ ~check_release_only_rules(f)
            /\ Exit(c, 1, "CONFIG_INVALID")
         \/ /\ check_release_only_rules(f)
            /\ ~logs_ok
            /\ Exit(c, 101, None)
         \/ /\ check_release_only_rules(f)
            /\ logs_ok
            /\ Goto(c, "ready")
            /\ UNCHANGED <<exit, code>>
      /\ UNCHANGED <<argv, print_version, config, at, env, disk, signalled>>

(* ctrl_c() is polled for the first time, which installs the handler. *)
AwaitSignal(c) ==
  /\ pc[c] = "ready"
  /\ Goto(c, "idle")
  /\ UNCHANGED <<argv, print_version, config, at, env, disk, signalled, exit, code>>

Shutdown(c) ==
  /\ pc[c] = "shutdown"
  /\ Exit(c, 0, None)
  /\ UNCHANGED <<argv, print_version, config, at, env, disk, signalled>>

(* Fault: a signal before the process is idle is noticed and forgotten. *)
Ctrl_C_early_lost(c) ==
  /\ pc[c] # "exited" /\ ~signalled[c]
  /\ signalled' = [signalled EXCEPT ![c] = TRUE]
  /\ \/ pc[c] = "idle" /\ Goto(c, "shutdown")
     \/ pc[c] # "idle" /\ UNCHANGED pc
  /\ UNCHANGED <<argv, print_version, config, at, env, disk, exit, code>>

(* Ctrl-C: before the handler is installed it ends the process. *)
Ctrl_C(c) ==
  /\ pc[c] # "exited" /\ ~signalled[c]
  /\ signalled' = [signalled EXCEPT ![c] = TRUE]
  /\ \/ pc[c] = "idle" /\ Goto(c, "shutdown") /\ UNCHANGED <<exit, code>>
     \/ pc[c] # "idle" /\ Exit(c, Interrupted, None)
  /\ UNCHANGED <<argv, print_version, config, at, env, disk>>

Run(c) ==
  \/ ParseArg(c) \/ Prepare(c)
  \/ WriteProbe(c) \/ RemoveProbe(c)
  \/ Start(c) \/ AwaitSignal(c) \/ Shutdown(c)

Next == \E c \in Client : Run(c) \/ Ctrl_C(c)

Spec == Init /\ [][Next]_vars

(* The operating system runs every process. *)
FairSpec == Spec /\ \A c \in Client : WF_vars(Run(c))

-----------------------------------------------------------------------------
Phase == {"args", "paths", "probed", "checked", "ready", "idle", "shutdown", "exited"}

(* TypeOK: the variables have the types of the code, a process has an exit *)
(* status exactly when it has exited, and it is past the loading of its    *)
(* configuration only with a file that passed.                             *)
TypeOK ==
  /\ pc \in [Client -> Phase]
  /\ config \in [Client -> Path]
  /\ at \in [Client -> 1 .. 4]
  /\ probes \subseteq usable
  /\ usable \subseteq Dir
  /\ io_errors \subseteq [client : Client, dir : usable, call : {"write", "remove"}]
  /\ exit \in [Client -> {None, 0, 1, 2, 101, Interrupted}]
  /\ \A c \in Client :
       /\ exit[c] # None <=> pc[c] = "exited"
       /\ pc[c] \notin {"args", "exited"} =>
            /\ ConfigAt[config[c]] # None
            /\ from_str_validated(ConfigAt[config[c]]) = "Ok"

(* NoProbeLeft: however the checks of several processes interleave on the  *)
(* same directories, a probe file is there only while some process is      *)
(* between writing and removing it, where one was killed in between, or    *)
(* where the write or the removal of a probe failed.                       *)
NoProbeLeft ==
  \A d \in probes :
    \/ \E c \in Client : /\ pc[c] = "probed" \/ exit[c] = Interrupted
                         /\ ConfigAt[config[c]] # None
                         /\ PathOf(c) = d
    \/ \E e \in io_errors : e.dir = d

(* StartupIndependent: a process is refused only for its own configuration,*)
(* a directory that cannot be used, or a write of its own that failed,     *)
(* never because another process is probing the same directory, was killed *)
(* while it did, or could not remove its probe.                            *)
StartupIndependent ==
  \A c \in Client :
    exit[c] = 1 =>
      LET f == ConfigAt[config[c]]
      IN  \/ f = None
          \/ from_str_validated(f) # "Ok"
          \/ ~check_release_only_rules(f)
          \/ \E k \in 1 .. 4 : f.paths[k] \notin usable
          \/ \E e \in io_errors : e.client = c /\ e.call = "write"

(* SignalStops: Ctrl-C ends the process, whenever it comes. *)
SignalStops == \A c \in Client : signalled[c] ~> pc[c] = "exited"
=============================================================================
