-------------------------- MODULE MCClientStartup --------------------------
(***************************************************************************)
(* Two processes, two directories, and one configuration file per kind of  *)
(* check: the good one, one that shares only a directory with it, and one  *)
(* for each way of failing.                                                *)
(***************************************************************************)
EXTENDS ClientStartup

CONSTANTS d1, d2

Good ==
  [toml |-> TRUE, secret_key |-> FALSE, fields_ok |-> TRUE, config_version |-> 1,
   letter_ok |-> TRUE, url_ok |-> TRUE, paths |-> <<d1, d1, d2, d2>>,
   num |-> [worker_threads |-> 64, callback_timeout_ms |-> 100,
            shutdown_deadline_ms |-> 10000, chunk_size_bytes |-> 4096,
            max_bytes |-> 4096, max_dirty_bytes |-> 4096,
            max_concurrent_requests |-> 16, connect_timeout_ms |-> 10000,
            request_timeout_ms |-> 60000, max_retries |-> 0,
            backoff_base_ms |-> 200, foreground_priority |-> 2,
            background_priority |-> 1, max_prefetch_requests |-> 64],
   choice |-> [hash_algorithm |-> "blake3", eviction_policy |-> "slru",
               wal_fsync_policy |-> "always", auth_mode |-> "token",
               level |-> "info", format |-> "json"]]

Files ==
  [good |-> Good,
   other |-> [Good EXCEPT !.paths = <<d2, d2, d2, d2>>],
   not_toml |-> [Good EXCEPT !.toml = FALSE],
   secret |-> [Good EXCEPT !.secret_key = TRUE, !.fields_ok = FALSE],
   typo |-> [Good EXCEPT !.fields_ok = FALSE],
   v2 |-> [Good EXCEPT !.config_version = 2],
   threads |-> [Good EXCEPT !.num.worker_threads = 65],
   cache |-> [Good EXCEPT !.num.max_bytes = 4095],
   fsync |-> [Good EXCEPT !.choice.wal_fsync_policy = "never"],
   absent |-> None]

MCPath == DOMAIN Files \cup {"config.toml", "--version"}
MCConfigAt == [p \in MCPath |-> IF p \in DOMAIN Files THEN Files[p] ELSE None]

MCArgv ==
  {<<"--config", p>> : p \in DOMAIN Files}
  \cup {<<>>, <<"--config">>, <<"--bogus">>, <<"-V", "--config", "good">>,
        <<"--config", "--version">>, <<"--config", "absent", "--config", "other">>}
=============================================================================
