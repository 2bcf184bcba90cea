--------------------------- MODULE VersionHistory ---------------------------
(***************************************************************************)
(* What the metadata store promises its readers (ADR-0006, invariants 10   *)
(* and 11): a file has a head, every snapshot that was ever a head stays   *)
(* published with the content it was published with, and the only change   *)
(* is to publish one new snapshot, which becomes the head of its file in   *)
(* the same step.                                                          *)
(***************************************************************************)
CONSTANTS
  FileId, VersionId,
  Content,   \* what a snapshot resolves to
  None

VARIABLES
  published, \* the snapshot each version id names, once it is published
  head       \* the version each file shows its readers

Snapshot == [file : FileId, parent : VersionId \cup {None}, content : Content]

Init ==
  /\ published = [v \in VersionId |-> None]
  /\ head = [f \in FileId |-> None]

Publish(v, s) ==
  /\ published[v] = None
  /\ published' = [published EXCEPT ![v] = s]
  /\ head' = [head EXCEPT ![s.file] = v]

Next == \E v \in VersionId, s \in Snapshot : Publish(v, s)

Spec == Init /\ [][Next]_<<published, head>>
=============================================================================
