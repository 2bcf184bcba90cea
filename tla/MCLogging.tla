------------------------------ MODULE MCLogging ------------------------------
(***************************************************************************)
(* Two threads that both call init, one for a directory and one for a      *)
(* stream; the first then serves requests inside spans.  Lines of two      *)
(* pieces and a channel of two messages.                                   *)
(***************************************************************************)
EXTENDS Logging, TLC

CONSTANTS t1, t2

MCSink == t1 :> "Directory" @@ t2 :> "Stream"

(* Both spans name a request; the outer one also has a file. *)
MCSpanBag ==
  t1 :> {[request_id |-> "r1", file_id |-> "f"], [request_id |-> "r2"]}
  @@ t2 :> {}

MCRecordBag == {[file_id |-> "g"]}

(* An event with its own request, one that abuses the schema's names, and  *)
(* one with both forms of the message.                                     *)
MCEventBag ==
  t1 :> {[request_id |-> "r3", extra |-> "x"],
         [level |-> "fake", message |-> "a", msg |-> "b"]}
  @@ t2 :> {[msg |-> "b"]}
=============================================================================
