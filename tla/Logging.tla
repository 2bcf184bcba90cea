------------------------------ MODULE Logging ------------------------------
(***************************************************************************)
(* contracts::logging: the threads of one process, its JsonLineLayer and,  *)
(* for a log directory, tracing_appender's channel and worker thread.      *)
(*                                                                         *)
(* The layer holds the Mutex of its writer for a whole line, but writes    *)
(* the line in pieces, and the non-blocking writer sends each piece as a   *)
(* message of its own: a piece that finds the channel full or the worker   *)
(* gone is dropped.  The WorkerGuard sits in a static, which is never      *)
(* dropped, so what is queued when the process ends is lost.               *)
(*                                                                         *)
(* A field bag is a function from field names to values, "null" is JSON    *)
(* null.  The daily file name and a directory that cannot be written (init *)
(* panics) are left out.                                                   *)
(***************************************************************************)
EXTENDS Naturals, Sequences

CONSTANTS
  Thread,
  Sink,         \* [the threads that call init -> {"Directory", "Stream"}]
  SpanBag,      \* [Thread -> the bags of the spans it opens]
  RecordBag,    \* the bags recorded in an open span later
  EventBag,     \* [Thread -> the bags of the events it logs]
  Pieces,       \* writes per line; the last one is the newline
  QueueLimit,   \* the capacity of the channel
  MaxSpans,     \* bound on open spans per thread
  MaxLines,     \* bound on events
  None

Caller == DOMAIN Sink

ASSUME LoggingAssumption ==
  /\ Sink \in [Caller -> {"Directory", "Stream"}]
  /\ Caller \subseteq Thread /\ None \notin Thread
  /\ Pieces \in Nat \ {0} /\ QueueLimit \in Nat \ {0}
  /\ MaxSpans \in Nat /\ MaxLines \in Nat

(* The first bag, then what only the second has: a map into which the      *)
(* fields of g, then those of f are inserted.                              *)
Over(f, g) ==
  [k \in DOMAIN f \cup DOMAIN g |-> IF k \in DOMAIN f THEN f[k] ELSE g[k]]

EmptyBag == [k \in {} |-> "null"]

(* A thread that is not logging; lines are numbered from 1. *)
NoLine == [id |-> 0, fields |-> EmptyBag]

VARIABLES
  pc,        \* where each thread is
  guard,     \* whose call filled GUARD
  layer,     \* whose layer is the global subscriber
  worker,    \* the worker thread each call of init started
  spans,     \* the open spans of each thread, root first
  input,     \* the spans and the event of the line a thread writes
  line,      \* that line
  at,        \* the next piece of it
  lock,      \* who holds the writer
  lines,     \* how many lines were begun
  queue, file,
  dropped,   \* lines that lost a piece
  overlap,   \* two calls of init overlapped
  exited

initVars == <<guard, layer, worker, overlap>>
sinkVars == <<queue, file, dropped>>
vars == <<pc, initVars, spans, input, line, at, lock, lines, sinkVars, exited>>

Init ==
  /\ pc = [t \in Thread |-> IF t \in Caller THEN "start" ELSE "idle"]
  /\ guard = None /\ layer = None /\ overlap = FALSE
  /\ worker = [t \in Caller |-> "none"]
  /\ spans = [t \in Thread |-> <<>>]
  /\ input = [t \in Thread |-> None]
  /\ line = [t \in Thread |-> NoLine]
  /\ at = [t \in Thread |-> 0]
  /\ lock = None /\ lines = 0
  /\ queue = <<>> /\ file = <<>> /\ dropped = {}
  /\ exited = FALSE

-----------------------------------------------------------------------------
(***************************************************************************)
(* init, called by several threads: build the writer (a log directory      *)
(* starts a worker), GUARD.set, try_init.  A guard that finds GUARD filled *)
(* is dropped, which stops its worker.                                     *)
(***************************************************************************)
Initialising(t) == pc[t] \in {"built", "guarded"}

Build(t) ==
  /\ pc[t] = "start"
  /\ pc' = [pc EXCEPT ![t] = "built"]
  /\ worker' = [worker EXCEPT ![t] = IF Sink[t] = "Directory" THEN "running" ELSE @]
  /\ overlap' = (overlap \/ \E u \in Caller : Initialising(u))
  /\ UNCHANGED <<guard, layer, spans, input, line, at, lock, lines, sinkVars>>

(* Fault: a later guard replaces the first, which is dropped. *)
SetGuard_overwrites(t) ==
  /\ pc[t] = "built"
  /\ pc' = [pc EXCEPT ![t] = "guarded"]
  /\ guard' = t
  /\ worker' = [u \in Caller |-> IF u = guard /\ worker[u] = "running"
                                   THEN "stopped" ELSE worker[u]]
  /\ UNCHANGED <<layer, overlap, spans, input, line, at, lock, lines, sinkVars>>

SetGuard(t) ==
  /\ pc[t] = "built"
  /\ pc' = [pc EXCEPT ![t] = "guarded"]
  /\ \/ /\ guard = None
        /\ guard' = t
        /\ UNCHANGED worker
     \/ /\ guard # None
        /\ worker' = [worker EXCEPT ![t] = IF @ = "running" THEN "stopped" ELSE @]
        /\ UNCHANGED guard
  /\ UNCHANGED <<layer, overlap, spans, input, line, at, lock, lines, sinkVars>>

TryInit(t) ==
  /\ pc[t] = "guarded"
  /\ pc' = [pc EXCEPT ![t] = "idle"]
  /\ layer' = IF layer = None THEN t ELSE layer
  /\ UNCHANGED <<guard, worker, overlap, spans, input, line, at, lock, lines,
                 sinkVars>>

-----------------------------------------------------------------------------
(***************************************************************************)
(* Spans: on_new_span keeps the fields of a span, on_record adds to them.  *)
(* A span opened before the subscriber is installed is never known to it.  *)
(***************************************************************************)
SetSpans(t, s) ==
  /\ spans' = [spans EXCEPT ![t] = s]
  /\ UNCHANGED <<pc, initVars, input, line, at, lock, lines, sinkVars>>

on_new_span(t, bag) ==
  /\ pc[t] = "idle" /\ layer # None
  /\ Len(spans[t]) < MaxSpans
  /\ SetSpans(t, Append(spans[t], bag))

on_record(t, bag) ==
  /\ pc[t] = "idle" /\ spans[t] # <<>>
  /\ SetSpans(t, [spans[t] EXCEPT ![Len(spans[t])] = Over(bag, @)])

on_close(t) ==
  /\ pc[t] = "idle" /\ spans[t] # <<>>
  /\ SetSpans(t, SubSeq(spans[t], 1, Len(spans[t]) - 1))

(***************************************************************************)
(* on_event, first half: the fields of the line.                           *)
(***************************************************************************)
REQUIRED_FIELDS ==
  {"ts", "level", "component", "request_id", "operation_id", "file_id",
   "version_id", "chunk_id", "operation", "duration_ms", "result",
   "error_code", "msg"}

(* Fault: the fields of the spans win over those of the event. *)
Merged_spans_win(stack, event) ==
  LET upTo[k \in 0 .. Len(stack)] ==
        IF k = 0 THEN EmptyBag ELSE Over(stack[k], upTo[k - 1])
  IN  Over(upTo[Len(stack)], event)

(* Inner spans over outer ones, the event over the spans. *)
Merged(stack, event) ==
  LET upTo[k \in 0 .. Len(stack)] ==
        IF k = 0 THEN EmptyBag ELSE Over(stack[k], upTo[k - 1])
  IN  Over(event, upTo[Len(stack)])

Get(bag, k) == IF k \in DOMAIN bag THEN bag[k] ELSE "null"

Line(stack, event) ==
  LET merged == Merged(stack, event)
      msg == IF "message" \in DOMAIN merged THEN merged["message"]
             ELSE Get(merged, "msg")
      own == [ts |-> "now", level |-> "INFO", component |-> "this process",
              msg |-> msg]
      extras == DOMAIN merged \ {"message"}
  IN  Over(own, [k \in REQUIRED_FIELDS \cup extras |-> Get(merged, k)])

(* An event is logged; with no subscriber nothing happens. *)
Emit(t, event) ==
  /\ pc[t] = "idle" /\ layer # None
  /\ lines < MaxLines
  /\ lines' = lines + 1
  /\ pc' = [pc EXCEPT ![t] = "waiting"]
  /\ input' = [input EXCEPT ![t] = [stack |-> spans[t], event |-> event]]
  /\ line' = [line EXCEPT ![t] = [id |-> lines', fields |-> Line(spans[t], event)]]
  /\ at' = [at EXCEPT ![t] = 1]
  /\ UNCHANGED <<initVars, spans, lock, sinkVars>>

(***************************************************************************)
(* on_event, second half: the lock, the pieces of the line, the newline.   *)
(***************************************************************************)
Lock(t) ==
  /\ pc[t] = "waiting" /\ lock = None
  /\ lock' = t
  /\ pc' = [pc EXCEPT ![t] = "writing"]
  /\ UNCHANGED <<initVars, spans, input, line, at, lines, sinkVars>>

(* Fault: the channel takes one message too many. *)
Room_off_by_one == Len(queue) <= QueueLimit

Room == Len(queue) < QueueLimit

(* NonBlocking::write is try_send; a stream is written at once. *)
Put(piece) ==
  \/ /\ Sink[layer] = "Stream"
     /\ file' = Append(file, piece)
     /\ UNCHANGED <<queue, dropped>>
  \/ /\ Sink[layer] = "Directory"
     /\ IF worker[layer] = "running" /\ Room
          THEN queue' = Append(queue, piece) /\ UNCHANGED dropped
          ELSE dropped' = dropped \cup {piece.line} /\ UNCHANGED queue
     /\ UNCHANGED file

Piece(t) == [line |-> line[t].id, part |-> at[t]]

(* Fault: the lock is taken for each piece. *)
Write_unlocks(t) ==
  /\ pc[t] = "writing" /\ at[t] <= Pieces
  /\ Put(Piece(t))
  /\ at' = [at EXCEPT ![t] = @ + 1]
  /\ lock' = IF at[t] < Pieces THEN None ELSE t
  /\ pc' = [pc EXCEPT ![t] = IF at[t] < Pieces THEN "waiting" ELSE "writing"]
  /\ UNCHANGED <<initVars, spans, input, line, lines>>

Write(t) ==
  /\ pc[t] = "writing" /\ at[t] <= Pieces
  /\ Put(Piece(t))
  /\ at' = [at EXCEPT ![t] = @ + 1]
  /\ UNCHANGED <<pc, initVars, spans, input, line, lock, lines>>

(* Fault: the lock is kept. *)
Flush_keeps_lock(t) ==
  /\ pc[t] = "writing" /\ at[t] > Pieces
  /\ pc' = [pc EXCEPT ![t] = "idle"]
  /\ at' = [at EXCEPT ![t] = 0]
  /\ input' = [input EXCEPT ![t] = None]
  /\ line' = [line EXCEPT ![t] = NoLine]
  /\ UNCHANGED <<initVars, spans, lock, lines, sinkVars>>

(* flush, and the end of the block that holds the lock. *)
Flush(t) ==
  /\ pc[t] = "writing" /\ at[t] > Pieces
  /\ lock' = None
  /\ pc' = [pc EXCEPT ![t] = "idle"]
  /\ at' = [at EXCEPT ![t] = 0]
  /\ input' = [input EXCEPT ![t] = None]
  /\ line' = [line EXCEPT ![t] = NoLine]
  /\ UNCHANGED <<initVars, spans, lines, sinkVars>>

-----------------------------------------------------------------------------
(* The worker of the installed layer writes the next message to the file. *)
Worker ==
  /\ queue # <<>>
  /\ file' = Append(file, Head(queue))
  /\ queue' = Tail(queue)
  /\ UNCHANGED <<pc, initVars, spans, input, line, at, lock, lines, dropped>>

(* main returns, or the process is killed; statics are not dropped. *)
Exit ==
  /\ exited' = TRUE
  /\ UNCHANGED <<pc, initVars, spans, input, line, at, lock, lines, sinkVars>>

Step(t) ==
  \/ t \in Caller /\ (Build(t) \/ SetGuard(t) \/ TryInit(t))
  \/ Lock(t) \/ Write(t) \/ Flush(t)

Use(t) ==
  \/ \E bag \in SpanBag[t] : on_new_span(t, bag)
  \/ \E bag \in RecordBag : on_record(t, bag)
  \/ on_close(t)
  \/ \E event \in EventBag[t] : Emit(t, event)

Running(A) == ~exited /\ A /\ UNCHANGED exited

Next ==
  \/ \E t \in Thread : Running(Step(t) \/ Use(t))
  \/ Running(Worker)
  \/ ~exited /\ Exit

Spec == Init /\ [][Next]_vars

(* The scheduler runs every thread, the worker too; nothing makes a        *)
(* program log, and nothing ends it.                                       *)
FairSpec ==
  /\ Spec
  /\ \A t \in Thread : WF_vars(Running(Step(t)))
  /\ WF_vars(Running(Worker))

-----------------------------------------------------------------------------
PieceType == [line : 1 .. MaxLines, part : 1 .. Pieces]

(* TypeOK: the channel keeps to its capacity and a thread has a line       *)
(* exactly while it logs.                                                  *)
TypeOK ==
  /\ pc \in [Thread -> {"start", "built", "guarded", "idle", "waiting", "writing"}]
  /\ guard \in Caller \cup {None} /\ layer \in Caller \cup {None}
  /\ worker \in [Caller -> {"none", "running", "stopped"}]
  /\ \A t \in Thread : (line[t] # NoLine) <=> pc[t] \in {"waiting", "writing"}
  /\ lock \in Thread \cup {None}
  /\ queue \in Seq(PieceType) /\ Len(queue) <= QueueLimit
  /\ file \in Seq(PieceType)
  /\ dropped \subseteq 1 .. MaxLines
  /\ overlap \in BOOLEAN /\ exited \in BOOLEAN

(* What is or will be in the file. *)
Output == file \o queue

(* LinesWhole: in the log the pieces of different events never mix, and an *)
(* event that has its newline there is there whole and in order unless a   *)
(* piece of it was dropped.  OneObjectPerLine is what a drop breaks.       *)
LinesWhole ==
  /\ \A i, k \in DOMAIN Output : \A j \in i .. k :
       Output[i].line = Output[k].line =>
         /\ Output[j].line = Output[i].line
         /\ i < k => Output[i].part < Output[k].part
  /\ \A k \in DOMAIN file :
       (file[k].part = Pieces /\ file[k].line \notin dropped) =>
         \A n \in 1 .. (Pieces - 1) :
           \E j \in 1 .. (k - 1) : file[j] = [line |-> file[k].line, part |-> n]

(* OneObjectPerLine: what ends with a newline in the log is one event and  *)
(* all of it: "Every line is one JSON object with a fixed schema".         *)
OneObjectPerLine ==
  \A k \in DOMAIN file :
    file[k].part = Pieces =>
      /\ \A n \in 0 .. (Pieces - 1) :
           k > n /\ file[k - n] = [line |-> file[k].line, part |-> Pieces - n]
      /\ k > Pieces => file[k - Pieces].part = Pieces

(* What key should be in a line: the event's own field, else that of the   *)
(* innermost span that has one, else null.                                 *)
Expected(stack, event, key) ==
  LET having == {k \in DOMAIN stack : key \in DOMAIN stack[k]}
  IN  IF key \in DOMAIN event THEN event[key]
      ELSE IF having = {} THEN "null"
      ELSE LET k == CHOOSE i \in having : \A j \in having : j <= i IN stack[k][key]

(* SchemaKept: every line has all the keys of the schema; no field of a    *)
(* span or an event displaces ts, level or component; every other key,     *)
(* request_id first of all, comes from the event or else the innermost     *)
(* span that sets it; and no field is lost.                                *)
SchemaKept ==
  \A t \in Thread :
    line[t] # NoLine =>
      LET in == input[t]
          fields == line[t].fields
          given == DOMAIN in.event
                     \cup UNION {DOMAIN in.stack[k] : k \in DOMAIN in.stack}
          Value(k) == Expected(in.stack, in.event, k)
      IN  /\ REQUIRED_FIELDS \subseteq DOMAIN fields
          /\ fields["level"] = "INFO" /\ fields["component"] = "this process"
          /\ fields["ts"] = "now"
          /\ fields["msg"] = IF "message" \in given THEN Value("message")
                             ELSE Value("msg")
          /\ \A k \in (DOMAIN fields \cup given)
                        \ {"ts", "level", "component", "msg", "message"} :
               fields[k] = Value(k)

(* InstalledWorkerRuns: the layer that was installed has a running worker, *)
(* so what it accepts gets to the file, unless two calls of init           *)
(* overlapped: then one may fill GUARD and the other install its layer.    *)
InstalledWorkerRuns ==
  (layer # None /\ ~overlap) =>
    (Sink[layer] = "Directory" => worker[layer] = "running")

(* LogSettles: logging never holds a thread up for ever, however full the  *)
(* channel is, and what the channel took reaches the file, unless the      *)
(* process ends first.                                                     *)
LogSettles ==
  /\ \A t \in Thread : (pc[t] \in {"waiting", "writing"}) ~> (pc[t] = "idle" \/ exited)
  /\ (queue # <<>>) ~> (queue = <<>> \/ exited)
=============================================================================
