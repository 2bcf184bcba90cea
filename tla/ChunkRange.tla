----------------------------- MODULE ChunkRange -----------------------------
(***************************************************************************)
(* cloud/api: how get_chunk turns a Range header into a read of the object *)
(* store and the read into a reply.  Used by CloudApi, which runs it among *)
(* other requests, and by Reassembly, whose client depends on it.          *)
(***************************************************************************)
EXTENDS ObjectStore

CONSTANTS
  U32Max,         \* u32::MAX, the width of the length get_range takes
  OverflowChecks  \* TRUE when the build panics on overflow (debug)

ASSUME WidthAssumption ==
  /\ U32Max \in Nat
  /\ (U64Max + 1) % (U32Max + 1) = 0
  /\ OverflowChecks \in BOOLEAN

(* A Range header: "bytes=start-end", or "bytes=start-" when end is None;  *)
(* one that parse_range cannot read; or no header.                         *)
RangeHeader ==
  [kind : {"bytes"}, start : U64, end : U64 \cup {None}]
    \cup [kind : {"malformed", "none"}]

(***************************************************************************)
(* What the client is sent: a success body, the ErrorResponse of a         *)
(* SpaceError, plain text from an extractor, or nothing at all when the    *)
(* handler panics.                                                         *)
(***************************************************************************)
Answer(code, val) ==
  [shape |-> IF code = "Ok" THEN "success" ELSE "ErrorResponse",
   code |-> code, val |-> val]
PlainText == [shape |-> "text", code |-> "rejected", val |-> None]
Closed == [shape |-> "closed", code |-> "panic", val |-> None]

(* parse_range: an open range ends at the last byte of the size head gave. *)
RangeEnd(range, size) ==
  IF range.end # None THEN range.end ELSE IF size = 0 THEN 0 ELSE size - 1

RangeParses(range, size) ==
  range.kind = "bytes" /\ range.start <= RangeEnd(range, size)

(* Fault: the last byte of the range is not counted. *)
RangeLength_exclusive(start, end) == (end - start) % (U32Max + 1)

(* (end_inclusive - start + 1) as u32 *)
RangeLength(start, end) == (end - start + 1) % (U32Max + 1)

RangeReply(id, range, size) ==
  LET start == range.start
      end == RangeEnd(range, size)
      found == get_range(id, start, RangeLength(start, end))
  IN  IF ~RangeParses(range, size) THEN Answer("InvalidParameter", None)
      ELSE IF OverflowChecks /\ end - start = U64Max THEN Closed
      ELSE IF found.code # "Ok" THEN Answer(found.code, None)
      ELSE Answer("Ok", [start |-> start, end |-> end, size |-> size,
                         body |-> found.body])

WholeReply(id) ==
  LET found == get(id)
  IN  IF found.code = "Ok" THEN Answer("Ok", [body |-> found.body])
                           ELSE Answer(found.code, None)
=============================================================================
