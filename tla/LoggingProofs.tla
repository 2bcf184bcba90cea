--------------------------- MODULE LoggingProofs ---------------------------
(***************************************************************************)
(* Machine-checked proofs about Logging: any number of threads, spans and  *)
(* lines, and a channel of any capacity.                                   *)
(***************************************************************************)
EXTENDS Logging, SequenceTheorems, WellFoundedInduction, TLAPS

USE LoggingAssumption

(***************************************************************************)
(* The inductive invariant.  What a log holds, with the queue behind it,   *)
(* is a sequence of blocks, one for each line, and the block of the line   *)
(* being written is the last one: so a piece that is added mixes with      *)
(* nothing.  The worker that empties the queue is that of the layer.       *)
(***************************************************************************)
Active == {"waiting", "writing"}

(* A sequence, whatever it is a sequence of. *)
IsStack(s) == s \in Seq({s[k] : k \in DOMAIN s})

Shapes ==
  /\ spans = [t \in Thread |-> spans[t]]
  /\ input = [t \in Thread |-> input[t]]
  /\ line = [t \in Thread |-> line[t]]
  /\ at \in [Thread -> 0 .. (Pieces + 1)]
  /\ lines \in 0 .. MaxLines

(* The calls of init: the guard's worker runs, and without an overlap the  *)
(* call that filled GUARD is the one that installs its layer.              *)
Installed ==
  /\ \A t \in Thread : pc[t] \in {"start", "built", "guarded"} => t \in Caller
  /\ \A t \in Caller :
       (pc[t] = "built" \/ guard = t) =>
         (Sink[t] = "Directory" => worker[t] = "running")
  /\ guard # None => pc[guard] \notin {"start", "built"}
  /\ layer # None => guard # None
  /\ \A t \in Caller : pc[t] = "guarded" => guard # None
  /\ ~overlap =>
       /\ \A t, u \in Caller : Initialising(t) /\ Initialising(u) => t = u
       /\ layer # None => layer = guard
       /\ (layer = None /\ guard # None) => pc[guard] = "guarded"

(* The line of each thread is its own, and the writer's lock is held by    *)
(* the one that writes.                                                    *)
Threads ==
  /\ \A t \in Thread : IsStack(spans[t])
  /\ \A t \in Thread :
       pc[t] \in Active =>
         /\ layer # None
         /\ line[t].id \in 1 .. lines
         /\ line[t].fields = Line(input[t].stack, input[t].event)
         /\ IsStack(input[t].stack)
         /\ at[t] \in 1 .. (Pieces + 1)
         /\ pc[t] = "waiting" => at[t] = 1
  /\ \A t, u \in Thread :
       (pc[t] \in Active /\ pc[u] \in Active /\ line[t].id = line[u].id) => t = u
  /\ \A t \in Thread : pc[t] = "writing" <=> lock = t

(* What a log o holds: no mixing, and no piece without those before it.    *)
InOrder(o) ==
  \A i, k \in DOMAIN o : \A j \in i .. k :
    o[i].line = o[k].line =>
      /\ o[j].line = o[i].line
      /\ i < k => o[i].part < o[k].part

Unbroken(o, lost) ==
  \A k \in DOMAIN o :
    o[k].line \notin lost =>
      \A n \in 1 .. (o[k].part - 1) :
        \E j \in 1 .. (k - 1) : o[j] = [line |-> o[k].line, part |-> n]

(* The part of it that a line being written has, at its end.               *)
Begun(o, lost, id, next) ==
  /\ \A k \in DOMAIN o :
       o[k].line = id => /\ o[k].part < next
                         /\ \A j \in k .. Len(o) : o[j].line = id
  /\ id \notin lost =>
       \A n \in 1 .. (next - 1) :
         \E j \in DOMAIN o : o[j] = [line |-> id, part |-> n]

NotBegun(o, lost, id) == id \notin lost /\ \A k \in DOMAIN o : o[k].line # id

Blocks ==
  /\ InOrder(Output) /\ Unbroken(Output, dropped)
  /\ \A k \in DOMAIN Output : Output[k].line <= lines
  /\ dropped \subseteq 1 .. lines
  /\ \A t \in Thread :
       /\ pc[t] = "waiting" => NotBegun(Output, dropped, line[t].id)
       /\ pc[t] = "writing" => Begun(Output, dropped, line[t].id, at[t])
  /\ (layer = None \/ Sink[layer] = "Stream") => queue = <<>>

LogInv == TypeOK /\ Shapes /\ Installed /\ Threads /\ Blocks

-----------------------------------------------------------------------------
(***************************************************************************)
(* Sequences whose elements have no type: the stacks of spans.             *)
(***************************************************************************)
(* StackIs: a sequence over any set is a stack. *)
LEMMA StackIs ==
  ASSUME NEW S, NEW s \in Seq(S)
  PROVE  IsStack(s)
<1> DEFINE E == {s[k] : k \in DOMAIN s}
<1>1. Len(s) \in Nat /\ s = [k \in 1 .. Len(s) |-> s[k]] /\ DOMAIN s = 1 .. Len(s)
  OBVIOUS
<1>2. \A k \in 1 .. Len(s) : s[k] \in E
  BY <1>1
<1> HIDE DEF E
<1>3. s \in Seq(E)
  BY <1>1, <1>2
<1> QED
  BY <1>3 DEF IsStack, E

(* StackSteps: what the spans' operations make of a stack. *)
LEMMA StackSteps ==
  ASSUME NEW s, IsStack(s)
  PROVE  /\ Len(s) \in Nat /\ DOMAIN s = 1 .. Len(s)
         /\ \A bag : IsStack(Append(s, bag))
         /\ s # <<>> => /\ \A bag : IsStack([s EXCEPT ![Len(s)] = bag])
                        /\ IsStack(SubSeq(s, 1, Len(s) - 1))
<1> DEFINE E == {s[k] : k \in DOMAIN s}
<1>1. s \in Seq(E)
  BY DEF IsStack
<1> HIDE DEF E
<1>2. Len(s) \in Nat /\ DOMAIN s = 1 .. Len(s)
  BY <1>1
<1>3. ASSUME NEW bag PROVE IsStack(Append(s, bag))
  <2>1. s \in Seq(E \cup {bag})
    BY <1>1
  <2>2. Append(s, bag) \in Seq(E \cup {bag})
    BY <2>1
  <2> QED
    BY <2>2, StackIs
<1>4. ASSUME s # <<>>, NEW bag PROVE IsStack([s EXCEPT ![Len(s)] = bag])
  <2> DEFINE B == E \cup {bag}
  <2>1. s \in Seq(B) /\ bag \in B /\ Len(s) \in 1 .. Len(s)
    BY <1>1, <1>2, <1>4
  <2> HIDE DEF B
  <2>2. [s EXCEPT ![Len(s)] = bag] \in Seq(B)
    BY <2>1
  <2> QED
    BY <2>2, StackIs
<1>5. ASSUME s # <<>> PROVE IsStack(SubSeq(s, 1, Len(s) - 1))
  <2>1. Len(s) - 1 \in 0 .. Len(s)
    BY <1>1, <1>5
  <2>2. SubSeq(s, 1, Len(s) - 1) \in Seq(E)
    BY <1>1, <2>1
  <2> QED
    BY <2>2, StackIs
<1> QED
  BY <1>2, <1>3, <1>4, <1>5

-----------------------------------------------------------------------------
(***************************************************************************)
(* The fields of a line.                                                   *)
(***************************************************************************)
(* NatInduction over sets, for the recursion of Merged. *)
LEMMA NatInductionSet ==
  ASSUME NEW T, 0 \in T, \A n \in Nat : n \in T => n + 1 \in T
  PROVE  Nat \subseteq T
<1> SUFFICES ASSUME Nat \ T # {} PROVE FALSE
  OBVIOUS
<1>1. PICK n \in Nat \ T : \A k \in Nat \ T : ~(<<k, n>> \in OpToRel(<, Nat))
  BY NatLessThanWellFounded, WFMin, Zenon
<1>2. \A k \in Nat \ T : ~(k < n)
  BY <1>1 DEF OpToRel
<1>3. n # 0 /\ n - 1 \in Nat /\ n - 1 < n /\ (n - 1) + 1 = n
  OBVIOUS
<1>4. n - 1 \in T
  BY <1>2, <1>3
<1> QED
  BY <1>3, <1>4

(* What the bags of the first n spans hold together. *)
IsMerge(f, stack, n) ==
  /\ f = [k \in 0 .. n |-> f[k]]
  /\ f[0] = EmptyBag
  /\ \A k \in 1 .. n : f[k] = Over(stack[k], f[k - 1])

(* MergeExists: by induction on how many spans there are. *)
LEMMA MergeExists ==
  ASSUME NEW stack, NEW m \in Nat
  PROVE  \E f : IsMerge(f, stack, m)
<1> DEFINE T == {n \in Nat : \E f : IsMerge(f, stack, n)}
<1>1. 0 \in T
  <2>1. IsMerge([k \in 0 .. 0 |-> EmptyBag], stack, 0)
    BY DEF IsMerge
  <2> QED
    BY <2>1
<1>2. ASSUME NEW n \in Nat, n \in T PROVE n + 1 \in T
  <2>1. PICK f : IsMerge(f, stack, n)
    BY <1>2
  <2> DEFINE last == Over(stack[n + 1], f[n])
             g == [k \in 0 .. (n + 1) |-> IF k = n + 1 THEN last ELSE f[k]]
  <2> HIDE DEF last
  <2>2. g[n + 1] = last /\ \A k \in 0 .. n : g[k] = f[k]
    OBVIOUS
  <2>3. g = [k \in 0 .. (n + 1) |-> g[k]]
    OBVIOUS
  <2> HIDE DEF g
  <2>4. g[0] = EmptyBag
    BY <2>1, <2>2 DEF IsMerge
  <2>5. ASSUME NEW k \in 1 .. (n + 1) PROVE g[k] = Over(stack[k], g[k - 1])
    <3>1. CASE k = n + 1
      BY <2>2, <3>1 DEF last
    <3>2. CASE k # n + 1
      <4>1. k \in 1 .. n /\ k \in 0 .. n /\ k - 1 \in 0 .. n
        BY <3>2
      <4> QED
        BY <2>1, <2>2, <4>1 DEF IsMerge
    <3> QED
      BY <3>1, <3>2
  <2>6. IsMerge(g, stack, n + 1)
    BY <2>3, <2>4, <2>5 DEF IsMerge
  <2> QED
    BY <2>6
<1> HIDE DEF T
<1>3. Nat \subseteq T
  BY <1>1, <1>2, NatInductionSet
<1> QED
  BY <1>3 DEF T

(* MergedIs: the recursion of Merged is that merge. *)
LEMMA MergedIs ==
  ASSUME NEW stack, NEW event, Len(stack) \in Nat
  PROVE  \E f : /\ IsMerge(f, stack, Len(stack))
                /\ Merged(stack, event) = Over(event, f[Len(stack)])
<1> DEFINE n == Len(stack)
           Next1(f) == [k \in 0 .. n |-> IF k = 0 THEN EmptyBag
                                         ELSE Over(stack[k], f[k - 1])]
           upTo == CHOOSE f : f = Next1(f)
<1>1. PICK f : IsMerge(f, stack, n)
  BY MergeExists
<1>2. f = Next1(f)
  <2>1. ASSUME NEW k \in 0 .. n
        PROVE  f[k] = IF k = 0 THEN EmptyBag ELSE Over(stack[k], f[k - 1])
    <3>1. CASE k = 0
      BY <1>1, <3>1 DEF IsMerge
    <3>2. CASE k # 0
      <4>1. k \in 1 .. n
        BY <3>2
      <4> QED
        BY <1>1, <3>2, <4>1 DEF IsMerge
    <3> QED
      BY <3>1, <3>2
  <2> QED
    BY <1>1, <2>1 DEF IsMerge
<1>3. upTo = Next1(upTo)
  <2> HIDE DEF Next1
  <2> QED
    BY <1>2, Zenon
<1>4. Merged(stack, event) = Over(event, upTo[n])
  BY DEF Merged
<1>5. IsMerge(upTo, stack, n)
  <2> HIDE DEF upTo
  <2>1. upTo = [k \in 0 .. n |-> upTo[k]]
    BY <1>3
  <2>2. \A k \in 0 .. n :
          upTo[k] = IF k = 0 THEN EmptyBag ELSE Over(stack[k], upTo[k - 1])
    <3>1. \A k \in 0 .. n :
            Next1(upTo)[k] = IF k = 0 THEN EmptyBag ELSE Over(stack[k], upTo[k - 1])
      OBVIOUS
    <3> HIDE DEF Next1
    <3> QED
      BY <1>3, <3>1
  <2>3. upTo[0] = EmptyBag
    BY <2>2
  <2>4. \A k \in 1 .. n : upTo[k] = Over(stack[k], upTo[k - 1])
    BY <2>2
  <2> QED
    BY <2>1, <2>3, <2>4 DEF IsMerge
<1> QED
  BY <1>4, <1>5

(* MergeHolds: a key of the first n spans is in their merge, with the      *)
(* value of the innermost that has it.                                     *)
LEMMA MergeHolds ==
  ASSUME NEW stack, NEW m \in Nat, NEW f, IsMerge(f, stack, m), NEW key
  PROVE  /\ key \in DOMAIN f[m] <=> \E k \in 1 .. m : key \in DOMAIN stack[k]
         /\ \A k \in 1 .. m :
              (/\ key \in DOMAIN stack[k]
               /\ \A j \in (k + 1) .. m : key \notin DOMAIN stack[j])
              => f[m][key] = stack[k][key]
<1> DEFINE Has(n) == key \in DOMAIN f[n] <=> \E k \in 1 .. n : key \in DOMAIN stack[k]
           Inner(n) == \A k \in 1 .. n :
                         (/\ key \in DOMAIN stack[k]
                          /\ \A j \in (k + 1) .. n : key \notin DOMAIN stack[j])
                         => f[n][key] = stack[k][key]
           T == {n \in Nat : n <= m => Has(n) /\ Inner(n)}
<1>1. 0 \in T
  BY DEF IsMerge, EmptyBag
<1>2. ASSUME NEW n \in Nat, n \in T PROVE n + 1 \in T
  <2> SUFFICES ASSUME n + 1 <= m PROVE Has(n + 1) /\ Inner(n + 1)
    OBVIOUS
  <2>1. Has(n) /\ Inner(n)
    BY <1>2
  <2>2. n + 1 \in 1 .. m /\ (n + 1) - 1 = n
    OBVIOUS
  <2>3. f[n + 1] = Over(stack[n + 1], f[n])
    BY <2>2 DEF IsMerge
  <2>4. /\ DOMAIN f[n + 1] = DOMAIN stack[n + 1] \cup DOMAIN f[n]
        /\ key \in DOMAIN stack[n + 1] => f[n + 1][key] = stack[n + 1][key]
        /\ (key \in DOMAIN f[n] /\ key \notin DOMAIN stack[n + 1]) =>
             f[n + 1][key] = f[n][key]
    BY <2>3 DEF Over
  <2>5. Has(n + 1)
    <3>1. (\E k \in 1 .. (n + 1) : key \in DOMAIN stack[k])
            <=> \/ \E k \in 1 .. n : key \in DOMAIN stack[k]
                \/ key \in DOMAIN stack[n + 1]
      OBVIOUS
    <3> QED
      BY <2>1, <2>4, <3>1
  <2>6. ASSUME NEW k \in 1 .. (n + 1), key \in DOMAIN stack[k],
               \A j \in (k + 1) .. (n + 1) : key \notin DOMAIN stack[j]
        PROVE  f[n + 1][key] = stack[k][key]
    <3>1. CASE k = n + 1
      BY <2>4, <2>6, <3>1
    <3>2. CASE k # n + 1
      <4>1. k \in 1 .. n /\ n + 1 \in (k + 1) .. (n + 1)
        BY <3>2
      <4>2. f[n][key] = stack[k][key]
        BY <2>1, <2>6, <4>1
      <4> QED
        BY <2>1, <2>4, <2>6, <4>1, <4>2
    <3> QED
      BY <3>1, <3>2
  <2> QED
    BY <2>5, <2>6
<1> HIDE DEF T
<1>3. Nat \subseteq T
  BY <1>1, <1>2, NatInductionSet
<1>4. m \in T
  BY <1>3
<1> QED
  BY <1>4 DEF T

(* MergedExpected: what the merged map gives for a key is what should be   *)
(* in the line.                                                            *)
LEMMA MergedExpected ==
  ASSUME NEW stack, IsStack(stack), NEW event, NEW key
  PROVE  /\ Get(Merged(stack, event), key) = Expected(stack, event, key)
         /\ key \in DOMAIN Merged(stack, event)
              <=> \/ key \in DOMAIN event
                  \/ \E k \in DOMAIN stack : key \in DOMAIN stack[k]
<1> DEFINE n == Len(stack)
           having == {k \in DOMAIN stack : key \in DOMAIN stack[k]}
<1>1. n \in Nat /\ DOMAIN stack = 1 .. n
  BY StackSteps
<1>2. PICK f : IsMerge(f, stack, n) /\ Merged(stack, event) = Over(event, f[n])
  BY <1>1, MergedIs
<1>3. /\ DOMAIN Merged(stack, event) = DOMAIN event \cup DOMAIN f[n]
      /\ key \in DOMAIN event => Merged(stack, event)[key] = event[key]
      /\ (key \notin DOMAIN event /\ key \in DOMAIN f[n]) =>
           Merged(stack, event)[key] = f[n][key]
  BY <1>2 DEF Over
<1>4. key \in DOMAIN f[n] <=> having # {}
  BY <1>1, <1>2, MergeHolds
<1>5. key \in DOMAIN Merged(stack, event)
        <=> key \in DOMAIN event \/ \E k \in DOMAIN stack : key \in DOMAIN stack[k]
  BY <1>3, <1>4
<1>6. ASSUME having # {}
      PROVE  \E k \in having : \A j \in having : j <= k
  <2> DEFINE Last(k) == \A j \in having : j <= k
  <2> SUFFICES ASSUME \A k \in having : ~Last(k) PROVE FALSE
    BY <1>6
  <2> DEFINE U == {d \in Nat : \A e \in Nat : e <= d => n - e \notin having}
  <2>1. having \subseteq 1 .. n
    BY <1>1
  <2> HIDE DEF having
  <2>2. 0 \in U
    <3>1. n \in having => Last(n)
      BY <2>1
    <3> QED
      BY <1>1, <3>1
  <2>3. ASSUME NEW d \in Nat, d \in U PROVE d + 1 \in U
    <3>1. n - (d + 1) \in having => Last(n - (d + 1))
      <4> SUFFICES ASSUME NEW j \in having, ~(j <= n - (d + 1)) PROVE FALSE
        OBVIOUS
      <4>1. n - j \in Nat /\ n - j <= d /\ n - (n - j) = j
        BY <1>1, <2>1
      <4> QED
        BY <2>3, <4>1
    <3>2. n - (d + 1) \notin having
      BY <3>1
    <3> QED
      BY <2>3, <3>2
  <2> HIDE DEF U
  <2>4. Nat \subseteq U
    BY <2>2, <2>3, NatInductionSet
  <2>5. PICK k \in having : TRUE
    BY <1>6
  <2>6. n - k \in Nat /\ n - (n - k) = k
    BY <1>1, <2>1
  <2> QED
    BY <2>4, <2>5, <2>6 DEF U
<1>7. ASSUME having # {}
      PROVE  f[n][key] = stack[CHOOSE i \in having : \A j \in having : j <= i][key]
  <2> DEFINE k == CHOOSE i \in having : \A j \in having : j <= i
  <2>1. k \in having /\ \A j \in having : j <= k
    BY <1>6, <1>7
  <2> HIDE DEF k
  <2>2. k \in 1 .. n /\ key \in DOMAIN stack[k]
    BY <1>1, <2>1
  <2>3. \A j \in (k + 1) .. n : key \notin DOMAIN stack[j]
    BY <1>1, <2>1, <2>2
  <2>4. f[n][key] = stack[k][key]
    BY <1>1, <1>2, <2>2, <2>3, MergeHolds
  <2> QED
    BY <2>4 DEF k
<1>8. Get(Merged(stack, event), key) = Expected(stack, event, key)
  <2>1. CASE key \in DOMAIN event
    BY <1>3, <2>1 DEF Get, Expected
  <2>2. CASE key \notin DOMAIN event /\ having = {}
    BY <1>3, <1>4, <2>2 DEF Get, Expected
  <2>3. CASE key \notin DOMAIN event /\ having # {}
    BY <1>3, <1>4, <1>7, <2>3 DEF Get, Expected
  <2> QED
    BY <2>1, <2>2, <2>3
<1> QED
  BY <1>5, <1>8

(* What SchemaKept says of one line and the spans and event it is from. *)
KeepsSchema(fields, in) ==
  LET given == DOMAIN in.event \cup UNION {DOMAIN in.stack[k] : k \in DOMAIN in.stack}
      Value(k) == Expected(in.stack, in.event, k)
  IN  /\ REQUIRED_FIELDS \subseteq DOMAIN fields
      /\ fields["level"] = "INFO" /\ fields["component"] = "this process"
      /\ fields["ts"] = "now"
      /\ fields["msg"] = IF "message" \in given THEN Value("message")
                         ELSE Value("msg")
      /\ \A k \in (DOMAIN fields \cup given)
                    \ {"ts", "level", "component", "msg", "message"} :
           fields[k] = Value(k)

(* LineSchema: a line made of any stack and event keeps the schema. *)
LEMMA LineSchema ==
  ASSUME NEW in, IsStack(in.stack)
  PROVE  KeepsSchema(Line(in.stack, in.event), in)
<1> DEFINE stack == in.stack
           event == in.event
           fields == Line(stack, event)
           given == DOMAIN event \cup UNION {DOMAIN stack[k] : k \in DOMAIN stack}
           merged == Merged(stack, event)
           msg == IF "message" \in DOMAIN merged THEN merged["message"]
                  ELSE Get(merged, "msg")
           own == [ts |-> "now", level |-> "INFO", component |-> "this process",
                   msg |-> msg]
           extras == DOMAIN merged \ {"message"}
           rest == [k \in REQUIRED_FIELDS \cup extras |-> Get(merged, k)]
<1>0. IsStack(stack)
  OBVIOUS
<1>1. fields = Over(own, rest)
  BY DEF Line
<1> HIDE DEF fields
<1>2. \A k : /\ Get(merged, k) = Expected(stack, event, k)
             /\ k \in DOMAIN merged <=> k \in given
  <2> HIDE DEF stack, event
  <2> QED
    BY <1>0, MergedExpected
<1>3. msg = IF "message" \in given THEN Expected(stack, event, "message")
            ELSE Expected(stack, event, "msg")
  BY <1>2 DEF Get
<1> HIDE DEF msg, merged
<1>4. /\ DOMAIN own = {"ts", "level", "component", "msg"}
      /\ own["ts"] = "now" /\ own["level"] = "INFO"
      /\ own["component"] = "this process" /\ own["msg"] = msg
  OBVIOUS
<1>5. /\ DOMAIN rest = REQUIRED_FIELDS \cup extras
      /\ \A k \in REQUIRED_FIELDS \cup extras : rest[k] = Expected(stack, event, k)
  BY <1>2
<1> HIDE DEF own, rest
<1>6. /\ DOMAIN fields = DOMAIN own \cup DOMAIN rest
      /\ \A k \in DOMAIN own : fields[k] = own[k]
      /\ \A k \in DOMAIN rest \ DOMAIN own : fields[k] = rest[k]
  BY <1>1 DEF Over
<1>7. REQUIRED_FIELDS \subseteq DOMAIN fields
  BY <1>5, <1>6
<1>8. ASSUME NEW k \in (DOMAIN fields \cup given)
                         \ {"ts", "level", "component", "msg", "message"}
      PROVE  fields[k] = Expected(stack, event, k)
  <2>1. k \in DOMAIN rest /\ k \notin DOMAIN own
    BY <1>2, <1>4, <1>5, <1>6
  <2> QED
    BY <1>5, <1>6, <2>1
<1> QED
  BY <1>3, <1>4, <1>6, <1>7, <1>8 DEF KeepsSchema, fields

-----------------------------------------------------------------------------
(***************************************************************************)
(* The log: what adding a piece to it keeps.                               *)
(***************************************************************************)
(* AppendKeeps: the next piece of a line that the log ends with. *)
LEMMA AppendKeeps ==
  ASSUME NEW o \in Seq(PieceType), NEW lost, NEW id, NEW n \in 1 .. Pieces,
         NEW p, p = [line |-> id, part |-> n], p \in PieceType,
         InOrder(o), Unbroken(o, lost), Begun(o, lost, id, n)
  PROVE  /\ InOrder(Append(o, p)) /\ Unbroken(Append(o, p), lost)
         /\ Begun(Append(o, p), lost, id, n + 1)
         /\ \A other : (other # id /\ NotBegun(o, lost, other))
                         => NotBegun(Append(o, p), lost, other)
<1> DEFINE new == Append(o, p)
           m == Len(o)
<1>1. /\ m \in Nat /\ DOMAIN o = 1 .. m /\ DOMAIN new = 1 .. (m + 1)
      /\ Len(new) = m + 1 /\ new[m + 1] = p
      /\ \A k \in 1 .. m : new[k] = o[k]
      /\ p.line = id /\ p.part = n
  OBVIOUS
<1> HIDE DEF new, m
<1>2. ASSUME NEW k \in 1 .. m, o[k].line = id
      PROVE  o[k].part < n /\ \A j \in k .. m : o[j].line = id
  BY <1>1, <1>2 DEF Begun, m
<1>3. InOrder(new)
  <2> SUFFICES ASSUME NEW i \in 1 .. (m + 1), NEW k \in 1 .. (m + 1), NEW j \in i .. k,
                      new[i].line = new[k].line
               PROVE  /\ new[j].line = new[i].line
                      /\ i < k => new[i].part < new[k].part
    BY <1>1 DEF InOrder
  <2>1. CASE k = m + 1
    <3>1. CASE i = m + 1
      BY <1>1, <2>1, <3>1
    <3>2. CASE i # m + 1
      <4>1. i \in 1 .. m /\ o[i].line = id
        BY <1>1, <2>1, <3>2
      <4>2. j = m + 1 \/ j \in i .. m
        BY <1>1, <2>1, <4>1
      <4>3. j \in i .. m => j \in 1 .. m
        BY <1>1, <4>1
      <4> QED
        BY <1>1, <1>2, <2>1, <4>1, <4>2, <4>3
    <3> QED
      BY <3>1, <3>2
  <2>2. CASE k # m + 1
    <3>1. CASE i \in 1 .. m
      <4>1. k \in 1 .. m /\ j \in 1 .. m
        BY <1>1, <2>2, <3>1
      <4> QED
        <5>1. o[i].line = o[k].line
          BY <1>1, <3>1, <4>1
        <5>2. /\ o[j].line = o[i].line
              /\ i < k => o[i].part < o[k].part
          BY <1>1, <3>1, <4>1, <5>1 DEF InOrder
        <5> QED
          BY <1>1, <3>1, <4>1, <5>2
    <3>2. CASE i = m + 1
      <4>1. k <= m /\ i <= j /\ j <= k
        BY <1>1, <2>2
      <4> QED
        BY <1>1, <3>2, <4>1
    <3> QED
      BY <1>1, <3>1, <3>2
  <2> QED
    BY <2>1, <2>2
<1>4. Unbroken(new, lost)
  <2> SUFFICES ASSUME NEW k \in 1 .. (m + 1), new[k].line \notin lost,
                      NEW x \in 1 .. (new[k].part - 1)
               PROVE  \E j \in 1 .. (k - 1) : new[j] = [line |-> new[k].line, part |-> x]
    BY <1>1 DEF Unbroken
  <2>1. CASE k = m + 1
    <3>1. PICK j \in DOMAIN o : o[j] = [line |-> id, part |-> x]
      BY <1>1, <2>1 DEF Begun
    <3>2. j \in 1 .. (k - 1) /\ j \in 1 .. m
      BY <1>1, <2>1
    <3> QED
      BY <1>1, <2>1, <3>1, <3>2
  <2>2. CASE k # m + 1
    <3>1. k \in 1 .. m /\ new[k] = o[k]
      BY <1>1, <2>2
    <3>2. PICK j \in 1 .. (k - 1) : o[j] = [line |-> o[k].line, part |-> x]
      BY <1>1, <3>1 DEF Unbroken
    <3>3. j \in 1 .. m
      BY <1>1, <3>1
    <3> QED
      BY <1>1, <3>1, <3>2, <3>3
  <2> QED
    BY <2>1, <2>2
<1>5. Begun(new, lost, id, n + 1)
  <2>1. ASSUME NEW k \in 1 .. (m + 1), new[k].line = id
        PROVE  new[k].part < n + 1 /\ \A j \in k .. (m + 1) : new[j].line = id
    <3>1. CASE k = m + 1
      BY <1>1, <3>1
    <3>2. CASE k # m + 1
      <4>1. k \in 1 .. m /\ new[k] = o[k]
        BY <1>1, <3>2
      <4>2. o[k] \in PieceType
        BY <1>1, <4>1
      <4>3. new[k].part < n + 1
        BY <1>2, <2>1, <4>1, <4>2 DEF PieceType
      <4>4. \A j \in k .. (m + 1) : j = m + 1 \/ (j \in k .. m /\ j \in 1 .. m)
        BY <1>1, <4>1
      <4> QED
        BY <1>1, <1>2, <2>1, <4>1, <4>3, <4>4
    <3> QED
      BY <3>1, <3>2
  <2>2. ASSUME id \notin lost, NEW x \in 1 .. ((n + 1) - 1)
        PROVE  \E j \in 1 .. (m + 1) : new[j] = [line |-> id, part |-> x]
    <3>1. CASE x = n
      BY <1>1, <3>1
    <3>2. CASE x # n
      <4>1. x \in 1 .. (n - 1)
        BY <3>2
      <4>2. PICK j \in DOMAIN o : o[j] = [line |-> id, part |-> x]
        BY <2>2, <4>1 DEF Begun
      <4> QED
        BY <1>1, <4>2
    <3> QED
      BY <3>1, <3>2
  <2> QED
    BY <1>1, <2>1, <2>2 DEF Begun
<1>6. ASSUME NEW other, other # id, NotBegun(o, lost, other)
      PROVE  NotBegun(new, lost, other)
  BY <1>1, <1>6 DEF NotBegun
<1> QED
  BY <1>3, <1>4, <1>5, <1>6 DEF new

(* LosePiece: a piece that is dropped marks its line as lost. *)
LEMMA LosePiece ==
  ASSUME NEW o \in Seq(PieceType), NEW lost, NEW id, NEW n \in 1 .. Pieces,
         Unbroken(o, lost), Begun(o, lost, id, n)
  PROVE  /\ Unbroken(o, lost \cup {id})
         /\ Begun(o, lost \cup {id}, id, n + 1)
         /\ \A other : (other # id /\ NotBegun(o, lost, other))
                         => NotBegun(o, lost \cup {id}, other)
<1>1. \A k \in DOMAIN o : o[k].part \in Nat
  <2>1. \A k \in DOMAIN o : o[k] \in PieceType
    OBVIOUS
  <2> QED
    BY <2>1 DEF PieceType
<1>2. Begun(o, lost \cup {id}, id, n + 1)
  BY <1>1 DEF Begun
<1>3. Unbroken(o, lost \cup {id})
  BY DEF Unbroken
<1> QED
  BY <1>2, <1>3 DEF NotBegun

-----------------------------------------------------------------------------
(***************************************************************************)
(* The steps keep the invariant.                                           *)
(***************************************************************************)
Phases == {"start", "built", "guarded", "idle", "waiting", "writing"}
InitPhase == {"start", "built", "guarded"}

(* OutputIs: what is in the file is the first of the output. *)
LEMMA OutputIs ==
  ASSUME TypeOK
  PROVE  /\ Output \in Seq(PieceType) /\ Len(Output) = Len(file) + Len(queue)
         /\ \A k \in DOMAIN file : k \in DOMAIN Output /\ Output[k] = file[k]
<1>1. file \in Seq(PieceType) /\ queue \in Seq(PieceType)
  BY DEF TypeOK
<1> QED
  BY <1>1 DEF Output

(* LogInit: the invariant holds at the start of the process. *)
LEMMA LogInit == Init => LogInv
<1> SUFFICES ASSUME Init PROVE LogInv
  OBVIOUS
<1>1. /\ file = <<>> /\ queue = <<>> /\ lines = 0 /\ dropped = {}
      /\ \A t \in Thread : pc[t] \in {"start", "idle"} /\ line[t] = NoLine
      /\ \A t \in Thread : pc[t] = "start" <=> t \in Caller
      /\ lock = None /\ layer = None /\ guard = None
  BY DEF Init
<1>2. TypeOK
  <2>1. /\ pc \in [Thread -> Phases] /\ worker \in [Caller -> {"none"}]
        /\ overlap = FALSE /\ exited = FALSE
    BY DEF Init, Phases
  <2>2. \A S : <<>> \in Seq(S) /\ Len(<<>>) = 0
    OBVIOUS
  <2>3. queue \in Seq(PieceType) /\ Len(queue) <= QueueLimit /\ file \in Seq(PieceType)
    BY <1>1, <2>2
  <2>4. \A t \in Thread : (line[t] # NoLine) <=> pc[t] \in {"waiting", "writing"}
    BY <1>1
  <2> QED
    BY <1>1, <2>1, <2>3, <2>4 DEF TypeOK, Phases
<1>3. Shapes
  BY DEF Init, Shapes
<1>4. Installed
  BY <1>1 DEF Installed, Initialising
<1>5. Threads
  <2>1. \A t \in Thread : spans[t] = <<>>
    BY DEF Init
  <2>2. <<>> \in Seq({})
    OBVIOUS
  <2>3. IsStack(<<>>)
    BY <2>2, StackIs
  <2> QED
    BY <1>1, <2>1, <2>3 DEF Threads, Active
<1>6. Output = <<>>
  BY <1>1 DEF Output
<1>7. Blocks
  BY <1>1, <1>6 DEF Blocks, InOrder, Unbroken
<1> QED
  BY <1>2, <1>3, <1>4, <1>5, <1>7 DEF LogInv

(* InstalledKept: steps that leave the calls of init alone. *)
LEMMA InstalledKept ==
  ASSUME LogInv, UNCHANGED initVars,
         \A t \in Thread : pc'[t] # pc[t] =>
                             pc[t] \notin InitPhase /\ pc'[t] \notin InitPhase
  PROVE  Installed'
<1>1. \A t \in Thread : \A s \in InitPhase : pc'[t] = s <=> pc[t] = s
  BY DEF InitPhase
<1>2. \A t \in Thread : Initialising(t)' <=> Initialising(t)
  BY <1>1 DEF Initialising, InitPhase
<1>3. /\ guard' = guard /\ layer' = layer /\ worker' = worker /\ overlap' = overlap
      /\ guard \in Caller \cup {None} /\ Caller \subseteq Thread /\ Caller' = Caller
  BY DEF initVars, LogInv, TypeOK, Caller
<1>4. \A t \in Thread : /\ pc'[t] \in {"start", "built", "guarded"}
                             <=> pc[t] \in {"start", "built", "guarded"}
                        /\ pc'[t] \in {"start", "built"} <=> pc[t] \in {"start", "built"}
                        /\ pc'[t] = "built" <=> pc[t] = "built"
                        /\ pc'[t] = "guarded" <=> pc[t] = "guarded"
  BY <1>1 DEF InitPhase
<1> QED
  BY <1>2, <1>3, <1>4 DEF LogInv, Installed

(* ApartFromLines: steps of init leave the lines and the log alone. *)
LEMMA ApartFromLines ==
  ASSUME LogInv, NEW t \in Thread, pc[t] \notin Active,
         NEW to \in Phases \ Active, pc' = [pc EXCEPT ![t] = to],
         UNCHANGED <<spans, input, line, at, lock, lines, queue, file, dropped>>,
         layer' = layer \/ (layer = None /\ layer' # None)
  PROVE  /\ pc' \in [Thread -> Phases]
         /\ \A u \in Thread : (line[u]' # NoLine) <=> pc'[u] \in {"waiting", "writing"}
         /\ Shapes' /\ Threads' /\ Blocks'
<1>1. pc \in [Thread -> Phases]
  BY DEF LogInv, TypeOK, Phases
<1>2. /\ pc' \in [Thread -> Phases]
      /\ \A u \in Thread : u # t => pc'[u] = pc[u]
      /\ pc'[t] \notin Active
  BY <1>1
<1>3. \A u \in Thread : /\ pc'[u] \in Active <=> pc[u] \in Active
                        /\ pc'[u] = "waiting" <=> pc[u] = "waiting"
                        /\ pc'[u] = "writing" <=> pc[u] = "writing"
  BY <1>2 DEF Active
<1>4. Shapes'
  BY DEF LogInv, Shapes
<1>5. Threads'
  <2>1. \A u \in Thread : IsStack(spans'[u])
    BY DEF LogInv, Threads
  <2>2. ASSUME NEW u \in Thread, pc'[u] \in Active
        PROVE  /\ layer' # None
               /\ line'[u].id \in 1 .. lines'
               /\ line'[u].fields = Line(input'[u].stack, input'[u].event)
               /\ IsStack(input'[u].stack)
               /\ at'[u] \in 1 .. (Pieces + 1)
               /\ pc'[u] = "waiting" => at'[u] = 1
    BY <1>3, <2>2 DEF LogInv, Threads
  <2>3. \A u, v \in Thread :
          (pc'[u] \in Active /\ pc'[v] \in Active /\ line'[u].id = line'[v].id) => u = v
    BY <1>3 DEF LogInv, Threads
  <2>4. \A u \in Thread : pc'[u] = "writing" <=> lock' = u
    BY <1>3 DEF LogInv, Threads
  <2> QED
    BY <2>1, <2>2, <2>3, <2>4 DEF Threads
<1>6. Output' = Output
  BY DEF Output
<1>7. Blocks'
  BY <1>3, <1>6 DEF LogInv, Blocks
<1>8. \A u \in Thread : (line[u]' # NoLine) <=> pc'[u] \in {"waiting", "writing"}
  BY <1>3 DEF LogInv, TypeOK, Active
<1> QED
  BY <1>2, <1>4, <1>5, <1>7, <1>8

(* BuildHolds: the worker of a caller that has built its writer runs.      *)
LEMMA BuildHolds ==
  ASSUME LogInv, NEW t \in Caller, Build(t), UNCHANGED exited
  PROVE  LogInv'
<1>0. /\ t \in Thread /\ pc[t] = "start" /\ pc' = [pc EXCEPT ![t] = "built"]
      /\ worker' = [worker EXCEPT ![t] = IF Sink[t] = "Directory" THEN "running" ELSE @]
      /\ guard' = guard /\ layer' = layer
      /\ overlap' = (overlap \/ \E u \in Caller : Initialising(u))
      /\ UNCHANGED <<spans, input, line, at, lock, lines, queue, file, dropped, exited>>
  BY DEF Build, sinkVars
<1>1. /\ pc \in [Thread -> Phases] /\ worker \in [Caller -> {"none", "running", "stopped"}]
      /\ "built" \in Phases \ Active /\ pc[t] \notin Active
  BY <1>0 DEF LogInv, TypeOK, Phases, Active
<1>2. /\ pc' \in [Thread -> Phases]
      /\ \A u \in Thread : (line[u]' # NoLine) <=> pc'[u] \in {"waiting", "writing"}
      /\ Shapes' /\ Threads' /\ Blocks'
  BY <1>0, <1>1, ApartFromLines
<1>3. /\ worker' \in [Caller -> {"none", "running", "stopped"}]
      /\ \A u \in Caller : u # t => worker'[u] = worker[u] /\ pc'[u] = pc[u]
      /\ Sink[t] = "Directory" => worker'[t] = "running"
      /\ pc'[t] = "built"
      /\ \A u \in Thread : u # t => pc'[u] = pc[u]
  BY <1>0, <1>1
<1>4. guard # t /\ guard \in Caller \cup {None}
  BY <1>0 DEF LogInv, Installed, TypeOK
<1>5. TypeOK'
  <2>1. overlap' \in BOOLEAN
    BY <1>0 DEF LogInv, TypeOK
  <2> QED
    BY <1>0, <1>2, <1>3, <2>1 DEF LogInv, TypeOK, Phases
<1>6. Installed'
  <2>1. \A u \in Thread : pc'[u] \in {"start", "built", "guarded"} => u \in Caller
    BY <1>0, <1>3 DEF LogInv, Installed
  <2>2. \A u \in Caller :
          (pc'[u] = "built" \/ guard' = u) => (Sink[u] = "Directory" => worker'[u] = "running")
    BY <1>0, <1>3, <1>4 DEF LogInv, Installed
  <2>3. guard' # None => pc'[guard'] \notin {"start", "built"}
    BY <1>0, <1>3, <1>4 DEF LogInv, Installed
  <2>4. layer' # None => guard' # None
    BY <1>0 DEF LogInv, Installed
  <2>5. \A u \in Caller : pc'[u] = "guarded" => guard' # None
    BY <1>0, <1>3 DEF LogInv, Installed
  <2>6. ASSUME ~overlap'
        PROVE  /\ \A u, v \in Caller : Initialising(u)' /\ Initialising(v)' => u = v
               /\ layer' # None => layer' = guard'
               /\ (layer' = None /\ guard' # None) => pc'[guard'] = "guarded"
    <3>1. ~overlap /\ \A u \in Caller : ~Initialising(u)
      BY <1>0, <2>6
    <3>2. \A u \in Caller : Initialising(u)' => u = t
      BY <1>3, <3>1 DEF Initialising
    <3> QED
      BY <1>0, <1>3, <1>4, <3>1, <3>2 DEF LogInv, Installed
  <2> QED
    BY <2>1, <2>2, <2>3, <2>4, <2>5, <2>6 DEF Installed, Caller
<1> QED
  BY <1>2, <1>5, <1>6 DEF LogInv

(* SetGuardHolds: whoever fills GUARD keeps its worker; another loses it. *)
LEMMA SetGuardHolds ==
  ASSUME LogInv, NEW t \in Caller, SetGuard(t), UNCHANGED exited
  PROVE  LogInv'
<1>0. /\ t \in Thread /\ pc[t] = "built" /\ pc' = [pc EXCEPT ![t] = "guarded"]
      /\ \/ guard = None /\ guard' = t /\ worker' = worker
         \/ /\ guard # None /\ guard' = guard
            /\ worker' = [worker EXCEPT ![t] = IF @ = "running" THEN "stopped" ELSE @]
      /\ layer' = layer /\ overlap' = overlap
      /\ UNCHANGED <<spans, input, line, at, lock, lines, queue, file, dropped, exited>>
  BY DEF SetGuard, sinkVars
<1>1. /\ pc \in [Thread -> Phases] /\ worker \in [Caller -> {"none", "running", "stopped"}]
      /\ "guarded" \in Phases \ Active /\ pc[t] \notin Active
  BY <1>0 DEF LogInv, TypeOK, Phases, Active
<1>2. /\ pc' \in [Thread -> Phases]
      /\ \A u \in Thread : (line[u]' # NoLine) <=> pc'[u] \in {"waiting", "writing"}
      /\ Shapes' /\ Threads' /\ Blocks'
  BY <1>0, <1>1, ApartFromLines
<1>3. /\ worker' \in [Caller -> {"none", "running", "stopped"}]
      /\ \A u \in Caller : u # t => worker'[u] = worker[u] /\ pc'[u] = pc[u]
      /\ pc'[t] = "guarded"
      /\ \A u \in Thread : u # t => pc'[u] = pc[u]
      /\ guard' \in Caller /\ (guard' = t => guard = None /\ worker' = worker)
  <2>1. guard # t /\ guard \in Caller \cup {None}
    BY <1>0 DEF LogInv, Installed, TypeOK
  <2> QED
    BY <1>0, <1>1, <2>1
<1>5. TypeOK'
  BY <1>0, <1>2, <1>3 DEF LogInv, TypeOK, Phases
<1>6. Installed'
  <2>0. guard' # None
    BY <1>3
  <2>1. \A u \in Thread : pc'[u] \in {"start", "built", "guarded"} => u \in Caller
    BY <1>0, <1>3 DEF LogInv, Installed
  <2>2. ASSUME NEW u \in Caller, pc'[u] = "built" \/ guard' = u, Sink[u] = "Directory"
        PROVE  worker'[u] = "running"
    <3>1. CASE u = t
      BY <1>0, <1>3, <2>2, <3>1 DEF LogInv, Installed
    <3>2. CASE u # t
      BY <1>0, <1>3, <2>2, <3>2 DEF LogInv, Installed
    <3> QED
      BY <3>1, <3>2
  <2>3. pc'[guard'] \notin {"start", "built"}
    BY <1>0, <1>3 DEF LogInv, Installed
  <2>6. ASSUME ~overlap'
        PROVE  /\ \A u, v \in Caller : Initialising(u)' /\ Initialising(v)' => u = v
               /\ layer' # None => layer' = guard'
               /\ (layer' = None /\ guard' # None) => pc'[guard'] = "guarded"
    <3>1. ~overlap
      BY <1>0, <2>6
    <3>2. \A u \in Caller : Initialising(u)' <=> Initialising(u)
      BY <1>0, <1>3 DEF Initialising
    <3> QED
      BY <1>0, <1>3, <3>1, <3>2 DEF LogInv, Installed
  <2> QED
    BY <2>0, <2>1, <2>2, <2>3, <2>6 DEF Installed, Caller
<1> QED
  BY <1>2, <1>5, <1>6 DEF LogInv

(* TryInitHolds: the first caller to get here installs its layer.          *)
LEMMA TryInitHolds ==
  ASSUME LogInv, NEW t \in Caller, TryInit(t), UNCHANGED exited
  PROVE  LogInv'
<1>0. /\ t \in Thread /\ pc[t] = "guarded" /\ pc' = [pc EXCEPT ![t] = "idle"]
      /\ layer' = (IF layer = None THEN t ELSE layer)
      /\ guard' = guard /\ worker' = worker /\ overlap' = overlap
      /\ UNCHANGED <<spans, input, line, at, lock, lines, queue, file, dropped, exited>>
  BY DEF TryInit, sinkVars
<1>1. /\ pc \in [Thread -> Phases] /\ layer' # None
      /\ "idle" \in Phases \ Active /\ pc[t] \notin Active
  BY <1>0 DEF LogInv, TypeOK, Phases, Active
<1>2. /\ pc' \in [Thread -> Phases]
      /\ \A u \in Thread : (line[u]' # NoLine) <=> pc'[u] \in {"waiting", "writing"}
      /\ Shapes' /\ Threads' /\ Blocks'
  <2>1. layer' = layer \/ (layer = None /\ layer' # None)
    BY <1>0, <1>1
  <2> QED
    BY <1>0, <1>1, <2>1, ApartFromLines
<1>3. /\ pc'[t] = "idle"
      /\ \A u \in Thread : u # t => pc'[u] = pc[u]
  BY <1>0, <1>1
<1>5. TypeOK'
  BY <1>0, <1>2 DEF LogInv, TypeOK, Phases
<1>6. Installed'
  <2>0. guard # None /\ guard \in Caller
    BY <1>0 DEF LogInv, Installed, TypeOK
  <2>1. \A u \in Thread : pc'[u] \in {"start", "built", "guarded"} => u \in Caller
    BY <1>3 DEF LogInv, Installed
  <2>2. \A u \in Caller :
          (pc'[u] = "built" \/ guard' = u) => (Sink[u] = "Directory" => worker'[u] = "running")
    BY <1>0, <1>3 DEF LogInv, Installed
  <2>3. pc'[guard'] \notin {"start", "built"}
    BY <1>0, <1>3, <2>0 DEF LogInv, Installed
  <2>6. ASSUME ~overlap'
        PROVE  /\ \A u, v \in Caller : Initialising(u)' /\ Initialising(v)' => u = v
               /\ layer' # None => layer' = guard'
               /\ (layer' = None /\ guard' # None) => pc'[guard'] = "guarded"
    <3>1. ~overlap
      BY <1>0, <2>6
    <3>2. \A u \in Caller : Initialising(u)' => Initialising(u)
      BY <1>0, <1>3 DEF Initialising
    <3>3. layer = None => guard = t
      <4>1. layer = None => pc[guard] = "guarded"
        BY <2>0, <3>1 DEF LogInv, Installed
      <4> QED
        BY <1>0, <2>0, <3>1, <4>1 DEF LogInv, Installed, Initialising
    <3> QED
      BY <1>0, <1>1, <3>1, <3>2, <3>3 DEF LogInv, Installed
  <2> QED
    BY <1>0, <2>0, <2>1, <2>2, <2>3, <2>6 DEF Installed, Caller
<1> QED
  BY <1>2, <1>5, <1>6 DEF LogInv

(* SpansHold: a step that changes the stack of one thread's spans. *)
LEMMA SpansHold ==
  ASSUME LogInv, NEW t \in Thread, NEW s, IsStack(s), SetSpans(t, s),
         UNCHANGED exited
  PROVE  LogInv'
<1>1. /\ spans = [u \in Thread |-> spans[u]] /\ spans' = [spans EXCEPT ![t] = s]
      /\ UNCHANGED <<pc, guard, layer, worker, overlap, input, line, at, lock, lines,
                     queue, file, dropped, exited>>
  BY DEF LogInv, Shapes, SetSpans, initVars, sinkVars
<1>2. /\ spans' = [u \in Thread |-> spans'[u]]
      /\ spans'[t] = s /\ \A u \in Thread : u # t => spans'[u] = spans[u]
  BY <1>1
<1>3. TypeOK'
  BY <1>1 DEF LogInv, TypeOK
<1>4. Shapes'
  BY <1>1, <1>2 DEF LogInv, Shapes
<1>5. Installed'
  BY <1>1, InstalledKept DEF initVars
<1>6. Threads'
  <2>1. \A u \in Thread : IsStack(spans'[u])
    BY <1>2 DEF LogInv, Threads
  <2> QED
    BY <1>1, <2>1 DEF LogInv, Threads
<1>7. Output' = Output
  BY <1>1 DEF Output
<1>8. Blocks'
  BY <1>1, <1>7 DEF LogInv, Blocks
<1> QED
  BY <1>3, <1>4, <1>5, <1>6, <1>8 DEF LogInv

(* EmitHolds: the new line's number is in no log and of no other thread. *)
LEMMA EmitHolds ==
  ASSUME LogInv, NEW t \in Thread, NEW event, Emit(t, event), UNCHANGED exited
  PROVE  LogInv'
<1> DEFINE id == lines + 1
           in == [stack |-> spans[t], event |-> event]
           new == [id |-> id, fields |-> Line(spans[t], event)]
<1>1. /\ pc[t] = "idle" /\ layer # None /\ lines < MaxLines /\ lines' = id
      /\ pc' = [pc EXCEPT ![t] = "waiting"]
      /\ input' = [input EXCEPT ![t] = in] /\ line' = [line EXCEPT ![t] = new]
      /\ at' = [at EXCEPT ![t] = 1]
      /\ UNCHANGED <<guard, layer, worker, overlap, spans, lock, queue, file,
                     dropped, exited>>
  BY DEF Emit, initVars, sinkVars
<1>2. /\ pc \in [Thread -> Phases] /\ lines \in 0 .. MaxLines
      /\ input = [u \in Thread |-> input[u]] /\ line = [u \in Thread |-> line[u]]
      /\ at \in [Thread -> 0 .. (Pieces + 1)]
  BY DEF LogInv, TypeOK, Shapes, Phases
<1>3. /\ in.stack = spans[t] /\ in.event = event
      /\ new.id = id /\ new.fields = Line(spans[t], event) /\ new # NoLine
  BY <1>2 DEF NoLine
<1> HIDE DEF in, new
<1>4. /\ pc' \in [Thread -> Phases] /\ lines' \in 0 .. MaxLines
      /\ input' = [u \in Thread |-> input'[u]] /\ line' = [u \in Thread |-> line'[u]]
      /\ at' \in [Thread -> 0 .. (Pieces + 1)]
      /\ pc'[t] = "waiting" /\ input'[t] = in /\ line'[t] = new /\ at'[t] = 1
  <2>1. pc' \in [Thread -> Phases] /\ pc'[t] = "waiting"
    BY <1>1, <1>2 DEF Phases
  <2>2. lines' \in 0 .. MaxLines
    BY <1>1, <1>2
  <2>3. input' = [u \in Thread |-> input'[u]] /\ input'[t] = in
    BY <1>1, <1>2
  <2>4. line' = [u \in Thread |-> line'[u]] /\ line'[t] = new
    BY <1>1, <1>2
  <2>5. at' \in [Thread -> 0 .. (Pieces + 1)] /\ at'[t] = 1
    BY <1>1, <1>2
  <2> QED
    BY <2>1, <2>2, <2>3, <2>4, <2>5
<1>5. \A u \in Thread : u # t =>
        pc'[u] = pc[u] /\ input'[u] = input[u] /\ line'[u] = line[u] /\ at'[u] = at[u]
  BY <1>1, <1>2
<1>6. TypeOK'
  <2>1. ASSUME NEW u \in Thread
        PROVE  (line'[u] # NoLine) <=> pc'[u] \in {"waiting", "writing"}
    <3>1. CASE u = t
      BY <1>3, <1>4, <3>1
    <3>2. CASE u # t
      <4>1. (line[u] # NoLine) <=> pc[u] \in {"waiting", "writing"}
        BY DEF LogInv, TypeOK
      <4> QED
        BY <1>5, <3>2, <4>1
    <3> QED
      BY <3>1, <3>2
  <2>2. pc' \in [Thread -> Phases]
    BY <1>4
  <2> QED
    BY <1>1, <2>1, <2>2 DEF LogInv, TypeOK, Phases
<1>7. Shapes'
  BY <1>1, <1>4 DEF LogInv, Shapes
<1>8. Installed'
  <2>1. \A u \in Thread : pc'[u] # pc[u] => pc[u] \notin InitPhase /\ pc'[u] \notin InitPhase
    BY <1>1, <1>4, <1>5 DEF InitPhase
  <2> QED
    BY <1>1, <2>1, InstalledKept DEF initVars
<1>9. Threads'
  <2>1. \A u \in Thread : IsStack(spans'[u])
    BY <1>1 DEF LogInv, Threads
  <2>2. ASSUME NEW u \in Thread, pc'[u] \in Active
        PROVE  /\ layer' # None
               /\ line'[u].id \in 1 .. lines'
               /\ line'[u].fields = Line(input'[u].stack, input'[u].event)
               /\ IsStack(input'[u].stack)
               /\ at'[u] \in 1 .. (Pieces + 1)
               /\ pc'[u] = "waiting" => at'[u] = 1
    <3>1. CASE u = t
      BY <1>1, <1>2, <1>3, <1>4, <2>1, <3>1
    <3>2. CASE u # t
      <4>1. /\ pc[u] \in Active /\ pc'[u] = pc[u] /\ input'[u] = input[u]
            /\ line'[u] = line[u] /\ at'[u] = at[u]
        BY <1>5, <2>2, <3>2
      <4>2. line'[u].id \in 1 .. lines
        BY <4>1 DEF LogInv, Threads
      <4>3. line'[u].id \in 1 .. lines'
        BY <1>1, <1>2, <4>2
      <4> QED
        BY <1>1, <4>1, <4>3 DEF LogInv, Threads
    <3> QED
      BY <3>1, <3>2
  <2>3. ASSUME NEW u \in Thread, u # t, pc'[u] \in Active
        PROVE  line'[u].id # line'[t].id
    BY <1>2, <1>3, <1>4, <1>5, <2>3 DEF LogInv, Threads
  <2>4. \A u, v \in Thread :
          (pc'[u] \in Active /\ pc'[v] \in Active /\ line'[u].id = line'[v].id) => u = v
    BY <1>5, <2>3 DEF LogInv, Threads
  <2>5. \A u \in Thread : pc'[u] = "writing" <=> lock' = u
    BY <1>1, <1>4, <1>5 DEF LogInv, Threads
  <2> QED
    BY <2>1, <2>2, <2>4, <2>5 DEF Threads
<1>10. Blocks'
  <2>1. Output' = Output
    BY <1>1 DEF Output
  <2>2. Output \in Seq(PieceType)
    BY OutputIs DEF LogInv
  <2>3. \A k \in DOMAIN Output : Output[k].line \in Nat /\ Output[k].line <= lines
    <3>1. \A k \in DOMAIN Output : Output[k] \in PieceType
      BY <2>2
    <3> QED
      BY <3>1 DEF LogInv, Blocks, PieceType
  <2>4. NotBegun(Output, dropped, id)
    BY <1>2, <2>3 DEF LogInv, Blocks, NotBegun
  <2>5. /\ \A k \in DOMAIN Output : Output[k].line <= lines'
        /\ dropped \subseteq 1 .. lines'
    BY <1>1, <1>2, <2>3 DEF LogInv, Blocks
  <2>6. \A u \in Thread :
          /\ pc'[u] = "waiting" => NotBegun(Output, dropped, line'[u].id)
          /\ pc'[u] = "writing" => Begun(Output, dropped, line'[u].id, at'[u])
    BY <1>3, <1>4, <1>5, <2>4 DEF LogInv, Blocks
  <2> QED
    BY <1>1, <2>1, <2>5, <2>6 DEF LogInv, Blocks
<1> QED
  BY <1>6, <1>7, <1>8, <1>9, <1>10 DEF LogInv

(* LockHolds: the thread that takes the lock has written nothing yet. *)
LEMMA LockHolds ==
  ASSUME LogInv, NEW t \in Thread, Lock(t), UNCHANGED exited
  PROVE  LogInv'
<1>1. /\ pc[t] = "waiting" /\ lock = None /\ lock' = t
      /\ pc' = [pc EXCEPT ![t] = "writing"]
      /\ UNCHANGED <<guard, layer, worker, overlap, spans, input, line, at, lines,
                     queue, file, dropped, exited>>
  BY DEF Lock, initVars, sinkVars
<1>2. pc \in [Thread -> Phases]
  BY DEF LogInv, TypeOK, Phases
<1>3. /\ pc' \in [Thread -> Phases] /\ pc'[t] = "writing"
      /\ \A u \in Thread : u # t => pc'[u] = pc[u]
  BY <1>1, <1>2 DEF Phases
<1>4. \A u \in Thread : pc'[u] \in Active <=> pc[u] \in Active
  BY <1>1, <1>3 DEF Active
<1>5. TypeOK'
  <2>1. \A u \in Thread : (line'[u] # NoLine) <=> pc'[u] \in {"waiting", "writing"}
    BY <1>1, <1>4 DEF LogInv, TypeOK, Active
  <2> QED
    BY <1>1, <1>3, <2>1 DEF LogInv, TypeOK, Phases
<1>6. Shapes'
  BY <1>1 DEF LogInv, Shapes
<1>7. Installed'
  <2>1. \A u \in Thread : pc'[u] # pc[u] => pc[u] \notin InitPhase /\ pc'[u] \notin InitPhase
    BY <1>1, <1>3 DEF InitPhase
  <2> QED
    BY <1>1, <2>1, InstalledKept DEF initVars
<1>8. Threads'
  <2>1. \A u \in Thread : pc'[u] = "waiting" => pc[u] = "waiting"
    BY <1>3
  <2>2. ASSUME NEW u \in Thread, pc'[u] \in Active
        PROVE  /\ layer' # None
               /\ line'[u].id \in 1 .. lines'
               /\ line'[u].fields = Line(input'[u].stack, input'[u].event)
               /\ IsStack(input'[u].stack)
               /\ at'[u] \in 1 .. (Pieces + 1)
               /\ pc'[u] = "waiting" => at'[u] = 1
    BY <1>1, <1>4, <2>1, <2>2 DEF LogInv, Threads
  <2>3. \A u \in Thread : IsStack(spans'[u])
    BY <1>1 DEF LogInv, Threads
  <2>4. \A u, v \in Thread :
          (pc'[u] \in Active /\ pc'[v] \in Active /\ line'[u].id = line'[v].id) => u = v
    BY <1>1, <1>4 DEF LogInv, Threads
  <2>5. \A u \in Thread : pc'[u] = "writing" <=> lock' = u
    BY <1>1, <1>3 DEF LogInv, Threads
  <2> QED
    BY <2>2, <2>3, <2>4, <2>5 DEF Threads
<1>9. Blocks'
  <2>1. Output' = Output
    BY <1>1 DEF Output
  <2>2. Begun(Output, dropped, line[t].id, at[t])
    <3>1. NotBegun(Output, dropped, line[t].id) /\ at[t] = 1
      BY <1>1 DEF LogInv, Blocks, Threads, Active
    <3> QED
      BY <3>1 DEF NotBegun, Begun
  <2>3. \A u \in Thread :
          /\ pc'[u] = "waiting" => NotBegun(Output, dropped, line[u].id)
          /\ pc'[u] = "writing" => Begun(Output, dropped, line[u].id, at[u])
    BY <1>3, <2>2 DEF LogInv, Blocks
  <2> QED
    BY <1>1, <2>1, <2>3 DEF LogInv, Blocks
<1> QED
  BY <1>5, <1>6, <1>7, <1>8, <1>9 DEF LogInv

(* WriteHolds: a piece goes after the earlier ones of its line, at the end *)
(* of the log, or is lost.                                                 *)
LEMMA WriteHolds ==
  ASSUME LogInv, NEW t \in Thread, Write(t), UNCHANGED exited
  PROVE  LogInv'
<1> DEFINE id == line[t].id
           p == Piece(t)
<1>1. /\ pc[t] = "writing" /\ at[t] <= Pieces /\ Put(p)
      /\ at' = [at EXCEPT ![t] = @ + 1]
      /\ UNCHANGED <<pc, guard, layer, worker, overlap, spans, input, line, lock,
                     lines, exited>>
  BY DEF Write, initVars
<1>2. /\ layer # None /\ id \in 1 .. lines /\ at[t] \in 1 .. Pieces
      /\ Begun(Output, dropped, id, at[t])
  BY <1>1 DEF LogInv, Threads, Blocks, Active
<1>3. p = [line |-> id, part |-> at[t]] /\ p \in PieceType /\ id \in 1 .. MaxLines
  <2>1. lines \in 0 .. MaxLines
    BY DEF LogInv, Shapes
  <2>2. id \in 1 .. MaxLines
    BY <1>2, <2>1
  <2> QED
    BY <1>2, <2>2 DEF Piece, PieceType
<1> HIDE DEF p
<1>4. /\ at' \in [Thread -> 0 .. (Pieces + 1)] /\ at'[t] = at[t] + 1
      /\ \A u \in Thread : u # t => at'[u] = at[u]
  BY <1>1, <1>2 DEF LogInv, Shapes
<1>5. /\ Output \in Seq(PieceType) /\ file \in Seq(PieceType)
      /\ queue \in Seq(PieceType) /\ Len(queue) <= QueueLimit
      /\ InOrder(Output) /\ Unbroken(Output, dropped)
      /\ dropped \subseteq 1 .. MaxLines /\ dropped \subseteq 1 .. lines
      /\ layer \in Caller /\ Sink[layer] \in {"Directory", "Stream"}
      /\ Sink[layer] = "Stream" => queue = <<>>
  BY <1>2, OutputIs DEF LogInv, TypeOK, Blocks
<1>6. /\ file' \in Seq(PieceType) /\ queue' \in Seq(PieceType)
      /\ Len(queue') <= QueueLimit
      /\ (layer = None \/ Sink[layer] = "Stream") => queue' = <<>>
      /\ \/ Output' = Append(Output, p) /\ dropped' = dropped
         \/ Output' = Output /\ dropped' = dropped \cup {id}
  <2>1. CASE file' = Append(file, p) /\ Sink[layer] = "Stream"
             /\ queue' = queue /\ dropped' = dropped
    <3>1. queue = <<>>
      BY <1>5, <2>1
    <3>2. Output' = Append(Output, p)
      BY <1>3, <1>5, <2>1, <3>1 DEF Output
    <3> QED
      BY <1>3, <1>5, <2>1, <3>2
  <2>2. CASE Sink[layer] = "Directory" /\ Room /\ queue' = Append(queue, p)
             /\ dropped' = dropped /\ file' = file
    <3>1. Output' = Append(Output, p)
      BY <1>3, <1>5, <2>2 DEF Output
    <3>2. Len(queue') <= QueueLimit /\ queue' \in Seq(PieceType)
      BY <1>3, <1>5, <2>2 DEF Room
    <3> QED
      BY <1>2, <1>5, <2>2, <3>1, <3>2
  <2>3. CASE Sink[layer] = "Directory" /\ queue' = queue
             /\ dropped' = dropped \cup {p.line} /\ file' = file
    <3>1. Output' = Output
      BY <2>3 DEF Output
    <3> QED
      BY <1>2, <1>3, <1>5, <2>3, <3>1
  <2> QED
    BY <1>1, <2>1, <2>2, <2>3 DEF Put
<1>7. /\ InOrder(Output') /\ Unbroken(Output', dropped')
      /\ Begun(Output', dropped', id, at[t] + 1)
      /\ \A other : (other # id /\ NotBegun(Output, dropped, other))
                      => NotBegun(Output', dropped', other)
  <2>1. CASE Output' = Append(Output, p) /\ dropped' = dropped
    BY <1>2, <1>3, <1>5, <2>1, AppendKeeps
  <2>2. CASE Output' = Output /\ dropped' = dropped \cup {id}
    BY <1>2, <1>5, <2>2, LosePiece
  <2> QED
    BY <1>6, <2>1, <2>2
<1>8. /\ dropped' \subseteq 1 .. MaxLines /\ dropped' \subseteq 1 .. lines
      /\ \A k \in DOMAIN Output' : Output'[k].line <= lines
  <2>1. CASE Output' = Append(Output, p) /\ dropped' = dropped
    <3>1. \A k \in DOMAIN Output' : \/ k \in DOMAIN Output /\ Output'[k] = Output[k]
                                    \/ Output'[k] = p
      BY <1>3, <1>5, <2>1
    <3>2. p.line <= lines
      BY <1>2, <1>3
    <3> QED
      BY <1>5, <2>1, <3>1, <3>2 DEF LogInv, Blocks
  <2>2. CASE Output' = Output /\ dropped' = dropped \cup {id}
    BY <1>2, <1>3, <1>5, <2>2 DEF LogInv, Blocks
  <2> QED
    BY <1>6, <2>1, <2>2
<1>9. TypeOK'
  BY <1>1, <1>6, <1>8 DEF LogInv, TypeOK
<1>10. Shapes'
  BY <1>1, <1>4 DEF LogInv, Shapes
<1>11. Installed'
  BY <1>1, InstalledKept DEF initVars
<1>12. Threads'
  <2>1. \A u \in Thread : pc[u] \in Active =>
          at'[u] \in 1 .. (Pieces + 1) /\ (pc[u] = "waiting" => at'[u] = 1)
    BY <1>1, <1>2, <1>4 DEF LogInv, Threads
  <2>2. ASSUME NEW u \in Thread, pc'[u] \in Active
        PROVE  /\ layer' # None
               /\ line'[u].id \in 1 .. lines'
               /\ line'[u].fields = Line(input'[u].stack, input'[u].event)
               /\ IsStack(input'[u].stack)
               /\ at'[u] \in 1 .. (Pieces + 1)
               /\ pc'[u] = "waiting" => at'[u] = 1
    BY <1>1, <2>1, <2>2 DEF LogInv, Threads
  <2>3. \A u \in Thread : IsStack(spans'[u])
    BY <1>1 DEF LogInv, Threads
  <2>4. \A u, v \in Thread :
          (pc'[u] \in Active /\ pc'[v] \in Active /\ line'[u].id = line'[v].id) => u = v
    BY <1>1 DEF LogInv, Threads
  <2>5. \A u \in Thread : pc'[u] = "writing" <=> lock' = u
    BY <1>1 DEF LogInv, Threads
  <2> QED
    BY <2>2, <2>3, <2>4, <2>5 DEF Threads
<1>13. Blocks'
  <2>1. ASSUME NEW u \in Thread, pc[u] = "waiting"
        PROVE  NotBegun(Output', dropped', line[u].id)
    <3>1. line[u].id # id /\ NotBegun(Output, dropped, line[u].id)
      BY <1>1, <2>1 DEF LogInv, Threads, Blocks, Active
    <3> QED
      BY <1>7, <3>1
  <2>2. ASSUME NEW u \in Thread, pc[u] = "writing"
        PROVE  Begun(Output', dropped', line[u].id, at'[u])
    <3>1. u = t
      BY <1>1, <2>2 DEF LogInv, Threads
    <3> QED
      BY <1>4, <1>7, <3>1
  <2> QED
    BY <1>1, <1>6, <1>7, <1>8, <2>1, <2>2 DEF Blocks
<1> QED
  BY <1>9, <1>10, <1>11, <1>12, <1>13 DEF LogInv

(* FlushHolds: the line is whole, and the lock is free for the next. *)
LEMMA FlushHolds ==
  ASSUME LogInv, NEW t \in Thread, Flush(t), UNCHANGED exited
  PROVE  LogInv'
<1>1. /\ pc[t] = "writing" /\ lock' = None
      /\ pc' = [pc EXCEPT ![t] = "idle"] /\ at' = [at EXCEPT ![t] = 0]
      /\ input' = [input EXCEPT ![t] = None] /\ line' = [line EXCEPT ![t] = NoLine]
      /\ UNCHANGED <<guard, layer, worker, overlap, spans, lines, queue, file,
                     dropped, exited>>
  BY DEF Flush, initVars, sinkVars
<1>2. /\ pc \in [Thread -> Phases] /\ at \in [Thread -> 0 .. (Pieces + 1)]
      /\ input = [u \in Thread |-> input[u]] /\ line = [u \in Thread |-> line[u]]
  BY DEF LogInv, TypeOK, Shapes, Phases
<1>3. pc' \in [Thread -> Phases] /\ pc'[t] = "idle"
  BY <1>1, <1>2 DEF Phases
<1>4. at' \in [Thread -> 0 .. (Pieces + 1)]
  BY <1>1, <1>2
<1>5. input' = [u \in Thread |-> input'[u]]
  BY <1>1, <1>2
<1>6. line' = [u \in Thread |-> line'[u]] /\ line'[t] = NoLine
  BY <1>1, <1>2
<1>7. \A u \in Thread : u # t =>
        pc'[u] = pc[u] /\ input'[u] = input[u] /\ line'[u] = line[u] /\ at'[u] = at[u]
  BY <1>1, <1>2
<1>8. TypeOK'
  <2>1. \A u \in Thread : (line'[u] # NoLine) <=> pc'[u] \in {"waiting", "writing"}
    BY <1>3, <1>6, <1>7 DEF LogInv, TypeOK
  <2> QED
    BY <1>1, <1>3, <2>1 DEF LogInv, TypeOK, Phases
<1>9. Shapes'
  BY <1>1, <1>4, <1>5, <1>6 DEF LogInv, Shapes
<1>10. Installed'
  <2>1. \A u \in Thread : pc'[u] # pc[u] => pc[u] \notin InitPhase /\ pc'[u] \notin InitPhase
    BY <1>1, <1>3, <1>7 DEF InitPhase
  <2> QED
    BY <1>1, <2>1, InstalledKept DEF initVars
<1>11. \A u \in Thread : pc'[u] \in Active => u # t /\ pc[u] \in Active
  BY <1>3, <1>7 DEF Active
<1>12. Threads'
  <2>1. ASSUME NEW u \in Thread, pc'[u] \in Active
        PROVE  /\ layer' # None
               /\ line'[u].id \in 1 .. lines'
               /\ line'[u].fields = Line(input'[u].stack, input'[u].event)
               /\ IsStack(input'[u].stack)
               /\ at'[u] \in 1 .. (Pieces + 1)
               /\ pc'[u] = "waiting" => at'[u] = 1
    BY <1>1, <1>7, <1>11, <2>1 DEF LogInv, Threads
  <2>2. \A u \in Thread : IsStack(spans'[u])
    BY <1>1 DEF LogInv, Threads
  <2>3. \A u, v \in Thread :
          (pc'[u] \in Active /\ pc'[v] \in Active /\ line'[u].id = line'[v].id) => u = v
    BY <1>7, <1>11 DEF LogInv, Threads
  <2>4. \A u \in Thread : pc'[u] = "writing" <=> lock' = u
    BY <1>1, <1>3, <1>7 DEF LogInv, Threads
  <2> QED
    BY <2>1, <2>2, <2>3, <2>4 DEF Threads
<1>13. Blocks'
  <2>1. Output' = Output
    BY <1>1 DEF Output
  <2>2. \A u \in Thread :
          /\ pc'[u] = "waiting" => NotBegun(Output, dropped, line'[u].id)
          /\ pc'[u] = "writing" => Begun(Output, dropped, line'[u].id, at'[u])
    BY <1>3, <1>7 DEF LogInv, Blocks
  <2> QED
    BY <1>1, <2>1, <2>2 DEF LogInv, Blocks
<1> QED
  BY <1>8, <1>9, <1>10, <1>12, <1>13 DEF LogInv

(* WorkerHolds: what moves from the channel to the file stays where it is  *)
(* in the output.                                                          *)
LEMMA WorkerHolds ==
  ASSUME LogInv, Worker, UNCHANGED exited
  PROVE  LogInv'
<1>1. /\ queue # <<>> /\ file' = Append(file, Head(queue)) /\ queue' = Tail(queue)
      /\ UNCHANGED <<pc, guard, layer, worker, overlap, spans, input, line, at, lock,
                     lines, dropped, exited>>
  BY DEF Worker, initVars
<1>2. /\ file \in Seq(PieceType) /\ queue \in Seq(PieceType)
      /\ Len(queue) <= QueueLimit
  BY DEF LogInv, TypeOK
<1>3. /\ file' \in Seq(PieceType) /\ queue' \in Seq(PieceType)
      /\ Len(queue') <= QueueLimit
  BY <1>1, <1>2
<1>4. Output' = Output
  <2> DEFINE h == Head(queue)
             t == Tail(queue)
  <2>1. h \in PieceType /\ t \in Seq(PieceType) /\ <<h>> \in Seq(PieceType)
    BY <1>1, <1>2
  <2>2. <<h>> \o t = queue
    BY <1>1, <1>2
  <2> HIDE DEF h, t
  <2>3. Append(file, h) = file \o <<h>>
    BY <1>2, <2>1, AppendIsConcat
  <2>4. (file \o <<h>>) \o t = file \o (<<h>> \o t)
    BY <1>2, <2>1, ConcatAssociative
  <2> QED
    BY <1>1, <2>2, <2>3, <2>4 DEF Output, h, t
<1>5. TypeOK'
  BY <1>1, <1>3 DEF LogInv, TypeOK
<1>6. Shapes' /\ Threads'
  BY <1>1 DEF LogInv, Shapes, Threads
<1>7. Installed'
  BY <1>1, InstalledKept DEF initVars
<1>8. Blocks'
  <2>1. ~(layer = None \/ Sink[layer] = "Stream")
    BY <1>1 DEF LogInv, Blocks
  <2> QED
    BY <1>1, <1>4, <2>1 DEF LogInv, Blocks
<1> QED
  BY <1>5, <1>6, <1>7, <1>8 DEF LogInv

(* QuietHolds: the exit of the process and stuttering. *)
LEMMA QuietHolds ==
  ASSUME LogInv, Exit \/ UNCHANGED vars
  PROVE  LogInv'
<1>1. /\ exited' \in BOOLEAN
      /\ UNCHANGED <<pc, guard, layer, worker, overlap, spans, input, line, at, lock,
                     lines, queue, file, dropped>>
  BY DEF Exit, vars, initVars, sinkVars, LogInv, TypeOK
<1>2. TypeOK'
  BY <1>1 DEF LogInv, TypeOK
<1>3. Shapes' /\ Threads'
  BY <1>1 DEF LogInv, Shapes, Threads
<1>4. Installed'
  BY <1>1, InstalledKept DEF initVars
<1>5. Output' = Output
  BY <1>1 DEF Output
<1>6. Blocks'
  BY <1>1, <1>5 DEF LogInv, Blocks
<1> QED
  BY <1>2, <1>3, <1>4, <1>6 DEF LogInv

(* LogStep: one case for each action. *)
LEMMA LogStep == LogInv /\ [Next]_vars => LogInv'
<1> SUFFICES ASSUME LogInv, [Next]_vars PROVE LogInv'
  OBVIOUS
<1>1. ASSUME NEW t \in Thread, Step(t), UNCHANGED exited PROVE LogInv'
  <2>1. CASE t \in Caller /\ Build(t)
    BY <1>1, <2>1, BuildHolds
  <2>2. CASE t \in Caller /\ SetGuard(t)
    BY <1>1, <2>2, SetGuardHolds
  <2>3. CASE t \in Caller /\ TryInit(t)
    BY <1>1, <2>3, TryInitHolds
  <2>4. CASE Lock(t)
    BY <1>1, <2>4, LockHolds
  <2>5. CASE Write(t)
    BY <1>1, <2>5, WriteHolds
  <2>6. CASE Flush(t)
    BY <1>1, <2>6, FlushHolds
  <2> QED
    BY <1>1, <2>1, <2>2, <2>3, <2>4, <2>5, <2>6 DEF Step
<1>2. ASSUME NEW t \in Thread, Use(t), UNCHANGED exited PROVE LogInv'
  <2>1. IsStack(spans[t])
    BY DEF LogInv, Threads
  <2>2. ASSUME NEW bag \in SpanBag[t], on_new_span(t, bag) PROVE LogInv'
    <3>1. IsStack(Append(spans[t], bag))
      BY <2>1, StackSteps
    <3> QED
      BY <1>2, <2>2, <3>1, SpansHold DEF on_new_span
  <2>3. ASSUME NEW bag \in RecordBag, on_record(t, bag) PROVE LogInv'
    <3> DEFINE s == spans[t]
               over == Over(bag, s[Len(s)])
               recorded == [s EXCEPT ![Len(s)] = over]
    <3>1. s # <<>> /\ SetSpans(t, recorded)
      BY <2>3 DEF on_record
    <3>2. IsStack(recorded)
      <4> HIDE DEF over
      <4>1. \A b : IsStack([s EXCEPT ![Len(s)] = b])
        BY <2>1, <3>1, StackSteps
      <4> QED
        BY <4>1
    <3> HIDE DEF recorded
    <3> QED
      BY <1>2, <3>1, <3>2, SpansHold
  <2>4. CASE on_close(t)
    <3>1. IsStack(SubSeq(spans[t], 1, Len(spans[t]) - 1))
      BY <2>1, <2>4, StackSteps DEF on_close
    <3> QED
      BY <1>2, <2>4, <3>1, SpansHold DEF on_close
  <2>5. ASSUME NEW event \in EventBag[t], Emit(t, event) PROVE LogInv'
    BY <1>2, <2>5, EmitHolds
  <2> QED
    BY <1>2, <2>2, <2>3, <2>4, <2>5 DEF Use
<1>3. CASE Running(Worker)
  BY <1>3, WorkerHolds DEF Running
<1>4. CASE ~exited /\ Exit
  BY <1>4, QuietHolds
<1>5. CASE UNCHANGED vars
  BY <1>5, QuietHolds
<1> QED
  BY <1>1, <1>2, <1>3, <1>4, <1>5 DEF Next, Running

(* LogInvariant: the invariant of every theorem below. *)
LEMMA LogInvariant == Spec => []LogInv
  BY LogInit, LogStep, PTL DEF Spec

-----------------------------------------------------------------------------
(* LogTypeCorrect: the channel never holds more than its capacity, and a   *)
(* thread has a line exactly while on_event writes it.                     *)
THEOREM LogTypeCorrect == Spec => []TypeOK
<1>1. LogInv => TypeOK
  BY DEF LogInv
<1> QED
  BY <1>1, LogInvariant, PTL

(* LinesNeverMix: JsonLineLayer holds the Mutex of its writer for the      *)
(* whole of a line, so no piece of another comes between its pieces; and   *)
(* a newline in the file means the whole line is there, unless the channel *)
(* dropped a piece of it.                                                  *)
THEOREM LinesNeverMix == Spec => []LinesWhole
<1>1. ASSUME LogInv PROVE LinesWhole
  <2>1. InOrder(Output) /\ Unbroken(Output, dropped)
    BY <1>1 DEF LogInv, Blocks
  <2>2. \A k \in DOMAIN file : k \in DOMAIN Output /\ Output[k] = file[k]
    BY <1>1, OutputIs DEF LogInv
  <2>3. file \in Seq(PieceType)
    BY <1>1 DEF LogInv, TypeOK
  <2>4. ASSUME NEW k \in DOMAIN file, file[k].part = Pieces, file[k].line \notin dropped,
               NEW n \in 1 .. (Pieces - 1)
        PROVE  \E j \in 1 .. (k - 1) : file[j] = [line |-> file[k].line, part |-> n]
    <3>1. PICK j \in 1 .. (k - 1) : Output[j] = [line |-> file[k].line, part |-> n]
      BY <2>1, <2>2, <2>4 DEF Unbroken
    <3>2. j \in DOMAIN file
      BY <2>3, <2>4, <3>1
    <3> QED
      BY <2>2, <3>1, <3>2
  <2> QED
    BY <2>1, <2>4 DEF LinesWhole, InOrder
<1> QED
  BY <1>1, LogInvariant, PTL

(* SchemaAlwaysKept: every line has the keys of the schema, its own ts,    *)
(* level and component, and for every other key the value of the event or  *)
(* else of the innermost span that has it, however deep the spans are.     *)
THEOREM SchemaAlwaysKept == Spec => []SchemaKept
<1>1. ASSUME LogInv, NEW t \in Thread, line[t] # NoLine
      PROVE  line[t].fields = Line(input[t].stack, input[t].event)
             /\ IsStack(input[t].stack)
  BY <1>1 DEF LogInv, TypeOK, Threads, Active
<1>2. ASSUME LogInv, NEW t \in Thread, line[t] # NoLine
      PROVE  KeepsSchema(line[t].fields, input[t])
  BY <1>1, <1>2, LineSchema
<1>3. LogInv => SchemaKept
  BY <1>2 DEF SchemaKept, KeepsSchema
<1> QED
  BY <1>3, LogInvariant, PTL

(* InstalledWorkerKept: the guard that init keeps is that of the layer it  *)
(* installs, when no two calls of init overlap.                            *)
THEOREM InstalledWorkerKept == Spec => []InstalledWorkerRuns
<1>1. ASSUME LogInv PROVE InstalledWorkerRuns
  BY <1>1 DEF LogInv, TypeOK, Installed, InstalledWorkerRuns
<1> QED
  BY <1>1, LogInvariant, PTL
=============================================================================
