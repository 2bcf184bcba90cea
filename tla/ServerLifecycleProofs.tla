----------------------- MODULE ServerLifecycleProofs -----------------------
(***************************************************************************)
(* Machine-checked proof about ServerLifecycle: any number of connections, *)
(* and of presses of Ctrl-C.                                               *)
(***************************************************************************)
EXTENDS ServerLifecycle, TLAPS

Phase == {"starting", "listening", "serving", "draining", "stopped", "failed", "killed"}
State == {"none", "queued", "open", "closed"} \cup InProgress

(* Drained: what TypeOK says of a server that no longer accepts. *)
Drained ==
  server \in {"draining", "stopped"} =>
    /\ handler /\ signals > 0
    /\ \A c \in Conn : conn[c] \notin {"queued", "open"}

(* SetType: one connection changes, while the server does not. *)
LEMMA SetType ==
  ASSUME TypeOK, NEW c \in Conn, NEW s \in State, Set(c, s),
         UNCHANGED <<server, handler, signals>>,
         server \in {"draining", "stopped"} => s \notin {"queued", "open"},
         answer' \in [Conn -> {"none", "answered", "aborted"}]
  PROVE  TypeOK'
<1>1. conn' \in [Conn -> State]
  BY DEF TypeOK, Set, State
<1>2. Drained'
  BY DEF TypeOK, Set, State, Drained
<1> QED
  BY <1>1, <1>2 DEF TypeOK, Drained, State

(* SentType: a response is written out. *)
LEMMA SentType ==
  ASSUME TypeOK, NEW c \in Conn, Sent(c), server \in {"serving", "draining"},
         UNCHANGED <<server, handler, signals>>
  PROVE  TypeOK'
<1>1. answer' \in [Conn -> {"none", "answered", "aborted"}]
  BY DEF Sent, TypeOK
<1>2. CASE server = "draining"
  BY <1>1, <1>2, SetType DEF Sent, State
<1>3. CASE server = "serving"
  BY <1>1, <1>3, SetType DEF Sent, State
<1> QED
  BY <1>2, <1>3

(* TypeStep: one case for each action. *)
LEMMA TypeStep == TypeOK /\ [Next]_vars => TypeOK'
<1> SUFFICES ASSUME TypeOK, [Next]_vars PROVE TypeOK'
  OBVIOUS
<1> USE MaxSignalsAssumption
<1>1. /\ server \in Phase /\ handler \in BOOLEAN /\ signals \in 0 .. MaxSignals /\ conn \in [Conn -> State]
      /\ answer \in [Conn -> {"none", "answered", "aborted"}] /\ Drained
  BY DEF TypeOK, Phase, State, Drained
<1>2. CASE Bind
  BY <1>2 DEF Bind, TypeOK
<1>3. CASE Serve
  BY <1>3 DEF Serve, TypeOK
<1>4. CASE BeginDrain
  <2>1. conn' \in [Conn -> State]
    BY <1>1, <1>4 DEF BeginDrain, State
  <2>2. Drained'
    BY <1>1, <1>4 DEF BeginDrain, Drained
  <2> QED
    BY <1>4, <2>1, <2>2 DEF BeginDrain, TypeOK, Drained, State
<1>5. CASE Stop
  BY <1>5 DEF Stop, TypeOK
<1>9. CASE AwaitSignal
  BY <1>9 DEF AwaitSignal, TypeOK
<1>6. CASE Ctrl_C
  <2>1. conn' \in [Conn -> State]
    BY <1>1, <1>6 DEF Ctrl_C, ResetAll, State
  <2>2. signals' \in 0 .. MaxSignals /\ signals' > 0
    BY <1>1, <1>6 DEF Ctrl_C
  <2>3. Drained'
    BY <1>1, <1>6, <2>2 DEF Ctrl_C, Drained, Phase
  <2> QED
    BY <1>1, <1>6, <2>1, <2>2, <2>3 DEF Ctrl_C, TypeOK, Drained, State
<1>7. ASSUME NEW c \in Conn, Task(c) \/ Peer(c) PROVE TypeOK'
  <2>1. CASE Accept(c)
    BY <1>1, <2>1, SetType DEF Accept, State
  <2>2. CASE Reply(c)
    BY <2>2, SentType, <1>1, SetType DEF Reply, State, InProgress
  <2>3. CASE Connect(c)
    BY <1>1, <2>3, SetType DEF Connect, State
  <2>4. CASE SendHead(c)
    <3>1. answer' \in [Conn -> {"none", "answered", "aborted"}]
      BY <1>1, <2>4 DEF SendHead
    <3> QED
      BY <1>1, <2>4, <3>1, SetType DEF SendHead, State, InProgress
  <2>5. CASE SendBody(c)
    BY <1>1, <2>5, SetType DEF SendBody, State, InProgress
  <2>6. CASE Abort(c)
    <3>1. answer' \in [Conn -> {"none", "answered", "aborted"}]
      BY <1>1, <2>6 DEF Abort
    <3> QED
      BY <1>1, <2>6, <3>1, SetType DEF Abort, State
  <2>7. CASE ReadResponse(c)
    BY <2>7, SentType DEF ReadResponse
  <2> QED
    BY <1>7, <2>1, <2>2, <2>3, <2>4, <2>5, <2>6, <2>7 DEF Task, Peer
<1>8. CASE UNCHANGED vars
  BY <1>8 DEF vars, TypeOK
<1> QED
  BY <1>2, <1>3, <1>4, <1>5, <1>6, <1>7, <1>8, <1>9 DEF Next, Main

(* DrainsOnSignalOnly: shutdown_signal returns only after its handler was  *)
(* installed and Ctrl-C pressed, and from then on no connection waits to   *)
(* be accepted or for a first request, whatever the clients do; a process  *)
(* whose handler is installed is never killed by Ctrl-C.                   *)
THEOREM DrainsOnSignalOnly == Spec => []TypeOK
<1>1. Init => TypeOK
  <2> SUFFICES ASSUME Init PROVE TypeOK
    OBVIOUS
  <2>1. server = "starting" /\ ~handler /\ handler \in BOOLEAN
    BY Zenon DEF Init
  <2>3. signals \in 0 .. MaxSignals
    BY MaxSignalsAssumption DEF Init
  <2>2. /\ conn \in [Conn -> {"none", "queued", "open", "closed"} \cup InProgress]
        /\ answer \in [Conn -> {"none", "answered", "aborted"}]
    BY DEF Init
  <2> QED
    BY <2>1, <2>2, <2>3 DEF TypeOK
<1> QED
  BY <1>1, TypeStep, PTL DEF Spec
=============================================================================
