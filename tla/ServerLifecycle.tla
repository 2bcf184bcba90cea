-------------------------- MODULE ServerLifecycle --------------------------
(***************************************************************************)
(* cloud/api/src/main.rs: the life of the space-cloud process, with the    *)
(* connections of its clients.  What axum::serve and the operating system  *)
(* do is modelled from how main uses them: a bound listener queues         *)
(* connections before they are accepted; with_graceful_shutdown spawns a   *)
(* task for shutdown_signal, and tokio::signal::ctrl_c installs its        *)
(* handler when that task is first polled, perhaps after requests are      *)
(* served; graceful shutdown stops accepting, closes the connections with  *)
(* no request in progress and waits for the others.  A connection is in    *)
(* progress until its response is written out: one that does not fit the   *)
(* buffers of the socket waits for the client to read.  What a request     *)
(* does to the stores is in CloudApi.                                      *)
(***************************************************************************)
EXTENDS Naturals

CONSTANTS
  Conn,         \* the connections of clients
  MaxSignals    \* bound: how often Ctrl-C is pressed

ASSUME MaxSignalsAssumption == MaxSignals \in Nat

VARIABLES
  server,       \* the phase of main
  handler,      \* the Ctrl-C handler is installed
  signals,      \* how often Ctrl-C was pressed
  conn,         \* the state of each connection
  answer        \* what became of the last request on it

vars == <<server, handler, signals, conn, answer>>

-----------------------------------------------------------------------------
Init ==
  /\ server = "starting"
  /\ handler = FALSE
  /\ signals = 0
  /\ conn = [c \in Conn |-> "none"]
  /\ answer = [c \in Conn |-> "none"]

(* When the process ends, so do its connections. *)
ResetAll == conn' = [c \in Conn |-> IF conn[c] = "none" THEN "none" ELSE "closed"]

(* The logger and the listener; either may fail, and main then ends. *)
Bind ==
  /\ server = "starting"
  /\ server' \in {"listening", "failed"}
  /\ UNCHANGED <<handler, signals, conn, answer>>

(* axum::serve is polled: it spawns shutdown_signal and accepts. *)
Serve ==
  /\ server = "listening"
  /\ server' = "serving"
  /\ UNCHANGED <<handler, signals, conn, answer>>

(* The task of shutdown_signal is polled for the first time. *)
AwaitSignal ==
  /\ server = "serving" /\ ~handler
  /\ handler' = TRUE
  /\ UNCHANGED <<server, signals, conn, answer>>

(* Ctrl-C ends a process without a handler; with one it is only noted.     *)
(* tokio keeps the handler, so a second Ctrl-C does nothing more.          *)
Ctrl_C ==
  /\ server \in {"starting", "listening", "serving", "draining"}
  /\ signals < MaxSignals
  /\ signals' = signals + 1
  /\ \/ ~handler /\ server' = "killed" /\ ResetAll
     \/ handler /\ UNCHANGED <<server, conn>>
  /\ UNCHANGED <<handler, answer>>

-----------------------------------------------------------------------------
(* Steps of a client and of the task that serves its connection. *)
InProgress == {"body", "handling", "responding"}

Set(c, state) == conn' = [conn EXCEPT ![c] = state]

Connect(c) ==
  /\ conn[c] = "none"
  /\ server \in {"listening", "serving"}
  /\ Set(c, "queued")
  /\ UNCHANGED <<server, handler, signals, answer>>

Accept(c) ==
  /\ server = "serving"
  /\ conn[c] = "queued"
  /\ Set(c, "open")
  /\ UNCHANGED <<server, handler, signals, answer>>

(* The head of a request arrives; the handler now waits for the body. *)
SendHead(c) ==
  /\ conn[c] = "open"
  /\ Set(c, "body")
  /\ answer' = [answer EXCEPT ![c] = "none"]
  /\ UNCHANGED <<server, handler, signals>>

SendBody(c) ==
  /\ conn[c] = "body"
  /\ Set(c, "handling")
  /\ UNCHANGED <<server, handler, signals, answer>>

(* The client closes the connection. *)
Abort(c) ==
  /\ conn[c] \in {"queued", "open"} \cup InProgress
  /\ Set(c, "closed")
  /\ answer' = [answer EXCEPT ![c] =
                  IF conn[c] \in InProgress THEN "aborted" ELSE @]
  /\ UNCHANGED <<server, handler, signals>>

(* The response is written out; the connection is kept unless the server   *)
(* drains.                                                                 *)
Sent(c) ==
  /\ Set(c, IF server = "draining" THEN "closed" ELSE "open")
  /\ answer' = [answer EXCEPT ![c] = "answered"]

(* The handler returns.  What the buffers of the socket do not take waits  *)
(* for the client.                                                         *)
Reply(c) ==
  /\ conn[c] = "handling"
  /\ server \in {"serving", "draining"}
  /\ \/ Sent(c)
     \/ Set(c, "responding") /\ UNCHANGED answer
  /\ UNCHANGED <<server, handler, signals>>

(* The client reads the rest of its response. *)
ReadResponse(c) ==
  /\ conn[c] = "responding"
  /\ server \in {"serving", "draining"}
  /\ Sent(c)
  /\ UNCHANGED <<server, handler, signals>>

-----------------------------------------------------------------------------
(* Fault: connections kept alive without a request stay open. *)
BeginDrain_keeps_idle ==
  /\ server = "serving" /\ handler /\ signals > 0
  /\ server' = "draining"
  /\ conn' = [c \in Conn |-> IF conn[c] = "queued" THEN "closed" ELSE conn[c]]
  /\ UNCHANGED <<handler, signals, answer>>

(* Fault: shutdown_signal also returns without a signal. *)
BeginDrain_unsignalled ==
  /\ server = "serving"
  /\ server' = "draining"
  /\ conn' = [c \in Conn |->
                IF conn[c] \in {"queued", "open"} THEN "closed" ELSE conn[c]]
  /\ UNCHANGED <<handler, signals, answer>>

(* shutdown_signal returns: the listener and what it queued are gone, and  *)
(* so are the connections with no request in progress.                     *)
BeginDrain ==
  /\ server = "serving" /\ handler /\ signals > 0
  /\ server' = "draining"
  /\ conn' = [c \in Conn |->
                IF conn[c] \in {"queued", "open"} THEN "closed" ELSE conn[c]]
  /\ UNCHANGED <<handler, signals, answer>>

(* Fault: the server is not asked to wait. *)
Stop_at_once ==
  /\ server = "draining"
  /\ server' = "stopped"
  /\ ResetAll
  /\ UNCHANGED <<handler, signals, answer>>

(* serve returns once no connection is left. *)
Stop ==
  /\ server = "draining"
  /\ \A c \in Conn : conn[c] \in {"none", "closed"}
  /\ server' = "stopped"
  /\ UNCHANGED <<handler, signals, conn, answer>>

Main == Bind \/ Serve \/ BeginDrain \/ Stop
Task(c) == Accept(c) \/ Reply(c)
Peer(c) ==
  Connect(c) \/ SendHead(c) \/ SendBody(c) \/ ReadResponse(c) \/ Abort(c)

Next == Main \/ AwaitSignal \/ Ctrl_C \/ \E c \in Conn : Task(c) \/ Peer(c)

Spec == Init /\ [][Next]_vars

(* The runtime polls main, shutdown_signal and every connection's task; a  *)
(* client may leave a request half sent, or a response unread, for ever.   *)
FairSpec ==
  /\ Spec
  /\ WF_vars(Main) /\ WF_vars(AwaitSignal)
  /\ \A c \in Conn : WF_vars(Task(c))

-----------------------------------------------------------------------------
(* TypeOK: the phases of main and of the connections; it drains or has     *)
(* stopped only after a signal, and is then past accepting connections;    *)
(* once the handler is installed, no signal kills the process.             *)
TypeOK ==
  /\ server \in {"starting", "listening", "serving", "draining", "stopped",
                 "failed", "killed"}
  /\ handler \in BOOLEAN
  /\ signals \in 0 .. MaxSignals
  /\ conn \in [Conn -> {"none", "queued", "open", "closed"} \cup InProgress]
  /\ answer \in [Conn -> {"none", "answered", "aborted"}]
  /\ server \in {"draining", "stopped"} =>
       /\ handler /\ signals > 0
       /\ \A c \in Conn : conn[c] \notin {"queued", "open"}
  /\ handler => server \in {"serving", "draining", "stopped"}

(* NoRequestCutOff: a request that has been read completely is answered in *)
(* full, whenever Ctrl-C comes and however often, unless its client goes   *)
(* away, its client never reads the response, or the Ctrl-C came before    *)
(* the handler was installed.                                              *)
NoRequestCutOff ==
  \A c \in Conn :
    conn[c] = "handling" ~> \/ answer[c] \in {"answered", "aborted"}
                            \/ [](conn[c] = "responding")
                            \/ server = "killed" /\ ~handler

(* DrainHeldOnlyByClient: the only thing that can keep the server draining *)
(* for ever is a client that stays connected and has sent half a request   *)
(* or does not read its response.                                          *)
DrainHeldOnlyByClient ==
  <>[](server = "draining") =>
    \E c \in Conn : <>[](conn[c] \in {"body", "responding"})

(* DrainsWithinDeadline: "draining in-flight requests within the deadline" *)
(* (main.rs:4): with a deadline, the drain would end whatever clients do.  *)
DrainsWithinDeadline == server = "draining" ~> server = "stopped"
=============================================================================
