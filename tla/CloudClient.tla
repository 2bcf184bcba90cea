----------------------------- MODULE CloudClient -----------------------------
(***************************************************************************)
(* client/core: CloudClient against the server of CloudApi, over a network *)
(* that fails.  A caller makes one typed call at a time; an attempt of the *)
(* call is an exchange in a slot of the server.                            *)
(*                                                                         *)
(* A failed attempt tells the caller nothing: its request may be lost, may *)
(* be served later, or was served and only its reply is lost.  The slot    *)
(* then goes on without a caller.  errors.rs classifies such a failure as  *)
(* retryable: the caller may make the same call again, with the same ids   *)
(* and keys, while the earlier attempt is still under way, or give up and  *)
(* make another call.                                                      *)
(***************************************************************************)
EXTENDS CloudApi, ErrorRegistry

CONSTANTS
  Caller,
  CallRequest,   \* the requests of the callers
  MaxFailures    \* bound on failed attempts

ASSUME CallAssumption == CallRequest \subseteq ClientRequest /\ None \notin Caller
ASSUME FailureAssumption == MaxFailures \in Nat

VARIABLES
  caller,    \* the call each caller is making
  attempt,   \* the caller whose latest call a slot carries
  failures

clientVars == <<apiVars, caller, attempt, failures>>

(* effect is what the first attempt that was answered with success, seen   *)
(* or not, said.                                                           *)
Free == [phase |-> "free", req |-> None, slot |-> None, effect |-> None]

ClientInit ==
  /\ ApiInit
  /\ caller = [p \in Caller |-> Free]
  /\ attempt = [r \in Slot |-> None]
  /\ failures = 0

-----------------------------------------------------------------------------
(***************************************************************************)
(* send and get_chunk_range: from the HTTP reply to the Result of a call.  *)
(* net_error gives a broken connection its code.                           *)
(***************************************************************************)
(* The extractors' plain text comes with one of 400, 413, 415 and 422. *)
status(reply) ==
  CASE reply.shape = "success" -> 200
    [] reply.shape = "ErrorResponse" -> status_for(reply.code)
    [] reply.shape = "text" -> 400

is_success(code) == code \in 200 .. 299

(* A 2xx body is what the call asks for: the JSON of its response type, or *)
(* for get_chunk_range as many bytes as were requested.                    *)
BodyCode(q, reply) ==
  IF q.op = "get_chunk"
    THEN IF reply.shape = "success"
            /\ Len(reply.val.body) = q.range.end - q.range.start + 1
           THEN "Ok" ELSE "IntegrityLengthMismatch"
    ELSE IF reply.shape = "success" THEN "Ok" ELSE "ProtocolViolation"

Decode(q, reply) ==
  IF reply.shape = "closed" THEN "NetworkUnavailable"
  ELSE IF is_success(status(reply)) THEN BodyCode(q, reply)
  ELSE IF reply.shape = "ErrorResponse" THEN reply.code
  ELSE "ProtocolViolation"

-----------------------------------------------------------------------------
(* A new call: what is left of the caller's last one no longer counts. *)
Call(p, r, q) ==
  /\ caller[p].phase # "waiting"
  /\ Send(r, q)
  /\ caller' = [caller EXCEPT ![p] =
                  [phase |-> "waiting", req |-> q, slot |-> r, effect |-> None]]
  /\ attempt' = [s \in Slot |-> IF s = r THEN p
                                ELSE IF attempt[s] = p THEN None ELSE attempt[s]]
  /\ UNCHANGED failures

Retry(p, r) ==
  /\ caller[p].phase = "failed"
  /\ Send(r, caller[p].req)
  /\ caller' = [caller EXCEPT ![p].phase = "waiting", ![p].slot = r]
  /\ attempt' = [attempt EXCEPT ![r] = p]
  /\ UNCHANGED failures

(* The connection of an attempt breaks: net_error. *)
Fail(p) ==
  /\ caller[p].phase = "waiting"
  /\ failures < MaxFailures
  /\ failures' = failures + 1
  /\ caller' = [caller EXCEPT ![p].phase = "failed", ![p].slot = None]
  /\ UNCHANGED <<apiVars, attempt>>

(* The reply of the current attempt arrives.  The call is over unless its  *)
(* code may be retried.                                                    *)
Return(p) ==
  LET r == caller[p].slot
      code == Decode(caller[p].req, slot[r].reply)
  IN  /\ caller[p].phase = "waiting"
      /\ Finish(r)
      /\ attempt' = [attempt EXCEPT ![r] = None]
      /\ caller' = [caller EXCEPT ![p] =
                      IF retryable(code)
                        THEN [@ EXCEPT !.phase = "failed", !.slot = None]
                      ELSE IF \E s \in Slot \ {r} : attempt[s] = p
                        THEN [Free EXCEPT !.effect = caller[p].effect]
                      ELSE Free]
      /\ UNCHANGED failures

-----------------------------------------------------------------------------
(* The server takes a step of the exchange in r. *)
ServeAttempt(r) ==
  LET p == attempt[r]
      reply == slot'[r].reply
  IN  /\ Serve(r)
      /\ caller' = IF /\ p # None /\ caller[p].effect = None
                      /\ slot'[r].phase = "replied" /\ reply.shape = "success"
                     THEN [caller EXCEPT ![p].effect = reply.val]
                     ELSE caller
      /\ UNCHANGED <<attempt, failures>>

(* The server gives up, or has finished, an exchange nobody waits for. *)
Discard(r) ==
  /\ \A p \in Caller : caller[p].slot # r
  /\ Abandon(r) \/ Finish(r)
  /\ attempt' = [attempt EXCEPT ![r] = None]
  /\ UNCHANGED <<caller, failures>>

ClientNext ==
  \/ \E p \in Caller, r \in Slot :
       \/ \E q \in CallRequest : Call(p, r, q)
       \/ Retry(p, r)
  \/ \E p \in Caller : Return(p) \/ Fail(p)
  \/ \E r \in Slot : ServeAttempt(r) \/ Discard(r)

ClientSpec == ClientInit /\ [][ClientNext]_clientVars

-----------------------------------------------------------------------------
(* Caller p is about to be told Reply_to(p). *)
Answered(p) ==
  caller[p].phase = "waiting" /\ slot[caller[p].slot].phase = "replied"

Reply_to(p) == slot[caller[p].slot].reply

(* Two success values of one call name the same thing.  What others may    *)
(* change meanwhile is left out: the head of a file, the state of a        *)
(* version that was created, the files added to a directory.               *)
SameThing(op, a, b) ==
  CASE op \in {"create_file", "stat_file"} -> a.file_id = b.file_id
    [] op = "create_version" -> [a EXCEPT !.state = b.state] = b
    [] op = "list_children" ->
         \A k \in DOMAIN a.files : \E j \in DOMAIN b.files :
           a.files[k].file_id = b.files[j].file_id
    [] OTHER -> a = b

(* The server decides, in this step, what it replies in r. *)
Decides(r) == slot[r].phase # "replied" /\ slot'[r].phase = "replied"

(* RepeatsAgree: once an attempt of a call has succeeded, every other      *)
(* attempt of it that the server still decides is told about the same      *)
(* thing, never an error and never a second file, version or manifest,     *)
(* whatever the other callers did between the attempts and in whatever     *)
(* order the attempts are served.  (An attempt refused before that one     *)
(* took effect keeps its error.)                                           *)
RepeatsAgree ==
  [][\A r \in Slot :
       (attempt[r] # None /\ Decides(r)) =>
         LET effect == caller[attempt[r]].effect
             reply == slot'[r].reply
         IN  effect # None =>
               /\ reply.shape = "success"
               /\ SameThing(slot[r].req.op, effect, reply.val)]_clientVars

(* OnceOnly: of all the attempts of one call only the first success has an *)
(* effect.  A late duplicate, served after others have moved on, leaves    *)
(* both stores as they are.                                                *)
OnceOnly ==
  [][\A r \in Slot :
       (attempt[r] # None /\ slot'[r] # slot[r]) =>
         (caller[attempt[r]].effect # None => UNCHANGED <<store, blobs>>)]_clientVars

(* CodesTravel: an ErrorResponse reaches the caller with the server's own  *)
(* code: no status hides it, the registry lets a server send it, and the   *)
(* filesystem can report it, since no startup-only code leaks into a call. *)
CodesTravel ==
  \A p \in Caller :
    (Answered(p) /\ Reply_to(p).shape = "ErrorResponse") =>
      LET code == Reply_to(p).code
      IN  /\ code \in ErrorCode
          /\ Decode(caller[p].req, Reply_to(p)) = code
          /\ origin(code) # "Client"
          /\ ~is_startup_only(code) /\ ntstatus(code) # "none"

(* OriginalCode: every non-2xx response becomes an error with the code the *)
(* server gave it, as the documentation of the client says.                *)
OriginalCode ==
  \A p \in Caller :
    (Answered(p) /\ Reply_to(p).shape # "closed") =>
      LET reply == Reply_to(p)
      IN  ~is_success(status(reply)) => Decode(caller[p].req, reply) = reply.code
=============================================================================
