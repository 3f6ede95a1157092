----------------------------- MODULE Orchestrator -----------------------------
(***************************************************************************)
(* Scheduling of runs, internal/orchestrator: Enqueue (budget, idempotency *)
(* key, append to the user's shard) and RunWorker (consumer group reads,   *)
(* handler, acknowledgement), over Redis streams.  One shard.              *)
(*                                                                         *)
(* A request is one call of Enqueue with its own RunID, so requests stand  *)
(* for runs too.  A redelivered webhook is another request with the same   *)
(* idempotency key.  Every Redis call may fail, with or without effect on  *)
(* the server; workers may die between any two calls.                      *)
(***************************************************************************)
EXTENDS Naturals, Sequences, Functions

CONSTANTS
  Requests,     \* calls of Enqueue
  Keys,         \* idempotency keys
  NoKey,        \* the empty IdempotencyKey
  KeyOf,        \* IdempotencyKey of each request
  PriorityOf,   \* Priority of each request
  Workers,      \* consumers of the group, one RunWorker each
  NoRun         \* an absent Redis value, an Enqueue without result

Priorities == {"interactive", "background"}

ASSUME OrchestratorAssumption ==
  /\ NoKey \notin Keys
  /\ KeyOf \in [Requests -> Keys \cup {NoKey}]
  /\ PriorityOf \in [Requests -> Priorities]
  /\ NoRun \notin Requests

VARIABLES
  epc,      \* where each Enqueue call is
  reply,    \* the run id each Enqueue call returned without error
  idem,     \* the Redis keys orch:idem:<key>
  expired,  \* history: idempotency keys that reached their TTL
  stream,   \* the entries of the shard's two streams
  cursor,   \* the group's last-delivered entry of each stream
  pel,      \* delivered and not acknowledged entries of each stream
  wpc,      \* where each worker is
  batch,    \* what a worker's last XREADGROUP returned and it has yet to finish
  handled,  \* history: runs whose handler succeeded
  failed    \* history: runs whose handler returned an error

queueVars == <<epc, reply, idem, expired, stream, cursor, pel, wpc, batch, handled, failed>>

enqueueVars == <<epc, reply, idem, expired>>

workerVars == <<wpc, batch, handled, failed>>

QueueTypeOK ==
  /\ epc \in [Requests -> {"idle", "setnx", "get", "xadd", "done", "error"}]
  /\ reply \in [Requests -> Requests \cup {NoRun}]
  /\ idem \in [Keys -> Requests \cup {NoRun}]
  /\ expired \in SUBSET Keys
  /\ stream \in [Priorities -> Seq(Requests)]
  /\ cursor \in [Priorities -> Nat]
  /\ \A p \in Priorities : cursor[p] <= Len(stream[p])
  /\ pel \in [Priorities -> SUBSET Requests]
  /\ wpc \in [Workers -> {"down", "read", "handle", "ack"}]
  /\ batch \in [Workers -> Seq(Requests)]
  /\ \A w \in Workers : (batch[w] = <<>>) <=> (wpc[w] \in {"down", "read"})
  /\ handled \in SUBSET Requests
  /\ failed \in SUBSET Requests

-----------------------------------------------------------------------------

QueueInit ==
  /\ epc = [r \in Requests |-> "idle"]
  /\ reply = [r \in Requests |-> NoRun]
  /\ idem = [k \in Keys |-> NoRun]
  /\ expired = {}
  /\ stream = [p \in Priorities |-> <<>>]
  /\ cursor = [p \in Priorities |-> 0]
  /\ pel = [p \in Priorities |-> {}]
  /\ wpc = [w \in Workers |-> "down"]
  /\ batch = [w \in Workers |-> <<>>]
  /\ handled = {} /\ failed = {}

(* The budget allows the run; only webhook triggers carry a key. *)
Enqueue(r) ==
  /\ epc[r] = "idle"
  /\ epc' = [epc EXCEPT ![r] = IF KeyOf[r] = NoKey THEN "xadd" ELSE "setnx"]
  /\ UNCHANGED <<reply, idem, expired, stream, cursor, pel, workerVars>>

(* ErrBudgetExceeded: rejected before anything is written. *)
BudgetExceeded(r) ==
  /\ epc[r] = "idle"
  /\ epc' = [epc EXCEPT ![r] = "error"]
  /\ UNCHANGED <<reply, idem, expired, stream, cursor, pel, workerVars>>

SetNX_Overwrites(r) ==
  /\ epc[r] = "setnx"
  /\ idem' = [idem EXCEPT ![KeyOf[r]] = r]
  /\ epc' = [epc EXCEPT ![r] = "xadd"]
  /\ UNCHANGED <<reply, expired, stream, cursor, pel, workerVars>>

(* The first request with a key claims it. *)
SetNX(r) ==
  /\ epc[r] = "setnx"
  /\ IF idem[KeyOf[r]] = NoRun
       THEN /\ idem' = [idem EXCEPT ![KeyOf[r]] = r]
            /\ epc' = [epc EXCEPT ![r] = "xadd"]
       ELSE /\ epc' = [epc EXCEPT ![r] = "get"]
            /\ UNCHANGED idem
  /\ UNCHANGED <<reply, expired, stream, cursor, pel, workerVars>>

(* The answer of SETNX is lost, after or before it took effect. *)
SetNXError(r) ==
  /\ epc[r] = "setnx"
  /\ \/ UNCHANGED idem
     \/ idem[KeyOf[r]] = NoRun /\ idem' = [idem EXCEPT ![KeyOf[r]] = r]
  /\ epc' = [epc EXCEPT ![r] = "error"]
  /\ UNCHANGED <<reply, expired, stream, cursor, pel, workerVars>>

GetExisting_OwnId(r) ==
  /\ epc[r] = "get"
  /\ idem[KeyOf[r]] # NoRun
  /\ reply' = [reply EXCEPT ![r] = r]
  /\ epc' = [epc EXCEPT ![r] = "done"]
  /\ UNCHANGED <<idem, expired, stream, cursor, pel, workerVars>>

(* Duplicate delivery: the original run stands. *)
GetExisting(r) ==
  /\ epc[r] = "get"
  /\ idem[KeyOf[r]] # NoRun
  /\ reply' = [reply EXCEPT ![r] = idem[KeyOf[r]]]
  /\ epc' = [epc EXCEPT ![r] = "done"]
  /\ UNCHANGED <<idem, expired, stream, cursor, pel, workerVars>>

(* The call fails, or the key expired since SETNX: redis.Nil is an error. *)
GetError(r) ==
  /\ epc[r] = "get"
  /\ epc' = [epc EXCEPT ![r] = "error"]
  /\ UNCHANGED <<reply, idem, expired, stream, cursor, pel, workerVars>>

Append1(r) == stream' = [stream EXCEPT ![PriorityOf[r]] = Append(@, r)]

XAdd(r) ==
  /\ epc[r] = "xadd"
  /\ Append1(r)
  /\ reply' = [reply EXCEPT ![r] = r]
  /\ epc' = [epc EXCEPT ![r] = "done"]
  /\ UNCHANGED <<idem, expired, cursor, pel, workerVars>>

XAddError(r) ==
  /\ epc[r] = "xadd"
  /\ UNCHANGED stream \/ Append1(r)
  /\ epc' = [epc EXCEPT ![r] = "error"]
  /\ UNCHANGED <<reply, idem, expired, cursor, pel, workerVars>>

(* idemTTL is over. *)
IdemExpires(k) ==
  /\ idem[k] # NoRun
  /\ idem' = [idem EXCEPT ![k] = NoRun]
  /\ expired' = expired \cup {k}
  /\ UNCHANGED <<epc, reply, stream, cursor, pel, workerVars>>

-----------------------------------------------------------------------------

(* RunWorker is called, for the first time or again after it returned or   *)
(* its process died; the groups are created on first use and kept.  No     *)
(* program of the repository is bound to call it.                          *)
WorkerStart(w) ==
  /\ wpc[w] = "down"
  /\ wpc' = [wpc EXCEPT ![w] = "read"]
  /\ UNCHANGED <<enqueueVars, stream, cursor, pel, batch, handled, failed>>

(* A read error ends RunWorker; a crash ends it anywhere. *)
WorkerDown(w) ==
  /\ wpc[w] # "down"
  /\ wpc' = [wpc EXCEPT ![w] = "down"]
  /\ batch' = [batch EXCEPT ![w] = <<>>]
  /\ UNCHANGED <<enqueueVars, stream, cursor, pel, handled, failed>>

Undelivered_InteractiveOnly(p) ==
  IF cursor[p] < Len(stream[p]) /\ p = "interactive" THEN <<stream[p][cursor[p] + 1]>> ELSE <<>>

(* ">": the next never-delivered entry of a stream, if there is one. *)
Undelivered(p) ==
  IF cursor[p] < Len(stream[p]) THEN <<stream[p][cursor[p] + 1]>> ELSE <<>>

(* XREADGROUP COUNT 1 over both streams: one new entry of each, the        *)
(* interactive one first; the entries become pending for the group.        *)
ReadGroup(w) ==
  /\ wpc[w] = "read"
  /\ batch' = [batch EXCEPT ![w] = Undelivered("interactive") \o Undelivered("background")]
  /\ batch'[w] # <<>>
  /\ cursor' = [p \in Priorities |-> cursor[p] + Len(Undelivered(p))]
  /\ pel' = [p \in Priorities |-> pel[p] \cup Range(Undelivered(p))]
  /\ wpc' = [wpc EXCEPT ![w] = "handle"]
  /\ UNCHANGED <<enqueueVars, stream, handled, failed>>

(* The inner loop goes on with the rest of the batch, then the outer one   *)
(* reads again.                                                            *)
NextOf(w) ==
  /\ batch' = [batch EXCEPT ![w] = Tail(@)]
  /\ wpc' = [wpc EXCEPT ![w] = IF Len(batch[w]) = 1 THEN "read" ELSE "handle"]

Handle(w) ==
  /\ wpc[w] = "handle"
  /\ handled' = handled \cup {Head(batch[w])}
  /\ wpc' = [wpc EXCEPT ![w] = "ack"]
  /\ UNCHANGED <<enqueueVars, stream, cursor, pel, batch, failed>>

HandleError_Acks(w) ==
  /\ wpc[w] = "handle"
  /\ failed' = failed \cup {Head(batch[w])}
  /\ pel' = [pel EXCEPT ![PriorityOf[Head(batch[w])]] = @ \ {Head(batch[w])}]
  /\ NextOf(w)
  /\ UNCHANGED <<enqueueVars, stream, cursor, handled>>

(* The handler failed: the entry is left un-acknowledged. *)
HandleError(w) ==
  /\ wpc[w] = "handle"
  /\ failed' = failed \cup {Head(batch[w])}
  /\ NextOf(w)
  /\ UNCHANGED <<enqueueVars, stream, cursor, pel, handled>>

(* XACK; its error is discarded. *)
Ack(w) ==
  /\ wpc[w] = "ack"
  /\ \/ pel' = [pel EXCEPT ![PriorityOf[Head(batch[w])]] = @ \ {Head(batch[w])}]
     \/ UNCHANGED pel
  /\ NextOf(w)
  /\ UNCHANGED <<enqueueVars, stream, cursor, handled, failed>>

EnqueueStep(r) ==
  \/ Enqueue(r) \/ BudgetExceeded(r) \/ SetNX(r) \/ SetNXError(r)
  \/ GetExisting(r) \/ GetError(r) \/ XAdd(r) \/ XAddError(r)

WorkerStep(w) == ReadGroup(w) \/ Handle(w) \/ HandleError(w) \/ Ack(w)

QueueNext ==
  \/ \E r \in Requests : EnqueueStep(r)
  \/ \E k \in Keys : IdemExpires(k)
  \/ \E w \in Workers : WorkerStep(w)
  \/ \E w \in Workers : WorkerStart(w)
  \/ \E w \in Workers : WorkerDown(w)

QueueSpec == QueueInit /\ [][QueueNext]_queueVars

(* A RunWorker that is up goes on: its calls of Redis and of the handler   *)
(* return.  Nothing is asked of Enqueue, and nobody has to start a worker. *)
FairSpec == QueueSpec /\ \A w \in Workers : WF_queueVars(WorkerStep(w))

-----------------------------------------------------------------------------
(* Properties. *)

Enqueued == UNION {Range(stream[p]) : p \in Priorities}

(* However often a webhook is delivered, with lost answers and concurrent  *)
(* calls, at most one run per idempotency key is queued until the key      *)
(* expires (orchestrator.go 88-101).                                       *)
NoDuplicateRun ==
  \A r, s \in Enqueued :
     (KeyOf[r] = KeyOf[s] /\ KeyOf[r] \notin expired \cup {NoKey}) => r = s

(* A run id given to a caller is of a run that is queued, or of the first  *)
(* request with its key, which is still about to queue it or was told that *)
(* it could not (orchestrator.go 94-114).                                  *)
ReplyNamesRun ==
  \A r \in Requests : reply[r] # NoRun =>
     \/ reply[r] \in Enqueued
     \/ KeyOf[reply[r]] = KeyOf[r] /\ epc[reply[r]] \in {"xadd", "error"}

(* Nothing that was delivered is forgotten: until a handler has succeeded  *)
(* with it, an entry stays in the pending list of the group, where it can  *)
(* be claimed from, although handlers fail, workers die between the read   *)
(* and the handler or before they acknowledge, and acknowledgements are    *)
(* lost (orchestrator.go 132-136, 162-177).                                *)
UnhandledStaysPending ==
  \A p \in Priorities : \A i \in 1..cursor[p] :
     stream[p][i] \in handled \cup pel[p]

StaysUp(w) == <>[](wpc[w] # "down")

(* If a worker is eventually up for good, every queued run, background     *)
(* ones included, is delivered to a worker, whatever becomes of the other  *)
(* workers (orchestrator.go 138-162).                                      *)
QueuedIsDelivered ==
  \A w \in Workers : StaysUp(w) =>
     \A r \in Requests :
        (r \in Enqueued) ~>
          (\E p \in Priorities : \E i \in 1..cursor[p] : stream[p][i] = r)

(* orchestrator.go 171: a run whose handler failed is left un-acked for    *)
(* redelivery.  It is not redelivered, even to a worker that stays up.     *)
FailedIsRedelivered ==
  \A w \in Workers : StaysUp(w) =>
     \A r \in Requests :
        (r \in failed) ~> (\E v \in Workers : r \in Range(batch[v]))

=============================================================================
