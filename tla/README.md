# dark-factory: TLA+ specifications

dark-factory runs agents for users: a control plane keeps agents, consents,
secrets and policies, an execution plane runs the agent loop in sandbox pods,
and gateways stand between an agent and everything it may touch. This directory
holds TLA+ models of the parts in which the order of events matters, the TLC
configurations that check them on small instances, and TLAPS proofs of the
properties that matter most, for instances of every size.

`PROJECT.json` lists the components, the runs, the source lines each definition
stands for, the hazards each property is aimed at, one plausible bug per
property that the run detects (a *mutant*: the definition `D_Bug` that stands
just before `D`), and the theorems.

## 1. The system

| Part | Source | State | Operations | Hard about it |
|---|---|---|---|---|
| Agent loop | `internal/harness` | `RunState` in memory, one checkpoint per run | `Run`, `Resume` | saves whose errors are ignored, crashes between a tool and its checkpoint, two `Resume` calls at once |
| Session operator | `internal/operator`, `api/v1alpha1`, `cmd/operator` | `AgentSession` status and its pod, in the API server | one handler per phase | informer caches that lag, write conflicts, no leader election, lost pods |
| Run tokens | `internal/runtoken` | Redis revocation keys with a TTL | `Mint`, `Renew`, `Validate`, `Revoke` | expiry against session lifetime, renewals that share a jti |
| Session store | `internal/sessionstore` | DynamoDB items and an eventually consistent index | `PutSession`, `UpdateStatus`, `GetSession`, manifests, checkpoints | two writes without a transaction, unconditional overwrites, index lag |
| Orchestrator | `internal/orchestrator` | Redis streams, consumer group, idempotency keys | `Enqueue`, `RunWorker` | duplicate webhooks, lost answers, dying workers |
| Consents and grants | `internal/grants` | Postgres rows, per-process scope cache | `RequestConsent`, `DecideConsent`, `Revoke`, `ActiveScopes`, `Invalidate` | concurrent decisions, a cache filled outside its lock |
| Policy, tool gateway | `internal/policy`, `internal/toolgw` | org patterns, registry | `SetOrgPatterns`, `Can`, `Call` | a decision made from consents that change while the call waits |
| Stop hook | `internal/stophook` | git remotes, blobs, the manifest | `Run` | a grace period that ends in the middle, one call of several failing, blob keys that collide |
| Resume | `internal/resume` | the plan | `Resume` | a manifest that is partial, concurrent resumes |
| Warm pool | `internal/warmpool` | pods per environment key | `Acquire`, `Replenish`, `ScaleDown` | forks and destructions outside the mutex |
| Agent registry | `internal/registry`, migration 003 | `agents`, `agent_versions` in Postgres | `CreateAgent`, `AddVersion`, `UpdateDraft`, `PublishVersion`, `DeprecateVersion` | concurrent editors under READ COMMITTED |
| Audit log | `internal/audit`, `internal/auditlog`, migration 006 | `audit_events` in Postgres | `Write`, `VerifyChain` | a hash chain built by a trigger without a lock |
| Secrets | `internal/secrets` | `secrets`, `org_deks` in Postgres, the configured `KEKVersion` | `Put`, `Get`, `Delete`, `RotateOrgDEK` | rotation against writers, a failing audit write |
| Environments | `internal/environments` | snapshot store, build times | `Build`, `Rebuild`, `Evict` | eviction and rebuilds between the steps of a build, cache keys that collide |
| Budgets, model gateway | `internal/budget`, `internal/modelgw`, the handler in `internal/registry`, the client in `cmd/harness` | spend and alerts per scope | `Record`, `CheckBudget`, `Complete` | a check before a run, metering after it, answers nobody waits for, restarts nobody checks |
| MCP proxy | `internal/mcpproxy` | connection cache | `ExposedTools`, `Call`, `CloseAll` | dials in flight |

How they interact: a trigger becomes a run through the orchestrator; the
operator gives its session a pod; the harness in the pod runs the loop, calling
the gateways with a run token, whose issue depends on the session record; a
tool call is decided on policy, consents and the token's grants; when the
session ends, the stop hook pushes the work and stores a manifest, from which
`Resume` later starts again in a pod of the warm pool. Parts share state through
Postgres, DynamoDB, Redis and the Kubernetes API; nothing calls back.

What makes each part correct: the loop never runs a sensitive tool without an
approval of that very call, never outside the grants, and never again what it has
saved; a session walks through its phases in order, ends, and loses its pod only
after it committed; tokens end with the session as the store has it and with the
revocation of the longest-lived one; a webhook makes one run, which is pending until
a handler has succeeded with it; a consent request is decided once and a revoked
consent stops counting within a known time; a stored manifest can be resumed from; a
pod belongs to one session; a published agent version never changes and the current
version is the one published last; a stored secret can be opened and no plaintext is
handed out unlogged; the audit chain tells rewriting; eviction forgets no snapshot;
every answer of a model is metered once and a budget is passed by no more than the
processes under way and the restarts can spend; users never share an MCP connection
and none is lost.

## 2. Modules

| Module | Models | Used by |
|---|---|---|
| `ApprovalGate` | abstract: what approval of tool calls promises | refined by `Harness` |
| `Harness` | `harness.go`: `Run` and `Resume` calls of one run, its checkpoint | `MCHarness`, `Harness_proofs` |
| `SessionLifecycle` | abstract: the phases of a session and when its pod may be deleted | refined by `AgentSession` |
| `AgentSession` | `reconciler.go`: controllers, caches, API server | `MCAgentSession`, `AgentSession_proofs` |
| `RunToken` | `runtoken` over the session records of `sessionstore` | `MCRunToken`, `Runs_proofs` |
| `Orchestrator` | `orchestrator.go`: one shard | `MCOrchestrator`, `Runs_proofs` |
| `Gateway` | `grants`, `policy` and `toolgw` composed: one user, one gateway process | `MCGateway`, `Gateway_proofs` |
| `WarmPool` | `pool.go`: one environment key | `SessionEnd` |
| `SessionEnd` | `hook.go`, `SaveManifest` and `resume.go`, composed with `WarmPool` | `MCSessionEnd`, `MCSessions`, `Sessions_proofs` |
| `AgentRegistry` | `registry/store.go`, the routes that change something and the lifecycle trigger: one organisation | `MCStores`, `Stores_proofs` |
| `AuditChain` | `audit.go`, the chaining trigger, `VerifyChain` | `Secrets` |
| `Secrets` | `secrets/manager.go`: one organisation, composed with `AuditChain` | `MCSecrets`, `Secrets_proofs` |
| `Environments` | `snapshot.go` | `MCStores`, `Stores_proofs` |
| `Spending` | `tracker.go`, `router.go`, the completion handler and its client, composed | `MCSpending`, `Spending_proofs` |
| `McpProxy` | `proxy.go`: one manager | `MCMcpProxy`, `MCSessions`, `Sessions_proofs` |

Each `MC` module gives the constants of its component for TLC. `MCStores` and
`MCSessions` check two components each, which share no state: one moves while the
other is where it began. Three proof modules
extend two such components each: `Runs_proofs`, `Stores_proofs` and
`Sessions_proofs`. Where two specifications meet in one of them, the second has
names of its own (`QueueSpec`, `SnapshotSpec`, `EndSpec` and their `Init`, `Next`,
`TypeOK` and `vars`).

**Harness.** `ckpt` is the checkpoint in the store; `pc`, `st` and `tool` are
the position, `RunState` and requested tool of every invocation. A step is what happens
between two points at which the process can die or another invocation can be
seen: a completion, a tool execution, a save. The model's answer, the approval
and the outcome of each save are free. A message is its role, tool and step.
`approvals`, `execs`, `unsaved` (executions whose save was lost or never made) and
`overlap` are history.

**AgentSession.** `phase` and `pod` are in the API server; `view` and `podView`
are a controller's caches, which catch up at any time; `loc` is the object one
reconcile works on. Resource versions are abstracted to a bit per copy, *is it
current*, which every accepted write clears everywhere else; time to two bits,
*idle timeout over* and *lifetime over*. A reconcile reads its caches, calls the
API for the pod, then writes the status, in three steps.

**RunToken.** The store writes without conditions: `PutSession` replaces the item,
`UpdateStatus` sets any status and creates a missing item, which the index does not
know, and DynamoDB deletes it after its TTL attribute. `versions` is what the item
has been; `SessionChecker` queries an index that shows version `seen` and moves on
in their order. Mint and Renew are calls of several steps. Time is in seconds, as in
the claims. A revocation key carries its own expiry.

**Orchestrator.** A request walks through budget check, `SETNX`, `GET` or
`XADD`; every Redis call may fail, with or without effect. Streams are
sequences, a group cursor and a pending list per stream. `XREADGROUP` with
`COUNT 1` over two streams returns up to one entry of each, which is what Redis
does and the loop over the answer expects. A worker ends with a read error; nobody
has to start it again. Entries that cannot be decoded are left out: every payload in
a stream is what `Enqueue` has marshalled.

**Gateway.** `DecideConsent` is a locked read and a commit; a cache load is a
miss, a query and a store; a tool call moves from the token check through
consents, policy, limiter and executor, each a step. Org patterns are the set of
tools they let through. Callers of `Revoke` are assumed to call `Invalidate`
next, as the comment in `cache.go` says, or to die before it.

**SessionEnd, WarmPool.** The hook works through the repositories; a push that
reports an error may have reached the remote, and a deadline error may come
before the grace period is over. An origin is a sequence of characters; `sanitize`
writes a dash for those that are not safe in a key, so that `org-a/b` and `org/a-b`
have one blob key, and the branch is no part of it. A `Resume` has a `DiffFetcher` or
none (resume.go:161). The hook's `save` is always there: a hook without one only
returns its manifest. What the pool does under its mutex is a step;
every call of the `Forker` is another. `Resume` drives `Acquire` of the pool. What
`ScaleDown` keeps and what it destroys are given by the indices of each, in
ascending order (`InOrder`). There is one `ScaleDown` at a time.

**AgentRegistry, Secrets, AuditChain.** Calls are SQL statements under READ
COMMITTED: a call's uncommitted rows are in its own `tx` and become visible to
others in one step, its commit; a statement that needs a row which another open
transaction inserted or locked is not enabled before that one ends; any
statement may fail, which rolls the call back. A ciphertext is the key that
opens it, a hash is the history it commits to. In `Secrets` every call ends in
the insert of an audit entry; the trigger takes the predecessor from what is
committed at the insert, and `raced` records that an entry was inserted beside
one that was not committed. `Tamper` is the superuser's rewrite of the test
helper, applied to every reachable log by the property.

**Environments.** A snapshot is the number of the sandbox run that made it and
the request it was made for. The store's operations are atomic, `buildsMu` is
held through a whole `Evict`, and nothing spans a `Build`. `CacheKey` sorts the
setup steps and writes the builder version and the patch level, both sequences of
characters, one after the other, as the code does.

**Spending.** A harness process has a client (one request at a time, given up at its
timeout or the end of the pod) and a handler, which learns of that late or never. A
run is checked once and may have several processes, one after the other: the
session's pod sets no restart policy, so the kubelet starts an exited harness again,
and the operator creates a lost pod again; each begins at step 0 (`Restart`). `peak`
and `extra` are history: the processes of a scope active at once when one started
within the limit, and the restarts at or past it. `Record` and `CheckBudget` take
the tracker's mutex and are steps. Amounts are whole units; a model without a price
costs nothing, as in `cost`. The rate limiter delays, or fails with the request's
context. The tracker has an `Alerter`; without one (tracker.go:78) nothing is sent.
In this commit no process wires the tracker, the router or the limiter:
`cmd/registry` serves completions from a script. The model composes them as their
interfaces and tests do.

**McpProxy.** `dialled` holds every connection ever made and whether it is open;
`conns` is the cache. A call dials without the mutex, stores under it, lists,
looks up its connection again and calls. Names are the sequences of their parts
between `__`, so that `Namespace` is ambiguous exactly where it is in the code. A
scope `mcp:server:tool` is the pair of its server and tool.

## 3. Runs

| Run | Instance | Shows |
|---|---|---|
| `harness` | a plain and a sensitive tool, an unregistered name, 2 steps, one `Run`, two `Resume` | see below; liveness under weak fairness |
| `session` | 1 controller, 1 crash, 1 lost pod | refinement of `SessionLifecycle`; termination; no pod left behind when none was lost |
| `runtoken` | 2 jtis, 2 callers, TTL 2, lifetime 2, time 3, 2 records to put, 3 writes | tokens end with the session as the index has shown it, and with the revocation of the longest-lived one |
| `runtoken_revocation` | 1 jti, 1 caller, 1 write | **violation**: a renewed token outlives the revocation of its jti |
| `orchestrator` | a webhook delivered twice and a chat request, 2 workers | one run per key, run ids that mean something, nothing delivered is forgotten, delivery while a worker is up |
| `orchestrator_redelivery` | the same | **violation**: a failed run is never delivered again |
| `gateway` | a scoped tool, an unscoped one, an unregistered name, 1 request, 2 deciders, 2 calls, TTL 1, load time up to 1, time 2 | one decision; consent behind execution; bounded staleness |
| `sessions` | 2 repositories with one blob key, and 2 hooks beside 1 resume, with a `DiffFetcher` or without, or 1 hook in time and 2 resumes, 3 pods, cap 1, 2 replenishers, time 1; MCP proxy: 2 calls, 2 users, 2 servers (one with `__` in its name), 3 dials | manifests and plans are sound; no pod in two places; the pool is bounded; no connection lost; users apart |
| `sessionend_preserved` | 2 repositories, 1 hook | **violation**: a manifest is stored while a repository is neither pushed nor saved |
| `stores` | registry: 3 requests, 1 agent, 4 versions, 2 specs; environments: 3 callers, 3 requests with 2 cache keys, cap 1, TTL 2, time 2, 2 sandbox runs | dense numbers; published versions immutable; the current version moves with a publish; nothing escapes eviction; snapshots of the right key; rebuilds refresh |
| `secrets` | 2 calls, 2 users, 2 secrets, 2 key versions, 2 root keys, 3 audit entries | secrets readable, rotation complete, accesses logged, the chain tells |
| `spending` | 2 runs of a user, 2 calls each, limits 2 and 5, and either a third process started again, or 2 providers, 1 retry, a priced and an unpriced model | alerts, bounded overspending, metering, completions end |

The properties, in words, stand before their definitions. The violations are
disagreements between the code and a comment, test or specification of this
repository; `PROJECT.json` quotes them under `findings`. Other disagreements that
were met on the way are in section 5.

*Why the bounds are enough.* Two of every actor give every pair of overlapping
calls; the data an actor tells apart has one value of each kind (a sensitive and a
plain tool, a keyed and an unkeyed request, a scoped and an unscoped tool). Two
steps let a run pause after a tool step and resume into another one. The clocks are
long enough for every timestamp to be taken late, to expire and to be looked at
afterwards: a revocation needs TTL plus one load, a token chain needs a renewal
whose expiry is capped by the lifetime. Three writes are a session that is put,
ended, and put again or revived while the index still shows an earlier version.
`MaxLoad` is an assumption on the environment: an answer of Postgres is stored at
most that long after it was computed; without it nothing bounds the age of a cache
entry, since `cache.go` counts it from the store. Two stop hooks of a session
overlap in `sessions`, over repositories that share their blob key, so that each
upload may replace another repository's. There, overlapping hooks meet one `Resume`,
and two `Resume` calls meet a hook that pushed its work in time: the plan depends on
the hooks, the pool does not, and each half has all interleavings of what it depends
on. `session` has one controller, since
termination needs the fairness of each of them and the graph of two is too large for
it; two controllers matter for the lifecycle, which `LifecycleRefinement` proves for
any number. In `stores` three registry requests let an open publish, an open insert and an
edit meet, and four versions let a number be read, taken by another call and read
again. In `secrets` three audit entries are the shortest log in which an entry has
both a predecessor and a successor; two calls are a rotation beside each of the
others. Two cache keys over a cap of one make eviction choose, and
two sandbox runs are a snapshot and its replacement. In `spending` the user's 80 %
(1.6) lies between two amounts and the org's (4) is an amount, so a record can jump
over the one and meet the other; two runs of two calls reach past both limits, and
the third process is one that starts again after that. The chosen model selects the
instance: restarts are checked without retries and lost clients, which change no
amount, and retries without restarts. In the MCP proxy three dials are
two that race and one after `CloseAll`. Proofs lift the bounds for the properties of
section 4.

*Symmetry* is used only in runs without liveness (`runtoken`, `gateway`, `secrets`,
`sessions`, `stores`), on sets whose members no definition tells apart: jtis,
deciders, calls, callers, clients, users, specs, ids of secrets. In `stores` the requests of the
registry and the callers of the environments are the same set of names, so that one
permutation serves both.

*Deadlock* is not checked: runs end, sessions terminate, clocks and counters are
bounded.

*Fairness.*
- `Harness`: weak fairness of each invocation's loop. A goroutine that can go on
  does; a completion that never returns is ended by its context, as an error.
  Crashes and calls of `Resume` are not fair.
- `AgentSession`: a started manager runs (Kubernetes restarts the operator),
  caches catch up and a queued session is reconciled: weak fairness. API calls
  may fail any number of times and are retried with backoff, so they need strong
  fairness, as does the idle timeout, whose clock restarts with the activity
  that entering Running records.
- `Orchestrator`: weak fairness of each worker's steps while it is up: its calls of
  Redis and of the handler return. Nothing in the repository starts a worker or
  starts one again after a read error (`cmd/orchestrator` serves health endpoints
  only), so no fairness is assumed of that: `QueuedIsDelivered` says what holds if
  some worker is eventually up for good, and `FailedIsRedelivered` fails even then.
  Nothing is assumed of handlers succeeding, of requests or of acknowledgements.
- `Spending`: weak fairness of each handler. A goroutine that can go on does, a
  provider call returns with an answer or an error, and a waiter of the limiter
  holds a reservation, so later callers cannot starve it. Nothing is assumed of
  clients or of the server noticing that one has gone.

## 4. Proofs

The eight modules `*_proofs` are checked by TLAPS. They assume of the constants only
what the `ASSUME`s of the component modules say, and nothing else is taken on trust.
Every safety property that a run checks has a theorem. Each inductive invariant
(`IInv`, and `QueueInv`, `SnapshotInv`, `PoolInv` and `EndInv` in the modules with
two components) is a conjunction of named parts and was checked with TLC before it
was proved. Where a property needs facts that the others do not, they form a second
invariant (`HistoryInv`, `OnceInv`, `PodInv`, `BudgetInv`) that is proved on top of
`IInv`.

**Harness**, for all tool sets, grants, `MaxSteps` and numbers of `Resume` calls:
`TypeCorrectness`, `GateSafety` (an approval of that very call stands behind
each sensitive execution), `GrantSafety` (nothing outside the grants runs or
waits), `OnceOnly` (a saved execution is not repeated) and
`GateRefinement` (`Harness` implements `ApprovalGate`). None of these is
inductive: an execution is justified by a program counter, which is justified by
a pending tool in a checkpoint, which was written by an earlier invocation. The
invariant `IInv` therefore carries grants through every copy of the state
(`GrantsCarried`), says that what is pending is granted and sensitive
(`PendingIsGranted`), that an invocation about to execute holds what it needs
(`ReadyToExecute`), and that executions are of counted steps (`ExecutedIsPast`).
`TranscriptSafety` and `CheckpointOrder` rest on `HistoryInv`. A checkpoint is
truthful because every in-memory transcript is, and because the note of an
approval is there before the execution it allows (`TranscriptsTruthful`). The
checkpoint moves forward because, without overlap, the one invocation in progress
is ahead of it (`AloneAndAhead`); that starts with a `Run` that finds no checkpoint
(`NothingBeforeRun`) and lasts because only a state about to return is done
(`WorkingIsOpen`). `OnceOnly` rests on both and on `OnceInv`: every execution is
behind the checkpoint, about to be saved or unsaved (`Accounted`), and the call an
invocation is about to make is of a step the checkpoint has not passed
(`CallIsNext`), a pending call included, which the save after its execution takes
away (`NothingPending`).

**AgentSession**, for any number of controllers, crashes and lost pods:
`TypeCorrectness` and `LifecycleRefinement` (it implements `SessionLifecycle`).
The invariant says that a copy marked current equals the recorded phase
(`CacheIsOld`), so that an accepted write is the next phase or the same one
(`WriteIsNext`), and that a controller about to delete a pod saw Committing,
which the session never leaves but for Terminated (`DeleteIsLate`).
`NoOrphanPod` rests on `PodInv`, which holds while controllers have not overlapped
and no pod was lost: until the pod is deleted, a session that has started has a
ready pod and the controller's cache shows it, so the branch of `finishCommit` that
finds no pod is taken only after a deletion; and afterwards no cache shows a phase
that creates one (`PodFollowsPhase`, `Informed`).

**RunToken**, for all TTLs, lifetimes, callers and jtis and any sequence of writes to
the session: `TypeCorrectness`, `SessionCapsTokens`, `RevocationHolds`,
`IssuingFollowsStore`. The timestamps of a session change, so a token is tied not to
the session but to a version of it: a caller about to encode holds the deadline of a
live version that the index has shown (`DeadlineHeld`), and so does every token
(`TokensCapped`). Once the longest-lived token of a jti is revoked, no token of it
outlives the key and none is being renewed (`EndedForGood`). That an end of the
session holds until a longer one is written is an action property; it follows from
the index never going back.

**AgentRegistry**, for any number of requests, agents, specs and versions:
`TypeCorrectness`, `Numbering`, `Immutability`, `CurrentPointer`. None follows
from the committed rows alone. The invariant says of open transactions that a
name being created is free and has one creator (`CreatesAreFree`), that a number
being added follows one that exists (`AddsFollow`), that an open insert owns a
row that is not there yet (`InsertsOwn`) and that a locked version is a draft
with one owner (`LocksOwn`); of rows that they belong to registered agents
(`RowsRegistered`), that numbers are closed downwards (`NoGaps`) and that the
current version was published once (`CurrentWasPublished`).

**Spending**, for all runs, processes, users, providers, retries, limits and costs:
`TypeCorrectness`, `AlertsFireOnce`, `MeteredOnce`, `OverspendIsBounded`. The
invariant ties the handler's position to the number of records (`Ledger`), and the
mark of a scope to the alert and to its spend (`Marked`). The bound on the
overspend is a sum over processes, which the prover cannot do; `BudgetInv` counts
instead the calls still owed as a set of pairs (process, call). The active processes
are at most the peak and the extra restarts (`WithinPeak`), and past the limit a
record moves its cost from what is owed to what is spent, nobody is admitted, and a
restart adds its calls to what is owed and itself to what is counted
(`SpendAndOwed`). Nothing bounds the restarts but the run's token, without which
their calls are refused: the theorem says that they are all that is unbounded. `Costs` is
assumed to have a largest element: the harness asks for at most 4096 tokens
(cmd/harness/main.go:146) and a model's context is bounded.

**McpProxy**, for any number of calls, users, servers, tools and dials:
`NothingLeaks`, `UsersStayApart`. The invariant adds that what is cached was
dialled for its key (`CachedIsOwn`), that what a call holds was dialled for its
user and server (`HeldIsOwn`), and that a call which has listed its tool was
granted it (`CallsHaveArguments`).

**Gateway**, for any tools, scopes, consent requests, deciders and calls, any TTL
and any delay of a query: `TypeCorrectness`, `DecidedOnce`, `ExecutionsConsented`,
`RevocationTakesEffect`. Row locks make the decision exclusive (`LocksHeld`). An
execution has an approval behind it because every scope that a call or the cache
holds has one (`CacheApproved`, `CallsApproved`), an approval being final, and
because a call past the policy was permitted on what it holds (`Permitted`). The
bound on a revoked scope rests on one for the cache entry and one for an answer in
flight (`CacheFresh`, `AnswersFresh`).

**Secrets** with **AuditChain**, for any clients, users, secrets, key versions and
events: `SecretsStayReadable`, `NoAccessUnlogged`, `RotationIsComplete`,
`ChainIsEvidence`. All of them need what open transactions hold. A DEK inserted and
not committed keeps its version to itself (`InsertsExclusive`) and the rows to be
written are sealed with the key their version names (`WritesReadable`); an id is
given out once and a rotation rewrites what it knew (`IdsFresh`,
`RotationProgress`); a call about to commit holds its own entry (`EntryInserted`);
every entry, committed or not, is hashed from what it holds, and unless two appends
raced the log is one chain and at most one open transaction holds entries, which
come next in it (`ChainGrows`). That the versions and the log have a last
element is part of the invariant, since it cannot be proved by induction here.

**Orchestrator**, for any requests, keys, priorities and workers: `OneRunPerKey`,
`RepliesNameRuns`, `UnhandledIsPending`. The first two are about one key: whoever is
past `SETNX` without its key having expired holds the claim, a claim names the
request that made it, and what is queued was claimed (`ClaimHeld`, `ClaimIsRun`); a
request is queued once (`QueuedIsDone`). The third adds that a worker acknowledges
only what its handler has succeeded with (`AckIsHandled`). It is the part of "left
un-acked for redelivery" that the code keeps: what failed can still be claimed from
the pending list, by nobody so far.

**Environments**, for any callers, requests, TTL, cap and number of sandbox runs:
`NothingEscapes`, `RightSnapshot`, `EvictionsSuffice`. A snapshot is stored under
the key of its own request (`StoredForKey`), and a call holds one of its request's
key (`HeldForRequest`); what equal keys say about two requests is all that
`RightSnapshot` claims, which is less than equal requests. A rebuild is fresh
because a sandbox run is in one place: under one key, or in the hands of the one
call that will store it (`StoredApart`, `RunsApart`), so that what was dropped
cannot come back (`DroppedIsGone`). The bound rests on `buildsMu`: nobody notes a
build between the choice of the victims and the end of the eviction (`EvictHolds`,
`VictimsSuffice`), and whatever is stored is noted or being noted
(`NothingForgotten`). The number of callers is assumed to be finite.

**WarmPool** with **SessionEnd**, for any pods, callers, hooks, repositories and cap:
`PodsStayApart`, `PoolStaysBounded`, `ManifestsRecover`, `PlansAreSound`. A pod is in
the pool once or in the hands of one caller (`Apart`) and has been forked by then
(`PodsExist`), so that a new pod is in no place yet; an `Acquire` that succeeded has
promoted what it holds (`AcquiresHold`). The bound of the pool is a sum over the
`Replenish` calls; as in Spending it is counted as a set of places (caller, number),
of which those still owed and the pods in the pool together never exceed all of them
(`OwedFits`). A manifest is recoverable because every hook's state so far is backed
by the remote and the blob store (`HooksBacked`) and stays so: pushes are not undone
and a diff is overwritten only by one with its key, of that repository or of another.
Nothing is assumed of the keys; with distinct ones the diff is the repository's own.

Only model-checked: the liveness properties `InvocationsEnd`, `EventuallyTerminated`,
`QueuedIsDelivered` and `CompletionsEnd`, since fairness and `ENABLED` are beyond the
prover, and the violations of section 3, which are counterexamples.

## 5. Behaviour worth knowing that no run states

- `Resume` saves with status `awaiting_approval` and no pending tool before it
  enters `Run`. If the next completion fails, a further `Resume`, approving or
  not, ends the run as declined although the call was executed.
- A run that dies between two tool steps leaves a `running` checkpoint, which
  `Resume` refuses; nothing else reads checkpoints.
- Two approving `Resume` calls that overlap both execute the pending tool, each
  on its own approval. A tool whose execution was not saved may be executed again.
- Pods popped or removed from the warm pool whose `Promote` or `Destroy` fails
  are in nobody's hands afterwards. Concurrent `Replenish` calls exceed the cap;
  `PoolBounded` says by how much.
- The blob key of a diff is the session and `sanitize(rw.Origin)`, which writes a
  dash for every `/` (hook.go:130, 155-165), and has no branch. When neither `org-a/b`
  nor `org/a-b` can be pushed, the second diff replaces the first and the manifest's
  reference for one, "recovery blob when Uncommitted" (hook.go:67), leads to the diff
  of the other. `ManifestRecoverable` and `PlanIsSound` speak of diffs by their key.
- `CacheKey` writes `BuilderVersion` and `BasePatchLevel` one after the other with no
  separator (snapshot.go:52-53): a request for builder v11 on patch level 2 is served
  the snapshot of builder v1 on patch level 12, where "the cache key is H over ALL of
  them" (snapshot.go:19-20) is the stated intent. `ServedAsAsked` says what holds.
- A `Resumer` without `Diffs` (resume.go:161), such as the one of
  conformance/05_execution_conformance_test.go:142-148, returns plans that say nothing
  of uncommitted work.
- A terminated session comes back when `UpdateStatus` sets another status
  (sessionstore/store.go:202-221) or `PutSession` replaces it, and tokens are issued
  for it again; the status is the word of whoever wrote last.
- An exited harness is restarted, and a lost pod created again, as long as the session
  is not over: each process begins at step 0 and passes no budget check.
- No command of this repository runs `RunWorker`, and a read error ends it
  (orchestrator.go:155-160). Until the idempotency key expires, retries of a webhook
  whose first request failed to queue its run are answered with that run's id.
- With the database down, `toolgw` decides on the token's own grants.
- A pod lost to a node failure and seen as missing through a stale copy of the
  session is created again by `checkPodReady` (reconciler.go:94) before the status
  write conflicts; the session may terminate meanwhile and leave it running.
- A scope query in flight is stored after `Invalidate` (cache.go:46) and brings a
  revoked scope back for up to the TTL; `StalenessBounded` is the bound.
- `kekFor` unwraps with the configured `KEKVersion` (manager.go:108), "version
  used to wrap new DEKs" (manager.go:50): once it is raised, older DEKs cannot be
  unwrapped, so old secrets can be neither read nor rotated.
- `Delete` removes the secret before it writes its audit event (manager.go:230-239);
  if that write fails the deletion is not logged.
- Two audit entries whose transactions overlap have the same predecessor, after
  which `VerifyChain` fails for ever, where "tampering or loss" (auditlog/store.go:38)
  is the stated meaning. `ChainTells` therefore speaks of logs without a race.
- The current version of an agent stays current when it is deprecated; the
  comment at registry/store.go:37 calls it the current published version.
- `Call` of the MCP proxy re-checks visibility with the glob `*`
  (proxy.go:148), so a tool that `allowedTools` hid can be called, although "the
  model may only call what it was shown". A server with `__` in its name lists
  tools that can never be called: `SplitNamespace` cuts at the first `__`.
- A connection whose dial was in flight during `CloseAll` is cached afterwards and
  stays open until the next `CloseAll`.
- The tool client of `cmd/harness` sends its run token in the body only
  (main.go:199-210), while the route checks the header first
  (internal_gateway.go:34-40): such a call is refused before it reaches the gateway.

## 6. Not modelled

Cryptography, parsing, HTTP and the git wire protocol (`authn`, `agentspec`,
`gitfacade`, `credexchange`, command mains): pure functions or I/O. Message and
diff contents, the transcript, pull-request lists, tool output and its filters;
floating-point rounding of amounts; the arithmetic of the rate limiter. The image
builder and the scanner (external programs, no state). Health, tracing, generated
API code, test support. Shards of the orchestrator, environment keys of the pool,
organisations of the registry and of the secrets, and users of the gateway are
independent and modelled one at a time.

## 7. Plan

Done: `Harness`, `AgentSession`, `RunToken`, `Orchestrator`, `Gateway`, `WarmPool`
with `SessionEnd`, then `AgentRegistry`, `AuditChain` with `Secrets`,
`Environments`, `Spending`, `McpProxy`; proofs of every safety property that the
runs check, and of both refinements.

The session store is modelled with overwrites and revivals, blob keys and cache keys
with their collisions, and a run with the processes that are started again for it.

Left: liveness, which stays with TLC; the parts of section 6, if the code gives them
state that others depend on.
