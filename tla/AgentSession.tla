----------------------------- MODULE AgentSession -----------------------------
(***************************************************************************)
(* The AgentSession controller, internal/operator/reconciler.go, for one   *)
(* session.  Controllers (operator processes; there is no leader election) *)
(* read the session and its pod through their informer caches, which lag   *)
(* behind the API server, act on the pod, then write the status back; the  *)
(* API server rejects a write based on an older version.                   *)
(*                                                                         *)
(* Resource versions are abstracted to "is this copy still the current     *)
(* version": every write makes all other copies stale.  Times are          *)
(* abstracted to whether the idle timeout, or the lifetime cap, counted    *)
(* from the recorded timestamp has passed.  A requeue is a pending timer.  *)
(***************************************************************************)
EXTENDS Naturals

CONSTANTS
  Controllers,   \* operator processes that may run, perhaps at the same time
  MaxCrashes,    \* bound on controller crashes
  MaxPodLosses   \* bound on pods lost to node failures

ASSUME AgentSessionAssumption == MaxCrashes \in Nat /\ MaxPodLosses \in Nat

VARIABLES
  phase,      \* the session's Status.Phase in the API server
  idleOut,    \* LastActivity is at least idleTimeout ago
  lifeOut,    \* StartedAt is at least maxLifetime ago
  pod,        \* the sandbox pod in the API server
  pc,         \* where each controller is in Reconcile
  view,       \* each controller's cached session
  podView,    \* each controller's cached pod
  loc,        \* the session object a reconciliation works on
  event,      \* the work queue holds the session
  timer,      \* a delayed requeue is pending
  crashes, podLosses,  \* counters for the bounds
  doomed,     \* history: a controller deleted the pod
  overlapped  \* history: two controllers were running at the same time

vars == <<phase, idleOut, lifeOut, pod, pc, view, podView, loc, event, timer,
          crashes, podLosses, doomed, overlapped>>

clusterVars == <<phase, idleOut, lifeOut, pod, doomed>>

boundVars == <<crashes, podLosses, overlapped>>

Phases == {"", "Provisioning", "Running", "Idle", "Committing", "Terminated"}

(* "gone" stands for a session whose object was deleted. *)
Copy == [phase : Phases \cup {"gone"}, fresh : BOOLEAN]

(* The object a reconciliation holds: the phase it will write, whether it   *)
(* was read from the current version, whether it has a new StartedAt, and  *)
(* whether the result asks for RequeueAfter.                               *)
Work == [phase : Phases \cup {"gone"}, fresh : BOOLEAN,
         stamped : BOOLEAN, requeue : BOOLEAN]

PodStates == {"none", "pending", "ready", "terminating"}

TypeOK ==
  /\ phase \in Phases \cup {"gone"}
  /\ idleOut \in BOOLEAN /\ lifeOut \in BOOLEAN
  /\ pod \in PodStates
  /\ pc \in [Controllers -> {"down", "idle", "create", "delete", "update"}]
  /\ view \in [Controllers -> Copy]
  /\ podView \in [Controllers -> PodStates]
  /\ loc \in [Controllers -> Work]
  /\ event \in [Controllers -> BOOLEAN]
  /\ timer \in [Controllers -> BOOLEAN]
  /\ crashes \in 0..MaxCrashes
  /\ podLosses \in 0..MaxPodLosses
  /\ doomed \in BOOLEAN /\ overlapped \in BOOLEAN

-----------------------------------------------------------------------------

Stale(copies) == [w \in Controllers |-> [copies[w] EXCEPT !.fresh = FALSE]]

NoCopy == [phase |-> "", fresh |-> FALSE]

NoWork == [phase |-> "", fresh |-> FALSE, stamped |-> FALSE, requeue |-> FALSE]

Holding(copy, p, again) ==
  [phase |-> p, fresh |-> copy.fresh, stamped |-> FALSE, requeue |-> again]

Current == [phase |-> phase, fresh |-> TRUE]

Init ==
  /\ phase = "" /\ idleOut = FALSE /\ lifeOut = FALSE
  /\ pod = "none" /\ doomed = FALSE
  /\ pc = [w \in Controllers |-> "down"]
  /\ view = [w \in Controllers |-> NoCopy]
  /\ podView = [w \in Controllers |-> "none"]
  /\ loc = [w \in Controllers |-> NoWork]
  /\ event = [w \in Controllers |-> FALSE]
  /\ timer = [w \in Controllers |-> FALSE]
  /\ crashes = 0 /\ podLosses = 0 /\ overlapped = FALSE

(* A controller starts: its caches are filled and the session is queued. *)
StartController(w) ==
  /\ pc[w] = "down"
  /\ pc' = [pc EXCEPT ![w] = "idle"]
  /\ view' = [view EXCEPT ![w] = Current]
  /\ podView' = [podView EXCEPT ![w] = pod]
  /\ event' = [event EXCEPT ![w] = TRUE]
  /\ overlapped' = (overlapped \/ \E v \in Controllers : pc[v] # "down")
  /\ UNCHANGED <<clusterVars, loc, timer, crashes, podLosses>>

CrashController(w) ==
  /\ pc[w] # "down"
  /\ crashes < MaxCrashes
  /\ crashes' = crashes + 1
  /\ pc' = [pc EXCEPT ![w] = "down"]
  /\ view' = [view EXCEPT ![w] = NoCopy]
  /\ podView' = [podView EXCEPT ![w] = "none"]
  /\ loc' = [loc EXCEPT ![w] = NoWork]
  /\ event' = [event EXCEPT ![w] = FALSE]
  /\ timer' = [timer EXCEPT ![w] = FALSE]
  /\ UNCHANGED <<clusterVars, podLosses, overlapped>>

(* The watch delivers the session's current version and queues it. *)
SyncSession(w) ==
  /\ pc[w] # "down"
  /\ ~view[w].fresh
  /\ view' = [view EXCEPT ![w] = Current]
  /\ event' = [event EXCEPT ![w] = TRUE]
  /\ UNCHANGED <<clusterVars, boundVars, pc, podView, loc, timer>>

(* The pod watch: the controller does not own pods, so nothing is queued. *)
SyncPod(w) ==
  /\ pc[w] # "down"
  /\ podView[w] # pod
  /\ podView' = [podView EXCEPT ![w] = pod]
  /\ UNCHANGED <<clusterVars, boundVars, pc, view, loc, event, timer>>

(* The work queue hands the session to Reconcile. *)
Dequeue(w) ==
  /\ pc[w] = "idle"
  /\ \/ event[w] /\ event' = [event EXCEPT ![w] = FALSE] /\ UNCHANGED timer
     \/ timer[w] /\ timer' = [timer EXCEPT ![w] = FALSE] /\ UNCHANGED event

(* The reconciliation decided on a new phase; next it writes the status. *)
Decide(w, p, again) ==
  /\ loc' = [loc EXCEPT ![w] = Holding(view[w], p, again)]
  /\ pc' = [pc EXCEPT ![w] = "update"]

CreatePhases(w) ==
  \/ view[w].phase = ""
  \/ view[w].phase = "Provisioning" /\ podView[w] = "none"

(* toProvisioning, from phase "" or because the cached pod is missing. *)
ReconcileCreate(w) ==
  /\ Dequeue(w)
  /\ CreatePhases(w)
  /\ loc' = [loc EXCEPT ![w] = Holding(view[w], view[w].phase, FALSE)]
  /\ pc' = [pc EXCEPT ![w] = "create"]
  /\ UNCHANGED <<clusterVars, boundVars, view, podView>>

ReconcileReady(w) ==
  /\ Dequeue(w)
  /\ view[w].phase = "Provisioning"
  /\ podView[w] = "ready"
  /\ Decide(w, "Running", FALSE)
  /\ UNCHANGED <<clusterVars, boundVars, view, podView>>

RequeueWait_None == FALSE

(* checkPodReady asks to be called again while the pod is not ready. *)
RequeueWait == TRUE

(* A pod being deleted is in the cache but no longer ready. *)
ReconcileWait(w) ==
  /\ Dequeue(w)
  /\ view[w].phase = "Provisioning"
  /\ podView[w] \in {"pending", "terminating"}
  /\ Decide(w, "Provisioning", RequeueWait)
  /\ UNCHANGED <<clusterVars, boundVars, view, podView>>

(* detectIdle: a stale copy may carry older timestamps than the flags.     *)
ReconcileIdle(w) ==
  /\ Dequeue(w)
  /\ view[w].phase = "Running"
  /\ lifeOut \/ idleOut \/ ~view[w].fresh
  /\ Decide(w, "Idle", FALSE)
  /\ UNCHANGED <<clusterVars, boundVars, view, podView>>

ReconcileStillActive(w) ==
  /\ Dequeue(w)
  /\ view[w].phase = "Running"
  /\ (~lifeOut /\ ~idleOut) \/ ~view[w].fresh
  /\ Decide(w, "Running", TRUE)
  /\ UNCHANGED <<clusterVars, boundVars, view, podView>>

BeginCommit(w) ==
  /\ Dequeue(w)
  /\ view[w].phase = "Idle"
  /\ Decide(w, "Committing", TRUE)
  /\ UNCHANGED <<clusterVars, boundVars, view, podView>>

FinishPhase_Early == {"Idle", "Committing"}

(* The phases in which finishCommit runs. *)
FinishPhase == {"Committing"}

(* finishCommit, when the cached pod exists: it is deleted first. *)
FinishCommitDelete(w) ==
  /\ Dequeue(w)
  /\ view[w].phase \in FinishPhase
  /\ podView[w] # "none"
  /\ loc' = [loc EXCEPT ![w] = Holding(view[w], view[w].phase, FALSE)]
  /\ pc' = [pc EXCEPT ![w] = "delete"]
  /\ UNCHANGED <<clusterVars, boundVars, view, podView>>

FinishCommitNoPod(w) ==
  /\ Dequeue(w)
  /\ view[w].phase \in FinishPhase
  /\ podView[w] = "none"
  /\ Decide(w, "Terminated", FALSE)
  /\ UNCHANGED <<clusterVars, boundVars, view, podView>>

(* Terminated sessions, and sessions that no longer exist, are left alone. *)
ReconcileNothing(w) ==
  /\ Dequeue(w)
  /\ view[w].phase \in {"Terminated", "gone"}
  /\ UNCHANGED <<clusterVars, boundVars, pc, view, podView, loc>>

(* Create: a pod of that name that exists already is good enough. *)
CreatePod(w) ==
  /\ pc[w] = "create"
  /\ pod' = IF pod = "none" THEN "pending" ELSE pod
  /\ loc' = [loc EXCEPT ![w].phase = "Provisioning",
                        ![w].stamped = TRUE, ![w].requeue = TRUE]
  /\ pc' = [pc EXCEPT ![w] = "update"]
  /\ UNCHANGED <<phase, idleOut, lifeOut, doomed, boundVars, view, podView, event, timer>>

DeletePod_Skip(w) ==
  /\ pc[w] = "delete"
  /\ loc' = [loc EXCEPT ![w].phase = "Terminated"]
  /\ pc' = [pc EXCEPT ![w] = "update"]
  /\ UNCHANGED <<clusterVars, boundVars, view, podView, event, timer>>

(* Delete: the pod gets its termination grace; a missing pod is fine. *)
DeletePod(w) ==
  /\ pc[w] = "delete"
  /\ pod' = IF pod = "none" THEN "none" ELSE "terminating"
  /\ doomed' = TRUE
  /\ loc' = [loc EXCEPT ![w].phase = "Terminated"]
  /\ pc' = [pc EXCEPT ![w] = "update"]
  /\ UNCHANGED <<phase, idleOut, lifeOut, boundVars, view, podView, event, timer>>

(* The API server accepts a status write only from the current version. *)
WriteAccepted(w) == phase # "gone" /\ loc[w].fresh

(* A write that changes nothing creates no version and no watch event.     *)
(* toProvisioning always records a new StartedAt.                          *)
Changes(w) == loc[w].phase # phase \/ loc[w].stamped

AfterUpdate(w) ==
  /\ timer' = [timer EXCEPT ![w] = @ \/ loc[w].requeue]
  /\ pc' = [pc EXCEPT ![w] = "idle"]

UpdateStatus(w) ==
  /\ pc[w] = "update"
  /\ WriteAccepted(w)
  /\ Changes(w)
  /\ phase' = loc[w].phase
  /\ idleOut' = (idleOut /\ phase' # "Running")
  /\ lifeOut' = (lifeOut /\ phase' # "Provisioning")
  /\ view' = Stale(view)
  /\ loc' = [Stale(loc) EXCEPT ![w] = NoWork]
  /\ AfterUpdate(w)
  /\ UNCHANGED <<pod, doomed, boundVars, podView, event>>

UpdateStatusNoChange(w) ==
  /\ pc[w] = "update"
  /\ WriteAccepted(w)
  /\ ~Changes(w)
  /\ loc' = [loc EXCEPT ![w] = NoWork]
  /\ AfterUpdate(w)
  /\ UNCHANGED <<clusterVars, boundVars, view, podView, event>>

(* Any call fails, a conflict included: Reconcile returns the error and    *)
(* the session is queued again.                                            *)
ReconcileError(w) ==
  /\ pc[w] \in {"create", "delete", "update"}
  /\ pc' = [pc EXCEPT ![w] = "idle"]
  /\ loc' = [loc EXCEPT ![w] = NoWork]
  /\ event' = [event EXCEPT ![w] = TRUE]
  /\ UNCHANGED <<clusterVars, boundVars, view, podView, timer>>

Reconcile(w) ==
  \/ ReconcileCreate(w)   \/ ReconcileReady(w) \/ ReconcileWait(w)
  \/ ReconcileIdle(w)     \/ ReconcileStillActive(w)
  \/ BeginCommit(w)       \/ FinishCommitDelete(w) \/ FinishCommitNoPod(w)
  \/ ReconcileNothing(w)  \/ CreatePod(w)      \/ DeletePod(w)
  \/ UpdateStatus(w)      \/ UpdateStatusNoChange(w)
  \/ ReconcileError(w)

-----------------------------------------------------------------------------
(* The cluster and the clock. *)

PodBecomesReady ==
  /\ pod = "pending"
  /\ pod' = "ready"
  /\ UNCHANGED <<phase, idleOut, lifeOut, doomed, boundVars, pc, view, podView, loc,
                 event, timer>>

PodLost ==
  /\ pod \in {"pending", "ready"}
  /\ podLosses < MaxPodLosses
  /\ podLosses' = podLosses + 1
  /\ pod' = "none"
  /\ UNCHANGED <<phase, idleOut, lifeOut, doomed, crashes, overlapped, pc, view,
                 podView, loc, event, timer>>

PodTerminates ==
  /\ pod = "terminating"
  /\ pod' = "none"
  /\ UNCHANGED <<phase, idleOut, lifeOut, doomed, boundVars, pc, view, podView, loc,
                 event, timer>>

(* The timeouts are minutes and hours; a watch lags and a reconciliation   *)
(* lasts seconds.  When a timeout passes, every controller has long caught *)
(* up with what came before.                                               *)
CaughtUp ==
  \A w \in Controllers :
    pc[w] # "down" => pc[w] = "idle" /\ view[w].fresh /\ podView[w] = pod

IdleTimeoutPasses ==
  /\ phase = "Running" /\ ~idleOut
  /\ CaughtUp
  /\ idleOut' = TRUE
  /\ UNCHANGED <<phase, lifeOut, pod, doomed, boundVars, pc, view, podView, loc,
                 event, timer>>

LifetimePasses ==
  /\ phase \in {"Provisioning", "Running"} /\ ~lifeOut
  /\ CaughtUp
  /\ lifeOut' = TRUE
  /\ UNCHANGED <<phase, idleOut, pod, doomed, boundVars, pc, view, podView, loc,
                 event, timer>>

(* The user deletes the session object; it has no finalizer. *)
DeleteSession ==
  /\ phase # "gone"
  /\ phase' = "gone"
  /\ view' = Stale(view)
  /\ loc' = Stale(loc)
  /\ UNCHANGED <<idleOut, lifeOut, pod, doomed, boundVars, pc, podView, event, timer>>

Cluster ==
  \/ PodBecomesReady \/ PodLost \/ PodTerminates
  \/ IdleTimeoutPasses \/ LifetimePasses \/ DeleteSession

Next ==
  \/ \E w \in Controllers : StartController(w)
  \/ \E w \in Controllers : CrashController(w)
  \/ \E w \in Controllers : SyncSession(w)
  \/ \E w \in Controllers : SyncPod(w)
  \/ \E w \in Controllers : Reconcile(w)
  \/ Cluster

Spec == Init /\ [][Next]_vars

(* The Deployment restarts controllers, watches are delivered, queued work *)
(* is taken up, calls do not fail for ever, pods that are scheduled become *)
(* ready and time passes.                                                  *)
Fairness ==
  /\ \A w \in Controllers :
       /\ WF_vars(StartController(w))
       /\ WF_vars(SyncSession(w))
       /\ WF_vars(SyncPod(w))
       /\ WF_vars(Reconcile(w))
       /\ SF_vars(CreatePod(w))
       /\ SF_vars(DeletePod(w))
       /\ SF_vars(UpdateStatus(w) \/ UpdateStatusNoChange(w))
  /\ WF_vars(PodBecomesReady)
  /\ WF_vars(PodTerminates)
  /\ SF_vars(IdleTimeoutPasses)

FairSpec == Spec /\ Fairness

-----------------------------------------------------------------------------
(* Properties. *)

(* The controllers, with lagging caches, conflicts, crashes and several    *)
(* processes at once, implement the session lifecycle: the recorded phase  *)
(* never skips or repeats a stage, and no pod is deleted before Committing *)
(* was recorded (reconciler.go 60-73, 146-168).                            *)
Lifecycle == INSTANCE SessionLifecycle

ImplementsLifecycle == Lifecycle!Spec

(* As long as no pod was lost to a node failure and operator processes did *)
(* not overlap, a terminated session has no sandbox pod other than one     *)
(* that is shutting down: lagging caches, conflicts and operator restarts  *)
(* alone leave no orphan behind (reconciler.go 90-95, 153-168).            *)
TerminatedHasNoPod ==
  (phase = "Terminated" /\ podLosses = 0 /\ ~overlapped)
     => pod \in {"none", "terminating"}

(* A session that is not deleted reaches Terminated, through lost wakeups, *)
(* conflicts, crashes and lost pods: the phases that ask for no requeue    *)
(* are driven on by the watch event of their own status write              *)
(* (reconciler.go 104, 107, 122, 131, 140, 148, 167).                      *)
EventuallyTerminated == <>(phase \in {"Terminated", "gone"})

=============================================================================
