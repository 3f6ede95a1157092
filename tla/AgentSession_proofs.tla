-------------------------- MODULE AgentSession_proofs --------------------------
(***************************************************************************)
(* Proofs about the session controllers, for any number of operator        *)
(* processes, crashes and lost pods.                                       *)
(***************************************************************************)
EXTENDS AgentSession, TLAPS

-----------------------------------------------------------------------------
(* The inductive invariant, in named parts. *)

(* The phases in which the sandbox may be deleted. *)
Late == {"Committing", "Terminated", "gone"}

(* A cached session that is the current version shows the recorded phase,  *)
(* and no cache shows a commit before one was recorded.                    *)
CacheIsOld ==
  \A w \in Controllers :
    /\ view[w].fresh => view[w].phase = phase
    /\ view[w].phase \in Late => phase \in Late

(* A status write that will be accepted repeats the recorded phase or      *)
(* moves along one edge of the lifecycle.                                  *)
WriteIsNext ==
  \A w \in Controllers :
    loc[w].fresh =>
      /\ pc[w] = "update" => loc[w].phase = phase \/ <<phase, loc[w].phase>> \in Lifecycle!Edge
      /\ pc[w] = "create" => phase \in {"", "Provisioning"}
      /\ pc[w] = "delete" => phase = "Committing"

(* A controller about to delete the pod has seen a recorded commit. *)
DeleteIsLate == \A w \in Controllers : pc[w] = "delete" => phase \in Late

IInv ==
  /\ TypeOK
  /\ CacheIsOld
  /\ WriteIsNext
  /\ DeleteIsLate

-----------------------------------------------------------------------------
(* Lemmas. *)

(* An edge of the lifecycle never leaves the late phases. *)
LEMMA LateIsClosed ==
  ASSUME NEW p, NEW q, <<p, q>> \in Lifecycle!Edge
  PROVE  q \in Phases /\ (p \in Late => q \in Late)
BY DEF Lifecycle!Edge, Late, Phases

LEMMA HoldingType ==
  ASSUME NEW v \in Copy, NEW p \in Phases \cup {"gone"}, NEW again \in BOOLEAN
  PROVE  /\ Holding(v, p, again) \in Work
         /\ Holding(v, p, again).phase = p
         /\ Holding(v, p, again).fresh = v.fresh
BY DEF Holding, Work, Copy

LEMMA StaleViews ==
  ASSUME TypeOK
  PROVE  /\ Stale(view) \in [Controllers -> Copy]
         /\ \A w \in Controllers : /\ Stale(view)[w].fresh = FALSE
                                   /\ Stale(view)[w].phase = view[w].phase
BY DEF Stale, TypeOK, Copy

LEMMA StaleWork ==
  ASSUME TypeOK
  PROVE  /\ Stale(loc) \in [Controllers -> Work]
         /\ \A w \in Controllers : /\ Stale(loc)[w].fresh = FALSE
                                   /\ Stale(loc)[w].phase = loc[w].phase
BY DEF Stale, TypeOK, Work

LEMMA NoWorkType == NoWork \in Work /\ NoWork.fresh = FALSE
BY DEF NoWork, Work, Phases

LEMMA InvInit == Init => IInv
<1> SUFFICES ASSUME Init PROVE IInv
  OBVIOUS
<1>1. NoCopy \in Copy /\ NoCopy.fresh = FALSE /\ NoCopy.phase = ""
  BY DEF NoCopy, Copy, Phases
<1>a. /\ phase \in Phases \cup {"gone"} /\ pod \in PodStates
      /\ pc \in [Controllers -> {"down", "idle", "create", "delete", "update"}]
      /\ podView \in [Controllers -> PodStates]
  BY DEF Init, Phases, PodStates
<1>e. crashes \in 0..MaxCrashes /\ podLosses \in 0..MaxPodLosses
  <2>1. crashes = 0 /\ podLosses = 0
    BY DEF Init
  <2> QED BY <2>1, AgentSessionAssumption
<1>b. /\ idleOut \in BOOLEAN /\ lifeOut \in BOOLEAN /\ doomed \in BOOLEAN /\ overlapped \in BOOLEAN
  BY DEF Init
<1>d. event \in [Controllers -> BOOLEAN] /\ timer \in [Controllers -> BOOLEAN]
  BY DEF Init
<1>c. view \in [Controllers -> Copy] /\ loc \in [Controllers -> Work]
  BY <1>1, NoWorkType DEF Init
<1>2. TypeOK
  BY <1>a, <1>b, <1>c, <1>d, <1>e DEF TypeOK
<1> QED
  BY <1>1, <1>2, NoWorkType DEF Init, IInv, CacheIsOld, WriteIsNext, DeleteIsLate, Late

(* A reconciliation takes the session up: it leaves the cluster and the    *)
(* caches alone and puts what it decided into loc.                         *)
LEMMA TakeUp ==
  ASSUME IInv,
         NEW w \in Controllers,
         Dequeue(w),
         NEW label \in {"create", "delete", "update"},
         NEW p \in Phases \cup {"gone"},
         NEW again \in BOOLEAN,
         loc' = [loc EXCEPT ![w] = Holding(view[w], p, again)],
         pc' = [pc EXCEPT ![w] = label],
         UNCHANGED <<clusterVars, boundVars, view, podView>>,
         label = "create" => view[w].phase \in {"", "Provisioning"},
         label = "delete" => view[w].phase = "Committing",
         label = "update" => \/ p = view[w].phase
                             \/ <<view[w].phase, p>> \in Lifecycle!Edge
  PROVE  IInv'
<1>1. view[w] \in Copy
  BY DEF IInv, TypeOK
<1>2. /\ Holding(view[w], p, again) \in Work
      /\ Holding(view[w], p, again).phase = p
      /\ Holding(view[w], p, again).fresh = view[w].fresh
  BY <1>1, HoldingType
<1>3. TypeOK'
  BY <1>2 DEF IInv, TypeOK, Dequeue, clusterVars, boundVars
<1>4. CacheIsOld'
  BY DEF IInv, CacheIsOld, clusterVars
<1>5. \A v \in Controllers \ {w} : pc'[v] = pc[v] /\ loc'[v] = loc[v]
  BY DEF IInv, TypeOK
<1>6. pc'[w] = label /\ loc'[w].phase = p /\ loc'[w].fresh = view[w].fresh
  BY <1>2 DEF IInv, TypeOK
<1>7. phase' = phase
  BY DEF clusterVars
<1>8. WriteIsNext'
  <2> SUFFICES ASSUME NEW v \in Controllers, loc'[v].fresh
               PROVE  /\ pc'[v] = "update" => \/ loc'[v].phase = phase'
                                              \/ <<phase', loc'[v].phase>> \in Lifecycle!Edge
                      /\ pc'[v] = "create" => phase' \in {"", "Provisioning"}
                      /\ pc'[v] = "delete" => phase' = "Committing"
    BY DEF WriteIsNext
  <2>1. CASE v = w
    BY <1>6, <1>7, <2>1 DEF IInv, CacheIsOld
  <2>2. CASE v # w
    BY <1>5, <1>7, <2>2 DEF IInv, WriteIsNext
  <2> QED BY <2>1, <2>2
<1>9. DeleteIsLate'
  BY <1>5, <1>6, <1>7 DEF IInv, DeleteIsLate, CacheIsOld, Late
<1> QED
  BY <1>3, <1>4, <1>8, <1>9 DEF IInv

(* Caches stay as they are or are refilled with something no newer than    *)
(* what is recorded.                                                       *)
CacheStep ==
  \A w \in Controllers :
    \/ view'[w] = view[w]
    \/ /\ view'[w].fresh => view'[w].phase = phase
       /\ view'[w].phase \in Late => phase \in Late

(* Controllers stay where they are or have no write in hand. *)
WorkStep ==
  \A w \in Controllers :
    \/ pc'[w] = pc[w] /\ loc'[w] = loc[w]
    \/ pc'[w] \in {"down", "idle"}

LEMMA Undisturbed ==
  ASSUME IInv, TypeOK', phase' = phase, CacheStep, WorkStep
  PROVE  IInv'
<1>1. CacheIsOld'
  BY DEF IInv, CacheIsOld, CacheStep
<1>2. WriteIsNext'
  BY DEF IInv, WriteIsNext, WorkStep
<1>3. DeleteIsLate'
  BY DEF IInv, DeleteIsLate, WorkStep
<1> QED
  BY <1>1, <1>2, <1>3 DEF IInv

-----------------------------------------------------------------------------
(* The invariant is inductive. *)

LEMMA ReconcileStep ==
  ASSUME IInv, NEW w \in Controllers, Reconcile(w)
  PROVE  IInv'
<1>0. /\ TypeOK /\ view[w] \in Copy /\ loc[w] \in Work
      /\ view[w].phase \in Phases \cup {"gone"}
  BY DEF IInv, TypeOK, Copy
<1>1. CASE ReconcileCreate(w)
  <2>1. view[w].phase \in {"", "Provisioning"}
    BY <1>1 DEF ReconcileCreate, CreatePhases
  <2> QED BY <1>0, <1>1, <2>1, TakeUp DEF ReconcileCreate
<1>2. CASE ReconcileReady(w)
  <2>1. <<view[w].phase, "Running">> \in Lifecycle!Edge /\ "Running" \in Phases
    BY <1>2 DEF ReconcileReady, Lifecycle!Edge, Phases
  <2> QED BY <1>2, <2>1, TakeUp DEF ReconcileReady, Decide
<1>3. CASE ReconcileWait(w)
  <2>1. view[w].phase = "Provisioning" /\ "Provisioning" \in Phases
    BY <1>3 DEF ReconcileWait, Phases
  <2> QED BY <1>3, <2>1, TakeUp DEF ReconcileWait, Decide, RequeueWait
<1>4. CASE ReconcileIdle(w)
  <2>1. <<view[w].phase, "Idle">> \in Lifecycle!Edge /\ "Idle" \in Phases
    BY <1>4 DEF ReconcileIdle, Lifecycle!Edge, Phases
  <2> QED BY <1>4, <2>1, TakeUp DEF ReconcileIdle, Decide
<1>5. CASE ReconcileStillActive(w)
  <2>1. view[w].phase = "Running" /\ "Running" \in Phases
    BY <1>5 DEF ReconcileStillActive, Phases
  <2> QED BY <1>5, <2>1, TakeUp DEF ReconcileStillActive, Decide
<1>6. CASE BeginCommit(w)
  <2>1. <<view[w].phase, "Committing">> \in Lifecycle!Edge /\ "Committing" \in Phases
    BY <1>6 DEF BeginCommit, Lifecycle!Edge, Phases
  <2> QED BY <1>6, <2>1, TakeUp DEF BeginCommit, Decide
<1>7. CASE FinishCommitDelete(w)
  <2>1. view[w].phase = "Committing"
    BY <1>7 DEF FinishCommitDelete, FinishPhase
  <2> QED BY <1>0, <1>7, <2>1, TakeUp DEF FinishCommitDelete
<1>8. CASE FinishCommitNoPod(w)
  <2>1. <<view[w].phase, "Terminated">> \in Lifecycle!Edge /\ "Terminated" \in Phases
    BY <1>8 DEF FinishCommitNoPod, FinishPhase, Lifecycle!Edge, Phases
  <2> QED BY <1>8, <2>1, TakeUp DEF FinishCommitNoPod, Decide
<1>9. CASE ReconcileNothing(w)
  <2>1. TypeOK'
    BY <1>0, <1>9 DEF ReconcileNothing, Dequeue, TypeOK, clusterVars, boundVars
  <2>2. phase' = phase /\ pc' = pc /\ view' = view /\ loc' = loc
    BY <1>9 DEF ReconcileNothing, clusterVars
  <2>3. CacheStep /\ WorkStep
    BY <2>2 DEF CacheStep, WorkStep
  <2> QED BY <2>1, <2>2, <2>3, Undisturbed
<1>10. CASE CreatePod(w)
  <2>1. [loc[w] EXCEPT !.phase = "Provisioning", !.stamped = TRUE, !.requeue = TRUE] \in Work
    BY <1>0 DEF Work, Phases
  <2>2. /\ loc'[w] = [loc[w] EXCEPT !.phase = "Provisioning", !.stamped = TRUE, !.requeue = TRUE]
        /\ pc[w] = "create" /\ pc'[w] = "update"
        /\ \A v \in Controllers \ {w} : pc'[v] = pc[v] /\ loc'[v] = loc[v]
    BY <1>0, <1>10 DEF CreatePod, TypeOK
  <2>3. loc'[w].phase = "Provisioning" /\ loc'[w].fresh = loc[w].fresh
    BY <1>0, <2>2 DEF Work
  <2>4. TypeOK'
    <3>1. pod' \in PodStates
      BY <1>0, <1>10 DEF CreatePod, TypeOK, PodStates
    <3> QED BY <1>0, <1>10, <2>1, <3>1 DEF CreatePod, TypeOK, boundVars
  <2>5. phase' = phase /\ view' = view
    BY <1>10 DEF CreatePod
  <2>6. loc[w].fresh => phase \in {"", "Provisioning"}
    BY <2>2 DEF IInv, WriteIsNext
  <2>7. WriteIsNext'
    <3> SUFFICES ASSUME NEW v \in Controllers, loc'[v].fresh
                 PROVE  /\ pc'[v] = "update" => \/ loc'[v].phase = phase'
                                                \/ <<phase', loc'[v].phase>> \in Lifecycle!Edge
                        /\ pc'[v] = "create" => phase' \in {"", "Provisioning"}
                        /\ pc'[v] = "delete" => phase' = "Committing"
      BY DEF WriteIsNext
    <3>1. CASE v = w
      BY <2>2, <2>3, <2>5, <2>6, <3>1 DEF Lifecycle!Edge
    <3>2. CASE v # w
      BY <2>2, <2>5, <3>2 DEF IInv, WriteIsNext
    <3> QED BY <3>1, <3>2
  <2> QED BY <2>2, <2>4, <2>5, <2>7 DEF IInv, CacheIsOld, DeleteIsLate
<1>11. CASE DeletePod(w)
  <2>1. [loc[w] EXCEPT !.phase = "Terminated"] \in Work
    BY <1>0 DEF Work, Phases
  <2>2. /\ loc'[w] = [loc[w] EXCEPT !.phase = "Terminated"]
        /\ pc[w] = "delete" /\ pc'[w] = "update"
        /\ \A v \in Controllers \ {w} : pc'[v] = pc[v] /\ loc'[v] = loc[v]
    BY <1>0, <1>11 DEF DeletePod, TypeOK
  <2>3. loc'[w].phase = "Terminated" /\ loc'[w].fresh = loc[w].fresh
    BY <1>0, <2>2 DEF Work
  <2>4. TypeOK'
    <3>1. pod' \in PodStates /\ doomed' \in BOOLEAN
      BY <1>11 DEF DeletePod, PodStates
    <3> QED BY <1>0, <1>11, <2>1, <3>1 DEF DeletePod, TypeOK, boundVars
  <2>5. phase' = phase /\ view' = view
    BY <1>11 DEF DeletePod
  <2>6. loc[w].fresh => phase = "Committing"
    BY <2>2 DEF IInv, WriteIsNext
  <2>7. WriteIsNext'
    <3> SUFFICES ASSUME NEW v \in Controllers, loc'[v].fresh
                 PROVE  /\ pc'[v] = "update" => \/ loc'[v].phase = phase'
                                                \/ <<phase', loc'[v].phase>> \in Lifecycle!Edge
                        /\ pc'[v] = "create" => phase' \in {"", "Provisioning"}
                        /\ pc'[v] = "delete" => phase' = "Committing"
      BY DEF WriteIsNext
    <3>1. CASE v = w
      BY <2>2, <2>3, <2>5, <2>6, <3>1 DEF Lifecycle!Edge
    <3>2. CASE v # w
      BY <2>2, <2>5, <3>2 DEF IInv, WriteIsNext
    <3> QED BY <3>1, <3>2
  <2> QED BY <2>2, <2>4, <2>5, <2>7 DEF IInv, CacheIsOld, DeleteIsLate
<1>12. CASE UpdateStatus(w)
  <2>1. loc[w].fresh /\ pc[w] = "update" /\ phase' = loc[w].phase
    BY <1>12 DEF UpdateStatus, WriteAccepted
  <2>2. phase' = phase \/ <<phase, phase'>> \in Lifecycle!Edge
    BY <2>1 DEF IInv, WriteIsNext
  <2>3. phase' \in Phases \cup {"gone"} /\ (phase \in Late => phase' \in Late)
    BY <1>0, <2>2, LateIsClosed DEF TypeOK
  <2>4. loc' \in [Controllers -> Work] /\ \A v \in Controllers : loc'[v].fresh = FALSE
    BY <1>0, <1>12, StaleWork, NoWorkType DEF UpdateStatus
  <2>5. TypeOK'
    <3>1. /\ idleOut' \in BOOLEAN /\ lifeOut' \in BOOLEAN
          /\ timer' \in [Controllers -> BOOLEAN]
      BY <1>0, <1>12 DEF UpdateStatus, AfterUpdate, TypeOK, Work
    <3> QED BY <1>0, <1>12, <2>3, <2>4, <3>1, StaleViews
            DEF UpdateStatus, AfterUpdate, TypeOK, boundVars
  <2>6. CacheIsOld'
    BY <1>0, <1>12, <2>3, StaleViews DEF UpdateStatus, IInv, CacheIsOld
  <2>7. WriteIsNext'
    BY <2>4 DEF WriteIsNext
  <2>8. DeleteIsLate'
    BY <1>0, <1>12, <2>3 DEF UpdateStatus, AfterUpdate, IInv, DeleteIsLate, TypeOK
  <2> QED BY <2>5, <2>6, <2>7, <2>8 DEF IInv
<1>13. CASE UpdateStatusNoChange(w)
  <2>1. timer' \in [Controllers -> BOOLEAN]
    BY <1>0, <1>13 DEF UpdateStatusNoChange, AfterUpdate, TypeOK, Work
  <2>2. TypeOK'
    BY <1>0, <1>13, <2>1, NoWorkType DEF UpdateStatusNoChange, AfterUpdate, TypeOK,
       clusterVars, boundVars
  <2>3. WorkStep
    BY <1>0, <1>13 DEF WorkStep, UpdateStatusNoChange, AfterUpdate, TypeOK
  <2>4. phase' = phase /\ view' = view
    BY <1>13 DEF UpdateStatusNoChange, clusterVars
  <2>5. CacheStep
    BY <2>4 DEF CacheStep
  <2> QED BY <2>2, <2>3, <2>4, <2>5, Undisturbed
<1>14. CASE ReconcileError(w)
  <2>1. TypeOK'
    BY <1>0, <1>14, NoWorkType DEF ReconcileError, TypeOK, clusterVars, boundVars
  <2>2. WorkStep
    BY <1>0, <1>14 DEF WorkStep, ReconcileError, TypeOK
  <2>3. phase' = phase /\ view' = view
    BY <1>14 DEF ReconcileError, clusterVars
  <2>4. CacheStep
    BY <2>3 DEF CacheStep
  <2> QED BY <2>1, <2>2, <2>3, <2>4, Undisturbed
<1> QED
  BY <1>1, <1>2, <1>3, <1>4, <1>5, <1>6, <1>7, <1>8, <1>9, <1>10, <1>11, <1>12, <1>13, <1>14
  DEF Reconcile

LEMMA InvStep == IInv /\ [Next]_vars => IInv'
<1> SUFFICES ASSUME IInv, [Next]_vars PROVE IInv'
  OBVIOUS
<1>0. TypeOK
  BY DEF IInv
<1>c. Current \in Copy /\ Current.phase = phase
  BY <1>0 DEF Current, Copy, TypeOK
<1>1. ASSUME NEW w \in Controllers, StartController(w) PROVE IInv'
  <2>1. TypeOK'
    <3>1. overlapped' \in BOOLEAN
      BY <1>1 DEF StartController
    <3> QED BY <1>0, <1>c, <1>1, <3>1 DEF StartController, TypeOK, clusterVars
  <2>2. phase' = phase
    BY <1>1 DEF StartController, clusterVars
  <2>3. CacheStep
    BY <1>0, <1>c, <1>1 DEF CacheStep, StartController, TypeOK
  <2>4. WorkStep
    BY <1>0, <1>1 DEF WorkStep, StartController, TypeOK
  <2> QED BY <2>1, <2>2, <2>3, <2>4, Undisturbed
<1>2. ASSUME NEW w \in Controllers, CrashController(w) PROVE IInv'
  <2>0. NoCopy \in Copy /\ NoCopy.fresh = FALSE /\ NoCopy.phase \notin Late
    BY DEF NoCopy, Copy, Phases, Late
  <2>1. TypeOK'
    <3>1. crashes' \in 0..MaxCrashes
      BY <1>0, <1>2, AgentSessionAssumption DEF CrashController, TypeOK
    <3>2. event' \in [Controllers -> BOOLEAN] /\ timer' \in [Controllers -> BOOLEAN]
      BY <1>0, <1>2 DEF CrashController, TypeOK
    <3>3. podView' \in [Controllers -> PodStates]
      BY <1>0, <1>2 DEF CrashController, TypeOK, PodStates
    <3>4. view' \in [Controllers -> Copy] /\ loc' \in [Controllers -> Work]
      BY <1>0, <1>2, <2>0, NoWorkType DEF CrashController, TypeOK
    <3> QED BY <1>0, <1>2, <3>1, <3>2, <3>3, <3>4 DEF CrashController, TypeOK, clusterVars
  <2>2. phase' = phase
    BY <1>2 DEF CrashController, clusterVars
  <2>3. CacheStep
    BY <1>0, <1>2, <2>0 DEF CacheStep, CrashController, TypeOK
  <2>4. WorkStep
    BY <1>0, <1>2 DEF WorkStep, CrashController, TypeOK
  <2> QED BY <2>1, <2>2, <2>3, <2>4, Undisturbed
<1>3. ASSUME NEW w \in Controllers, SyncSession(w) PROVE IInv'
  <2>1. TypeOK'
    BY <1>0, <1>c, <1>3 DEF SyncSession, TypeOK, clusterVars, boundVars
  <2>2. phase' = phase /\ pc' = pc /\ loc' = loc
    BY <1>3 DEF SyncSession, clusterVars
  <2>3. CacheStep
    BY <1>0, <1>c, <1>3 DEF CacheStep, SyncSession, TypeOK
  <2>4. WorkStep
    BY <2>2 DEF WorkStep
  <2> QED BY <2>1, <2>2, <2>3, <2>4, Undisturbed
<1>4. ASSUME NEW w \in Controllers, SyncPod(w) PROVE IInv'
  <2>1. TypeOK'
    BY <1>0, <1>4 DEF SyncPod, TypeOK, clusterVars, boundVars
  <2>2. phase' = phase /\ pc' = pc /\ view' = view /\ loc' = loc
    BY <1>4 DEF SyncPod, clusterVars
  <2>3. CacheStep /\ WorkStep
    BY <2>2 DEF CacheStep, WorkStep
  <2> QED BY <2>1, <2>2, <2>3, Undisturbed
<1>5. ASSUME NEW w \in Controllers, Reconcile(w) PROVE IInv'
  BY <1>5, ReconcileStep
<1>6. CASE \/ PodBecomesReady \/ PodLost \/ PodTerminates
           \/ IdleTimeoutPasses \/ LifetimePasses
  <2>1. TypeOK'
    <3>1. pod' \in PodStates /\ podLosses' \in 0..MaxPodLosses
      BY <1>0, <1>6, AgentSessionAssumption DEF PodBecomesReady, PodLost, PodTerminates,
         IdleTimeoutPasses, LifetimePasses, TypeOK, PodStates, boundVars
    <3>2. idleOut' \in BOOLEAN /\ lifeOut' \in BOOLEAN
      BY <1>0, <1>6 DEF PodBecomesReady, PodLost, PodTerminates, IdleTimeoutPasses,
         LifetimePasses, TypeOK
    <3> QED BY <1>0, <1>6, <3>1, <3>2 DEF PodBecomesReady, PodLost, PodTerminates,
              IdleTimeoutPasses, LifetimePasses, TypeOK, boundVars
  <2>2. phase' = phase /\ pc' = pc /\ view' = view /\ loc' = loc
    BY <1>6 DEF PodBecomesReady, PodLost, PodTerminates, IdleTimeoutPasses, LifetimePasses
  <2>3. CacheStep /\ WorkStep
    BY <2>2 DEF CacheStep, WorkStep
  <2> QED BY <2>1, <2>2, <2>3, Undisturbed
<1>7. CASE DeleteSession
  <2>1. /\ phase' = "gone" /\ view' = Stale(view) /\ loc' = Stale(loc)
        /\ UNCHANGED <<idleOut, lifeOut, pod, doomed, boundVars, pc, podView, event, timer>>
    BY <1>7 DEF DeleteSession
  <2>2. TypeOK'
    BY <1>0, <2>1, StaleViews, StaleWork DEF TypeOK, boundVars
  <2>3. CacheIsOld' /\ WriteIsNext' /\ DeleteIsLate'
    BY <1>0, <2>1, StaleViews, StaleWork DEF CacheIsOld, WriteIsNext, DeleteIsLate, Late
  <2> QED BY <2>2, <2>3 DEF IInv
<1>8. CASE UNCHANGED vars
  BY <1>8 DEF vars, IInv, TypeOK, CacheIsOld, WriteIsNext, DeleteIsLate
<1> QED
  BY <1>1, <1>2, <1>3, <1>4, <1>5, <1>6, <1>7, <1>8 DEF Next, Cluster

LEMMA Invariance == Spec => []IInv
<1>1. Init => IInv
  BY InvInit
<1>2. IInv /\ [Next]_vars => IInv'
  BY InvStep
<1> QED
  BY <1>1, <1>2, PTL DEF Spec

-----------------------------------------------------------------------------
(* The theorems. *)

(* Every variable keeps its type: no controller ever holds or records a    *)
(* phase that is not one of the lifecycle's (reconciler.go 60-76).         *)
THEOREM TypeCorrectness == Spec => []TypeOK
<1>1. IInv => TypeOK
  BY DEF IInv
<1> QED
  BY <1>1, Invariance, PTL

(* Of the controllers' steps only an accepted status write and a deletion  *)
(* of the session move the recorded phase, and only DeletePod dooms a pod. *)
LEMMA PhaseMoves ==
  ASSUME IInv, Next
  PROVE  \/ UNCHANGED <<phase, doomed>>
         \/ <<phase, phase'>> \in Lifecycle!Edge /\ doomed' = doomed
         \/ phase \in Late /\ doomed' = TRUE /\ phase' = phase
         \/ phase' = "gone" /\ doomed' = doomed
<1>1. ASSUME NEW w \in Controllers,
             StartController(w) \/ CrashController(w) \/ SyncSession(w) \/ SyncPod(w)
      PROVE  UNCHANGED <<phase, doomed>>
  BY <1>1 DEF StartController, CrashController, SyncSession, SyncPod, clusterVars
<1>2. ASSUME NEW w \in Controllers, UpdateStatus(w)
      PROVE  (phase' = phase \/ <<phase, phase'>> \in Lifecycle!Edge) /\ doomed' = doomed
  <2>1. loc[w].fresh /\ pc[w] = "update" /\ phase' = loc[w].phase /\ doomed' = doomed
    BY <1>2 DEF UpdateStatus, WriteAccepted
  <2> QED BY <2>1 DEF IInv, WriteIsNext
<1>3. ASSUME NEW w \in Controllers, DeletePod(w)
      PROVE  phase \in Late /\ doomed' = TRUE /\ phase' = phase
  BY <1>3 DEF DeletePod, IInv, DeleteIsLate
<1>4. ASSUME NEW w \in Controllers, Reconcile(w), ~UpdateStatus(w), ~DeletePod(w)
      PROVE  UNCHANGED <<phase, doomed>>
  BY <1>4 DEF Reconcile, ReconcileCreate, ReconcileReady, ReconcileWait, ReconcileIdle,
     ReconcileStillActive, BeginCommit, FinishCommitDelete, FinishCommitNoPod,
     ReconcileNothing, CreatePod, UpdateStatusNoChange, ReconcileError, clusterVars
<1>5. CASE Cluster
  BY <1>5 DEF Cluster, PodBecomesReady, PodLost, PodTerminates, IdleTimeoutPasses,
     LifetimePasses, DeleteSession
<1> QED
  BY <1>1, <1>2, <1>3, <1>4, <1>5 DEF Next

(* The controllers implement the session lifecycle: phases are recorded in *)
(* order and no pod is deleted before Committing was recorded, whatever    *)
(* the caches, conflicts and crashes (reconciler.go 60-73, 146-168).       *)
THEOREM LifecycleRefinement == Spec => ImplementsLifecycle
<1>1. Init => Lifecycle!Init
  BY DEF Init, Lifecycle!Init
<1>2. IInv /\ [Next]_vars => [Lifecycle!Next]_(Lifecycle!vars)
  <2> SUFFICES ASSUME IInv, [Next]_vars
               PROVE  Lifecycle!Next \/ UNCHANGED <<phase, doomed>>
    BY DEF Lifecycle!vars
  <2>1. CASE UNCHANGED vars
    BY <2>1 DEF vars
  <2>2. ASSUME <<phase, phase'>> \in Lifecycle!Edge, doomed' = doomed
        PROVE  Lifecycle!Move
    BY <2>2 DEF Lifecycle!Move, Lifecycle!Edge
  <2>3. ASSUME phase \in Late, doomed' = TRUE, phase' = phase
        PROVE  Lifecycle!DeletePod
    BY <2>3 DEF Lifecycle!DeletePod, Late
  <2>4. ASSUME phase' = "gone", doomed' = doomed
        PROVE  Lifecycle!DeleteSession
    BY <2>4 DEF Lifecycle!DeleteSession
  <2> QED
    BY <2>1, <2>2, <2>3, <2>4, PhaseMoves DEF Lifecycle!Next
<1> QED
  BY <1>1, <1>2, Invariance, PTL DEF Spec, ImplementsLifecycle, Lifecycle!Spec

-----------------------------------------------------------------------------
(* No orphan: what one controller at a time, without lost pods, keeps true *)
(* of the pod.                                                             *)

Up(w) == pc[w] # "down"

(* The phases that are recorded only once the pod was seen ready. *)
Started == {"Running", "Idle", "Committing", "Terminated"}

Alone == \A v, w \in Controllers : Up(v) /\ Up(w) => v = w

(* A deleted pod does not come back; until then a session that has started *)
(* has a ready pod and is not terminated.                                  *)
PodFollowsPhase ==
  /\ doomed => phase \in Late /\ pod \in {"none", "terminating"}
  /\ ~doomed => /\ pod # "terminating"
                /\ phase # "Terminated"
                /\ phase \in Started => pod = "ready"

(* What a running controller knows: after the deletion it can no longer    *)
(* see a phase that creates a pod; before it, the cached pod of a started  *)
(* session is ready, so only a deletion leads to a Terminated write.       *)
Informed(w) ==
  Up(w) =>
    /\ pc[w] = "delete" => view[w].phase \in Late
    /\ doomed => view[w].phase \in Late /\ pc[w] # "create"
    /\ ~doomed =>
         /\ podView[w] = "ready" => pod = "ready"
         /\ phase \in Started => podView[w] = "ready"
         /\ pc[w] = "update" /\ loc[w].fresh =>
              /\ loc[w].phase # "Terminated"
              /\ loc[w].phase = "Running" => podView[w] = "ready"

PodInv ==
  (podLosses = 0 /\ ~overlapped) =>
     Alone /\ PodFollowsPhase /\ \A w \in Controllers : Informed(w)

LEMMA PodInit == Init => PodInv
BY DEF Init, PodInv, Alone, Up, PodFollowsPhase, Informed, Started

(* Losses are counted and an overlap is remembered. *)
LEMMA QuietBefore ==
  ASSUME IInv, Next, podLosses' = 0, ~overlapped'
  PROVE  podLosses = 0 /\ ~overlapped
<1>0. podLosses \in Nat
  BY AgentSessionAssumption DEF IInv, TypeOK
<1>1. podLosses' = podLosses \/ podLosses' = podLosses + 1
  BY DEF Next, StartController, CrashController, SyncSession, SyncPod, Reconcile,
     ReconcileCreate, ReconcileReady, ReconcileWait, ReconcileIdle, ReconcileStillActive,
     BeginCommit, FinishCommitDelete, FinishCommitNoPod, ReconcileNothing, CreatePod,
     DeletePod, UpdateStatus, UpdateStatusNoChange, ReconcileError, Cluster,
     PodBecomesReady, PodLost, PodTerminates, IdleTimeoutPasses, LifetimePasses,
     DeleteSession, boundVars
<1>2. overlapped' = overlapped \/ \E w \in Controllers : StartController(w)
  BY DEF Next, CrashController, SyncSession, SyncPod, Reconcile,
     ReconcileCreate, ReconcileReady, ReconcileWait, ReconcileIdle, ReconcileStillActive,
     BeginCommit, FinishCommitDelete, FinishCommitNoPod, ReconcileNothing, CreatePod,
     DeletePod, UpdateStatus, UpdateStatusNoChange, ReconcileError, Cluster,
     PodBecomesReady, PodLost, PodTerminates, IdleTimeoutPasses, LifetimePasses,
     DeleteSession, boundVars
<1>3. ASSUME NEW w \in Controllers, StartController(w) PROVE ~overlapped
  BY <1>3, Zenon DEF StartController
<1>4. ~overlapped
  BY <1>2, <1>3
<1> QED
  BY <1>0, <1>1, <1>4

(* The step of the one controller that is up, or of the first that starts: *)
(* the others stay down, so only what it knows and the pod matter.         *)
LEMMA SoleStep ==
  ASSUME TypeOK, Alone, NEW w \in Controllers,
         Up(w) \/ \A v \in Controllers : ~Up(v),
         \A v \in Controllers \ {w} : pc'[v] = pc[v],
         PodFollowsPhase', Informed(w)'
  PROVE  PodInv'
<1>1. \A v \in Controllers \ {w} : pc'[v] = "down"
  BY DEF Alone, Up
<1>2. Alone'
  BY <1>1 DEF Alone, Up
<1>3. \A v \in Controllers : Informed(v)'
  <2> SUFFICES ASSUME NEW v \in Controllers, v # w PROVE Informed(v)'
    OBVIOUS
  <2> QED BY <1>1 DEF Informed, Up
<1> QED
  BY <1>2, <1>3 DEF PodInv

(* A reconciliation takes the session up.  It decides on Terminated or     *)
(* Running, and creates or deletes, only on what its caches show.          *)
LEMMA TakeUpKnowing ==
  ASSUME IInv, Alone, PodFollowsPhase, NEW w \in Controllers, Informed(w),
         Dequeue(w),
         NEW label \in {"create", "delete", "update"},
         NEW p \in Phases \cup {"gone"},
         NEW again \in BOOLEAN,
         loc' = [loc EXCEPT ![w] = Holding(view[w], p, again)],
         pc' = [pc EXCEPT ![w] = label],
         UNCHANGED <<clusterVars, boundVars, view, podView>>,
         label = "create" => view[w].phase \notin Late,
         label = "delete" => view[w].phase \in Late,
         label = "update" /\ p = "Terminated" => view[w].phase = "Committing" /\ podView[w] = "none",
         label = "update" /\ p = "Running" => podView[w] = "ready" \/ view[w].phase = "Running"
  PROVE  PodInv'
<1>0. TypeOK /\ view[w] \in Copy
  BY DEF IInv, TypeOK
<1>1. /\ Holding(view[w], p, again).phase = p
      /\ Holding(view[w], p, again).fresh = view[w].fresh
  BY <1>0, HoldingType
<1>2. /\ pc'[w] = label /\ loc'[w].phase = p /\ loc'[w].fresh = view[w].fresh
      /\ \A v \in Controllers \ {w} : pc'[v] = pc[v]
  BY <1>0, <1>1 DEF TypeOK
<1>3. UNCHANGED <<phase, pod, doomed, view, podView>>
  BY DEF clusterVars
<1>4. Up(w)
  BY DEF Dequeue, Up
<1>5. PodFollowsPhase'
  BY <1>3 DEF PodFollowsPhase
<1>6. view[w].fresh => view[w].phase = phase
  BY DEF IInv, CacheIsOld
<1>7. ASSUME ~doomed, label = "update", loc'[w].fresh
      PROVE  p # "Terminated" /\ (p = "Running" => podView[w] = "ready")
  <2>1. view[w].phase = phase
    BY <1>2, <1>6, <1>7
  <2>2. phase \in Started => podView[w] = "ready"
    BY <1>4, <1>7 DEF Informed
  <2> QED BY <1>7, <2>1, <2>2 DEF Started
<1>8. Informed(w)'
  <2>1. label = "delete" => view'[w].phase \in Late
    BY <1>3
  <2>2. doomed' => view'[w].phase \in Late /\ label # "create"
    BY <1>3, <1>4 DEF Informed
  <2>3. ~doomed' => /\ podView'[w] = "ready" => pod' = "ready"
                    /\ phase' \in Started => podView'[w] = "ready"
    BY <1>3, <1>4 DEF Informed
  <2>4. ~doomed' /\ label = "update" /\ loc'[w].fresh =>
          /\ loc'[w].phase # "Terminated"
          /\ loc'[w].phase = "Running" => podView'[w] = "ready"
    BY <1>2, <1>3, <1>7
  <2> QED BY <1>2, <2>1, <2>2, <2>3, <2>4 DEF Informed
<1> QED
  BY <1>0, <1>2, <1>4, <1>5, <1>8, SoleStep

(* A step after which controller w is idle or down, the cluster as it was  *)
(* and its caches no worse.                                                *)
LEMMA LetGo ==
  ASSUME IInv, Alone, PodFollowsPhase, NEW w \in Controllers, Informed(w), Up(w),
         NEW label \in {"idle", "down"},
         pc' = [pc EXCEPT ![w] = label],
         UNCHANGED <<phase, pod, doomed, view, podView>> \/ (label = "down" /\ UNCHANGED <<phase, pod, doomed>>)
  PROVE  PodInv'
<1>1. pc'[w] = label /\ \A v \in Controllers \ {w} : pc'[v] = pc[v]
  BY DEF IInv, TypeOK
<1>2. PodFollowsPhase'
  BY DEF PodFollowsPhase
<1>3. Informed(w)'
  BY <1>1 DEF Informed, Up
<1> QED
  BY <1>1, <1>2, <1>3, SoleStep DEF IInv

LEMMA ReconcilePodStep ==
  ASSUME IInv, Alone, PodFollowsPhase, NEW w \in Controllers, Informed(w), Reconcile(w)
  PROVE  PodInv'
<1>0. /\ TypeOK /\ view[w] \in Copy /\ loc[w] \in Work
      /\ view[w].phase \in Phases \cup {"gone"}
  BY DEF IInv, TypeOK, Copy
<1>1. CASE ReconcileCreate(w)
  <2>1. view[w].phase \notin Late
    BY <1>1 DEF ReconcileCreate, CreatePhases, Late
  <2> QED BY <1>0, <1>1, <2>1, TakeUpKnowing DEF ReconcileCreate
<1>2. CASE ReconcileReady(w)
  <2>1. podView[w] = "ready" /\ "Running" \in Phases
    BY <1>2 DEF ReconcileReady, Phases
  <2> QED BY <1>2, <2>1, TakeUpKnowing DEF ReconcileReady, Decide
<1>3. CASE ReconcileWait(w)
  <2>1. "Provisioning" \in Phases
    BY DEF Phases
  <2> QED BY <1>3, <2>1, TakeUpKnowing DEF ReconcileWait, Decide, RequeueWait
<1>4. CASE ReconcileIdle(w)
  <2>1. "Idle" \in Phases
    BY DEF Phases
  <2> QED BY <1>4, <2>1, TakeUpKnowing DEF ReconcileIdle, Decide
<1>5. CASE ReconcileStillActive(w)
  <2>1. view[w].phase = "Running" /\ "Running" \in Phases
    BY <1>5 DEF ReconcileStillActive, Phases
  <2> QED BY <1>5, <2>1, TakeUpKnowing DEF ReconcileStillActive, Decide
<1>6. CASE BeginCommit(w)
  <2>1. "Committing" \in Phases
    BY DEF Phases
  <2> QED BY <1>6, <2>1, TakeUpKnowing DEF BeginCommit, Decide
<1>7. CASE FinishCommitDelete(w)
  <2>1. view[w].phase \in Late
    BY <1>7 DEF FinishCommitDelete, FinishPhase, Late
  <2> QED BY <1>0, <1>7, <2>1, TakeUpKnowing DEF FinishCommitDelete
<1>8. CASE FinishCommitNoPod(w)
  <2>1. view[w].phase = "Committing" /\ podView[w] = "none" /\ "Terminated" \in Phases
    BY <1>8 DEF FinishCommitNoPod, FinishPhase, Phases
  <2> QED BY <1>8, <2>1, TakeUpKnowing DEF FinishCommitNoPod, Decide
<1>9. CASE ReconcileNothing(w)
  <2>1. Up(w) /\ UNCHANGED <<phase, pod, doomed, pc, view, podView, loc>>
    BY <1>9 DEF ReconcileNothing, Dequeue, clusterVars, Up
  <2>2. PodFollowsPhase' /\ Informed(w)'
    BY <2>1 DEF PodFollowsPhase, Informed, Up
  <2> QED BY <1>0, <2>1, <2>2, SoleStep
<1>10. CASE CreatePod(w)
  <2>1. /\ pc[w] = "create" /\ pc'[w] = "update"
        /\ \A v \in Controllers \ {w} : pc'[v] = pc[v]
        /\ loc'[w] = [loc[w] EXCEPT !.phase = "Provisioning", !.stamped = TRUE, !.requeue = TRUE]
    BY <1>0, <1>10 DEF CreatePod, TypeOK
  <2>2. /\ UNCHANGED <<phase, doomed, view, podView>>
        /\ pod' = IF pod = "none" THEN "pending" ELSE pod
    BY <1>10 DEF CreatePod
  <2>3. loc'[w].phase = "Provisioning"
    BY <1>0, <2>1 DEF Work
  <2>4. ~doomed /\ Up(w)
    BY <2>1 DEF Informed, Up
  <2>5. PodFollowsPhase'
    BY <2>2, <2>4 DEF PodFollowsPhase
  <2>6. Informed(w)'
    BY <2>1, <2>2, <2>3, <2>4 DEF Informed, Up
  <2> QED BY <1>0, <2>1, <2>4, <2>5, <2>6, SoleStep
<1>11. CASE DeletePod(w)
  <2>1. /\ pc[w] = "delete" /\ pc'[w] = "update"
        /\ \A v \in Controllers \ {w} : pc'[v] = pc[v]
    BY <1>0, <1>11 DEF DeletePod, TypeOK
  <2>2. /\ UNCHANGED <<phase, view, podView>> /\ doomed'
        /\ pod' \in {"none", "terminating"}
    BY <1>11 DEF DeletePod
  <2>3. Up(w) /\ view[w].phase \in Late /\ phase \in Late
    BY <2>1 DEF Informed, Up, IInv, DeleteIsLate
  <2>4. PodFollowsPhase'
    BY <2>2, <2>3 DEF PodFollowsPhase
  <2>5. Informed(w)'
    BY <2>1, <2>2, <2>3 DEF Informed
  <2> QED BY <1>0, <2>1, <2>3, <2>4, <2>5, SoleStep
<1>12. CASE UpdateStatus(w)
  <2>1. /\ pc[w] = "update" /\ pc'[w] = "idle" /\ loc[w].fresh /\ phase' = loc[w].phase
        /\ \A v \in Controllers \ {w} : pc'[v] = pc[v]
        /\ UNCHANGED <<pod, doomed, podView>> /\ view' = Stale(view)
    BY <1>0, <1>12 DEF UpdateStatus, WriteAccepted, AfterUpdate, TypeOK
  <2>2. Up(w)
    BY <2>1 DEF Up
  <2>3. view'[w].phase = view[w].phase
    BY <1>0, <2>1, StaleViews
  <2>4. phase' = phase \/ <<phase, phase'>> \in Lifecycle!Edge
    BY <2>1 DEF IInv, WriteIsNext
  <2>5. phase \in Late => phase' \in Late
    BY <2>4, LateIsClosed
  <2>6. ASSUME ~doomed
        PROVE  /\ phase' # "Terminated"
               /\ phase' \in Started => podView[w] = "ready" /\ pod = "ready"
    <3>1. /\ phase' # "Terminated"
          /\ phase' = "Running" => podView[w] = "ready"
          /\ phase \in Started => podView[w] = "ready"
          /\ podView[w] = "ready" => pod = "ready"
      BY <2>1, <2>2, <2>6 DEF Informed
    <3>2. phase' \in Started => phase' = "Running" \/ phase \in Started
      BY <2>4 DEF Started, Lifecycle!Edge
    <3> QED BY <3>1, <3>2
  <2>7. PodFollowsPhase'
    BY <2>1, <2>5, <2>6 DEF PodFollowsPhase
  <2>8. Informed(w)'
    <3>1. doomed' => view'[w].phase \in Late
      BY <2>1, <2>2, <2>3 DEF Informed
    <3>2. ~doomed' => /\ podView'[w] = "ready" => pod' = "ready"
                      /\ phase' \in Started => podView'[w] = "ready"
      BY <2>1, <2>2, <2>6 DEF Informed
    <3> QED BY <2>1, <3>1, <3>2 DEF Informed
  <2> QED BY <1>0, <2>1, <2>2, <2>7, <2>8, SoleStep
<1>13. CASE UpdateStatusNoChange(w)
  <2>1. /\ Up(w) /\ pc' = [pc EXCEPT ![w] = "idle"]
        /\ UNCHANGED <<phase, pod, doomed, view, podView>>
    BY <1>13 DEF UpdateStatusNoChange, AfterUpdate, clusterVars, Up
  <2> QED BY <2>1, LetGo
<1>14. CASE ReconcileError(w)
  <2>1. /\ Up(w) /\ pc' = [pc EXCEPT ![w] = "idle"]
        /\ UNCHANGED <<phase, pod, doomed, view, podView>>
    BY <1>14 DEF ReconcileError, clusterVars, Up
  <2> QED BY <2>1, LetGo
<1> QED
  BY <1>1, <1>2, <1>3, <1>4, <1>5, <1>6, <1>7, <1>8, <1>9, <1>10, <1>11, <1>12, <1>13, <1>14
  DEF Reconcile

LEMMA PodStep == IInv /\ PodInv /\ [Next]_vars => PodInv'
<1> SUFFICES ASSUME IInv, PodInv, [Next]_vars, podLosses' = 0, ~overlapped'
             PROVE  PodInv'
  BY DEF PodInv
<1>a. CASE UNCHANGED vars
  BY <1>a DEF vars, PodInv, Alone, Up, PodFollowsPhase, Informed
<1>b. ASSUME Next PROVE PodInv'
  <2>0. TypeOK /\ podLosses = 0 /\ ~overlapped
    BY <1>b, QuietBefore DEF IInv
  <2>a. Alone /\ PodFollowsPhase /\ \A w \in Controllers : Informed(w)
    BY <2>0 DEF PodInv
  <2>c. Current.phase = phase
    BY DEF Current
  <2>1. ASSUME NEW w \in Controllers, StartController(w) PROVE PodInv'
    <3>1. /\ pc'[w] = "idle" /\ \A v \in Controllers \ {w} : pc'[v] = pc[v]
          /\ view'[w].phase = phase /\ podView'[w] = pod
          /\ UNCHANGED <<phase, pod, doomed>>
      BY <2>0, <2>c, <2>1 DEF StartController, TypeOK, clusterVars
    <3>2. \A v \in Controllers : ~Up(v)
      <4>1. ~(\E v \in Controllers : pc[v] # "down")
        BY <2>1, Zenon DEF StartController
      <4> QED BY <4>1 DEF Up
    <3>3. PodFollowsPhase'
      BY <2>a, <3>1 DEF PodFollowsPhase
    <3>4. Informed(w)'
      BY <2>a, <3>1 DEF Informed, PodFollowsPhase
    <3> QED BY <2>0, <2>a, <3>1, <3>2, <3>3, <3>4, SoleStep
  <2>2. ASSUME NEW w \in Controllers, CrashController(w) PROVE PodInv'
    <3>1. Up(w) /\ pc' = [pc EXCEPT ![w] = "down"] /\ UNCHANGED <<phase, pod, doomed>>
      BY <2>2 DEF CrashController, clusterVars, Up
    <3> QED BY <2>a, <3>1, LetGo
  <2>3. ASSUME NEW w \in Controllers, SyncSession(w) PROVE PodInv'
    <3>1. /\ Up(w) /\ view'[w].phase = phase
          /\ UNCHANGED <<phase, pod, doomed, pc, podView, loc>>
      BY <2>0, <2>c, <2>3 DEF SyncSession, TypeOK, clusterVars, Up
    <3>2. pc[w] = "delete" => phase \in Late
      BY DEF IInv, DeleteIsLate
    <3>3. PodFollowsPhase'
      BY <2>a, <3>1 DEF PodFollowsPhase
    <3>4. Informed(w)'
      BY <2>a, <3>1, <3>2 DEF Informed, PodFollowsPhase, Up
    <3> QED BY <2>0, <2>a, <3>1, <3>3, <3>4, SoleStep
  <2>4. ASSUME NEW w \in Controllers, SyncPod(w) PROVE PodInv'
    <3>1. /\ Up(w) /\ podView'[w] = pod
          /\ UNCHANGED <<phase, pod, doomed, pc, view, loc>>
      BY <2>0, <2>4 DEF SyncPod, TypeOK, clusterVars, Up
    <3>2. PodFollowsPhase'
      BY <2>a, <3>1 DEF PodFollowsPhase
    <3>3. Informed(w)'
      BY <2>a, <3>1 DEF Informed, PodFollowsPhase, Up
    <3> QED BY <2>0, <2>a, <3>1, <3>2, <3>3, SoleStep
  <2>5. ASSUME NEW w \in Controllers, Reconcile(w) PROVE PodInv'
    BY <2>a, <2>5, ReconcilePodStep
  <2>6. CASE PodBecomesReady \/ PodTerminates \/ IdleTimeoutPasses \/ LifetimePasses
    <3>1. /\ UNCHANGED <<phase, doomed, pc, view, podView, loc>>
          /\ \/ pod' = pod
             \/ pod = "pending" /\ pod' = "ready"
             \/ pod = "terminating" /\ pod' = "none"
      BY <2>6 DEF PodBecomesReady, PodTerminates, IdleTimeoutPasses, LifetimePasses
    <3>2. Alone'
      BY <2>a, <3>1 DEF Alone, Up
    <3>3. PodFollowsPhase'
      BY <2>a, <3>1 DEF PodFollowsPhase
    <3>4. \A w \in Controllers : Informed(w)'
      BY <2>a, <3>1 DEF Informed, PodFollowsPhase, Up
    <3> QED BY <3>2, <3>3, <3>4 DEF PodInv
  <2>7. CASE PodLost
    <3>1. podLosses' = podLosses + 1
      BY <2>7 DEF PodLost
    <3> QED BY <2>0, <3>1
  <2>8. CASE DeleteSession
    <3>1. /\ phase' = "gone" /\ view' = Stale(view) /\ loc' = Stale(loc)
          /\ UNCHANGED <<pod, doomed, pc, podView>>
      BY <2>8 DEF DeleteSession
    <3>2. \A w \in Controllers : view'[w].phase = view[w].phase /\ loc'[w].fresh = FALSE
      BY <2>0, <3>1, StaleViews, StaleWork
    <3>3. Alone'
      BY <2>a, <3>1 DEF Alone, Up
    <3>4. PodFollowsPhase'
      BY <2>a, <3>1 DEF PodFollowsPhase, Late, Started
    <3>5. \A w \in Controllers : Informed(w)'
      BY <2>a, <3>1, <3>2 DEF Informed, Up, Started
    <3> QED BY <3>3, <3>4, <3>5 DEF PodInv
  <2> QED
    BY <1>b, <2>1, <2>2, <2>3, <2>4, <2>5, <2>6, <2>7, <2>8 DEF Next, Cluster
<1> QED
  BY <1>a, <1>b

(* With one operator process at a time and no node failure, a terminated   *)
(* session has no pod but one that is shutting down, whatever the caches,  *)
(* conflicts and restarts (reconciler.go 90-95, 153-168).                  *)
THEOREM NoOrphanPod == Spec => []TerminatedHasNoPod
<1>1. Init => PodInv
  BY PodInit
<1>2. IInv /\ PodInv /\ [Next]_vars => PodInv'
  BY PodStep
<1>3. PodInv => TerminatedHasNoPod
  BY DEF PodInv, PodFollowsPhase, TerminatedHasNoPod
<1> QED
  BY <1>1, <1>2, <1>3, Invariance, PTL DEF Spec

=============================================================================
