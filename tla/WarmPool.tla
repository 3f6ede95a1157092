------------------------------ MODULE WarmPool ------------------------------
(***************************************************************************)
(* The pool of pre-forked pods of one environment key                      *)
(* (internal/warmpool/pool.go); keys share only the mutex.  Whatever the   *)
(* code does under the mutex is one step; every call of the Forker is made *)
(* without it and is a step of its own.                                    *)
(***************************************************************************)
EXTENDS Naturals, Sequences, FiniteSets

CONSTANTS
  Pods,          \* pods the cluster can fork, each once
  Acquirers,     \* calls of Acquire, one for a session each
  Replenishers,  \* callers of Replenish
  Targets,       \* targets they pass
  MaxPerKey,     \* Pool.maxPerKey
  IdleMaxAge,    \* Pool.idleMaxAge
  MaxTime,       \* bound on the clock
  None           \* no pod, no session

ASSUME WarmPoolAssumption ==
  /\ MaxPerKey \in Nat /\ Targets \subseteq Nat
  /\ IdleMaxAge \in Nat /\ MaxTime \in Nat
  /\ None \notin Pods /\ None \notin Acquirers
  /\ IsFiniteSet(Replenishers)

VARIABLES
  now,     \* the clock
  pool,    \* Pool.pools[environmentKey]
  pods,    \* what the cluster has: the state of each pod
  owner,   \* the session a pod was promoted to
  apc,     \* per Acquire: where it is
  apod,    \* per Acquire: the pod it holds
  rpc,     \* per Replenish: where it is
  left,    \* per Replenish: target - current - forked
  rpod,    \* per Replenish: the pod it has forked and not pooled yet
  doomed   \* pods ScaleDown has removed and not destroyed yet

acquireVars == <<apc, apod>>

replenishVars == <<rpc, left, rpod>>

poolVars == <<now, pool, pods, owner, acquireVars, replenishVars, doomed>>

Pooled == [pod : Pods, forkedAt : 0..MaxTime]

PoolTypeOK ==
  /\ now \in 0..MaxTime
  /\ pool \in Seq(Pooled)
  /\ pods \in [Pods -> {"none", "forked", "promoted", "destroyed"}]
  /\ owner \in [Pods -> Acquirers \cup {None}]
  /\ apc \in [Acquirers -> {"idle", "fork", "promote", "ok", "error"}]
  /\ apod \in [Acquirers -> Pods \cup {None}]
  /\ rpc \in [Replenishers -> {"idle", "fork", "append"}]
  /\ left \in [Replenishers -> 0..MaxPerKey]
  /\ rpod \in [Replenishers -> Pods \cup {None}]
  /\ doomed \in Seq(Pods)

PoolInit ==
  /\ now = 0
  /\ pool = <<>>
  /\ pods = [p \in Pods |-> "none"]
  /\ owner = [p \in Pods |-> None]
  /\ apc = [a \in Acquirers |-> "idle"] /\ apod = [a \in Acquirers |-> None]
  /\ rpc = [r \in Replenishers |-> "idle"] /\ left = [r \in Replenishers |-> 0]
  /\ rpod = [r \in Replenishers |-> None]
  /\ doomed = <<>>

Tick ==
  /\ now < MaxTime
  /\ now' = now + 1
  /\ UNCHANGED <<pool, pods, owner, acquireVars, replenishVars, doomed>>

(* Forker.Fork: a new pod. *)
Fork(p) ==
  /\ pods[p] = "none"
  /\ pods' = [pods EXCEPT ![p] = "forked"]

-----------------------------------------------------------------------------
(* Acquire. *)

AcquireWarm(a) ==
  /\ apc[a] = "idle"
  /\ pool # <<>>
  /\ apod' = [apod EXCEPT ![a] = Head(pool).pod]
  /\ pool' = Tail(pool)
  /\ apc' = [apc EXCEPT ![a] = "promote"]
  /\ UNCHANGED <<now, pods, owner, replenishVars, doomed>>

AcquireMiss(a) ==
  /\ apc[a] = "idle"
  /\ pool = <<>>
  /\ apc' = [apc EXCEPT ![a] = "fork"]
  /\ UNCHANGED <<now, pool, pods, owner, apod, replenishVars, doomed>>

AcquireCold(a) ==
  /\ apc[a] = "fork"
  /\ \E p \in Pods : Fork(p) /\ apod' = [apod EXCEPT ![a] = p]
  /\ apc' = [apc EXCEPT ![a] = "promote"]
  /\ UNCHANGED <<now, pool, owner, replenishVars, doomed>>

Promote(a) ==
  /\ apc[a] = "promote"
  /\ pods' = [pods EXCEPT ![apod[a]] = "promoted"]
  /\ owner' = [owner EXCEPT ![apod[a]] = a]
  /\ apc' = [apc EXCEPT ![a] = "ok"]
  /\ UNCHANGED <<now, pool, apod, replenishVars, doomed>>

(* Fork or Promote fails.  A pod that was popped or forked by then is in   *)
(* nobody's hands any more.                                                *)
AcquireError(a) ==
  /\ apc[a] \in {"fork", "promote"}
  /\ apc' = [apc EXCEPT ![a] = "error"]
  /\ apod' = [apod EXCEPT ![a] = None]
  /\ UNCHANGED <<now, pool, pods, owner, replenishVars, doomed>>

AcquireStep(a) ==
  \/ AcquireWarm(a) \/ AcquireMiss(a) \/ AcquireCold(a) \/ Promote(a) \/ AcquireError(a)

-----------------------------------------------------------------------------
(* Replenish and ScaleDown. *)

Capped(target) == IF target > MaxPerKey THEN MaxPerKey ELSE target

(* The size is read under the mutex, which is then released. *)
Replenish(r, target) ==
  /\ rpc[r] = "idle"
  /\ Len(pool) < Capped(target)
  /\ left' = [left EXCEPT ![r] = Capped(target) - Len(pool)]
  /\ rpc' = [rpc EXCEPT ![r] = "fork"]
  /\ UNCHANGED <<now, pool, pods, owner, acquireVars, rpod, doomed>>

ReplenishFork(r) ==
  /\ rpc[r] = "fork"
  /\ \E p \in Pods : Fork(p) /\ rpod' = [rpod EXCEPT ![r] = p]
  /\ rpc' = [rpc EXCEPT ![r] = "append"]
  /\ UNCHANGED <<now, pool, owner, acquireVars, left, doomed>>

ReplenishError(r) ==
  /\ rpc[r] = "fork"
  /\ rpc' = [rpc EXCEPT ![r] = "idle"]
  /\ left' = [left EXCEPT ![r] = 0]
  /\ UNCHANGED <<now, pool, pods, owner, acquireVars, rpod, doomed>>

ReplenishAppend_NoCount(r) ==
  /\ rpc[r] = "append"
  /\ pool' = Append(pool, [pod |-> rpod[r], forkedAt |-> now])
  /\ rpod' = [rpod EXCEPT ![r] = None]
  /\ rpc' = [rpc EXCEPT ![r] = "fork"]
  /\ UNCHANGED <<now, pods, owner, acquireVars, left, doomed>>

ReplenishAppend(r) ==
  /\ rpc[r] = "append"
  /\ pool' = Append(pool, [pod |-> rpod[r], forkedAt |-> now])
  /\ rpod' = [rpod EXCEPT ![r] = None]
  /\ left' = [left EXCEPT ![r] = @ - 1]
  /\ rpc' = [rpc EXCEPT ![r] = IF left[r] = 1 THEN "idle" ELSE "fork"]
  /\ UNCHANGED <<now, pods, owner, acquireVars, doomed>>

Stale(e) == now >= e.forkedAt + IdleMaxAge

(* The sequences of all elements of S, a set of indices, in their order.   *)
InOrder(S) ==
  {f \in [1..Cardinality(S) -> S] : \A i, j \in DOMAIN f : i < j => f[i] < f[j]}

ScaleDown_Keeps ==
  LET stale == {i \in DOMAIN pool : Stale(pool[i])}
  IN  /\ doomed = <<>> /\ stale # {}
      /\ \E f \in InOrder(stale) : doomed' = [i \in DOMAIN f |-> pool[f[i]].pod]
      /\ UNCHANGED <<now, pool, pods, owner, acquireVars, replenishVars>>

ScaleDown ==
  LET stale == {i \in DOMAIN pool : Stale(pool[i])}
  IN  /\ doomed = <<>> /\ stale # {}
      /\ \E f \in InOrder(stale) : doomed' = [i \in DOMAIN f |-> pool[f[i]].pod]
      /\ \E f \in InOrder(DOMAIN pool \ stale) : pool' = [i \in DOMAIN f |-> pool[f[i]]]
      /\ UNCHANGED <<now, pods, owner, acquireVars, replenishVars>>

Destroy ==
  /\ doomed # <<>>
  /\ pods' = [pods EXCEPT ![Head(doomed)] = "destroyed"]
  /\ doomed' = Tail(doomed)
  /\ UNCHANGED <<now, pool, owner, acquireVars, replenishVars>>

(* The first error ends ScaleDown: the remaining pods are forgotten. *)
DestroyError ==
  /\ doomed # <<>>
  /\ doomed' = <<>>
  /\ UNCHANGED <<now, pool, pods, owner, acquireVars, replenishVars>>

PoolKeeping ==
  \/ Tick
  \/ \E r \in Replenishers, t \in Targets : Replenish(r, t)
  \/ \E r \in Replenishers : ReplenishFork(r) \/ ReplenishError(r) \/ ReplenishAppend(r)
  \/ ScaleDown
  \/ Destroy
  \/ DestroyError

-----------------------------------------------------------------------------
(* Properties. *)

(* A pod is in one place at a time: in the pool once, or in the hands of   *)
(* one Acquire, one Replenish or ScaleDown; and what is in the pool has    *)
(* been neither promoted nor destroyed, and what an Acquire returned is    *)
(* promoted to its session and to no other, however these calls overlap    *)
(* (pool.go 57-71, 90-92, 103-115).                                        *)
OnePlace ==
  LET inPool == {pool[i].pod : i \in DOMAIN pool}
      held   == {apod[a] : a \in Acquirers} \ {None}
      fresh  == {rpod[r] : r \in Replenishers} \ {None}
      dying  == {doomed[i] : i \in DOMAIN doomed}
  IN  /\ \A i, j \in DOMAIN pool : pool[i].pod = pool[j].pod => i = j
      /\ \A a, b \in Acquirers : apod[a] = apod[b] => a = b \/ apod[a] = None
      /\ inPool \cap (held \cup fresh \cup dying) = {}
      /\ held \cap (fresh \cup dying) = {}
      /\ \A p \in inPool : pods[p] = "forked"
      /\ \A a \in Acquirers : apc[a] = "ok" =>
           apod[a] # None /\ pods[apod[a]] = "promoted" /\ owner[apod[a]] = a

(* Replenish checks the size before it forks, so concurrent calls can      *)
(* exceed the per-key cap, but never by more than one cap's worth for each *)
(* further caller (pool.go 77-94).                                         *)
PoolBounded == Len(pool) <= MaxPerKey * Cardinality(Replenishers)

=============================================================================
