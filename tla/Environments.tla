----------------------------- MODULE Environments -----------------------------
(***************************************************************************)
(* Environment snapshots (internal/environments/snapshot.go).  Build runs  *)
(* the setup steps of a request in a sandbox and keeps the resulting file  *)
(* system under the request's cache key; Rebuild drops it first; Evict     *)
(* removes expired and surplus snapshots.  Callers run at the same time:   *)
(* the snapshot store locks each of its operations, buildsMu guards the    *)
(* build times and is held during a whole Evict, nothing spans a Build.    *)
(***************************************************************************)
EXTENDS Integers, Sequences, FiniteSets, TLC

CONSTANTS
  Callers,      \* concurrent calls
  Requests,     \* snapshot requests: [image, setup, pins, builder, patch]; the
                \*   builder version and the base patch level as sequences of parts
  TTL,          \* Evict's ttl
  MaxEntries,   \* Evict's maxEntries
  MaxTime,      \* bound of the clock
  MaxRuns       \* bound on sandbox runs

ASSUME EnvironmentsAssumption ==
  /\ TTL \in Nat /\ MaxEntries \in Nat /\ MaxTime \in Nat /\ MaxRuns \in Nat
  /\ IsFiniteSet(Callers) /\ "free" \notin Callers

VARIABLES
  blobs,      \* SnapshotStore.blobs: key -> [run, req]: which run, for what
  lastBuilt,  \* EnvironmentBuilder.lastBuilt: key -> time
  buildsMu,   \* the caller in Evict, or "free"
  now,        \* the clock
  runs,       \* sandbox runs so far
  cpc,        \* caller -> next step
  loc,        \* caller -> [req, snap, dropped] of its call
  victims     \* keys that the Evict in progress has still to delete

snapshotVars == <<blobs, lastBuilt, buildsMu, now, runs, cpc, loc, victims>>

Empty == [k \in {} |-> k]
NoReq == [image |-> "none", setup |-> <<>>, pins |-> {}, builder |-> <<>>, patch |-> <<>>]
NoSnap == [run |-> 0, req |-> NoReq]
Idle == [req |-> NoReq, snap |-> NoSnap, dropped |-> NoSnap]

AnyRequest == Requests \cup {NoReq}
Snapshot == [run : Nat, req : AnyRequest]

SnapshotTypeOK ==
  /\ \A k \in DOMAIN blobs : blobs[k] \in Snapshot
  /\ IsFiniteSet(DOMAIN lastBuilt)
  /\ now \in Nat /\ runs \in Nat
  /\ cpc \in [Callers -> {"idle", "build", "run", "put", "note", "hit", "evict"}]
  /\ loc \in [Callers -> [req : AnyRequest, snap : Snapshot, dropped : Snapshot]]

SnapshotInit ==
  /\ blobs = Empty /\ lastBuilt = Empty
  /\ buildsMu = "free" /\ victims = {}
  /\ now = 0 /\ runs = 0
  /\ cpc = [c \in Callers |-> "idle"]
  /\ loc = [c \in Callers |-> Idle]

-----------------------------------------------------------------------------
(* CacheKey: a digest of the image, the sorted setup steps and the sorted  *)
(* repository pins, each behind a separator byte, and of the builder and   *)
(* the patch level, written one after the other with nothing between them. *)
sortedSteps(r) == SortSeq(r.setup, <)

CacheKey_NoPins(r) ==
  [image |-> r.image, setup |-> sortedSteps(r), version |-> r.builder \o r.patch]

CacheKey(r) ==
  [image |-> r.image, setup |-> sortedSteps(r), pins |-> r.pins,
   version |-> r.builder \o r.patch]

KeyOf(c) == CacheKey(loc[c].req)

(* The store's Get, Put and Delete. *)
Get(key) == IF key \in DOMAIN blobs THEN blobs[key] ELSE NoSnap
Put(f, key, x) == [k \in DOMAIN f \cup {key} |-> IF k = key THEN x ELSE f[k]]
Delete(f, key) == [k \in DOMAIN f \ {key} |-> f[k]]

Enter(c, label) == cpc' = [cpc EXCEPT ![c] = label]

-----------------------------------------------------------------------------
(* Build: the first thing it does is look into the store.  A hit is noted  *)
(* as a use, a miss runs the setup.                                        *)
Lookup(c, call) ==
  LET snap == Get(CacheKey(call.req))
  IN /\ loc' = [loc EXCEPT ![c] = [call EXCEPT !.snap = snap]]
     /\ Enter(c, IF snap = NoSnap THEN "run" ELSE "hit")

Build(c) ==
  /\ cpc[c] = "idle"
  /\ \E r \in Requests : Lookup(c, [Idle EXCEPT !.req = r])
  /\ UNCHANGED <<blobs, lastBuilt, buildsMu, now, runs, victims>>

(* Rebuild: delete, then build as usual. *)
Rebuild_Keeps(c) ==
  /\ cpc[c] = "idle"
  /\ \E r \in Requests :
       loc' = [loc EXCEPT ![c] = [Idle EXCEPT !.req = r, !.dropped = Get(CacheKey(r))]]
  /\ Enter(c, "build")
  /\ UNCHANGED <<blobs, lastBuilt, buildsMu, now, runs, victims>>

Rebuild(c) ==
  /\ cpc[c] = "idle"
  /\ \E r \in Requests :
       /\ loc' = [loc EXCEPT ![c] = [Idle EXCEPT !.req = r, !.dropped = Get(CacheKey(r))]]
       /\ blobs' = Delete(blobs, CacheKey(r))
  /\ Enter(c, "build")
  /\ UNCHANGED <<lastBuilt, buildsMu, now, runs, victims>>

RebuildLookup(c) ==
  /\ cpc[c] = "build"
  /\ Lookup(c, loc[c])
  /\ UNCHANGED <<blobs, lastBuilt, buildsMu, now, runs, victims>>

(* The sandbox runs the steps; then the result is scrubbed for secrets. *)
Run(c) ==
  /\ cpc[c] = "run" /\ runs < MaxRuns
  /\ runs' = runs + 1
  /\ loc' = [loc EXCEPT ![c].snap = [run |-> runs + 1, req |-> loc[c].req]]
  /\ Enter(c, "put")
  /\ UNCHANGED <<blobs, lastBuilt, buildsMu, now, victims>>

(* The run failed or the scrubber found secret material: nothing is kept.  *)
RunFails(c) ==
  /\ cpc[c] = "run"
  /\ Enter(c, "idle") /\ loc' = [loc EXCEPT ![c] = Idle]
  /\ UNCHANGED <<blobs, lastBuilt, buildsMu, now, runs, victims>>

PutSnapshot_Unnoted(c) ==
  /\ cpc[c] = "put"
  /\ blobs' = Put(blobs, KeyOf(c), loc[c].snap)
  /\ Enter(c, "idle") /\ loc' = [loc EXCEPT ![c] = Idle]
  /\ UNCHANGED <<lastBuilt, buildsMu, now, runs, victims>>

PutSnapshot(c) ==
  /\ cpc[c] = "put"
  /\ blobs' = Put(blobs, KeyOf(c), loc[c].snap)
  /\ Enter(c, "note")
  /\ UNCHANGED <<lastBuilt, buildsMu, now, runs, loc, victims>>

(* noteBuild waits for buildsMu; then the call returns its snapshot.       *)
noteBuild(c) ==
  /\ cpc[c] \in {"hit", "note"} /\ buildsMu = "free"
  /\ lastBuilt' = Put(lastBuilt, KeyOf(c), now)
  /\ Enter(c, "idle") /\ loc' = [loc EXCEPT ![c] = Idle]
  /\ UNCHANGED <<blobs, buildsMu, now, runs, victims>>

(* Evict takes buildsMu, picks every expired key and the least recently    *)
(* touched of the others beyond MaxEntries (ties in any order), deletes    *)
(* them one by one while builds use the store, and lets go.                *)
Expired == {k \in DOMAIN lastBuilt : now - lastBuilt[k] >= TTL}

Surplus_OneMore(live) ==
  {S \in SUBSET live :
     /\ Cardinality(S) = IF Cardinality(live) > MaxEntries + 1
                           THEN Cardinality(live) - MaxEntries - 1 ELSE 0
     /\ \A s \in S, k \in live \ S : lastBuilt[s] <= lastBuilt[k]}

Surplus(live) ==
  {S \in SUBSET live :
     /\ Cardinality(S) = IF Cardinality(live) > MaxEntries
                           THEN Cardinality(live) - MaxEntries ELSE 0
     /\ \A s \in S, k \in live \ S : lastBuilt[s] <= lastBuilt[k]}

Evict(c) ==
  /\ cpc[c] = "idle" /\ buildsMu = "free"
  /\ \E S \in Surplus(DOMAIN lastBuilt \ Expired) : victims' = Expired \cup S
  /\ buildsMu' = c
  /\ Enter(c, "evict")
  /\ UNCHANGED <<blobs, lastBuilt, now, runs, loc>>

EvictOne(c) ==
  /\ cpc[c] = "evict"
  /\ \E k \in victims :
       /\ blobs' = Delete(blobs, k)
       /\ lastBuilt' = Delete(lastBuilt, k)
       /\ victims' = victims \ {k}
  /\ UNCHANGED <<buildsMu, now, runs, cpc, loc>>

EvictEnd(c) ==
  /\ cpc[c] = "evict" /\ victims = {}
  /\ buildsMu' = "free"
  /\ Enter(c, "idle")
  /\ UNCHANGED <<blobs, lastBuilt, now, runs, loc, victims>>

Tick ==
  /\ now < MaxTime
  /\ now' = now + 1
  /\ UNCHANGED <<blobs, lastBuilt, buildsMu, runs, cpc, loc, victims>>

SnapshotNext ==
  \/ \E c \in Callers :
       \/ Build(c) \/ Rebuild(c) \/ RebuildLookup(c)
       \/ Run(c) \/ RunFails(c) \/ PutSnapshot(c) \/ noteBuild(c)
       \/ Evict(c) \/ EvictOne(c) \/ EvictEnd(c)
  \/ Tick

SnapshotSpec == SnapshotInit /\ [][SnapshotNext]_snapshotVars

-----------------------------------------------------------------------------
(* Properties. *)

(* No snapshot escapes eviction: whatever is stored is known to Evict, or  *)
(* the call that stored it is about to note it, also when rebuilds and     *)
(* evictions delete between its steps (snapshot.go 145-218).               *)
NothingForgotten ==
  \A k \in DOMAIN blobs :
    k \in DOMAIN lastBuilt \/ \E c \in Callers : cpc[c] = "note" /\ KeyOf(c) = k

Returning(c) == cpc[c] \in {"hit", "note"}

SameInputs(r, q) ==
  /\ r.image = q.image /\ r.pins = q.pins
  /\ sortedSteps(r) = sortedSteps(q)
  /\ r.builder \o r.patch = q.builder \o q.patch

(* A call returns a snapshot that was built for its image, its setup       *)
(* steps and pins, in whatever order the steps were listed, and for a      *)
(* builder and patch level that read like its own when they are written    *)
(* one after the other (snapshot.go 29-55, 143-150); and a Rebuild never   *)
(* returns the one that it was asked to replace, although builds and       *)
(* evictions of the key go on beside it (snapshot.go 174-178).             *)
ServedAsAsked ==
  \A c \in Callers : Returning(c) =>
    /\ SameInputs(loc[c].req, loc[c].snap.req)
    /\ loc[c].snap # loc[c].dropped

(* What an eviction must have done by its end. *)
EvictedEnough ==
  \A c \in Callers : EvictEnd(c) =>
    Cardinality(DOMAIN blobs) <= MaxEntries + Cardinality({d \in Callers : cpc[d] = "note"})

(* When an eviction ends, at most MaxEntries snapshots are left besides    *)
(* those of calls that have not returned yet (snapshot.go 189-218).        *)
EvictionBounds == [][EvictedEnough]_snapshotVars

=============================================================================
