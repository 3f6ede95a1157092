----------------------------- MODULE SessionEnd -----------------------------
(***************************************************************************)
(* The end of a session and its resumption: the stop hook                  *)
(* (internal/stophook/hook.go), the manifest it stores                     *)
(* (sessionstore.SaveManifest) and the resumer (internal/resume), which    *)
(* takes its pod from the pool of module WarmPool.                         *)
(*                                                                         *)
(* A session may be stopped for two reasons at once, so hooks overlap.  A  *)
(* push that reports an error may have reached the remote, and a save that *)
(* does may have reached the table.                                        *)
(***************************************************************************)
EXTENDS WarmPool

CONSTANTS
  Work,         \* Input.Repos: the repositories with work, in order
  Safe,         \* the parts of an origin that sanitize keeps
  Dash,         \* the "-" it writes for the others
  Hooks,        \* calls of Hook.Run for the session
  WithDiffs,    \* the Resume calls whose Resumer has a DiffFetcher
  NoManifest    \* the session has no manifest yet

(* A repository has an origin, a sequence of parts, and a branch. *)
Repos == {Work[i] : i \in DOMAIN Work}

ASSUME SessionEndAssumption ==
  /\ Work \in Seq(Repos)
  /\ \A i, j \in DOMAIN Work : Work[i] = Work[j] => i = j
  /\ \A r \in Repos : r = [origin |-> r.origin, branch |-> r.branch]
  /\ None \notin Repos
  /\ WithDiffs \subseteq Acquirers

sanitize(origin) ==
  [i \in DOMAIN origin |-> IF origin[i] \in Safe THEN origin[i] ELSE Dash]

(* The key of a repository's diff, within the session. *)
BlobKey(r) == sanitize(r.origin)

VARIABLES
  hpc,       \* per hook: where it is
  graceOver, \* per hook: cctx has ended
  late,      \* per hook: the upload is the one of the grace-exhausted branch
  git,       \* per hook: Manifest.GitState so far
  remote,    \* repositories whose work is on the git remote
  blobs,     \* the repository whose diff is stored under each blob key
  manifest,  \* the manifest of the session's item
  rs,        \* per Resume: where it is
  view,      \* per Resume: the manifest it read
  warned,    \* per Resume: repositories Plan.Warnings speaks of
  recovery   \* per Resume: the repository whose diff is Plan.RecoveryDiff

hookVars == <<hpc, graceOver, late, git, remote, blobs, manifest>>

resumeVars == <<rs, view, warned, recovery>>

endVars == <<poolVars, hookVars, resumeVars>>

GitState == [repo : Repos, uncommitted : BOOLEAN]

Manifests == {m \in Seq(GitState) : Len(m) <= Len(Work)}

Keys == {BlobKey(r) : r \in Repos}

EndTypeOK ==
  /\ PoolTypeOK
  /\ hpc \in [Hooks -> {"idle", "push", "upload", "emit", "done", "failed"}]
  /\ graceOver \in [Hooks -> BOOLEAN] /\ late \in [Hooks -> BOOLEAN]
  /\ git \in [Hooks -> Manifests]
  /\ remote \in SUBSET Repos
  /\ blobs \in [Keys -> Repos \cup {None}]
  /\ manifest \in Manifests \cup {NoManifest}
  /\ rs \in [Acquirers -> {"idle", "verify", "acquire", "done", "failed"}]
  /\ view \in [Acquirers -> Manifests]
  /\ warned \in [Acquirers -> SUBSET Repos]
  /\ recovery \in [Acquirers -> Repos \cup {None}]

EndInit ==
  /\ PoolInit
  /\ hpc = [h \in Hooks |-> "idle"]
  /\ graceOver = [h \in Hooks |-> FALSE] /\ late = [h \in Hooks |-> FALSE]
  /\ git = [h \in Hooks |-> <<>>]
  /\ remote = {}
  /\ blobs = [k \in Keys |-> None]
  /\ manifest = NoManifest
  /\ rs = [c \in Acquirers |-> "idle"]
  /\ view = [c \in Acquirers |-> <<>>]
  /\ warned = [c \in Acquirers |-> {}]
  /\ recovery = [c \in Acquirers |-> None]

-----------------------------------------------------------------------------
(* Hook.Run. *)

(* Where the loop over the repositories goes after n of them. *)
After(n) == IF n = Len(Work) THEN "emit" ELSE "push"

(* The repository the loop is at. *)
Current(h) == Work[Len(git[h]) + 1]

HookStart(h) ==
  /\ hpc[h] = "idle"
  /\ hpc' = [hpc EXCEPT ![h] = After(0)]
  /\ UNCHANGED <<graceOver, late, git, remote, blobs, manifest, poolVars, resumeVars>>

GraceEnds(h) ==
  /\ hpc[h] \in {"push", "upload"}
  /\ ~graceOver[h]
  /\ graceOver' = [graceOver EXCEPT ![h] = TRUE]
  /\ UNCHANGED <<hpc, late, git, remote, blobs, manifest, poolVars, resumeVars>>

Record(h, uncommitted) ==
  git' = [git EXCEPT ![h] = Append(@, [repo |-> Current(h), uncommitted |-> uncommitted])]

CommitAndPush(h) ==
  /\ hpc[h] = "push"
  /\ remote' = remote \cup {Current(h)}
  /\ Record(h, FALSE)
  /\ hpc' = [hpc EXCEPT ![h] = After(Len(git[h]) + 1)]
  /\ UNCHANGED <<graceOver, late, blobs, manifest, poolVars, resumeVars>>

CommitAndPushError_Records(h) ==
  /\ hpc[h] = "push"
  /\ UNCHANGED remote
  /\ Record(h, FALSE)
  /\ hpc' = [hpc EXCEPT ![h] = After(Len(git[h]) + 1)]
  /\ UNCHANGED <<graceOver, late, blobs, manifest, poolVars, resumeVars>>

(* A deadline error may also come from the pusher's own timeouts, before   *)
(* the grace period is over.                                               *)
CommitAndPushError(h) ==
  /\ hpc[h] = "push"
  /\ remote' \in {remote, remote \cup {Current(h)}}
  /\ \E deadline \in BOOLEAN : late' = [late EXCEPT ![h] = deadline \/ graceOver[h]]
  /\ hpc' = [hpc EXCEPT ![h] = "upload"]
  /\ UNCHANGED <<graceOver, git, blobs, manifest, poolVars, resumeVars>>

(* The grace-exhausted branch emits at once; the other one continues. *)
AfterUpload(h) == IF late[h] THEN "emit" ELSE After(Len(git[h]) + 1)

Upload(h) ==
  /\ hpc[h] = "upload"
  /\ blobs' = [blobs EXCEPT ![BlobKey(Current(h))] = Current(h)]
  /\ Record(h, TRUE)
  /\ hpc' = [hpc EXCEPT ![h] = AfterUpload(h)]
  /\ UNCHANGED <<graceOver, late, remote, manifest, poolVars, resumeVars>>

(* Run returns the error without a manifest. *)
UploadError(h) ==
  /\ hpc[h] = "upload"
  /\ hpc' = [hpc EXCEPT ![h] = "failed"]
  /\ UNCHANGED <<graceOver, late, git, remote, blobs, manifest, poolVars, resumeVars>>

SaveManifest(h) ==
  /\ hpc[h] = "emit"
  /\ manifest' = git[h]
  /\ hpc' = [hpc EXCEPT ![h] = "done"]
  /\ UNCHANGED <<graceOver, late, git, remote, blobs, poolVars, resumeVars>>

SaveManifestError(h) ==
  /\ hpc[h] = "emit"
  /\ manifest' \in {manifest, git[h]}
  /\ hpc' = [hpc EXCEPT ![h] = "failed"]
  /\ UNCHANGED <<graceOver, late, git, remote, blobs, poolVars, resumeVars>>

HookStep(h) ==
  \/ HookStart(h) \/ GraceEnds(h) \/ CommitAndPush(h) \/ CommitAndPushError(h)
  \/ Upload(h) \/ UploadError(h) \/ SaveManifest(h) \/ SaveManifestError(h)

-----------------------------------------------------------------------------
(* Resumer.Resume. *)

(* Entries with a head: pushed; entries with a diff reference: not. *)
Pushed(m) == {m[i].repo : i \in {j \in DOMAIN m : ~m[j].uncommitted}}

Saved(m) == {m[i].repo : i \in {j \in DOMAIN m : m[j].uncommitted}}

ResumeLookup(c) ==
  /\ rs[c] = "idle"
  /\ manifest # NoManifest
  /\ view' = [view EXCEPT ![c] = manifest]
  /\ rs' = [rs EXCEPT ![c] = "verify"]
  /\ UNCHANGED <<warned, recovery, poolVars, hookVars>>

(* ErrNoManifest, or the lookup fails. *)
ResumeRefused(c) ==
  /\ rs[c] = "idle"
  /\ rs' = [rs EXCEPT ![c] = "failed"]
  /\ UNCHANGED <<view, warned, recovery, poolVars, hookVars>>

(* A pushed branch that is merged, missing or cannot be checked gives a    *)
(* warning; none of it ends the resume.                                    *)
VerifyBranches(c) ==
  /\ rs[c] = "verify"
  /\ \E troubled \in SUBSET Pushed(view[c]) : warned' = [warned EXCEPT ![c] = troubled]
  /\ rs' = [rs EXCEPT ![c] = "acquire"]
  /\ UNCHANGED <<view, recovery, poolVars, hookVars>>

ResumeAcquire(c) ==
  /\ rs[c] = "acquire"
  /\ AcquireStep(c)
  /\ UNCHANGED <<hookVars, resumeVars>>

ResumeForkError(c) ==
  /\ rs[c] = "acquire"
  /\ apc[c] = "error"
  /\ rs' = [rs EXCEPT ![c] = "failed"]
  /\ UNCHANGED <<view, warned, recovery, poolVars, hookVars>>

(* The last of the fetched diffs, in the order of the manifest. *)
LastOf(m, fetched) ==
  LET at == {i \in DOMAIN m : m[i].repo \in fetched}
  IN  IF at = {} THEN None
      ELSE blobs[BlobKey(m[CHOOSE i \in at : \A j \in at : j <= i].repo)]

(* The repositories whose diffs the resume fetches; an upload's reference  *)
(* is never empty.                                                         *)
Fetches(c) == IF c \in WithDiffs THEN Saved(view[c]) ELSE {}

Hydrate_SkipsErrors(c) ==
  /\ rs[c] = "acquire"
  /\ apc[c] = "ok"
  /\ \E fetched \in SUBSET Fetches(c) :
        /\ recovery' = [recovery EXCEPT ![c] = LastOf(view[c], fetched)]
        /\ warned' = [warned EXCEPT ![c] = @ \cup fetched]
  /\ rs' = [rs EXCEPT ![c] = "done"]
  /\ UNCHANGED <<view, poolVars, hookVars>>

(* Every diff gives a warning, fetched or not, and each fetched one        *)
(* replaces the one before it; without a DiffFetcher there are no diffs    *)
(* and no warnings.                                                        *)
Hydrate(c) ==
  /\ rs[c] = "acquire"
  /\ apc[c] = "ok"
  /\ \E fetched \in SUBSET Fetches(c) :
        /\ recovery' = [recovery EXCEPT ![c] = LastOf(view[c], fetched)]
        /\ warned' = [warned EXCEPT ![c] = @ \cup Fetches(c)]
  /\ rs' = [rs EXCEPT ![c] = "done"]
  /\ UNCHANGED <<view, poolVars, hookVars>>

ResumeStep(c) ==
  \/ ResumeLookup(c) \/ ResumeRefused(c) \/ VerifyBranches(c) \/ ResumeAcquire(c)
  \/ ResumeForkError(c) \/ Hydrate(c)

PoolStep == PoolKeeping /\ UNCHANGED <<hookVars, resumeVars>>

EndNext ==
  \/ \E h \in Hooks : HookStep(h)
  \/ \E c \in Acquirers : ResumeStep(c)
  \/ PoolStep

EndSpec == EndInit /\ [][EndNext]_endVars

-----------------------------------------------------------------------------
(* Properties. *)

(* The repositories whose diffs have the blob key of r's. *)
SameKey(r) == {q \in Repos : BlobKey(q) = BlobKey(r)}

(* What a manifest calls pushed is on the remote, what it calls            *)
(* uncommitted has a diff in the blob store under its key, and it is a     *)
(* prefix of the session's work.                                           *)
Backed(m) ==
  /\ Pushed(m) \subseteq remote
  /\ \A r \in Saved(m) : blobs[BlobKey(r)] \in SameKey(r)
  /\ \A i \in DOMAIN m : m[i].repo = Work[i]

(* A prefix stops short only at a repository that could not be pushed. *)
Complete(m) == Len(m) < Len(Work) => m # <<>> /\ m[Len(m)].uncommitted

(* The stored manifest can be resumed from as far as it goes: what it      *)
(* calls pushed was pushed, every diff reference in it leads to a diff, of *)
(* that repository or of one that sanitize gives the same key, and it      *)
(* stops short only at a repository it calls uncommitted, whichever of two *)
(* hooks wrote it and whatever calls failed (hook.go 109-139, 155-165).    *)
ManifestRecoverable == manifest # NoManifest => Backed(manifest) /\ Complete(manifest)

(* A plan hides none of the uncommitted work its manifest names if the     *)
(* Resumer has a DiffFetcher: each such repository has a warning, whether  *)
(* its diff could be fetched or not, and although a second hook may        *)
(* replace the manifest and the diffs meanwhile.  A diff in the plan is    *)
(* one stored for such a repository or for one with its key, and without a *)
(* DiffFetcher there is none (resume.go 151-172).                          *)
PlanIsSound ==
  \A c \in Acquirers : rs[c] = "done" =>
    /\ c \in WithDiffs => Saved(view[c]) \subseteq warned[c]
    /\ recovery[c] # None =>
         c \in WithDiffs /\ \E r \in Saved(view[c]) : recovery[c] \in SameKey(r)

(* Whatever ended the session, a stored manifest means that its work is    *)
(* preserved: every repository is on the remote or has its diff stored     *)
(* (specs/16-deployment-sessions.md 69-70).  It is not: the branch of the  *)
(* exhausted grace period returns at the first repository that could not   *)
(* be pushed and leaves the later ones (hook.go 119-128).                  *)
WorkPreserved ==
  manifest # NoManifest => \A r \in Repos : r \in remote \/ blobs[BlobKey(r)] = r
=============================================================================
