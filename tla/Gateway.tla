------------------------------- MODULE Gateway -------------------------------
(***************************************************************************)
(* The tool gateway and what it decides on: consent requests and grants    *)
(* (internal/grants/store.go), the per-user scope cache (cache.go), the    *)
(* policy engine (internal/policy) and the call pipeline                   *)
(* (internal/toolgw).  One user, one run token, one gateway process.       *)
(*                                                                         *)
(* Postgres transactions are one step where they are one statement and two *)
(* where they read under FOR UPDATE first.  A cache load is three steps:   *)
(* the miss, the query and the store under the lock.  Time is in ticks;    *)
(* a query's answer is stored at most MaxLoad ticks later.                 *)
(***************************************************************************)
EXTENDS Naturals

CONSTANTS
  Scopes,      \* scopes a tool may require
  NoScope,     \* the empty RequiredScope
  Names,       \* tool names a caller may send
  ScopeOf,     \* RequiredScope of the registered tools
  Consents,    \* consent requests that may be opened
  ScopeAsked,  \* the scope each consent request is for
  Deciders,    \* concurrent calls of DecideConsent
  Calls,       \* calls of Gateway.Call
  TTL,         \* ScopeCache.ttl
  MaxLoad,     \* bound on the time between a query and the store of its answer
  MaxTime,     \* bound on the clock
  NoEntry      \* no cache entry

Tools == DOMAIN ScopeOf

ASSUME GatewayAssumption ==
  /\ Tools \subseteq Names
  /\ \A t \in Tools : ScopeOf[t] \in Scopes \cup {NoScope}
  /\ ScopeAsked \in [Consents -> Scopes]
  /\ NoScope \notin Scopes
  /\ TTL \in Nat \ {0} /\ MaxLoad \in Nat /\ MaxTime \in Nat

VARIABLES
  now,       \* the clock
  status,    \* status of each consent request
  grants,    \* rows of grants: the request and the decider behind each
  revoked,   \* the rows whose revoked_at is set
  locks,     \* decider -> the consent request it has locked and found pending
  toDrop,    \* rows revoked by callers that have yet to call Invalidate
  cache,     \* the user's entry in ScopeCache.entries
  allowed,   \* tools the org patterns let through
  live,      \* Gateway.live is set
  claims,    \* Claims.Grants of the run token
  tokenOK,   \* the run token still validates
  pc, tool, scopes, readAt,  \* per call: where it is, tool, consents, time of its query
  fallback,  \* per call: it decides on the token's own grants
  endedAt,   \* history: when each scope was last revoked
  gotAt,     \* history: when each call had its consents
  execs      \* history: executions

grantVars == <<status, grants, revoked, locks, toDrop, endedAt>>

callVars == <<pc, tool, scopes, readAt, fallback, gotAt>>

confVars == <<allowed, live, claims, tokenOK>>

vars == <<now, grantVars, cache, confVars, callVars, execs>>

Row == [req : Consents, by : Deciders]

Entry == [scopes : SUBSET Scopes, loadedAt : 0..MaxTime]

NoRequest == "none"

TypeOK ==
  /\ now \in 0..MaxTime
  /\ status \in [Consents -> {"none", "pending", "approved", "denied"}]
  /\ grants \in SUBSET Row
  /\ revoked \in SUBSET grants
  /\ locks \in [Deciders -> Consents \cup {NoRequest}]
  /\ toDrop \in SUBSET revoked
  /\ cache \in Entry \cup {NoEntry}
  /\ allowed \in SUBSET Tools
  /\ live \in BOOLEAN /\ tokenOK \in BOOLEAN
  /\ claims \in SUBSET Scopes
  /\ pc \in [Calls -> {"idle", "scopes", "load", "store", "policy", "wait", "exec", "done"}]
  /\ tool \in [Calls -> Names]
  /\ scopes \in [Calls -> SUBSET Scopes]
  /\ readAt \in [Calls -> 0..MaxTime]
  /\ gotAt \in [Calls -> 0..MaxTime]
  /\ fallback \in [Calls -> BOOLEAN]
  /\ endedAt \in [Scopes -> 0..MaxTime]
  /\ execs \in SUBSET [tool : Tools, live : BOOLEAN]

-----------------------------------------------------------------------------

Init ==
  /\ now = 0
  /\ status = [q \in Consents |-> "none"]
  /\ grants = {} /\ revoked = {} /\ toDrop = {}
  /\ locks = [d \in Deciders |-> NoRequest]
  /\ cache = NoEntry
  /\ allowed = {}                            \* NewEngine: deny all
  /\ live \in BOOLEAN
  /\ claims \in SUBSET Scopes
  /\ tokenOK = TRUE
  /\ pc = [c \in Calls |-> "idle"]
  /\ tool \in [Calls -> Names]
  /\ scopes = [c \in Calls |-> {}]
  /\ readAt = [c \in Calls |-> 0] /\ gotAt = [c \in Calls |-> 0]
  /\ fallback = [c \in Calls |-> FALSE]
  /\ endedAt = [s \in Scopes |-> 0]
  /\ execs = {}

Tick ==
  /\ now < MaxTime
  /\ \A c \in Calls : pc[c] = "store" => now < readAt[c] + MaxLoad
  /\ now' = now + 1
  /\ UNCHANGED <<grantVars, cache, confVars, callVars, execs>>

-----------------------------------------------------------------------------
(* Consent and grants. *)

ScopeOfRow(g) == ScopeAsked[g.req]

ActiveScopes_Revoked == {ScopeOfRow(g) : g \in grants}

(* Store.ActiveScopes: the query.  Nothing ever sets expiry. *)
ActiveScopes == {ScopeOfRow(g) : g \in grants \ revoked}

RequestConsent(q) ==
  /\ status[q] = "none"
  /\ status' = [status EXCEPT ![q] = "pending"]
  /\ UNCHANGED <<now, grants, revoked, locks, toDrop, endedAt, cache, confVars, callVars,
                 execs>>

Lockable_NoForUpdate(q) == status[q] = "pending"

(* SELECT ... FOR UPDATE waits for the row; any status but pending ends    *)
(* the call with ErrAlreadyDecided.                                        *)
Lockable(q) == status[q] = "pending" /\ \A d \in Deciders : locks[d] # q

DecideConsentRead(d, q) ==
  /\ locks[d] = NoRequest
  /\ Lockable(q)
  /\ locks' = [locks EXCEPT ![d] = q]
  /\ UNCHANGED <<now, status, grants, revoked, toDrop, endedAt, cache, confVars, callVars,
                 execs>>

DecideConsentWrite_AlwaysGrants(d, approved) ==
  /\ locks[d] # NoRequest
  /\ status' = [status EXCEPT ![locks[d]] = IF approved THEN "approved" ELSE "denied"]
  /\ grants' = grants \cup {[req |-> locks[d], by |-> d]}
  /\ locks' = [locks EXCEPT ![d] = NoRequest]
  /\ UNCHANGED <<now, revoked, toDrop, endedAt, cache, confVars, callVars, execs>>

(* The decision, its audit events and, if approved, the grant commit       *)
(* together.                                                               *)
DecideConsentWrite(d, approved) ==
  /\ locks[d] # NoRequest
  /\ status' = [status EXCEPT ![locks[d]] = IF approved THEN "approved" ELSE "denied"]
  /\ grants' = IF approved THEN grants \cup {[req |-> locks[d], by |-> d]} ELSE grants
  /\ locks' = [locks EXCEPT ![d] = NoRequest]
  /\ UNCHANGED <<now, revoked, toDrop, endedAt, cache, confVars, callVars, execs>>

(* Any statement fails or the connection is lost: the rollback frees the row. *)
DecideConsentRollback(d) ==
  /\ locks[d] # NoRequest
  /\ locks' = [locks EXCEPT ![d] = NoRequest]
  /\ UNCHANGED <<now, status, grants, revoked, toDrop, endedAt, cache, confVars, callVars,
                 execs>>

Revoke(g) ==
  /\ g \in grants \ revoked
  /\ revoked' = revoked \cup {g}
  /\ toDrop' = toDrop \cup {g}
  /\ endedAt' = [endedAt EXCEPT ![ScopeOfRow(g)] = now]
  /\ UNCHANGED <<now, status, grants, locks, cache, confVars, callVars, execs>>

(* The caller of Revoke goes on to call Invalidate. *)
Invalidate(g) ==
  /\ g \in toDrop
  /\ toDrop' = toDrop \ {g}
  /\ cache' = NoEntry
  /\ UNCHANGED <<now, status, grants, revoked, locks, endedAt, confVars, callVars, execs>>

(* It dies in between. *)
InvalidateLost(g) ==
  /\ g \in toDrop
  /\ toDrop' = toDrop \ {g}
  /\ UNCHANGED <<now, status, grants, revoked, locks, endedAt, cache, confVars, callVars,
                 execs>>

SetOrgPatterns(S) ==
  /\ allowed' = S
  /\ allowed' # allowed
  /\ UNCHANGED <<now, grantVars, cache, live, claims, tokenOK, callVars, execs>>

(* The token expires or is revoked. *)
TokenEnds ==
  /\ tokenOK
  /\ tokenOK' = FALSE
  /\ UNCHANGED <<now, grantVars, cache, allowed, live, claims, callVars, execs>>

-----------------------------------------------------------------------------
(* Gateway.Call. *)

Goto(c, label) == pc' = [pc EXCEPT ![c] = label]

Refused(c) ==
  /\ Goto(c, "done")
  /\ UNCHANGED <<now, grantVars, cache, confVars, tool, scopes, readAt, fallback, gotAt, execs>>

(* Steps 1 and 2: the token, then the registry. *)
CallStart(c) ==
  /\ pc[c] = "idle"
  /\ tokenOK /\ tool[c] \in Tools
  /\ Goto(c, "scopes")
  /\ UNCHANGED <<now, grantVars, cache, confVars, tool, scopes, readAt, fallback, gotAt, execs>>

CallRejected(c) ==
  /\ pc[c] = "idle"
  /\ ~tokenOK \/ tool[c] \notin Tools
  /\ Refused(c)

(* The call has its consents and goes on to the policy engine. *)
Consented(c, S, own) ==
  /\ scopes' = [scopes EXCEPT ![c] = S]
  /\ fallback' = [fallback EXCEPT ![c] = own]
  /\ gotAt' = [gotAt EXCEPT ![c] = now]
  /\ Goto(c, "policy")

(* Without live scopes the token's grants are the consents. *)
StaticScopes(c) ==
  /\ pc[c] = "scopes"
  /\ ~live
  /\ Consented(c, claims, TRUE)
  /\ UNCHANGED <<now, grantVars, cache, confVars, tool, readAt, execs>>

Fresh_Inclusive(e) == e # NoEntry /\ now <= e.loadedAt + TTL

(* time.Since(loadedAt) < ttl *)
Fresh(e) == e # NoEntry /\ now < e.loadedAt + TTL

CacheHit(c) ==
  /\ pc[c] = "scopes"
  /\ live /\ Fresh(cache)
  /\ Consented(c, cache.scopes, FALSE)
  /\ UNCHANGED <<now, grantVars, cache, confVars, tool, readAt, execs>>

CacheMiss(c) ==
  /\ pc[c] = "scopes"
  /\ live /\ ~Fresh(cache)
  /\ Goto(c, "load")
  /\ UNCHANGED <<now, grantVars, cache, confVars, tool, scopes, readAt, fallback, gotAt, execs>>

Load(c) ==
  /\ pc[c] = "load"
  /\ scopes' = [scopes EXCEPT ![c] = ActiveScopes]
  /\ readAt' = [readAt EXCEPT ![c] = now]
  /\ Goto(c, "store")
  /\ UNCHANGED <<now, grantVars, cache, confVars, tool, fallback, gotAt, execs>>

(* The query fails: the call falls back to the token's grants. *)
LoadError(c) ==
  /\ pc[c] = "load"
  /\ Consented(c, claims, TRUE)
  /\ UNCHANGED <<now, grantVars, cache, confVars, tool, readAt, execs>>

(* cache.go takes loadedAt after the query has answered, not before it. *)
StoreEntry(c) ==
  /\ pc[c] = "store"
  /\ cache' = [scopes |-> scopes[c], loadedAt |-> now]
  /\ Consented(c, scopes[c], FALSE)
  /\ UNCHANGED <<now, grantVars, confVars, tool, readAt, execs>>

Can_NoConsent(t, S) ==
  t \in allowed /\ (ScopeOf[t] = NoScope \/ ScopeOf[t] \in claims)

(* Engine.Can: org pattern, then consent, then the agent's own scopes. *)
Can(t, S) ==
  /\ t \in allowed
  /\ ScopeOf[t] = NoScope \/ (ScopeOf[t] \in S /\ ScopeOf[t] \in claims)

PolicyAllows(c) ==
  /\ pc[c] = "policy"
  /\ Can(tool[c], scopes[c])
  /\ Goto(c, "wait")
  /\ UNCHANGED <<now, grantVars, cache, confVars, tool, scopes, readAt, fallback, gotAt, execs>>

PolicyDenies(c) ==
  /\ pc[c] = "policy"
  /\ ~Can(tool[c], scopes[c])
  /\ Refused(c)

(* The evaluation of the policy itself fails, as when the context ends. *)
PolicyError(c) ==
  /\ pc[c] = "policy"
  /\ Refused(c)

(* The limiter may hold the call back for as long as its context lives. *)
LimiterPasses(c) ==
  /\ pc[c] = "wait"
  /\ Goto(c, "exec")
  /\ UNCHANGED <<now, grantVars, cache, confVars, tool, scopes, readAt, fallback, gotAt, execs>>

LimiterError(c) ==
  /\ pc[c] = "wait"
  /\ Refused(c)

(* The executor runs; size cap and filters only touch its output. *)
Exec(c) ==
  /\ pc[c] = "exec"
  /\ execs' = execs \cup {[tool |-> tool[c], live |-> ~fallback[c]]}
  /\ Goto(c, "done")
  /\ UNCHANGED <<now, grantVars, cache, confVars, tool, scopes, readAt, fallback, gotAt>>

CallStep(c) ==
  \/ CallStart(c) \/ CallRejected(c) \/ StaticScopes(c) \/ CacheHit(c) \/ CacheMiss(c)
  \/ Load(c) \/ LoadError(c) \/ StoreEntry(c) \/ PolicyAllows(c) \/ PolicyDenies(c)
  \/ PolicyError(c) \/ LimiterPasses(c) \/ LimiterError(c) \/ Exec(c)

Next ==
  \/ Tick
  \/ \E q \in Consents : RequestConsent(q)
  \/ \E d \in Deciders, q \in Consents : DecideConsentRead(d, q)
  \/ \E d \in Deciders, approved \in BOOLEAN : DecideConsentWrite(d, approved)
  \/ \E d \in Deciders : DecideConsentRollback(d)
  \/ \E g \in grants : Revoke(g)
  \/ \E g \in toDrop : Invalidate(g)
  \/ \E g \in toDrop : InvalidateLost(g)
  \/ \E S \in SUBSET Tools : SetOrgPatterns(S)
  \/ TokenEnds
  \/ \E c \in Calls : CallStep(c)

Spec == Init /\ [][Next]_vars

-----------------------------------------------------------------------------
(* Properties. *)

(* A consent request is decided once, whoever decides it concurrently: it  *)
(* has a grant exactly when it is approved, and never two (store.go 78-99, *)
(* 117-134).                                                               *)
OneDecision ==
  \A q \in Consents :
     LET rows == {g \in grants : g.req = q}
     IN  /\ (rows # {}) <=> (status[q] = "approved")
         /\ \A g, h \in rows : g = h

(* A tool that requires a scope runs on live consents only if its user     *)
(* approved a request for that scope at some time, and only within what    *)
(* the agent declared, whatever the cache served and however the grants    *)
(* changed meanwhile (toolgw.go 155-182, engine.go 122-140).               *)
ConsentBehindExecution ==
  \A e \in execs : (e.live /\ ScopeOf[e.tool] # NoScope) =>
     /\ ScopeOf[e.tool] \in claims
     /\ \E q \in Consents : ScopeAsked[q] = ScopeOf[e.tool] /\ status[q] = "approved"

(* Consents a call gets from the cache, or from a query, contain a revoked *)
(* scope for less than the TTL and the time a query's answer may be in     *)
(* flight, even if Invalidate is never called (cache.go 31-49).            *)
StalenessBounded ==
  \A c \in Calls : (pc[c] = "policy" /\ ~fallback[c]) =>
     \A s \in scopes[c] :
        s \in ActiveScopes \/ gotAt[c] < endedAt[s] + MaxLoad + TTL

=============================================================================
