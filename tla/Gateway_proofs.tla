---------------------------- MODULE Gateway_proofs ----------------------------
(***************************************************************************)
(* Proofs about the tool gateway, for any tools, scopes, consent requests, *)
(* deciders and calls, any TTL and any delay of a query: a consent request *)
(* is decided once, a tool runs on live consents only behind an approval,  *)
(* and a revoked scope is served for less than the TTL and that delay.     *)
(*                                                                         *)
(* Neither of the last two is inductive.  An execution is behind an        *)
(* approval because everything a call or the cache may hold is: each scope *)
(* held anywhere was active when it was read, and an approval is final.    *)
(* The time bound of a served scope rests on one for the cache entry it    *)
(* comes from, and that on one for the query's answer in flight.           *)
(***************************************************************************)
EXTENDS Gateway, TLAPS

(* The row locks: a locked request is pending, and one decider locks it.   *)
LocksHeld ==
  /\ \A d \in Deciders : locks[d] # NoRequest => status[locks[d]] = "pending"
  /\ \A d, e \in Deciders : (locks[d] # NoRequest /\ locks[d] = locks[e]) => d = e

(* The user approved a request for scope s.                                *)
Approved(s) == \E q \in Consents : ScopeAsked[q] = s /\ status[q] = "approved"

(* The call holds consents that were read from the store or the cache.     *)
HoldsLive(c) ==
  pc[c] = "store" \/ (pc[c] \in {"policy", "wait", "exec"} /\ ~fallback[c])

CacheApproved == cache # NoEntry => \A s \in cache.scopes : Approved(s)

CallsApproved == \A c \in Calls : HoldsLive(c) => \A s \in scopes[c] : Approved(s)

(* Past the registry the tool is known; past the policy it is permitted.   *)
ToolsKnown ==
  \A c \in Calls : pc[c] \notin {"idle", "done"} => tool[c] \in Tools

Permitted ==
  \A c \in Calls : pc[c] \in {"wait", "exec"} =>
     \/ ScopeOf[tool[c]] = NoScope
     \/ ScopeOf[tool[c]] \in scopes[c] /\ ScopeOf[tool[c]] \in claims

(* Nothing recorded is later than now.                                     *)
ClocksPast ==
  /\ \A s \in Scopes : endedAt[s] <= now
  /\ \A c \in Calls : readAt[c] <= now /\ gotAt[c] <= now
  /\ cache # NoEntry => cache.loadedAt <= now

(* A scope in an answer in flight ended after the query at the earliest,   *)
(* and the answer is at most MaxLoad old.                                  *)
AnswersFresh ==
  \A c \in Calls : pc[c] = "store" =>
     /\ now <= readAt[c] + MaxLoad
     /\ \A s \in scopes[c] : s \in ActiveScopes \/ readAt[c] <= endedAt[s]

(* So a scope in the cache ended at most MaxLoad before the entry's time.  *)
CacheFresh ==
  cache # NoEntry =>
     \A s \in cache.scopes : s \in ActiveScopes \/ cache.loadedAt <= endedAt[s] + MaxLoad

(* The part of the invariant about consents, and the part about time.      *)
ConsentInv ==
  /\ LocksHeld /\ OneDecision
  /\ CacheApproved /\ CallsApproved
  /\ ToolsKnown /\ Permitted /\ ConsentBehindExecution

TimeInv == ClocksPast /\ AnswersFresh /\ CacheFresh /\ StalenessBounded

IInv == TypeOK /\ ConsentInv /\ TimeInv

USE GatewayAssumption DEF Tools

-----------------------------------------------------------------------------
(* Facts about the state. *)

(* Every active scope is behind an approval.                               *)
LEMMA ActiveIsApproved ==
  ASSUME TypeOK, OneDecision, NEW s \in ActiveScopes
  PROVE  s \in Scopes /\ Approved(s)
<1>1. PICK g \in grants \ revoked : s = ScopeAsked[g.req]
  BY DEF ActiveScopes, ScopeOfRow
<1>2. g \in Row /\ g.req \in Consents
  BY <1>1 DEF TypeOK, Row
<1>3. status[g.req] = "approved"
  BY <1>1, <1>2 DEF OneDecision
<1> QED BY <1>1, <1>2, <1>3 DEF Approved

(* Only a revocation takes a scope away.                                   *)
LEMMA ActiveGrows ==
  ASSUME revoked' = revoked, grants \subseteq grants'
  PROVE  ActiveScopes \subseteq ActiveScopes'
BY DEF ActiveScopes, ScopeOfRow

LEMMA InitIInv == Init => IInv
<1> SUFFICES ASSUME Init PROVE IInv
  OBVIOUS
<1>1. fallback \in [Calls -> BOOLEAN]
  BY Zenon DEF Init
<1>2. TypeOK
  BY <1>1 DEF Init, TypeOK, Row, NoRequest
<1>3. LocksHeld /\ OneDecision
  BY DEF Init, LocksHeld, OneDecision
<1>4. CacheApproved
  BY DEF Init, CacheApproved
<1>5. CallsApproved /\ ToolsKnown /\ Permitted
  BY DEF Init, CallsApproved, HoldsLive, ToolsKnown, Permitted
<1>6. ConsentBehindExecution
  BY DEF Init, ConsentBehindExecution
<1>7. TimeInv
  BY DEF Init, TimeInv, ClocksPast, AnswersFresh, CacheFresh, StalenessBounded
<1> QED BY <1>2, <1>3, <1>4, <1>5, <1>6, <1>7 DEF IInv, ConsentInv

-----------------------------------------------------------------------------
(* Steps of the grants: what calls hold stays approved, and all that is    *)
(* held stays as fresh as it was.                                          *)

LEMMA GrantStepsKeepApprovals ==
  ASSUME ConsentInv, UNCHANGED <<claims, pc, tool, scopes, fallback, execs>>,
         cache' \in {cache, NoEntry},
         \A q \in Consents : status[q] = "approved" => status'[q] = "approved"
  PROVE  CacheApproved' /\ CallsApproved' /\ ToolsKnown' /\ Permitted' /\ ConsentBehindExecution'
<1>0. CacheApproved /\ CallsApproved /\ ToolsKnown /\ Permitted /\ ConsentBehindExecution
  BY DEF ConsentInv
<1>1. \A s : Approved(s) => Approved(s)'
  BY DEF Approved
<1>2. CacheApproved'
  BY <1>0, <1>1 DEF CacheApproved
<1>3. CallsApproved'
  <2>1. \A c \in Calls : HoldsLive(c)' => HoldsLive(c)
    BY DEF HoldsLive
  <2> QED BY <1>0, <1>1, <2>1 DEF CallsApproved
<1>4. ToolsKnown' /\ Permitted'
  BY <1>0 DEF ToolsKnown, Permitted
<1>5. ConsentBehindExecution'
  BY <1>0 DEF ConsentBehindExecution
<1> QED BY <1>2, <1>3, <1>4, <1>5

LEMMA GrantStepsKeepTime ==
  ASSUME TimeInv, UNCHANGED <<now, endedAt, pc, scopes, readAt, fallback, gotAt>>,
         cache' \in {cache, NoEntry}, ActiveScopes \subseteq ActiveScopes'
  PROVE  TimeInv'
<1>0. ClocksPast /\ AnswersFresh /\ CacheFresh /\ StalenessBounded
  BY DEF TimeInv
<1>1. ClocksPast'
  BY <1>0 DEF ClocksPast
<1>2. AnswersFresh'
  BY <1>0 DEF AnswersFresh
<1>3. CacheFresh'
  BY <1>0 DEF CacheFresh
<1>4. StalenessBounded'
  <2>1. \A c \in Calls : fallback'[c] = fallback[c] /\ pc'[c] = pc[c]
    OBVIOUS
  <2> SUFFICES ASSUME NEW c \in Calls, pc'[c] = "policy", ~fallback'[c], NEW s \in scopes'[c]
               PROVE  s \in ActiveScopes' \/ gotAt'[c] < endedAt'[s] + MaxLoad + TTL
    BY DEF StalenessBounded
  <2>2. s \in ActiveScopes \/ gotAt[c] < endedAt[s] + MaxLoad + TTL
    BY <1>0, <2>1 DEF StalenessBounded
  <2> QED BY <2>2
<1> QED BY <1>1, <1>2, <1>3, <1>4 DEF TimeInv

LEMMA RequestConsentKeeps ==
  ASSUME IInv, NEW q \in Consents, RequestConsent(q)
  PROVE  IInv'
<1>0. TypeOK /\ ConsentInv /\ TimeInv /\ LocksHeld /\ OneDecision
  BY DEF IInv, ConsentInv
<1>1. /\ status[q] = "none" /\ status' = [status EXCEPT ![q] = "pending"]
      /\ UNCHANGED <<now, grants, revoked, locks, toDrop, endedAt, cache, allowed, live,
                     claims, tokenOK, pc, tool, scopes, readAt, fallback, gotAt, execs>>
  BY DEF RequestConsent, confVars, callVars
<1>2. TypeOK'
  BY <1>0, <1>1 DEF TypeOK
<1>3. \A p \in Consents : p # q => status'[p] = status[p]
  BY <1>0, <1>1 DEF TypeOK
<1>4. status'[q] = "pending"
  BY <1>0, <1>1 DEF TypeOK
<1>5. LocksHeld'
  <2>1. \A d \in Deciders : locks[d] # NoRequest => locks[d] \in Consents
    BY <1>0 DEF TypeOK
  <2> QED BY <1>0, <1>1, <1>3, <1>4, <2>1 DEF LocksHeld
<1>6. OneDecision'
  BY <1>0, <1>1, <1>3, <1>4 DEF OneDecision
<1>7. \A p \in Consents : status[p] = "approved" => status'[p] = "approved"
  BY <1>1, <1>3
<1>8. CacheApproved' /\ CallsApproved' /\ ToolsKnown' /\ Permitted' /\ ConsentBehindExecution'
  BY <1>0, <1>1, <1>7, GrantStepsKeepApprovals
<1>9. TimeInv'
  BY <1>0, <1>1, ActiveGrows, GrantStepsKeepTime
<1> QED BY <1>2, <1>5, <1>6, <1>8, <1>9 DEF IInv, ConsentInv

LEMMA DecideConsentReadKeeps ==
  ASSUME IInv, NEW d \in Deciders, NEW q \in Consents, DecideConsentRead(d, q)
  PROVE  IInv'
<1>0. TypeOK /\ ConsentInv /\ TimeInv /\ LocksHeld /\ OneDecision
  BY DEF IInv, ConsentInv
<1>1. /\ status[q] = "pending" /\ \A e \in Deciders : locks[e] # q
      /\ locks' = [locks EXCEPT ![d] = q]
      /\ UNCHANGED <<now, status, grants, revoked, toDrop, endedAt, cache, allowed, live,
                     claims, tokenOK, pc, tool, scopes, readAt, fallback, gotAt, execs>>
  BY DEF DecideConsentRead, Lockable, confVars, callVars
<1>2. TypeOK'
  BY <1>0, <1>1 DEF TypeOK
<1>3. \A e \in Deciders : locks'[e] = IF e = d THEN q ELSE locks[e]
  BY <1>0, <1>1 DEF TypeOK
<1>4. LocksHeld'
  BY <1>0, <1>1, <1>3 DEF LocksHeld
<1>5. OneDecision'
  BY <1>0, <1>1 DEF OneDecision
<1>6. CacheApproved' /\ CallsApproved' /\ ToolsKnown' /\ Permitted' /\ ConsentBehindExecution'
  BY <1>0, <1>1, GrantStepsKeepApprovals
<1>7. TimeInv'
  BY <1>0, <1>1, ActiveGrows, GrantStepsKeepTime
<1> QED BY <1>2, <1>4, <1>5, <1>6, <1>7 DEF IInv, ConsentInv

LEMMA DecideConsentWriteKeeps ==
  ASSUME IInv, NEW d \in Deciders, NEW approved \in BOOLEAN, DecideConsentWrite(d, approved)
  PROVE  IInv'
<1> DEFINE q == locks[d]
           row == [req |-> q, by |-> d]
           outcome == IF approved THEN "approved" ELSE "denied"
<1>0. TypeOK /\ ConsentInv /\ TimeInv /\ LocksHeld /\ OneDecision
  BY DEF IInv, ConsentInv
<1>1. /\ q # NoRequest
      /\ status' = [status EXCEPT ![q] = outcome]
      /\ grants' = IF approved THEN grants \cup {row} ELSE grants
      /\ locks' = [locks EXCEPT ![d] = NoRequest]
      /\ UNCHANGED <<now, revoked, toDrop, endedAt, cache, allowed, live,
                     claims, tokenOK, pc, tool, scopes, readAt, fallback, gotAt, execs>>
  BY DEF DecideConsentWrite, confVars, callVars
<1>2. q \in Consents /\ status[q] = "pending" /\ row \in Row /\ row.req = q
  BY <1>0, <1>1 DEF TypeOK, LocksHeld, Row
<1>3. grants \subseteq grants' /\ grants' \subseteq Row
  BY <1>0, <1>1, <1>2 DEF TypeOK
<1>4. TypeOK'
  <2>1. status' \in [Consents -> {"none", "pending", "approved", "denied"}]
    BY <1>0, <1>1, <1>2 DEF TypeOK
  <2>2. locks' \in [Deciders -> Consents \cup {NoRequest}]
    BY <1>0, <1>1 DEF TypeOK
  <2>3. revoked' \in SUBSET grants'
    BY <1>0, <1>1, <1>3 DEF TypeOK
  <2> QED BY <1>0, <1>1, <1>3, <2>1, <2>2, <2>3 DEF TypeOK
<1>5. \A p \in Consents : status'[p] = IF p = q THEN outcome ELSE status[p]
  BY <1>0, <1>1, <1>2 DEF TypeOK
<1>6. \A e \in Deciders : locks'[e] = IF e = d THEN NoRequest ELSE locks[e]
  BY <1>0, <1>1 DEF TypeOK
<1>7. \A g \in grants : g.req # q
  BY <1>0, <1>2 DEF OneDecision
<1> HIDE DEF q, row
<1>8. LocksHeld'
  <2>1. \A e \in Deciders : e # d /\ locks[e] # NoRequest => locks[e] \in Consents /\ locks[e] # q
    BY <1>0, <1>1 DEF TypeOK, LocksHeld, q
  <2> QED BY <1>0, <1>1, <1>5, <1>6, <2>1 DEF LocksHeld
<1>9. OneDecision'
  <2> SUFFICES ASSUME NEW p \in Consents
               PROVE  /\ (\E g \in grants' : g.req = p) <=> status'[p] = "approved"
                      /\ \A g, h \in grants' : g.req = p /\ h.req = p => g = h
    BY DEF OneDecision
  <2>1. /\ (\E g \in grants : g.req = p) <=> status[p] = "approved"
        /\ \A g, h \in grants : g.req = p /\ h.req = p => g = h
    BY <1>0 DEF OneDecision
  <2>2. CASE p = q
    <3>1. CASE approved
      BY <1>1, <1>2, <1>5, <1>7, <2>2, <3>1
    <3>2. CASE ~approved
      BY <1>1, <1>2, <1>5, <1>7, <2>2, <3>2
    <3> QED BY <3>1, <3>2
  <2>3. CASE p # q
    BY <1>1, <1>2, <1>5, <2>1, <2>3
  <2> QED BY <2>2, <2>3
<1>10. \A p \in Consents : status[p] = "approved" => status'[p] = "approved"
  BY <1>2, <1>5
<1>11. CacheApproved' /\ CallsApproved' /\ ToolsKnown' /\ Permitted' /\ ConsentBehindExecution'
  BY <1>0, <1>1, <1>10, GrantStepsKeepApprovals
<1>12. TimeInv'
  BY <1>0, <1>1, <1>3, ActiveGrows, GrantStepsKeepTime
<1> QED BY <1>4, <1>8, <1>9, <1>11, <1>12 DEF IInv, ConsentInv

LEMMA DecideConsentRollbackKeeps ==
  ASSUME IInv, NEW d \in Deciders, DecideConsentRollback(d)
  PROVE  IInv'
<1>0. TypeOK /\ ConsentInv /\ TimeInv /\ LocksHeld /\ OneDecision
  BY DEF IInv, ConsentInv
<1>1. /\ locks' = [locks EXCEPT ![d] = NoRequest]
      /\ UNCHANGED <<now, status, grants, revoked, toDrop, endedAt, cache, allowed, live,
                     claims, tokenOK, pc, tool, scopes, readAt, fallback, gotAt, execs>>
  BY DEF DecideConsentRollback, confVars, callVars
<1>2. TypeOK'
  BY <1>0, <1>1 DEF TypeOK
<1>3. \A e \in Deciders : locks'[e] = IF e = d THEN NoRequest ELSE locks[e]
  BY <1>0, <1>1 DEF TypeOK
<1>4. LocksHeld'
  BY <1>0, <1>1, <1>3 DEF LocksHeld
<1>5. OneDecision'
  BY <1>0, <1>1 DEF OneDecision
<1>6. CacheApproved' /\ CallsApproved' /\ ToolsKnown' /\ Permitted' /\ ConsentBehindExecution'
  BY <1>0, <1>1, GrantStepsKeepApprovals
<1>7. TimeInv'
  BY <1>0, <1>1, ActiveGrows, GrantStepsKeepTime
<1> QED BY <1>2, <1>4, <1>5, <1>6, <1>7 DEF IInv, ConsentInv

(* A scope that stops being active ends now, and everything that was read  *)
(* was read before now.                                                    *)
LEMMA RevokeKeeps ==
  ASSUME IInv, NEW g \in grants, Revoke(g)
  PROVE  IInv'
<1> DEFINE r == ScopeOfRow(g)
<1>0. TypeOK /\ ConsentInv /\ TimeInv /\ LocksHeld /\ OneDecision
  BY DEF IInv, ConsentInv
<1>1. /\ g \in grants \ revoked
      /\ revoked' = revoked \cup {g}
      /\ toDrop' = toDrop \cup {g}
      /\ endedAt' = [endedAt EXCEPT ![r] = now]
      /\ UNCHANGED <<now, status, grants, locks, cache, allowed, live,
                     claims, tokenOK, pc, tool, scopes, readAt, fallback, gotAt, execs>>
  BY DEF Revoke, confVars, callVars
<1>2. r \in Scopes
  BY <1>0 DEF TypeOK, Row, ScopeOfRow
<1>3. TypeOK'
  BY <1>0, <1>1, <1>2 DEF TypeOK
<1>4. LocksHeld' /\ OneDecision'
  BY <1>0, <1>1 DEF LocksHeld, OneDecision
<1>5. CacheApproved' /\ CallsApproved' /\ ToolsKnown' /\ Permitted' /\ ConsentBehindExecution'
  BY <1>0, <1>1, GrantStepsKeepApprovals
<1>6. \A s \in Scopes : endedAt'[s] = IF s = r THEN now ELSE endedAt[s]
  BY <1>0, <1>1 DEF TypeOK
<1>7. \A s \in ActiveScopes : s \in ActiveScopes' \/ s = r
  BY <1>1 DEF ActiveScopes, ScopeOfRow
<1>8. /\ now \in Nat /\ MaxLoad \in Nat /\ TTL \in Nat \ {0}
      /\ \A s \in Scopes : endedAt[s] \in Nat
      /\ \A c \in Calls : readAt[c] \in Nat /\ gotAt[c] \in Nat /\ scopes[c] \subseteq Scopes
      /\ cache # NoEntry => cache.loadedAt \in Nat /\ cache.scopes \subseteq Scopes
  BY <1>0 DEF TypeOK, Entry
<1> HIDE DEF r
<1>9. ClocksPast /\ AnswersFresh /\ CacheFresh /\ StalenessBounded
  BY <1>0 DEF TimeInv
<1>10. ClocksPast'
  BY <1>1, <1>6, <1>8, <1>9 DEF ClocksPast
<1>11. AnswersFresh'
  <2> SUFFICES ASSUME NEW c \in Calls, pc[c] = "store", NEW s \in scopes[c]
               PROVE  s \in ActiveScopes' \/ readAt[c] <= endedAt'[s]
    BY <1>1, <1>9 DEF AnswersFresh
  <2>1. readAt[c] <= now
    BY <1>9 DEF ClocksPast
  <2>2. s \in ActiveScopes \/ readAt[c] <= endedAt[s]
    BY <1>9 DEF AnswersFresh
  <2> QED BY <1>6, <1>7, <1>8, <2>1, <2>2
<1>12. CacheFresh'
  <2> SUFFICES ASSUME cache # NoEntry, NEW s \in cache.scopes
               PROVE  s \in ActiveScopes' \/ cache.loadedAt <= endedAt'[s] + MaxLoad
    BY <1>1 DEF CacheFresh
  <2>1. cache.loadedAt <= now
    BY <1>9 DEF ClocksPast
  <2>2. s \in ActiveScopes \/ cache.loadedAt <= endedAt[s] + MaxLoad
    BY <1>9 DEF CacheFresh
  <2> QED BY <1>6, <1>7, <1>8, <2>1, <2>2
<1>13. StalenessBounded'
  <2>0. fallback' = fallback /\ pc' = pc /\ scopes' = scopes /\ gotAt' = gotAt
    BY <1>1
  <2> SUFFICES ASSUME NEW c \in Calls, pc[c] = "policy", ~fallback[c], NEW s \in scopes[c]
               PROVE  s \in ActiveScopes' \/ gotAt[c] < endedAt'[s] + MaxLoad + TTL
    BY <2>0, Zenon DEF StalenessBounded
  <2>1. gotAt[c] <= now
    BY <1>9 DEF ClocksPast
  <2>2. s \in ActiveScopes \/ gotAt[c] < endedAt[s] + MaxLoad + TTL
    BY <1>9 DEF StalenessBounded
  <2> QED BY <1>6, <1>7, <1>8, <2>1, <2>2
<1> QED BY <1>3, <1>4, <1>5, <1>10, <1>11, <1>12, <1>13 DEF IInv, ConsentInv, TimeInv

LEMMA InvalidateKeeps ==
  ASSUME IInv, NEW g \in toDrop, Invalidate(g) \/ InvalidateLost(g)
  PROVE  IInv'
<1>0. TypeOK /\ ConsentInv /\ TimeInv /\ LocksHeld /\ OneDecision
  BY DEF IInv, ConsentInv
<1>1. /\ toDrop' = toDrop \ {g} /\ cache' \in {cache, NoEntry}
      /\ UNCHANGED <<now, status, grants, revoked, locks, endedAt, allowed, live,
                     claims, tokenOK, pc, tool, scopes, readAt, fallback, gotAt, execs>>
  BY DEF Invalidate, InvalidateLost, confVars, callVars
<1>2. TypeOK'
  BY <1>0, <1>1 DEF TypeOK
<1>3. LocksHeld' /\ OneDecision'
  BY <1>0, <1>1 DEF LocksHeld, OneDecision
<1>4. CacheApproved' /\ CallsApproved' /\ ToolsKnown' /\ Permitted' /\ ConsentBehindExecution'
  BY <1>0, <1>1, GrantStepsKeepApprovals
<1>5. TimeInv'
  BY <1>0, <1>1, ActiveGrows, GrantStepsKeepTime
<1> QED BY <1>2, <1>3, <1>4, <1>5 DEF IInv, ConsentInv

(* The clock, the patterns and the token: no consent moves.  An answer in  *)
(* flight stops the clock before it is older than MaxLoad.                 *)
LEMMA TickKeeps ==
  ASSUME IInv, Tick
  PROVE  IInv'
<1>0. TypeOK /\ ConsentInv /\ TimeInv /\ LocksHeld /\ OneDecision
  BY DEF IInv, ConsentInv
<1>1. /\ now < MaxTime /\ now' = now + 1
      /\ \A c \in Calls : pc[c] = "store" => now < readAt[c] + MaxLoad
      /\ UNCHANGED <<status, grants, revoked, locks, toDrop, endedAt, cache, allowed, live,
                     claims, tokenOK, pc, tool, scopes, readAt, fallback, gotAt, execs>>
  BY DEF Tick, grantVars, confVars, callVars
<1>2. now \in 0..MaxTime /\ MaxTime \in Nat
  BY <1>0 DEF TypeOK
<1>3. now' \in 0..MaxTime
  BY <1>1, <1>2
<1>4. TypeOK'
  BY <1>0, <1>1, <1>3 DEF TypeOK
<1>5. LocksHeld' /\ OneDecision'
  BY <1>0, <1>1 DEF LocksHeld, OneDecision
<1>6. CacheApproved' /\ CallsApproved' /\ ToolsKnown' /\ Permitted' /\ ConsentBehindExecution'
  BY <1>0, <1>1, GrantStepsKeepApprovals
<1>7. /\ now \in Nat /\ MaxLoad \in Nat /\ now' = now + 1
      /\ \A s \in Scopes : endedAt[s] \in Nat
      /\ \A c \in Calls : readAt[c] \in Nat /\ gotAt[c] \in Nat
      /\ cache # NoEntry => cache.loadedAt \in Nat
  BY <1>0, <1>1 DEF TypeOK, Entry
<1>8. ClocksPast /\ AnswersFresh /\ CacheFresh /\ StalenessBounded
  BY <1>0 DEF TimeInv
<1>9. ClocksPast'
  BY <1>1, <1>7, <1>8 DEF ClocksPast
<1>10. ActiveScopes' = ActiveScopes
  BY <1>1 DEF ActiveScopes, ScopeOfRow
<1>11. AnswersFresh'
  BY <1>1, <1>7, <1>8, <1>10 DEF AnswersFresh
<1>12. CacheFresh'
  BY <1>1, <1>8, <1>10 DEF CacheFresh
<1>13. StalenessBounded'
  BY <1>1, <1>8, <1>10, Zenon DEF StalenessBounded
<1> QED BY <1>4, <1>5, <1>6, <1>9, <1>11, <1>12, <1>13 DEF IInv, ConsentInv, TimeInv

LEMMA SettingsKeep ==
  ASSUME IInv, TokenEnds \/ \E S \in SUBSET Tools : SetOrgPatterns(S)
  PROVE  IInv'
<1>0. TypeOK /\ ConsentInv /\ TimeInv /\ LocksHeld /\ OneDecision
  BY DEF IInv, ConsentInv
<1>1. /\ UNCHANGED <<now, status, grants, revoked, locks, toDrop, endedAt, cache, live,
                     claims, pc, tool, scopes, readAt, fallback, gotAt, execs>>
      /\ allowed' \in SUBSET Tools /\ tokenOK' \in BOOLEAN
  BY <1>0, Zenon DEF TokenEnds, SetOrgPatterns, grantVars, callVars, TypeOK
<1>2. TypeOK'
  BY <1>0, <1>1 DEF TypeOK
<1>3. LocksHeld' /\ OneDecision'
  BY <1>0, <1>1 DEF LocksHeld, OneDecision
<1>4. CacheApproved' /\ CallsApproved' /\ ToolsKnown' /\ Permitted' /\ ConsentBehindExecution'
  BY <1>0, <1>1, GrantStepsKeepApprovals
<1>5. TimeInv'
  BY <1>0, <1>1, ActiveGrows, GrantStepsKeepTime
<1> QED BY <1>2, <1>3, <1>4, <1>5 DEF IInv, ConsentInv

-----------------------------------------------------------------------------
(* Steps of a call.  No consent, grant or lock changes, so approvals and   *)
(* active scopes stay what they are.                                       *)

(* A step that only moves the call: not to where it holds consents it did  *)
(* not hold, and past the policy only when the policy permits its tool.    *)
LEMMA MoveKeeps ==
  ASSUME IInv, NEW c \in Calls, NEW l \in {"scopes", "load", "wait", "exec", "done"},
         pc' = [pc EXCEPT ![c] = l],
         UNCHANGED <<now, grantVars, cache, confVars, tool, scopes, readAt, fallback, gotAt,
                     execs>>,
         l # "done" => tool[c] \in Tools,
         l \in {"wait", "exec"} =>
            /\ pc[c] \in {"policy", "wait"}
            /\ \/ ScopeOf[tool[c]] = NoScope
               \/ ScopeOf[tool[c]] \in scopes[c] /\ ScopeOf[tool[c]] \in claims
  PROVE  IInv'
<1>0. TypeOK /\ ConsentInv /\ TimeInv
  BY DEF IInv
<1>1. UNCHANGED <<now, status, grants, revoked, locks, toDrop, endedAt, cache, allowed, live,
                  claims, tokenOK, tool, scopes, readAt, fallback, gotAt, execs>>
  BY DEF grantVars, confVars
<1>2. TypeOK'
  BY <1>0, <1>1 DEF TypeOK
<1>3. \A d \in Calls : pc'[d] = IF d = c THEN l ELSE pc[d]
  BY <1>0 DEF TypeOK
<1>4. LocksHeld' /\ OneDecision' /\ CacheApproved' /\ ConsentBehindExecution'
  <2>1. LocksHeld /\ OneDecision /\ CacheApproved /\ ConsentBehindExecution
    BY <1>0 DEF ConsentInv
  <2> QED BY <1>1, <2>1 DEF LocksHeld, OneDecision, CacheApproved, Approved, ConsentBehindExecution
<1>5. CallsApproved'
  <2>1. CallsApproved
    BY <1>0 DEF ConsentInv
  <2>2. \A s : Approved(s) => Approved(s)'
    BY <1>1 DEF Approved
  <2>3. \A d \in Calls : HoldsLive(d)' => HoldsLive(d)
    BY <1>1, <1>3 DEF HoldsLive
  <2> QED BY <1>1, <2>1, <2>2, <2>3 DEF CallsApproved
<1>6. ToolsKnown' /\ Permitted'
  <2>1. ToolsKnown /\ Permitted
    BY <1>0 DEF ConsentInv
  <2> QED BY <1>1, <1>3, <2>1 DEF ToolsKnown, Permitted
<1>7. ActiveScopes' = ActiveScopes
  BY <1>1 DEF ActiveScopes, ScopeOfRow
<1>8. ClocksPast /\ AnswersFresh /\ CacheFresh /\ StalenessBounded
  BY <1>0 DEF TimeInv
<1>9. ClocksPast' /\ CacheFresh'
  BY <1>1, <1>7, <1>8 DEF ClocksPast, CacheFresh
<1>10. AnswersFresh'
  BY <1>1, <1>3, <1>7, <1>8 DEF AnswersFresh
<1>11. StalenessBounded'
  <2>1. \A d \in Calls : pc'[d] = "policy" => pc[d] = "policy"
    BY <1>3
  <2> QED BY <1>1, <1>7, <1>8, <2>1, Zenon DEF StalenessBounded
<1> QED BY <1>2, <1>4, <1>5, <1>6, <1>9, <1>10, <1>11 DEF IInv, ConsentInv, TimeInv

(* A step that gives the call its consents: the token's own, or live ones  *)
(* that are approved and fresh enough.                                     *)
LEMMA ConsentedKeeps ==
  ASSUME IInv, NEW c \in Calls, NEW S \in SUBSET Scopes, NEW own \in BOOLEAN,
         Consented(c, S, own), tool[c] \in Tools,
         UNCHANGED <<now, grantVars, confVars, tool, readAt, execs>>,
         TypeOK', CacheApproved', CacheFresh',
         cache' # NoEntry => cache'.loadedAt <= now,
         ~own => \A s \in S : Approved(s),
         ~own => \A s \in S : s \in ActiveScopes \/ now < endedAt[s] + MaxLoad + TTL
  PROVE  IInv'
<1>0. TypeOK /\ ConsentInv /\ TimeInv
  BY DEF IInv
<1>1. UNCHANGED <<now, status, grants, revoked, locks, toDrop, endedAt, allowed, live,
                  claims, tokenOK, tool, readAt, execs>>
  BY DEF grantVars, confVars
<1>2. /\ \A d \in Calls : pc'[d] = IF d = c THEN "policy" ELSE pc[d]
      /\ \A d \in Calls : scopes'[d] = IF d = c THEN S ELSE scopes[d]
      /\ \A d \in Calls : gotAt'[d] = IF d = c THEN now ELSE gotAt[d]
  BY <1>0 DEF Consented, Goto, TypeOK
<1>3. fallback'[c] = own /\ \A d \in Calls : d # c => fallback'[d] = fallback[d]
  BY <1>0, Zenon DEF Consented, TypeOK
<1>4. LocksHeld' /\ OneDecision' /\ ConsentBehindExecution'
  <2>1. LocksHeld /\ OneDecision /\ ConsentBehindExecution
    BY <1>0 DEF ConsentInv
  <2> QED BY <1>1, <2>1 DEF LocksHeld, OneDecision, ConsentBehindExecution
<1>5. CallsApproved'
  <2>1. CallsApproved
    BY <1>0 DEF ConsentInv
  <2>2. \A s : Approved(s) => Approved(s)'
    BY <1>1 DEF Approved
  <2> SUFFICES ASSUME NEW d \in Calls, HoldsLive(d)', NEW s \in scopes'[d]
               PROVE  Approved(s)'
    BY DEF CallsApproved
  <2>3. CASE d = c
    <3>1. ~fallback'[c] /\ s \in S
      BY <1>2, <2>3 DEF HoldsLive
    <3>2. ~own
      BY <1>3, <3>1, Zenon
    <3> QED BY <2>2, <3>1, <3>2
  <2>4. CASE d # c
    <3>1. HoldsLive(d) /\ s \in scopes[d]
      BY <1>2, <1>3, <2>4 DEF HoldsLive
    <3> QED BY <2>1, <2>2, <3>1 DEF CallsApproved
  <2> QED BY <2>3, <2>4
<1>6. ToolsKnown' /\ Permitted'
  <2>1. ToolsKnown /\ Permitted
    BY <1>0 DEF ConsentInv
  <2> QED BY <1>1, <1>2, <2>1 DEF ToolsKnown, Permitted
<1>7. ActiveScopes' = ActiveScopes
  BY <1>1 DEF ActiveScopes, ScopeOfRow
<1>8. ClocksPast /\ AnswersFresh /\ StalenessBounded
  BY <1>0 DEF TimeInv
<1>9. ClocksPast'
  <2>1. now \in Nat
    BY <1>0 DEF TypeOK
  <2> QED BY <1>1, <1>2, <1>8, <2>1 DEF ClocksPast
<1>10. AnswersFresh'
  BY <1>1, <1>2, <1>7, <1>8 DEF AnswersFresh
<1>11. StalenessBounded'
  <2> SUFFICES ASSUME NEW d \in Calls, pc'[d] = "policy", ~fallback'[d], NEW s \in scopes'[d]
               PROVE  s \in ActiveScopes' \/ gotAt'[d] < endedAt'[s] + MaxLoad + TTL
    BY Zenon DEF StalenessBounded
  <2>1. CASE d = c
    <3>1. ~own
      BY <1>3, <2>1, Zenon
    <3> QED BY <1>1, <1>2, <1>7, <2>1, <3>1
  <2>2. CASE d # c
    <3>1. ~fallback[d] /\ pc[d] = "policy" /\ s \in scopes[d] /\ gotAt'[d] = gotAt[d]
      BY <1>2, <1>3, <2>2
    <3> QED BY <1>1, <1>7, <1>8, <3>1 DEF StalenessBounded
  <2> QED BY <2>1, <2>2
<1> QED BY <1>4, <1>5, <1>6, <1>9, <1>10, <1>11 DEF IInv, ConsentInv, TimeInv

(* What Consented does to the types, whatever it does to the cache.        *)
LEMMA ConsentedType ==
  ASSUME TypeOK, NEW c \in Calls, NEW S \in SUBSET Scopes, NEW own \in BOOLEAN,
         Consented(c, S, own), cache' \in Entry \cup {NoEntry},
         UNCHANGED <<now, grantVars, confVars, tool, readAt, execs>>
  PROVE  TypeOK'
<1>1. UNCHANGED <<now, status, grants, revoked, locks, toDrop, endedAt, allowed, live,
                  claims, tokenOK, tool, readAt, execs>>
  BY DEF grantVars, confVars
<1>2. fallback' \in [Calls -> BOOLEAN]
  BY Zenon DEF Consented, TypeOK
<1>3. /\ pc' = [pc EXCEPT ![c] = "policy"]
      /\ scopes' = [scopes EXCEPT ![c] = S]
      /\ gotAt' = [gotAt EXCEPT ![c] = now]
  BY DEF Consented, Goto
<1> QED BY <1>1, <1>2, <1>3 DEF TypeOK

LEMMA StaticKeeps ==
  ASSUME IInv, NEW c \in Calls, StaticScopes(c) \/ LoadError(c)
  PROVE  IInv'
<1>0. /\ TypeOK /\ CacheApproved /\ ToolsKnown /\ CacheFresh /\ ClocksPast
      /\ claims \in SUBSET Scopes
  BY DEF IInv, ConsentInv, TimeInv, TypeOK
<1>1. /\ pc[c] \in {"scopes", "load"} /\ Consented(c, claims, TRUE)
      /\ UNCHANGED <<now, grantVars, cache, confVars, tool, readAt, execs>>
  BY DEF StaticScopes, LoadError
<1>2. cache' \in Entry \cup {NoEntry}
  BY <1>0, <1>1 DEF TypeOK
<1>3. TypeOK'
  BY <1>0, <1>1, <1>2, ConsentedType
<1>4. CacheApproved' /\ CacheFresh' /\ (cache' # NoEntry => cache'.loadedAt <= now)
  BY <1>0, <1>1 DEF CacheApproved, Approved, CacheFresh, ActiveScopes, ScopeOfRow, grantVars,
                    ClocksPast
<1>5. tool[c] \in Tools
  BY <1>0, <1>1 DEF ToolsKnown
<1> QED BY <1>0, <1>1, <1>3, <1>4, <1>5, ConsentedKeeps

LEMMA CacheHitKeeps ==
  ASSUME IInv, NEW c \in Calls, CacheHit(c)
  PROVE  IInv'
<1>0. TypeOK /\ CacheApproved /\ ToolsKnown /\ CacheFresh /\ ClocksPast
  BY DEF IInv, ConsentInv, TimeInv
<1>1. /\ pc[c] = "scopes" /\ cache # NoEntry /\ now < cache.loadedAt + TTL
      /\ Consented(c, cache.scopes, FALSE)
      /\ UNCHANGED <<now, grantVars, cache, confVars, tool, readAt, execs>>
  BY DEF CacheHit, Fresh
<1>2. cache \in Entry /\ cache.scopes \in SUBSET Scopes /\ cache.loadedAt \in Nat
  BY <1>0, <1>1 DEF TypeOK, Entry
<1>3. TypeOK'
  BY <1>0, <1>1, <1>2, ConsentedType
<1>4. CacheApproved' /\ CacheFresh' /\ (cache' # NoEntry => cache'.loadedAt <= now)
  BY <1>0, <1>1 DEF CacheApproved, Approved, CacheFresh, ActiveScopes, ScopeOfRow, grantVars,
                    ClocksPast
<1>5. tool[c] \in Tools
  BY <1>0, <1>1 DEF ToolsKnown
<1>6. \A s \in cache.scopes : Approved(s)
  BY <1>0, <1>1 DEF CacheApproved
<1>7. \A s \in cache.scopes : s \in ActiveScopes \/ now < endedAt[s] + MaxLoad + TTL
  <2> SUFFICES ASSUME NEW s \in cache.scopes, s \notin ActiveScopes
               PROVE  now < endedAt[s] + MaxLoad + TTL
    OBVIOUS
  <2>1. cache.loadedAt <= endedAt[s] + MaxLoad
    BY <1>0, <1>1 DEF CacheFresh
  <2>2. endedAt[s] \in Nat /\ now \in Nat
    BY <1>0, <1>2 DEF TypeOK
  <2> QED BY <1>1, <1>2, <2>1, <2>2
<1> QED BY <1>1, <1>2, <1>3, <1>4, <1>5, <1>6, <1>7, ConsentedKeeps

(* The answer goes into the cache with the time of the store, not of the   *)
(* query: it may be MaxLoad old by then, and is served for TTL more.       *)
LEMMA StoreEntryKeeps ==
  ASSUME IInv, NEW c \in Calls, StoreEntry(c)
  PROVE  IInv'
<1>0. TypeOK /\ CallsApproved /\ ToolsKnown /\ AnswersFresh
  BY DEF IInv, ConsentInv, TimeInv
<1>1. /\ pc[c] = "store" /\ cache' = [scopes |-> scopes[c], loadedAt |-> now]
      /\ Consented(c, scopes[c], FALSE)
      /\ UNCHANGED <<now, grantVars, confVars, tool, readAt, execs>>
  BY DEF StoreEntry
<1>2. /\ scopes[c] \in SUBSET Scopes /\ now \in 0..MaxTime /\ readAt[c] \in Nat
      /\ \A s \in Scopes : endedAt[s] \in Nat
  BY <1>0 DEF TypeOK
<1>3. cache' \in Entry /\ cache'.scopes = scopes[c] /\ cache'.loadedAt = now
  BY <1>1, <1>2 DEF Entry
<1>4. TypeOK'
  BY <1>0, <1>1, <1>2, <1>3, ConsentedType
<1>5. \A s \in scopes[c] : Approved(s)
  BY <1>0, <1>1 DEF CallsApproved, HoldsLive
<1>6. CacheApproved'
  BY <1>1, <1>3, <1>5 DEF CacheApproved, Approved, grantVars
<1>7. \A s \in scopes[c] : s \in ActiveScopes \/ now <= endedAt[s] + MaxLoad
  <2> SUFFICES ASSUME NEW s \in scopes[c], s \notin ActiveScopes
               PROVE  now <= endedAt[s] + MaxLoad
    OBVIOUS
  <2>1. now <= readAt[c] + MaxLoad /\ readAt[c] <= endedAt[s]
    BY <1>0, <1>1 DEF AnswersFresh
  <2> QED BY <1>2, <2>1
<1>8. CacheFresh'
  BY <1>1, <1>3, <1>7 DEF CacheFresh, ActiveScopes, ScopeOfRow, grantVars
<1>9. \A s \in scopes[c] : s \in ActiveScopes \/ now < endedAt[s] + MaxLoad + TTL
  <2> SUFFICES ASSUME NEW s \in scopes[c], s \notin ActiveScopes
               PROVE  now < endedAt[s] + MaxLoad + TTL
    OBVIOUS
  <2>1. now <= endedAt[s] + MaxLoad
    BY <1>7
  <2>2. endedAt[s] \in Nat /\ now \in Nat /\ MaxLoad \in Nat /\ TTL \in Nat \ {0}
    BY <1>2
  <2> QED BY <2>1, <2>2
<1>10. cache' # NoEntry => cache'.loadedAt <= now
  BY <1>2, <1>3
<1>11. tool[c] \in Tools
  BY <1>0, <1>1 DEF ToolsKnown
<1> QED BY <1>1, <1>2, <1>4, <1>5, <1>6, <1>8, <1>9, <1>10, <1>11, ConsentedKeeps

LEMMA LoadKeeps ==
  ASSUME IInv, NEW c \in Calls, Load(c)
  PROVE  IInv'
<1>0. TypeOK /\ ConsentInv /\ TimeInv /\ OneDecision
  BY DEF IInv, ConsentInv
<1>1. /\ pc[c] = "load" /\ pc' = [pc EXCEPT ![c] = "store"]
      /\ scopes' = [scopes EXCEPT ![c] = ActiveScopes]
      /\ readAt' = [readAt EXCEPT ![c] = now]
      /\ UNCHANGED <<now, status, grants, revoked, locks, toDrop, endedAt, cache, allowed, live,
                     claims, tokenOK, tool, fallback, gotAt, execs>>
  BY DEF Load, Goto, grantVars, confVars
<1>2. ActiveScopes' = ActiveScopes
  BY <1>1 DEF ActiveScopes, ScopeOfRow
<1>3. ActiveScopes \subseteq Scopes /\ \A s \in ActiveScopes : Approved(s)
  BY <1>0, ActiveIsApproved
<1>4. TypeOK'
  BY <1>0, <1>1, <1>3 DEF TypeOK
<1>5. /\ \A d \in Calls : pc'[d] = IF d = c THEN "store" ELSE pc[d]
      /\ \A d \in Calls : scopes'[d] = IF d = c THEN ActiveScopes ELSE scopes[d]
      /\ \A d \in Calls : readAt'[d] = IF d = c THEN now ELSE readAt[d]
  BY <1>0, <1>1 DEF TypeOK
<1>6. \A s : Approved(s) => Approved(s)'
  BY <1>1 DEF Approved
<1>7. LocksHeld' /\ OneDecision' /\ CacheApproved' /\ ConsentBehindExecution'
  <2>1. LocksHeld /\ OneDecision /\ CacheApproved /\ ConsentBehindExecution
    BY <1>0 DEF ConsentInv
  <2> QED BY <1>1, <2>1 DEF LocksHeld, OneDecision, CacheApproved, Approved, ConsentBehindExecution
<1>8. CallsApproved'
  <2>1. CallsApproved
    BY <1>0 DEF ConsentInv
  <2> SUFFICES ASSUME NEW d \in Calls, HoldsLive(d)', NEW s \in scopes'[d]
               PROVE  Approved(s)
    BY <1>6 DEF CallsApproved
  <2>2. CASE d = c
    BY <1>3, <1>5, <2>2
  <2>3. CASE d # c
    <3>1. HoldsLive(d) /\ s \in scopes[d]
      BY <1>1, <1>5, <2>3 DEF HoldsLive
    <3> QED BY <2>1, <3>1 DEF CallsApproved
  <2> QED BY <2>2, <2>3
<1>9. ToolsKnown' /\ Permitted'
  <2>1. ToolsKnown /\ Permitted
    BY <1>0 DEF ConsentInv
  <2> QED BY <1>1, <1>5, <2>1 DEF ToolsKnown, Permitted
<1>10. ClocksPast /\ AnswersFresh /\ CacheFresh /\ StalenessBounded
  BY <1>0 DEF TimeInv
<1>11. now \in Nat /\ MaxLoad \in Nat
  BY <1>0 DEF TypeOK
<1>12. ClocksPast' /\ CacheFresh'
  BY <1>1, <1>2, <1>5, <1>10, <1>11 DEF ClocksPast, CacheFresh
<1>13. AnswersFresh'
  BY <1>1, <1>2, <1>5, <1>10, <1>11 DEF AnswersFresh
<1>14. StalenessBounded'
  <2> SUFFICES ASSUME NEW d \in Calls, pc'[d] = "policy", ~fallback'[d], NEW s \in scopes'[d]
               PROVE  s \in ActiveScopes' \/ gotAt'[d] < endedAt'[s] + MaxLoad + TTL
    BY Zenon DEF StalenessBounded
  <2>1. d # c
    BY <1>5
  <2>2. pc[d] = "policy" /\ ~fallback[d] /\ s \in scopes[d]
    BY <1>1, <1>5, <2>1
  <2> QED BY <1>1, <1>2, <1>10, <2>2 DEF StalenessBounded
<1> QED BY <1>4, <1>7, <1>8, <1>9, <1>12, <1>13, <1>14 DEF IInv, ConsentInv, TimeInv

LEMMA ExecKeeps ==
  ASSUME IInv, NEW c \in Calls, Exec(c)
  PROVE  IInv'
<1> DEFINE e == [tool |-> tool[c], live |-> ~fallback[c]]
<1>0. TypeOK /\ ConsentInv
  BY DEF IInv
<1>1. /\ pc[c] = "exec" /\ execs' = execs \cup {e} /\ pc' = [pc EXCEPT ![c] = "done"]
      /\ UNCHANGED <<now, grantVars, cache, confVars, tool, scopes, readAt, fallback, gotAt>>
  BY DEF Exec, Goto
<1>2. UNCHANGED <<status, claims>>
  BY <1>1 DEF grantVars, confVars
<1>3. ToolsKnown /\ Permitted /\ CallsApproved /\ ConsentBehindExecution
  BY <1>0 DEF ConsentInv
<1>4. tool[c] \in Tools
  BY <1>1, <1>3 DEF ToolsKnown
<1>5. e \in [tool : Tools, live : BOOLEAN]
  BY <1>4, Zenon
<1>6. ConsentBehindExecution'
  <2> SUFFICES ASSUME NEW f \in execs', f.live, ScopeOf[f.tool] # NoScope
               PROVE  ScopeOf[f.tool] \in claims /\ Approved(ScopeOf[f.tool])
    BY <1>2 DEF ConsentBehindExecution, Approved
  <2>1. CASE f \in execs
    BY <1>3, <2>1 DEF ConsentBehindExecution, Approved
  <2>2. CASE f = e
    <3>1. ~fallback[c] /\ f.tool = tool[c]
      BY <2>2
    <3>2. ScopeOf[tool[c]] \in scopes[c] /\ ScopeOf[tool[c]] \in claims
      BY <1>1, <1>3, <3>1 DEF Permitted
    <3>3. HoldsLive(c)
      BY <1>1, <3>1 DEF HoldsLive
    <3> QED BY <1>3, <3>1, <3>2, <3>3 DEF CallsApproved
  <2> QED BY <1>1, <2>1, <2>2
<1> HIDE DEF e
<1>7. TypeOK' /\ ToolsKnown' /\ Permitted'
  <2>1. execs' \in SUBSET [tool : Tools, live : BOOLEAN]
    BY <1>0, <1>1, <1>5 DEF TypeOK
  <2>2. \A d \in Calls : pc'[d] = IF d = c THEN "done" ELSE pc[d]
    BY <1>0, <1>1 DEF TypeOK
  <2>3. ToolsKnown' /\ Permitted'
    BY <1>1, <1>2, <1>3, <2>2 DEF ToolsKnown, Permitted
  <2>4. TypeOK'
    BY <1>0, <1>1, <2>1 DEF TypeOK, grantVars, confVars
  <2> QED BY <2>3, <2>4
<1>8. LocksHeld' /\ OneDecision' /\ CacheApproved' /\ CallsApproved'
  <2>1. LocksHeld /\ OneDecision /\ CacheApproved
    BY <1>0 DEF ConsentInv
  <2>2. \A d \in Calls : pc'[d] = IF d = c THEN "done" ELSE pc[d]
    BY <1>0, <1>1 DEF TypeOK
  <2>3. \A d \in Calls : HoldsLive(d)' => HoldsLive(d)
    BY <1>1, <2>2 DEF HoldsLive
  <2>4. \A s : Approved(s) => Approved(s)'
    BY <1>2 DEF Approved
  <2>5. CallsApproved'
    BY <1>1, <1>3, <2>3, <2>4 DEF CallsApproved
  <2> QED BY <1>1, <2>1, <2>4, <2>5 DEF LocksHeld, OneDecision, CacheApproved, grantVars
<1>9. TimeInv'
  <2>1. ClocksPast /\ AnswersFresh /\ CacheFresh /\ StalenessBounded
    BY DEF IInv, TimeInv
  <2>2. ActiveScopes' = ActiveScopes
    BY <1>1 DEF ActiveScopes, ScopeOfRow, grantVars
  <2>3. UNCHANGED <<now, endedAt, cache, scopes, readAt, fallback, gotAt>>
    BY <1>1 DEF grantVars
  <2>4. \A d \in Calls : pc'[d] = IF d = c THEN "done" ELSE pc[d]
    BY <1>0, <1>1 DEF TypeOK
  <2>5. ClocksPast' /\ CacheFresh'
    BY <2>1, <2>2, <2>3 DEF ClocksPast, CacheFresh
  <2>6. AnswersFresh'
    BY <2>1, <2>2, <2>3, <2>4 DEF AnswersFresh
  <2>7. \A d \in Calls : pc'[d] = "policy" => pc[d] = "policy"
    BY <2>4
  <2>8. StalenessBounded'
    BY <2>1, <2>2, <2>3, <2>7, Zenon DEF StalenessBounded
  <2> QED BY <2>5, <2>6, <2>8 DEF TimeInv
<1> QED BY <1>6, <1>7, <1>8, <1>9 DEF IInv, ConsentInv

LEMMA CallStepKeeps ==
  ASSUME IInv, NEW c \in Calls, CallStep(c)
  PROVE  IInv'
<1>0. ToolsKnown /\ Permitted
  BY DEF IInv, ConsentInv
<1>1. CASE CallRejected(c) \/ PolicyDenies(c) \/ PolicyError(c) \/ LimiterError(c)
  <2>1. Refused(c)
    BY <1>1 DEF CallRejected, PolicyDenies, PolicyError, LimiterError
  <2> QED BY <2>1, MoveKeeps DEF Refused, Goto
<1>2. CASE CallStart(c)
  BY <1>2, MoveKeeps DEF CallStart, Goto
<1>3. CASE CacheMiss(c)
  <2>1. tool[c] \in Tools
    BY <1>0, <1>3 DEF CacheMiss, ToolsKnown
  <2> QED BY <1>3, <2>1, MoveKeeps DEF CacheMiss, Goto
<1>4. CASE PolicyAllows(c)
  <2>1. tool[c] \in Tools
    BY <1>0, <1>4 DEF PolicyAllows, ToolsKnown
  <2>2. \/ ScopeOf[tool[c]] = NoScope
        \/ ScopeOf[tool[c]] \in scopes[c] /\ ScopeOf[tool[c]] \in claims
    BY <1>4 DEF PolicyAllows, Can
  <2> QED BY <1>4, <2>1, <2>2, MoveKeeps DEF PolicyAllows, Goto
<1>5. CASE LimiterPasses(c)
  <2>1. tool[c] \in Tools
    BY <1>0, <1>5 DEF LimiterPasses, ToolsKnown
  <2>2. \/ ScopeOf[tool[c]] = NoScope
        \/ ScopeOf[tool[c]] \in scopes[c] /\ ScopeOf[tool[c]] \in claims
    BY <1>0, <1>5 DEF LimiterPasses, Permitted
  <2> QED BY <1>5, <2>1, <2>2, MoveKeeps DEF LimiterPasses, Goto
<1> QED BY <1>1, <1>2, <1>3, <1>4, <1>5, StaticKeeps, CacheHitKeeps, LoadKeeps, StoreEntryKeeps,
           ExecKeeps DEF CallStep

LEMMA StutterKeeps == IInv /\ UNCHANGED vars => IInv'
<1> SUFFICES ASSUME IInv, UNCHANGED vars PROVE IInv'
  OBVIOUS
<1>1. UNCHANGED <<now, status, grants, revoked, locks, toDrop, endedAt, cache, allowed, live,
                  claims, tokenOK, pc, tool, scopes, readAt, fallback, gotAt, execs>>
  BY DEF vars, grantVars, confVars, callVars
<1>2. TypeOK /\ ConsentInv /\ TimeInv /\ LocksHeld /\ OneDecision
  BY DEF IInv, ConsentInv
<1>3. TypeOK' /\ LocksHeld' /\ OneDecision'
  BY <1>1, <1>2 DEF TypeOK, LocksHeld, OneDecision
<1>4. CacheApproved' /\ CallsApproved' /\ ToolsKnown' /\ Permitted' /\ ConsentBehindExecution'
  BY <1>1, <1>2, GrantStepsKeepApprovals
<1>5. TimeInv'
  BY <1>1, <1>2, ActiveGrows, GrantStepsKeepTime
<1> QED BY <1>3, <1>4, <1>5 DEF IInv, ConsentInv

LEMMA NextKeeps == IInv /\ [Next]_vars => IInv'
<1> SUFFICES ASSUME IInv, Next PROVE IInv'
  BY StutterKeeps
<1> QED BY TickKeeps, RequestConsentKeeps, DecideConsentReadKeeps, DecideConsentWriteKeeps,
           DecideConsentRollbackKeeps, RevokeKeeps, InvalidateKeeps, SettingsKeep, CallStepKeeps
        DEF Next

-----------------------------------------------------------------------------
(* The inductive invariant holds throughout.                               *)
LEMMA Invariance == Spec => []IInv
BY InitIInv, NextKeeps, PTL DEF Spec

(* Type correctness of the gateway: rows of grants, cache entries, and the *)
(* state of every call, and only registered tools are ever executed.       *)
THEOREM TypeCorrectness == Spec => []TypeOK
<1>1. IInv => TypeOK
  BY DEF IInv
<1> QED BY <1>1, Invariance, PTL

(* However many callers decide a consent request at once, and whichever of *)
(* their transactions fail, it has a grant exactly when it is approved,    *)
(* and never two (store.go 78-134).                                        *)
THEOREM DecidedOnce == Spec => []OneDecision
<1>1. IInv => OneDecision
  BY DEF IInv, ConsentInv
<1> QED BY <1>1, Invariance, PTL

(* For every interleaving of decisions, revocations, cache loads and calls *)
(* a tool runs on live consents only behind an approval of its scope, and  *)
(* within the agent's own scopes (toolgw.go 155-182, engine.go 122-140).   *)
THEOREM ExecutionsConsented == Spec => []ConsentBehindExecution
<1>1. IInv => ConsentBehindExecution
  BY DEF IInv, ConsentInv
<1> QED BY <1>1, Invariance, PTL

(* For every TTL and every delay of a query, a revoked scope is served for *)
(* less than their sum after its revocation, with or without Invalidate    *)
(* (cache.go 31-49).                                                       *)
THEOREM RevocationTakesEffect == Spec => []StalenessBounded
<1>1. IInv => StalenessBounded
  BY DEF IInv, TimeInv
<1> QED BY <1>1, Invariance, PTL

=============================================================================
