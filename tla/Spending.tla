------------------------------ MODULE Spending ------------------------------
(***************************************************************************)
(* What a run may spend: the budget check that admits it                   *)
(* (internal/budget/tracker.go CheckBudget, called by Enqueue), the        *)
(* completions its harness asks the registry for (cmd/harness/main.go,     *)
(* internal/registry/internal_gateway.go), the router that serves each     *)
(* with retries and fallbacks behind a rate limiter                        *)
(* (internal/modelgw/router.go), and the tracker that adds the cost up and *)
(* alerts at 80 %.                                                         *)
(*                                                                         *)
(* A harness process has a client side (one request at a time) and a       *)
(* server side (the handler of that request).  The client gives up after   *)
(* its timeout or when the pod stops; the handler learns of it later,      *)
(* through its context, or not at all.  A run may have several processes,  *)
(* one after the other: its pod has the default restart policy, and a pod  *)
(* that is lost is created again.                                          *)
(***************************************************************************)
EXTENDS Integers, Sequences, FiniteSets, FiniteSetsExt

CONSTANTS
  Harnesses,    \* harness processes
  Runs, Users, Orgs,
  RunOf,        \* the run of a process,
  UserOf,       \* the user and
  OrgOf,        \*   the org whose budgets a run is charged to
  Models,
  Priced,       \* the models DefaultPrices has a price for
  Providers,    \* the candidates: the primary, then the fallbacks in order
  Serves,       \* the providers that serve a model
  Retries,      \* Router.retries
  Limit,        \* Limits, per scope; zero means unlimited
  Costs,        \* what one answer may cost (US dollars as whole units); a
                \*   request's maxTokens and the context window bound it
  MaxCalls      \* maxStepsPerRun: the completions of one process, which starts
                \*   at step 0

Scopes == Users \cup Orgs

ScopesOf(h) == {UserOf[RunOf[h]], OrgOf[UserOf[RunOf[h]]]}

ASSUME SpendingAssumption ==
  /\ IsFiniteSet(Harnesses) /\ Users \cap Orgs = {}
  /\ RunOf \in [Harnesses -> Runs] /\ UserOf \in [Runs -> Users] /\ OrgOf \in [Users -> Orgs]
  /\ Priced \subseteq Models
  /\ Len(Providers) \in Nat
  /\ Serves \in [Models -> SUBSET {Providers[i] : i \in 1..Len(Providers)}]
  /\ Retries \in Nat /\ MaxCalls \in Nat
  /\ Limit \in [Scopes -> Nat]
  /\ Costs \subseteq Nat
  /\ \E top \in Costs : \A usd \in Costs : usd <= top

VARIABLES
  spend,    \* Tracker.spend
  alerted,  \* Tracker.alerted
  client,   \* where each harness process is
  model,    \* the model its agent is configured with
  calls,    \* the answers each process has received
  server,   \* where the handler of each process's request is
  cand,     \* Complete's position in the candidates,
  attempt,  \*   and its failed attempts at that candidate
  gone,     \* the handler's context is cancelled
  fired,    \* history: alerts sent, per scope
  records,  \* history: usage records, per process
  peak,     \* history: the most processes of a scope that were active at once
            \*   when one started within the limit
  extra     \* history: restarts of a scope's processes at or past its limit

vars == <<spend, alerted, client, model, calls, server, cand, attempt, gone,
          fired, records, peak, extra>>

clientVars == <<client, model, calls>>
routerVars == <<server, cand, attempt, gone>>
trackerVars == <<spend, alerted, fired, records>>
historyVars == <<peak, extra>>

TypeOK ==
  /\ spend \in [Scopes -> Nat]
  /\ alerted \in [Scopes -> BOOLEAN]
  /\ client \in [Harnesses -> {"new", "refused", "idle", "asking", "ended"}]
  /\ model \in [Harnesses -> Models]
  /\ calls \in [Harnesses -> 0..MaxCalls]
  /\ server \in [Harnesses -> {"none", "wait", "call", "record", "reply", "error"}]
  /\ cand \in [Harnesses -> 1..(Len(Providers) + 1)]
  /\ attempt \in [Harnesses -> 0..Retries]
  /\ gone \in [Harnesses -> BOOLEAN]
  /\ fired \in [Scopes -> Nat]
  /\ records \in [Harnesses -> 0..MaxCalls]
  /\ peak \in [Scopes -> Nat]
  /\ extra \in [Scopes -> Nat]

Init ==
  /\ spend = [s \in Scopes |-> 0]
  /\ alerted = [s \in Scopes |-> FALSE]
  /\ client = [h \in Harnesses |-> "new"]
  /\ \E m \in [Runs -> Models] : model = [h \in Harnesses |-> m[RunOf[h]]]
  /\ calls = [h \in Harnesses |-> 0]
  /\ server = [h \in Harnesses |-> "none"]
  /\ cand = [h \in Harnesses |-> 1]
  /\ attempt = [h \in Harnesses |-> 0]
  /\ gone = [h \in Harnesses |-> FALSE]
  /\ fired = [s \in Scopes |-> 0]
  /\ records = [h \in Harnesses |-> 0]
  /\ peak = [s \in Scopes |-> 0]
  /\ extra = [s \in Scopes |-> 0]

-----------------------------------------------------------------------------
(* The tracker.                                                            *)

CheckBudget_AtLimit(h) == \A s \in ScopesOf(h) : Limit[s] > 0 => spend[s] <= Limit[s]

CheckBudget(h) == \A s \in ScopesOf(h) : Limit[s] > 0 => spend[s] < Limit[s]

(* 80 % of the limit. *)
Crosses_Strictly(s, prev, now) ==
  Limit[s] > 0 /\ 5 * now > 4 * Limit[s] /\ 5 * prev < 4 * Limit[s]

Crosses(s, prev, now) ==
  Limit[s] > 0 /\ 5 * now >= 4 * Limit[s] /\ 5 * prev < 4 * Limit[s]

(* Record: both scopes of the process's run under one lock. *)
AddSpend(h, usd) ==
  LET alert == {s \in ScopesOf(h) : ~alerted[s] /\ Crosses(s, spend[s], spend[s] + usd)}
  IN  /\ spend' = [s \in Scopes |-> IF s \in ScopesOf(h) THEN spend[s] + usd ELSE spend[s]]
      /\ alerted' = [s \in Scopes |-> alerted[s] \/ s \in alert]
      /\ fired' = [s \in Scopes |-> IF s \in alert THEN fired[s] + 1 ELSE fired[s]]
      /\ records' = [records EXCEPT ![h] = @ + 1]

(* The price of an answer; a model without a price costs nothing. *)
cost(m, usd) == IF m \in Priced THEN usd ELSE 0

-----------------------------------------------------------------------------
(* The client: the harness processes.                                      *)

(* A process is active from its start until it has ended and no handler    *)
(* serves it any more.                                                     *)
Active(s) ==
  {h \in Harnesses : s \in ScopesOf(h) /\ (client[h] \in {"idle", "asking"} \/ server[h] # "none")}

(* The processes of the run of h. *)
Siblings(h) == {g \in Harnesses : RunOf[g] = RunOf[h]}

(* The peak of the scopes in which h starts. *)
NotePeak(S) ==
  peak' = [s \in Scopes |-> IF s \in S THEN Max({peak[s], Cardinality(Active(s)) + 1})
                                     ELSE peak[s]]

(* Enqueue checks the budget; the session's pod starts the first process   *)
(* of the run.                                                             *)
Admit(h) ==
  /\ \A g \in Siblings(h) : client[g] = "new"
  /\ CheckBudget(h)
  /\ client' = [client EXCEPT ![h] = "idle"]
  /\ NotePeak(ScopesOf(h))
  /\ UNCHANGED <<trackerVars, model, calls, routerVars, extra>>

(* The run is refused: it never has a process. *)
BudgetExceeded(h) ==
  /\ \A g \in Siblings(h) : client[g] = "new"
  /\ ~CheckBudget(h)
  /\ client' = [client EXCEPT ![h] = "refused"]
  /\ UNCHANGED <<trackerVars, model, calls, routerVars, historyVars>>

AtLimit(h) == {s \in ScopesOf(h) : Limit[s] > 0 /\ spend[s] >= Limit[s]}

(* The container has exited and is restarted, or its pod was lost and is   *)
(* created again: another process of the run, which begins at step 0 and   *)
(* passes no budget check.                                                 *)
Restart(h) ==
  /\ client[h] = "new"
  /\ \E g \in Siblings(h) : client[g] = "ended"
  /\ \A g \in Siblings(h) : client[g] \in {"new", "ended"}
  /\ client' = [client EXCEPT ![h] = "idle"]
  /\ NotePeak(ScopesOf(h) \ AtLimit(h))
  /\ extra' = [s \in Scopes |-> IF s \in AtLimit(h) THEN extra[s] + 1 ELSE extra[s]]
  /\ UNCHANGED <<trackerVars, model, calls, routerVars>>

(* POST /internal/llm/complete: the handler enters Router.Complete. *)
Ask(h) ==
  /\ client[h] = "idle"
  /\ calls[h] < MaxCalls
  /\ client' = [client EXCEPT ![h] = "asking"]
  /\ server' = [server EXCEPT ![h] = "wait"]
  /\ cand' = [cand EXCEPT ![h] = 1]
  /\ attempt' = [attempt EXCEPT ![h] = 0]
  /\ UNCHANGED <<trackerVars, model, calls, gone, historyVars>>

(* The run token has expired or is revoked: 401 before the router. *)
Unauthorized(h) ==
  /\ client[h] = "idle"
  /\ calls[h] < MaxCalls
  /\ client' = [client EXCEPT ![h] = "asking"]
  /\ server' = [server EXCEPT ![h] = "error"]
  /\ UNCHANGED <<trackerVars, model, calls, cand, attempt, gone, historyVars>>

(* end_turn, an unknown tool, max steps: run returns and the process exits. *)
Finish(h) ==
  /\ client[h] = "idle"
  /\ client' = [client EXCEPT ![h] = "ended"]
  /\ UNCHANGED <<trackerVars, model, calls, routerVars, historyVars>>

(* The client's timeout of 120 s, SIGTERM or the pod's end; an error of    *)
(* Complete ends the process.                                              *)
GiveUp(h) ==
  /\ client[h] = "asking"
  /\ client' = [client EXCEPT ![h] = "ended"]
  /\ UNCHANGED <<trackerVars, model, calls, routerVars, historyVars>>

-----------------------------------------------------------------------------
(* The server: one call of Router.Complete.                                *)

Candidate(h) == Providers[cand[h]]

(* The server notices that the connection of its request is closed. *)
Cancelled(h) ==
  /\ client[h] = "ended"
  /\ server[h] # "none"
  /\ ~gone[h]
  /\ gone' = [gone EXCEPT ![h] = TRUE]
  /\ UNCHANGED <<trackerVars, clientVars, server, cand, attempt, historyVars>>

(* A candidate that does not serve the model is passed over. *)
Skip(h) ==
  /\ server[h] = "wait"
  /\ cand[h] <= Len(Providers)
  /\ Candidate(h) \notin Serves[model[h]]
  /\ cand' = [cand EXCEPT ![h] = @ + 1]
  /\ UNCHANGED <<trackerVars, clientVars, server, attempt, gone, historyVars>>

(* Limiter.Wait only delays the call, or fails because the context has     *)
(* ended, which fails the completion without trying a fallback.            *)
Wait(h) ==
  /\ server[h] = "wait"
  /\ cand[h] <= Len(Providers)
  /\ Candidate(h) \in Serves[model[h]]
  /\ IF gone[h]
     THEN server' = [server EXCEPT ![h] = "error"]
     ELSE server' = [server EXCEPT ![h] = "call"]
  /\ UNCHANGED <<trackerVars, clientVars, cand, attempt, gone, historyVars>>

(* The provider answers, even one whose caller has gone. *)
Answer(h) ==
  /\ server[h] = "call"
  /\ server' = [server EXCEPT ![h] = "record"]
  /\ UNCHANGED <<trackerVars, clientVars, cand, attempt, gone, historyVars>>

Retry_NoCount(h) ==
  IF attempt[h] < Retries
  THEN UNCHANGED <<attempt, cand>>
  ELSE attempt' = [attempt EXCEPT ![h] = 0] /\ cand' = [cand EXCEPT ![h] = @ + 1]

(* One more attempt at this candidate, or the next one. *)
Retry(h) ==
  IF attempt[h] < Retries
  THEN attempt' = [attempt EXCEPT ![h] = @ + 1] /\ UNCHANGED cand
  ELSE attempt' = [attempt EXCEPT ![h] = 0] /\ cand' = [cand EXCEPT ![h] = @ + 1]

Failure(h) ==
  /\ server[h] = "call"
  /\ IF gone[h]
     THEN server' = [server EXCEPT ![h] = "error"] /\ UNCHANGED <<attempt, cand>>
     ELSE server' = [server EXCEPT ![h] = "wait"] /\ Retry(h)
  /\ UNCHANGED <<trackerVars, clientVars, gone, historyVars>>

(* ErrNoProvider, or ErrAllProviders. *)
Exhausted(h) ==
  /\ server[h] = "wait"
  /\ cand[h] > Len(Providers)
  /\ server' = [server EXCEPT ![h] = "error"]
  /\ UNCHANGED <<trackerVars, clientVars, cand, attempt, gone, historyVars>>

Record_OnlyPresent(h) ==
  /\ server[h] = "record"
  /\ IF gone[h] THEN UNCHANGED trackerVars
                ELSE \E usd \in Costs : AddSpend(h, cost(model[h], usd))
  /\ server' = [server EXCEPT ![h] = "reply"]
  /\ UNCHANGED <<clientVars, cand, attempt, gone, historyVars>>

(* meter.Record, whether or not the caller is still there. *)
Record(h) ==
  /\ server[h] = "record"
  /\ \E usd \in Costs : AddSpend(h, cost(model[h], usd))
  /\ server' = [server EXCEPT ![h] = "reply"]
  /\ UNCHANGED <<clientVars, cand, attempt, gone, historyVars>>

(* The response: read by a client that is still waiting, else dropped. An  *)
(* error response (401, 502) ends the process.                             *)
Respond(h) ==
  /\ server[h] \in {"reply", "error"}
  /\ server' = [server EXCEPT ![h] = "none"]
  /\ IF client[h] = "asking"
     THEN IF server[h] = "reply"
          THEN /\ client' = [client EXCEPT ![h] = "idle"]
               /\ calls' = [calls EXCEPT ![h] = @ + 1]
               /\ UNCHANGED model
          ELSE client' = [client EXCEPT ![h] = "ended"] /\ UNCHANGED <<model, calls>>
     ELSE UNCHANGED clientVars
  /\ cand' = [cand EXCEPT ![h] = 1]
  /\ attempt' = [attempt EXCEPT ![h] = 0]
  /\ UNCHANGED <<trackerVars, gone, historyVars>>

-----------------------------------------------------------------------------

(* What a handler does by itself once it runs. *)
Handler(h) ==
  Skip(h) \/ Wait(h) \/ Answer(h) \/ Failure(h) \/ Exhausted(h) \/ Record(h) \/ Respond(h)

Next ==
  \E h \in Harnesses :
    \/ Admit(h) \/ BudgetExceeded(h) \/ Restart(h) \/ Ask(h) \/ Unauthorized(h)
    \/ Finish(h) \/ GiveUp(h) \/ Cancelled(h) \/ Handler(h)

(* A handler's goroutine keeps running: a provider call ends, with an      *)
(* answer or an error, and a waiter holds a reservation in its limiter's   *)
(* bucket, so later callers cannot starve it.                              *)
Spec ==
  /\ Init
  /\ [][Next]_vars
  /\ \A h \in Harnesses : WF_vars(Handler(h))

-----------------------------------------------------------------------------

(* addLocked alerts, where there is an Alerter, when a scope crosses 80 %  *)
(* of its limit.  However the records of concurrent runs are ordered and   *)
(* wherever they jump over the threshold, a limited scope has been alerted *)
(* exactly once when its spend is at or past 80 %, and never before: in    *)
(* particular no scope is ever refused by CheckBudget without an alert.    *)
AlertOnce ==
  \A s \in Scopes :
    fired[s] = IF Limit[s] > 0 /\ 5 * spend[s] >= 4 * Limit[s] THEN 1 ELSE 0

(* CheckBudget runs once, before the run, and nothing stops a process that *)
(* is under way.  How far a scope can pass its limit is what the processes *)
(* that were active together within the limit may still spend, retries,    *)
(* fallbacks and answers that come after the client gave up included, and  *)
(* the calls of each process that the kubelet or the operator starts       *)
(* again at or past the limit: no other step spends.                       *)
OverspendBounded ==
  \A s \in Scopes :
    Limit[s] > 0 /\ spend[s] >= Limit[s] =>
      spend[s] < Limit[s] + (peak[s] + extra[s]) * MaxCalls * Max(Costs)

(* Complete meters before it returns: every answer a harness has was       *)
(* recorded once however many attempts it took, and a record without its   *)
(* answer is one whose response is under way or whose caller gave up.      *)
AnswersAreMetered ==
  \A h \in Harnesses :
    /\ calls[h] <= records[h]
    /\ records[h] <= calls[h] + 1
    /\ records[h] > calls[h] => server[h] = "reply" \/ client[h] = "ended"
    /\ server[h] = "reply" => records[h] = calls[h] + 1

(* Complete returns: the retries, the fallbacks and the waits for a rate   *)
(* limiter end, also for a handler whose caller has gone.                  *)
CompletionsEnd == \A h \in Harnesses : server[h] # "none" ~> server[h] = "none"

=============================================================================
