---------------------------- MODULE Spending_proofs ----------------------------
(***************************************************************************)
(* Proofs about metering and alerts, for any number of processes, runs,     *)
(* users, orgs, providers and retries, and any limits and costs.           *)
(***************************************************************************)
EXTENDS Spending, FiniteSetTheorems, TLAPS

-----------------------------------------------------------------------------
(* The inductive invariant, in named parts. *)

(* A handler that is calling a provider is at one of the candidates. *)
CallsCandidate == \A h \in Harnesses : server[h] = "call" => cand[h] <= Len(Providers)

(* Where the handler of a process is says how many records it has made. *)
Ledger ==
  \A h \in Harnesses :
    /\ client[h] \in {"new", "refused", "idle"} => server[h] = "none" /\ records[h] = calls[h]
    /\ client[h] = "asking" => server[h] # "none"
    /\ server[h] \in {"wait", "call", "record"} => records[h] = calls[h] /\ calls[h] < MaxCalls
    /\ server[h] = "reply" => records[h] = calls[h] + 1 /\ calls[h] < MaxCalls
    /\ server[h] = "error" => records[h] = calls[h]
    /\ records[h] \in {calls[h], calls[h] + 1}

(* A scope is marked as alerted exactly when its alert was sent. *)
Marked ==
  \A s \in Scopes :
    /\ alerted[s] => fired[s] = 1
    /\ ~alerted[s] => fired[s] = 0
    /\ alerted[s] <=> (Limit[s] > 0 /\ 5 * spend[s] >= 4 * Limit[s])

IInv == TypeOK /\ CallsCandidate /\ Ledger /\ Marked

-----------------------------------------------------------------------------
(* Lemmas about the operators. *)

LEMMA MaxOfTwo ==
  ASSUME NEW m \in Nat, NEW n \in Nat
  PROVE  Max({m, n}) \in Nat /\ Max({m, n}) >= m /\ Max({m, n}) >= n
<1>1. \E x \in {m, n} : \A y \in {m, n} : x >= y
  <2>1. CASE m >= n
    BY <2>1
  <2>2. CASE n >= m
    BY <2>2
  <2> QED BY <2>1, <2>2
<1>2. Max({m, n}) \in {m, n} /\ \A y \in {m, n} : Max({m, n}) >= y
  BY <1>1 DEF Max
<1> QED BY <1>2

LEMMA ActiveCount == \A s \in Scopes : Cardinality(Active(s)) \in Nat
<1> SUFFICES ASSUME NEW s \in Scopes PROVE Cardinality(Active(s)) \in Nat
  OBVIOUS
<1>1. Active(s) \subseteq Harnesses
  BY DEF Active
<1>2. IsFiniteSet(Active(s))
  BY <1>1, SpendingAssumption, FS_Subset
<1> QED BY <1>2, FS_CardinalityType

LEMMA PeakType ==
  ASSUME TypeOK, NEW S, NotePeak(S)
  PROVE  peak' \in [Scopes -> Nat]
<1>1. ASSUME NEW s \in Scopes
      PROVE  Max({peak[s], Cardinality(Active(s)) + 1}) \in Nat
  <2>1. peak[s] \in Nat
    BY DEF TypeOK
  <2>2. Cardinality(Active(s)) + 1 \in Nat
    BY ActiveCount
  <2> QED BY <2>1, <2>2, MaxOfTwo
<1> QED BY <1>1 DEF NotePeak, TypeOK

LEMMA CostType ==
  ASSUME NEW m, NEW usd \in Costs
  PROVE  cost(m, usd) \in Nat
BY SpendingAssumption DEF cost

(* AddSpend keeps the marks: a scope is marked by the record that takes it *)
(* to 80 %, and by that one only.                                          *)
LEMMA AddSpendMarks ==
  ASSUME TypeOK, Marked, NEW h \in Harnesses, NEW usd \in Nat, AddSpend(h, usd)
  PROVE  /\ spend' \in [Scopes -> Nat]
         /\ alerted' \in [Scopes -> BOOLEAN]
         /\ fired' \in [Scopes -> Nat]
         /\ Marked'
<1> DEFINE alert == {s \in ScopesOf(h) : ~alerted[s] /\ Crosses(s, spend[s], spend[s] + usd)}
<1>1. /\ spend' = [s \in Scopes |-> IF s \in ScopesOf(h) THEN spend[s] + usd ELSE spend[s]]
      /\ alerted' = [s \in Scopes |-> alerted[s] \/ s \in alert]
      /\ fired' = [s \in Scopes |-> IF s \in alert THEN fired[s] + 1 ELSE fired[s]]
  BY DEF AddSpend
<1>2. spend' \in [Scopes -> Nat]
  BY <1>1 DEF TypeOK
<1>3. alerted' \in [Scopes -> BOOLEAN]
  BY <1>1, Zenon DEF TypeOK
<1>4. fired' \in [Scopes -> Nat]
  <2> HIDE DEF alert
  <2> QED BY <1>1 DEF TypeOK
<1>5. ASSUME NEW s \in Scopes
      PROVE  /\ alerted'[s] => fired'[s] = 1
             /\ ~alerted'[s] => fired'[s] = 0
             /\ alerted'[s] <=> (Limit[s] > 0 /\ 5 * spend'[s] >= 4 * Limit[s])
  <2>1. /\ spend[s] \in Nat /\ Limit[s] \in Nat /\ fired[s] \in Nat
        /\ alerted[s] \in BOOLEAN
    BY SpendingAssumption DEF TypeOK
  <2>2. /\ alerted[s] => fired[s] = 1
        /\ ~alerted[s] => fired[s] = 0
        /\ alerted[s] <=> (Limit[s] > 0 /\ 5 * spend[s] >= 4 * Limit[s])
    BY DEF Marked
  <2>3. CASE s \in ScopesOf(h)
    <3>1. spend'[s] = spend[s] + usd
      BY <1>1, <2>3
    <3>2. s \in alert <=> ~alerted[s] /\ Crosses(s, spend[s], spend[s] + usd)
      BY <2>3
    <3>3. alerted'[s] <=> alerted[s] \/ s \in alert
      BY <1>1, Zenon
    <3>4. fired'[s] = IF s \in alert THEN fired[s] + 1 ELSE fired[s]
      BY <1>1
    <3> HIDE DEF alert
    <3>5. CASE alerted[s]
      BY <2>1, <2>2, <3>1, <3>2, <3>3, <3>4, <3>5
    <3>6. CASE ~alerted[s]
      BY <2>1, <2>2, <3>1, <3>2, <3>3, <3>4, <3>6 DEF Crosses
    <3> QED BY <3>5, <3>6
  <2>4. CASE s \notin ScopesOf(h)
    <3>1. spend'[s] = spend[s] /\ s \notin alert
      BY <1>1, <2>4
    <3>2. alerted'[s] <=> alerted[s]
      BY <1>1, <3>1, Zenon
    <3>3. fired'[s] = fired[s]
      <4> HIDE DEF alert
      <4> QED BY <1>1, <3>1
    <3> HIDE DEF alert
    <3> QED BY <2>2, <3>1, <3>2, <3>3
  <2> QED BY <2>3, <2>4
<1>6. Marked'
  BY <1>5 DEF Marked
<1> QED BY <1>2, <1>3, <1>4, <1>6

-----------------------------------------------------------------------------
(* The invariant is inductive: one lemma per action. *)

LEMMA AdmitKeeps ==
  ASSUME IInv, NEW h \in Harnesses, Admit(h)
  PROVE  IInv'
<1> USE SpendingAssumption
<1>0. TypeOK /\ CallsCandidate /\ Ledger /\ Marked
  BY DEF IInv
<1>1. client[h] = "new" /\ client' = [client EXCEPT ![h] = "idle"]
  BY DEF Admit, Siblings
<1>2. peak' \in [Scopes -> Nat]
  BY <1>0, PeakType DEF Admit
<1>4. TypeOK'
  BY <1>0, <1>1, <1>2 DEF Admit, TypeOK, trackerVars, routerVars
<1>5. CallsCandidate'
  BY <1>0 DEF Admit, CallsCandidate, routerVars
<1>6. Ledger'
  BY <1>0, <1>1 DEF Admit, Ledger, TypeOK, trackerVars, routerVars
<1>7. Marked'
  BY <1>0 DEF Admit, Marked, trackerVars
<1> QED BY <1>4, <1>5, <1>6, <1>7 DEF IInv

LEMMA RestartKeeps ==
  ASSUME IInv, NEW h \in Harnesses, Restart(h)
  PROVE  IInv'
<1> USE SpendingAssumption
<1>0. TypeOK /\ CallsCandidate /\ Ledger /\ Marked
  BY DEF IInv
<1>1. client[h] = "new" /\ client' = [client EXCEPT ![h] = "idle"]
  BY DEF Restart, Siblings
<1>2. peak' \in [Scopes -> Nat]
  BY <1>0, PeakType DEF Restart
<1>3. extra' \in [Scopes -> Nat]
  <2> DEFINE L == AtLimit(h)
  <2>1. extra' = [s \in Scopes |-> IF s \in L THEN extra[s] + 1 ELSE extra[s]]
    BY DEF Restart
  <2> HIDE DEF L
  <2> QED BY <1>0, <2>1, SMTT(20) DEF TypeOK
<1>4. TypeOK'
  BY <1>0, <1>1, <1>2, <1>3, SMTT(20) DEF Restart, TypeOK, trackerVars, routerVars
<1>5. CallsCandidate'
  BY <1>0 DEF Restart, CallsCandidate, routerVars
<1>6. Ledger'
  BY <1>0, <1>1 DEF Restart, Ledger, TypeOK, trackerVars, routerVars
<1>7. Marked'
  BY <1>0 DEF Restart, Marked, trackerVars
<1> QED BY <1>4, <1>5, <1>6, <1>7 DEF IInv

LEMMA BudgetExceededKeeps ==
  ASSUME IInv, NEW h \in Harnesses, BudgetExceeded(h)
  PROVE  IInv'
<1> USE SpendingAssumption
<1>0. TypeOK /\ CallsCandidate /\ Ledger /\ Marked
  BY DEF IInv
<1>1. TypeOK'
  BY <1>0 DEF BudgetExceeded, TypeOK, CallsCandidate, trackerVars, clientVars,
      routerVars, historyVars
<1>2. CallsCandidate'
  BY <1>0 DEF BudgetExceeded, CallsCandidate, TypeOK, trackerVars, clientVars,
      routerVars
<1>3. Ledger'
  BY <1>0 DEF BudgetExceeded, Siblings, Ledger, TypeOK, trackerVars, clientVars, routerVars
<1>4. Marked'
  BY <1>0 DEF BudgetExceeded, Marked, trackerVars
<1> QED BY <1>1, <1>2, <1>3, <1>4 DEF IInv

LEMMA AskKeeps ==
  ASSUME IInv, NEW h \in Harnesses, Ask(h)
  PROVE  IInv'
<1> USE SpendingAssumption
<1>0. TypeOK /\ CallsCandidate /\ Ledger /\ Marked
  BY DEF IInv
<1>1. TypeOK'
  <2>1. /\ client' \in [Harnesses -> {"new", "refused", "idle", "asking", "ended"}]
        /\ server' \in [Harnesses -> {"none", "wait", "call", "record", "reply", "error"}]
    BY <1>0 DEF Ask, TypeOK
  <2>2. cand' \in [Harnesses -> 1..(Len(Providers) + 1)] /\ attempt' \in [Harnesses -> 0..Retries]
    BY <1>0 DEF Ask, TypeOK
  <2> QED BY <1>0, <2>1, <2>2 DEF Ask, TypeOK, trackerVars, historyVars
<1>2. CallsCandidate'
  BY <1>0 DEF Ask, CallsCandidate, TypeOK, trackerVars, clientVars, routerVars
<1>3. Ledger'
  BY <1>0 DEF Ask, Ledger, TypeOK, trackerVars, clientVars, routerVars
<1>4. Marked'
  BY <1>0 DEF Ask, Marked, trackerVars
<1> QED BY <1>1, <1>2, <1>3, <1>4 DEF IInv

LEMMA UnauthorizedKeeps ==
  ASSUME IInv, NEW h \in Harnesses, Unauthorized(h)
  PROVE  IInv'
<1> USE SpendingAssumption
<1>0. TypeOK /\ CallsCandidate /\ Ledger /\ Marked
  BY DEF IInv
<1>1. TypeOK'
  BY <1>0 DEF Unauthorized, TypeOK, CallsCandidate, trackerVars, clientVars,
      routerVars, historyVars
<1>2. CallsCandidate'
  BY <1>0 DEF Unauthorized, CallsCandidate, TypeOK, trackerVars, clientVars,
      routerVars
<1>3. Ledger'
  BY <1>0 DEF Unauthorized, Ledger, TypeOK, trackerVars, clientVars, routerVars
<1>4. Marked'
  BY <1>0 DEF Unauthorized, Marked, trackerVars
<1> QED BY <1>1, <1>2, <1>3, <1>4 DEF IInv

LEMMA FinishKeeps ==
  ASSUME IInv, NEW h \in Harnesses, Finish(h)
  PROVE  IInv'
<1> USE SpendingAssumption
<1>0. TypeOK /\ CallsCandidate /\ Ledger /\ Marked
  BY DEF IInv
<1>1. TypeOK'
  BY <1>0 DEF Finish, TypeOK, CallsCandidate, trackerVars, clientVars, routerVars, historyVars
<1>2. CallsCandidate'
  BY <1>0 DEF Finish, CallsCandidate, TypeOK, trackerVars, clientVars, routerVars
<1>3. Ledger'
  BY <1>0 DEF Finish, Ledger, TypeOK, trackerVars, clientVars, routerVars
<1>4. Marked'
  BY <1>0 DEF Finish, Marked, trackerVars
<1> QED BY <1>1, <1>2, <1>3, <1>4 DEF IInv

LEMMA GiveUpKeeps ==
  ASSUME IInv, NEW h \in Harnesses, GiveUp(h)
  PROVE  IInv'
<1> USE SpendingAssumption
<1>0. TypeOK /\ CallsCandidate /\ Ledger /\ Marked
  BY DEF IInv
<1>1. TypeOK'
  BY <1>0 DEF GiveUp, TypeOK, CallsCandidate, trackerVars, clientVars, routerVars, historyVars
<1>2. CallsCandidate'
  BY <1>0 DEF GiveUp, CallsCandidate, TypeOK, trackerVars, clientVars, routerVars
<1>3. Ledger'
  BY <1>0 DEF GiveUp, Ledger, TypeOK, trackerVars, clientVars, routerVars
<1>4. Marked'
  BY <1>0 DEF GiveUp, Marked, trackerVars
<1> QED BY <1>1, <1>2, <1>3, <1>4 DEF IInv

LEMMA CancelledKeeps ==
  ASSUME IInv, NEW h \in Harnesses, Cancelled(h)
  PROVE  IInv'
<1> USE SpendingAssumption
<1>0. TypeOK /\ CallsCandidate /\ Ledger /\ Marked
  BY DEF IInv
<1>1. TypeOK'
  BY <1>0 DEF Cancelled, TypeOK, CallsCandidate, trackerVars, clientVars, routerVars, historyVars
<1>2. CallsCandidate'
  BY <1>0 DEF Cancelled, CallsCandidate, TypeOK, trackerVars, clientVars, routerVars
<1>3. Ledger'
  BY <1>0 DEF Cancelled, Ledger, TypeOK, trackerVars, clientVars, routerVars
<1>4. Marked'
  BY <1>0 DEF Cancelled, Marked, trackerVars
<1> QED BY <1>1, <1>2, <1>3, <1>4 DEF IInv

LEMMA SkipKeeps ==
  ASSUME IInv, NEW h \in Harnesses, Skip(h)
  PROVE  IInv'
<1> USE SpendingAssumption
<1>0. TypeOK /\ CallsCandidate /\ Ledger /\ Marked
  BY DEF IInv
<1>1. TypeOK'
  BY <1>0, SMTT(20) DEF Skip, TypeOK, CallsCandidate, trackerVars, clientVars, routerVars, historyVars
<1>2. CallsCandidate'
  BY <1>0 DEF Skip, CallsCandidate, TypeOK, trackerVars, clientVars, routerVars
<1>3. Ledger'
  BY <1>0 DEF Skip, Ledger, TypeOK, trackerVars, clientVars, routerVars
<1>4. Marked'
  BY <1>0 DEF Skip, Marked, trackerVars
<1> QED BY <1>1, <1>2, <1>3, <1>4 DEF IInv

LEMMA WaitKeeps ==
  ASSUME IInv, NEW h \in Harnesses, Wait(h)
  PROVE  IInv'
<1> USE SpendingAssumption
<1>0. TypeOK /\ CallsCandidate /\ Ledger /\ Marked
  BY DEF IInv
<1>1. TypeOK'
  BY <1>0 DEF Wait, TypeOK, CallsCandidate, trackerVars, clientVars, routerVars, historyVars
<1>2. CallsCandidate'
  BY <1>0 DEF Wait, CallsCandidate, TypeOK, trackerVars, clientVars, routerVars
<1>3. Ledger'
  BY <1>0 DEF Wait, Ledger, TypeOK, trackerVars, clientVars, routerVars
<1>4. Marked'
  BY <1>0 DEF Wait, Marked, trackerVars
<1> QED BY <1>1, <1>2, <1>3, <1>4 DEF IInv

LEMMA AnswerKeeps ==
  ASSUME IInv, NEW h \in Harnesses, Answer(h)
  PROVE  IInv'
<1> USE SpendingAssumption
<1>0. TypeOK /\ CallsCandidate /\ Ledger /\ Marked
  BY DEF IInv
<1>1. TypeOK'
  BY <1>0 DEF Answer, TypeOK, CallsCandidate, trackerVars, clientVars, routerVars, historyVars
<1>2. CallsCandidate'
  BY <1>0 DEF Answer, CallsCandidate, TypeOK, trackerVars, clientVars, routerVars
<1>3. Ledger'
  BY <1>0 DEF Answer, Ledger, TypeOK, trackerVars, clientVars, routerVars
<1>4. Marked'
  BY <1>0 DEF Answer, Marked, trackerVars
<1> QED BY <1>1, <1>2, <1>3, <1>4 DEF IInv

LEMMA FailureKeeps ==
  ASSUME IInv, NEW h \in Harnesses, Failure(h)
  PROVE  IInv'
<1> USE SpendingAssumption
<1>0. TypeOK /\ CallsCandidate /\ Ledger /\ Marked
  BY DEF IInv
<1>1. TypeOK'
  <2>1. cand[h] \in Nat /\ 1 <= cand[h] /\ cand[h] <= Len(Providers) /\ attempt[h] \in 0..Retries
    BY <1>0 DEF Failure, TypeOK, CallsCandidate
  <2>2. server' \in [Harnesses -> {"none", "wait", "call", "record", "reply", "error"}]
    <3>1. \/ server' = [server EXCEPT ![h] = "error"]
          \/ server' = [server EXCEPT ![h] = "wait"]
      BY DEF Failure
    <3> QED BY <1>0, <3>1 DEF TypeOK
  <2>3. cand' \in [Harnesses -> 1..(Len(Providers) + 1)]
    <3>1. cand' = cand \/ cand' = [cand EXCEPT ![h] = cand[h] + 1]
      BY DEF Failure, Retry
    <3>2. cand[h] + 1 \in 1..(Len(Providers) + 1)
      BY <2>1
    <3> QED BY <1>0, <3>1, <3>2 DEF TypeOK
  <2>4. attempt' \in [Harnesses -> 0..Retries]
    <3>1. \/ attempt' = attempt
          \/ attempt' = [attempt EXCEPT ![h] = 0]
          \/ attempt[h] < Retries /\ attempt' = [attempt EXCEPT ![h] = attempt[h] + 1]
      BY DEF Failure, Retry
    <3>2. 0 \in 0..Retries /\ (attempt[h] < Retries => attempt[h] + 1 \in 0..Retries)
      BY <2>1
    <3> QED BY <1>0, <3>1, <3>2 DEF TypeOK
  <2> QED BY <1>0, <2>2, <2>3, <2>4 DEF Failure, TypeOK, trackerVars, clientVars, historyVars
<1>2. CallsCandidate'
  BY <1>0 DEF Failure, Retry, CallsCandidate, TypeOK, trackerVars, clientVars,
      routerVars
<1>3. Ledger'
  BY <1>0 DEF Failure, Ledger, TypeOK, trackerVars, clientVars, routerVars
<1>4. Marked'
  BY <1>0 DEF Failure, Marked, trackerVars
<1> QED BY <1>1, <1>2, <1>3, <1>4 DEF IInv

LEMMA ExhaustedKeeps ==
  ASSUME IInv, NEW h \in Harnesses, Exhausted(h)
  PROVE  IInv'
<1> USE SpendingAssumption
<1>0. TypeOK /\ CallsCandidate /\ Ledger /\ Marked
  BY DEF IInv
<1>1. TypeOK'
  BY <1>0 DEF Exhausted, TypeOK, CallsCandidate, trackerVars, clientVars, routerVars, historyVars
<1>2. CallsCandidate'
  BY <1>0 DEF Exhausted, CallsCandidate, TypeOK, trackerVars, clientVars, routerVars
<1>3. Ledger'
  BY <1>0 DEF Exhausted, Ledger, TypeOK, trackerVars, clientVars, routerVars
<1>4. Marked'
  BY <1>0 DEF Exhausted, Marked, trackerVars
<1> QED BY <1>1, <1>2, <1>3, <1>4 DEF IInv

LEMMA RecordKeeps ==
  ASSUME IInv, NEW h \in Harnesses, Record(h)
  PROVE  IInv'
<1> USE SpendingAssumption
<1>0. TypeOK /\ CallsCandidate /\ Ledger /\ Marked
  BY DEF IInv
<1>1. PICK usd \in Costs : AddSpend(h, cost(model[h], usd))
  BY DEF Record
<1>2. /\ spend' \in [Scopes -> Nat]
      /\ alerted' \in [Scopes -> BOOLEAN]
      /\ fired' \in [Scopes -> Nat]
      /\ Marked'
  BY <1>0, <1>1, CostType, AddSpendMarks
<1>3. records' = [records EXCEPT ![h] = @ + 1]
  BY <1>1 DEF AddSpend
<1>4. TypeOK'
  BY <1>0, <1>2, <1>3, SMTT(20) DEF Record, TypeOK, Ledger, clientVars, historyVars
<1>5. CallsCandidate'
  BY <1>0 DEF Record, CallsCandidate, TypeOK
<1>6. Ledger'
  BY <1>0, <1>3 DEF Record, Ledger, TypeOK, clientVars
<1> QED BY <1>2, <1>4, <1>5, <1>6 DEF IInv

LEMMA RespondKeeps ==
  ASSUME IInv, NEW h \in Harnesses, Respond(h)
  PROVE  IInv'
<1> USE SpendingAssumption
<1>0. TypeOK /\ CallsCandidate /\ Ledger /\ Marked
  BY DEF IInv
<1>1. TypeOK'
  <2>1. server' \in [Harnesses -> {"none", "wait", "call", "record", "reply", "error"}]
    BY <1>0 DEF Respond, TypeOK
  <2>2. cand' \in [Harnesses -> 1..(Len(Providers) + 1)] /\ attempt' \in [Harnesses -> 0..Retries]
    BY <1>0 DEF Respond, TypeOK
  <2>3. client' \in [Harnesses -> {"new", "refused", "idle", "asking", "ended"}]
        /\ model' \in [Harnesses -> Models]
    BY <1>0 DEF Respond, TypeOK, clientVars
  <2>4. calls' \in [Harnesses -> 0..MaxCalls]
    <3>1. \/ calls' = calls
          \/ server[h] = "reply" /\ calls' = [calls EXCEPT ![h] = calls[h] + 1]
      BY DEF Respond, clientVars
    <3>2. server[h] = "reply" => calls[h] + 1 \in 0..MaxCalls
      BY <1>0 DEF TypeOK, Ledger
    <3> QED BY <1>0, <3>1, <3>2 DEF TypeOK
  <2> QED BY <1>0, <2>1, <2>2, <2>3, <2>4 DEF Respond, TypeOK, trackerVars, historyVars
<1>2. CallsCandidate'
  BY <1>0 DEF Respond, CallsCandidate, TypeOK, trackerVars, clientVars, routerVars
<1>3. Ledger'
  BY <1>0 DEF Respond, Ledger, TypeOK, trackerVars, clientVars, routerVars
<1>4. Marked'
  BY <1>0 DEF Respond, Marked, trackerVars
<1> QED BY <1>1, <1>2, <1>3, <1>4 DEF IInv

LEMMA InvInit == Init => IInv
<1> SUFFICES ASSUME Init PROVE IInv
  OBVIOUS
<1> USE SpendingAssumption
<1>1. alerted \in [Scopes -> BOOLEAN] /\ gone \in [Harnesses -> BOOLEAN]
  BY Zenon DEF Init
<1>2. TypeOK
  <2>1. model \in [Harnesses -> Models]
    BY DEF Init
  <2> QED BY <1>1, <2>1 DEF Init, TypeOK
<1>3. CallsCandidate /\ Ledger
  BY DEF Init, CallsCandidate, Ledger
<1>4. Marked
  BY DEF Init, Marked
<1> QED BY <1>2, <1>3, <1>4 DEF IInv

LEMMA InvStep == IInv /\ [Next]_vars => IInv'
<1> SUFFICES ASSUME IInv, [Next]_vars PROVE IInv'
  OBVIOUS
<1>1. CASE Next
  <2>1. PICK h \in Harnesses :
          \/ Admit(h) \/ BudgetExceeded(h) \/ Restart(h) \/ Ask(h) \/ Unauthorized(h)
          \/ Finish(h) \/ GiveUp(h) \/ Cancelled(h) \/ Handler(h)
    BY <1>1 DEF Next
  <2>2. CASE Handler(h)
    BY <2>2, SkipKeeps, WaitKeeps, AnswerKeeps, FailureKeeps, ExhaustedKeeps,
       RecordKeeps, RespondKeeps DEF Handler
  <2> QED BY <2>1, <2>2, AdmitKeeps, BudgetExceededKeeps, RestartKeeps, AskKeeps,
             UnauthorizedKeeps, FinishKeeps, GiveUpKeeps, CancelledKeeps
<1>2. CASE UNCHANGED vars
  BY <1>2 DEF IInv, TypeOK, CallsCandidate, Ledger, Marked, vars
<1> QED BY <1>1, <1>2

LEMMA Invariance == Spec => []IInv
BY InvInit, InvStep, PTL DEF Spec

-----------------------------------------------------------------------------
(* Theorems. *)

(* The tracker and the router keep their types: no process makes more      *)
(* records or receives more answers than maxStepsPerRun, and Complete never leaves *)
(* its list of candidates.                                                 *)
THEOREM TypeCorrectness == Spec => []TypeOK
<1>1. IInv => TypeOK
  BY DEF IInv
<1> QED BY <1>1, Invariance, PTL

(* The 80 % alert of a scope (tracker.go addLocked) has been sent exactly  *)
(* once when its spend is at or past the threshold, and never before, for  *)
(* every limit and however the records of the processes arrive.            *)
THEOREM AlertsFireOnce == Spec => []AlertOnce
<1>1. IInv => AlertOnce
  BY DEF IInv, Marked, AlertOnce
<1> QED BY <1>1, Invariance, PTL

(* Every answer a harness has was metered once (router.go Complete): the   *)
(* usage records of a process are its answers, and at most one more whose  *)
(* response is under way or was given up on.                               *)
THEOREM MeteredOnce == Spec => []AnswersAreMetered
<1>1. IInv => AnswersAreMetered
  <2> SUFFICES ASSUME IInv, NEW h \in Harnesses
               PROVE  /\ calls[h] <= records[h]
                      /\ records[h] <= calls[h] + 1
                      /\ records[h] > calls[h] => server[h] = "reply" \/ client[h] = "ended"
                      /\ server[h] = "reply" => records[h] = calls[h] + 1
    BY DEF AnswersAreMetered
  <2> QED BY SpendingAssumption DEF IInv, TypeOK, Ledger
<1> QED BY <1>1, Invariance, PTL

-----------------------------------------------------------------------------
(* How far a scope can pass its limit. *)

Top == Max(Costs)

(* The calls that the active processes of a scope may still make: one pair *)
(* per call, so that counting them needs no sum over the processes.        *)
Owed(s) == {p \in Active(s) \X (1..MaxCalls) : p[2] > records[p[1]]}

(* The processes that the bound of a scope counts. *)
Counted(s) == peak[s] + extra[s]

(* No more processes of a scope are active than are counted. *)
WithinPeak == \A s \in Scopes : Cardinality(Active(s)) <= Counted(s)

(* Past the limit, what is spent and what may still be spent stay below    *)
(* what the counted processes allow: a record moves its cost from one to   *)
(* the other, nobody is admitted any more, and a restart is counted.       *)
SpendAndOwed ==
  \A s \in Scopes :
    Limit[s] > 0 /\ spend[s] >= Limit[s] =>
      spend[s] + Cardinality(Owed(s)) * Top < Limit[s] + Counted(s) * MaxCalls * Top

BudgetInv == WithinPeak /\ SpendAndOwed

LEMMA TopCost == Top \in Nat /\ \A usd \in Costs : usd <= Top
<1>1. \E x \in Costs : \A y \in Costs : x >= y
  BY SpendingAssumption
<1>2. Top \in Costs /\ \A y \in Costs : Top >= y
  BY <1>1 DEF Top, Max
<1> QED
  BY <1>2, SpendingAssumption

LEMMA CostBound ==
  ASSUME NEW m, NEW usd \in Costs
  PROVE  cost(m, usd) \in Nat /\ cost(m, usd) <= Top
BY TopCost, SpendingAssumption DEF cost

LEMMA TimesMonotone ==
  ASSUME NEW a \in Nat, NEW b \in Nat, NEW t \in Nat, a <= b
  PROVE  a * t <= b * t
<1>1. PICK d \in Nat : b = a + d
  <2>1. b - a \in Nat /\ b = a + (b - a)
    OBVIOUS
  <2> QED BY <2>1
<1>2. b * t = a * t + d * t
  BY <1>1
<1>3. d * t >= 0 /\ a * t \in Nat /\ d * t \in Nat
  OBVIOUS
<1> QED
  BY <1>2, <1>3

LEMMA ProcessesCounted ==
  ASSUME NEW A \in SUBSET Harnesses
  PROVE  IsFiniteSet(A) /\ Cardinality(A) \in Nat
BY SpendingAssumption, FS_Subset, FS_CardinalityType

LEMMA CallsCounted ==
  ASSUME NEW A \in SUBSET Harnesses, NEW O \in SUBSET (A \X (1..MaxCalls))
  PROVE  /\ IsFiniteSet(O) /\ Cardinality(O) \in Nat
         /\ Cardinality(O) <= Cardinality(A) * MaxCalls
<1>1. IsFiniteSet(1..MaxCalls) /\ Cardinality(1..MaxCalls) = MaxCalls
  <2>1. MaxCalls \in Nat /\ 1 \in Int /\ MaxCalls \in Int
    BY SpendingAssumption
  <2>2. /\ IsFiniteSet(1..MaxCalls)
        /\ Cardinality(1..MaxCalls) = IF 1 > MaxCalls THEN 0 ELSE MaxCalls - 1 + 1
    BY <2>1, FS_Interval
  <2> QED BY <2>1, <2>2
<1>2. IsFiniteSet(A)
  BY ProcessesCounted
<1>3. /\ IsFiniteSet(A \X (1..MaxCalls))
      /\ Cardinality(A \X (1..MaxCalls)) = Cardinality(A) * MaxCalls
  BY <1>1, <1>2, FS_Product
<1>4. IsFiniteSet(O) /\ Cardinality(O) <= Cardinality(A \X (1..MaxCalls))
  BY <1>3, FS_Subset
<1> QED
  BY <1>3, <1>4, FS_CardinalityType

LEMMA BudgetInit == Init => BudgetInv
<1> SUFFICES ASSUME Init PROVE BudgetInv
  OBVIOUS
<1>1. \A s \in Scopes : spend[s] = 0 /\ Counted(s) = 0
  BY DEF Init, Counted
<1>2. \A s \in Scopes : Active(s) = {}
  BY DEF Init, Active
<1>3. WithinPeak
  BY <1>1, <1>2, FS_EmptySet DEF WithinPeak
<1>4. SpendAndOwed
  <2>1. \A s \in Scopes : Limit[s] \in Nat
    BY SpendingAssumption
  <2> QED BY <1>1, <2>1 DEF SpendAndOwed
<1> QED
  BY <1>3, <1>4 DEF BudgetInv

(* A step that records nothing and makes no process active. *)
LEMMA SpendsNothing ==
  ASSUME IInv, BudgetInv,
         \A s \in Scopes : Active(s)' \subseteq Active(s),
         UNCHANGED <<spend, records, peak, extra>>
  PROVE  BudgetInv'
<1>0. TypeOK
  BY DEF IInv
<1> SUFFICES ASSUME NEW s \in Scopes
             PROVE  /\ Cardinality(Active(s)') <= Counted(s)
                    /\ Limit[s] > 0 /\ spend[s] >= Limit[s] =>
                          spend[s] + Cardinality(Owed(s)') * Top
                             < Limit[s] + Counted(s) * MaxCalls * Top
  BY DEF BudgetInv, WithinPeak, SpendAndOwed, Counted
<1>1. Active(s) \subseteq Harnesses /\ Active(s)' \subseteq Active(s)
  BY DEF Active
<1>2. Owed(s)' \subseteq Owed(s) /\ Owed(s) \subseteq Active(s) \X (1..MaxCalls)
  BY <1>1 DEF Owed
<1> DEFINE A == Active(s)  B == Active(s)'  O == Owed(s)  P == Owed(s)'
<1>3. Cardinality(B) <= Cardinality(A) /\ Cardinality(B) \in Nat /\ Cardinality(A) \in Nat
  <2>1. IsFiniteSet(A) /\ Cardinality(A) \in Nat
    BY <1>1, ProcessesCounted
  <2>2. IsFiniteSet(B) /\ Cardinality(B) \in Nat
    BY <1>1, ProcessesCounted
  <2>3. Cardinality(B) <= Cardinality(A)
    BY <1>1, <2>1, FS_Subset
  <2> QED BY <2>1, <2>2, <2>3
<1>4. Cardinality(P) <= Cardinality(O) /\ Cardinality(P) \in Nat /\ Cardinality(O) \in Nat
  <2>1. IsFiniteSet(O) /\ Cardinality(O) \in Nat
    BY <1>1, <1>2, CallsCounted
  <2>2. IsFiniteSet(P) /\ Cardinality(P) <= Cardinality(O)
    BY <1>2, <2>1, FS_Subset
  <2>3. Cardinality(P) \in Nat
    BY <2>2, FS_CardinalityType
  <2> QED BY <2>1, <2>2, <2>3
<1> HIDE DEF A, B, O, P
<1>5. Cardinality(P) * Top <= Cardinality(O) * Top
  BY <1>4, TopCost, TimesMonotone
<1>6. /\ Cardinality(A) <= Counted(s)
      /\ Limit[s] > 0 /\ spend[s] >= Limit[s] =>
            spend[s] + Cardinality(O) * Top < Limit[s] + Counted(s) * MaxCalls * Top
  BY DEF BudgetInv, WithinPeak, SpendAndOwed, A, O
<1>7. Counted(s) \in Nat /\ spend[s] \in Nat /\ Limit[s] \in Nat
  BY <1>0, SpendingAssumption DEF TypeOK, Counted
<1>8. /\ Cardinality(O) * Top \in Nat /\ Cardinality(P) * Top \in Nat
      /\ Counted(s) * MaxCalls * Top \in Nat
  BY <1>4, <1>7, TopCost, SpendingAssumption, SMTT(20)
<1>9. Cardinality(B) <= Counted(s)
  BY <1>3, <1>6, <1>7
<1>10. Limit[s] > 0 /\ spend[s] >= Limit[s] =>
            spend[s] + Cardinality(P) * Top < Limit[s] + Counted(s) * MaxCalls * Top
  BY <1>5, <1>6, <1>7, <1>8
<1> QED
  BY <1>9, <1>10 DEF B, P

(* A process starts.  The scopes in S are at or past their limits, and     *)
(* count it apart; the others of its run are below theirs, and their peak  *)
(* counts it; the scopes of other runs do not change.                      *)
LEMMA StartWithinBudget ==
  ASSUME IInv, BudgetInv, NEW h \in Harnesses, NEW S \in SUBSET ScopesOf(h),
         spend' = spend, records' = records, server' = server,
         client' = [client EXCEPT ![h] = "idle"],
         NotePeak(ScopesOf(h) \ S),
         \A s \in Scopes : extra'[s] = IF s \in S THEN extra[s] + 1 ELSE extra[s],
         \A s \in ScopesOf(h) \ S : ~(Limit[s] > 0 /\ spend[s] >= Limit[s])
  PROVE  BudgetInv'
<1>0. TypeOK
  BY DEF IInv
<1> SUFFICES ASSUME NEW s \in Scopes
             PROVE  /\ Cardinality(Active(s)') <= Counted(s)'
                    /\ Limit[s] > 0 /\ spend[s] >= Limit[s] =>
                          spend[s] + Cardinality(Owed(s)') * Top
                             < Limit[s] + Counted(s)' * MaxCalls * Top
  BY DEF BudgetInv, WithinPeak, SpendAndOwed
<1>1. /\ peak[s] \in Nat /\ extra[s] \in Nat /\ Counted(s) \in Nat
      /\ spend[s] \in Nat /\ Limit[s] \in Nat /\ MaxCalls \in Nat /\ Top \in Nat
  BY <1>0, SpendingAssumption, TopCost, SMTT(20) DEF TypeOK, Counted
<1>2. peak'[s] = IF s \in ScopesOf(h) \ S THEN Max({peak[s], Cardinality(Active(s)) + 1})
                                          ELSE peak[s]
  BY DEF NotePeak
<1>3. /\ Cardinality(Active(s)) <= Counted(s)
      /\ Limit[s] > 0 /\ spend[s] >= Limit[s] =>
            spend[s] + Cardinality(Owed(s)) * Top < Limit[s] + Counted(s) * MaxCalls * Top
  BY DEF BudgetInv, WithinPeak, SpendAndOwed
<1>4. Active(s)' \subseteq Active(s) \cup {h} /\ (s \notin ScopesOf(h) => Active(s)' = Active(s))
  BY <1>0 DEF Active, TypeOK
<1>5. Active(s) \subseteq Harnesses /\ Owed(s) \subseteq Active(s) \X (1..MaxCalls)
  BY DEF Active, Owed
<1>6. CASE s \notin ScopesOf(h)
  <2>1. Counted(s)' = Counted(s)
    BY <1>2, <1>6 DEF Counted
  <2>2. Owed(s)' = Owed(s)
    BY <1>4, <1>6 DEF Owed
  <2> QED BY <1>3, <1>4, <1>6, <2>1, <2>2
<1>7. CASE s \in ScopesOf(h)
  <2> DEFINE A == Active(s)  B == Active(s)'
  <2>1. IsFiniteSet(A) /\ Cardinality(A) \in Nat
    BY <1>5, ProcessesCounted
  <2>2. Cardinality(B) \in Nat /\ Cardinality(B) <= Cardinality(A) + 1
    <3>1. /\ IsFiniteSet(A \cup {h})
          /\ Cardinality(A \cup {h}) = IF h \in A THEN Cardinality(A) ELSE Cardinality(A) + 1
      BY <2>1, FS_AddElement
    <3>2. IsFiniteSet(B) /\ Cardinality(B) <= Cardinality(A \cup {h})
      BY <1>4, <3>1, FS_Subset
    <3>3. Cardinality(B) \in Nat
      BY <3>2, FS_CardinalityType
    <3> HIDE DEF A, B
    <3> QED BY <2>1, <3>1, <3>2, <3>3
  <2>3. CASE s \notin S
    <3>1. Counted(s)' = Max({peak[s], Cardinality(A) + 1}) + extra[s]
      BY <1>2, <1>7, <2>3 DEF Counted
    <3>2. ~(Limit[s] > 0 /\ spend[s] >= Limit[s])
      BY <1>7, <2>3
    <3> HIDE DEF A
    <3>3. /\ Max({peak[s], Cardinality(A) + 1}) \in Nat
          /\ Max({peak[s], Cardinality(A) + 1}) >= Cardinality(A) + 1
      BY <1>1, <2>1, MaxOfTwo
    <3>4. Cardinality(B) <= Counted(s)'
      <4> HIDE DEF B
      <4> QED BY <1>1, <2>1, <2>2, <3>1, <3>3
    <3> QED BY <3>2, <3>4
  <2>4. CASE s \in S
    <3>1. Counted(s)' = Counted(s) + 1
      BY <1>1, <1>2, <2>4 DEF Counted
    <3>2. Cardinality(B) <= Counted(s)'
      <4>1. Cardinality(A) <= Counted(s)
        BY <1>3
      <4> HIDE DEF A, B
      <4> QED BY <1>1, <2>1, <2>2, <3>1, <4>1
    <3> DEFINE O == Owed(s)  P == Owed(s)'  N == {h} \X (1..MaxCalls)
    <3>3. Cardinality(P) \in Nat /\ Cardinality(O) \in Nat
          /\ Cardinality(P) <= Cardinality(O) + MaxCalls
      <4>1. IsFiniteSet(O) /\ Cardinality(O) \in Nat
        BY <1>5, CallsCounted
      <4>2. IsFiniteSet(N) /\ Cardinality(N) \in Nat /\ Cardinality(N) <= MaxCalls
        <5>1. {h} \in SUBSET Harnesses /\ N \in SUBSET ({h} \X (1..MaxCalls))
          OBVIOUS
        <5>2. IsFiniteSet(N) /\ Cardinality(N) \in Nat /\ Cardinality(N) <= Cardinality({h}) * MaxCalls
          BY <5>1, CallsCounted
        <5>3. Cardinality({h}) = 1
          BY FS_Singleton
        <5> HIDE DEF N
        <5> QED BY <1>1, <5>2, <5>3
      <4>3. P \subseteq O \cup N
        <5>1. P \subseteq Active(s)' \X (1..MaxCalls) /\ \A p \in P : p[2] > records[p[1]]
          BY DEF Owed
        <5>2. ASSUME NEW p \in P PROVE p \in O \cup N
          <6>1. PICK g \in Active(s) \cup {h}, i \in 1..MaxCalls : p = <<g, i>>
            BY <1>4, <5>1
          <6>2. p[2] > records[p[1]]
            BY <5>1
          <6>3. CASE g \in Active(s)
            BY <6>1, <6>2, <6>3 DEF Owed
          <6>4. CASE g = h
            BY <6>1, <6>4
          <6> QED BY <6>1, <6>3, <6>4
        <5> QED BY <5>2
      <4> HIDE DEF O, P, N
      <4>4. /\ IsFiniteSet(O \cup N)
            /\ Cardinality(O \cup N) = Cardinality(O) + Cardinality(N) - Cardinality(O \cap N)
        BY <4>1, <4>2, FS_Union
      <4>5. Cardinality(O \cap N) \in Nat
        <5>1. IsFiniteSet(O \cap N)
          BY <4>1, FS_Intersection
        <5> QED BY <5>1, FS_CardinalityType
      <4>6. IsFiniteSet(P) /\ Cardinality(P) <= Cardinality(O \cup N)
        BY <4>3, <4>4, FS_Subset
      <4>7. Cardinality(P) \in Nat
        BY <4>6, FS_CardinalityType
      <4> QED BY <1>1, <4>1, <4>2, <4>4, <4>5, <4>6, <4>7
    <3>4. Limit[s] > 0 /\ spend[s] >= Limit[s] =>
            spend[s] + Cardinality(O) * Top < Limit[s] + Counted(s) * MaxCalls * Top
      BY <1>3
    <3> HIDE DEF O, P, N
    <3>5. Cardinality(P) * Top <= Cardinality(O) * Top + MaxCalls * Top
      <4>1. Cardinality(O) + MaxCalls \in Nat
        BY <1>1, <3>3
      <4>2. Cardinality(P) * Top <= (Cardinality(O) + MaxCalls) * Top
        BY <1>1, <3>3, <4>1, TimesMonotone
      <4>3. (Cardinality(O) + MaxCalls) * Top = Cardinality(O) * Top + MaxCalls * Top
        BY <1>1, <3>3
      <4> QED BY <4>2, <4>3
    <3>6. Counted(s)' * MaxCalls * Top = Counted(s) * MaxCalls * Top + MaxCalls * Top
      BY <1>1, <3>1
    <3>7. /\ Cardinality(P) * Top \in Nat /\ Cardinality(O) * Top \in Nat
          /\ MaxCalls * Top \in Nat /\ Counted(s) * MaxCalls * Top \in Nat
      BY <1>1, <3>3
    <3>8. Limit[s] > 0 /\ spend[s] >= Limit[s] =>
            spend[s] + Cardinality(P) * Top < Limit[s] + Counted(s)' * MaxCalls * Top
      BY <1>1, <3>4, <3>5, <3>6, <3>7
    <3> QED BY <3>2, <3>8 DEF P
  <2> QED BY <2>3, <2>4
<1> QED BY <1>6, <1>7

LEMMA ScopesBelow ==
  ASSUME NEW h \in Harnesses
  PROVE  ScopesOf(h) \subseteq Scopes
BY SpendingAssumption DEF ScopesOf, Scopes

(* An admission: every scope of the run is below its limit. *)
LEMMA AdmitWithinBudget ==
  ASSUME IInv, BudgetInv, NEW h \in Harnesses, Admit(h)
  PROVE  BudgetInv'
<1>1. /\ spend' = spend /\ records' = records /\ server' = server /\ extra' = extra
      /\ client' = [client EXCEPT ![h] = "idle"]
  BY DEF Admit, trackerVars, routerVars
<1>2. NotePeak(ScopesOf(h) \ {})
  <2>1. ScopesOf(h) \ {} = ScopesOf(h)
    OBVIOUS
  <2> QED BY <2>1 DEF Admit
<1>3. \A s \in ScopesOf(h) \ {} : ~(Limit[s] > 0 /\ spend[s] >= Limit[s])
  <2>1. \A s \in ScopesOf(h) : spend[s] \in Nat /\ Limit[s] \in Nat
    BY ScopesBelow, SpendingAssumption DEF IInv, TypeOK
  <2> QED BY <2>1 DEF Admit, CheckBudget
<1>4. \A s \in Scopes : extra'[s] = IF s \in {} THEN extra[s] + 1 ELSE extra[s]
  BY <1>1
<1>5. {} \in SUBSET ScopesOf(h)
  OBVIOUS
<1> QED BY <1>1, <1>2, <1>3, <1>4, <1>5, StartWithinBudget

(* A restart: no budget is checked. *)
LEMMA RestartWithinBudget ==
  ASSUME IInv, BudgetInv, NEW h \in Harnesses, Restart(h)
  PROVE  BudgetInv'
<1>1. /\ spend' = spend /\ records' = records /\ server' = server
      /\ client' = [client EXCEPT ![h] = "idle"]
      /\ NotePeak(ScopesOf(h) \ AtLimit(h))
  BY DEF Restart, trackerVars, routerVars
<1>2. \A s \in Scopes : extra'[s] = IF s \in AtLimit(h) THEN extra[s] + 1 ELSE extra[s]
  BY DEF Restart
<1>3. /\ AtLimit(h) \in SUBSET ScopesOf(h)
      /\ \A s \in ScopesOf(h) \ AtLimit(h) : ~(Limit[s] > 0 /\ spend[s] >= Limit[s])
  BY DEF AtLimit
<1> QED BY <1>1, <1>2, <1>3, StartWithinBudget

(* A record: what it adds to the spend of a scope it takes from what the   *)
(* scope's processes may still spend.                                      *)
LEMMA RecordWithinBudget ==
  ASSUME IInv, BudgetInv, NEW h \in Harnesses, Record(h)
  PROVE  BudgetInv'
<1>0. TypeOK /\ Ledger
  BY DEF IInv
<1>1. PICK usd \in Costs : AddSpend(h, cost(model[h], usd))
  BY DEF Record
<1> DEFINE c == cost(model[h], usd)
<1>2. c \in Nat /\ c <= Top /\ Top \in Nat
  BY CostBound, TopCost
<1> HIDE DEF c
<1>3. /\ \A s \in Scopes : spend'[s] = IF s \in ScopesOf(h) THEN spend[s] + c ELSE spend[s]
      /\ records' = [records EXCEPT ![h] = @ + 1]
  BY <1>1 DEF AddSpend, c
<1>4. /\ server[h] = "record" /\ server' = [server EXCEPT ![h] = "reply"]
      /\ client' = client /\ \A s \in Scopes : Counted(s)' = Counted(s)
  BY DEF Record, clientVars, historyVars, Counted
<1>5. records[h] \in Nat /\ records[h] + 1 \in 1..MaxCalls
  BY <1>0, <1>4, SpendingAssumption DEF TypeOK, Ledger
<1>6. ASSUME NEW s \in Scopes PROVE Active(s)' = Active(s)
  BY <1>0, <1>4 DEF Active, TypeOK
<1>7. \A q \in Harnesses : records'[q] = IF q = h THEN records[h] + 1 ELSE records[q]
  BY <1>0, <1>3 DEF TypeOK
<1>8. \A q \in Harnesses : records[q] \in Nat
  BY <1>0, SpendingAssumption DEF TypeOK
<1>9. ASSUME NEW s \in Scopes
      PROVE  Owed(s)' = IF s \in ScopesOf(h) THEN Owed(s) \ {<<h, records[h] + 1>>} ELSE Owed(s)
  <2>1. Active(s) \subseteq Harnesses /\ (h \in Active(s) <=> s \in ScopesOf(h))
    BY <1>4 DEF Active
  <2>2. Owed(s)' = {p \in Active(s) \X (1..MaxCalls) : p[2] > records'[p[1]]}
    BY <1>6 DEF Owed
  <2>3. ASSUME NEW q \in Active(s), NEW i \in 1..MaxCalls
        PROVE  i > records'[q] <=> i > records[q] /\ (q = h => i # records[h] + 1)
    <3>1. q \in Harnesses /\ i \in Nat /\ records[q] \in Nat
      BY <1>8, <2>1
    <3> QED BY <1>5, <1>7, <3>1
  <2>4. ASSUME NEW p \in Active(s) \X (1..MaxCalls)
        PROVE  p[2] > records'[p[1]] <=> p[2] > records[p[1]] /\ p # <<h, records[h] + 1>>
    <3>1. p = <<p[1], p[2]>> /\ p[1] \in Active(s) /\ p[2] \in 1..MaxCalls
      OBVIOUS
    <3>2. p[2] > records'[p[1]] <=> p[2] > records[p[1]] /\ (p[1] = h => p[2] # records[h] + 1)
      BY <2>3, <3>1
    <3>3. p = <<h, records[h] + 1>> <=> p[1] = h /\ p[2] = records[h] + 1
      BY <3>1
    <3> QED BY <3>2, <3>3
  <2>5. Owed(s)' = Owed(s) \ {<<h, records[h] + 1>>}
    BY <2>2, <2>4 DEF Owed
  <2>6. s \notin ScopesOf(h) => <<h, records[h] + 1>> \notin Owed(s)
    BY <2>1 DEF Owed
  <2> QED BY <2>5, <2>6
<1>10. ASSUME NEW s \in Scopes, s \in ScopesOf(h) PROVE <<h, records[h] + 1>> \in Owed(s)
  <2>1. h \in Active(s)
    BY <1>4, <1>10 DEF Active
  <2>2. records[h] + 1 > records[h]
    BY <1>5
  <2> QED BY <1>5, <2>1, <2>2 DEF Owed
<1>11. WithinPeak'
  <2> SUFFICES ASSUME NEW s \in Scopes PROVE Cardinality(Active(s)') <= Counted(s)'
    BY DEF WithinPeak
  <2> QED BY <1>4, <1>6 DEF BudgetInv, WithinPeak
<1>12. SpendAndOwed'
  <2> SUFFICES ASSUME NEW s \in Scopes, Limit[s] > 0, spend'[s] >= Limit[s]
               PROVE  spend'[s] + Cardinality(Owed(s)') * Top
                         < Limit[s] + Counted(s)' * MaxCalls * Top
    BY DEF SpendAndOwed
  <2> DEFINE n == Cardinality(Owed(s))  a == Cardinality(Active(s))
  <2>1. n \in Nat /\ n <= a * MaxCalls /\ a \in Nat /\ IsFiniteSet(Owed(s))
    <3>1. Active(s) \subseteq Harnesses /\ Owed(s) \subseteq Active(s) \X (1..MaxCalls)
      BY DEF Active, Owed
    <3> QED BY <3>1, CallsCounted, ProcessesCounted
  <2>2. a <= Counted(s)
    BY DEF BudgetInv, WithinPeak
  <2>3. spend[s] >= Limit[s] => spend[s] + n * Top < Limit[s] + Counted(s) * MaxCalls * Top
    BY DEF BudgetInv, SpendAndOwed
  <2>4. spend[s] \in Nat /\ Limit[s] \in Nat /\ Counted(s) \in Nat /\ MaxCalls \in Nat
    BY <1>0, SpendingAssumption, SMTT(20) DEF TypeOK, Counted
  <2>5. CASE s \notin ScopesOf(h)
    BY <1>3, <1>4, <1>9, <2>3, <2>5
  <2>6. CASE s \in ScopesOf(h)
    <3>1. Cardinality(Owed(s)') = n - 1
      <4>1. Cardinality(Owed(s) \ {<<h, records[h] + 1>>}) = Cardinality(Owed(s)) - 1
        BY <1>10, <2>1, <2>6, FS_RemoveElement
      <4> QED BY <1>9, <2>6, <4>1
    <3>2. spend'[s] = spend[s] + c /\ Counted(s)' = Counted(s)
      BY <1>3, <1>4, <2>6
    <3> HIDE DEF n, a
    <3>3. n * Top <= Counted(s) * MaxCalls * Top
      <4>1. a * MaxCalls <= Counted(s) * MaxCalls
        BY <2>1, <2>2, <2>4, TimesMonotone
      <4>2. a * MaxCalls \in Nat /\ Counted(s) * MaxCalls \in Nat
        BY <2>1, <2>4
      <4>3. n <= Counted(s) * MaxCalls
        BY <2>1, <4>1, <4>2
      <4> QED BY <1>2, <2>1, <4>2, <4>3, TimesMonotone
    <3>4. (n - 1) * Top = n * Top - Top
      BY <1>2, <2>1
    <3>5. n * Top \in Nat /\ Counted(s) * MaxCalls * Top \in Nat
      BY <1>2, <2>1, <2>4
    <3>6. spend[s] + c + (n * Top - Top) < Limit[s] + Counted(s) * MaxCalls * Top
      <4>1. spend[s] + n * Top < Limit[s] + Counted(s) * MaxCalls * Top
        BY <2>3, <2>4, <3>3, <3>5
      <4> QED BY <1>2, <2>4, <3>5, <4>1
    <3> QED BY <3>1, <3>2, <3>4, <3>6
  <2> QED BY <2>5, <2>6
<1> QED
  BY <1>11, <1>12 DEF BudgetInv

LEMMA BudgetStep == IInv /\ BudgetInv /\ [Next]_vars => BudgetInv'
<1> SUFFICES ASSUME IInv, BudgetInv, [Next]_vars PROVE BudgetInv'
  OBVIOUS
<1>0. TypeOK /\ Ledger
  BY DEF IInv
<1>1. ASSUME NEW h \in Harnesses, Admit(h) PROVE BudgetInv'
  BY <1>1, AdmitWithinBudget
<1>2. ASSUME NEW h \in Harnesses, Restart(h) PROVE BudgetInv'
  BY <1>2, RestartWithinBudget
<1>3. ASSUME NEW h \in Harnesses, Record(h) PROVE BudgetInv'
  BY <1>3, RecordWithinBudget
<1>4. ASSUME NEW h \in Harnesses,
             \/ BudgetExceeded(h) \/ Ask(h) \/ Unauthorized(h) \/ Finish(h) \/ GiveUp(h)
             \/ Cancelled(h) \/ Skip(h) \/ Wait(h) \/ Answer(h) \/ Failure(h)
             \/ Exhausted(h) \/ Respond(h)
      PROVE  BudgetInv'
  <2>1. UNCHANGED <<spend, records, peak, extra>>
    BY <1>4 DEF BudgetExceeded, Ask, Unauthorized, Finish, GiveUp, Cancelled, Skip, Wait,
       Answer, Failure, Exhausted, Respond, trackerVars, historyVars
  <2>2. \A q \in Harnesses \ {h} : client'[q] = client[q] /\ server'[q] = server[q]
    BY <1>0, <1>4 DEF BudgetExceeded, Ask, Unauthorized, Finish, GiveUp, Cancelled, Skip, Wait,
       Answer, Failure, Exhausted, Respond, clientVars, routerVars, TypeOK
  <2>3. client'[h] \in {"idle", "asking"} \/ server'[h] # "none" =>
          client[h] \in {"idle", "asking"} \/ server[h] # "none"
    BY <1>0, <1>4 DEF BudgetExceeded, Ask, Unauthorized, Finish, GiveUp, Cancelled, Skip, Wait,
       Answer, Failure, Exhausted, Respond, clientVars, routerVars, TypeOK
  <2>4. \A s \in Scopes : Active(s)' \subseteq Active(s)
    BY <2>2, <2>3 DEF Active
  <2> QED BY <2>1, <2>4, SpendsNothing
<1>5. CASE UNCHANGED vars
  <2>1. UNCHANGED <<spend, records, peak, extra, client, server>>
    BY <1>5 DEF vars
  <2>2. \A s \in Scopes : Active(s)' \subseteq Active(s)
    BY <2>1 DEF Active
  <2> QED BY <2>1, <2>2, SpendsNothing
<1> QED
  BY <1>1, <1>2, <1>3, <1>4, <1>5 DEF Next, Handler

(* A scope passes its limit by less than what the processes that were      *)
(* active together within the limit, and those started again at or past    *)
(* it, can spend: every process, of any number, is charged through its     *)
(* last call, answers that came too late for the client included           *)
(* (tracker.go CheckBudget and Record, orchestrator.go Enqueue,            *)
(* reconciler.go sessionPod).                                              *)
THEOREM OverspendIsBounded == Spec => []OverspendBounded
<1>1. IInv /\ BudgetInv => OverspendBounded
  <2> SUFFICES ASSUME IInv, BudgetInv, NEW s \in Scopes, Limit[s] > 0, spend[s] >= Limit[s]
               PROVE  spend[s] < Limit[s] + Counted(s) * MaxCalls * Top
    BY DEF OverspendBounded, Top, Counted
  <2> DEFINE n == Cardinality(Owed(s))
  <2>1. n \in Nat
    <3>1. Active(s) \subseteq Harnesses /\ Owed(s) \subseteq Active(s) \X (1..MaxCalls)
      BY DEF Active, Owed
    <3> QED BY <3>1, CallsCounted
  <2>2. spend[s] + n * Top < Limit[s] + Counted(s) * MaxCalls * Top
    BY DEF BudgetInv, SpendAndOwed
  <2> HIDE DEF n
  <2>3. spend[s] \in Nat /\ Limit[s] \in Nat /\ Counted(s) \in Nat /\ MaxCalls \in Nat /\ Top \in Nat
    BY TopCost, SpendingAssumption DEF IInv, TypeOK, Counted
  <2>4. n * Top \in Nat /\ Counted(s) * MaxCalls * Top \in Nat
    BY <2>1, <2>3
  <2> QED BY <2>2, <2>3, <2>4
<1>2. Init => BudgetInv
  BY BudgetInit
<1>3. IInv /\ BudgetInv /\ [Next]_vars => BudgetInv'
  BY BudgetStep
<1> QED
  BY <1>1, <1>2, <1>3, Invariance, PTL DEF Spec

=============================================================================
