---------------------------- MODULE Harness_proofs ----------------------------
(***************************************************************************)
(* Proofs about the agent loop of Harness.tla, for any set of tools, any   *)
(* grant list, any maxSteps and any number of concurrent Resume calls.     *)
(***************************************************************************)
EXTENDS Harness, TLAPS

-----------------------------------------------------------------------------
(* The inductive invariant, in named parts. *)

(* The grant list given to Run travels unchanged through every checkpoint. *)
GrantsCarried ==
  /\ \A c \in Invocations : st[c].GrantedTools = grants
  /\ ckpt # NoCheckpoint => ckpt.GrantedTools = grants

(* Only a granted tool that requires approval is ever pending. *)
PendingIsGranted ==
  /\ \A c \in Invocations : st[c].PendingTool \in (grants \cap Approval) \cup {NoTool}
  /\ ckpt # NoCheckpoint => ckpt.PendingTool \in (grants \cap Approval) \cup {NoTool}

(* An invocation about to execute has passed the gate. *)
ReadyToExecute ==
  \A c \in Invocations :
    /\ pc[c] = "exec" => tool[c] \in (grants \cap Tools) \ Approval
    /\ pc[c] = "execApproved" => /\ tool[c] \in grants \cap Approval
                                 /\ CallOf(c) \in approvals

(* What an invocation has executed lies behind it: it has done nothing yet *)
(* when it starts or resumes, and a new completion has a new step.         *)
ExecutedIsPast ==
  \A e \in execs :
    /\ pc[e.by] \notin {"idle", "execApproved"}
    /\ e.step <= st[e.by].Step
    /\ pc[e.by] = "exec" => e.step < st[e.by].Step

IInv ==
  /\ TypeOK
  /\ GrantsCarried
  /\ PendingIsGranted
  /\ ReadyToExecute
  /\ ExecutedIsPast
  /\ ApprovalBeforeExecution
  /\ OnlyGrantedTools

-----------------------------------------------------------------------------
(* Type correctness. *)

(* The states the loop builds from a RunState are RunStates. *)
LEMMA EntryType ==
  ASSUME NEW r \in {"assistant", "approved", "tool"},
         NEW t \in Names \cup {NoTool}, NEW s \in 0..MaxSteps
  PROVE  Entry(r, t, s) \in Message
BY DEF Entry, Message

LEMMA FreshType ==
  ASSUME NEW g \in SUBSET Names
  PROVE  /\ Fresh(g) \in RunState
         /\ Fresh(g).GrantedTools = g
         /\ Fresh(g).PendingTool = NoTool
BY HarnessAssumption DEF Fresh, RunState, Statuses, Finals

LEMMA AdvanceType ==
  ASSUME NEW s \in RunState, ~OutOfSteps(s)
  PROVE  /\ Advance(s) \in RunState
         /\ Advance(s).Step = s.Step + 1
         /\ Advance(s).PendingTool = s.PendingTool
         /\ Advance(s).GrantedTools = s.GrantedTools
<1>1. s.Step \in 0..MaxSteps /\ s.Step + 1 \in 0..MaxSteps
  BY HarnessAssumption DEF RunState, OutOfSteps
<1>2. Entry("assistant", NoTool, s.Step + 1) \in Message
  BY <1>1, EntryType
<1> QED
  BY <1>1, <1>2 DEF Advance, RunState

LEMMA ExecutedType ==
  ASSUME NEW s \in RunState, NEW t \in Names \cup {NoTool}
  PROVE  /\ Executed(s, t) \in RunState
         /\ Executed(s, t).Step = s.Step
         /\ Executed(s, t).PendingTool = s.PendingTool
         /\ Executed(s, t).GrantedTools = s.GrantedTools
<1>1. Entry("tool", t, s.Step) \in Message
  BY EntryType DEF RunState
<1> QED
  BY <1>1 DEF Executed, RunState

LEMMA ApprovedType ==
  ASSUME NEW s \in RunState
  PROVE  /\ Approved(s) \in RunState
         /\ Approved(s).Step = s.Step
         /\ Approved(s).PendingTool = s.PendingTool
         /\ Approved(s).GrantedTools = s.GrantedTools
<1>1. Entry("approved", s.PendingTool, s.Step) \in Message
  BY EntryType DEF RunState
<1> QED
  BY <1>1 DEF Approved, RunState

LEMMA TypeInit == Init => TypeOK
<1> SUFFICES ASSUME Init PROVE TypeOK
  OBVIOUS
<1>1. Fresh(grants) \in RunState
  BY FreshType DEF Init
<1> QED
  BY <1>1, HarnessAssumption DEF Init, TypeOK, PCs

(* ReadyToExecute is needed for the call that Execute records. *)
LEMMA TypeStep == TypeOK /\ ReadyToExecute /\ [Next]_vars => TypeOK'
<1> SUFFICES ASSUME TypeOK, ReadyToExecute, [Next]_vars PROVE TypeOK'
  OBVIOUS
<1> USE DEF TypeOK
<1>a. \A c \in Invocations :
        CallOf(c) \in [by : Invocations, tool : Names \cup {NoTool}, step : 0..MaxSteps]
  BY DEF CallOf, RunState
<1>1. CASE Run(Runner)
  <2>1. Fresh(grants) \in RunState /\ Runner \in Invocations
    BY FreshType DEF Invocations
  <2> QED BY <1>1, <2>1 DEF Run, Start, Goto, PCs
<1>2. ASSUME NEW c \in Resumers, Resume(c) PROVE TypeOK'
  <2>0. c \in Invocations
    BY DEF Invocations
  <2>1. CASE ResumeLoadError(c) \/ ResumeNotPending(c)
    BY <2>0, <2>1 DEF ResumeLoadError, ResumeNotPending, Start, Goto, PCs
  <2>2. ASSUME NEW a \in BOOLEAN, ResumeDecline(c, a) PROVE TypeOK'
    <3>1. ckpt \in RunState
      BY <2>2 DEF ResumeDecline, ResumeAccepts
    <3>2. [ckpt EXCEPT !.Status = "done", !.FinalText = "declined",
                       !.PendingTool = NoTool] \in RunState
      BY <3>1 DEF RunState, Statuses, Finals
    <3> QED BY <2>0, <2>2, <3>2 DEF ResumeDecline, Start, Goto, PCs
  <2>3. ASSUME NEW a \in BOOLEAN, ResumeApprove(c, a) PROVE TypeOK'
    <3>1. ckpt \in RunState
      BY <2>3 DEF ResumeApprove, ResumeAccepts
    <3>2. Approved(ckpt) \in RunState
      BY <3>1, ApprovedType
    <3>3. ckpt.PendingTool \in Names /\ ckpt.Step \in 0..MaxSteps
      BY <2>3, <3>1, HarnessAssumption DEF ResumeApprove, RunState
    <3>4. [by |-> c, tool |-> ckpt.PendingTool, step |-> ckpt.Step] \in Call
      BY <2>0, <3>3 DEF Call
    <3> QED BY <2>0, <2>3, <3>2, <3>3, <3>4 DEF ResumeApprove, Start, Goto, PCs
  <2> QED BY <1>2, <2>1, <2>2, <2>3 DEF Resume
<1>3. ASSUME NEW c \in Invocations, Loop(c) PROVE TypeOK'
  <2>0. st[c] \in RunState
    OBVIOUS
  <2>1. CASE MaxStepsReached(c)
    <3>1. [st[c] EXCEPT !.Status = "done", !.FinalText = ""] \in RunState
      BY <2>0 DEF RunState, Statuses, Finals
    <3> QED BY <2>1, <3>1 DEF MaxStepsReached, Goto, PCs
  <2>2. CASE CompleteError(c)
    BY <2>2 DEF CompleteError, Goto, PCs
  <2>3. CASE CompleteEndTurn(c)
    <3>1. Advance(st[c]) \in RunState
      BY <2>0, <2>3, AdvanceType DEF CompleteEndTurn
    <3>2. [Advance(st[c]) EXCEPT !.Status = "done", !.FinalText = "text"] \in RunState
      BY <3>1 DEF RunState, Statuses, Finals
    <3> QED BY <2>3, <3>2 DEF CompleteEndTurn, Goto, PCs
  <2>4. ASSUME NEW n \in Names, CompleteUnknownTool(c, n) PROVE TypeOK'
    <3>1. Advance(st[c]) \in RunState
      BY <2>0, <2>4, AdvanceType DEF CompleteUnknownTool
    <3>2. [Advance(st[c]) EXCEPT !.Status = "done", !.FinalText = ""] \in RunState
      BY <3>1 DEF RunState, Statuses, Finals
    <3> QED BY <2>4, <3>2 DEF CompleteUnknownTool, Goto, PCs
  <2>5. ASSUME NEW n \in Names, CompletePause(c, n) PROVE TypeOK'
    <3>1. Advance(st[c]) \in RunState
      BY <2>0, <2>5, AdvanceType DEF CompletePause
    <3>2. [Advance(st[c]) EXCEPT !.Status = "awaiting_approval", !.PendingTool = n]
            \in RunState
      BY <3>1 DEF RunState, Statuses
    <3> QED BY <2>5, <3>2 DEF CompletePause, Goto, PCs
  <2>6. ASSUME NEW n \in Names, CompleteTool(c, n) PROVE TypeOK'
    <3>1. Advance(st[c]) \in RunState
      BY <2>0, <2>6, AdvanceType DEF CompleteTool
    <3> QED BY <2>6, <3>1 DEF CompleteTool, Goto, PCs
  <2>7. CASE Execute(c)
    <3>1. Executed(st[c], tool[c]) \in RunState
      BY <2>0, ExecutedType
    <3>2. CallOf(c) \in Call
      BY <2>7, <2>0, HarnessAssumption DEF Execute, CallOf, Call, ReadyToExecute, RunState
    <3> QED BY <2>7, <3>1, <3>2 DEF Execute, Goto, PCs
  <2>8. CASE SaveAndLoop(c) \/ SaveAndReturn(c)
    BY <1>a, <2>0, <2>8 DEF SaveAndLoop, SaveAndReturn, Save, NoteSave, Goto, PCs
  <2>9. CASE ExecuteApproved(c)
    <3>1. Executed(st[c], tool[c]) \in RunState
      BY <2>0, ExecutedType
    <3>2. [Executed(st[c], tool[c]) EXCEPT !.PendingTool = NoTool] \in RunState
      BY <3>1 DEF RunState
    <3>3. CallOf(c) \in Call
      BY <2>9, <2>0, HarnessAssumption DEF ExecuteApproved, CallOf, Call, ReadyToExecute, RunState
    <3> QED BY <2>9, <3>2, <3>3 DEF ExecuteApproved, Goto, PCs
  <2>10. CASE SaveAndRun(c)
    <3>1. [st[c] EXCEPT !.Status = "running"] \in RunState
      BY <2>0 DEF RunState, Statuses
    <3> QED BY <1>a, <2>0, <2>10, <3>1 DEF SaveAndRun, Save, NoteSave, Goto, PCs
  <2> QED BY <1>3, <2>1, <2>2, <2>3, <2>4, <2>5, <2>6, <2>7, <2>8, <2>9, <2>10 DEF Loop
<1>4. ASSUME NEW c \in Invocations, Crash(c) PROVE TypeOK'
  BY <1>a, <1>4 DEF Crash, NoteSave, Goto, PCs
<1>5. CASE UNCHANGED vars
  BY <1>5 DEF vars
<1> QED BY <1>1, <1>2, <1>3, <1>4, <1>5 DEF Next

-----------------------------------------------------------------------------
(* The approval gate. *)

LEMMA InvInit == Init => IInv
<1> SUFFICES ASSUME Init PROVE IInv
  OBVIOUS
<1>1. TypeOK
  BY TypeInit
<1>2. \A c \in Invocations : /\ st[c].GrantedTools = grants
                             /\ st[c].PendingTool = NoTool
                             /\ pc[c] = "idle"
  BY DEF Init, Fresh
<1>3. ckpt = NoCheckpoint /\ execs = {}
  BY DEF Init
<1> QED
  BY <1>1, <1>2, <1>3 DEF IInv, GrantsCarried, PendingIsGranted, ReadyToExecute,
     ExecutedIsPast, ApprovalBeforeExecution, OnlyGrantedTools

(* A step that executes nothing and leads to no execution preserves the    *)
(* invariant if it keeps the grant list, makes only granted sensitive      *)
(* tools pending, does not step back (unless the invocation is just        *)
(* starting) and saves nothing but the invocation's state.                 *)
LEMMA QuietStep ==
  ASSUME IInv, TypeOK',
         NEW c \in Invocations,
         NEW label \in {"loop", "saveReturn", "returned", "crashed"},
         pc' = [pc EXCEPT ![c] = label],
         st'[c].GrantedTools = grants,
         st'[c].PendingTool \in (grants \cap Approval) \cup {NoTool},
         pc[c] = "idle" \/ st'[c].Step >= st[c].Step,
         \A d \in Invocations \ {c} : st'[d] = st[d],
         ckpt' = ckpt \/ ckpt' = st[c],
         UNCHANGED <<tool, grants, approvals, execs>>
  PROVE  IInv'
<1>1. GrantsCarried'
  BY DEF IInv, GrantsCarried
<1>2. PendingIsGranted'
  BY DEF IInv, PendingIsGranted
<1>3. ReadyToExecute'
  <2> SUFFICES ASSUME NEW d \in Invocations, pc'[d] \in {"exec", "execApproved"}
               PROVE  /\ pc'[d] = "exec" => tool'[d] \in (grants' \cap Tools) \ Approval
                      /\ pc'[d] = "execApproved" => /\ tool'[d] \in grants' \cap Approval
                                                    /\ CallOf(d)' \in approvals'
    BY DEF ReadyToExecute
  <2>1. d # c /\ pc'[d] = pc[d] /\ st'[d] = st[d]
    BY DEF IInv, TypeOK
  <2> QED
    BY <2>1 DEF IInv, ReadyToExecute, CallOf
<1>4. ExecutedIsPast'
  <2> SUFFICES ASSUME NEW e \in execs
               PROVE  /\ pc'[e.by] \notin {"idle", "execApproved"}
                      /\ e.step <= st'[e.by].Step
                      /\ pc'[e.by] = "exec" => e.step < st'[e.by].Step
    BY DEF ExecutedIsPast
  <2>1. e.by \in Invocations /\ e.step \in Nat
    BY HarnessAssumption DEF IInv, TypeOK, Call
  <2>2. st[e.by].Step \in Nat /\ st'[e.by].Step \in Nat
    BY <2>1, HarnessAssumption DEF IInv, TypeOK, RunState
  <2>3. /\ pc[e.by] \notin {"idle", "execApproved"}
        /\ e.step <= st[e.by].Step
        /\ pc[e.by] = "exec" => e.step < st[e.by].Step
    BY DEF IInv, ExecutedIsPast
  <2>4. CASE e.by = c
    BY <2>1, <2>2, <2>3, <2>4 DEF IInv, TypeOK
  <2>5. CASE e.by # c
    BY <2>1, <2>2, <2>3, <2>5 DEF IInv, TypeOK
  <2> QED
    BY <2>4, <2>5
<1>5. ApprovalBeforeExecution' /\ OnlyGrantedTools'
  BY <1>2 DEF IInv, ApprovalBeforeExecution, OnlyGrantedTools, PendingIsGranted
<1> QED
  BY <1>1, <1>2, <1>3, <1>4, <1>5 DEF IInv

(* The two executions: the call was covered, so what it records is too. *)
LEMMA ExecutingStep ==
  ASSUME IInv, TypeOK',
         NEW c \in Invocations,
         NEW label \in {"saveLoop", "saveRun"},
         pc[c] \in {"exec", "execApproved"},
         pc' = [pc EXCEPT ![c] = label],
         execs' = execs \cup {CallOf(c)},
         st'[c].GrantedTools = grants,
         st'[c].PendingTool \in (grants \cap Approval) \cup {NoTool},
         st'[c].Step = st[c].Step,
         \A d \in Invocations \ {c} : st'[d] = st[d],
         UNCHANGED <<ckpt, tool, grants, approvals>>
  PROVE  IInv'
<1>1. GrantsCarried' /\ PendingIsGranted'
  BY DEF IInv, GrantsCarried, PendingIsGranted
<1>2. ReadyToExecute'
  <2> SUFFICES ASSUME NEW d \in Invocations, pc'[d] \in {"exec", "execApproved"}
               PROVE  /\ pc'[d] = "exec" => tool'[d] \in (grants' \cap Tools) \ Approval
                      /\ pc'[d] = "execApproved" => /\ tool'[d] \in grants' \cap Approval
                                                    /\ CallOf(d)' \in approvals'
    BY DEF ReadyToExecute
  <2>1. d # c /\ pc'[d] = pc[d] /\ st'[d] = st[d]
    BY DEF IInv, TypeOK
  <2> QED
    BY <2>1 DEF IInv, ReadyToExecute, CallOf
<1>3. ExecutedIsPast'
  <2> SUFFICES ASSUME NEW e \in execs'
               PROVE  /\ pc'[e.by] \notin {"idle", "execApproved"}
                      /\ e.step <= st'[e.by].Step
                      /\ pc'[e.by] = "exec" => e.step < st'[e.by].Step
    BY DEF ExecutedIsPast
  <2>1. e.by \in Invocations /\ e.step \in Nat
    BY HarnessAssumption DEF TypeOK, Call
  <2>2. st[e.by].Step \in Nat
    BY <2>1, HarnessAssumption DEF IInv, TypeOK, RunState
  <2>3. CASE e = CallOf(c)
    BY <2>1, <2>2, <2>3 DEF CallOf, IInv, TypeOK
  <2>4. CASE e \in execs
    <3>1. /\ pc[e.by] \notin {"idle", "execApproved"}
          /\ e.step <= st[e.by].Step
          /\ pc[e.by] = "exec" => e.step < st[e.by].Step
      BY <2>4 DEF IInv, ExecutedIsPast
    <3> QED
      BY <2>1, <2>2, <3>1 DEF IInv, TypeOK
  <2> QED
    BY <2>3, <2>4
<1>4. ApprovalBeforeExecution'
  BY DEF IInv, ApprovalBeforeExecution, ReadyToExecute, CallOf
<1>5. OnlyGrantedTools'
  BY <1>1, HarnessAssumption DEF IInv, OnlyGrantedTools, PendingIsGranted, ReadyToExecute, CallOf
<1> QED
  BY <1>1, <1>2, <1>3, <1>4, <1>5 DEF IInv

LEMMA InvStep == IInv /\ [Next]_vars => IInv'
<1> SUFFICES ASSUME IInv, [Next]_vars PROVE IInv'
  OBVIOUS
<1>0. TypeOK /\ TypeOK'
  BY TypeStep DEF IInv
<1> USE <1>0
<1>a. /\ \A c \in Invocations : /\ st[c] \in RunState
                               /\ st[c].GrantedTools = grants
                               /\ st[c].PendingTool \in (grants \cap Approval) \cup {NoTool}
                               /\ st[c].Step \in Nat
      /\ ckpt # NoCheckpoint => /\ ckpt \in RunState
                                /\ ckpt.GrantedTools = grants
                                /\ ckpt.PendingTool \in (grants \cap Approval) \cup {NoTool}
  BY HarnessAssumption DEF IInv, TypeOK, GrantsCarried, PendingIsGranted, RunState
<1>1. CASE Run(Runner)
  <2>0. Runner \in Invocations
    BY DEF Invocations
  <2>1. /\ st'[Runner] = Fresh(grants)
        /\ \A d \in Invocations \ {Runner} : st'[d] = st[d]
    BY <1>1, <2>0 DEF Run, TypeOK
  <2>2. /\ pc[Runner] = "idle" /\ pc' = [pc EXCEPT ![Runner] = "loop"]
        /\ UNCHANGED <<ckpt, tool, grants, approvals, execs>>
    BY <1>1 DEF Run, Start, Goto
  <2>3. st'[Runner].GrantedTools = grants /\ st'[Runner].PendingTool = NoTool
    BY <2>1, FreshType DEF TypeOK
  <2>4. \A d \in Invocations \ {Runner} : st'[d] = st[d]
    BY <2>1
  <2> QED
    BY <2>0, <2>2, <2>3, <2>4, QuietStep
<1>2. ASSUME NEW c \in Resumers, Resume(c) PROVE IInv'
  <2>0. c \in Invocations
    BY DEF Invocations
  <2>1. CASE ResumeLoadError(c) \/ ResumeNotPending(c)
    BY <1>a, <2>0, <2>1, QuietStep DEF ResumeLoadError, ResumeNotPending, Start, Goto
  <2>2. ASSUME NEW a \in BOOLEAN, ResumeDecline(c, a) PROVE IInv'
    <3>1. ckpt \in RunState /\ ckpt.GrantedTools = grants
      BY <1>a, <2>2 DEF ResumeDecline, ResumeAccepts
    <3>2. /\ st'[c] = [ckpt EXCEPT !.Status = "done", !.FinalText = "declined",
                                   !.PendingTool = NoTool]
          /\ \A d \in Invocations \ {c} : st'[d] = st[d]
      BY <2>0, <2>2 DEF ResumeDecline, TypeOK
    <3>3. st'[c].GrantedTools = grants /\ st'[c].PendingTool = NoTool
      BY <3>1, <3>2 DEF RunState
    <3> QED
      BY <2>0, <2>2, <3>2, <3>3, QuietStep DEF ResumeDecline, Start, Goto
  <2>3. ASSUME NEW a \in BOOLEAN, ResumeApprove(c, a) PROVE IInv'
    <3>1. ckpt \in RunState /\ ckpt.GrantedTools = grants
      BY <1>a, <2>3 DEF ResumeApprove, ResumeAccepts
    <3>2. ckpt.PendingTool \in grants \cap Approval
      BY <1>a, <2>3, HarnessAssumption DEF ResumeApprove, ResumeAccepts
    <3>3. /\ st'[c] = Approved(ckpt)
          /\ \A d \in Invocations \ {c} : st'[d] = st[d] /\ tool'[d] = tool[d] /\ pc'[d] = pc[d]
          /\ tool'[c] = ckpt.PendingTool
          /\ pc[c] = "idle" /\ pc'[c] = "execApproved"
      BY <2>0, <2>3 DEF ResumeApprove, TypeOK, Start, Goto
    <3>4. UNCHANGED <<ckpt, grants, execs>>
      BY <2>3 DEF ResumeApprove
    <3>5. /\ approvals \subseteq approvals'
          /\ CallOf(c)' \in approvals'
      BY <2>3, <3>1, <3>3, ApprovedType DEF ResumeApprove, CallOf
    <3>6. /\ st'[c].GrantedTools = grants
          /\ st'[c].PendingTool \in grants \cap Approval
      BY <3>1, <3>2, <3>3, ApprovedType
    <3>7. GrantsCarried' /\ PendingIsGranted'
      BY <1>a, <3>3, <3>4, <3>6 DEF GrantsCarried, PendingIsGranted
    <3>8. ReadyToExecute'
      <4> SUFFICES ASSUME NEW d \in Invocations
                   PROVE  /\ pc'[d] = "exec" => tool'[d] \in (grants' \cap Tools) \ Approval
                          /\ pc'[d] = "execApproved" => /\ tool'[d] \in grants' \cap Approval
                                                        /\ CallOf(d)' \in approvals'
        BY DEF ReadyToExecute
      <4>1. CASE d = c
        BY <3>2, <3>3, <3>4, <3>5, <4>1
      <4>2. CASE d # c
        BY <3>3, <3>4, <3>5, <4>2 DEF IInv, ReadyToExecute, CallOf
      <4> QED BY <4>1, <4>2
    <3>9. ExecutedIsPast'
      BY <3>3, <3>4 DEF IInv, ExecutedIsPast, TypeOK, Call
    <3>10. ApprovalBeforeExecution' /\ OnlyGrantedTools'
      BY <3>4, <3>5 DEF IInv, ApprovalBeforeExecution, OnlyGrantedTools
    <3> QED BY <3>7, <3>8, <3>9, <3>10 DEF IInv
  <2> QED BY <1>2, <2>1, <2>2, <2>3 DEF Resume
<1>3. ASSUME NEW c \in Invocations, Loop(c) PROVE IInv'
  <2>1. CASE MaxStepsReached(c)
    <3>1. /\ st'[c] = [st[c] EXCEPT !.Status = "done", !.FinalText = ""]
          /\ \A d \in Invocations \ {c} : st'[d] = st[d]
      BY <2>1 DEF MaxStepsReached, TypeOK
    <3>2. /\ st'[c].GrantedTools = st[c].GrantedTools /\ st'[c].Step = st[c].Step
          /\ st'[c].PendingTool = st[c].PendingTool
      BY <1>a, <3>1 DEF RunState
    <3>4. pc' = [pc EXCEPT ![c] = "saveReturn"] /\ UNCHANGED <<ckpt, tool, grants, approvals, execs>>
      BY <2>1 DEF MaxStepsReached, Goto
    <3>5. st'[c].Step >= st[c].Step
      BY <1>a, <3>2
    <3> QED BY <1>a, <3>1, <3>2, <3>4, <3>5, QuietStep
  <2>2. CASE CompleteError(c)
    <3>1. pc' = [pc EXCEPT ![c] = "returned"] /\ UNCHANGED <<st, ckpt, tool, grants, approvals, execs>>
      BY <2>2 DEF CompleteError, Goto
    <3>2. st'[c].Step >= st[c].Step
      BY <1>a, <3>1
    <3> QED BY <1>a, <3>1, <3>2, QuietStep
  <2>3. CASE CompleteEndTurn(c)
    <3>1. /\ st'[c] = [Advance(st[c]) EXCEPT !.Status = "done", !.FinalText = "text"]
          /\ \A d \in Invocations \ {c} : st'[d] = st[d]
      BY <2>3 DEF CompleteEndTurn, TypeOK
    <3>a. /\ Advance(st[c]) \in RunState
          /\ Advance(st[c]).GrantedTools = st[c].GrantedTools
          /\ Advance(st[c]).PendingTool = st[c].PendingTool
          /\ Advance(st[c]).Step = st[c].Step + 1
      BY <1>a, <2>3, AdvanceType DEF CompleteEndTurn
    <3>2. /\ st'[c].GrantedTools = st[c].GrantedTools /\ st'[c].Step = st[c].Step + 1
          /\ st'[c].PendingTool = st[c].PendingTool
      BY <3>1, <3>a DEF RunState
    <3>4. pc' = [pc EXCEPT ![c] = "saveReturn"] /\ UNCHANGED <<ckpt, tool, grants, approvals, execs>>
      BY <2>3 DEF CompleteEndTurn, Goto
    <3>5. st'[c].Step >= st[c].Step
      BY <1>a, <3>2
    <3> QED BY <1>a, <3>1, <3>2, <3>4, <3>5, QuietStep
  <2>4. ASSUME NEW n \in Names, CompleteUnknownTool(c, n) PROVE IInv'
    <3>1. /\ st'[c] = [Advance(st[c]) EXCEPT !.Status = "done", !.FinalText = ""]
          /\ \A d \in Invocations \ {c} : st'[d] = st[d]
      BY <2>4 DEF CompleteUnknownTool, TypeOK
    <3>a. /\ Advance(st[c]) \in RunState
          /\ Advance(st[c]).GrantedTools = st[c].GrantedTools
          /\ Advance(st[c]).PendingTool = st[c].PendingTool
          /\ Advance(st[c]).Step = st[c].Step + 1
      BY <1>a, <2>4, AdvanceType DEF CompleteUnknownTool
    <3>2. /\ st'[c].GrantedTools = st[c].GrantedTools /\ st'[c].Step = st[c].Step + 1
          /\ st'[c].PendingTool = st[c].PendingTool
      BY <3>1, <3>a DEF RunState
    <3>4. pc' = [pc EXCEPT ![c] = "saveReturn"] /\ UNCHANGED <<ckpt, tool, grants, approvals, execs>>
      BY <2>4 DEF CompleteUnknownTool, Goto
    <3>5. st'[c].Step >= st[c].Step
      BY <1>a, <3>2
    <3> QED BY <1>a, <3>1, <3>2, <3>4, <3>5, QuietStep
  <2>5. ASSUME NEW n \in Names, CompletePause(c, n) PROVE IInv'
    <3>1. /\ st'[c] = [Advance(st[c]) EXCEPT !.Status = "awaiting_approval", !.PendingTool = n]
          /\ \A d \in Invocations \ {c} : st'[d] = st[d]
      BY <2>5 DEF CompletePause, TypeOK
    <3>a. /\ Advance(st[c]) \in RunState
          /\ Advance(st[c]).GrantedTools = st[c].GrantedTools
          /\ Advance(st[c]).PendingTool = st[c].PendingTool
          /\ Advance(st[c]).Step = st[c].Step + 1
      BY <1>a, <2>5, AdvanceType DEF CompletePause
    <3>2. /\ st'[c].GrantedTools = st[c].GrantedTools /\ st'[c].Step = st[c].Step + 1
          /\ st'[c].PendingTool = n
      BY <3>1, <3>a DEF RunState
    <3>3. n \in grants \cap Approval
      BY <1>a, <2>5 DEF CompletePause, Usable, NeedsApproval
    <3>4. pc' = [pc EXCEPT ![c] = "saveReturn"] /\ UNCHANGED <<ckpt, tool, grants, approvals, execs>>
      BY <2>5 DEF CompletePause, Goto
    <3>5. st'[c].Step >= st[c].Step
      BY <1>a, <3>2
    <3> QED BY <1>a, <3>1, <3>2, <3>3, <3>4, <3>5, QuietStep
  <2>6. ASSUME NEW n \in Names, CompleteTool(c, n) PROVE IInv'
    <3>1. /\ st'[c] = Advance(st[c]) /\ tool'[c] = n
          /\ pc[c] = "loop" /\ pc'[c] = "exec"
          /\ \A d \in Invocations \ {c} : st'[d] = st[d] /\ tool'[d] = tool[d] /\ pc'[d] = pc[d]
      BY <2>6 DEF CompleteTool, TypeOK, Goto
    <3>2. /\ st'[c].GrantedTools = st[c].GrantedTools /\ st'[c].Step = st[c].Step + 1
          /\ st'[c].PendingTool = st[c].PendingTool
      BY <1>a, <2>6, <3>1, AdvanceType DEF CompleteTool
    <3>3. n \in (grants \cap Tools) \ Approval
      BY <1>a, <2>6 DEF CompleteTool, Usable, NeedsApproval
    <3>4. UNCHANGED <<ckpt, grants, approvals, execs>>
      BY <2>6 DEF CompleteTool
    <3>5. GrantsCarried' /\ PendingIsGranted'
      BY <1>a, <3>1, <3>2, <3>4 DEF GrantsCarried, PendingIsGranted
    <3>6. ReadyToExecute'
      <4> SUFFICES ASSUME NEW d \in Invocations
                   PROVE  /\ pc'[d] = "exec" => tool'[d] \in (grants' \cap Tools) \ Approval
                          /\ pc'[d] = "execApproved" => /\ tool'[d] \in grants' \cap Approval
                                                        /\ CallOf(d)' \in approvals'
        BY DEF ReadyToExecute
      <4>1. CASE d = c
        BY <3>1, <3>3, <3>4, <4>1
      <4>2. CASE d # c
        BY <3>1, <3>4, <4>2 DEF IInv, ReadyToExecute, CallOf
      <4> QED BY <4>1, <4>2
    <3>7. ExecutedIsPast'
      <4> SUFFICES ASSUME NEW e \in execs
                   PROVE  /\ pc'[e.by] \notin {"idle", "execApproved"}
                          /\ e.step <= st'[e.by].Step
                          /\ pc'[e.by] = "exec" => e.step < st'[e.by].Step
        BY <3>4 DEF ExecutedIsPast
      <4>1. e.by \in Invocations /\ e.step \in Nat /\ st[e.by].Step \in Nat
        BY <1>a, HarnessAssumption DEF TypeOK, Call
      <4>2. /\ pc[e.by] \notin {"idle", "execApproved"}
            /\ e.step <= st[e.by].Step
            /\ pc[e.by] = "exec" => e.step < st[e.by].Step
        BY DEF IInv, ExecutedIsPast
      <4> QED BY <3>1, <3>2, <4>1, <4>2
    <3>8. ApprovalBeforeExecution' /\ OnlyGrantedTools'
      BY <3>4 DEF IInv, ApprovalBeforeExecution, OnlyGrantedTools
    <3> QED BY <3>5, <3>6, <3>7, <3>8 DEF IInv
  <2>7. CASE Execute(c)
    <3>1. /\ st'[c] = Executed(st[c], tool[c])
          /\ \A d \in Invocations \ {c} : st'[d] = st[d]
      BY <2>7 DEF Execute, TypeOK
    <3>2. /\ st'[c].GrantedTools = st[c].GrantedTools /\ st'[c].Step = st[c].Step
          /\ st'[c].PendingTool = st[c].PendingTool
      BY <1>a, <3>1, ExecutedType DEF TypeOK
    <3> QED BY <1>a, <2>7, <3>1, <3>2, ExecutingStep DEF Execute, Goto
  <2>8. CASE SaveAndLoop(c) \/ SaveAndReturn(c)
    BY <1>a, <2>8, QuietStep DEF SaveAndLoop, SaveAndReturn, Save, Goto
  <2>9. CASE ExecuteApproved(c)
    <3>1. /\ st'[c] = [Executed(st[c], tool[c]) EXCEPT !.PendingTool = NoTool]
          /\ \A d \in Invocations \ {c} : st'[d] = st[d]
      BY <2>9 DEF ExecuteApproved, TypeOK
    <3>2. /\ st'[c].GrantedTools = st[c].GrantedTools /\ st'[c].Step = st[c].Step
          /\ st'[c].PendingTool = NoTool
      BY <1>a, <3>1, ExecutedType DEF TypeOK, RunState
    <3> QED BY <1>a, <2>9, <3>1, <3>2, ExecutingStep DEF ExecuteApproved, Goto
  <2>10. CASE SaveAndRun(c)
    <3>1. /\ st'[c] = [st[c] EXCEPT !.Status = "running"]
          /\ \A d \in Invocations \ {c} : st'[d] = st[d]
      BY <2>10 DEF SaveAndRun, TypeOK
    <3>2. /\ st'[c].GrantedTools = st[c].GrantedTools /\ st'[c].Step = st[c].Step
          /\ st'[c].PendingTool = st[c].PendingTool
      BY <1>a, <3>1 DEF RunState
    <3>4. pc' = [pc EXCEPT ![c] = "loop"] /\ (ckpt' = ckpt \/ ckpt' = st[c])
          /\ UNCHANGED <<tool, grants, approvals, execs>>
      BY <2>10 DEF SaveAndRun, Goto, Save
    <3>5. st'[c].Step >= st[c].Step
      BY <1>a, <3>2
    <3> QED BY <1>a, <3>1, <3>2, <3>4, <3>5, QuietStep
  <2> QED BY <1>3, <2>1, <2>2, <2>3, <2>4, <2>5, <2>6, <2>7, <2>8, <2>9, <2>10 DEF Loop
<1>4. ASSUME NEW c \in Invocations, Crash(c) PROVE IInv'
  <2>1. pc' = [pc EXCEPT ![c] = "crashed"] /\ UNCHANGED <<st, ckpt, tool, grants, approvals, execs>>
    BY <1>4 DEF Crash, Goto
  <2>2. st'[c].Step >= st[c].Step
    BY <1>a, <2>1
  <2> QED BY <1>a, <2>1, <2>2, QuietStep
<1>5. CASE UNCHANGED vars
  BY <1>5 DEF vars, IInv, TypeOK, GrantsCarried, PendingIsGranted, ReadyToExecute, CallOf,
     ExecutedIsPast, ApprovalBeforeExecution, OnlyGrantedTools
<1> QED BY <1>1, <1>2, <1>3, <1>4, <1>5 DEF Next

LEMMA Invariance == Spec => []IInv
<1>1. Init => IInv
  BY InvInit
<1>2. IInv /\ [Next]_vars => IInv'
  BY InvStep
<1> QED
  BY <1>1, <1>2, PTL DEF Spec

(* Every variable keeps its type: the checkpoint and every in-memory state *)
(* is a RunState whose step never exceeds maxSteps (harness.go 109-120).   *)
THEOREM TypeCorrectness == Spec => []TypeOK
<1>1. IInv => TypeOK
  BY DEF IInv
<1> QED
  BY <1>1, Invariance, PTL

(* No tool that requires approval runs without an approval of exactly that *)
(* request (harness.go 138-144, 169-181).                                  *)
THEOREM GateSafety == Spec => []ApprovalBeforeExecution
<1>1. IInv => ApprovalBeforeExecution
  BY DEF IInv
<1> QED
  BY <1>1, Invariance, PTL

(* Only registered tools on the grant list given to Run are executed, by   *)
(* Run or by any later Resume (harness.go 106, 132, 187-190).              *)
THEOREM GrantSafety == Spec => []OnlyGrantedTools
<1>1. IInv => OnlyGrantedTools
  BY DEF IInv
<1> QED
  BY <1>1, Invariance, PTL

LEMMA NotYetExecuted ==
  ASSUME IInv, NEW c \in Invocations, pc[c] \in {"exec", "execApproved"}
  PROVE  CallOf(c) \notin execs
<1> SUFFICES ASSUME CallOf(c) \in execs PROVE FALSE
  OBVIOUS
<1>1. CallOf(c).by = c /\ CallOf(c).step = st[c].Step
  BY DEF CallOf
<1>2. st[c].Step \in Nat
  BY HarnessAssumption DEF IInv, TypeOK, RunState
<1>3. /\ pc[c] # "execApproved"
      /\ pc[c] = "exec" => st[c].Step < st[c].Step
  BY <1>1 DEF IInv, ExecutedIsPast
<1> QED
  BY <1>2, <1>3

-----------------------------------------------------------------------------
(* The loop implements the approval gate. *)

Held == {CallOf(c) : c \in {d \in Invocations : pc[d] = "execApproved"}}

(* A step that executes nothing and does not touch an invocation that      *)
(* holds an approval is invisible to the gate.                             *)
LEMMA GateStutter ==
  ASSUME \A d \in Invocations : (pc'[d] = "execApproved") <=> (pc[d] = "execApproved"),
         \A d \in Invocations : pc[d] = "execApproved" =>
                                  st'[d].Step = st[d].Step /\ tool'[d] = tool[d],
         execs' = execs
  PROVE  UNCHANGED <<Held, execs>>
<1>1. \A d \in Invocations : pc[d] = "execApproved" => CallOf(d)' = CallOf(d)
  BY DEF CallOf
<1> QED
  BY <1>1 DEF Held

LEMMA GateStep == IInv /\ [Next]_vars => [Gate!Next]_(Gate!vars)
<1> SUFFICES ASSUME IInv, [Next]_vars
             PROVE  Gate!Next \/ UNCHANGED <<Held, execs>>
  BY DEF Gate!vars, Held
<1>0. TypeOK
  BY DEF IInv
<1> USE <1>0
<1>1. CASE Run(Runner)
  BY <1>1, GateStutter DEF Run, Start, Goto, TypeOK
<1>2. ASSUME NEW c \in Resumers, Resume(c)
      PROVE  Gate!Next \/ UNCHANGED <<Held, execs>>
  <2>0. c \in Invocations
    BY DEF Invocations
  <2>1. CASE ResumeLoadError(c) \/ ResumeNotPending(c)
    BY <2>0, <2>1, GateStutter DEF ResumeLoadError, ResumeNotPending, Start, Goto, TypeOK
  <2>2. ASSUME NEW a \in BOOLEAN, ResumeDecline(c, a)
        PROVE  UNCHANGED <<Held, execs>>
    <3>1. /\ pc[c] = "idle" /\ pc' = [pc EXCEPT ![c] = "saveReturn"]
          /\ \A d \in Invocations \ {c} : st'[d] = st[d]
          /\ UNCHANGED <<tool, execs>>
      BY <2>0, <2>2 DEF ResumeDecline, Start, Goto, TypeOK
    <3> QED BY <2>0, <3>1, GateStutter DEF TypeOK
  <2>3. ASSUME NEW a \in BOOLEAN, ResumeApprove(c, a)
        PROVE  Gate!Next
    <3>1. ckpt \in RunState
      BY <2>3 DEF ResumeApprove, ResumeAccepts, TypeOK
    <3>2. /\ st'[c] = Approved(ckpt) /\ tool'[c] = ckpt.PendingTool
          /\ pc[c] = "idle" /\ pc'[c] = "execApproved"
          /\ \A d \in Invocations \ {c} : st'[d] = st[d] /\ tool'[d] = tool[d] /\ pc'[d] = pc[d]
          /\ execs' = execs
      BY <2>0, <2>3 DEF ResumeApprove, Start, Goto, TypeOK
    <3> DEFINE k == [by |-> c, tool |-> ckpt.PendingTool, step |-> ckpt.Step]
    <3>a. CallOf(c)' = k
      BY <3>1, <3>2, ApprovedType DEF CallOf
    <3>3. k \in Call
      <4>1. ckpt.PendingTool \in Names /\ ckpt.Step \in 0..MaxSteps
        BY <2>3, <3>1, HarnessAssumption DEF ResumeApprove, RunState
      <4> QED BY <2>0, <4>1 DEF Call
    <3>4. k \notin execs
      <4>1. k.by = c
        OBVIOUS
      <4> QED BY <3>2, <4>1 DEF IInv, ExecutedIsPast
    <3>5. Held' = Held \cup {k}
      <4>1. \A d \in Invocations \ {c} : CallOf(d)' = CallOf(d)
        BY <3>2 DEF CallOf
      <4> QED BY <2>0, <3>2, <3>a, <4>1 DEF Held
    <3>6. Gate!Approve(k)
      BY <3>2, <3>4, <3>5 DEF Gate!Approve, Held
    <3>7. \E j \in Call : Gate!Approve(j)
      BY <3>3, <3>6 DEF Gate!Approve
    <3> QED BY <3>7 DEF Gate!Next
  <2> QED BY <1>2, <2>1, <2>2, <2>3 DEF Resume
<1>3. ASSUME NEW c \in Invocations, Loop(c)
      PROVE  Gate!Next \/ UNCHANGED <<Held, execs>>
  <2>1. CASE \/ MaxStepsReached(c) \/ CompleteError(c) \/ CompleteEndTurn(c)
             \/ \E n \in Names : CompleteUnknownTool(c, n) \/ CompletePause(c, n)
                                                         \/ CompleteTool(c, n)
             \/ SaveAndLoop(c) \/ SaveAndReturn(c) \/ SaveAndRun(c)
    <3>1. /\ pc[c] # "execApproved" /\ pc'[c] # "execApproved"
          /\ \A d \in Invocations \ {c} : st'[d] = st[d] /\ tool'[d] = tool[d] /\ pc'[d] = pc[d]
          /\ execs' = execs
      BY <2>1 DEF MaxStepsReached, CompleteError, CompleteEndTurn, CompleteUnknownTool,
         CompletePause, CompleteTool, SaveAndLoop, SaveAndReturn, SaveAndRun, Goto, TypeOK
    <3> QED BY <3>1, GateStutter
  <2>2. CASE Execute(c)
    <3> DEFINE k == CallOf(c)
    <3>1. /\ k \in Call /\ k \notin execs /\ k.tool \notin Approval
      <4>1. tool[c] \in (grants \cap Tools) \ Approval /\ st[c].Step \in 0..MaxSteps
        BY <2>2 DEF Execute, IInv, ReadyToExecute, TypeOK, RunState
      <4>2. k \in Call /\ k.tool = tool[c]
        BY <4>1, HarnessAssumption DEF CallOf, Call
      <4> QED BY <2>2, <4>1, <4>2, NotYetExecuted DEF Execute
    <3>2. execs' = execs \cup {k} /\ Held' = Held
      <4>1. /\ pc[c] = "exec" /\ pc'[c] = "saveLoop"
            /\ \A d \in Invocations \ {c} : st'[d] = st[d] /\ tool'[d] = tool[d] /\ pc'[d] = pc[d]
        BY <2>2 DEF Execute, Goto, TypeOK
      <4>2. \A d \in Invocations \ {c} : CallOf(d)' = CallOf(d)
        BY <4>1 DEF CallOf
      <4> QED BY <2>2, <4>1, <4>2 DEF Execute, Held
    <3>3. Gate!PerformFree(k)
      BY <3>1, <3>2 DEF Gate!PerformFree, Held
    <3> QED BY <3>1, <3>3 DEF Gate!Next
  <2>3. CASE ExecuteApproved(c)
    <3> DEFINE k == CallOf(c)
    <3>1. k \in Call /\ k \in Held
      BY <2>3 DEF ExecuteApproved, IInv, ReadyToExecute, TypeOK, Held
    <3>2. execs' = execs \cup {k} /\ Held' = Held \ {k}
      <4>1. /\ pc[c] = "execApproved" /\ pc'[c] = "saveRun"
            /\ \A d \in Invocations \ {c} : st'[d] = st[d] /\ tool'[d] = tool[d] /\ pc'[d] = pc[d]
        BY <2>3 DEF ExecuteApproved, Goto, TypeOK
      <4>2. \A d \in Invocations \ {c} : CallOf(d)' = CallOf(d) /\ CallOf(d) # k
        BY <4>1 DEF CallOf
      <4> QED BY <2>3, <4>1, <4>2 DEF ExecuteApproved, Held
    <3>3. Gate!PerformApproved(k)
      BY <3>1, <3>2 DEF Gate!PerformApproved, Held
    <3>4. \E j \in Call : Gate!PerformApproved(j)
      BY <3>1, <3>3 DEF Gate!PerformApproved
    <3> QED BY <3>4 DEF Gate!Next
  <2> QED BY <1>3, <2>1, <2>2, <2>3 DEF Loop
<1>4. ASSUME NEW c \in Invocations, Crash(c)
      PROVE  Gate!Next \/ UNCHANGED <<Held, execs>>
  <2>1. /\ pc'[c] = "crashed"
        /\ \A d \in Invocations \ {c} : pc'[d] = pc[d]
        /\ UNCHANGED <<st, tool, execs>>
    BY <1>4 DEF Crash, Goto, TypeOK
  <2>2. CASE pc[c] # "execApproved"
    BY <2>1, <2>2, GateStutter
  <2>3. CASE pc[c] = "execApproved"
    <3> DEFINE k == CallOf(c)
    <3>1. k \in Call /\ k \in Held
      BY <2>3 DEF IInv, ReadyToExecute, TypeOK, Held
    <3>2. Held' = Held \ {k}
      <4>1. \A d \in Invocations : CallOf(d)' = CallOf(d)
        BY <2>1 DEF CallOf
      <4>2. \A d \in Invocations \ {c} : CallOf(d) # k
        BY DEF CallOf
      <4> QED BY <2>1, <2>3, <4>1, <4>2 DEF Held
    <3>3. Gate!Lose(k)
      BY <2>1, <3>1, <3>2 DEF Gate!Lose, Held
    <3>4. \E j \in Call : Gate!Lose(j)
      BY <3>1, <3>3 DEF Gate!Lose
    <3> QED BY <3>4 DEF Gate!Next
  <2> QED BY <2>2, <2>3
<1>5. CASE UNCHANGED vars
  BY <1>5, GateStutter DEF vars
<1> QED BY <1>1, <1>2, <1>3, <1>4, <1>5 DEF Next

(* Run and Resume, with crashes, lost saves and any number of concurrent   *)
(* Resume calls, implement the approval gate: an approval is spent by at   *)
(* most one execution (harness.go 138-144, 169-183).                       *)
THEOREM GateRefinement == Spec => ImplementsGate
<1>1. Init => Gate!Init
  BY DEF Init, Gate!Init
<1> QED
  BY <1>1, GateStep, Invariance, PTL DEF Spec, ImplementsGate, Gate!Spec

-----------------------------------------------------------------------------
(* What the transcript says, and the order of checkpoints. *)

(* A transcript that invents nothing, for the executions x. *)
Truthful(s, x) ==
  \A m \in s.Messages : m.role = "tool" =>
     /\ \E e \in x : e.tool = m.tool /\ e.step = m.step
     /\ m.tool \in Approval => Entry("approved", m.tool, m.step) \in s.Messages

(* Every transcript is truthful, the in-memory ones too, and the approval  *)
(* is noted before its tool runs.                                          *)
TranscriptsTruthful ==
  /\ \A c \in Invocations : Truthful(st[c], execs)
  /\ ckpt # NoCheckpoint => Truthful(ckpt, execs)
  /\ \A c \in Invocations : pc[c] = "execApproved" =>
       Entry("approved", tool[c], st[c].Step) \in st[c].Messages

(* Only Run creates a checkpoint, so nothing goes on before it. *)
NothingBeforeRun ==
  pc[Runner] = "idle" => ckpt = NoCheckpoint /\ \A c \in Invocations : ~Live(c)

Working == {"loop", "exec", "execApproved", "saveLoop", "saveRun"}

(* The run is not over for an invocation that has not come to its end. *)
WorkingIsOpen ==
  \A c \in Invocations : pc[c] \in Working => st[c].Status # "done"

(* The state of an invocation in progress is ahead of the checkpoint. *)
Ahead(c) ==
  ckpt # NoCheckpoint => /\ ckpt.Status # "done"
                         /\ st[c].Step >= ckpt.Step
                         /\ ckpt.Messages \subseteq st[c].Messages

(* Without overlap there is one invocation in progress, and it is ahead. *)
AloneAndAhead ==
  ~overlap => /\ \A c, d \in Invocations : Live(c) /\ Live(d) => c = d
              /\ \A c \in Invocations : Live(c) => Ahead(c)

HistoryInv ==
  /\ TranscriptsTruthful
  /\ NothingBeforeRun
  /\ WorkingIsOpen
  /\ AloneAndAhead

LEMMA HistoryInit == Init => HistoryInv
<1> SUFFICES ASSUME Init PROVE HistoryInv
  OBVIOUS
<1>1. \A c \in Invocations : pc[c] = "idle" /\ st[c].Messages = {}
  BY DEF Init, Fresh
<1>2. ckpt = NoCheckpoint /\ \A c \in Invocations : ~Live(c)
  BY <1>1 DEF Init, Live
<1>3. TranscriptsTruthful
  BY <1>1, <1>2 DEF TranscriptsTruthful, Truthful
<1>4. NothingBeforeRun /\ WorkingIsOpen /\ AloneAndAhead
  BY <1>1, <1>2 DEF NothingBeforeRun, WorkingIsOpen, Working, AloneAndAhead
<1> QED
  BY <1>3, <1>4 DEF HistoryInv

LEMMA TruthfulGrows ==
  ASSUME NEW s, NEW x, NEW y, x \subseteq y, Truthful(s, x)
  PROVE  Truthful(s, y)
BY DEF Truthful

LEMMA TruthfulSame ==
  ASSUME NEW s, NEW r, NEW x, r.Messages = s.Messages, Truthful(s, x)
  PROVE  Truthful(r, x)
BY DEF Truthful

LEMMA AdvanceTruthful ==
  ASSUME NEW s \in RunState, NEW x, Truthful(s, x), ~OutOfSteps(s)
  PROVE  /\ Truthful(Advance(s), x)
         /\ s.Messages \subseteq Advance(s).Messages
         /\ Advance(s).Status = s.Status
<1>1. Advance(s).Messages = s.Messages \cup {Entry("assistant", NoTool, s.Step + 1)}
  BY DEF Advance, RunState
<1>2. Entry("assistant", NoTool, s.Step + 1).role # "tool"
  BY DEF Entry
<1>3. Advance(s).Status = s.Status
  BY DEF Advance, RunState
<1> QED
  BY <1>1, <1>2, <1>3 DEF Truthful

LEMMA ApprovedTruthful ==
  ASSUME NEW s \in RunState, NEW x, Truthful(s, x)
  PROVE  /\ Truthful(Approved(s), x)
         /\ s.Messages \subseteq Approved(s).Messages
         /\ Entry("approved", s.PendingTool, s.Step) \in Approved(s).Messages
         /\ Approved(s).Status = s.Status
<1>1. Approved(s).Messages = s.Messages \cup {Entry("approved", s.PendingTool, s.Step)}
  BY DEF Approved, RunState
<1>2. Entry("approved", s.PendingTool, s.Step).role # "tool"
  BY DEF Entry
<1>3. Approved(s).Status = s.Status
  BY DEF Approved, RunState
<1> QED
  BY <1>1, <1>2, <1>3 DEF Truthful

(* executeAndAppend keeps the transcript truthful when the call has been   *)
(* made and, for a sensitive tool, its approval noted.                     *)
LEMMA ExecutedTruthful ==
  ASSUME NEW s \in RunState, NEW t, NEW x, NEW k \in x, Truthful(s, x),
         k.tool = t, k.step = s.Step,
         t \in Approval => Entry("approved", t, s.Step) \in s.Messages
  PROVE  /\ Truthful(Executed(s, t), x)
         /\ s.Messages \subseteq Executed(s, t).Messages
         /\ Executed(s, t).Status = s.Status
<1> DEFINE n == Entry("tool", t, s.Step)
<1>1. Executed(s, t).Messages = s.Messages \cup {n}
  BY DEF Executed, RunState
<1>2. n.tool = t /\ n.step = s.Step
  BY DEF Entry
<1>3. Executed(s, t).Status = s.Status
  BY DEF Executed, RunState
<1> HIDE DEF n
<1>4. Truthful(Executed(s, t), x)
  BY <1>1, <1>2 DEF Truthful
<1> QED
  BY <1>1, <1>3, <1>4

(* A step of an invocation in progress: it keeps what its state said,      *)
(* saves nothing but that state, and saves a finished state only to        *)
(* return.                                                                 *)
LEMMA ProgressStep ==
  ASSUME TypeOK, TypeOK', HistoryInv,
         NEW c \in Invocations, Live(c),
         NEW label \in PCs \ {"idle", "execApproved"},
         pc' = [pc EXCEPT ![c] = label],
         \A d \in Invocations \ {c} : st'[d] = st[d] /\ tool'[d] = tool[d],
         execs \subseteq execs', overlap' = overlap,
         ckpt' = ckpt \/ (ckpt' = st[c] /\ (st[c].Status = "done" => label = "returned")),
         label \in Working => st'[c].Status # "done",
         st'[c].Step >= st[c].Step,
         st[c].Messages \subseteq st'[c].Messages,
         Truthful(st'[c], execs')
  PROVE  HistoryInv'
<1>1. \A d \in Invocations : pc'[d] = IF d = c THEN label ELSE pc[d]
  BY DEF TypeOK
<1>2. \A d \in Invocations : Truthful(st[d], execs')
  BY TruthfulGrows DEF HistoryInv, TranscriptsTruthful
<1>3. TranscriptsTruthful'
  <2>1. \A d \in Invocations : Truthful(st'[d], execs')
    <3> SUFFICES ASSUME NEW d \in Invocations PROVE Truthful(st'[d], execs')
      OBVIOUS
    <3>1. CASE d = c
      BY <3>1
    <3>2. CASE d # c
      <4>1. st'[d] = st[d]
        BY <3>2
      <4> QED BY <4>1, <1>2
    <3> QED BY <3>1, <3>2
  <2>2. ckpt' # NoCheckpoint => Truthful(ckpt', execs')
    <3>1. CASE ckpt' = ckpt
      BY <3>1, TruthfulGrows DEF HistoryInv, TranscriptsTruthful
    <3>2. CASE ckpt' = st[c]
      BY <3>2, <1>2
    <3> QED BY <3>1, <3>2
  <2>3. \A d \in Invocations : pc'[d] = "execApproved" =>
           Entry("approved", tool'[d], st'[d].Step) \in st'[d].Messages
    <3> SUFFICES ASSUME NEW d \in Invocations, pc'[d] = "execApproved"
                 PROVE  Entry("approved", tool'[d], st'[d].Step) \in st'[d].Messages
      OBVIOUS
    <3>1. d # c /\ pc[d] = "execApproved"
      BY <1>1
    <3> QED BY <3>1 DEF HistoryInv, TranscriptsTruthful
  <2> QED BY <2>1, <2>2, <2>3 DEF TranscriptsTruthful
<1>4. NothingBeforeRun'
  <2>1. Runner \in Invocations
    BY DEF Invocations
  <2> SUFFICES ASSUME pc'[Runner] = "idle" PROVE FALSE
    BY DEF NothingBeforeRun
  <2> QED BY <2>1, <1>1 DEF HistoryInv, NothingBeforeRun
<1>5. WorkingIsOpen'
  BY <1>1 DEF HistoryInv, WorkingIsOpen
<1>6. AloneAndAhead'
  <2> SUFFICES ASSUME ~overlap' PROVE /\ \A d, e \in Invocations : Live(d)' /\ Live(e)' => d = e
                                      /\ \A d \in Invocations : Live(d)' => Ahead(d)'
    BY DEF AloneAndAhead
  <2>0. ~overlap
    OBVIOUS
  <2>1. \A d \in Invocations : Live(d)' => d = c
    <3>1. \A d \in Invocations : Live(d) => d = c
      BY <2>0 DEF HistoryInv, AloneAndAhead
    <3> QED BY <1>1, <3>1 DEF Live
  <2>2. Ahead(c)
    BY <2>0 DEF HistoryInv, AloneAndAhead
  <2>3. ASSUME Live(c)' PROVE Ahead(c)'
    <3>0. label # "returned"
      BY <1>1, <2>3 DEF Live
    <3>1. CASE ckpt' = ckpt
      <4>1. ckpt # NoCheckpoint => ckpt.Step \in Nat /\ st[c].Step \in Nat /\ st'[c].Step \in Nat
        BY HarnessAssumption DEF TypeOK, RunState
      <4> QED BY <2>2, <3>1, <4>1 DEF Ahead
    <3>2. CASE ckpt' = st[c] /\ st[c].Status # "done"
      BY <3>2 DEF Ahead
    <3> QED BY <3>0, <3>1, <3>2
  <2> QED BY <2>1, <2>3
<1> QED
  BY <1>3, <1>4, <1>5, <1>6 DEF HistoryInv

(* An invocation that starts: no other is in progress unless overlap says  *)
(* so, and what it starts from is the checkpoint.                          *)
LEMMA StartingStep ==
  ASSUME TypeOK, TypeOK', HistoryInv,
         NEW c \in Invocations, Start(c),
         NEW label \in PCs \ {"idle"},
         pc' = [pc EXCEPT ![c] = label],
         c # Runner => label = "returned" \/ pc[Runner] # "idle",
         \A d \in Invocations \ {c} : st'[d] = st[d] /\ tool'[d] = tool[d],
         UNCHANGED <<ckpt, execs>>,
         label \in Working => st'[c].Status # "done",
         Truthful(st'[c], execs),
         label = "execApproved" =>
           Entry("approved", tool'[c], st'[c].Step) \in st'[c].Messages,
         label # "returned" => Ahead(c)'
  PROVE  HistoryInv'
<1>1. \A d \in Invocations : pc'[d] = IF d = c THEN label ELSE pc[d]
  BY DEF TypeOK
<1>2. pc[c] = "idle"
  BY DEF Start
<1>3. TranscriptsTruthful'
  <2>1. \A d \in Invocations : Truthful(st'[d], execs')
    <3> SUFFICES ASSUME NEW d \in Invocations PROVE Truthful(st'[d], execs')
      OBVIOUS
    <3>1. CASE d = c
      BY <3>1
    <3>2. CASE d # c
      <4>1. st'[d] = st[d] /\ execs' = execs
        BY <3>2
      <4> QED BY <4>1 DEF HistoryInv, TranscriptsTruthful
    <3> QED BY <3>1, <3>2
  <2>2. ckpt' # NoCheckpoint => Truthful(ckpt', execs')
    BY DEF HistoryInv, TranscriptsTruthful
  <2>3. \A d \in Invocations : pc'[d] = "execApproved" =>
           Entry("approved", tool'[d], st'[d].Step) \in st'[d].Messages
    BY <1>1 DEF HistoryInv, TranscriptsTruthful
  <2> QED BY <2>1, <2>2, <2>3 DEF TranscriptsTruthful
<1>4. NothingBeforeRun'
  <2>1. Runner \in Invocations
    BY DEF Invocations
  <2> SUFFICES ASSUME pc'[Runner] = "idle"
               PROVE  ckpt' = NoCheckpoint /\ \A d \in Invocations : ~Live(d)'
    BY DEF NothingBeforeRun
  <2>2. c # Runner /\ pc[Runner] = "idle" /\ label = "returned"
    BY <2>1, <1>1
  <2>3. ckpt = NoCheckpoint /\ \A d \in Invocations : ~Live(d)
    BY <2>2 DEF HistoryInv, NothingBeforeRun
  <2> QED BY <2>2, <2>3, <1>1 DEF Live
<1>5. WorkingIsOpen'
  BY <1>1 DEF HistoryInv, WorkingIsOpen
<1>6. AloneAndAhead'
  <2> SUFFICES ASSUME ~overlap' PROVE /\ \A d, e \in Invocations : Live(d)' /\ Live(e)' => d = e
                                      /\ \A d \in Invocations : Live(d)' => Ahead(d)'
    BY DEF AloneAndAhead
  <2>1. \A d \in Invocations : ~Live(d)
    BY Zenon DEF Start
  <2>2. \A d \in Invocations : Live(d)' => d = c /\ label # "returned"
    BY <2>1, <1>1 DEF Live
  <2> QED BY <2>2
<1> QED
  BY <1>3, <1>4, <1>5, <1>6 DEF HistoryInv

LEMMA HistoryStep == IInv /\ HistoryInv /\ [Next]_vars => HistoryInv'
<1> SUFFICES ASSUME IInv, HistoryInv, [Next]_vars PROVE HistoryInv'
  OBVIOUS
<1>0. TypeOK /\ TypeOK'
  BY TypeStep DEF IInv
<1> USE <1>0
<1>a. \A c \in Invocations : /\ st[c] \in RunState
                             /\ st[c].Step \in Nat
                             /\ Truthful(st[c], execs)
  BY HarnessAssumption DEF TypeOK, RunState, HistoryInv, TranscriptsTruthful
<1>b. ckpt # NoCheckpoint => /\ ckpt \in RunState
                             /\ ckpt.Step \in Nat
                             /\ Truthful(ckpt, execs)
  BY HarnessAssumption DEF TypeOK, RunState, HistoryInv, TranscriptsTruthful
<1>1. CASE Run(Runner)
  <2>0. Runner \in Invocations
    BY DEF Invocations
  <2>1. /\ st'[Runner] = Fresh(grants)
        /\ \A d \in Invocations \ {Runner} : st'[d] = st[d] /\ tool'[d] = tool[d]
    BY <1>1, <2>0 DEF Run, TypeOK
  <2>2. /\ Start(Runner) /\ pc' = [pc EXCEPT ![Runner] = "loop"]
        /\ UNCHANGED <<ckpt, execs>>
    BY <1>1 DEF Run, Goto
  <2>a. Fresh(grants).Messages = {} /\ Fresh(grants).Status = "running"
    BY DEF Fresh
  <2>3. st'[Runner].Messages = {} /\ st'[Runner].Status = "running"
    BY <2>1, <2>a
  <2>4. Truthful(st'[Runner], execs)
    BY <2>3 DEF Truthful
  <2>5. Ahead(Runner)'
    <3>1. ckpt' = NoCheckpoint
      BY <2>2 DEF Start, HistoryInv, NothingBeforeRun
    <3> QED BY <3>1 DEF Ahead
  <2>6. "loop" \in PCs \ {"idle"}
    BY DEF PCs
  <2> QED
    BY <2>0, <2>1, <2>2, <2>3, <2>4, <2>5, <2>6, StartingStep
<1>2. ASSUME NEW c \in Resumers, Resume(c) PROVE HistoryInv'
  <2>0. c \in Invocations
    BY DEF Invocations
  <2>a. {"returned", "saveReturn", "execApproved"} \subseteq PCs \ {"idle"}
    BY DEF PCs
  <2>b. ckpt # NoCheckpoint => pc[Runner] # "idle"
    BY DEF HistoryInv, NothingBeforeRun
  <2>1. CASE ResumeLoadError(c) \/ ResumeNotPending(c)
    <3>1. /\ Start(c) /\ pc' = [pc EXCEPT ![c] = "returned"]
          /\ UNCHANGED <<ckpt, st, tool, execs>>
      BY <2>1 DEF ResumeLoadError, ResumeNotPending, Goto
    <3>2. Truthful(st'[c], execs)
      BY <1>a, <2>0, <3>1
    <3>3. "returned" \notin Working
      BY DEF Working
    <3> QED BY <2>0, <2>a, <3>1, <3>2, <3>3, StartingStep
  <2>2. ASSUME NEW a \in BOOLEAN, ResumeDecline(c, a) PROVE HistoryInv'
    <3>1. /\ Start(c) /\ pc' = [pc EXCEPT ![c] = "saveReturn"]
          /\ UNCHANGED <<ckpt, tool, execs>>
      BY <2>2 DEF ResumeDecline, Goto
    <3>2. ckpt # NoCheckpoint /\ ckpt.Status # "done"
      BY <2>2 DEF ResumeDecline, ResumeAccepts
    <3>3. /\ st'[c] = [ckpt EXCEPT !.Status = "done", !.FinalText = "declined",
                                   !.PendingTool = NoTool]
          /\ \A d \in Invocations \ {c} : st'[d] = st[d] /\ tool'[d] = tool[d]
      BY <2>0, <2>2 DEF ResumeDecline, TypeOK
    <3>4. st'[c].Messages = ckpt.Messages /\ st'[c].Step = ckpt.Step
      BY <1>b, <3>2, <3>3 DEF RunState
    <3>5. Truthful(st'[c], execs)
      BY <1>b, <3>2, <3>4, TruthfulSame
    <3>6. Ahead(c)'
      BY <1>b, <3>1, <3>2, <3>4 DEF Ahead
    <3>7. "saveReturn" \notin Working
      BY DEF Working
    <3> QED BY <2>0, <2>a, <2>b, <3>1, <3>2, <3>3, <3>5, <3>6, <3>7, StartingStep
  <2>3. ASSUME NEW a \in BOOLEAN, ResumeApprove(c, a) PROVE HistoryInv'
    <3>1. /\ Start(c) /\ pc' = [pc EXCEPT ![c] = "execApproved"]
          /\ UNCHANGED <<ckpt, execs>>
      BY <2>3 DEF ResumeApprove, Goto
    <3>2. ckpt # NoCheckpoint /\ ckpt.Status # "done"
      BY <2>3 DEF ResumeApprove, ResumeAccepts
    <3>3. /\ st'[c] = Approved(ckpt) /\ tool'[c] = ckpt.PendingTool
          /\ \A d \in Invocations \ {c} : st'[d] = st[d] /\ tool'[d] = tool[d]
      BY <2>0, <2>3 DEF ResumeApprove, TypeOK
    <3>4. /\ st'[c].Step = ckpt.Step
          /\ ckpt.Messages \subseteq st'[c].Messages
          /\ Entry("approved", ckpt.PendingTool, ckpt.Step) \in st'[c].Messages
          /\ st'[c].Status = ckpt.Status
          /\ Truthful(st'[c], execs)
      BY <1>b, <3>2, <3>3, ApprovedType, ApprovedTruthful
    <3>5. Entry("approved", tool'[c], st'[c].Step) \in st'[c].Messages
      BY <3>3, <3>4
    <3>6. Ahead(c)'
      BY <1>b, <3>1, <3>2, <3>4 DEF Ahead
    <3>7. st'[c].Status # "done"
      BY <3>2, <3>4
    <3> QED BY <2>0, <2>a, <2>b, <3>1, <3>2, <3>3, <3>4, <3>5, <3>6, <3>7, StartingStep
  <2> QED BY <1>2, <2>1, <2>2, <2>3 DEF Resume
<1>3. ASSUME NEW c \in Invocations, Loop(c) PROVE HistoryInv'
  <2>0. /\ st[c] \in RunState /\ st[c].Step \in Nat /\ Truthful(st[c], execs)
        /\ pc[c] \in Working => Live(c) /\ st[c].Status # "done"
    BY <1>a DEF HistoryInv, WorkingIsOpen, Working, Live
  <2>a. /\ {"loop", "exec", "saveLoop", "saveRun", "saveReturn", "returned"}
             \subseteq PCs \ {"idle", "execApproved"}
        /\ {"saveReturn", "returned"} \cap Working = {}
        /\ {"loop", "exec", "execApproved", "saveLoop", "saveRun"} \subseteq Working
    BY DEF PCs, Working
  <2>1. CASE MaxStepsReached(c)
    <3>1. /\ pc[c] = "loop" /\ pc' = [pc EXCEPT ![c] = "saveReturn"]
          /\ UNCHANGED <<ckpt, tool, execs, overlap>>
      BY <2>1 DEF MaxStepsReached, Goto
    <3>2. /\ st'[c] = [st[c] EXCEPT !.Status = "done", !.FinalText = ""]
          /\ \A d \in Invocations \ {c} : st'[d] = st[d] /\ tool'[d] = tool[d]
      BY <2>1 DEF MaxStepsReached, TypeOK
    <3>3. st'[c].Messages = st[c].Messages /\ st'[c].Step = st[c].Step
      BY <2>0, <3>2 DEF RunState
    <3>4. Truthful(st'[c], execs') /\ st'[c].Step >= st[c].Step
      BY <2>0, <3>1, <3>3, TruthfulSame
    <3> QED BY <2>0, <2>a, <3>1, <3>2, <3>3, <3>4, ProgressStep
  <2>2. CASE CompleteError(c)
    <3>1. /\ pc[c] = "loop" /\ pc' = [pc EXCEPT ![c] = "returned"]
          /\ UNCHANGED <<ckpt, st, tool, execs, overlap>>
      BY <2>2 DEF CompleteError, Goto
    <3>2. Truthful(st'[c], execs') /\ st'[c].Step >= st[c].Step
      BY <2>0, <3>1
    <3> QED BY <2>0, <2>a, <3>1, <3>2, ProgressStep
  <2>3. ASSUME \/ CompleteEndTurn(c)
               \/ \E n \in Names : CompleteUnknownTool(c, n)
               \/ \E n \in Names : CompletePause(c, n)
        PROVE  HistoryInv'
    <3>1. /\ pc[c] = "loop" /\ pc' = [pc EXCEPT ![c] = "saveReturn"]
          /\ ~OutOfSteps(st[c])
          /\ UNCHANGED <<ckpt, tool, execs, overlap>>
      BY <2>3 DEF CompleteEndTurn, CompleteUnknownTool, CompletePause, Goto
    <3>2. \A d \in Invocations \ {c} : st'[d] = st[d] /\ tool'[d] = tool[d]
      BY <2>3 DEF CompleteEndTurn, CompleteUnknownTool, CompletePause, TypeOK
    <3>3. /\ Advance(st[c]) \in RunState
          /\ Advance(st[c]).Step = st[c].Step + 1
          /\ st[c].Messages \subseteq Advance(st[c]).Messages
          /\ Truthful(Advance(st[c]), execs)
      BY <2>0, <3>1, AdvanceType, AdvanceTruthful
    <3>4. /\ st'[c].Messages = Advance(st[c]).Messages
          /\ st'[c].Step = Advance(st[c]).Step
      <4>1. CASE CompleteEndTurn(c)
        <5>1. st'[c] = [Advance(st[c]) EXCEPT !.Status = "done", !.FinalText = "text"]
          BY <4>1 DEF CompleteEndTurn, TypeOK
        <5> QED BY <3>3, <5>1 DEF RunState
      <4>2. ASSUME NEW n \in Names, CompleteUnknownTool(c, n)
            PROVE  /\ st'[c].Messages = Advance(st[c]).Messages
                   /\ st'[c].Step = Advance(st[c]).Step
        <5>1. st'[c] = [Advance(st[c]) EXCEPT !.Status = "done", !.FinalText = ""]
          BY <4>2 DEF CompleteUnknownTool, TypeOK
        <5> QED BY <3>3, <5>1 DEF RunState
      <4>3. ASSUME NEW n \in Names, CompletePause(c, n)
            PROVE  /\ st'[c].Messages = Advance(st[c]).Messages
                   /\ st'[c].Step = Advance(st[c]).Step
        <5>1. st'[c] = [Advance(st[c]) EXCEPT !.Status = "awaiting_approval", !.PendingTool = n]
          BY <4>3 DEF CompletePause, TypeOK
        <5> QED BY <3>3, <5>1 DEF RunState
      <4> QED BY <2>3, <4>1, <4>2, <4>3
    <3>5. Truthful(st'[c], execs') /\ st'[c].Step >= st[c].Step
      BY <2>0, <3>1, <3>3, <3>4, TruthfulSame
    <3>6. st[c].Messages \subseteq st'[c].Messages
      BY <3>3, <3>4
    <3> QED BY <2>0, <2>a, <3>1, <3>2, <3>5, <3>6, ProgressStep
  <2>4. ASSUME NEW n \in Names, CompleteTool(c, n) PROVE HistoryInv'
    <3>1. /\ pc[c] = "loop" /\ pc' = [pc EXCEPT ![c] = "exec"]
          /\ ~OutOfSteps(st[c])
          /\ UNCHANGED <<ckpt, execs, overlap>>
      BY <2>4 DEF CompleteTool, Goto
    <3>2. /\ st'[c] = Advance(st[c])
          /\ \A d \in Invocations \ {c} : st'[d] = st[d] /\ tool'[d] = tool[d]
      BY <2>4 DEF CompleteTool, TypeOK
    <3>3. /\ st'[c].Step = st[c].Step + 1
          /\ st[c].Messages \subseteq st'[c].Messages
          /\ st'[c].Status = st[c].Status
          /\ Truthful(st'[c], execs')
      BY <2>0, <3>1, <3>2, AdvanceType, AdvanceTruthful
    <3>4. st'[c].Step >= st[c].Step /\ st'[c].Status # "done"
      BY <2>0, <2>a, <3>1, <3>3
    <3> QED BY <2>0, <2>a, <3>1, <3>2, <3>3, <3>4, ProgressStep
  <2>5. CASE Execute(c)
    <3>1. /\ pc[c] = "exec" /\ pc' = [pc EXCEPT ![c] = "saveLoop"]
          /\ execs' = execs \cup {CallOf(c)}
          /\ UNCHANGED <<ckpt, tool, overlap>>
      BY <2>5 DEF Execute, Goto
    <3>2. /\ st'[c] = Executed(st[c], tool[c])
          /\ \A d \in Invocations \ {c} : st'[d] = st[d] /\ tool'[d] = tool[d]
      BY <2>5 DEF Execute, TypeOK
    <3>3. CallOf(c) \in execs' /\ CallOf(c).tool = tool[c] /\ CallOf(c).step = st[c].Step
      BY <3>1 DEF CallOf
    <3>4. tool[c] \notin Approval /\ Truthful(st[c], execs')
      BY <2>0, <3>1, TruthfulGrows DEF IInv, ReadyToExecute
    <3>5. /\ Truthful(st'[c], execs')
          /\ st[c].Messages \subseteq st'[c].Messages
          /\ st'[c].Status = st[c].Status
      BY <2>0, <3>2, <3>3, <3>4, ExecutedTruthful
    <3>6. st'[c].Step = st[c].Step
      BY <2>0, <3>2, ExecutedType DEF TypeOK
    <3>7. st'[c].Step >= st[c].Step /\ st'[c].Status # "done"
      BY <2>0, <2>a, <3>1, <3>5, <3>6
    <3> QED BY <2>0, <2>a, <3>1, <3>2, <3>5, <3>7, ProgressStep
  <2>6. CASE ExecuteApproved(c)
    <3>1. /\ pc[c] = "execApproved" /\ pc' = [pc EXCEPT ![c] = "saveRun"]
          /\ execs' = execs \cup {CallOf(c)}
          /\ UNCHANGED <<ckpt, tool, overlap>>
      BY <2>6 DEF ExecuteApproved, Goto
    <3> DEFINE s == Executed(st[c], tool[c])
    <3>2. /\ st'[c] = [s EXCEPT !.PendingTool = NoTool]
          /\ \A d \in Invocations \ {c} : st'[d] = st[d] /\ tool'[d] = tool[d]
      BY <2>6 DEF ExecuteApproved, TypeOK
    <3>3. CallOf(c) \in execs' /\ CallOf(c).tool = tool[c] /\ CallOf(c).step = st[c].Step
      BY <3>1 DEF CallOf
    <3>4. /\ Entry("approved", tool[c], st[c].Step) \in st[c].Messages
          /\ Truthful(st[c], execs')
      BY <2>0, <3>1, TruthfulGrows DEF HistoryInv, TranscriptsTruthful
    <3>5. /\ Truthful(s, execs')
          /\ st[c].Messages \subseteq s.Messages
          /\ s.Status = st[c].Status
      BY <2>0, <3>3, <3>4, ExecutedTruthful
    <3>6. s \in RunState /\ s.Step = st[c].Step
      BY <2>0, ExecutedType DEF TypeOK
    <3> HIDE DEF s
    <3>7. st'[c].Messages = s.Messages /\ st'[c].Step = s.Step /\ st'[c].Status = s.Status
      BY <3>2, <3>6 DEF RunState
    <3>8. st'[c].Step >= st[c].Step /\ st'[c].Status # "done"
      BY <2>0, <2>a, <3>1, <3>5, <3>6, <3>7
    <3>9. Truthful(st'[c], execs') /\ st[c].Messages \subseteq st'[c].Messages
      BY <3>5, <3>7, TruthfulSame
    <3> QED BY <2>0, <2>a, <3>1, <3>2, <3>8, <3>9, ProgressStep
  <2>7. CASE SaveAndLoop(c)
    <3>1. /\ pc[c] = "saveLoop" /\ pc' = [pc EXCEPT ![c] = "loop"]
          /\ ckpt' = ckpt \/ ckpt' = st[c]
          /\ UNCHANGED <<st, tool, execs, overlap>>
      BY <2>7 DEF SaveAndLoop, Save, Goto
    <3>2. /\ Truthful(st'[c], execs') /\ st'[c].Step >= st[c].Step
          /\ st[c].Status # "done" /\ st'[c].Status # "done" /\ Live(c)
      BY <2>0, <2>a, <3>1
    <3> QED BY <2>a, <3>1, <3>2, ProgressStep
  <2>8. CASE SaveAndReturn(c)
    <3>1. /\ pc[c] = "saveReturn" /\ pc' = [pc EXCEPT ![c] = "returned"]
          /\ ckpt' = ckpt \/ ckpt' = st[c]
          /\ UNCHANGED <<st, tool, execs, overlap>>
      BY <2>8 DEF SaveAndReturn, Save, Goto
    <3>2. Truthful(st'[c], execs') /\ st'[c].Step >= st[c].Step /\ Live(c)
      BY <2>0, <3>1 DEF Live
    <3> QED BY <2>a, <3>1, <3>2, ProgressStep
  <2>9. CASE SaveAndRun(c)
    <3>1. /\ pc[c] = "saveRun" /\ pc' = [pc EXCEPT ![c] = "loop"]
          /\ ckpt' = ckpt \/ ckpt' = st[c]
          /\ UNCHANGED <<tool, execs, overlap>>
      BY <2>9 DEF SaveAndRun, Save, Goto
    <3>2. /\ st'[c] = [st[c] EXCEPT !.Status = "running"]
          /\ \A d \in Invocations \ {c} : st'[d] = st[d] /\ tool'[d] = tool[d]
      BY <2>9 DEF SaveAndRun, TypeOK
    <3>3. /\ st'[c].Messages = st[c].Messages /\ st'[c].Step = st[c].Step
          /\ st'[c].Status = "running"
      BY <2>0, <3>2 DEF RunState
    <3>4. /\ Truthful(st'[c], execs') /\ st'[c].Step >= st[c].Step
          /\ st[c].Status # "done" /\ Live(c)
      BY <2>0, <2>a, <3>1, <3>3, TruthfulSame
    <3> QED BY <2>a, <3>1, <3>2, <3>3, <3>4, ProgressStep
  <2> QED BY <1>3, <2>1, <2>2, <2>3, <2>4, <2>5, <2>6, <2>7, <2>8, <2>9 DEF Loop
<1>4. ASSUME NEW c \in Invocations, Crash(c) PROVE HistoryInv'
  <2>1. /\ Live(c) /\ pc' = [pc EXCEPT ![c] = "crashed"]
        /\ UNCHANGED <<ckpt, st, tool, execs, overlap>>
    BY <1>4 DEF Crash, Goto
  <2>2. Truthful(st'[c], execs') /\ st'[c].Step >= st[c].Step
    BY <1>a, <2>1
  <2>3. "crashed" \in PCs \ {"idle", "execApproved"} /\ "crashed" \notin Working
    BY DEF PCs, Working
  <2> QED BY <2>1, <2>2, <2>3, ProgressStep
<1>5. CASE UNCHANGED vars
  BY <1>5 DEF vars, HistoryInv, TranscriptsTruthful, NothingBeforeRun, WorkingIsOpen,
     AloneAndAhead, Ahead, Live
<1> QED BY <1>1, <1>2, <1>3, <1>4, <1>5 DEF Next

LEMMA HistoryInvariance == Spec => []HistoryInv
<1>1. Init => HistoryInv
  BY HistoryInit
<1>2. IInv /\ HistoryInv /\ [Next]_vars => HistoryInv'
  BY HistoryStep
<1> QED
  BY <1>1, <1>2, Invariance, PTL DEF Spec

(* A persisted transcript never invents a tool result, and a sensitive     *)
(* tool's result stands with the note of its approval, however many        *)
(* invocations overlap, crash or lose their saves (harness.go 177-201).    *)
THEOREM TranscriptSafety == Spec => []TranscriptIsTrue
<1>1. HistoryInv => TranscriptIsTrue
  BY DEF HistoryInv, TranscriptsTruthful, Truthful, TranscriptIsTrue
<1> QED
  BY <1>1, HistoryInvariance, PTL

(* Only an invocation in progress replaces the checkpoint, with its state. *)
LEMMA SavesAreOfLive ==
  ASSUME [Next]_vars, ckpt' # ckpt
  PROVE  \E c \in Invocations : Live(c) /\ ckpt' = st[c]
<1>1. \/ ckpt' = ckpt
      \/ \E c \in Invocations : SaveAndLoop(c) \/ SaveAndReturn(c) \/ SaveAndRun(c)
  BY DEF Next, vars, Run, Resume, ResumeLoadError, ResumeNotPending, ResumeDecline,
     ResumeApprove, Loop, MaxStepsReached, CompleteError, CompleteEndTurn,
     CompleteUnknownTool, CompletePause, CompleteTool, Execute, ExecuteApproved, Crash
<1> QED
  BY <1>1 DEF SaveAndLoop, SaveAndReturn, SaveAndRun, Save, Live

(* While no two invocations overlap, the checkpoint never steps back,      *)
(* never loses a message and is never replaced once the run is done,       *)
(* whatever saves are lost and crashes happen (harness.go 161-185).        *)
THEOREM CheckpointOrder == Spec => CheckpointMovesForward
<1>1. HistoryInv /\ [Next]_vars => [ExtendsCheckpoint]_ckpt
  <2> SUFFICES ASSUME HistoryInv, [Next]_vars, ckpt' # ckpt,
                      ckpt # NoCheckpoint, ~overlap
               PROVE  /\ ckpt.Status # "done"
                      /\ ckpt'.Step >= ckpt.Step
                      /\ ckpt.Messages \subseteq ckpt'.Messages
    BY DEF ExtendsCheckpoint
  <2>1. PICK c \in Invocations : Live(c) /\ ckpt' = st[c]
    BY SavesAreOfLive
  <2>2. Ahead(c)
    BY <2>1 DEF HistoryInv, AloneAndAhead
  <2> QED
    BY <2>1, <2>2 DEF Ahead
<1> QED
  BY <1>1, HistoryInvariance, PTL DEF Spec, CheckpointMovesForward

-----------------------------------------------------------------------------
(* No saved execution is repeated. *)

(* Between an execution and the next pause nothing is pending. *)
NothingPending ==
  \A c \in Invocations :
    pc[c] \in {"loop", "exec", "saveLoop", "saveRun"} => st[c].PendingTool = NoTool

(* Invocation c has completed a step the checkpoint does not have. *)
NewStep(c) == ckpt = NoCheckpoint \/ ckpt.Step < st[c].Step

(* Without overlap, a call that is about to be made or to wait for its     *)
(* approval is of a new step, or it is the one the checkpoint waits with.  *)
CallIsNext ==
  ~overlap => \A c \in Invocations :
    /\ pc[c] = "exec" => NewStep(c)
    /\ pc[c] = "saveReturn" /\ st[c].PendingTool # NoTool => NewStep(c)
    /\ pc[c] = "execApproved" => /\ ckpt # NoCheckpoint
                                 /\ ckpt.Step = st[c].Step
                                 /\ ckpt.PendingTool = tool[c]

(* The checkpoint has left the execution e behind. *)
Behind(e) ==
  /\ ckpt # NoCheckpoint
  /\ ckpt.Step > e.step \/ (ckpt.Step = e.step /\ ckpt.PendingTool = NoTool)

Saving(c) == pc[c] \in {"saveLoop", "saveRun"}

(* Without overlap, the checkpoint has left every execution behind but the *)
(* ones that are yet to be saved, or never were.                           *)
Accounted ==
  ~overlap => \A e \in execs :
    e \in unsaved \/ Behind(e) \/ (Saving(e.by) /\ CallOf(e.by) = e)

OnceInv == NothingPending /\ CallIsNext /\ Accounted /\ ExecutedOnce

(* A step that executes and saves nothing, of an invocation that has no    *)
(* execution to save.                                                      *)
LEMMA QuietOnce ==
  ASSUME TypeOK, OnceInv, NEW c \in Invocations, NEW label, ~Saving(c),
         pc' = [pc EXCEPT ![c] = label],
         \A d \in Invocations \ {c} : st'[d] = st[d] /\ tool'[d] = tool[d],
         UNCHANGED <<ckpt, execs, unsaved>>,
         ~overlap' => ~overlap,
         label \in {"loop", "exec", "saveLoop", "saveRun"} => st'[c].PendingTool = NoTool,
         ~overlap' =>
           /\ label = "exec" => NewStep(c)'
           /\ label = "saveReturn" /\ st'[c].PendingTool # NoTool => NewStep(c)'
           /\ label = "execApproved" => /\ ckpt # NoCheckpoint
                                        /\ ckpt.Step = st'[c].Step
                                        /\ ckpt.PendingTool = tool'[c]
  PROVE  OnceInv'
<1>1. \A d \in Invocations : pc'[d] = IF d = c THEN label ELSE pc[d]
  BY DEF TypeOK
<1>2. NothingPending'
  BY <1>1 DEF OnceInv, NothingPending
<1>3. CallIsNext'
  <2> SUFFICES ASSUME ~overlap', NEW d \in Invocations
               PROVE  /\ pc'[d] = "exec" => NewStep(d)'
                      /\ pc'[d] = "saveReturn" /\ st'[d].PendingTool # NoTool => NewStep(d)'
                      /\ pc'[d] = "execApproved" => /\ ckpt' # NoCheckpoint
                                                    /\ ckpt'.Step = st'[d].Step
                                                    /\ ckpt'.PendingTool = tool'[d]
    BY DEF CallIsNext
  <2>1. CASE d = c
    BY <1>1, <2>1
  <2>2. CASE d # c
    BY <1>1, <2>2 DEF OnceInv, CallIsNext, NewStep
  <2> QED BY <2>1, <2>2
<1>4. Accounted'
  <2> SUFFICES ASSUME ~overlap', NEW e \in execs
               PROVE  e \in unsaved \/ Behind(e)' \/ (Saving(e.by)' /\ CallOf(e.by)' = e)
    BY DEF Accounted
  <2>1. e \in unsaved \/ Behind(e) \/ (Saving(e.by) /\ CallOf(e.by) = e)
    BY DEF OnceInv, Accounted
  <2>2. e.by \in Invocations
    BY DEF TypeOK, Call
  <2>3. CASE Behind(e)
    BY <2>3 DEF Behind
  <2>4. CASE Saving(e.by) /\ CallOf(e.by) = e
    <3>1. e.by # c
      BY <2>4
    <3> QED BY <1>1, <2>2, <2>4, <3>1 DEF Saving, CallOf
  <2> QED BY <2>1, <2>3, <2>4
<1>5. ExecutedOnce'
  BY DEF OnceInv, ExecutedOnce
<1> QED BY <1>2, <1>3, <1>4, <1>5 DEF OnceInv

(* The invocation that executes: what has the same step was not saved.     *)
LEMMA ExecutingOnce ==
  ASSUME TypeOK, TypeOK', ReadyToExecute, HistoryInv, OnceInv, NEW c \in Invocations,
         pc[c] \in {"exec", "execApproved"}, NEW label \in {"saveLoop", "saveRun"},
         pc' = [pc EXCEPT ![c] = label],
         \A d \in Invocations \ {c} : st'[d] = st[d],
         st'[c].Step = st[c].Step, st'[c].PendingTool = NoTool,
         execs' = execs \cup {CallOf(c)},
         UNCHANGED <<ckpt, tool, overlap, unsaved>>
  PROVE  OnceInv'
<1>1. \A d \in Invocations : pc'[d] = IF d = c THEN label ELSE pc[d]
  BY DEF TypeOK
<1>2. NothingPending'
  BY <1>1 DEF OnceInv, NothingPending
<1>3. CallIsNext'
  BY <1>1 DEF OnceInv, CallIsNext, NewStep
<1>4. ASSUME ~overlap, NEW f \in execs, f \notin unsaved
      PROVE  Behind(f) /\ f.step # st[c].Step
  <2>1. f.by \in Invocations /\ f.step \in Nat /\ st[c].Step \in Nat
    BY HarnessAssumption DEF TypeOK, Call, RunState
  <2>2. ~Saving(f.by)
    BY <1>4, <2>1 DEF HistoryInv, AloneAndAhead, Live, Saving
  <2>3. Behind(f)
    BY <1>4, <2>2 DEF OnceInv, Accounted
  <2>4. ckpt # NoCheckpoint /\ ckpt.Step \in Nat
    BY <2>3, HarnessAssumption DEF Behind, TypeOK, RunState
  <2>5. CASE pc[c] = "exec"
    <3>1. ckpt.Step < st[c].Step
      BY <1>4, <2>4, <2>5 DEF OnceInv, CallIsNext, NewStep
    <3> QED BY <2>1, <2>3, <2>4, <3>1 DEF Behind
  <2>6. CASE pc[c] = "execApproved"
    <3>1. ckpt.Step = st[c].Step /\ ckpt.PendingTool = tool[c]
      BY <1>4, <2>6 DEF OnceInv, CallIsNext
    <3>2. tool[c] # NoTool
      BY <2>6, HarnessAssumption DEF ReadyToExecute
    <3> QED BY <2>1, <2>3, <2>4, <3>1, <3>2 DEF Behind
  <2> QED BY <2>5, <2>6
<1>5. CallOf(c)' = CallOf(c) /\ CallOf(c).by = c /\ CallOf(c).step = st[c].Step
  BY DEF CallOf
<1>6. Saving(c)'
  BY <1>1 DEF Saving
<1>7. Accounted'
  <2> SUFFICES ASSUME ~overlap, NEW e \in execs', e \notin unsaved
               PROVE  Behind(e)' \/ (Saving(e.by)' /\ CallOf(e.by)' = e)
    BY DEF Accounted
  <2>1. CASE e \in execs
    BY <1>4, <2>1 DEF Behind
  <2>2. CASE e = CallOf(c)
    BY <1>5, <1>6, <2>2
  <2> QED BY <2>1, <2>2
<1>8. ExecutedOnce'
  <2> SUFFICES ASSUME ~overlap, NEW e \in execs', NEW f \in execs', e.step = f.step,
                      e \notin unsaved, f \notin unsaved
               PROVE  e = f
    BY DEF ExecutedOnce
  <2>1. CASE e \in execs /\ f \in execs
    BY <2>1 DEF OnceInv, ExecutedOnce
  <2>2. CASE e \notin execs \/ f \notin execs
    BY <1>4, <1>5, <2>2
  <2> QED BY <2>1, <2>2
<1> QED BY <1>2, <1>3, <1>7, <1>8 DEF OnceInv

(* A save, or its loss: what was saved is behind, what was lost is noted.  *)
LEMMA SavingOnce ==
  ASSUME TypeOK, HistoryInv, OnceInv, NEW c \in Invocations,
         pc[c] \in {"saveLoop", "saveRun", "saveReturn"},
         NEW label \in {"loop", "returned"}, pc' = [pc EXCEPT ![c] = label],
         label = "loop" => pc[c] # "saveReturn",
         \A d \in Invocations \ {c} : st'[d] = st[d],
         st'[c].PendingTool = st[c].PendingTool,
         UNCHANGED <<execs, overlap>>, unsaved \subseteq unsaved',
         ckpt' = st[c] \/ (ckpt' = ckpt /\ (Saving(c) => CallOf(c) \in unsaved'))
  PROVE  OnceInv'
<1>1. \A d \in Invocations : pc'[d] = IF d = c THEN label ELSE pc[d]
  BY DEF TypeOK
<1>2. NothingPending'
  BY <1>1 DEF OnceInv, NothingPending
<1>3. ASSUME ~overlap PROVE Live(c) /\ Ahead(c) /\ \A d \in Invocations : Live(d) => d = c
  <2>1. Live(c)
    BY DEF Live
  <2> QED BY <1>3, <2>1 DEF HistoryInv, AloneAndAhead
<1>4. CallIsNext'
  <2> SUFFICES ASSUME ~overlap, NEW d \in Invocations
               PROVE  pc'[d] \notin {"exec", "saveReturn", "execApproved"}
    BY DEF CallIsNext
  <2>1. d # c => ~Live(d)
    BY <1>3
  <2> QED BY <1>1, <2>1 DEF Live
<1>5. Accounted'
  <2> SUFFICES ASSUME ~overlap, NEW e \in execs, e \notin unsaved'
               PROVE  Behind(e)'
    BY DEF Accounted
  <2>1. e.by \in Invocations /\ e.step \in Nat /\ st[c].Step \in Nat /\ st[c] \in RunState
    BY HarnessAssumption DEF TypeOK, Call, RunState
  <2>2. Behind(e) \/ (Saving(e.by) /\ CallOf(e.by) = e)
    BY DEF OnceInv, Accounted
  <2>3. CASE Saving(e.by) /\ CallOf(e.by) = e
    <3>1. e.by = c
      BY <1>3, <2>1, <2>3 DEF Saving, Live
    <3>2. e.step = st[c].Step /\ ckpt' = st[c]
      BY <2>3, <3>1 DEF CallOf
    <3>3. st[c].PendingTool = NoTool
      BY <2>3, <3>1 DEF Saving, OnceInv, NothingPending
    <3>4. ckpt' # NoCheckpoint
      BY <2>1, <3>2, NoCheckpointAssumption
    <3> QED BY <3>2, <3>3, <3>4 DEF Behind
  <2>4. CASE Behind(e) /\ ckpt' = ckpt
    BY <2>4 DEF Behind
  <2>5. CASE Behind(e) /\ ckpt' = st[c]
    <3>1. ckpt # NoCheckpoint /\ ckpt.Step \in Nat
      BY <2>5, HarnessAssumption DEF Behind, TypeOK, RunState
    <3>2. st[c].Step >= ckpt.Step /\ ckpt.Step >= e.step
      BY <1>3, <2>1, <2>5, <3>1 DEF Ahead, Behind
    <3>3. st[c].PendingTool = NoTool \/ ckpt.Step < st[c].Step
      BY <3>1 DEF OnceInv, NothingPending, CallIsNext, NewStep
    <3> QED BY <2>1, <2>5, <3>1, <3>2, <3>3, NoCheckpointAssumption DEF Behind
  <2> QED BY <2>2, <2>3, <2>4, <2>5
<1>6. ExecutedOnce'
  BY DEF OnceInv, ExecutedOnce
<1> QED BY <1>2, <1>4, <1>5, <1>6 DEF OnceInv

LEMMA OnceInit == Init => OnceInv
<1> SUFFICES ASSUME Init PROVE OnceInv
  OBVIOUS
<1>1. execs = {} /\ \A c \in Invocations : pc[c] = "idle"
  BY DEF Init
<1> QED
  BY <1>1 DEF OnceInv, NothingPending, CallIsNext, Accounted, ExecutedOnce

LEMMA OnceStep == IInv /\ HistoryInv /\ OnceInv /\ [Next]_vars => OnceInv'
<1> SUFFICES ASSUME IInv, HistoryInv, OnceInv, [Next]_vars PROVE OnceInv'
  OBVIOUS
<1>0. TypeOK /\ TypeOK' /\ ReadyToExecute
  BY TypeStep DEF IInv
<1> USE <1>0
<1>a. \A c \in Invocations : st[c] \in RunState /\ st[c].Step \in Nat
  BY HarnessAssumption DEF TypeOK, RunState
<1>b. ckpt # NoCheckpoint => ckpt \in RunState /\ ckpt.Step \in Nat
  BY HarnessAssumption DEF TypeOK, RunState
<1>c. ASSUME NEW c, Start(c) PROVE ~overlap' => ~overlap
  BY <1>c, Zenon DEF Start
<1>d. ASSUME NEW c, pc[c] \in {"idle", "loop"} PROVE ~Saving(c)
  BY <1>d DEF Saving
<1>1. CASE Run(Runner)
  <2>0. Runner \in Invocations /\ ~Saving(Runner) /\ (~overlap' => ~overlap)
    BY <1>1, <1>c, <1>d DEF Run, Start, Invocations
  <2>1. /\ st'[Runner] = Fresh(grants)
        /\ \A d \in Invocations \ {Runner} : st'[d] = st[d] /\ tool'[d] = tool[d]
        /\ pc' = [pc EXCEPT ![Runner] = "loop"]
        /\ UNCHANGED <<ckpt, execs, unsaved>>
    BY <1>1, <2>0 DEF Run, TypeOK, Goto
  <2>2. st'[Runner].PendingTool = NoTool
    BY <2>1, FreshType DEF TypeOK
  <2> QED
    BY <2>0, <2>1, <2>2, QuietOnce
<1>2. ASSUME NEW c \in Resumers, Resume(c) PROVE OnceInv'
  <2>0. c \in Invocations /\ ~Saving(c) /\ (~overlap' => ~overlap)
    BY <1>2, <1>c, <1>d DEF Resume, ResumeLoadError, ResumeNotPending, ResumeDecline,
       ResumeApprove, Start, Invocations
  <2>1. CASE ResumeLoadError(c) \/ ResumeNotPending(c)
    <3>1. /\ pc' = [pc EXCEPT ![c] = "returned"]
          /\ UNCHANGED <<ckpt, st, tool, execs, unsaved>>
      BY <2>1 DEF ResumeLoadError, ResumeNotPending, Goto
    <3> QED BY <2>0, <3>1, QuietOnce
  <2>2. ASSUME NEW a \in BOOLEAN, ResumeDecline(c, a) PROVE OnceInv'
    <3>1. /\ pc' = [pc EXCEPT ![c] = "saveReturn"]
          /\ UNCHANGED <<ckpt, tool, execs, unsaved>>
      BY <2>2 DEF ResumeDecline, Goto
    <3>2. /\ st'[c] = [ckpt EXCEPT !.Status = "done", !.FinalText = "declined",
                                   !.PendingTool = NoTool]
          /\ \A d \in Invocations \ {c} : st'[d] = st[d] /\ tool'[d] = tool[d]
      BY <2>0, <2>2 DEF ResumeDecline, TypeOK
    <3>3. st'[c].PendingTool = NoTool
      <4>1. ckpt \in RunState
        BY <1>b, <2>2 DEF ResumeDecline, ResumeAccepts
      <4> QED BY <3>2, <4>1 DEF RunState
    <3> QED BY <2>0, <3>1, <3>2, <3>3, QuietOnce
  <2>3. ASSUME NEW a \in BOOLEAN, ResumeApprove(c, a) PROVE OnceInv'
    <3>1. /\ pc' = [pc EXCEPT ![c] = "execApproved"]
          /\ UNCHANGED <<ckpt, execs, unsaved>> /\ ckpt # NoCheckpoint
      BY <2>3 DEF ResumeApprove, ResumeAccepts, Goto
    <3>2. /\ st'[c] = Approved(ckpt) /\ tool'[c] = ckpt.PendingTool
          /\ \A d \in Invocations \ {c} : st'[d] = st[d] /\ tool'[d] = tool[d]
      BY <2>0, <2>3 DEF ResumeApprove, TypeOK
    <3>3. st'[c].Step = ckpt.Step
      BY <1>b, <3>1, <3>2, ApprovedType
    <3> QED BY <2>0, <3>1, <3>2, <3>3, QuietOnce
  <2> QED BY <1>2, <2>1, <2>2, <2>3 DEF Resume
<1>3. ASSUME NEW c \in Invocations, Loop(c) PROVE OnceInv'
  <2>a. ASSUME pc[c] = "loop"
        PROVE  /\ ~Saving(c) /\ st[c].PendingTool = NoTool
               /\ ~overlap /\ ckpt # NoCheckpoint => st[c].Step >= ckpt.Step
    <3>1. ~Saving(c) /\ st[c].PendingTool = NoTool /\ Live(c)
      BY <2>a DEF Saving, OnceInv, NothingPending, Live
    <3> QED BY <3>1 DEF HistoryInv, AloneAndAhead, Ahead
  <2>1. CASE MaxStepsReached(c)
    <3>1. /\ pc[c] = "loop" /\ pc' = [pc EXCEPT ![c] = "saveReturn"]
          /\ UNCHANGED <<ckpt, tool, execs, overlap, unsaved>>
      BY <2>1 DEF MaxStepsReached, Goto
    <3>2. /\ st'[c] = [st[c] EXCEPT !.Status = "done", !.FinalText = ""]
          /\ \A d \in Invocations \ {c} : st'[d] = st[d] /\ tool'[d] = tool[d]
      BY <2>1 DEF MaxStepsReached, TypeOK
    <3>3. st'[c].PendingTool = NoTool
      BY <1>a, <2>a, <3>1, <3>2 DEF RunState
    <3> QED BY <2>a, <3>1, <3>2, <3>3, QuietOnce
  <2>2. CASE CompleteError(c)
    <3>1. /\ pc[c] = "loop" /\ pc' = [pc EXCEPT ![c] = "returned"]
          /\ UNCHANGED <<ckpt, st, tool, execs, overlap, unsaved>>
      BY <2>2 DEF CompleteError, Goto
    <3> QED BY <2>a, <3>1, QuietOnce
  <2>3. ASSUME \/ CompleteEndTurn(c)
               \/ \E n \in Names : CompleteUnknownTool(c, n)
               \/ \E n \in Names : CompletePause(c, n)
        PROVE  OnceInv'
    <3>1. /\ pc[c] = "loop" /\ pc' = [pc EXCEPT ![c] = "saveReturn"]
          /\ ~OutOfSteps(st[c])
          /\ UNCHANGED <<ckpt, tool, execs, overlap, unsaved>>
      BY <2>3 DEF CompleteEndTurn, CompleteUnknownTool, CompletePause, Goto
    <3>2. \A d \in Invocations \ {c} : st'[d] = st[d] /\ tool'[d] = tool[d]
      BY <2>3 DEF CompleteEndTurn, CompleteUnknownTool, CompletePause, TypeOK
    <3>3. Advance(st[c]) \in RunState /\ Advance(st[c]).Step = st[c].Step + 1
      BY <1>a, <3>1, AdvanceType
    <3>4. st'[c].Step = Advance(st[c]).Step
      <4>1. CASE CompleteEndTurn(c)
        <5>1. st'[c] = [Advance(st[c]) EXCEPT !.Status = "done", !.FinalText = "text"]
          BY <4>1 DEF CompleteEndTurn, TypeOK
        <5> QED BY <3>3, <5>1 DEF RunState
      <4>2. ASSUME NEW n \in Names, CompleteUnknownTool(c, n)
            PROVE  st'[c].Step = Advance(st[c]).Step
        <5>1. st'[c] = [Advance(st[c]) EXCEPT !.Status = "done", !.FinalText = ""]
          BY <4>2 DEF CompleteUnknownTool, TypeOK
        <5> QED BY <3>3, <5>1 DEF RunState
      <4>3. ASSUME NEW n \in Names, CompletePause(c, n)
            PROVE  st'[c].Step = Advance(st[c]).Step
        <5>1. st'[c] = [Advance(st[c]) EXCEPT !.Status = "awaiting_approval", !.PendingTool = n]
          BY <4>3 DEF CompletePause, TypeOK
        <5> QED BY <3>3, <5>1 DEF RunState
      <4> QED BY <2>3, <4>1, <4>2, <4>3
    <3>5. ~overlap => NewStep(c)'
      BY <1>a, <1>b, <2>a, <3>1, <3>3, <3>4 DEF NewStep
    <3> QED BY <2>a, <3>1, <3>2, <3>5, QuietOnce
  <2>4. ASSUME NEW n \in Names, CompleteTool(c, n) PROVE OnceInv'
    <3>1. /\ pc[c] = "loop" /\ pc' = [pc EXCEPT ![c] = "exec"]
          /\ ~OutOfSteps(st[c])
          /\ UNCHANGED <<ckpt, execs, overlap, unsaved>>
      BY <2>4 DEF CompleteTool, Goto
    <3>2. /\ st'[c] = Advance(st[c])
          /\ \A d \in Invocations \ {c} : st'[d] = st[d] /\ tool'[d] = tool[d]
      BY <2>4 DEF CompleteTool, TypeOK
    <3>3. st'[c].Step = st[c].Step + 1 /\ st'[c].PendingTool = NoTool
      BY <1>a, <2>a, <3>1, <3>2, AdvanceType
    <3>4. ~overlap => NewStep(c)'
      BY <1>a, <1>b, <2>a, <3>1, <3>3 DEF NewStep
    <3> QED BY <2>a, <3>1, <3>2, <3>3, <3>4, QuietOnce
  <2>5. CASE Execute(c)
    <3>1. /\ pc[c] = "exec" /\ pc' = [pc EXCEPT ![c] = "saveLoop"]
          /\ execs' = execs \cup {CallOf(c)}
          /\ UNCHANGED <<ckpt, tool, overlap, unsaved>>
      BY <2>5 DEF Execute, Goto
    <3>2. /\ st'[c] = Executed(st[c], tool[c])
          /\ \A d \in Invocations \ {c} : st'[d] = st[d]
      BY <2>5 DEF Execute, TypeOK
    <3>3. st'[c].Step = st[c].Step /\ st'[c].PendingTool = NoTool
      BY <1>a, <3>1, <3>2, ExecutedType DEF TypeOK, OnceInv, NothingPending
    <3> QED BY <3>1, <3>2, <3>3, ExecutingOnce
  <2>6. CASE ExecuteApproved(c)
    <3>1. /\ pc[c] = "execApproved" /\ pc' = [pc EXCEPT ![c] = "saveRun"]
          /\ execs' = execs \cup {CallOf(c)}
          /\ UNCHANGED <<ckpt, tool, overlap, unsaved>>
      BY <2>6 DEF ExecuteApproved, Goto
    <3> DEFINE s == Executed(st[c], tool[c])
    <3>2. /\ st'[c] = [s EXCEPT !.PendingTool = NoTool]
          /\ \A d \in Invocations \ {c} : st'[d] = st[d]
      BY <2>6 DEF ExecuteApproved, TypeOK
    <3>3. s \in RunState /\ s.Step = st[c].Step
      BY <1>a, ExecutedType DEF TypeOK
    <3> HIDE DEF s
    <3>4. st'[c].Step = st[c].Step /\ st'[c].PendingTool = NoTool
      BY <3>2, <3>3 DEF RunState
    <3> QED BY <3>1, <3>2, <3>4, ExecutingOnce
  <2>7. ASSUME SaveAndLoop(c) \/ SaveAndRun(c) PROVE OnceInv'
    <3>1. /\ pc[c] \in {"saveLoop", "saveRun"} /\ pc' = [pc EXCEPT ![c] = "loop"]
          /\ UNCHANGED <<execs, overlap>>
          /\ ckpt' \in {st[c], ckpt} /\ NoteSave(c, ckpt' = st[c])
      BY <2>7 DEF SaveAndLoop, SaveAndRun, Save, Goto
    <3>2. /\ unsaved \subseteq unsaved'
          /\ ckpt' = st[c] \/ (ckpt' = ckpt /\ CallOf(c) \in unsaved')
      BY <3>1 DEF NoteSave
    <3>3. \A d \in Invocations \ {c} : st'[d] = st[d]
      BY <2>7 DEF SaveAndLoop, SaveAndRun, TypeOK
    <3>4. st'[c].PendingTool = st[c].PendingTool
      <4>1. st'[c] = st[c] \/ st'[c] = [st[c] EXCEPT !.Status = "running"]
        BY <2>7 DEF SaveAndLoop, SaveAndRun, TypeOK
      <4> QED BY <1>a, <4>1 DEF RunState
    <3> QED BY <3>1, <3>2, <3>3, <3>4, SavingOnce
  <2>8. CASE SaveAndReturn(c)
    <3>1. /\ pc[c] = "saveReturn" /\ pc' = [pc EXCEPT ![c] = "returned"]
          /\ UNCHANGED <<st, execs, overlap, unsaved>>
          /\ ckpt' \in {st[c], ckpt} /\ ~Saving(c)
      BY <2>8 DEF SaveAndReturn, Save, Goto, Saving
    <3> QED BY <3>1, SavingOnce
  <2> QED BY <1>3, <2>1, <2>2, <2>3, <2>4, <2>5, <2>6, <2>7, <2>8 DEF Loop
<1>4. ASSUME NEW c \in Invocations, Crash(c) PROVE OnceInv'
  <2>1. /\ pc' = [pc EXCEPT ![c] = "crashed"]
        /\ UNCHANGED <<ckpt, st, tool, execs, overlap>>
    BY <1>4 DEF Crash, Goto
  <2>2. unsaved' = IF Saving(c) THEN unsaved \cup {CallOf(c)} ELSE unsaved
    BY <1>4 DEF Crash, NoteSave, Saving
  <2>3. \A d \in Invocations : pc'[d] = IF d = c THEN "crashed" ELSE pc[d]
    BY <2>1 DEF TypeOK
  <2>4. NothingPending' /\ CallIsNext'
    BY <2>1, <2>3 DEF OnceInv, NothingPending, CallIsNext, NewStep
  <2>5. Accounted'
    <3> SUFFICES ASSUME ~overlap, NEW e \in execs
                 PROVE  e \in unsaved' \/ Behind(e)' \/ (Saving(e.by)' /\ CallOf(e.by)' = e)
      BY <2>1 DEF Accounted
    <3>1. e \in unsaved \/ Behind(e) \/ (Saving(e.by) /\ CallOf(e.by) = e)
      BY DEF OnceInv, Accounted
    <3>2. e.by \in Invocations
      BY DEF TypeOK, Call
    <3>3. CASE Saving(e.by) /\ CallOf(e.by) = e
      <4>1. CASE e.by = c
        BY <2>2, <3>3, <4>1
      <4>2. CASE e.by # c
        BY <2>1, <2>3, <3>2, <3>3, <4>2 DEF Saving, CallOf
      <4> QED BY <4>1, <4>2
    <3>4. CASE Behind(e)
      BY <2>1, <3>4 DEF Behind
    <3> QED BY <2>2, <3>1, <3>3, <3>4
  <2>6. ExecutedOnce'
    BY <2>1, <2>2 DEF OnceInv, ExecutedOnce
  <2> QED BY <2>4, <2>5, <2>6 DEF OnceInv
<1>5. CASE UNCHANGED vars
  BY <1>5 DEF vars, OnceInv, NothingPending, CallIsNext, NewStep, Accounted, Behind, Saving,
     CallOf, ExecutedOnce
<1> QED BY <1>1, <1>2, <1>3, <1>4, <1>5 DEF Next

(* A step's tool call is executed once, across invocations, unless they    *)
(* overlap or its save does not happen (harness.go 145-148, 165-167,       *)
(* 179-185).                                                               *)
THEOREM OnceOnly == Spec => []ExecutedOnce
<1>1. Init => OnceInv
  BY OnceInit
<1>2. IInv /\ HistoryInv /\ OnceInv /\ [Next]_vars => OnceInv'
  BY OnceStep
<1>3. OnceInv => ExecutedOnce
  BY DEF OnceInv
<1> QED
  BY <1>1, <1>2, <1>3, Invariance, HistoryInvariance, PTL DEF Spec

=============================================================================
