------------------------------- MODULE Harness -------------------------------
(***************************************************************************)
(* The agent loop of internal/harness/harness.go: Run drives completions   *)
(* and tool calls for one run, pausing at tools that require approval;     *)
(* Resume loads the checkpoint and continues after the user's decision.    *)
(*                                                                         *)
(* One run id is modelled.  Every call of Run or Resume is an invocation   *)
(* with its own in-memory RunState; the checkpoint is shared.  The points  *)
(* where invocations interleave are the calls that leave the process:      *)
(* Load, Complete, Execute and Save.  An invocation can crash between any  *)
(* two of them, and a Save may fail (its error is discarded everywhere).   *)
(***************************************************************************)
EXTENDS Naturals

CONSTANTS
  Names,        \* tool names the model may answer with
  Tools,        \* tools registered in Harness.tools
  Approval,     \* tools whose RequiresApproval() is true
  MaxSteps,     \* Harness.maxSteps
  Runner,       \* the invocation that calls Run
  Resumers,     \* the invocations that call Resume (bounds how many there are)
  NoTool,       \* the empty PendingTool
  NoCheckpoint  \* Load finds nothing

ASSUME HarnessAssumption ==
  /\ Tools \subseteq Names
  /\ Approval \subseteq Tools
  /\ MaxSteps \in Nat
  /\ Runner \notin Resumers
  /\ NoTool \notin Names

VARIABLES
  ckpt,       \* the checkpoint store's entry for the run
  pc,         \* where each invocation is
  st,         \* each invocation's in-memory RunState
  tool,       \* the tool an invocation is about to execute
  grants,     \* history: the grant list given to Run
  approvals,  \* history: requests a Resume(approved) call was accepted for
  execs,      \* history: tool executions that took place
  overlap,    \* history: some invocation started while another was in progress
  unsaved     \* history: executions whose invocation crashed before the save that
              \*   follows them, or lost it

vars == <<ckpt, pc, st, tool, grants, approvals, execs, overlap, unsaved>>

Invocations == Resumers \cup {Runner}

Statuses == {"running", "awaiting_approval", "done"}

Finals == {"", "text", "declined"}

(* A conversation entry, reduced to what it says about a tool call.  The   *)
(* step it carries orders the entries, so a transcript is a set of them.   *)
Message == [role : {"assistant", "approved", "tool"},
            tool : Names \cup {NoTool},
            step : 0..MaxSteps]

RunState == [Messages     : SUBSET Message,
             Step         : 0..MaxSteps,
             Status       : Statuses,
             PendingTool  : Names \cup {NoTool},
             FinalText    : Finals,
             GrantedTools : SUBSET Names]

ASSUME NoCheckpointAssumption == NoCheckpoint \notin RunState

(* A tool call: the invocation that makes it, the tool, and the step of    *)
(* the loop whose completion asked for it.                                 *)
Call == [by : Invocations, tool : Names, step : 0..MaxSteps]

PCs == {"idle", "loop", "exec", "execApproved", "saveLoop", "saveRun",
        "saveReturn", "returned", "crashed"}

TypeOK ==
  /\ ckpt \in RunState \cup {NoCheckpoint}
  /\ pc \in [Invocations -> PCs]
  /\ st \in [Invocations -> RunState]
  /\ tool \in [Invocations -> Names \cup {NoTool}]
  /\ grants \in SUBSET Names
  /\ approvals \in SUBSET Call
  /\ execs \in SUBSET Call
  /\ overlap \in BOOLEAN
  /\ unsaved \in SUBSET [by : Invocations, tool : Names \cup {NoTool}, step : 0..MaxSteps]

-----------------------------------------------------------------------------

Fresh(g) == [Messages |-> {}, Step |-> 0, Status |-> "running",
             PendingTool |-> NoTool, FinalText |-> "", GrantedTools |-> g]

Entry(r, t, s) == [role |-> r, tool |-> t, step |-> s]

Live(c) == pc[c] \notin {"idle", "returned", "crashed"}

(* The tool call invocation c is about to make. *)
CallOf(c) == [by |-> c, tool |-> tool[c], step |-> st[c].Step]

Goto(c, label) == pc' = [pc EXCEPT ![c] = label]

(* Save's error is discarded by every caller: the checkpoint is either     *)
(* replaced as a whole or left as it was.                                  *)
Save(s) == ckpt' \in {s, ckpt}

(* Keep account of the execution that is to be saved next. *)
NoteSave(c, saved) == unsaved' = IF saved THEN unsaved ELSE unsaved \cup {CallOf(c)}

Init ==
  /\ grants \in SUBSET Names
  /\ ckpt = NoCheckpoint
  /\ pc = [c \in Invocations |-> "idle"]
  /\ st = [c \in Invocations |-> Fresh(grants)]
  /\ tool = [c \in Invocations |-> NoTool]
  /\ approvals = {}
  /\ execs = {}
  /\ overlap = FALSE
  /\ unsaved = {}

Start(c) ==
  /\ pc[c] = "idle"
  /\ overlap' = (overlap \/ \E d \in Invocations : Live(d))

(* Run is called once for the run id, with the compiled grant list. *)
Run(c) ==
  /\ Start(c)
  /\ st' = [st EXCEPT ![c] = Fresh(grants)]
  /\ Goto(c, "loop")
  /\ UNCHANGED <<ckpt, tool, grants, approvals, execs, unsaved>>

OutOfSteps(s) == s.Step >= MaxSteps

MaxStepsReached(c) ==
  /\ pc[c] = "loop"
  /\ OutOfSteps(st[c])
  /\ st' = [st EXCEPT ![c].Status = "done", ![c].FinalText = ""]
  /\ Goto(c, "saveReturn")
  /\ UNCHANGED <<ckpt, tool, grants, approvals, execs, overlap, unsaved>>

(* Complete failed: Run returns at once and saves nothing. *)
CompleteError(c) ==
  /\ pc[c] = "loop"
  /\ ~OutOfSteps(st[c])
  /\ Goto(c, "returned")
  /\ UNCHANGED <<ckpt, st, tool, grants, approvals, execs, overlap, unsaved>>

Advance_NoCount(s) ==
  [s EXCEPT !.Messages = @ \cup {Entry("assistant", NoTool, s.Step)}]

(* What every answer does first: count the step and append its text. *)
Advance(s) ==
  [s EXCEPT !.Step = @ + 1,
            !.Messages = @ \cup {Entry("assistant", NoTool, s.Step + 1)}]

(* end_turn, and any stop reason Run does not know. *)
CompleteEndTurn(c) ==
  /\ pc[c] = "loop"
  /\ ~OutOfSteps(st[c])
  /\ st' = [st EXCEPT ![c] = [Advance(@) EXCEPT !.Status = "done",
                                                !.FinalText = "text"]]
  /\ Goto(c, "saveReturn")
  /\ UNCHANGED <<ckpt, tool, grants, approvals, execs, overlap, unsaved>>

Usable_NoGrant(n, granted) == n \in Tools

Usable(n, granted) == n \in Tools /\ n \in granted

(* tool_use of a tool that is not registered or not granted ends the run. *)
CompleteUnknownTool(c, n) ==
  /\ pc[c] = "loop"
  /\ ~OutOfSteps(st[c])
  /\ ~Usable(n, st[c].GrantedTools)
  /\ st' = [st EXCEPT ![c] = [Advance(@) EXCEPT !.Status = "done",
                                                !.FinalText = ""]]
  /\ Goto(c, "saveReturn")
  /\ UNCHANGED <<ckpt, tool, grants, approvals, execs, overlap, unsaved>>

NeedsApproval_Never(n) == FALSE

NeedsApproval(n) == n \in Approval

(* tool_use of a tool that requires approval pauses the run. *)
CompletePause(c, n) ==
  /\ pc[c] = "loop"
  /\ ~OutOfSteps(st[c])
  /\ Usable(n, st[c].GrantedTools)
  /\ NeedsApproval(n)
  /\ st' = [st EXCEPT ![c] = [Advance(@) EXCEPT !.Status = "awaiting_approval",
                                                !.PendingTool = n]]
  /\ Goto(c, "saveReturn")
  /\ UNCHANGED <<ckpt, tool, grants, approvals, execs, overlap, unsaved>>

(* tool_use of any other tool goes straight on to its execution. *)
CompleteTool(c, n) ==
  /\ pc[c] = "loop"
  /\ ~OutOfSteps(st[c])
  /\ Usable(n, st[c].GrantedTools)
  /\ ~NeedsApproval(n)
  /\ st' = [st EXCEPT ![c] = Advance(@)]
  /\ tool' = [tool EXCEPT ![c] = n]
  /\ Goto(c, "exec")
  /\ UNCHANGED <<ckpt, grants, approvals, execs, overlap, unsaved>>

(* executeAndAppend: the result, or the tool's error text, is appended. *)
Executed(s, t) == [s EXCEPT !.Messages = @ \cup {Entry("tool", t, s.Step)}]

Execute(c) ==
  /\ pc[c] = "exec"
  /\ execs' = execs \cup {CallOf(c)}
  /\ st' = [st EXCEPT ![c] = Executed(@, tool[c])]
  /\ Goto(c, "saveLoop")
  /\ UNCHANGED <<ckpt, tool, grants, approvals, overlap, unsaved>>

SaveAndLoop(c) ==
  /\ pc[c] = "saveLoop"
  /\ Save(st[c])
  /\ NoteSave(c, ckpt' = st[c])
  /\ Goto(c, "loop")
  /\ UNCHANGED <<st, tool, grants, approvals, execs, overlap>>

SaveAndReturn(c) ==
  /\ pc[c] = "saveReturn"
  /\ Save(st[c])
  /\ Goto(c, "returned")
  /\ UNCHANGED <<st, tool, grants, approvals, execs, overlap, unsaved>>

ResumeAccepts_AnyStatus(s) == s # NoCheckpoint

(* Resume continues only a checkpoint that awaits an approval. *)
ResumeAccepts(s) == s # NoCheckpoint /\ s.Status = "awaiting_approval"

ResumeLoadError(c) ==
  /\ Start(c)
  /\ Goto(c, "returned")
  /\ UNCHANGED <<ckpt, st, tool, grants, approvals, execs, unsaved>>

ResumeNotPending(c) ==
  /\ Start(c)
  /\ ~ResumeAccepts(ckpt)
  /\ Goto(c, "returned")
  /\ UNCHANGED <<ckpt, st, tool, grants, approvals, execs, unsaved>>

(* The user said no, or the pending tool is not a registered tool. *)
ResumeDecline(c, approved) ==
  /\ Start(c)
  /\ ResumeAccepts(ckpt)
  /\ ~approved \/ ckpt.PendingTool \notin Tools
  /\ st' = [st EXCEPT ![c] = [ckpt EXCEPT !.Status = "done",
                                          !.FinalText = "declined",
                                          !.PendingTool = NoTool]]
  /\ Goto(c, "saveReturn")
  /\ UNCHANGED <<ckpt, tool, grants, approvals, execs, unsaved>>

Approved_NoNote(s) == s

(* The approval is noted in the transcript before the tool runs. *)
Approved(s) ==
  [s EXCEPT !.Messages = @ \cup {Entry("approved", s.PendingTool, s.Step)}]

ResumeApprove(c, approved) ==
  /\ Start(c)
  /\ ResumeAccepts(ckpt)
  /\ approved /\ ckpt.PendingTool \in Tools
  /\ st' = [st EXCEPT ![c] = Approved(ckpt)]
  /\ tool' = [tool EXCEPT ![c] = ckpt.PendingTool]
  /\ approvals' = approvals \cup
                    {[by |-> c, tool |-> ckpt.PendingTool, step |-> ckpt.Step]}
  /\ Goto(c, "execApproved")
  /\ UNCHANGED <<ckpt, grants, execs, unsaved>>

ExecuteApproved_StaysPending(c) ==
  /\ pc[c] = "execApproved"
  /\ execs' = execs \cup {CallOf(c)}
  /\ st' = [st EXCEPT ![c] = Executed(@, tool[c])]
  /\ Goto(c, "saveRun")
  /\ UNCHANGED <<ckpt, tool, grants, approvals, overlap, unsaved>>

(* The approved tool runs and the pending fields are cleared. *)
ExecuteApproved(c) ==
  /\ pc[c] = "execApproved"
  /\ execs' = execs \cup {CallOf(c)}
  /\ st' = [st EXCEPT ![c] = [Executed(@, tool[c]) EXCEPT !.PendingTool = NoTool]]
  /\ Goto(c, "saveRun")
  /\ UNCHANGED <<ckpt, tool, grants, approvals, overlap, unsaved>>

(* Resume saves the state, its Status still awaiting_approval, and enters  *)
(* Run with the grant list of the checkpoint; Run sets the status.         *)
SaveAndRun(c) ==
  /\ pc[c] = "saveRun"
  /\ Save(st[c])
  /\ NoteSave(c, ckpt' = st[c])
  /\ st' = [st EXCEPT ![c].Status = "running"]
  /\ Goto(c, "loop")
  /\ UNCHANGED <<tool, grants, approvals, execs, overlap>>

(* The process dies; its in-memory state is gone. *)
Crash(c) ==
  /\ Live(c)
  /\ NoteSave(c, pc[c] \notin {"saveLoop", "saveRun"})
  /\ Goto(c, "crashed")
  /\ UNCHANGED <<ckpt, st, tool, grants, approvals, execs, overlap>>

Loop(c) ==
  \/ MaxStepsReached(c)
  \/ CompleteError(c)
  \/ CompleteEndTurn(c)
  \/ \E n \in Names : CompleteUnknownTool(c, n)
  \/ \E n \in Names : CompletePause(c, n)
  \/ \E n \in Names : CompleteTool(c, n)
  \/ Execute(c)
  \/ SaveAndLoop(c)
  \/ SaveAndReturn(c)
  \/ ExecuteApproved(c)
  \/ SaveAndRun(c)

Resume(c) ==
  \/ ResumeLoadError(c)
  \/ ResumeNotPending(c)
  \/ \E approved \in BOOLEAN : ResumeDecline(c, approved)
  \/ \E approved \in BOOLEAN : ResumeApprove(c, approved)

Next ==
  \/ Run(Runner)
  \/ \E c \in Resumers : Resume(c)
  \/ \E c \in Invocations : Loop(c)
  \/ \E c \in Invocations : Crash(c)

Spec == Init /\ [][Next]_vars

(* The completion, tool and store calls an invocation makes are assumed to *)
(* return, so one that has not crashed takes its next step.  Nobody is     *)
(* obliged to call Run or Resume.                                          *)
FairSpec == Spec /\ \A c \in Invocations : WF_vars(Loop(c))

-----------------------------------------------------------------------------
(* Properties. *)

(* Every execution of a tool that requires approval was preceded by a      *)
(* Resume(approved) for exactly that request (harness.go 138-144,169-181), *)
(* whatever crashes, lost saves and other invocations come between.        *)
ApprovalBeforeExecution ==
  \A e \in execs : e.tool \in Approval => e \in approvals

(* Unless invocations overlapped, a step's tool call is executed by one    *)
(* invocation only, across any number of Resume calls, failing completions *)
(* and crashes, except where the process died between the execution and    *)
(* its save or that save was lost: once saved, an execution is behind      *)
(* every later Resume, also while the checkpoint still awaits an approval  *)
(* (harness.go 145-148, 165-167, 179-185).                                 *)
ExecutedOnce ==
  overlap \/ \A e, f \in execs : e.step = f.step =>
               e = f \/ e \in unsaved \/ f \in unsaved

(* No tool outside the list given to Run is ever executed, nor waits for   *)
(* approval in the checkpoint: Resume takes its list from the checkpoint   *)
(* and not from its caller (harness.go 106, 132, 187-190; specs/05).       *)
OnlyGrantedTools ==
  /\ \A e \in execs : e.tool \in grants \cap Tools
  /\ ckpt # NoCheckpoint => ckpt.PendingTool \in (grants \cap Approval) \cup {NoTool}

(* A persisted transcript never invents history: a tool result in it is of *)
(* a tool that really ran at that step, and a sensitive tool's result      *)
(* stands with the note of its approval (harness.go 177-201).              *)
TranscriptIsTrue ==
  ckpt # NoCheckpoint =>
    \A m \in ckpt.Messages : m.role = "tool" =>
       /\ \E e \in execs : e.tool = m.tool /\ e.step = m.step
       /\ m.tool \in Approval => Entry("approved", m.tool, m.step) \in ckpt.Messages

(* What a save may do to a checkpoint that exists while no two invocations *)
(* have overlapped.                                                        *)
ExtendsCheckpoint ==
  (ckpt # NoCheckpoint /\ ~overlap) =>
    /\ ckpt.Status # "done"
    /\ ckpt'.Step >= ckpt.Step
    /\ ckpt.Messages \subseteq ckpt'.Messages

(* As long as no two invocations overlapped, the checkpoint only moves     *)
(* forward: its step never decreases, its transcript is only extended, and *)
(* a finished run is never reopened, although saves may be lost            *)
(* (harness.go 161-185).                                                   *)
CheckpointMovesForward == [][ExtendsCheckpoint]_ckpt

(* Every invocation returns or crashes: maxSteps ends the loop even when   *)
(* the model asks for tools for ever (harness.go 108-114).                 *)
InvocationsEnd == \A c \in Invocations : Live(c) ~> ~Live(c)

(* The approval gate as an abstract specification: tokens are the          *)
(* approvals held by invocations that have not executed yet.               *)
Gate == INSTANCE ApprovalGate WITH
  Calls     <- Call,
  Sensitive <- {k \in Call : k.tool \in Approval},
  tokens    <- {CallOf(c) : c \in {d \in Invocations : pc[d] = "execApproved"}},
  performed <- execs

(* The loop, with crashes, lost saves and concurrent Resume calls,         *)
(* implements the approval gate (harness.go 138-144, 169-183).             *)
ImplementsGate == Gate!Spec

=============================================================================
