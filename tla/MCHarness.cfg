SPECIFICATION FairSpec
CONSTANTS
  Names = {search, deploy, ghost}
  Tools = {search, deploy}
  Approval = {deploy}
  MaxSteps = 2
  Runner = run
  Resumers = {r1, r2}
  NoTool = noTool
  NoCheckpoint = noCheckpoint
INVARIANT ApprovalBeforeExecution
INVARIANT ExecutedOnce
INVARIANT OnlyGrantedTools
INVARIANT TranscriptIsTrue
PROPERTY CheckpointMovesForward
PROPERTY ImplementsGate
PROPERTY InvocationsEnd
CHECK_DEADLOCK FALSE
