------------------------ MODULE TaskCheckpointProofs ------------------------
(***************************************************************************)
(* Proofs that the runtime's own transactions never make a checkpoint that *)
(* its next reader refuses.                                                *)
(*                                                                         *)
(* CheckpointUsable is not inductive: that a claim accepts a queued row is *)
(* not enough to know that the dispatch after it does.  UsableRow follows  *)
(* the row from reader to reader: the references match wherever somebody   *)
(* will read them, a queued row is at its beginning or holds an approved   *)
(* tool step, and a tool call is there only where the frozen action        *)
(* explains it.                                                            *)
(***************************************************************************)
EXTENDS TaskStepProofs

DispatchUsage(r) == IF r.tool = "RUNNING" THEN "StartupCleanup" ELSE "ExecutionDispatch"

ReadOften == {"QUEUED", "RUNNING", "WAITING_APPROVAL"}

UsableRow(r) ==
  /\ r.version > 0
  /\ ~HasPlan(r) => r.tool = "none"
  /\ r.exec \in ReadOften => ReferencesMatch(r)
  /\ r.exec = "QUEUED" /\ ~HasPlan(r) =>
       /\ ~r.ckpt.approval
       /\ r.version = 1 => r.ckpt.seq = 1 /\ ~r.ckpt.source
  /\ r.exec = "QUEUED" /\ HasPlan(r) =>
       r.ckpt.action = "EXECUTE_APPROVED_TOOL" /\ IsToolKind(Kind(r))
  /\ r.exec = "RUNNING" => ActionMatches(r, DispatchUsage(r))
  /\ r.exec = "WAITING_APPROVAL" => IsToolKind(Kind(r))
  /\ Terminal(r) /\ r.error # "CheckpointInvalid" => r.tool # "RUNNING"

RowsUsable == \A t \in Rows : UsableRow(db[t])

----------------------------------------------------------------------------
(* The transactions outside the worker's loop *)

(* CreateTask writes the Initialization checkpoint a first claim asks for. *)
LEMMA InitialUsable ==
  ASSUME NEW t, NEW c
  PROVE  UsableRow(InitialRow(t, c))
BY DEF UsableRow, InitialRow, ReadOften, ReferencesMatch, HasPlan, Terminal, TerminalTaskStatus, None

(* A write that keeps what the readers look at keeps the row usable.       *)
LEMMA UsableKept ==
  ASSUME NEW r, UsableRow(r), NEW n, n.version = r.version, n.plan = r.plan, n.cur = r.cur,
         n.step = r.step, n.tool = r.tool, n.approval = r.approval, n.exec = r.exec,
         n.task = r.task, n.error = r.error,
         n.ckpt.seq = r.ckpt.seq, n.ckpt.action = r.ckpt.action, n.ckpt.step = r.ckpt.step,
         n.ckpt.source = r.ckpt.source, n.ckpt.approval = r.ckpt.approval
  PROVE  UsableRow(n)
BY DEF UsableRow, DispatchUsage, HasPlan, ReferencesMatch, ActionMatches, ToolExecutionAllowed,
       Kind, HasLaterStep, Terminal

(* Ending a task leaves no reader, and closes the tool call.               *)
LEMMA FailsUsable ==
  ASSUME NEW r, UsableRow(r), NEW n, Fails(r, n)
  PROVE  UsableRow(n)
BY DEF UsableRow, Fails, Ends, HasPlan, ReadOften

(* A claim hands its row on to the dispatch.                               *)
LEMMA ClaimedUsable ==
  ASSUME NEW r, GoodRow(r), UsableRow(r), NEW n, Claimed(r, n)
  PROVE  UsableRow(n)
<1>1. /\ r \in Row /\ r.exec = "QUEUED" /\ r.tool = "none" /\ PlanPosition(r)
      /\ FreshRow(r) \/ ApprovedRow(r)
  BY RowKinds DEF GoodRow, RowInv, Claimed
<1>2. /\ n.version = r.version /\ n.plan = r.plan /\ n.cur = r.cur /\ n.step = r.step
      /\ n.task = "Running" /\ n.exec = "RUNNING" /\ n.tool = "none" /\ n.approval = r.approval
      /\ n.ckpt = IF ~HasPlan(r) /\ (ClaimSource(r) = "ClaimInitial" \/ r.ckpt.source)
                  THEN NextCheckpoint(r, "GENERATE_PLAN") ELSE r.ckpt
  BY <1>1, CommitClaimFields DEF Claimed, SameTask, SamePlace
<1>3. Kind(n) = Kind(r) /\ (HasPlan(n) <=> HasPlan(r))
  BY <1>2 DEF Kind, HasPlan
<1>4. n.ckpt.step = r.ckpt.step /\ n.ckpt.action = r.ckpt.action /\ n.ckpt.approval = r.ckpt.approval
  <2>1. NextCheckpoint(r, "GENERATE_PLAN").step = r.cur
        /\ NextCheckpoint(r, "GENERATE_PLAN").action = "GENERATE_PLAN"
        /\ NextCheckpoint(r, "GENERATE_PLAN").approval = FALSE
    BY DEF NextCheckpoint
  <2>2. ~HasPlan(r) => r.ckpt.action = "GENERATE_PLAN" /\ r.ckpt.step = r.cur /\ r.ckpt.approval = FALSE
    BY <1>1 DEF UsableRow, ReferencesMatch, ReadOften, Row, CheckpointRow
  <2> QED BY <1>2, <2>1, <2>2
<1>5. ReferencesMatch(r)
  BY <1>1 DEF UsableRow, ReadOften
<1>6. ReferencesMatch(n)
  BY <1>2, <1>3, <1>4, <1>5 DEF ReferencesMatch
<1>7. ActionMatches(n, "ExecutionDispatch")
  <2>1. CASE ~HasPlan(r)
    BY <1>1, <1>2, <1>3, <1>4, <1>5, <2>1 DEF ActionMatches, UsableRow, ReferencesMatch, PlanPosition
  <2>2. CASE HasPlan(r)
    <3>1. ApprovedRow(r)
      BY <1>1, <2>2 DEF FreshRow
    <3> QED BY <1>1, <1>2, <1>3, <1>4, <1>5, <2>2, <3>1
            DEF ActionMatches, UsableRow, ReferencesMatch, ApprovedRow, ToolExecutionAllowed
  <2> QED BY <2>1, <2>2
<1> QED BY <1>2, <1>6, <1>7 DEF UsableRow, DispatchUsage, Terminal, TerminalTaskStatus

(* Recover continues only where no approval of the old version is left.    *)
LEMMA RequeuedUsable ==
  ASSUME NEW r, GoodRow(r), UsableRow(r), NEW n, Requeued(r, n)
  PROVE  UsableRow(n)
<1>1. /\ r \in Row /\ r.ckpt.action = "GENERATE_PLAN" /\ ReferencesMatch(r)
      /\ RecoverySourceValid(r)
  BY RequeuedFrom DEF GoodRow, Requeued, RecoverOutcome
<1>2. r.approval = "none"
  BY <1>1 DEF RecoverySourceValid, ActionRepeatable
<1>3. /\ n.version = r.version + 1 /\ n.plan = r.plan /\ n.cur = r.cur
      /\ n.task = "Pending" /\ n.exec = "QUEUED" /\ n.tool = "none" /\ n.approval = "none"
  BY <1>1, RequeuedFields DEF SamePlace
<1>4. /\ n.ckpt.action = "GENERATE_PLAN" /\ n.ckpt.step = r.ckpt.step
      /\ n.ckpt.approval = r.ckpt.approval
  BY <1>1, RequeuedFields
<1>5. ~r.ckpt.approval /\ ~HasPlan(r) /\ r.ckpt.step = r.cur
  BY <1>1, <1>2 DEF ReferencesMatch
<1>6. ~n.ckpt.approval /\ ~HasPlan(n) /\ n.ckpt.step = n.cur
  BY <1>3, <1>4, <1>5 DEF HasPlan
<1>7. n.version \in Nat /\ n.version > 0 /\ n.version # 1
  BY <1>1, <1>3 DEF UsableRow, Row
<1> QED BY <1>3, <1>4, <1>6, <1>7 DEF UsableRow, ReferencesMatch, Terminal, TerminalTaskStatus

(* Approve queues a tool step with the approval it filed.                  *)
LEMMA ResumedUsable ==
  ASSUME NEW r, GoodRow(r), UsableRow(r), NEW n, Resumed(r, n)
  PROVE  UsableRow(n)
<1>1. r \in Row /\ WaitingRow(r) /\ PlanPosition(r)
  BY RowKinds DEF GoodRow, RowInv, Resumed, AwaitsDecision
<1>2. /\ n.version = r.version /\ n.plan = r.plan /\ n.cur = r.cur /\ n.task = "Running"
      /\ n.exec = "QUEUED" /\ n.tool = r.tool /\ n.approval = "Approved"
      /\ n.ckpt.action = "EXECUTE_APPROVED_TOOL" /\ n.ckpt.step = r.cur /\ n.ckpt.approval
  BY <1>1, ResumedFields DEF SameTask
<1>3. HasPlan(r) /\ IsToolKind(Kind(r)) /\ r.version > 0
  BY <1>1 DEF WaitingRow, PlanPosition, UsableRow
<1>4. HasPlan(n) /\ Kind(n) = Kind(r)
  BY <1>2, <1>3 DEF HasPlan, Kind
<1> QED BY <1>2, <1>3, <1>4 DEF UsableRow, ReferencesMatch, Terminal, TerminalTaskStatus

(* An interrupted row is read again by Recover only.                       *)
LEMMA InterruptedUsable ==
  ASSUME NEW r, GoodRow(r), UsableRow(r), NEW n, ClaimInterrupted(r, n) \/ Interrupted(r, n)
  PROVE  UsableRow(n)
<1>1. r \in Row
  BY DEF GoodRow
<1>2. /\ n.version = r.version /\ n.plan = r.plan /\ n.exec = "INTERRUPTED"
      /\ n.tool = r.tool \/ (n.tool = "FAILED" /\ r.tool = "RUNNING")
  BY <1>1, InterruptConfigMismatchFields, InterruptedFields DEF ClaimInterrupted, SameTask, SamePlace
<1>3. ~Terminal(n)
  <2>1. Interrupted(r, n) => r.task = "Running" /\ n.task = r.task
    BY <1>1, InterruptedFields DEF Interrupted, StartupAccepts
  <2>2. ClaimInterrupted(r, n) => n.task = "INTERRUPTED"
    BY <1>1, InterruptConfigMismatchFields DEF ClaimInterrupted
  <2> QED BY <2>1, <2>2 DEF Terminal, TerminalTaskStatus
<1> QED BY <1>2, <1>3 DEF UsableRow, HasPlan, ReadOften

----------------------------------------------------------------------------
(* The transactions of the worker's loop *)

(* A running row is usable if its next reader accepts it.                  *)
LEMMA RunningUsable ==
  ASSUME NEW n, n.version > 0, n.exec = "RUNNING", n.task = "Running",
         HasPlan(n) \/ n.tool = "none", ReferencesMatch(n),
         ActionMatches(n, DispatchUsage(n))
  PROVE  UsableRow(n)
BY DEF UsableRow, Terminal, TerminalTaskStatus

(* A next step, pending with the action frozen for its kind.               *)
LEMMA NextStepMatches ==
  ASSUME NEW n, HasPlan(n), n.step = "Pending", n.tool = "none", n.approval = "none",
         n.ckpt.action = ActionForKind(Kind(n)), n.ckpt.step = n.cur, ~n.ckpt.approval
  PROVE  ReferencesMatch(n) /\ ActionMatches(n, DispatchUsage(n))
BY DEF ActionForKind, ReferencesMatch, ActionMatches, ToolExecutionAllowed, IsToolKind

(* Starting a pending step changes nothing its action depends on.          *)
LEMMA StartedUsable ==
  ASSUME NEW r, GoodRow(r), r.exec = "RUNNING", UsableRow(r), NEW n, n = StartStep(r)
  PROVE  UsableRow(n)
<1>1. r \in Row /\ r.task = "Running" /\ r.ckpt.action \in NextAction
  BY RowKinds DEF GoodRow, OwnedRow, Row, CheckpointRow
<1>2. /\ n.version = r.version /\ n.plan = r.plan /\ n.cur = r.cur
      /\ n.step = (IF r.step = "Pending" THEN "Running" ELSE r.step)
      /\ n.task = r.task /\ n.exec = r.exec /\ n.tool = r.tool
      /\ n.approval = r.approval /\ n.ckpt = r.ckpt
  BY <1>1, StartStepFields DEF SameTask
<1>3. ReferencesMatch(r) /\ ActionMatches(r, DispatchUsage(r)) /\ r.version > 0
      /\ (~HasPlan(r) => r.tool = "none")
  BY DEF UsableRow, ReadOften
<1>4. /\ HasPlan(n) <=> HasPlan(r)
      /\ HasLaterStep(n) <=> HasLaterStep(r)
      /\ Kind(n) = Kind(r) /\ DispatchUsage(n) = DispatchUsage(r)
  BY <1>2 DEF HasPlan, Kind, DispatchUsage, HasLaterStep
<1>5. ReferencesMatch(n)
  BY <1>2, <1>3, <1>4 DEF ReferencesMatch
<1>6. ActionMatches(n, DispatchUsage(n))
  BY <1>1, <1>2, <1>3, <1>4 DEF ActionMatches, ToolExecutionAllowed, NextAction
<1> QED BY <1>1, <1>2, <1>3, <1>4, <1>5, <1>6, RunningUsable

(* A tool call is begun for a read step, or for an approved tool step.     *)
LEMMA BegunUsable ==
  ASSUME NEW r, GoodRow(r), r.exec = "RUNNING", UsableRow(r), Known(r), w.pc = "call",
         r.step = "Running", r.tool = "none",
         \/ r.ckpt.action = "EXECUTE_STEP" /\ w.kind = "read"
         \/ r.ckpt.action = "EXECUTE_APPROVED_TOOL",
         NEW n, n = [r EXCEPT !.tool = "RUNNING"]
  PROVE  UsableRow(n)
<1>1. r \in Row /\ r.task = "Running" /\ PlanPosition(r)
  BY RowKinds DEF GoodRow, RowInv, OwnedRow
<1>2. /\ n.version = r.version /\ n.plan = r.plan /\ n.cur = r.cur /\ n.step = r.step
      /\ n.task = r.task /\ n.exec = r.exec /\ n.tool = "RUNNING"
      /\ n.approval = r.approval /\ n.ckpt = r.ckpt
  BY <1>1, ToolBegunFields DEF SameTask, SamePlace
<1>3. ReferencesMatch(r) /\ ActionMatches(r, "ExecutionDispatch") /\ r.version > 0
  BY DEF UsableRow, ReadOften, DispatchUsage
<1>4. HasPlan(r) /\ IsToolKind(Kind(r))
  BY <1>1, <1>3 DEF PlanPosition, Known, Knowing, Acting, IsToolKind, ActionMatches
<1>5. /\ HasPlan(n) /\ Kind(n) = Kind(r) /\ DispatchUsage(n) = "StartupCleanup"
  BY <1>2, <1>4 DEF HasPlan, Kind, DispatchUsage
<1>6. ReferencesMatch(n)
  BY <1>2, <1>3, <1>4, <1>5 DEF ReferencesMatch
<1>7. ActionMatches(n, DispatchUsage(n))
  BY <1>2, <1>3, <1>4, <1>5 DEF ActionMatches, ToolExecutionAllowed
<1> QED BY <1>1, <1>2, <1>3, <1>5, <1>6, <1>7, RunningUsable

(* An approval is asked for a tool step, which keeps it until the decision.*)
LEMMA ParkedUsable ==
  ASSUME NEW r, GoodRow(r), UsableRow(r), CheckpointValid(r, "ExecutionDispatch"),
         r.ckpt.action = "REQUEST_APPROVAL", NEW n, n = ApprovalRequested(r)
  PROVE  UsableRow(n)
<1> DEFINE k == [seq |-> r.ckpt.seq + 1, action |-> "REQUEST_APPROVAL", step |-> r.cur,
                 source |-> FALSE, approval |-> TRUE, ok |-> TRUE]
<1>1. r \in Row
  BY DEF GoodRow
<1>2. /\ n.version = r.version /\ n.plan = r.plan /\ n.cur = r.cur
      /\ n.task = "WaitingApproval" /\ n.exec = "WAITING_APPROVAL" /\ n.tool = r.tool
      /\ n.approval = "Pending" /\ n.ckpt = k
  BY <1>1, ApprovalRequestedFields DEF SameTask
<1>3. k.action = "REQUEST_APPROVAL" /\ k.step = r.cur /\ k.approval
  OBVIOUS
<1> HIDE DEF k
<1>4. HasPlan(r) /\ IsToolKind(Kind(r)) /\ r.version > 0
  BY DispatchKnows DEF UsableRow
<1>5. HasPlan(n) /\ Kind(n) = Kind(r)
  BY <1>2, <1>4 DEF HasPlan, Kind
<1> QED BY <1>2, <1>3, <1>4, <1>5 DEF UsableRow, ReferencesMatch, Terminal, TerminalTaskStatus

(* A plan freezes the action of its first step.                            *)
LEMMA PlannedUsable ==
  ASSUME NEW r, GoodRow(r), r.exec = "RUNNING", UsableRow(r),
         CheckpointValid(r, "ExecutionDispatch"), r.ckpt.action = "GENERATE_PLAN",
         NEW plan \in Plans, NEW n, n = PlanApplied(r, plan)
  PROVE  UsableRow(n)
<1>1. r \in Row /\ r.task = "Running"
  BY RowKinds DEF GoodRow, OwnedRow
<1>2. r.tool = "none" /\ r.approval = "none" /\ r.version > 0
  BY DEF UsableRow, CheckpointValid, ReferencesMatch, ActionMatches
<1>3. /\ n.version = r.version /\ n.plan = plan /\ n.cur = 1 /\ n.step = "Pending"
      /\ n.task = r.task /\ n.exec = r.exec /\ n.tool = r.tool /\ n.approval = r.approval
      /\ n.ckpt.action = ActionForKind(Kind(n)) /\ n.ckpt.step = 1 /\ ~n.ckpt.approval
  BY <1>1, PlanAppliedFields DEF SameTask
<1>4. plan # <<>>
  BY PlansAssumption
<1>5. HasPlan(n)
  BY <1>3, <1>4 DEF HasPlan
<1>6. ReferencesMatch(n) /\ ActionMatches(n, DispatchUsage(n))
  BY <1>2, <1>3, <1>5, NextStepMatches
<1> QED BY <1>1, <1>2, <1>3, <1>5, <1>6, RunningUsable

(* A step result never finds an approved tool step under a valid dispatch: *)
(* the call it comes from is still RUNNING there.                          *)
LEMMA ResultWithoutApproval ==
  ASSUME NEW r, CheckpointValid(r, "ExecutionDispatch"), Known(r), w.pc = "commit",
         r.ckpt.action # "GENERATE_PLAN", r \in Row
  PROVE  /\ r.approval = "none" /\ HasPlan(r)
         /\ r.tool = "none" \/ (r.tool = "COMPLETED" /\ IsToolKind(Kind(r)))
<1>1. ReferencesMatch(r) /\ ActionMatches(r, "ExecutionDispatch")
  BY DEF CheckpointValid
<1>2. r.ckpt.action # "EXECUTE_APPROVED_TOOL"
  <2> SUFFICES ASSUME r.ckpt.action = "EXECUTE_APPROVED_TOOL" PROVE FALSE
    OBVIOUS
  <2>1. IsToolKind(Kind(r)) /\ r.tool = "none"
    BY <1>1 DEF ActionMatches, ToolExecutionAllowed
  <2>2. w.kind \in {"read", "write"} /\ w.began
    BY <2>1 DEF Known, Knowing, Acting, IsToolKind
  <2> QED BY <2>1, <2>2 DEF Known
<1>3. r.ckpt.action \in {"EXECUTE_STEP", "REQUEST_APPROVAL", "FINALIZE_RUN"}
  BY <1>2 DEF Row, CheckpointRow, NextAction
<1> QED BY <1>1, <1>3 DEF ReferencesMatch, ActionMatches, ToolExecutionAllowed

(* A completed step makes the next one pending, or the run ready to end.   *)
LEMMA CompletedUsable ==
  ASSUME NEW r, GoodRow(r), r.exec = "RUNNING", UsableRow(r), Known(r), w.pc = "commit",
         CheckpointValid(r, "ExecutionDispatch"), r.ckpt.action # "GENERATE_PLAN",
         NEW n, n = StepCompleted(r)
  PROVE  UsableRow(n)
<1>1. r \in Row /\ r.task = "Running" /\ r.version > 0
  BY RowKinds DEF GoodRow, OwnedRow, UsableRow
<1>2. /\ r.approval = "none" /\ HasPlan(r)
      /\ r.tool = "none" \/ (r.tool = "COMPLETED" /\ IsToolKind(Kind(r)))
  BY <1>1, ResultWithoutApproval
<1>3. /\ n.version = r.version /\ n.plan = r.plan /\ n.task = r.task /\ n.exec = r.exec
      /\ n.ckpt.step = n.cur /\ ~n.ckpt.approval
  BY <1>1, StepCompletedFields DEF SameTask
<1>4. HasPlan(n)
  BY <1>2, <1>3 DEF HasPlan
<1>5. CASE HasLaterStep(r)
  <2>1. /\ n.step = "Pending" /\ n.tool = "none" /\ n.approval = "none"
        /\ n.ckpt.action = ActionForKind(Kind(n))
    BY <1>1, <1>5, StepCompletedFields
  <2> QED BY <1>1, <1>3, <1>4, <2>1, NextStepMatches, RunningUsable
<1>6. CASE ~HasLaterStep(r)
  <2>1. /\ n.cur = r.cur /\ n.step = "Completed" /\ n.approval = "none"
        /\ n.tool = (IF r.tool = "none" THEN "none" ELSE "COMPLETED")
        /\ n.ckpt.action = "FINALIZE_RUN"
    BY <1>1, <1>2, <1>6, StepCompletedFields
  <2>2. Kind(n) = Kind(r) /\ ~HasLaterStep(n)
    BY <1>3, <1>6, <2>1 DEF Kind, HasLaterStep
  <2>3. ReferencesMatch(n)
    BY <1>3, <1>4, <2>1 DEF ReferencesMatch
  <2>4. ActionMatches(n, DispatchUsage(n))
    BY <1>2, <1>3, <1>4, <2>1, <2>2 DEF ActionMatches, ToolExecutionAllowed
  <2> QED BY <1>1, <1>3, <1>4, <2>3, <2>4, RunningUsable
<1> QED BY <1>5, <1>6

(* FinalizeExecution finds no call in flight.                              *)
LEMMA FinalizedUsable ==
  ASSUME NEW r, GoodRow(r), UsableRow(r), CheckpointValid(r, "ExecutionDispatch"),
         r.ckpt.action = "FINALIZE_RUN", NEW n, n = Finalized(r)
  PROVE  UsableRow(n)
<1>1. r \in Row /\ r.version > 0 /\ (~HasPlan(r) => r.tool = "none")
  BY DEF GoodRow, UsableRow
<1>2. r.tool # "RUNNING"
  BY DEF CheckpointValid, ActionMatches, ToolExecutionAllowed
<1>3. /\ n.version = r.version /\ n.plan = r.plan /\ n.exec = "COMPLETED" /\ n.tool = r.tool
  BY <1>1, FinalizedFields DEF SameTask, SamePlace
<1> QED BY <1>1, <1>2, <1>3 DEF UsableRow, HasPlan, ReadOften

----------------------------------------------------------------------------
(* The invariant, and what it says to each reader *)

(* Every transaction leaves a row its next reader accepts.                 *)
LEMMA MovesUsable ==
  ASSUME NEW t, NEW r, GoodRow(r), UsableRow(r), NEW n, Moves(t, r, n),
         Advanced(t, r, n) => Known(r)
  PROVE  UsableRow(n)
<1>1. CASE n = [r EXCEPT !.ckpt.ok = FALSE]
  <2>1. r \in Row
    BY DEF GoodRow
  <2> QED BY <1>1, <2>1, DamagedFields, UsableKept DEF SameTask, SamePlace
<1>2. CASE Advanced(t, r, n)
  <2>1. Known(r) /\ r.exec = "RUNNING" /\ Advances(r, n)
    BY <1>2 DEF Advanced, ClaimOwns
  <2> QED BY <2>1, StartedUsable, BegunUsable, ParkedUsable, PlannedUsable, CompletedUsable,
             FinalizedUsable DEF Advances
<1> QED BY <1>1, <1>2, ClaimedUsable, InterruptedUsable, RequeuedUsable, ResumedUsable DEF Moves

(* No step of any actor makes a row unusable.                              *)
LEMMA UsableNext == IInv /\ WorkerFacts /\ RowsUsable /\ [Next]_vars => RowsUsable'
<1> SUFFICES ASSUME IInv, WorkerFacts, RowsUsable, [Next]_vars, NEW t \in Rows'
             PROVE  UsableRow(db'[t])
  BY DEF RowsUsable
<1>1. CASE t \in Rows
  <2>1. UsableRow(db[t])
    BY <1>1 DEF RowsUsable
  <2> QED BY <1>1, <2>1, StepEffects, MovesUsable, FailsUsable
<1>2. CASE t \notin Rows
  <2>1. db'[t] = InitialRow(now, config)
    BY <1>2, NewRows
  <2> QED BY <2>1, InitialUsable
<1> QED BY <1>1, <1>2

(* Every row is usable, in every reachable state.                          *)
LEMMA UsableInvariance == Spec => [](IInv /\ RowsUsable)
<1>1. Init => RowsUsable
  BY DEF Init, RowsUsable, Rows, Exists
<1> QED BY <1>1, FactsHold, UsableNext, PTL DEF Spec

(* What UsableRow says of a queued row: the claim accepts it.              *)
LEMMA QueuedClaimable ==
  ASSUME NEW r, GoodRow(r), UsableRow(r), r.ckpt.ok, r.exec = "QUEUED"
  PROVE  CheckpointValid(r, ClaimSource(r))
<1>1. /\ r \in Row /\ r.tool = "none" /\ PlanPosition(r) /\ ReferencesMatch(r)
      /\ FreshRow(r) \/ ApprovedRow(r)
  BY RowKinds DEF GoodRow, RowInv, UsableRow, ReadOften
<1>2. CASE FreshRow(r)
  <2>1. /\ r.ckpt.action = "GENERATE_PLAN" /\ ~r.ckpt.approval /\ r.cur = None
        /\ r.version = 1 => r.ckpt.seq = 1 /\ ~r.ckpt.source
        /\ ClaimSource(r) = (IF r.version = 1 THEN "ClaimInitial" ELSE "ClaimContinuation")
    BY <1>1, <1>2 DEF FreshRow, UsableRow, ReferencesMatch, PlanPosition, ClaimSource
  <2>2. ActionMatches(r, ClaimSource(r))
    BY <2>1 DEF ActionMatches
  <2>3. UsageMatches(r, ClaimSource(r))
    BY <1>2, <2>1 DEF FreshRow, UsageMatches, InferType
  <2> QED BY <1>1, <2>2, <2>3 DEF CheckpointValid
<1>3. CASE ApprovedRow(r)
  <2>1. HasPlan(r) /\ r.ckpt.action = "EXECUTE_APPROVED_TOOL" /\ IsToolKind(Kind(r))
    BY <1>1, <1>3 DEF ApprovedRow, PlanPosition, UsableRow
  <2>2. ClaimSource(r) = "ClaimContinuation" /\ r.ckpt.approval
    BY <1>1, <1>3 DEF ApprovedRow, ClaimSource, ReferencesMatch
  <2>3. ActionMatches(r, "ClaimContinuation")
    BY <1>1, <1>3, <2>1, <2>2 DEF ApprovedRow, ActionMatches, ToolExecutionAllowed
  <2>4. UsageMatches(r, "ClaimContinuation")
    BY <1>3, <2>1 DEF ApprovedRow, UsageMatches, InferType
  <2> QED BY <1>1, <2>2, <2>3, <2>4 DEF CheckpointValid
<1> QED BY <1>1, <1>2, <1>3

(* Whatever consumes an undamaged checkpoint next accepts it: the claim of *)
(* a queued task, the dispatch of a running one, StartupCleanup while a    *)
(* tool call is in flight (checkpoint/repository.go, loadAndValidateLatest). *)
THEOREM CheckpointsStayUsable == Spec => []CheckpointUsable
<1>1. IInv /\ RowsUsable => CheckpointUsable
  <2> SUFFICES ASSUME IInv, RowsUsable, NEW t \in Rows, db[t].ckpt.ok
               PROVE  /\ db[t].exec = "QUEUED" => CheckpointValid(db[t], ClaimSource(db[t]))
                      /\ db[t].exec = "RUNNING" => CheckpointValid(db[t], DispatchUsage(db[t]))
    BY DEF CheckpointUsable, DispatchUsage
  <2>1. GoodRow(db[t]) /\ UsableRow(db[t])
    BY DEF IInv, RowsInv, Rows, RowsUsable
  <2>2. ASSUME db[t].exec = "RUNNING"
        PROVE  CheckpointValid(db[t], DispatchUsage(db[t]))
    <3>1. OwnedRow(db[t]) /\ ReferencesMatch(db[t]) /\ ActionMatches(db[t], DispatchUsage(db[t]))
      BY <2>1, <2>2, RowKinds DEF UsableRow, ReadOften
    <3>2. UsageMatches(db[t], DispatchUsage(db[t]))
      BY <3>1 DEF OwnedRow, UsageMatches, DispatchUsage
    <3> QED BY <3>1, <3>2 DEF CheckpointValid
  <2> QED BY <2>1, <2>2, QueuedClaimable
<1> QED BY UsableInvariance, <1>1, PTL

(* StartupCleanup refuses an execution an earlier process left running     *)
(* only where its step is pending or completed, between two actions, or    *)
(* where the configuration changed: a tool call it meets is always one its *)
(* step explains (startup_cleanup.go, validateStartupFacts).               *)
THEOREM StartupRefusals == Spec => []StartupRefusesOnlyBoundary
<1>1. IInv /\ RowsUsable => StartupRefusesOnlyBoundary
  <2> SUFFICES ASSUME IInv, RowsUsable, NEW t \in Legacy,
                      db[t].step \notin {"Pending", "Completed"}, db[t].hash = config
               PROVE  StartupAccepts(db[t], config)
    BY DEF StartupRefusesOnlyBoundary
  <2>1. t \in Rows /\ db[t].exec = "RUNNING" /\ GoodRow(db[t]) /\ UsableRow(db[t])
    BY DEF Legacy, Rows, IInv, RowsInv, RowsUsable
  <2>2. OwnedRow(db[t]) /\ ReferencesMatch(db[t]) /\ ActionMatches(db[t], DispatchUsage(db[t]))
    BY <2>1, RowKinds DEF UsableRow, ReadOften
  <2>3. db[t].ckpt.action \in NextAction
    BY <2>1 DEF GoodRow, Row, CheckpointRow
  <2>4. db[t].tool # "none" => IsToolKind(Kind(db[t])) /\ db[t].tool = "RUNNING"
    <3>1. db[t].ckpt.action = "GENERATE_PLAN" => db[t].tool = "none"
      BY <2>1, <2>2 DEF UsableRow, ReferencesMatch
    <3> QED BY <2>2, <2>3, <3>1 DEF ActionMatches, ToolExecutionAllowed, NextAction
  <2> QED BY <2>2, <2>4 DEF StartupAccepts, OwnedRow
<1> QED BY UsableInvariance, <1>1, PTL

(* Recover makes a new version only where Query offered one: none of its   *)
(* refusals is laxer than what loadView tells the operator (query.go).     *)
THEOREM RecoveriesWereOffered == Spec => []RecoveredWasRecoverable
<1>1. IInv => RecoveredWasRecoverable
  <2> SUFFICES ASSUME IInv, NEW t \in Rows, RecoverOutcome(db[t], now, config) = "Recovered"
               PROVE  Recoverable(db[t], now, config)
    BY DEF RecoveredWasRecoverable
  <2>1. GoodRow(db[t])
    BY DEF IInv, RowsInv, Rows
  <2>2. /\ InterruptedRow(db[t]) /\ db[t].task = "INTERRUPTED" /\ db[t].hash = config
        /\ ~Expired(db[t], now)
    BY <2>1, RequeuedFrom DEF Requeued
  <2>3. RecoverySourceValid(db[t])
    BY DEF RecoverOutcome
  <2>4. Kind(db[t]) = "write" => db[t].tool = "none"
    BY <2>1, <2>2 DEF GoodRow, RowInv, InterruptedRow
  <2> QED BY <2>2, <2>3, <2>4 DEF Recoverable, InterruptedRow
<1> QED BY Invariance, <1>1, PTL

(* An ended task has no tool call left RUNNING, unless its checkpoint was  *)
(* found invalid, which keeps the history of the call (docs/design/004,    *)
(* section 5; cancel.go, execute.go, startup_cleanup.go).                  *)
THEOREM TerminalClosesTools == Spec => []TerminalClosesTool
<1>1. RowsUsable => TerminalClosesTool
  BY DEF RowsUsable, UsableRow, TerminalClosesTool
<1> QED BY UsableInvariance, <1>1, PTL
=============================================================================
