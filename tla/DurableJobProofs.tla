-------------------------- MODULE DurableJobProofs --------------------------
(***************************************************************************)
(* Proof that the task runtime implements durable jobs.                    *)
(*                                                                         *)
(* The refinement mapping takes each row to the job it is (JobOf).  Every  *)
(* transaction on a row, as listed in TaskStepProofs, is a step of that    *)
(* job or leaves it as it is.  That a job which began its write call is    *)
(* never handed out again rests on the rows being good and usable.         *)
(***************************************************************************)
EXTENDS TaskCheckpointProofs

Written(r) == Kind(r) = "write" /\ r.tool # "none"

----------------------------------------------------------------------------
(* Jobs of rows *)

JobWith(phase, epoch, size, done, written) ==
  [phase |-> phase, epoch |-> epoch, size |-> size, done |-> done, written |-> written]

(* The job of a row, by its parts.                                         *)
LEMMA JobParts ==
  ASSUME NEW r
  PROVE  JobOf(r) = JobWith(JobPhase(r), r.version, Len(r.plan), Progress(r), Written(r))
BY DEF JobOf, Written, JobWith

(* The parts of a job.                                                     *)
LEMMA JobFields ==
  ASSUME NEW p, NEW e, NEW s, NEW d, NEW v
  PROVE  /\ JobWith(p, e, s, d, v).phase = p /\ JobWith(p, e, s, d, v).epoch = e
         /\ JobWith(p, e, s, d, v).size = s /\ JobWith(p, e, s, d, v).done = d
         /\ JobWith(p, e, s, d, v).written = v
BY DEF JobWith

(* Changing one part of a job keeps the others.                            *)
LEMMA NewPhase ==
  ASSUME NEW p, NEW e, NEW s, NEW d, NEW v, NEW x
  PROVE  [JobWith(p, e, s, d, v) EXCEPT !.phase = x] = JobWith(x, e, s, d, v)
BY DEF JobWith

LEMMA NewEpoch ==
  ASSUME NEW p, NEW e, NEW s, NEW d, NEW v, NEW x
  PROVE  [JobWith(p, e, s, d, v) EXCEPT !.epoch = x] = JobWith(p, x, s, d, v)
BY DEF JobWith

LEMMA NewSize ==
  ASSUME NEW p, NEW e, NEW s, NEW d, NEW v, NEW x
  PROVE  [JobWith(p, e, s, d, v) EXCEPT !.size = x] = JobWith(p, e, x, d, v)
BY DEF JobWith

LEMMA NewDone ==
  ASSUME NEW p, NEW e, NEW s, NEW d, NEW v, NEW x
  PROVE  [JobWith(p, e, s, d, v) EXCEPT !.done = x] = JobWith(p, e, s, x, v)
BY DEF JobWith

LEMMA NewWritten ==
  ASSUME NEW p, NEW e, NEW s, NEW d, NEW v, NEW x
  PROVE  [JobWith(p, e, s, d, v) EXCEPT !.written = x] = JobWith(p, e, s, d, x)
BY DEF JobWith

(* The phase each kind of row is in: an ended task has no execution that   *)
(* is still open.                                                          *)
LEMMA Phases ==
  ASSUME NEW r
  PROVE  /\ ~Terminal(r) =>
              /\ r.exec = "QUEUED" => JobPhase(r) = "queued"
              /\ r.exec = "RUNNING" => JobPhase(r) = "held"
              /\ r.exec = "WAITING_APPROVAL" => JobPhase(r) = "parked"
              /\ r.exec = "INTERRUPTED" => JobPhase(r) = "interrupted"
         /\ r.exec = "COMPLETED" /\ r.task = "Completed" => JobPhase(r) = "completed"
         /\ r.exec = "FAILED" /\ r.task = "Failed" => JobPhase(r) = "failed"
         /\ r.exec = "FAILED" /\ r.task = "Cancelled" => JobPhase(r) = "cancelled"
<1>1. ~Terminal(r) => r.task # "Completed" /\ r.task # "Failed"
  BY DEF Terminal, TerminalTaskStatus
<1>2. ~Terminal(r) /\ r.exec = "QUEUED" => JobPhase(r) = "queued"
  BY <1>1 DEF JobPhase
<1>3. ~Terminal(r) /\ r.exec = "RUNNING" => JobPhase(r) = "held"
  BY <1>1 DEF JobPhase
<1>4. ~Terminal(r) /\ r.exec = "WAITING_APPROVAL" => JobPhase(r) = "parked"
  BY <1>1 DEF JobPhase
<1>5. ~Terminal(r) /\ r.exec = "INTERRUPTED" => JobPhase(r) = "interrupted"
  BY <1>1 DEF JobPhase
<1>6. r.exec = "COMPLETED" /\ r.task = "Completed" => JobPhase(r) = "completed"
  BY DEF JobPhase
<1>7. r.exec = "FAILED" /\ r.task = "Failed" => JobPhase(r) = "failed"
  BY DEF JobPhase
<1>8. r.exec = "FAILED" /\ r.task = "Cancelled" => JobPhase(r) = "cancelled"
  BY DEF JobPhase
<1> QED BY <1>2, <1>3, <1>4, <1>5, <1>6, <1>7, <1>8

SameProgress(r, n) ==
  n.version = r.version /\ n.plan = r.plan /\ Progress(n) = Progress(r) /\ Written(n) = Written(r)

(* A transaction that keeps plan, progress and write call moves the job to *)
(* the phase of the new row, and no further.                               *)
LEMMA PhaseMoves ==
  ASSUME NEW r, NEW n, SameProgress(r, n), NEW from, JobPhase(r) \in from
  PROVE  /\ Durable!Move(JobOf(r), JobOf(n), from, JobPhase(n))
         /\ JobPhase(n) = JobPhase(r) => JobOf(n) = JobOf(r)
<1> DEFINE job(p) == JobWith(p, r.version, Len(r.plan), Progress(r), Written(r))
<1>1. JobOf(r) = job(JobPhase(r)) /\ JobOf(n) = job(JobPhase(n))
  BY JobParts DEF SameProgress
<1>2. [job(JobPhase(r)) EXCEPT !.phase = JobPhase(n)] = job(JobPhase(n))
  BY NewPhase
<1>3. job(JobPhase(r)).phase = JobPhase(r)
  BY JobFields
<1> HIDE DEF job
<1> QED BY <1>1, <1>2, <1>3 DEF Durable!Move

(* Neither the place nor the tool call of the step changed.                *)
LEMMA SamePlaceSameProgress ==
  ASSUME NEW r, NEW n, n.version = r.version, n.plan = r.plan, n.cur = r.cur,
         n.step = "Completed" <=> r.step = "Completed",
         n.tool = "none" <=> r.tool = "none"
  PROVE  SameProgress(r, n)
<1>1. Progress(n) = Progress(r)
  BY DEF Progress
<1>2. Kind(n) = Kind(r)
  BY DEF Kind
<1>3. Written(n) = Written(r)
  BY <1>2 DEF Written
<1> QED BY <1>1, <1>3 DEF SameProgress

----------------------------------------------------------------------------
(* Each transaction is a step of the job *)

JobStep(r, n) == JobOf(n) = JobOf(r) \/ Durable!Step(JobOf(r), JobOf(n))

(* An open row is in one of the four open phases.                          *)
LEMMA OpenPhases ==
  ASSUME NEW r, GoodRow(r), ~Terminal(r)
  PROVE  JobPhase(r) \in {"queued", "held", "parked", "interrupted"}
<1>1. FreshRow(r) \/ ApprovedRow(r) \/ OwnedRow(r) \/ WaitingRow(r) \/ InterruptedRow(r)
  BY RowKinds DEF GoodRow, RowInv
<1>2. r.exec \in {"QUEUED", "RUNNING", "WAITING_APPROVAL", "INTERRUPTED"}
  BY <1>1 DEF FreshRow, ApprovedRow, OwnedRow, WaitingRow, InterruptedRow
<1> QED BY <1>2, Phases

(* Whatever ends a task unsuccessfully ends the job.                       *)
LEMMA FailsEnd ==
  ASSUME NEW r, GoodRow(r), NEW n, Fails(r, n)
  PROVE  JobStep(r, n)
<1>1. ~Terminal(r) /\ n.exec = "FAILED" /\ n.task \in {"Failed", "Cancelled"}
  BY DEF Fails, Ends
<1>2. SameProgress(r, n)
  BY FailsProgress, SamePlaceSameProgress DEF Fails, Ends
<1>3. JobPhase(n) \in {"failed", "cancelled"}
  BY <1>1, Phases
<1>4. Durable!Move(JobOf(r), JobOf(n), {"queued", "held", "parked", "interrupted"}, JobPhase(n))
  BY <1>1, <1>2, OpenPhases, PhaseMoves
<1>5. Durable!End(JobOf(r), JobOf(n))
  BY <1>3, <1>4 DEF Durable!End
<1> QED BY <1>5 DEF JobStep, Durable!Step

(* Damage of the stored context is no step of the job.                     *)
LEMMA DamagedStep ==
  ASSUME NEW r \in Row, NEW n, n = [r EXCEPT !.ckpt.ok = FALSE]
  PROVE  JobStep(r, n)
<1>1. /\ n.version = r.version /\ n.plan = r.plan /\ n.cur = r.cur /\ n.step = r.step
      /\ n.tool = r.tool /\ n.exec = r.exec /\ n.task = r.task
  BY DamagedFields DEF SameTask, SamePlace
<1>2. SameProgress(r, n)
  BY <1>1, SamePlaceSameProgress
<1>3. JobPhase(n) = JobPhase(r)
  BY <1>1 DEF JobPhase
<1> QED BY <1>2, <1>3, PhaseMoves DEF JobStep

(* A claim takes the job.                                                  *)
LEMMA ClaimedStep ==
  ASSUME NEW r, GoodRow(r), NEW n, GoodRow(n), Claimed(r, n)
  PROVE  JobStep(r, n)
<1>1. r \in Row /\ r.exec = "QUEUED" /\ ~Terminal(r)
  BY RowKinds DEF GoodRow, Claimed, EndedRow
<1>2. /\ n.version = r.version /\ n.plan = r.plan /\ n.cur = r.cur /\ n.step = r.step
      /\ n.tool = r.tool /\ n.exec = "RUNNING" /\ n.task = "Running"
  BY <1>1, CommitClaimFields DEF Claimed, SameTask, SamePlace
<1>3. SameProgress(r, n) /\ ~Terminal(n)
  BY <1>2, SamePlaceSameProgress DEF Terminal, TerminalTaskStatus
<1>4. JobPhase(r) = "queued" /\ JobPhase(n) = "held"
  BY <1>1, <1>2, <1>3, Phases
<1>5. Durable!Take(JobOf(r), JobOf(n))
  BY <1>3, <1>4, PhaseMoves DEF Durable!Take
<1> QED BY <1>5 DEF JobStep, Durable!Step

(* A wrong configuration and StartupCleanup interrupt the job; neither of  *)
(* them ever meets one whose write call was begun.                         *)
LEMMA InterruptedStep ==
  ASSUME NEW r, GoodRow(r), NEW n, GoodRow(n), ClaimInterrupted(r, n) \/ Interrupted(r, n)
  PROVE  JobStep(r, n)
<1>1. r \in Row
  BY DEF GoodRow
<1>2. CASE ClaimInterrupted(r, n)
  <2>1. r.exec = "QUEUED" /\ ~Terminal(r) /\ r.tool = "none"
    BY <1>2, RowKinds DEF GoodRow, RowInv, ClaimInterrupted, EndedRow
  <2>2. /\ n.version = r.version /\ n.plan = r.plan /\ n.cur = r.cur /\ n.step = r.step
        /\ n.tool = r.tool /\ n.exec = "INTERRUPTED" /\ n.task = "INTERRUPTED"
    BY <1>1, <1>2, InterruptConfigMismatchFields DEF ClaimInterrupted, SameTask, SamePlace
  <2>3. SameProgress(r, n) /\ ~Terminal(n)
    BY <2>2, SamePlaceSameProgress DEF Terminal, TerminalTaskStatus
  <2>4. JobPhase(r) = "queued" /\ JobPhase(n) = "interrupted"
    BY <2>1, <2>2, <2>3, Phases
  <2>5. ~JobOf(r).written
    BY <2>1 DEF JobOf
  <2>6. Durable!Interrupt(JobOf(r), JobOf(n))
    BY <2>3, <2>4, <2>5, PhaseMoves DEF Durable!Interrupt
  <2> QED BY <2>6 DEF JobStep, Durable!Step
<1>3. CASE Interrupted(r, n)
  <2>1. r.exec = "RUNNING" /\ ~Terminal(r)
    BY <1>3, RowKinds DEF Interrupted, EndedRow
  <2>2. Kind(r) = "write" => r.tool = "none"
    BY <1>3 DEF Interrupted, StartupAccepts
  <2>3. /\ n.version = r.version /\ n.plan = r.plan /\ n.cur = r.cur /\ n.step = r.step
        /\ n.exec = "INTERRUPTED" /\ n.task = r.task
        /\ n.tool = "none" <=> r.tool = "none"
    BY <1>1, <1>3, InterruptedFields DEF SameTask, SamePlace
  <2>4. SameProgress(r, n) /\ ~Terminal(n)
    BY <2>1, <2>3, SamePlaceSameProgress DEF Terminal
  <2>5. JobPhase(r) = "held" /\ JobPhase(n) = "interrupted"
    BY <2>1, <2>3, <2>4, Phases
  <2>6. ~JobOf(r).written
    BY <2>2 DEF JobOf
  <2>7. Durable!Interrupt(JobOf(r), JobOf(n))
    BY <2>4, <2>5, <2>6, PhaseMoves DEF Durable!Interrupt
  <2> QED BY <2>7 DEF JobStep, Durable!Step
<1> QED BY <1>2, <1>3

(* Approve queues the job again.                                           *)
LEMMA ResumedStep ==
  ASSUME NEW r, GoodRow(r), NEW n, GoodRow(n), Resumed(r, n)
  PROVE  JobStep(r, n)
<1>1. r \in Row /\ WaitingRow(r) /\ ~Terminal(r)
  BY RowKinds DEF GoodRow, Resumed, AwaitsDecision, WaitingRow, EndedRow
<1>2. /\ n.version = r.version /\ n.plan = r.plan /\ n.cur = r.cur /\ n.step = "Running"
      /\ n.tool = r.tool /\ n.exec = "QUEUED" /\ n.task = "Running"
  BY <1>1, ResumedFields DEF SameTask
<1>3. SameProgress(r, n) /\ ~Terminal(n)
  BY <1>1, <1>2, SamePlaceSameProgress DEF WaitingRow, Terminal, TerminalTaskStatus
<1>4. JobPhase(r) = "parked" /\ JobPhase(n) = "queued"
  BY <1>1, <1>2, <1>3, Phases DEF WaitingRow
<1>5. Durable!Approve(JobOf(r), JobOf(n))
  BY <1>3, <1>4, PhaseMoves DEF Durable!Approve
<1> QED BY <1>5 DEF JobStep, Durable!Step

(* Recover queues an interrupted job that was not planned yet, under its   *)
(* next epoch.                                                             *)
LEMMA RequeuedStep ==
  ASSUME NEW r, GoodRow(r), NEW n, GoodRow(n), Requeued(r, n)
  PROVE  JobStep(r, n)
<1>1. /\ r \in Row /\ r.exec = "INTERRUPTED" /\ ~Terminal(r) /\ ~HasPlan(r) /\ r.cur = None
  BY RequeuedFrom DEF GoodRow, RowInv, PlanPosition, InterruptedRow, ReferencesMatch
<1>2. /\ n.version = r.version + 1 /\ n.plan = r.plan /\ n.cur = r.cur /\ n.step = r.step
      /\ n.exec = "QUEUED" /\ n.task = "Pending"
  BY <1>1, RequeuedFields DEF SamePlace
<1>3. JobPhase(r) = "interrupted" /\ JobPhase(n) = "queued"
  BY <1>1, <1>2, Phases DEF Terminal, TerminalTaskStatus
<1>4. Progress(n) = Progress(r) /\ Written(n) = Written(r)
  BY <1>1, <1>2 DEF Progress, Written, Kind
<1> DEFINE job(p, e) == JobWith(p, e, Len(r.plan), Progress(r), Written(r))
           next == r.version + 1
<1>5. JobOf(r) = job(JobPhase(r), r.version) /\ JobOf(n) = job(JobPhase(n), next)
  BY <1>2, <1>4, JobParts
<1>6. job(JobPhase(r), r.version).phase = JobPhase(r) /\ job(JobPhase(r), r.version).epoch = r.version
  BY JobFields
<1>7. [job(JobPhase(r), r.version) EXCEPT !.phase = JobPhase(n)] = job(JobPhase(n), r.version)
  BY NewPhase
<1> HIDE DEF next
<1>8. [job(JobPhase(n), r.version) EXCEPT !.epoch = next] = job(JobPhase(n), next)
  BY NewEpoch
<1> HIDE DEF job
<1>9. [job(JobPhase(r), r.version) EXCEPT !.phase = JobPhase(n), !.epoch = next] = job(JobPhase(n), next)
  BY <1>7, <1>8, Zenon
<1>10. JobOf(n) = [JobOf(r) EXCEPT !.phase = "queued", !.epoch = next]
  BY <1>3, <1>5, <1>9, Zenon
<1>11. next = JobOf(r).epoch + 1
  BY <1>5, <1>6, Zenon DEF next
<1> QED BY <1>3, <1>5, <1>6, <1>10, <1>11, Zenon DEF JobStep, Durable!Step, Durable!Requeue

----------------------------------------------------------------------------
(* The worker's transactions *)

(* What does not count for the job leaves it as it is.                     *)
LEMMA SameJob ==
  ASSUME NEW r, NEW n, SameProgress(r, n), n.exec = r.exec, n.task = r.task
  PROVE  JobStep(r, n)
<1>1. JobPhase(n) = JobPhase(r)
  BY DEF JobPhase
<1> QED BY <1>1, PhaseMoves DEF JobStep

(* A running row is a held job.                                            *)
LEMMA RunningHeld ==
  ASSUME NEW r, GoodRow(r), r.exec = "RUNNING"
  PROVE  r \in Row /\ r.task = "Running" /\ ~Terminal(r) /\ PlanPosition(r) /\ JobPhase(r) = "held"
<1>1. r \in Row /\ r.task = "Running" /\ PlanPosition(r)
  BY RowKinds DEF GoodRow, RowInv, OwnedRow
<1>2. ~Terminal(r)
  BY <1>1 DEF Terminal, TerminalTaskStatus
<1> QED BY <1>1, <1>2, Phases

(* Starting a step does not complete it.                                   *)
LEMMA StartedStep ==
  ASSUME NEW r, GoodRow(r), r.exec = "RUNNING", NEW n, n = StartStep(r)
  PROVE  JobStep(r, n)
<1>1. /\ n.version = r.version /\ n.plan = r.plan /\ n.cur = r.cur
      /\ n.step = (IF r.step = "Pending" THEN "Running" ELSE r.step)
      /\ n.task = r.task /\ n.exec = r.exec /\ n.tool = r.tool
  BY RunningHeld, StartStepFields DEF SameTask
<1> QED BY <1>1, SamePlaceSameProgress, SameJob

(* A write step that begins its tool call has written; a read step has not.*)
LEMMA BegunStep ==
  ASSUME NEW r, GoodRow(r), r.exec = "RUNNING", r.tool = "none",
         NEW n, n = [r EXCEPT !.tool = "RUNNING"]
  PROVE  JobStep(r, n)
<1>1. /\ n.version = r.version /\ n.plan = r.plan /\ n.cur = r.cur /\ n.step = r.step
      /\ n.task = r.task /\ n.exec = r.exec /\ n.tool = "RUNNING"
  BY RunningHeld, ToolBegunFields DEF SameTask, SamePlace
<1>2. Progress(n) = Progress(r) /\ Kind(n) = Kind(r) /\ JobPhase(n) = JobPhase(r)
  BY <1>1 DEF Progress, Kind, JobPhase
<1>3. CASE Kind(r) = "write"
  <2> DEFINE job(v) == JobWith(JobPhase(r), r.version, Len(r.plan), Progress(r), v)
             began == Written(n)
  <2>1. JobOf(r) = job(Written(r)) /\ JobOf(n) = job(began)
    BY <1>1, <1>2, JobParts
  <2>2. job(Written(r)).phase = "held"
    BY RunningHeld, JobFields
  <2>3. began = TRUE
    BY <1>1, <1>2, <1>3 DEF Written
  <2> HIDE DEF began
  <2>4. [job(Written(r)) EXCEPT !.written = began] = job(began)
    BY NewWritten
  <2> HIDE DEF job
  <2>5. Durable!Write(JobOf(r), JobOf(n))
    BY <2>1, <2>2, <2>3, <2>4, Zenon DEF Durable!Write
  <2> QED BY <2>5 DEF JobStep, Durable!Step
<1>4. CASE Kind(r) # "write"
  <2>1. Written(n) = Written(r)
    BY <1>2, <1>4 DEF Written
  <2> QED BY <1>1, <1>2, <2>1, SameJob DEF SameProgress
<1> QED BY <1>3, <1>4

(* RequestApproval parks the job, before its step wrote anything.          *)
LEMMA ParkedStep ==
  ASSUME NEW r, GoodRow(r), r.exec = "RUNNING", CheckpointValid(r, "ExecutionDispatch"),
         r.ckpt.action = "REQUEST_APPROVAL", NEW n, n = ApprovalRequested(r)
  PROVE  JobStep(r, n)
<1>1. r.tool = "none" /\ r.step \in {"Pending", "Running"}
  BY DispatchKnows
<1>2. /\ n.version = r.version /\ n.plan = r.plan /\ n.cur = r.cur /\ n.step = "WaitingApproval"
      /\ n.task = "WaitingApproval" /\ n.exec = "WAITING_APPROVAL" /\ n.tool = r.tool
  BY RunningHeld, ApprovalRequestedFields DEF SameTask
<1>3. SameProgress(r, n)
  BY <1>1, <1>2, SamePlaceSameProgress
<1>4. JobPhase(n) = "parked"
  BY <1>2, Phases DEF Terminal, TerminalTaskStatus
<1>5. ~JobOf(r).written
  BY <1>1 DEF JobOf
<1>6. Durable!Park(JobOf(r), JobOf(n))
  BY <1>3, <1>4, <1>5, RunningHeld, PhaseMoves DEF Durable!Park
<1> QED BY <1>6 DEF JobStep, Durable!Step

(* A plan gives the job its size.                                          *)
LEMMA PlannedStep ==
  ASSUME NEW r, GoodRow(r), r.exec = "RUNNING", UsableRow(r),
         CheckpointValid(r, "ExecutionDispatch"), r.ckpt.action = "GENERATE_PLAN",
         NEW plan \in Plans, NEW n, n = PlanApplied(r, plan)
  PROVE  JobStep(r, n)
<1>1. r.plan = <<>> /\ r.cur = None /\ r.tool = "none"
  BY DispatchKnows DEF UsableRow, HasPlan
<1>2. /\ n.version = r.version /\ n.plan = plan /\ n.cur = 1 /\ n.step = "Pending"
      /\ n.task = r.task /\ n.exec = r.exec /\ n.tool = r.tool
  BY RunningHeld, PlanAppliedFields DEF SameTask
<1>3. Progress(n) = Progress(r) /\ Written(n) = Written(r) /\ JobPhase(n) = JobPhase(r)
  BY <1>1, <1>2 DEF Progress, Written, JobPhase, None
<1> DEFINE job(s) == JobWith(JobPhase(r), r.version, s, Progress(r), Written(r))
           size == Len(n.plan)
<1>4. JobOf(r) = job(Len(r.plan)) /\ JobOf(n) = job(size)
  BY <1>2, <1>3, JobParts
<1>5. Len(r.plan) = 0 /\ size > 0
  BY <1>1, <1>2, PlansAssumption
<1>6. job(Len(r.plan)).phase = "held" /\ job(Len(r.plan)).size = Len(r.plan) /\ job(size).size = size
  BY RunningHeld, JobFields
<1> HIDE DEF size
<1>7. [job(Len(r.plan)) EXCEPT !.size = size] = job(size)
  BY NewSize
<1> HIDE DEF job
<1>8. Durable!Plan(JobOf(r), JobOf(n))
  BY <1>4, <1>5, <1>6, <1>7, Zenon DEF Durable!Plan
<1> QED BY <1>8 DEF JobStep, Durable!Step

(* A step result adds one step to what is done, and writes nothing new.    *)
LEMMA ResultStep ==
  ASSUME NEW r, GoodRow(r), r.exec = "RUNNING", Known(r), w.pc = "commit",
         CheckpointValid(r, "ExecutionDispatch"), r.ckpt.action # "GENERATE_PLAN",
         NEW n, n = StepCompleted(r)
  PROVE  JobStep(r, n)
<1>1. r.step = "Running" /\ HasPlan(r)
  BY RunningHeld, DispatchKnows DEF Known, Knowing, Acting, Row, CheckpointRow, NextAction
<1>2. r.cur \in 0 .. Len(r.plan) /\ r.cur # None
  BY <1>1, RunningHeld DEF PlanPosition
<1>3. /\ n.version = r.version /\ n.plan = r.plan /\ n.task = r.task /\ n.exec = r.exec
      /\ IF HasLaterStep(r)
         THEN n.cur = r.cur + 1 /\ n.step = "Pending" /\ n.tool = "none"
         ELSE /\ n.cur = r.cur /\ n.step = "Completed"
              /\ n.tool = (IF r.tool = "none" THEN "none" ELSE "COMPLETED")
  BY RunningHeld, StepCompletedFields DEF SameTask
<1>4. Progress(r) = r.cur - 1 /\ Progress(n) = r.cur
  BY <1>1, <1>2, <1>3 DEF Progress, None
<1>5. Written(n) => Written(r)
  <2>1. HasLaterStep(r) => ~Written(n)
    BY <1>3 DEF Written
  <2>2. ~HasLaterStep(r) => Kind(n) = Kind(r) /\ (n.tool = "none" <=> r.tool = "none")
    BY <1>3 DEF Kind
  <2> QED BY <2>1, <2>2 DEF Written
<1>6. JobPhase(n) = JobPhase(r)
  BY <1>3 DEF JobPhase
<1> DEFINE job(d, v) == JobWith(JobPhase(r), r.version, Len(r.plan), d, v)
           done == Progress(n)
<1>7. JobOf(r) = job(Progress(r), Written(r)) /\ JobOf(n) = job(done, Written(n))
  BY <1>3, <1>6, JobParts
<1>8. /\ JobOf(r).phase = "held" /\ JobOf(r).size = Len(r.plan) /\ JobOf(r).done = Progress(r)
      /\ JobOf(r).written = Written(r) /\ JobOf(n).written = Written(n)
  BY RunningHeld DEF JobOf, Written
<1>9. JobOf(r).done < JobOf(r).size /\ done = JobOf(r).done + 1
  BY <1>2, <1>4, <1>8 DEF None
<1> HIDE DEF done
<1>10. [job(Progress(r), Written(r)) EXCEPT !.done = done] = job(done, Written(r))
  BY NewDone
<1>11. [job(done, Written(r)) EXCEPT !.written = Written(n)] = job(done, Written(n))
  BY NewWritten
<1> HIDE DEF job
<1>12. JobOf(n) = [JobOf(r) EXCEPT !.done = done, !.written = Written(n)]
  BY <1>7, <1>10, <1>11, Zenon
<1>13. Durable!CompleteStep(JobOf(r), JobOf(n))
  BY <1>5, <1>8, <1>9, <1>12, Zenon DEF Durable!CompleteStep
<1> QED BY <1>13 DEF JobStep, Durable!Step

(* FINALIZE_RUN completes a job that has all of its steps done.            *)
LEMMA FinalizedStep ==
  ASSUME NEW r, GoodRow(r), r.exec = "RUNNING", CheckpointValid(r, "ExecutionDispatch"),
         r.ckpt.action = "FINALIZE_RUN", NEW n, n = Finalized(r)
  PROVE  JobStep(r, n)
<1>1. r.step = "Completed" /\ ~(r.cur < Len(r.plan)) /\ HasPlan(r)
  BY DispatchKnows DEF HasLaterStep
<1>2. r.cur \in 0 .. Len(r.plan) /\ r.cur # None /\ Len(r.plan) \in Nat
  BY <1>1, RunningHeld DEF PlanPosition, Row
<1>3. /\ n.version = r.version /\ n.plan = r.plan /\ n.cur = r.cur /\ n.step = r.step
      /\ n.tool = r.tool /\ n.exec = "COMPLETED" /\ n.task = "Completed"
  BY RunningHeld, FinalizedFields DEF SameTask, SamePlace
<1>4. SameProgress(r, n) /\ JobPhase(n) = "completed"
  BY <1>3, SamePlaceSameProgress, Phases
<1>5. Progress(r) = Len(r.plan) /\ Len(r.plan) > 0
  BY <1>1, <1>2 DEF Progress, None
<1>6. JobOf(r).size > 0 /\ JobOf(r).done = JobOf(r).size
  BY <1>5 DEF JobOf
<1>7. Durable!Complete(JobOf(r), JobOf(n))
  BY <1>4, <1>6, RunningHeld, PhaseMoves DEF Durable!Complete
<1> QED BY <1>7 DEF JobStep, Durable!Step

----------------------------------------------------------------------------
(* The refinement *)

(* Every transaction on a row is a step of its job.                        *)
LEMMA MovesStep ==
  ASSUME NEW t, NEW r, GoodRow(r), UsableRow(r), NEW n, GoodRow(n), Moves(t, r, n),
         Advanced(t, r, n) => Known(r)
  PROVE  JobStep(r, n)
<1>1. r \in Row
  BY DEF GoodRow
<1>2. CASE n = r
  BY <1>2 DEF JobStep
<1>3. CASE Advanced(t, r, n)
  <2>1. Known(r) /\ r.exec = "RUNNING" /\ Advances(r, n)
    BY <1>3 DEF Advanced, ClaimOwns
  <2> QED BY <2>1, StartedStep, BegunStep, ParkedStep, PlannedStep, ResultStep, FinalizedStep
          DEF Advances
<1> QED BY <1>1, <1>2, <1>3, DamagedStep, ClaimedStep, InterruptedStep, ResumedStep, RequeuedStep
        DEF Moves

(* CreateTask submits the job.                                             *)
LEMMA SubmittedStep ==
  ASSUME NEW c \in Configs
  PROVE  Durable!Step(AbsentJob, JobOf(InitialRow(now, c)))
<1> DEFINE n == InitialRow(now, c)
           absent == "absent"
           zero == 0
           job(p, e) == JobWith(p, e, Len(n.plan), Progress(n), Written(n))
<1>1. /\ n.exec = "QUEUED" /\ n.task = "Pending" /\ n.version = 1 /\ n.plan = <<>>
      /\ n.cur = None /\ n.tool = "none"
  BY DEF InitialRow
<1> HIDE DEF n
<1>2. JobPhase(n) = "queued"
  BY <1>1, Phases DEF Terminal, TerminalTaskStatus
<1>3. Len(n.plan) = 0 /\ Progress(n) = 0 /\ Written(n) = FALSE
  BY <1>1 DEF Progress, Written
<1>4. JobOf(n) = job(JobPhase(n), n.version)
  BY JobParts
<1>5. Durable!Absent = job(absent, zero) /\ AbsentJob = Durable!Absent
  BY <1>3 DEF AbsentJob, Durable!Absent, JobWith
<1> HIDE DEF absent, zero
<1>6. [job(absent, zero) EXCEPT !.phase = JobPhase(n)] = job(JobPhase(n), zero)
  BY NewPhase
<1>7. [job(JobPhase(n), zero) EXCEPT !.epoch = n.version] = job(JobPhase(n), n.version)
  BY NewEpoch
<1> HIDE DEF job
<1>8. JobOf(n) = [Durable!Absent EXCEPT !.phase = "queued", !.epoch = 1]
  BY <1>1, <1>2, <1>4, <1>5, <1>6, <1>7, Zenon
<1> QED BY <1>5, <1>8 DEF Durable!Step, Durable!Submit, n

(* Every step of the runtime is a step, or a stutter, of every job.        *)
LEMMA JobsStep ==
  ASSUME IInv, WorkerFacts, RowsUsable, [Next]_vars, NEW t \in Tasks
  PROVE  LET j == IF Exists(t) THEN JobOf(db[t]) ELSE AbsentJob
             k == IF Exists(t)' THEN JobOf(db'[t]) ELSE AbsentJob
         IN  k = j \/ Durable!Step(j, k)
<1>1. CASE Exists(t)
  <2>1. t \in Rows /\ UsableRow(db[t])
    BY <1>1 DEF Rows, RowsUsable
  <2>2. JobStep(db[t], db'[t])
    BY <2>1, StepEffects, MovesStep, FailsEnd
  <2>3. Exists(t)'
    BY <2>1, StepEffects DEF Rows
  <2> QED BY <1>1, <2>2, <2>3 DEF JobStep
<1>2. CASE ~Exists(t) /\ Exists(t)'
  <2>1. db'[t] = InitialRow(now, config) /\ config \in Configs
    BY <1>2, NewRows DEF Rows, IInv, TypeOK
  <2> QED BY <1>2, <2>1, SubmittedStep
<1> QED BY <1>1, <1>2

(* The task runtime implements durable jobs: whatever the worker, the      *)
(* registry, the commands and the restarts do, each task is queued, held,  *)
(* parked or interrupted until it ends once and for good, completes only   *)
(* when all of its steps are done, and is not handed out again once its    *)
(* write call was begun.                                                   *)
THEOREM ImplementsJobs == Spec => ImplementsDurableJobs
<1> DEFINE jobs == [t \in Tasks |-> IF Exists(t) THEN JobOf(db[t]) ELSE AbsentJob]
<1>1. Init => Durable!Init
  BY DEF Init, Exists, Durable!Init, AbsentJob, Durable!Absent
<1>2. IInv /\ WorkerFacts /\ RowsUsable /\ [Next]_vars => [Durable!Next]_jobs
  <2> SUFFICES ASSUME IInv, WorkerFacts, RowsUsable, [Next]_vars
               PROVE  Durable!Next
    OBVIOUS
  <2> QED BY JobsStep DEF Durable!Next
<1> QED BY <1>1, <1>2, UsableInvariance, FactsHold, PTL DEF Spec, ImplementsDurableJobs, Durable!Spec
=============================================================================
