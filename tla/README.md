# A TLA+ verification of the agentops-go task runtime

agentops-go runs AI-agent tasks: a task is planned by a language model, its steps are executed one
by one (model calls, read tools, write tools that need an approval), and a report is produced at the
end. One process does all of this against one PostgreSQL database. These modules specify the task
runtime, the command receipts, the database runtime with the host that owns it, and planning with the
execution of steps; they check each on small instances with TLC and prove its central properties
with TLAPS.

Paths below are relative to `src/internal/` unless they begin with `src/`. The design documents are
`src/docs/design/001 … 011` (in Chinese); where they and the code disagree, the modules follow the
code, and the disagreement is recorded as a run (see *Findings*).

## 1. The system

### 1.1 Components

| Component | State it keeps | Operations | Talks to |
|---|---|---|---|
| Lifecycle policy (`lifecycle/policy.go`, `contracts/status.go`) | none: transition tables and guards | `Can…Transition`, `CheckGuard`, approval guards | used by every transaction |
| Checkpoint Manager (`checkpoint/`) | one row per checkpoint of a run: sequence, frozen next action, context, source, execution hash | save, load and validate for four usages, validate a recovery source | called inside the transactions of the runtime |
| Task runtime commands (`taskruntime/create.go`, `cancel.go`, `timeout.go`, `recover.go`, `query.go`) | task, run, execution, step, tool execution, report and receipt rows | Create, Cancel, Expire, Recover, Query | database; active-call registry after the commit |
| Command receipts (in `create.go`, `cancel.go`, `recover.go`; `adapter/postgres/taskruntime/`) | one receipt per command id | look up, compare, replay, insert in the command's transaction | callers that repeat a command |
| Claim (`taskruntime/claim.go`) | the queue (`queued_at`) and the owner (`worker_id`) | `ClaimNextExecution` | Checkpoint Manager |
| Execute (`taskruntime/execute.go`) | the local variables between two transactions: claim, frozen action, result | `ExecuteClaimedExecution` | Planner, Step Executor, Approval Manager, registry |
| Active-call registry (`taskruntime/activecall/registry.go`) | entries PREPARED / ACTIVE with a cancel function | Prepare, Activate, Cancel, Unregister, CancelAll | cancelled by commands and scanner |
| StartupCleanup (`taskruntime/startup_cleanup.go`) | none | one transaction over all executions an earlier process left running | Checkpoint Manager |
| Worker, timeout scanner (`worker/worker.go`, `app/timeout_scanner.go`) | loop position | claim-execute loop; periodic expiry | the two services above |
| Approval Manager | approval rows | RequestApproval, Approve, Reject | a port: contracts and policy only |
| Planner (`planner/`) | one session: initial call, at most one repair | plan, parse, validate, repair | model client |
| Step Executor (`stepexecutor/`) | none | resolve references, run model steps and read tools | model client, tool framework |
| PostgreSQL runtime (`adapter/postgres/runtime/`) | advisory lock and its connection, one-slot write gate, lifecycle state, monitor, read pool and admissions | Open, Migrate, StartMonitoring, Execute, TryExecute, reads, Close | everything that touches the database |
| PostgreSQL repositories (`adapter/postgres/*/`) | the tables | conditional updates, locking reads | — |
| Runtime host (`app/host.go`, `http_server.go`, `task_router.go`) | which components run | start in order, serve, stop in reverse, close the database | all |
| HTTP API, configuration, codec, catalog, task log, model client, migrations | none, or immutable after start | decoding, parsing, hashing, calls | — |

### 1.2 How a task moves

`CreateTask` inserts a `Pending` task with a queued execution, version 1, and an Initialization
checkpoint whose frozen action is `GENERATE_PLAN`. The worker claims the head of the queue, then
repeats: load and validate the latest checkpoint, register a call, start the action, activate the
handle, make the call outside every transaction, and commit the result, which writes the checkpoint
with the next frozen action. A write step first hands the execution over to an approver
(`WAITING_APPROVAL`, no owner); an approval queues the *same* version again. `FINALIZE_RUN`
completes the task. Cancel and Expire end a task at any moment; the commit comes first and the
registry is cancelled afterwards. A process that stops leaves `RUNNING` rows behind; the next one
refuses to serve until StartupCleanup has ended them or left them `INTERRUPTED`, from where `Recover`
may create the next *version*.

### 1.3 How the process lives

`Host.Run` opens the database runtime, which takes a PostgreSQL advisory lock on a connection of its
own and holds it as long as the process may write. Every write is a transaction on that very
connection, behind a one-slot gate, so the loss of the lock and the loss of the ability to write are
one event. The host migrates on another connection, starts the monitor of the lock connection, cleans
up, starts its components in order and waits for a signal, a component that ends, or the failure
channel of the database runtime. It then refuses writes, stops the components in reverse order under
one shutdown context, drains or forces the reads, releases the lock, and exits.

A caller that did not get an answer repeats its command under the same id; the receipt written in the
command's own transaction tells a repetition from a new command.

### 1.4 How a plan becomes steps

The Planner makes one model call and, when the answer is no valid plan, one repair call under the
same deadline. What the validator accepted is committed; then each step resolves the references in
its input against the output of the step before it, calls the model or a read tool, and has its output
projected onto its declared schema and stripped of credentials before it is stored. Validator,
checkpoint and executor each walk the same references with their own rules.

### 1.5 What is hard about it

* **Interleavings.** Every pair of the worker's transactions encloses a window in which cancel,
  expiry, a decision, a recovery or a crash may commit. The defences are the claim check, the frozen
  action guard and the registry; a result must be dropped exactly when one of them fails.
* **Crash and restart.** Nothing but the database survives. Each window leaves a row that
  StartupCleanup must classify, without running a write tool twice.
* **Deadlines.** Any transaction may be the one that notices that the deadline has passed; a repair
  call shares its caller's.
* **Configuration change.** An execution belongs to the configuration it was frozen with, over
  restarts, approvals and recoveries.
* **Seven ways to end a task**, each closing five kinds of rows on its own.
* **A queue with FIFO order** that approvals and recoveries re-enter.
* **Lost replies.** A COMMIT may take effect and its confirmation never come, and what the handler
  does after the commit (the registry cancel) is then not done.
* **One connection, many users.** Writers, monitor, migrator and Close share the gate; admission is
  checked before and after the wait for it, while shutdown and lock loss change it.
* **Forced shutdown.** Reads are cut on sockets that belong to a pool, writes on the connection that
  owns the lock; a handler that does not end must not keep the process.
* **Rules stated twice.** Planner and executor check the same inputs, before and after resolution.

### 1.6 What makes each component correct

* *Policy*: no transaction changes a status along an edge the policy does not have.
* *Checkpoints*: an undamaged checkpoint is accepted by the claim, by the dispatch and by StartupCleanup,
  whichever reads it first.
* *Commands*: a deadline or a command ends a task once, completely, and the call in flight learns it.
* *Receipts*: an id is decided once, for one request, and every answer is the recorded one.
* *Claim*: the queue is drained; own configuration only.
* *Execute*: progress is written only by the owner, before the deadline; no handle leaks.
* *StartupCleanup*: copes with every row a crash leaves; no write call is repeated.
* *Recover and Query*: agree with each other; only interrupted versions are replaced.
* *Write gate*: one use of the connection at a time; nothing begins once writes are sealed; a blocked
  writer is served; what takes effect does so under the advisory lock.
* *Reads*: the pool closes after the last read; a force cuts only what a read still holds.
* *Host*: it exits within its shutdown context, whatever hangs, and leaves nothing open behind.
* *Planner and steps*: planning ends; a cancellation is not reported as a failure; a repair returns in
  time; the executor does not contradict the validator.

## 2. The modules

| Module | Models | Depends on |
|---|---|---|
| `Lifecycle` | status sets, the transition tables, `CheckGuard` | — |
| `Checkpoint` | the joined row of a task, what the Checkpoint Manager accepts, the recovery matrix | `Lifecycle` |
| `Transactions` | what each transaction writes, as a function from the locked row to the new one, and how it decides | `Checkpoint` |
| `TaskRuntime` | the state machine: database, clock, process, worker loop, registry; `Spec` and `LiveSpec` | `Transactions` |
| `TaskRuntimeProperties` | invariants, action properties, liveness, the refinement mapping | `TaskRuntime`, `DurableJob` |
| `DurableJob` | the abstract promise: a durable job that is queued, held, parked, interrupted, and ends once | — |
| `TaskRuntimeProofs` | the inductive invariant `IInv` of rows, process and worker; types and consistency | `TaskRuntimeProperties`, `TLAPS` |
| `TaskStepProofs` | every step as one of the transactions on a row; the action properties | `TaskRuntimeProofs` |
| `TaskWorkerProofs` | the worker, the registry and the rows they own | `TaskStepProofs` |
| `TaskCheckpointProofs` | checkpoints from reader to reader | `TaskStepProofs` |
| `DurableJobProofs` | the refinement of `DurableJob` | `TaskCheckpointProofs` |
| `CommandReceipts` | the three commands as their callers see them: ids, receipts, replays, lost commits, restarts | — |
| `CommandLedger` | the abstract promise: an id is decided once, acts at most once, and is told as decided | — |
| `CommandReceiptsProperties`, `CommandReceiptsProofs` | the properties, with the refinement; their proofs | `CommandReceipts`, `CommandLedger` |
| `DatabaseRuntime` | lock connection, session and advisory lock, write gate, transactions, monitor, migrations, Close | — |
| `ReadLifecycle` | admission, pool connections, finishing and forced closing of reads | — |
| `RuntimeHost` | the composition: `Host.Run` with its components over both | `DatabaseRuntime`, `ReadLifecycle` |
| `RuntimeHostProperties`, `RuntimeHostProofs` | the properties of the composition; their proofs | `RuntimeHost` |
| `StepReferences` | values, the input contracts, the one extractor of references | — |
| `PlanValidator` | parser and validator: `Valid(draft)` | `StepReferences` |
| `StepExecution` | resolution of a step's input, processing of outputs | `PlanValidator` |
| `PlannerSession` | `GeneratePlan`: two calls, one deadline, cancellation | `StepExecution` |
| `PlanExecution` | a session, then the steps of its plan one after the other | `PlannerSession` |
| `PlanExecutionProperties`, `PlanExecutionProofs` | the properties; their proofs | `PlanExecution` |
| `MCTaskRuntime`, `MCCommandReceipts`, `MCPlanExecution` | plans, requests, drafts, tools and values of the TLC instances | the properties |

The four state machines meet at these places. `TaskRuntime` and `CommandReceipts` take each database
transaction as one atomic action; `OneAtATime`, `WritesUnderLock` and `NothingBegunAfterSeal` of
`RuntimeHost` are what justifies that, and a COMMIT whose reply is lost, which the gate cannot
exclude, is an action of `CommandReceipts`. The fairness of `CommandReceipts` that a process without
its connection ends is `LockLossStopsHost` and `HostExits` of `RuntimeHost`. `TaskRuntime` treats
Planner and Step Executor as a choice among the outcomes `PlanExecution` can end with.

### 2.1 The task runtime: state

`db[t]` is one **row per task**: it joins the task, its run, the execution of the current version, the
current step, that step's tool execution and approval in this version, the latest checkpoint, and
whether a report exists. This is what a transaction locks and reads together. Executions of
earlier versions are immutable history no transaction reads, so they are not kept. NULL is the number
`None` (0), below every clock reading, worker id and step. A stored checkpoint context that can no
longer be decoded, attributed or matched to its hash is the flag `ok`.

`now` is the database clock, read inside the transaction under the locks. `host`, `inst` and `config`
are the process: its phase, its worker id (new for every start), its configuration hash. `w` is the
worker loop: which point between two transactions it is at, its claim, the frozen action
(`ExecutionActionGuard`) and the kind of step it runs. `registry` is the active-call registry, and
`pending` holds the registry cancels of committed terminations that have not been made yet: in the
code the commit and `Registry.Cancel` are two statements with everything possible in between.

### 2.2 The task runtime: actions

Each database transaction is **one atomic action**. The code gives this atomicity: writes go through
one connection behind a one-slot gate, each transaction locks its rows before it reads them or the
clock, and rolls back as a whole. Everything *between* two transactions is a separate point:

| `w.pc` | Point in `execute.go` | Next action |
|---|---|---|
| `load` | before `reloadDispatch` | `LoadDispatch`: stale, invalid, or freeze the action |
| `prepare` | before `Registry.Prepare` | `PrepareCall` |
| `start` | before `StartExecutionAction` | `StartAction` |
| `activate` | before `Activate` | `ActivateCall`, which sees a cancel made meanwhile |
| `call` | inside Planner, Step Executor or Approval Manager | `BeginTool`, `RequestApproval`, `CallReturns` |
| `commit` / `fail` | before the result's transaction | `ApplyPlanner`, `CommitCompletedStep` / `TerminalizeAction` |
| `finalize` | before `FinalizeExecution` | `Finalize` |
| `confirmWaiting`, `confirmTerminal` | after the approval request committed | `ConfirmApproval` |

Errors that `ExecuteClaimedExecution` returns end `Worker.Run` and with it the process. There are two
kinds. `LoopFails` may come between any two steps of the loop: the Planner or the Step Executor
returns an error under a live context, the draft or the outcome is not valid, a repository or a transaction
fails; a COMMIT whose reply is lost is its action followed by `LoopFails`. The handle is unregistered
(`pc = "broken"`), and while the process is on its way out commands, decisions and the scanner still
write rows. `SelfCheckFails` is the loop's own checks, which look at state the model has: a
configuration that changed under a claimed execution, a duplicate or a missing registry entry, a
handover that the rows do not confirm. `Fatal` is either, and `WorkerStops` takes the process down. An
error of the claim itself, with the worker idle, is a `Crash` at that point. An error of a command
changes nothing (or, after a lost COMMIT reply, is 2.3's subject). The environment may advance the clock (`Tick`), damage a
stored context, crash the process at any point, and restart it with any configuration.

The Approval Manager and the Tool Framework's begin are **external**: the repository has only their
contracts, so `RequestApproval`, `Approve`, `Reject` and `BeginTool` are modelled from the policy, the
checkpoint rules and what the runtime's own code requires of them; the same holds for the dispatch,
termination, startup and recovery repositories, which are interfaces with test fakes only
(`src/test/integration/runtime/phase1_fakes_test.go`).

Abstracted: the Planner and the Step Executor are a choice of outcome (a plan from `Plans`, success,
failure, stale where the code returns it, or an error, which is `LoopFails`); every process has the tasks'
agent in its configuration and enabled (where it has not, claim and dispatch end the process with an error and
Recover returns one, three cases already among the errors above); the rules of `validateFrozenDispatch` are those of
`ActionMatches`, except its lookup of a tool's definition, which is immutable; `RESULT_PERSISTENCE_FAILED`
is a cause that `RecoveryPhase` knows and no transaction writes; receipts are in `CommandReceipts`; report contents, log
entries, error texts, JSON contexts and hashes are left out, except the verdict on the checkpoint.

### 2.3 The command receipts

`receipts` is the receipt table, one row or `None` per command id; a receipt has the request it was
written for (its type, target and fingerprint are what the code compares) and the answer that is
replayed. Each of `CreateTask`, `CancelTask` and `RecoverTask` is one transaction: it decides, changes
the task, and inserts the receipt (`Decide`), then its commit is confirmed or is not (`Commit`). A
confirmed commit leads to `Answer`, the registry cancel and the reply of the same handler. A
commit without confirmation returns an error to a caller who may `Send` the same request again, to
the next process if need be. `Replay` is the branch for an id with a receipt. Since a transaction runs alone
on its connection, the look-up and the insertion need no action of their own. Task statuses are
reduced to what the commands ask: absent, waiting, running, interrupted, ended; `version` is the
execution version. `acted` and `told` are history variables, which the ledger sees.

### 2.4 The database runtime and the host

`session` is the server's end of the lock connection, `conn` the client's. They part in both
directions: the server may end a session the client believes in, and a client that closed its
socket leaves session, lock and transaction to the server until that notices. `lock` is the owner of the
advisory lock; a rival process may take it when it is free, and migrate. `gate` names the holder of
the token of the one-slot channel, `waiting` its blocked receivers in order, `pc[w]` where a writer is:

| `pc[w]` | Point in `write.go` |
|---|---|
| `check` | the first `requireAcceptingWrites` passed, before the gate |
| `wait` | blocked in `acquireGate` |
| `admit` | holds the token, before `admitWrite` |
| `begin`, `work`, `commit`, `rollback` | before the operation of that name |
| `reply` | the server has committed, the client does not know yet |

`OperationBreaks` is any of them failing, by the server or by the caller's context: pgx closes the
connection, `observeConnectionFailure` marks the runtime Lost and fills the failure channel. `closing` is
the position of `Close`, `monitor` that of the monitor goroutine, `deadline` says that the shutdown
context has expired. `schema[v]` counts how often the statements of migration `v` took effect.

A read (`rpc[r]`) goes through admission, `BeginTx` with a pool connection (`connOf`), its rows,
closing them, the rollback that returns the connection, and completion; `forced` are the reads the
shutdown has forced, `socket[c]` says whether a pool connection was cut. `host` and `comp` follow
`Host.Run`. The HTTP server is the last component: its handlers call `Submit` and `BeginRead`, and its
shutdown waits for them until the context expires.

### 2.5 Planning and steps

A value is its JSON kind and the one thing that matters in it (`StepReferences`): the type of a
literal, the field of a reference, the member of an object. A draft is a sequence of steps with
sequence number, type, tool, input and output schema. `Valid(draft)` is parser and validator
together. The session (`pc`, `phase`, `ctx`, `left`, `callLeft`) has time in small units: `left` is
what remains of the caller's deadline, `callLeft` of the model call's own timeout; `Tick` lets both
pass. Building a prompt takes time too, less than the safety margin the code leaves for it. An answer
that is no valid plan, for whatever reason, is `InvalidAnswer`: sizes, texts, unknown fields, arrays
and everything else that is not in a draft's record can always make it one. After `Finish` the steps
run: `at`, `source` (the step before, with the output it stored) and `bound` (the references its
checkpoint recorded); `ResolveInput`, then `RunModelStep`, or `InvokeReadTool` and
`MapReadToolResult`. The model and the tool may return any function from fields to values.
`InputTooLarge` stands for the limits on size and depth that references may exceed. Whether a text holds a
control character, for which sanitisation refuses an output that its schema admits, is a choice
(`RefusesOutput`, `MayHoldControl`).

## 3. What is model-checked

### 3.1 Runs that pass

**`single_task`** (168 464 states): one task, plans `<<model>>`, `<<model, write>>` and `<<read>>`, two
configurations, deadline after 2 ticks of 4, four process instances, three versions, checkpoints may
be damaged. Invariants:

* `TypeOK`;
* `CrossObjectConsistent` — which statuses, queue entry, owner and report may occur together;
* `CheckpointUsable` — an undamaged checkpoint is accepted by the claim of a queued row, by the dispatch of
  a running one, and by StartupCleanup while a tool call is in flight. The reload when that call
  returns is not among these readers: it refuses, which is the run `tool_result`;
* `CallLearnsOfCommand` — a started call whose task was cancelled or expired has a cancelled handle, or
  the cancel is still to come;
* `SelfChecksFailOnlyOnConfirm` — of the loop's own checks (`SelfCheckFails`) only the confirmation of an
  approval request can fail: however errors, restarts and commands fall, no exit leaks a handle that
  makes the next `Prepare` a duplicate, and no foreign configuration reaches the dispatch. Errors of
  ports and transactions are not meant, they may come at any time;
* `RunsOwnConfiguration` — the process runs only executions of its configuration;
* `WriteToolRunsOnce` — a begun write call is never queued, parked or left for Recover;
* `StartupRefusesOnlyBoundary` — StartupCleanup refuses only a row whose step is not running, or whose
  configuration changed;
* `RecoveredWasRecoverable` — Recover acts only where Query offered it;
* `TerminalClosesTool` — an ended task has no tool call marked running (an invalid checkpoint aside).

Action properties: `TerminalIsFinal`, `FollowsLifecycle` (every status change of every transaction is
an edge of the policy; the slip that breaks it is a decision that skips `Pending`), `ProgressOnlyByOwner`, `AfterDeadlineOnlyFails`, `VersionReplacesInterrupted`.
And `ImplementsDurableJobs`: the runtime refines `DurableJob` under the mapping `JobOf`.

**`two_tasks`** (97 819 states, `LiveSpec`): two tasks with a write step each, deadline after one tick.
`OrphanIsExpired` (a running row the worker does not work on is past its deadline) and the liveness
properties:

* `QueueDrains` — a queued task is claimed or ended, whatever queues before it, if calls return. It is about
  progress (a stale return that does not end the loop breaks it), not about the order: with finitely many
  entries any total order drains, and `IsHead` takes one row at a time as `LIMIT 1` does;
* `CancelReachesWorker` — the worker does not stay with a cancelled task, wherever the cancel falls;
* `EveryTaskEnds` — a task whose deadline passed ends, whatever it was doing.

**`runtime_host`** (110 250 states, `LiveSpec`): one `Execute` and one `TryExecute` caller, one read and one
pool connection, two migrations, two components, a rival for the lock. Invariants `OneAtATime`
(the gate serialises every use of the lock connection), `MigrationHistory` (no version applied
twice or out of order, two migrating processes included), `ReadsEndBeforePool`, `ForceSparesPool` (a
force never cuts a connection that went back to the pool), `NothingLeftBehind`. Action
properties `WritesUnderLock` and `NothingBegunAfterSeal`. Liveness:

* `WaiterServed` — a writer blocked on the gate is served, whatever `TryExecute` callers do;
* `HostExits` — a host that stops gets out, although handlers may hang for ever;
* `LockLossStopsHost` — a host whose session the server ended finds out and stops.

**`command_receipts`** (139 332 states, `LiveSpec`): two callers, three ids, five requests (two
creations under one id, a cancel and a recovery under one id with equal fingerprints, a recovery
of its own), two tasks. `OncePerCommand` is the refinement of `CommandLedger`;
`ReceiptsAccountForTasks` relates receipts and tasks; `CancelReachesCall` says that the call of a
cancelled task is cancelled or dies with its process even when the reply to the commit was lost.

**`plan_execution`** (62 628 states, `LiveSpec`): every plan of a first step with an output of any
type, a second one that makes any use of it at any one place, and a final verification, valid or not,
and nine plans that are malformed otherwise; six tools. `ValidPlanResolves` (the executor never contradicts the
validator), `CancelIsNotFailure`, `RepairReturnsInTime`, and `PlanEnds`.

Deadlock checking is off in the runs of the task runtime (a process may be down for good with its
restarts used up), of the host (an exited process does nothing) and of a plan (it ends).

### 3.2 Bounds

| Bound | Value | Why it is enough |
|---|---|---|
| `MaxNow` | 4 with timeout 2; 2 with timeout 1 | every transaction can fall before, at and after the deadline, and a decision or recovery can queue at a later reading than the creation |
| `MaxInst` | 4 / 2 | create, a claim under another configuration, recovery under the first, and a crash of the recovered version take four instances |
| `MaxVersion` | 3 / 1 | a recovered version can itself be recovered |
| plans | one or two steps of all kinds | every frozen action occurs, on a first, a later and a last step |
| tasks | 1 for the row's history, 2 for the queue | rows of different tasks meet only in the queue, in the worker and in StartupCleanup |
| writers, reads, pool connections | one of each kind | a blocked writer, a non-blocking one, monitor and closer already contend for the gate four ways; what several of one kind do to each other is in the theorems, which hold for any number |
| `Versions`, `Components` | 2 | a migration before another; a component started before the HTTP server |
| command ids, clients, tasks | 3, 2, 2 | an id reused with another input, with another type, two callers with one id at the same time, create and recover the same task |
| steps | 3 (`MaxSteps`) | a first, a middle and a last step; references only ever reach one step back |
| `CallTimeout`, `RepairMinBudget`, `SafetyMargin`, `MaxDeadline` | 5, 1, 2, 7 | deadlines that end before, in and after each call, and both verdicts on the repair's budget |

`MaxVersion` guards `RecoverTask` only, `MaxInst` guards `Restart` only, `MaxNow` guards `Tick` only,
`MaxDeadline` bounds what `left` may begin with. Nothing bounds the host, the receipts and the plans but
their constants. No symmetry is used: task identifiers are ordered by the queue, and the other runs
check liveness.

### 3.3 Fairness

**Task runtime.** `LiveSpec` assumes weak fairness of: StartupCleanup; the loop's own steps and its fatal stop; the
claim, while some queue head is claimable (the worker polls); the return of a call *whose context was
cancelled*; the expiry of each expired task (the scanner retries it on every interval); and the
delivery of a committed termination to the registry (the statement after the commit). Each is one
goroutine that continues. `LoopFails` is not fair: errors may come or never come. Not assumed: that the clock advances, that a call returns which nobody
cancelled, that a tool begins, that any command or decision comes, or that a stopped process is started
again. Therefore `QueueDrains` and `EveryTaskEnds` are stated for a process that stays up
(`StaysUp`), and `QueueDrains` also for calls that return (`[]<>(w.pc # "call")`).

**Host.** `HostFairness` is weak fairness of what `Host.Run` itself does next, of the shutdown timer,
and of Close and the drain. `CallFairness` is weak fairness of the monitor (a ticker and bounded
checks), of a caller that has asked for the gate, and of the ends that are owed: a forced read's next
step (its context is cancelled and its socket is closed) and the release of a read whose rows are closed. Not
assumed: that a transaction's body ends, that a read's rows are ever consumed, that the server or the rival
does anything, that a signal comes. `WaiterServed` and `LockLossStopsHost` therefore take
`TransactionsEnd` as a hypothesis; `HostExits` does not.

**Receipts.** Weak fairness of `Answer` (the statements after the commit in the same handler) and of the end
of a process whose connection is lost. Callers need not repeat anything.

**Plans.** Weak fairness of `Progress`: the code between two calls runs, and a model client returns when its
context or its timeout ends at the latest, which is its contract. So the calls return; the clock
itself is not assumed to advance.

### 3.4 Findings: runs that violate what a document says

Each of these seven runs checks one property that a design document states, and TLC finds what the code
does instead. The quotes and lines are in `PROJECT.json`.

| Run | Property | What happens |
|---|---|---|
| `recover_interrupted` | `RecoverableCanRecover` | an execution interrupted while planning is offered by Query, but Recover asks the policy for Running → Pending, which it does not have |
| `startup_boundary` | `StartupAcceptsLegacy` | a crash between two steps, or before the finalisation, leaves a row that makes every restart fail |
| `approval_overtaken` | `OvertakenConfirmIsStale` | a cancel, an expiry or a decision between an approval request and its confirmation stops the process |
| `tool_result` | `CheckpointInvalidMeansDamaged` | committing a tool step's result reloads the checkpoint under a rule that forbids the running tool execution |
| `claim_step` | `TerminalClosesStep` | a claim that ends a task leaves the step of an approved continuation Running |
| `plan_literal` | `LiteralStepResolves` | a plan with a plain string in an object field passes the validator and fails its step |
| `recover_silent` | `CallLearnsOfTermination` | Recover past the deadline ends a task whose planner call is running and does not cancel it |

The passing properties are stated around these: `CallLearnsOfCommand` leaves out a termination by
Recover, `TerminalClosesTool` leaves out invalid checkpoints, `StartupRefusesOnlyBoundary` says that
the boundary rows are the only refused ones. Because of `tool_result` a read step never completes in
the model, as in the code with a tool framework behaving as the documents say; completed model steps
exercise the path behind it. For the same reason a write step never completes, so one consequence of
`ReferencesMatch` is out of the runs' reach: after an approved write as the last step, the checkpoint
that freezes `FINALIZE_RUN` names no approval while the step still has one, and would be refused next.

### 3.5 Observations without a run

Met while modelling; none contradicts a property above.

* `Migrate` works on a connection of its own (`adapter/postgres/runtime/runtime.go:188`,
  `migration/runner.go:36`), as `src/docs/design/003-system-architecture-design.md:249` wants "while the
  advisory lock is held". Nothing stops it when the lock connection is lost in the middle. The next
  owner may then migrate at the same time. `MigrationHistory` holds all the same, because
  each version is one transaction with its record, and a second one violates the primary key.
* The best-effort task log (`taskruntime/task_log.go:51`) runs under a 50 ms context on the lock connection.
  `004-task-runtime-detailed-design.md:1574` says that a log is dropped when the connection is busy or
  the limit is reached; but a context that ends inside a statement makes pgx close the connection,
  and the whole runtime is Lost and stops. The context of an HTTP request that is cancelled inside a transaction does
  the same. In the model both are `OperationBreaks`.
* The Planner tells causes of cancellation by an interface (`PlannerCancellationCause`,
  `planner/service.go:502`) that the registry's causes do not implement, and the registry's contexts carry no
  deadline. No code outside the tests constructs `planner.Service`, the resolver or the runners; whoever
  does must adapt both, or every cancellation is reported as a shutdown and
  `REPAIR_BUDGET_INSUFFICIENT` never applies. The model takes a context with an adapted cause.
* `Registry.CancelAll` has no caller outside the tests.
* `Close` after a loss of the lock does not wait for the monitor goroutine. It touches nothing any more.

## 4. What is proved

Every theorem holds for every value of the constants that meets the named assumptions, which TLC
evaluates in the runs. Each proof module proves an inductive invariant with one step per action;
TLC found each strengthening to hold on an instance before it was proved. Every invariant, every
action property and both refinements that the passing runs check are theorems; liveness is not (4.8).

### 4.1 `TaskRuntimeProofs`

| Theorem | States |
|---|---|
| `TypeCorrect` | `Spec => []TypeOK` |
| `CrossObjectConsistency` | `Spec => []CrossObjectConsistent` |
| `WriteToolOnce` | `Spec => []WriteToolRunsOnce` |
| `TerminalRowsAreFinal` | `Spec => TerminalIsFinal` |

**Assumptions.** `PlansAssumption` (a plan is a non-empty sequence of step kinds; there is a
configuration), `TimeoutAssumption`, `TasksAssumption` (task identifiers are positive numbers; the
absent row is not a row), `BoundsAssumption`.

**Argument.** `CrossObjectConsistent` is not inductive. What FINALIZE writes is right only if the last
step is completed, which only the checkpoint says, and only if the action the worker froze is still
the one in the row. The inductive invariant `IInv` therefore adds:

* `RowInv`: a queued row has no tool execution; an interrupted row has none for a write step; only ended or
  interrupted tasks have an error;
* `ProcessInv`: the clock and the worker id of a live process are not NULL; a process that is
  not up has an idle worker;
* `WorkerInv`: a busy worker names an existing task; between freezing and committing, if the row
  still runs, its latest checkpoint is the frozen one; at `finalize` the frozen action is
  FINALIZE_RUN.

The proof has three layers: one lemma per transaction (`…Good`: a good row becomes a good row), the
frame lemmas (`WriteRow`, `WorkerUndisturbed`, `LoopEnds`, `LoopGoesOn`), and one step per action.
`TerminalKept` adds that whoever writes a row found it open. The lemma `RowKinds` (the status of the
execution tells the kind of the row) carries most of the reasoning.

The assumptions of 4.1 are those of 4.2 to 4.5 as well; these modules add none.

### 4.2 `TaskStepProofs`: what a step may make of a row

| Theorem | States |
|---|---|
| `LifecycleFollowed` | `Spec => FollowsLifecycle` |
| `OwnerMakesProgress` | `Spec => ProgressOnlyByOwner` |
| `DeadlineOnlyFails` | `Spec => AfterDeadlineOnlyFails` |
| `VersionsReplaceInterrupted` | `Spec => VersionReplacesInterrupted` |

**Argument.** `RowStep` lists the transactions, each with what it found under its row locks, and
`RowSteps` shows that every action writes every row by one of them or not at all. `Effects` sorts them:
a row *moves* (claimed, resumed, requeued, interrupted, advanced by its owner) or it *fails*, and
lemmas named `…Fields` say which fields each move leaves as they were. An action property is then one
lemma per kind of move. What the transactions check themselves is not enough for the owner's: that a
result is committed to a step that was started, and for the kind of step that was dispatched, is
known only to the loop. `WorkerFacts` is that knowledge (up to the commit the kind is the one frozen,
after the start the step is started, a tool result has a begun tool, the end of a run is no action
with a result). It is inductive together with `IInv` (`FactsHold`), because every other transaction
on the row takes it from `RUNNING`.

### 4.3 `TaskWorkerProofs`: the worker and the rows it owns

| Theorem | States |
|---|---|
| `OwnConfiguration` | `Spec => []RunsOwnConfiguration` |
| `OrphansAreExpired` | `Spec => []OrphanIsExpired` |
| `CallsLearnOfCommands` | `Spec => []CallLearnsOfCommand` |
| `OnlyConfirmFails` | `Spec => []SelfChecksFailOnlyOnConfirm` |

**Argument.** `WInv` joins what cannot be separated. `OwnerInv`: worker ids of rows come from instances
that were started, and from earlier ones only as long as the cleanup has not run; so a row whose
owner is this instance was claimed by it, under its configuration. `RegistryInv`: the registry holds
the handle of the action under way and no other. `DeadKeys`: only the keys of ended tasks are
cancelled. `ClaimInv`: a row the process owns is at the version the loop claimed, and it stays owned from
the start of an action to its call unless it ends. From these: a row is left running without a worker only
when the loop let go of it, which it does after the deadline (`LetGo`), and while an activation or a call
is under way a terminated row has its cancel in `pending` or in the handle (`CancelsReach`). `Prepare`
never meets a second entry and the row never has a foreign configuration, so all that is left of
`SelfCheckFails` is the confirmation. `LoopFails` clears the registry and leaves the claim as it was, so it keeps
`IInv` (`LoopFailsStep`) and `WInv`; the theorem says nothing about errors of the ports, which stop the process whenever
they come.

### 4.4 `TaskCheckpointProofs`: from reader to reader

| Theorem | States |
|---|---|
| `CheckpointsStayUsable` | `Spec => []CheckpointUsable` |
| `StartupRefusals` | `Spec => []StartupRefusesOnlyBoundary` |
| `RecoveriesWereOffered` | `Spec => []RecoveredWasRecoverable` |
| `TerminalClosesTools` | `Spec => []TerminalClosesTool` |

**Argument.** `CheckpointUsable` is not inductive: that the claim accepts a queued row does not say that
the dispatch after it does. `UsableRow` follows the row: its references match wherever somebody will
read them; a queued row is at its beginning, or holds an approved tool step; a tool call is there only
where the frozen action explains it. There is one lemma per move of 4.2 (`ClaimedUsable`, `ResumedUsable`,
…, `FinalizedUsable`), with `WorkerFacts` for what the owner commits. The other three theorems are
consequences of `IInv` and `UsableRow`.

### 4.5 `DurableJobProofs`: the refinement

`ImplementsJobs` states `Spec => ImplementsDurableJobs`: under the mapping `JobOf` every behaviour of the
task runtime is one of `DurableJob`, for any number of tasks, plans, steps, versions and restarts. A
job ends once, completes only with all its steps done, is taken up again only from its queue, and
is never handed out again once its write call was begun.

**Argument.** One lemma per move of 4.2 shows it to be a step of the job or a stutter (`ClaimedStep`,
`RequeuedStep`, `ParkedStep`, `ResultStep`, …); failures are `FailsEnd`. The hard ones are those that
hand a job out again: that an approved row carries no begun write call (`ResumedStep`, from
`GoodRow`), that an interrupted one has none (`InterruptedStep`, `RequeuedStep`), and that a result counts
one step more and not two (`ResultStep`, from `UsableRow`).

### 4.6 `RuntimeHostProofs`

| Theorem | States | Strengthened by |
|---|---|---|
| `OneUseAtATime` | `[]OneAtATime` | `GateInv`: the type of `pc` |
| `SealedMeansSealed` | `NothingBegunAfterSeal` | `GateInv` |
| `LockedWrites` | `WritesUnderLock` | `LockInv`: a live session owns the lock |
| `MigratesOnce` | `[]MigrationHistory` | `HistoryInv`: the versions below the next one are applied |
| `PoolClosesLast`, `ForcedReadsOnly` | `[]ReadsEndBeforePool`, `[]ForceSparesPool` | `ReadInv`: the types, and that a drain or a closed pool means sealed admission |
| `LeavesNothing` | `[]NothingLeftBehind` | `HostInv`: the host's phase tells what can be open, what Close has passed is closed |
| `TypeCorrect` | `[]TypeOK` | `RuntimeTyped`, `TokenTyped`, `QueueTyped`, `ReadsTyped`, each inductive by itself |
| `QueueOfWaiters` | `[]QueueHoldsWaiters`: the queue of the gate holds exactly who waits for it, each once | `GateInv`, `QueueTyped`, and that there is no monitor before `StartMonitoring` (`MonitorOff`) |

**Assumptions.** `WritersAssumption` (callers are not called like the other takers of the token),
`VersionsAssumption`, `ComponentsAssumption`, `PoolAssumption`. The run has one writer of each kind;
the theorems are what covers several writers, reads and pool connections. What becomes of the queue
when one joins, is served or gives up is `JoinedQueue`, `ServedQueue` and `LeftQueue`, from the library's
facts on sequences. `QueueHoldsWaiters` is stated by no run; it is the safety half of `WaiterServed`
(nobody who waits is forgotten, and nobody is served who no longer waits).

### 4.7 `CommandReceiptsProofs` and `PlanExecutionProofs`

`CommandReceiptsProofs`:

| Theorem | States |
|---|---|
| `ImplementsLedger` | `Spec => OncePerCommand`: the refinement of `CommandLedger` |
| `AccountedFor` | `Spec => []ReceiptsAccountForTasks` |
| `TypeCorrect` | `Spec => []TypeOK` |

**Assumption.** `RequestsAssumption` (finitely many well-formed requests; `None` and `NoTask` are neither
receipt nor task). **Argument.** The inductive invariant adds to the types that the receipt stored under an id is
for a request with that id (`Filed`) and that the receipt a handler still holds is the stored one
(`Carried`). A decision is the only step that is not a stutter of receipts and effects; it is
possible for an id without receipt only, and `Fits` says which changes of the row its code
allows. `Accounts` counts the receipts on top of that; that a version never exceeds the number of
ids, its type bound, follows because each version after the first is one more receipt.

`PlanExecutionProofs`:

| Theorem | States | By |
|---|---|---|
| `ExecutorAgrees` | `[]ValidPlanResolves` | `PlanInv`: a step that runs is `Prepared` |
| `RepairInTime` | `[]RepairReturnsInTime` | `SessionInv`: in a repair more is left of the deadline than of the call |
| `CancelledIsDismissed` | `[]CancelIsNotFailure` | `SessionInv` |
| `TypeCorrect` | `[]TypeOK` | `TimesTyped`, `StepsTyped`, `EndTyped`, on top of both |

**Assumptions.** `TimesAssumption` (naturals; the safety margin is not 0), `DraftsAssumption` and
`OutputValuesAssumption` (drafts are sequences of steps with the four types, inputs and outputs are
`Values`, schemas declare `Types`), `ToolsAssumption`. **Argument.** `Prepared` says that the running step
belongs to a valid draft, that its source is the draft's step before, with an output that is `Good`: exactly the
declared fields, of the declared types, without null. `SafeOutputGood` shows that of every
output the executor stores; `ReferencesFound` derives that every reference finds such a value; and `ToolResolves`
and `FieldResolves` replay the validator's rules on it, tool by type and field by role. `TypeOK` says that a
stored output has exactly the fields its schema declares. Stripping credentials must then not take a
declared field away, which is so because a valid plan declares none with such a name (`StoredTyped`, from
`Prepared`).

### 4.8 Only model-checked

Liveness under fairness (`QueueDrains`, `CancelReachesWorker`, `EveryTaskEnds`, `WaiterServed`,
`HostExits`, `LockLossStopsHost`, `CancelReachesCall`, `PlanEnds`) is out of the prover's reach: it needs
`ENABLED`. So are the disagreements of 3.4, each a behaviour that TLC exhibits.

## 5. What is not modelled

* *Configuration*: parsing and validation of files, without state. The execution hash is a member of `Configs`.
* *Task log*: nothing reads it back; what it can do to the connection is `OperationBreaks` (3.5).
* *HTTP decoding and error mapping, SQL text, JSON canonicalisation, prompts, hashing*: conversions no property is
  about. What they decide (an invalid answer, a damaged context, an equal fingerprint) is a choice
  or a flag.
* *Arrays and sizes in plans*: the validator's rules for them repeat those for objects and bounds; they are part of
  `InvalidAnswer` and `InputTooLarge`.
* *The listener and routes of the HTTP server* and *pgx itself*: library code. What the pool and the driver do
  (a connection whose context ends is closed, a cut pool connection is replaced) is modelled from
  how `adapter/postgres/runtime/` relies on it.
* *DATA_INCONSISTENT and condition-miss reconciliation* of the claim: they need rows another writer
  changed under the row locks. `CrossObjectConsistent` says they do not arise from the runtime itself.
* *`Registry.CancelAll`*: no caller.
* *Report worker*, *Approval Manager*, *Tool Framework*: no implementation in the repository; a terminal
  task has a pending report, approvals and tool begins are modelled from their contracts.

## 6. Plan

The models of the plan exist: the core (`Lifecycle` to `TaskRuntime`, `DurableJob`), the receipts with
their ledger, the database runtime with reads and host, planning and steps. Every safety property the
passing runs check is proved. What is left:

1. The safety half of the other liveness arguments: that what `QueueDrains` and `HostExits` wait for
   stays as it is until it is taken.
2. The composition: that the atomic transactions of `TaskRuntime` follow from `OneAtATime` and
   `WritesUnderLock` is an argument of this text (section 2) and no theorem.

## 7. Reproducing

    tlasany TaskRuntimeProperties.tla
    tlc -config single_task.cfg MCTaskRuntime.tla
    tlc -config two_tasks.cfg MCTaskRuntime.tla
    tlc -config runtime_host.cfg RuntimeHostProperties.tla
    tlc -config command_receipts.cfg MCCommandReceipts.tla
    tlc -config plan_execution.cfg MCPlanExecution.tla
    tlapm TaskRuntimeProofs.tla
    tlapm TaskStepProofs.tla
    tlapm TaskWorkerProofs.tla
    tlapm TaskCheckpointProofs.tla
    tlapm DurableJobProofs.tla
    tlapm RuntimeHostProofs.tla
    tlapm CommandReceiptsProofs.tla
    tlapm PlanExecutionProofs.tla

`PROJECT.json` lists the components, runs, findings, hazards and theorems, maps every definition to
its source lines, and gives, for every checked property, a plausible slip in the code (an operator
whose comment begins with "slip") that breaks it.
