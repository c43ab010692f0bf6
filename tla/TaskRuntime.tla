----------------------------- MODULE TaskRuntime -----------------------------
(***************************************************************************)
(* The task runtime of one process: the durable rows, the single worker    *)
(* loop (ClaimNextExecution, ExecuteClaimedExecution), the active-call     *)
(* registry, the API commands, the timeout scanner, the Approval Manager   *)
(* and StartupCleanup, across process crashes and restarts.                *)
(*                                                                         *)
(* A database transaction is one atomic action.  Between two transactions  *)
(* the worker is at one of the points named by w.pc, and everything else   *)
(* may happen there: commands, expiry, decisions, a crash.                 *)
(***************************************************************************)
EXTENDS Transactions, FiniteSets

CONSTANTS Tasks,          \* task identifiers: numbers, the last FIFO tie-break
          NoRow,          \* the row of a task that was not created
          MaxNow,         \* bound: the last reading of the database clock
          MaxInst,        \* bound: process instances, each its own worker id
          MaxVersion,     \* bound: execution versions
          DamageAllowed   \* whether stored checkpoints may be corrupted

ASSUME TasksAssumption == Tasks \subseteq Nat \ {0} /\ NoRow \notin Row
ASSUME BoundsAssumption ==
  /\ MaxNow \in Nat \ {0} /\ MaxInst \in Nat \ {0} /\ MaxVersion \in Nat \ {0}
  /\ DamageAllowed \in BOOLEAN

VARIABLES db,        \* the PostgreSQL rows
          now,       \* the database clock
          host,      \* the process: "down", "starting" or "up"
          inst,      \* its worker id: a new one for every start
          config,    \* the configuration hash it was started with
          w,         \* the worker loop
          registry,  \* the active-call registry
          pending    \* registry cancels of committed terminations not yet made

vars == <<db, now, host, inst, config, w, registry, pending>>
process == <<host, inst, config>>

NoGuard == [seq |-> 0, action |-> "none", step |-> None]
Idle == [pc |-> "idle", task |-> None, version |-> None, guard |-> NoGuard,
         kind |-> "none", began |-> FALSE]

WorkerPC == {"idle", "load", "prepare", "start", "activate", "call", "commit",
             "fail", "finalize", "confirmWaiting", "confirmTerminal", "broken"}
Worker == [pc : WorkerPC, task : Tasks \cup {None}, version : Nat,
           guard : [seq : Nat, action : NextAction \cup {"none"}, step : Nat],
           kind : StepKind \cup {"none"}, began : BOOLEAN]
Key == [task : Tasks, version : Nat, worker : Nat]
Entry == [key : Key, state : {"PREPARED", "ACTIVE"}, cancelled : BOOLEAN]

TypeOK ==
  /\ db \in [Tasks -> Row \cup {NoRow}]
  /\ now \in Nat
  /\ host \in {"down", "starting", "up"}
  /\ inst \in Nat
  /\ config \in Configs
  /\ w \in Worker
  /\ registry \subseteq Entry
  /\ pending \subseteq Key

Exists(t) == db[t] # NoRow
WorkerKey == [task |-> w.task, version |-> w.version, worker |-> inst]
Write(t, row) == db' = [db EXCEPT ![t] = row]

Init ==
  /\ db = [t \in Tasks |-> NoRow]
  /\ now = 1
  /\ host = "down" /\ inst = 0 /\ config \in Configs
  /\ w = Idle /\ registry = {} /\ pending = {}

----------------------------------------------------------------------------
(* The environment: the clock, corruption of stored contexts, the process  *)

Tick ==
  /\ now < MaxNow
  /\ now' = now + 1
  /\ UNCHANGED <<db, process, w, registry, pending>>

DamageCheckpoint(t) ==
  /\ DamageAllowed
  /\ Exists(t) /\ ~Terminal(db[t]) /\ db[t].ckpt.ok
  /\ Write(t, [db[t] EXCEPT !.ckpt.ok = FALSE])
  /\ UNCHANGED <<now, process, w, registry, pending>>

(* what a process loses when it stops *)
ForgetProcess == w' = Idle /\ registry' = {} /\ pending' = {}

Crash ==
  /\ host # "down"
  /\ host' = "down"
  /\ ForgetProcess
  /\ UNCHANGED <<db, now, inst, config>>

(* A restart takes a new worker id and may load another configuration.     *)
Restart(c) ==
  /\ host = "down" /\ inst < MaxInst
  /\ host' = "starting" /\ inst' = inst + 1 /\ config' = c
  /\ UNCHANGED <<db, now, w, registry, pending>>

(* the executions an earlier instance left running *)
Legacy == {t \in Tasks : Exists(t) /\ db[t].exec = "RUNNING" /\ db[t].worker # inst}

StartupCleanup ==
  /\ host = "starting"
  /\ \A t \in Legacy : StartupAccepts(db[t], config)
  /\ db' = [t \in Tasks |-> IF t \in Legacy THEN StartupCleaned(db[t], now) ELSE db[t]]
  /\ host' = "up"
  /\ UNCHANGED <<now, inst, config, w, registry, pending>>

(* One refused row rolls the whole cleanup back and stops the process.     *)
StartupFails ==
  /\ host = "starting"
  /\ \E t \in Legacy : ~StartupAccepts(db[t], config)
  /\ host' = "down"
  /\ ForgetProcess
  /\ UNCHANGED <<db, now, inst, config>>

----------------------------------------------------------------------------
(* Commands of the HTTP API and the timeout scanner *)

CreateTask(t) ==
  /\ host = "up" /\ ~Exists(t)
  /\ Write(t, InitialRow(now, config))
  /\ UNCHANGED <<now, process, w, registry, pending>>

(* The termination commits first; the registry is cancelled afterwards.    *)
Terminate(t, row) ==
  /\ Write(t, row)
  /\ pending' = IF db[t].worker = None THEN pending
                ELSE pending \cup {[task |-> t, version |-> db[t].version,
                                    worker |-> db[t].worker]}
  /\ UNCHANGED <<now, process, w, registry>>

CancelTask(t) ==
  /\ host = "up" /\ Exists(t) /\ ~Terminal(db[t])
  /\ Terminate(t, Cancelled(db[t], now))

(* slip: only executions that may still run are expired *)
ExpireTaskUnlessInterrupted(t) ==
  /\ host = "up" /\ Exists(t) /\ ~Terminal(db[t]) /\ Expired(db[t], now)
  /\ db[t].exec # "INTERRUPTED"
  /\ Terminate(t, ExpiredRow(db[t]))

ExpireTask(t) ==
  /\ host = "up" /\ Exists(t) /\ ~Terminal(db[t]) /\ Expired(db[t], now)
  /\ Terminate(t, ExpiredRow(db[t]))

(* slip: a handle that was not activated yet misses the cancel *)
DeliverCancelActive(k) ==
  /\ k \in pending
  /\ pending' = pending \ {k}
  /\ registry' = {IF e.key = k /\ e.state = "ACTIVE" THEN [e EXCEPT !.cancelled = TRUE] ELSE e
                    : e \in registry}
  /\ UNCHANGED <<db, now, process, w>>

(* Registry.Cancel: a hit cancels the entry's context, a miss does nothing *)
DeliverCancel(k) ==
  /\ k \in pending
  /\ pending' = pending \ {k}
  /\ registry' = {IF e.key = k THEN [e EXCEPT !.cancelled = TRUE] ELSE e : e \in registry}
  /\ UNCHANGED <<db, now, process, w>>

RecoverTask(t) ==
  /\ host = "up" /\ Exists(t)
  /\ LET outcome == RecoverOutcome(db[t], now, config)
     IN  \/ outcome = "Recovered" /\ db[t].version < MaxVersion
            /\ Write(t, Recovered(db[t], now, config))
         \/ outcome \in {"TaskTimeout", "CheckpointInvalid"}
            /\ Write(t, RecoveryFailure(db[t], outcome))
  /\ UNCHANGED <<now, process, w, registry, pending>>
----------------------------------------------------------------------------
(* The Approval Manager's decisions *)

(* slip: only the approval itself is looked at *)
AwaitsDecisionApproval(r) == r.approval = "Pending" /\ ~Expired(r, now)

(* The unified guard of both decisions; a damaged WaitingApproval          *)
(* checkpoint fails the task instead.                                      *)
AwaitsDecision(r) ==
  /\ r.task = "WaitingApproval" /\ r.approval = "Pending" /\ ~Expired(r, now)

Approve(t) ==
  /\ host = "up" /\ Exists(t) /\ AwaitsDecision(db[t])
  /\ Write(t, IF db[t].ckpt.ok THEN Approved(db[t], now) ELSE DecisionCheckpointInvalid(db[t]))
  /\ UNCHANGED <<now, process, w, registry, pending>>

Reject(t) ==
  /\ host = "up" /\ Exists(t) /\ AwaitsDecision(db[t])
  /\ Write(t, IF db[t].ckpt.ok THEN Rejected(db[t]) ELSE DecisionCheckpointInvalid(db[t]))
  /\ UNCHANGED <<now, process, w, registry, pending>>

----------------------------------------------------------------------------
(* The worker loop: ClaimNextExecution *)

Queue == {t \in Tasks : Exists(t) /\ db[t].queuedAt # None}

(* LockNextQueueCandidate: ORDER BY queued_at, created_at, task_id LIMIT 1 *)
Before(s, t) ==
  \/ db[s].queuedAt < db[t].queuedAt
  \/ /\ db[s].queuedAt = db[t].queuedAt
     /\ \/ db[s].createdAt < db[t].createdAt
        \/ db[s].createdAt = db[t].createdAt /\ s < t

IsHead(t) == t \in Queue /\ \A s \in Queue : ~Before(s, t)

ClaimNextExecution(t) ==
  /\ host = "up" /\ w.pc = "idle" /\ IsHead(t)
  /\ Write(t, Claim(db[t], now, config, inst))
  /\ w' = IF ClaimOutcome(db[t], now, config) = "Claimed"
          THEN [Idle EXCEPT !.pc = "load", !.task = t, !.version = db[t].version]
          ELSE Idle
  /\ UNCHANGED <<now, process, registry, pending>>

----------------------------------------------------------------------------
(* The worker loop: ExecuteClaimedExecution *)

At(pc) == host = "up" /\ w.pc = pc
Goto(pc) == w' = [w EXCEPT !.pc = pc]
Dispatched == db[w.task]
Owns == ClaimOwns(Dispatched, w.version, inst, now)
DispatchValid == CheckpointValid(Dispatched, "ExecutionDispatch")

(* slip: a lost claim does not end the execution *)
StaleDispatchStays == ~Owns /\ db' = db /\ w' = w

(* The reload at the head of every transaction of the loop: a lost claim   *)
(* makes the result Stale, an unusable checkpoint makes the task Terminal. *)
StaleDispatch == ~Owns /\ db' = db /\ w' = Idle
InvalidDispatch ==
  /\ Owns /\ ~DispatchValid
  /\ Write(w.task, CheckpointInvalidTerminalized(Dispatched))
  /\ w' = Idle

LoadDispatch ==
  /\ At("load")
  /\ \/ StaleDispatch
     \/ InvalidDispatch
     \/ /\ Owns /\ DispatchValid /\ db' = db
        /\ Dispatched.hash = config      \* a configuration mismatch is fatal
        /\ w' = [w EXCEPT !.pc = IF Dispatched.ckpt.action = "FINALIZE_RUN"
                                 THEN "finalize" ELSE "prepare",
                          !.guard = Frozen(Dispatched), !.kind = Kind(Dispatched),
                          !.began = FALSE]
  /\ UNCHANGED <<now, process, registry, pending>>

Entries == {e \in registry : e.key = WorkerKey}
Unregistered == registry \ Entries

(* Registry.Prepare, before the transaction that starts the action         *)
PrepareCall ==
  /\ At("prepare") /\ Entries = {}      \* ErrDuplicate is fatal
  /\ registry' = registry \cup {[key |-> WorkerKey, state |-> "PREPARED", cancelled |-> FALSE]}
  /\ Goto("start")
  /\ UNCHANGED <<db, now, process, pending>>

(* slip: only a pending step is started, not one an approval resumed *)
StartActionPending ==
  /\ At("start")
  /\ IF Owns /\ Frozen(Dispatched) = w.guard /\ Dispatched.step \in {"none", "Pending"}
     THEN Write(w.task, StartStep(Dispatched)) /\ Goto("activate") /\ registry' = registry
     ELSE db' = db /\ w' = Idle /\ registry' = Unregistered
  /\ UNCHANGED <<now, process, pending>>

StartAction ==
  /\ At("start")
  /\ IF Owns /\ Frozen(Dispatched) = w.guard
     THEN Write(w.task, StartStep(Dispatched)) /\ Goto("activate") /\ registry' = registry
     ELSE db' = db /\ w' = Idle /\ registry' = Unregistered
  /\ UNCHANGED <<now, process, pending>>

(* Activate and the look at the handle's context before the call           *)
ActivateCall ==
  /\ At("activate") /\ Entries # {}     \* ErrNotPrepared is fatal
  /\ IF \E e \in Entries : e.cancelled
     THEN w' = Idle /\ registry' = Unregistered
     ELSE /\ Goto("call")
          /\ registry' = Unregistered \cup {[e EXCEPT !.state = "ACTIVE"] : e \in Entries}
  /\ UNCHANGED <<db, now, process, pending>>

(* The Tool Framework makes its ToolExecution durable before it calls out. *)
BeginTool ==
  /\ At("call") /\ ~w.began
  /\ \/ w.guard.action = "EXECUTE_STEP" /\ w.kind = "read"
     \/ w.guard.action = "EXECUTE_APPROVED_TOOL"
  /\ Owns /\ Dispatched.step = "Running" /\ Dispatched.tool = "none"
  /\ Write(w.task, [Dispatched EXCEPT !.tool = "RUNNING"])
  /\ w' = [w EXCEPT !.began = TRUE]
  /\ UNCHANGED <<now, process, registry, pending>>

(* slip: a successful call leaves its handle registered *)
CallReturnsRegistered ==
  /\ At("call") /\ w.guard.action # "REQUEST_APPROVAL"
  /\ Goto("commit")
  /\ UNCHANGED <<db, now, process, registry, pending>>

(* The call returns and its handle is unregistered.  A cancelled context   *)
(* is what turns an error into Stale; a step may also find out itself that *)
(* its claim is gone.  Any other error of the call is LoopFails.           *)
CallReturns ==
  /\ At("call") /\ w.guard.action # "REQUEST_APPROVAL"
  /\ \/ Goto("commit") /\ (w.kind \in {"read", "write"} => w.began)
     \/ Goto("fail")
     \/ /\ w' = Idle
        /\ \/ \E e \in Entries : e.cancelled
           \/ w.guard.action # "GENERATE_PLAN" /\ ~Owns
  /\ registry' = Unregistered
  /\ UNCHANGED <<db, now, process, pending>>

(* RequestApproval is a transaction of the Approval Manager inside the     *)
(* call of a REQUEST_APPROVAL step; the worker confirms it afterwards.     *)
RequestApproval ==
  /\ At("call") /\ w.guard.action = "REQUEST_APPROVAL"
  /\ \/ StaleDispatch
     \/ /\ Owns /\ ~DispatchValid /\ Goto("confirmTerminal")
        /\ Write(w.task, CheckpointInvalidTerminalized(Dispatched))
     \/ /\ Owns /\ DispatchValid /\ Goto("confirmWaiting")
        /\ Write(w.task, ApprovalRequested(Dispatched))
     \/ Goto("fail") /\ db' = db
  /\ registry' = Unregistered
  /\ UNCHANGED <<now, process, pending>>

(* slip: the claim is not checked again before the result is written *)
CommitResultUnowned(row) ==
  \/ Dispatched.exec # "RUNNING" /\ db' = db /\ w' = Idle
  \/ DispatchValid /\ Frozen(Dispatched) = w.guard /\ Write(w.task, row) /\ Goto("load")

(* applyPlanner and commitCompletedStep: the result counts only if the     *)
(* action that produced it is still the frozen one.                        *)
CommitResult(row) ==
  \/ StaleDispatch
  \/ InvalidDispatch
  \/ Owns /\ DispatchValid /\ Frozen(Dispatched) # w.guard /\ db' = db /\ w' = Idle
  \/ Owns /\ DispatchValid /\ Frozen(Dispatched) = w.guard /\ Write(w.task, row) /\ Goto("load")

ApplyPlanner ==
  /\ At("commit") /\ w.guard.action = "GENERATE_PLAN"
  /\ \E plan \in Plans : CommitResult(PlanApplied(Dispatched, plan))
  /\ UNCHANGED <<now, process, registry, pending>>

CommitCompletedStep ==
  /\ At("commit") /\ w.guard.action # "GENERATE_PLAN"
  /\ CommitResult(StepCompleted(Dispatched))
  /\ UNCHANGED <<now, process, registry, pending>>

(* terminalize does not reload: TerminalizeExecution itself checks the     *)
(* owner and the frozen action, and a passed deadline does not stop it.    *)
TerminalizeAction ==
  /\ At("fail")
  /\ LET current == ClaimOwns(Dispatched, w.version, inst, Dispatched.createdAt)
                    /\ Frozen(Dispatched) = w.guard
     IN  db' = IF current THEN [db EXCEPT ![w.task] = ActionTerminalized(Dispatched)] ELSE db
  /\ w' = Idle
  /\ UNCHANGED <<now, process, registry, pending>>

Finalize ==
  /\ At("finalize")
  /\ \/ StaleDispatch
     \/ InvalidDispatch
     \/ /\ Owns /\ DispatchValid /\ w' = Idle
        /\ Write(w.task, Finalized(Dispatched))
  /\ UNCHANGED <<now, process, registry, pending>>

WaitingConfirmed == Dispatched.task = "WaitingApproval" /\ Dispatched.version = w.version

ConfirmApproval ==
  /\ \/ At("confirmWaiting") /\ WaitingConfirmed
     \/ At("confirmTerminal") /\ Terminal(Dispatched)
  /\ w' = Idle
  /\ UNCHANGED <<db, now, process, registry, pending>>

(* Every other error of ExecuteClaimedExecution, which may come up between *)
(* any two of its steps: the Planner or the Step Executor reports one, the *)
(* draft or the outcome is not valid, a transaction fails (or its COMMIT   *)
(* reply is lost: then its action came first).  Its handle is unregistered *)
(* and Worker.Run ends.                                                    *)
LoopFails ==
  /\ host = "up" /\ w.pc \notin {"idle", "broken"}
  /\ Goto("broken") /\ registry' = Unregistered
  /\ UNCHANGED <<db, now, process, pending>>

(* The errors its own checks report: the configuration changed under an    *)
(* execution it claimed, the registry holds its key already or lost it, the *)
(* rows do not confirm what the Step Executor said it had written.         *)
SelfCheckFails ==
  \/ At("load") /\ Owns /\ DispatchValid /\ Dispatched.hash # config
  \/ At("prepare") /\ Entries # {}
  \/ At("activate") /\ Entries = {}
  \/ At("confirmWaiting") /\ ~WaitingConfirmed
  \/ At("confirmTerminal") /\ ~Terminal(Dispatched)

(* what ends Worker.Run, and with it the process                           *)
Fatal == At("broken") \/ SelfCheckFails

WorkerStops ==
  /\ Fatal
  /\ host' = "down"
  /\ ForgetProcess
  /\ UNCHANGED <<db, now, inst, config>>

----------------------------------------------------------------------------

LoopStep ==
  \/ LoadDispatch \/ PrepareCall \/ StartAction \/ ActivateCall
  \/ RequestApproval \/ ApplyPlanner \/ CommitCompletedStep
  \/ TerminalizeAction \/ Finalize \/ ConfirmApproval

Command(t) ==
  \/ CreateTask(t) \/ CancelTask(t) \/ RecoverTask(t) \/ Approve(t) \/ Reject(t)

Next ==
  \/ Tick \/ Crash \/ StartupCleanup \/ StartupFails \/ WorkerStops
  \/ \E c \in Configs : Restart(c)
  \/ LoopStep \/ BeginTool \/ CallReturns \/ LoopFails
  \/ \E k \in pending : DeliverCancel(k)
  \/ \E t \in Tasks :
        Command(t) \/ ExpireTask(t) \/ ClaimNextExecution(t) \/ DamageCheckpoint(t)

Spec == Init /\ [][Next]_vars

(***************************************************************************)
(* Fairness: while the process is up its loop goes on between calls, an    *)
(* error stops it, the queue is polled, and the scanner retries      *)
(* expired tasks; a committed termination reaches the registry, and a call *)
(* returns once its context is cancelled.  Nothing else is owed: the clock *)
(* may stop, a call may hang, a tool may never begin, no command need      *)
(* come, and a stopped process need not be restarted.                      *)
(***************************************************************************)
CancelledCallReturns == (\E e \in Entries : e.cancelled) /\ CallReturns

Fairness ==
  /\ WF_vars(StartupCleanup)
  /\ WF_vars(LoopStep \/ WorkerStops)
  /\ WF_vars(\E t \in Tasks : ClaimNextExecution(t))
  /\ WF_vars(CancelledCallReturns)
  /\ \A t \in Tasks : WF_vars(ExpireTask(t))
  /\ WF_vars(\E k \in pending : DeliverCancel(k))

LiveSpec == Spec /\ Fairness
=============================================================================
