-------------------------- MODULE TaskWorkerProofs --------------------------
(***************************************************************************)
(* Proofs about the worker and the rows it owns: which configuration they  *)
(* were frozen with, what the active-call registry knows of a call, why    *)
(* the loop never stops the process but on an overtaken confirmation, and  *)
(* why no row is left running without a worker before its deadline.        *)
(***************************************************************************)
EXTENDS TaskStepProofs

(* Worker ids of rows are of instances that were started, and before a     *)
(* cleanup only of earlier ones.                                           *)
OwnerInv ==
  /\ \A t \in Rows : db[t].worker <= inst
  /\ host = "starting" => \A t \in Rows : db[t].worker < inst
  /\ RunsOwnConfiguration

(* The registry holds the one handle of the action under way.              *)
RegistryInv ==
  /\ \A e \in registry : e.key = WorkerKey
  /\ registry # {} <=> w.pc \in {"start", "activate", "call"}

(* Only ended tasks are cancelled.                                         *)
DeadKeys ==
  /\ \A k \in pending : Exists(k.task) /\ Terminal(db[k.task])
  /\ \A e \in registry : e.cancelled => Exists(e.key.task) /\ Terminal(db[e.key.task])

(* What a worker that claimed a row may rely on.                           *)
ClaimInv ==
  /\ w.pc = "idle" => w = Idle
  /\ w.pc # "idle" /\ Owned(Dispatched) => Dispatched.version = w.version
  /\ w.pc \in {"activate", "call"} /\ ~Terminal(Dispatched) =>
       Owned(Dispatched) /\ Dispatched.version = w.version
  /\ w.pc = "confirmTerminal" => Terminal(Dispatched)

Base == IInv /\ WorkerFacts
Bound == OwnerInv /\ RegistryInv /\ DeadKeys /\ ClaimInv
WInv == Base /\ Bound /\ OrphanIsExpired /\ CallLearnsOfCommand

----------------------------------------------------------------------------
(* How a row comes to run *)

(* A running row ran before, for the same owner, or was just claimed.      *)
LEMMA RunningFrom ==
  ASSUME NEW t, NEW r, GoodRow(r), NEW n, Moves(t, r, n) \/ Fails(r, n), n.exec = "RUNNING"
  PROVE  \/ r.exec = "RUNNING" /\ SameTask(r, n) /\ n.worker = r.worker
         \/ Claimed(r, n)
<1>1. r \in Row
  BY DEF GoodRow
<1>2. ~Fails(r, n)
  BY DEF Fails, Ends
<1>3. CASE n = r
  BY <1>3 DEF SameTask
<1>4. CASE n = [r EXCEPT !.ckpt.ok = FALSE]
  BY <1>1, <1>4, DamagedFields
<1>5. ~ClaimInterrupted(r, n)
  BY <1>1, InterruptConfigMismatchFields DEF ClaimInterrupted
<1>6. ~Requeued(r, n)
  BY <1>1, RequeuedFields
<1>7. ~Resumed(r, n)
  BY <1>1, ResumedFields
<1>8. ~Interrupted(r, n)
  BY <1>1, InterruptedFields
<1>9. CASE Advanced(t, r, n)
  BY <1>1, <1>9, AdvancedWorker DEF Advanced, ClaimOwns
<1> QED BY <1>2, <1>3, <1>4, <1>5, <1>6, <1>7, <1>8, <1>9 DEF Moves

(* A row gets the worker id of the process, keeps its own or loses it.     *)
LEMMA WorkerFrom ==
  ASSUME NEW t, NEW r, GoodRow(r), NEW n, Moves(t, r, n) \/ Fails(r, n)
  PROVE  n.worker \in {r.worker, None} \/ (n.worker = inst /\ host = "up")
<1>1. r \in Row
  BY DEF GoodRow
<1>2. CASE Fails(r, n)
  BY <1>2 DEF Fails, Ends
<1>3. CASE n = [r EXCEPT !.ckpt.ok = FALSE]
  BY <1>1, <1>3, DamagedFields
<1>4. CASE Claimed(r, n)
  BY <1>1, <1>4, CommitClaimFields DEF Claimed
<1>5. CASE ClaimInterrupted(r, n)
  BY <1>1, <1>5, InterruptConfigMismatchFields DEF ClaimInterrupted
<1>6. CASE Requeued(r, n)
  BY <1>1, <1>6, RequeuedFields
<1>7. CASE Resumed(r, n)
  BY <1>1, <1>7, ResumedFields
<1>8. CASE Interrupted(r, n)
  BY <1>1, <1>8, InterruptedFields
<1>9. CASE Advanced(t, r, n)
  BY <1>1, <1>9, AdvancedWorker
<1> QED BY <1>2, <1>3, <1>4, <1>5, <1>6, <1>7, <1>8, <1>9 DEF Moves

(* What the process does besides the database: it goes on, comes up after  *)
(* its cleanup, stops with all its memory, or starts under a new id.       *)
LEMMA ProcessMoves ==
  ASSUME IInv, [Next]_vars
  PROVE  \/ UNCHANGED process
         \/ StartupCleanup
         \/ /\ host' = "down" /\ w' = Idle /\ registry' = {} /\ pending' = {}
            /\ UNCHANGED <<db, now, inst, config>>
         \/ \E c \in Configs : Restart(c)
<1>1. CASE Crash \/ StartupFails \/ WorkerStops
  BY <1>1 DEF Crash, StartupFails, WorkerStops, ForgetProcess
<1>2. CASE LoopStep \/ BeginTool \/ CallReturns \/ LoopFails
  BY <1>2 DEF LoopStep, BeginTool, CallReturns, LoopFails, LoadDispatch, PrepareCall, StartAction,
         ActivateCall, RequestApproval, ApplyPlanner, CommitCompletedStep, TerminalizeAction,
         Finalize, ConfirmApproval
<1>3. CASE \E s \in Tasks : Command(s) \/ ExpireTask(s) \/ DamageCheckpoint(s) \/ ClaimNextExecution(s)
  BY <1>3 DEF Command, CreateTask, CancelTask, RecoverTask, Approve, Reject, ExpireTask, Terminate,
         DamageCheckpoint, ClaimNextExecution
<1>4. CASE Tick \/ UNCHANGED vars \/ \E k \in pending : DeliverCancel(k)
  BY <1>4 DEF Tick, DeliverCancel, vars, process
<1> QED BY <1>1, <1>2, <1>3, <1>4 DEF Next

(* The clock does not run backwards.                                       *)
LEMMA ClockGoesOn ==
  ASSUME IInv, [Next]_vars
  PROVE  now \in Nat /\ now' \in Nat /\ now' >= now
<1>1. now \in Nat
  BY DEF IInv, TypeOK
<1>2. CASE Tick
  BY <1>1, <1>2 DEF Tick
<1>3. CASE UNCHANGED now
  BY <1>1, <1>3
<1>4. Tick \/ UNCHANGED now
  <2>1. CASE LoopStep \/ BeginTool \/ CallReturns \/ LoopFails
    BY <2>1 DEF LoopStep, BeginTool, CallReturns, LoopFails, LoadDispatch, PrepareCall, StartAction,
           ActivateCall, RequestApproval, ApplyPlanner, CommitCompletedStep, TerminalizeAction,
           Finalize, ConfirmApproval
  <2>2. CASE \E s \in Tasks : Command(s) \/ ExpireTask(s) \/ DamageCheckpoint(s) \/ ClaimNextExecution(s)
    BY <2>2 DEF Command, CreateTask, CancelTask, RecoverTask, Approve, Reject, ExpireTask, Terminate,
           DamageCheckpoint, ClaimNextExecution
  <2> QED BY <2>1, <2>2 DEF Next, Crash, StartupFails, WorkerStops, StartupCleanup, Restart,
             DeliverCancel, vars
<1> QED BY <1>2, <1>3, <1>4

(* A row starts to run by a claim that goes through, and no other way.     *)
LEMMA RunsOnlyByClaim ==
  ASSUME IInv, WorkerFacts, [Next]_vars, NEW t \in Rows, db'[t].exec = "RUNNING"
  PROVE  \/ db[t].exec = "RUNNING" /\ SameTask(db[t], db'[t]) /\ db'[t].worker = db[t].worker
         \/ ClaimNextExecution(t) /\ Claimed(db[t], db'[t])
<1>1. /\ t \in Tasks /\ TypeOK /\ GoodRow(db[t]) /\ db[t] \in Row
      /\ Moves(t, db[t], db'[t]) \/ Fails(db[t], db'[t])
  BY StepEffects DEF Rows, IInv, GoodRow
<1>2. SUFFICES ASSUME Claimed(db[t], db'[t]) PROVE ClaimNextExecution(t)
  BY <1>1, RunningFrom
<1>3. host = "up" /\ w.pc = "idle" /\ db[t].exec = "QUEUED"
  BY <1>1, <1>2, RowKinds DEF Claimed
<1>4. db'[t] # db[t]
  BY <1>3
<1>5. ~(LoopStep \/ BeginTool \/ CallReturns \/ LoopFails)
  BY <1>3 DEF LoopStep, BeginTool, CallReturns, LoopFails, LoadDispatch, PrepareCall, StartAction,
         ActivateCall, RequestApproval, ApplyPlanner, CommitCompletedStep, TerminalizeAction,
         Finalize, ConfirmApproval, At
<1>6. ~\E s \in Tasks : Command(s) \/ ExpireTask(s)
  BY <1>1, <1>4, CommandRowSteps, CommandStops
<1>7. ~\E s \in Tasks : DamageCheckpoint(s)
  <2>1. SUFFICES ASSUME NEW s \in Tasks, DamageCheckpoint(s) PROVE FALSE
    OBVIOUS
  <2>2. db'[t] = [db[t] EXCEPT !.ckpt.ok = FALSE]
    BY <1>1, <1>4, <2>1, WriteOne DEF DamageCheckpoint
  <2> QED BY <1>1, <1>3, <2>2, DamagedFields
<1>8. ~\E s \in Tasks : ClaimNextExecution(s) /\ s # t
  BY <1>1, <1>4, WriteOne DEF ClaimNextExecution
<1> QED BY <1>3, <1>4, <1>5, <1>6, <1>7, <1>8 DEF Next, Tick, Crash, StartupFails, WorkerStops,
           StartupCleanup, Restart, DeliverCancel, vars

(* Worker ids and configurations under every step.                         *)
LEMMA OwnerNext ==
  ASSUME Base, OwnerInv, [Next]_vars
  PROVE  OwnerInv'
<1> USE DEF Base
<1>1. inst \in Nat /\ (host = "up" => inst # None) /\ IInv'
  BY InvNext DEF IInv, TypeOK, ProcessInv
<1>2. ASSUME NEW t \in Rows
      PROVE  /\ GoodRow(db[t]) /\ db[t].worker \in Nat
             /\ db'[t].worker \in {db[t].worker, None} \/ (db'[t].worker = inst /\ host = "up")
  BY <1>2, StepEffects, WorkerFrom DEF GoodRow, Row
<1>3. ASSUME NEW t \in Rows', t \notin Rows
      PROVE  db'[t].worker = None /\ db'[t].exec = "QUEUED" /\ host = "up"
  BY <1>3, NewRows DEF InitialRow, CreateTask
<1>4. CASE \E c \in Configs : Restart(c)
  <2>1. host' = "starting" /\ inst' = inst + 1 /\ db' = db
    BY <1>4 DEF Restart
  <2>2. Rows' = Rows
    BY <2>1 DEF Rows, Exists
  <2>3. \A t \in Rows : db[t].worker \in Nat /\ db[t].worker <= inst
    BY <1>2 DEF OwnerInv
  <2> QED BY <1>1, <2>1, <2>2, <2>3 DEF OwnerInv, RunsOwnConfiguration, Owned
<1>5. CASE inst' = inst /\ config' = config /\ (host' = "starting" => host = "starting")
  <2>1. ASSUME NEW t \in Rows'
        PROVE  /\ db'[t].worker <= inst
               /\ host' = "starting" => db'[t].worker < inst
    <3>1. CASE t \in Rows
      BY <1>1, <1>2, <1>5, <3>1 DEF OwnerInv, None
    <3>2. CASE t \notin Rows
      BY <1>1, <1>3, <1>5, <3>2 DEF None
    <3> QED BY <3>1, <3>2
  <2>2. ASSUME NEW t \in Rows', db'[t].exec = "RUNNING", db'[t].worker = inst
        PROVE  db'[t].hash = config
    <3>1. t \in Rows
      BY <1>3, <2>2
    <3>2. GoodRow(db[t]) /\ db[t] \in Row
      BY <1>2, <3>1 DEF GoodRow
    <3>3. CASE db[t].exec = "RUNNING" /\ SameTask(db[t], db'[t]) /\ db'[t].worker = db[t].worker
      BY <2>2, <3>1, <3>3 DEF OwnerInv, RunsOwnConfiguration, Owned, SameTask
    <3>4. CASE Claimed(db[t], db'[t])
      BY <3>2, <3>4, CommitClaimFields DEF Claimed, SameTask
    <3> QED BY <2>2, <3>1, <3>3, <3>4, RunsOnlyByClaim
  <2> QED BY <1>5, <2>1, <2>2 DEF OwnerInv, RunsOwnConfiguration, Owned
<1> QED BY <1>4, <1>5, ProcessMoves DEF process, StartupCleanup

----------------------------------------------------------------------------
(* The worker's steps, as what they do to its claim and its handle *)

AtLoop == LoopStep \/ BeginTool \/ CallReturns \/ LoopFails
SameClaim == w'.task = w.task /\ w'.version = w.version
Handling == {"start", "activate", "call"}

(* An owner of a row the database still counts as its own.                 *)
LEMMA LoopContext ==
  ASSUME IInv, AtLoop
  PROVE  /\ host = "up" /\ w.pc # "idle" /\ w \in Worker /\ UNCHANGED <<now, process, pending>>
         /\ w.task \in Tasks /\ w.task \in Rows /\ GoodRow(Dispatched) /\ Dispatched = db[w.task]
<1>1. host = "up" /\ w.pc # "idle" /\ w \in Worker /\ UNCHANGED <<now, process, pending>>
  BY DEF AtLoop, LoopStep, BeginTool, CallReturns, LoopFails, LoadDispatch, PrepareCall, StartAction,
         ActivateCall, RequestApproval, ApplyPlanner, CommitCompletedStep, TerminalizeAction,
         Finalize, ConfirmApproval, At, IInv, TypeOK
<1> QED BY <1>1, Dispatching DEF Rows, Dispatched

(* Going to another point of the loop keeps the claim.                     *)
LEMMA GotoKeeps ==
  ASSUME w \in Worker, NEW pc, Goto(pc)
  PROVE  w'.pc = pc /\ SameClaim
BY DEF Goto, Worker, SameClaim

(* Every step of the loop lets go of the row and of the handle, or goes on *)
(* with the same claim; a handle exists from Prepare until the call ends.  *)
LEMMA LoopHandles ==
  ASSUME IInv, AtLoop
  PROVE  \/ /\ w' = Idle
            /\ registry' = Unregistered \/ (registry' = registry /\ w.pc \notin Handling)
         \/ /\ SameClaim /\ w'.pc \notin Handling \cup {"idle"}
            /\ registry' = Unregistered \/ (registry' = registry /\ w.pc \notin Handling)
         \/ /\ SameClaim /\ w.pc \in Handling /\ w'.pc \in Handling /\ registry' = registry
         \/ /\ SameClaim /\ w.pc = "activate" /\ w'.pc = "call" /\ ~\E e \in Entries : e.cancelled
            /\ registry' = Unregistered \cup {[e EXCEPT !.state = "ACTIVE"] : e \in Entries}
         \/ /\ SameClaim /\ w.pc = "prepare" /\ w'.pc = "start"
            /\ registry' = registry \cup {[key |-> WorkerKey, state |-> "PREPARED", cancelled |-> FALSE]}
<1> USE DEF Handling
<1>0. w \in Worker
  BY LoopContext
<1>1. CASE LoadDispatch
  <2>1. CASE w' = [w EXCEPT !.pc = IF Dispatched.ckpt.action = "FINALIZE_RUN"
                                   THEN "finalize" ELSE "prepare",
                            !.guard = Frozen(Dispatched), !.kind = Kind(Dispatched),
                            !.began = FALSE]
    <3>1. SameClaim /\ w'.pc \in {"finalize", "prepare"}
      BY <1>0, <2>1 DEF Worker, SameClaim
    <3> QED BY <1>1, <3>1 DEF LoadDispatch, At
  <2> QED BY <1>1, <2>1 DEF LoadDispatch, At, StaleDispatch, InvalidDispatch
<1>2. CASE PrepareCall
  BY <1>0, <1>2, GotoKeeps DEF PrepareCall, At
<1>3. CASE StartAction
  BY <1>0, <1>3, GotoKeeps DEF StartAction, At
<1>4. CASE ActivateCall
  <2>1. CASE w' = Idle /\ registry' = Unregistered
    BY <2>1
  <2>2. CASE /\ Goto("call") /\ ~\E e \in Entries : e.cancelled
             /\ registry' = Unregistered \cup {[e EXCEPT !.state = "ACTIVE"] : e \in Entries}
    BY <1>0, <1>4, <2>2, GotoKeeps DEF ActivateCall, At
  <2> QED BY <1>4, <2>1, <2>2 DEF ActivateCall
<1>5. CASE BeginTool
  <2>1. w'.pc = w.pc /\ SameClaim
    BY <1>0, <1>5 DEF BeginTool, Worker, SameClaim
  <2> QED BY <1>5, <2>1 DEF BeginTool, At
<1>6. CASE CallReturns
  <2>1. w' = Idle \/ Goto("commit") \/ Goto("fail")
    BY <1>6 DEF CallReturns
  <2> QED BY <1>0, <1>6, <2>1, GotoKeeps DEF CallReturns
<1>7. CASE RequestApproval
  <2>1. w' = Idle \/ Goto("confirmTerminal") \/ Goto("confirmWaiting") \/ Goto("fail")
    BY <1>7 DEF RequestApproval, StaleDispatch
  <2> QED BY <1>0, <1>7, <2>1, GotoKeeps DEF RequestApproval
<1>8. CASE ApplyPlanner \/ CommitCompletedStep
  <2>1. (w' = Idle \/ Goto("load")) /\ w.pc = "commit" /\ registry' = registry
    BY <1>8 DEF ApplyPlanner, CommitCompletedStep, CommitResult, StaleDispatch, InvalidDispatch, At
  <2> QED BY <1>0, <2>1, GotoKeeps
<1>9. CASE TerminalizeAction \/ Finalize \/ ConfirmApproval
  BY <1>9 DEF TerminalizeAction, Finalize, ConfirmApproval, StaleDispatch, InvalidDispatch, At
<1>10. CASE LoopFails
  BY <1>0, <1>10, GotoKeeps DEF LoopFails
<1> QED BY <1>1, <1>2, <1>3, <1>4, <1>5, <1>6, <1>7, <1>8, <1>9, <1>10 DEF AtLoop, LoopStep

(* The other steps do not touch the worker, but for the claim and a stop.  *)
LEMMA OthersKeepWorker ==
  ASSUME IInv, [Next]_vars, ~AtLoop
  PROVE  \/ w' = w /\ (registry' = registry \/ \E k \in pending : DeliverCancel(k))
         \/ \E s \in Tasks : ClaimNextExecution(s)
         \/ host' = "down" /\ w' = Idle /\ registry' = {} /\ pending' = {} /\ UNCHANGED <<db, now, inst, config>>
<1>1. CASE Crash \/ StartupFails \/ WorkerStops
  BY <1>1 DEF Crash, StartupFails, WorkerStops, ForgetProcess
<1>2. CASE \E s \in Tasks : Command(s) \/ ExpireTask(s) \/ DamageCheckpoint(s)
  BY <1>2 DEF Command, CreateTask, CancelTask, RecoverTask, Approve, Reject, ExpireTask, Terminate,
         DamageCheckpoint
<1>3. CASE \E k \in pending : DeliverCancel(k)
  BY <1>3 DEF DeliverCancel
<1>4. CASE Tick \/ StartupCleanup \/ UNCHANGED vars \/ \E c \in Configs : Restart(c)
  BY <1>4 DEF Tick, StartupCleanup, Restart, vars
<1> QED BY <1>1, <1>2, <1>3, <1>4 DEF Next, AtLoop

(* The worker's only handle under every step.                              *)
LEMMA RegistryNext ==
  ASSUME Base, RegistryInv, [Next]_vars
  PROVE  RegistryInv'
<1> USE DEF Base, Handling
<1>1. CASE AtLoop
  <2>1. inst' = inst
    BY <1>1, LoopContext DEF process
  <2>2. SameClaim => WorkerKey' = WorkerKey
    BY <2>1 DEF SameClaim, WorkerKey
  <2>3. Unregistered = {}
    BY DEF RegistryInv, Unregistered, Entries
  <2>4. Entries = registry
    BY DEF RegistryInv, Entries
  <2>5. CASE w' = Idle /\ (registry' = Unregistered \/ (registry' = registry /\ w.pc \notin Handling))
    BY <2>3, <2>5 DEF RegistryInv, Idle
  <2>6. CASE /\ SameClaim /\ w'.pc \notin Handling \cup {"idle"}
             /\ registry' = Unregistered \/ (registry' = registry /\ w.pc \notin Handling)
    BY <2>3, <2>6 DEF RegistryInv
  <2>7. CASE SameClaim /\ w.pc \in Handling /\ w'.pc \in Handling /\ registry' = registry
    BY <2>2, <2>7 DEF RegistryInv
  <2>8. CASE /\ SameClaim /\ w.pc = "activate" /\ w'.pc = "call"
             /\ registry' = Unregistered \cup {[e EXCEPT !.state = "ACTIVE"] : e \in Entries}
    <3>1. registry' = {[e EXCEPT !.state = "ACTIVE"] : e \in registry} /\ registry # {}
      BY <2>3, <2>4, <2>8 DEF RegistryInv
    <3>2. \A e \in registry : [e EXCEPT !.state = "ACTIVE"].key = e.key
      BY DEF IInv, TypeOK, Entry
    <3>3. ASSUME NEW f \in registry' PROVE f.key = WorkerKey
      <4>1. PICK e \in registry : f = [e EXCEPT !.state = "ACTIVE"]
        BY <3>1
      <4> QED BY <3>2, <4>1 DEF RegistryInv
    <3>4. registry' # {}
      BY <3>1
    <3> QED BY <2>2, <2>8, <3>3, <3>4 DEF RegistryInv
  <2>9. CASE /\ SameClaim /\ w.pc = "prepare" /\ w'.pc = "start"
             /\ registry' = registry \cup {[key |-> WorkerKey, state |-> "PREPARED", cancelled |-> FALSE]}
    <3> DEFINE e == [key |-> WorkerKey, state |-> "PREPARED", cancelled |-> FALSE]
    <3>1. e.key = WorkerKey
      OBVIOUS
    <3>2. registry' = registry \cup {e}
      BY <2>9
    <3> HIDE DEF e
    <3>3. registry' # {} /\ \A f \in registry' : f.key = WorkerKey
      BY <3>1, <3>2 DEF RegistryInv
    <3> QED BY <2>2, <2>9, <3>3 DEF RegistryInv
  <2> QED BY <1>1, <2>5, <2>6, <2>7, <2>8, <2>9, LoopHandles
<1>2. CASE w' = w /\ (registry' = registry \/ \E k \in pending : DeliverCancel(k))
  <2>1. inst' = inst \/ (registry = {} /\ registry' = {})
    <3>1. CASE \E c \in Configs : Restart(c)
      BY <3>1 DEF Restart, IInv, ProcessInv, Idle, RegistryInv
    <3> QED BY <3>1, ProcessMoves DEF process, StartupCleanup
  <2>2. CASE registry' = registry
    BY <1>2, <2>1, <2>2 DEF RegistryInv, WorkerKey
  <2>3. CASE \E k \in pending : DeliverCancel(k)
    <3>1. PICK k \in pending : registry' = {IF e.key = k THEN [e EXCEPT !.cancelled = TRUE] ELSE e
                                             : e \in registry}
      BY <2>3 DEF DeliverCancel
    <3>2. \A e \in registry : [e EXCEPT !.cancelled = TRUE].key = e.key
      BY DEF IInv, TypeOK, Entry
    <3>3. \A f \in registry' : \E e \in registry : f.key = e.key
      BY <3>1, <3>2
    <3>4. registry' = {} <=> registry = {}
      BY <3>1
    <3> QED BY <1>2, <2>1, <3>3, <3>4 DEF RegistryInv, WorkerKey
  <2> QED BY <1>2, <2>2, <2>3
<1>3. CASE \E s \in Tasks : ClaimNextExecution(s)
  <2>1. w.pc = "idle" /\ registry' = registry /\ w'.pc \in {"idle", "load"}
    BY <1>3 DEF ClaimNextExecution, Idle
  <2> QED BY <2>1 DEF RegistryInv
<1>4. CASE w' = Idle /\ registry' = {}
  BY <1>4 DEF RegistryInv, Idle
<1> QED BY <1>1, <1>2, <1>3, <1>4, OthersKeepWorker

----------------------------------------------------------------------------
(* Cancels are of ended tasks *)

(* A task that ended stays ended.                                          *)
LEMMA DeadStay ==
  ASSUME IInv, [Next]_vars, NEW t \in Tasks, Exists(t), Terminal(db[t])
  PROVE  db'[t] = db[t] /\ Exists(t)' /\ Terminal(db'[t])
<1>1. t \in Rows
  BY DEF Rows
<1>2. db'[t] = db[t]
  BY <1>1, TerminalKept
<1> QED BY <1>2 DEF Exists

(* A cancel is owed for a termination that was committed.                  *)
LEMMA PendingFrom ==
  ASSUME IInv, [Next]_vars, NEW k \in pending', k \notin pending
  PROVE  Exists(k.task)' /\ Terminal(db'[k.task]) /\ k.task \in Tasks
<1>1. PICK s \in Tasks :
        Exists(s) /\ \E row \in {Cancelled(db[s], now), ExpiredRow(db[s])} : Terminate(s, row)
  <2>1. CASE \E s \in Tasks : CancelTask(s) \/ ExpireTask(s)
    BY <2>1 DEF CancelTask, ExpireTask
  <2>2. CASE AtLoop
    BY <2>2, LoopContext
  <2> QED BY <2>1, <2>2 DEF Next, AtLoop, Command, CreateTask, RecoverTask, Approve, Reject,
             DamageCheckpoint, ClaimNextExecution, Tick, Crash, StartupFails, WorkerStops,
             StartupCleanup, Restart, DeliverCancel, ForgetProcess, vars
<1>2. PICK row \in {Cancelled(db[s], now), ExpiredRow(db[s])} : Terminate(s, row)
  BY <1>1
<1>3. GoodRow(db[s]) /\ TypeOK
  BY <1>1 DEF IInv, RowsInv
<1>4. EndedRow(row) /\ GoodRow(row)
  BY <1>2, <1>3, TerminationGood DEF Cancelled, ExpiredRow, ErrorCode
<1>5. Terminal(row) /\ row # NoRow
  BY <1>4, RowKinds, TasksAssumption DEF GoodRow
<1>6. db'[s] = row
  BY <1>2, <1>1, <1>3, WriteOne DEF Terminate
<1>7. k.task = s
  BY <1>2 DEF Terminate
<1> QED BY <1>5, <1>6, <1>7 DEF Exists

(* A handle is cancelled once, by a cancel that was owed.                  *)
LEMMA RegistryFrom ==
  ASSUME IInv, [Next]_vars, NEW f \in registry', f.cancelled
  PROVE  \/ \E e \in registry : e.cancelled /\ e.key = f.key
         \/ f.key \in pending
<1>1. CASE AtLoop
  <2>1. Unregistered \subseteq registry /\ Entries \subseteq registry
    BY DEF Unregistered, Entries
  <2>2. CASE f \in {[e EXCEPT !.state = "ACTIVE"] : e \in Entries}
    <3>1. PICK e \in registry : f = [e EXCEPT !.state = "ACTIVE"]
      BY <2>1, <2>2
    <3>2. f.cancelled = e.cancelled /\ f.key = e.key
      BY <3>1 DEF IInv, TypeOK, Entry
    <3> QED BY <3>2
  <2>3. f # [key |-> WorkerKey, state |-> "PREPARED", cancelled |-> FALSE]
    OBVIOUS
  <2>4. f \in registry \/ f \in {[e EXCEPT !.state = "ACTIVE"] : e \in Entries}
    <3> DEFINE prepared == [key |-> WorkerKey, state |-> "PREPARED", cancelled |-> FALSE]
               active == {[e EXCEPT !.state = "ACTIVE"] : e \in Entries}
    <3>1. \/ registry' \subseteq registry \/ registry' = Unregistered \cup active
          \/ registry' = registry \cup {prepared}
      BY <1>1, <2>1, LoopHandles
    <3>2. f # prepared
      BY <2>3
    <3> HIDE DEF prepared, active
    <3>3. f \in registry \/ f \in active
      BY <2>1, <3>1, <3>2
    <3> QED BY <3>3 DEF active
  <2> QED BY <2>2, <2>4
<1>2. CASE \E k \in pending : DeliverCancel(k)
  <2>1. PICK k \in pending : registry' = {IF e.key = k THEN [e EXCEPT !.cancelled = TRUE] ELSE e
                                           : e \in registry}
    BY <1>2 DEF DeliverCancel
  <2>2. PICK e \in registry : f = IF e.key = k THEN [e EXCEPT !.cancelled = TRUE] ELSE e
    BY <2>1
  <2>3. [e EXCEPT !.cancelled = TRUE].key = e.key
    BY DEF IInv, TypeOK, Entry
  <2>4. CASE e.key = k
    <3>1. f.key = k
      BY <2>2, <2>3, <2>4
    <3> QED BY <3>1
  <2>5. CASE e.key # k
    BY <2>2, <2>5
  <2> QED BY <2>4, <2>5
<1>3. CASE registry' \subseteq registry
  BY <1>3
<1>4. CASE \E s \in Tasks : ClaimNextExecution(s)
  BY <1>4 DEF ClaimNextExecution
<1> QED BY <1>1, <1>2, <1>3, <1>4, OthersKeepWorker

(* Cancels and cancelled handles under every step.                         *)
LEMMA DeadKeysNext ==
  ASSUME Base, DeadKeys, [Next]_vars
  PROVE  DeadKeys'
<1> USE DEF Base
<1>1. /\ pending \subseteq Key /\ registry \subseteq Entry
      /\ \A k \in Key : k.task \in Tasks /\ \A e \in Entry : e.key \in Key
  BY DEF IInv, TypeOK, Key, Entry
<1>2. ASSUME NEW k \in pending' PROVE Exists(k.task)' /\ Terminal(db'[k.task])
  <2>1. CASE k \in pending
    BY <1>1, <2>1, DeadStay DEF DeadKeys
  <2> QED BY <2>1, PendingFrom
<1>3. ASSUME NEW f \in registry', f.cancelled
      PROVE  Exists(f.key.task)' /\ Terminal(db'[f.key.task])
  <2>1. CASE f.key \in pending
    BY <1>1, <2>1, DeadStay DEF DeadKeys
  <2>2. CASE \E e \in registry : e.cancelled /\ e.key = f.key
    <3>1. PICK e \in registry : e.cancelled /\ e.key = f.key
      BY <2>2
    <3>2. e.key \in Key
      BY DEF IInv, TypeOK, Entry
    <3>3. f.key.task \in Tasks /\ Exists(f.key.task) /\ Terminal(db[f.key.task])
      BY <3>1, <3>2 DEF DeadKeys, Key
    <3> QED BY <3>3, DeadStay
  <2> QED BY <1>3, <2>1, <2>2, RegistryFrom
<1> QED BY <1>2, <1>3 DEF DeadKeys

----------------------------------------------------------------------------
(* When the worker lets go of a row *)

(* A row this process owns and no longer counts as owned has expired.      *)
LEMMA LostIsExpired ==
  ASSUME IInv, ClaimInv, w.pc # "idle", host = "up", Owned(Dispatched)
  PROVE  /\ ~Owns => Expired(Dispatched, now)
         /\ ClaimOwns(Dispatched, w.version, inst, Dispatched.createdAt)
<1>1. GoodRow(Dispatched) /\ Dispatched \in Row /\ now \in Nat
  BY Dispatching DEF GoodRow, IInv, TypeOK
<1>2. OwnedRow(Dispatched) /\ Dispatched.version = w.version /\ Dispatched.worker = inst
  BY <1>1, RowKinds DEF Owned, ClaimInv
<1>3. Dispatched.createdAt \in Nat /\ TaskTimeout \in Nat \ {0}
  BY <1>1, TimeoutAssumption DEF Row
<1>4. \A at \in Nat : at < Dispatched.createdAt + TaskTimeout =>
        ClaimOwns(Dispatched, w.version, inst, at)
  BY <1>2 DEF ClaimOwns, CheckGuard, OwnedRow
<1> QED BY <1>1, <1>3, <1>4 DEF Owns, Expired

(* While the row runs at these points its frozen action is the worker's.   *)
LEMMA FrozenWhileRunning ==
  ASSUME IInv, w.pc \in {"start", "commit", "fail"}, Dispatched.exec = "RUNNING"
  PROVE  Frozen(Dispatched) = w.guard
BY DEF IInv, WorkerInv

(* The worker lets go of a row that has stopped running, or runs past its  *)
(* deadline: no Stale return leaves a row that is still its own.           *)
LEMMA LetGo ==
  ASSUME Base, Bound, AtLoop, w' = Idle
  PROVE  \/ db'[w.task].exec # "RUNNING"
         \/ db' = db /\ (Owned(Dispatched) => Expired(Dispatched, now))
<1> USE DEF Base, Bound
<1>1. /\ host = "up" /\ w.pc # "idle" /\ w \in Worker /\ GoodRow(Dispatched) /\ TypeOK
      /\ w.task \in Tasks /\ Dispatched = db[w.task] /\ Exists(w.task) /\ Dispatched \in Row
  BY LoopContext DEF IInv, Rows, GoodRow
<1>2. ASSUME NEW row, Write(w.task, row), row.exec # "RUNNING"
      PROVE  db'[w.task].exec # "RUNNING"
  BY <1>1, <1>2, WriteOne
<1>3. /\ CheckpointInvalidTerminalized(Dispatched).exec = "FAILED"
      /\ ActionTerminalized(Dispatched).exec = "FAILED"
      /\ Finalized(Dispatched).exec = "COMPLETED"
  <2>1. CheckpointInvalidTerminalized(Dispatched).exec = "FAILED"
    BY <1>1 DEF CheckpointInvalidTerminalized, StepFailed, Closed, Row
  <2>2. ActionTerminalized(Dispatched).exec = "FAILED"
    BY <1>1 DEF ActionTerminalized, StepFailed, Closed, Row
  <2>3. Finalized(Dispatched).exec = "COMPLETED"
    BY <1>1 DEF Finalized, Row
  <2> QED BY <2>1, <2>2, <2>3
<1>4. CASE db' = db /\ ~Owns
  BY <1>1, <1>4, LostIsExpired
<1>5. CASE InvalidDispatch
  BY <1>2, <1>3, <1>5 DEF InvalidDispatch
<1>6. \A e \in registry : e.cancelled => e.key.task = w.task /\ Terminal(Dispatched)
  BY <1>1 DEF RegistryInv, DeadKeys, WorkerKey
<1>7. Terminal(Dispatched) => Dispatched.exec # "RUNNING"
  BY <1>1, RowKinds DEF EndedRow
<1>8. Idle.pc = "idle"
  BY DEF Idle
<1>9. CASE LoadDispatch
  <2>1. ~(w' = [w EXCEPT !.pc = IF Dispatched.ckpt.action = "FINALIZE_RUN"
                                THEN "finalize" ELSE "prepare",
                         !.guard = Frozen(Dispatched), !.kind = Kind(Dispatched),
                         !.began = FALSE])
    BY <1>1, <1>8 DEF Worker
  <2> QED BY <1>4, <1>5, <1>9, <2>1 DEF LoadDispatch, StaleDispatch
<1>10. ~Goto("start") /\ ~Goto("activate") /\ ~Goto("call") /\ ~Goto("commit") /\ ~Goto("fail")
       /\ ~Goto("load") /\ ~Goto("confirmWaiting") /\ ~Goto("confirmTerminal") /\ ~Goto("broken")
  BY <1>1, <1>8, GotoKeeps
<1>11. CASE StartAction
  <2>1. db' = db /\ ~(Owns /\ Frozen(Dispatched) = w.guard) /\ w.pc = "start"
    BY <1>10, <1>11 DEF StartAction, At
  <2> QED BY <1>4, <2>1, FrozenWhileRunning DEF Owned
<1>12. CASE ActivateCall
  <2>1. db' = db /\ \E e \in registry : e.cancelled
    BY <1>10, <1>12 DEF ActivateCall, Entries
  <2> QED BY <1>6, <1>7, <2>1 DEF Owned
<1>13. CASE CallReturns
  <2>1. db' = db /\ (~Owns \/ \E e \in registry : e.cancelled)
    BY <1>10, <1>13 DEF CallReturns, Entries
  <2> QED BY <1>4, <1>6, <1>7, <2>1 DEF Owned
<1>14. CASE RequestApproval
  BY <1>4, <1>10, <1>14 DEF RequestApproval, StaleDispatch
<1>15. CASE ApplyPlanner \/ CommitCompletedStep
  <2>1. /\ w.pc = "commit"
        /\ \/ StaleDispatch \/ InvalidDispatch
           \/ Frozen(Dispatched) # w.guard /\ db' = db
    BY <1>10, <1>15 DEF ApplyPlanner, CommitCompletedStep, CommitResult, At
  <2> QED BY <1>4, <1>5, <2>1, FrozenWhileRunning DEF StaleDispatch, Owned
<1>16. CASE TerminalizeAction
  <2>1. w.pc = "fail"
    BY <1>16 DEF TerminalizeAction, At
  <2>2. CASE ClaimOwns(Dispatched, w.version, inst, Dispatched.createdAt) /\ Frozen(Dispatched) = w.guard
    <3>1. Write(w.task, ActionTerminalized(Dispatched))
      BY <1>16, <2>2 DEF TerminalizeAction, Write
    <3> QED BY <1>2, <1>3, <3>1
  <2>3. CASE ~(ClaimOwns(Dispatched, w.version, inst, Dispatched.createdAt) /\ Frozen(Dispatched) = w.guard)
    <3>1. db' = db
      BY <1>16, <2>3 DEF TerminalizeAction
    <3>2. ~Owned(Dispatched)
      BY <1>1, <2>1, <2>3, LostIsExpired, FrozenWhileRunning DEF Owned
    <3> QED BY <3>1, <3>2
  <2> QED BY <2>2, <2>3
<1>17. CASE Finalize
  BY <1>2, <1>3, <1>4, <1>5, <1>17 DEF Finalize, StaleDispatch
<1>18. CASE ConfirmApproval
  <2>1. db' = db /\ (Terminal(Dispatched) \/ Dispatched.task = "WaitingApproval")
    BY <1>18 DEF ConfirmApproval, WaitingConfirmed
  <2>2. Dispatched.exec # "RUNNING"
    BY <1>1, <1>7, <2>1, RowKinds DEF WaitingRow
  <2> QED BY <2>1, <2>2 DEF Owned
<1>19. ~PrepareCall
  BY <1>10 DEF PrepareCall
<1>20. ~BeginTool
  <2>1. SUFFICES ASSUME BeginTool PROVE FALSE
    OBVIOUS
  <2>2. w'.pc = w.pc
    BY <1>1, <2>1 DEF BeginTool, Worker
  <2> QED BY <1>1, <1>8, <2>2
<1>21. ~LoopFails
  BY <1>10 DEF LoopFails
<1> QED BY <1>9, <1>11, <1>12, <1>13, <1>14, <1>15, <1>16, <1>17, <1>18, <1>19, <1>20, <1>21
        DEF AtLoop, LoopStep

(* Rows left running without a worker, under every step.                   *)
LEMMA OrphanNext ==
  ASSUME Base, Bound, OrphanIsExpired, [Next]_vars
  PROVE  OrphanIsExpired'
<1> USE DEF Base, Bound
<1>1. SUFFICES ASSUME host' = "up", NEW t \in Rows', db'[t].exec = "RUNNING",
                      db'[t].worker = inst', w'.task # t
               PROVE  Expired(db'[t], now')
  BY DEF OrphanIsExpired, Owned
<1>2. t \in Rows
  BY <1>1, NewRows DEF InitialRow
<1>3. /\ t \in Tasks /\ t # None /\ GoodRow(db[t]) /\ db[t] \in Row
      /\ db[t].worker \in Nat /\ db[t].createdAt \in Nat
  BY <1>2, StepEffects, TasksAssumption DEF GoodRow, Row, Rows, None
<1>4. /\ now \in Nat /\ now' \in Nat /\ now' >= now /\ inst \in Nat /\ TaskTimeout \in Nat
  BY ClockGoesOn, TimeoutAssumption DEF IInv, TypeOK
<1>5. ~StartupCleanup
  <2>1. SUFFICES ASSUME StartupCleanup PROVE FALSE
    OBVIOUS
  <2>2. host = "starting" /\ inst' = inst
    BY <2>1 DEF StartupCleanup
  <2>3. db'[t].worker \in {db[t].worker, None}
    BY <1>2, <2>2, StepEffects, WorkerFrom
  <2>4. db[t].worker < inst
    BY <1>2, <2>2 DEF OwnerInv
  <2>5. inst # None
    BY <2>2 DEF IInv, ProcessInv
  <2> QED BY <1>1, <1>3, <1>4, <2>2, <2>3, <2>4, <2>5
<1>6. UNCHANGED process /\ host = "up" /\ inst' = inst
  BY <1>1, <1>5, ProcessMoves DEF Restart, process
<1>7. CASE db[t].exec = "RUNNING" /\ SameTask(db[t], db'[t]) /\ db'[t].worker = db[t].worker
  <2>1. Owned(db[t]) /\ db'[t].createdAt = db[t].createdAt
    BY <1>1, <1>6, <1>7 DEF Owned, SameTask
  <2>2. Expired(db[t], now)
    <3>1. CASE w.task # t
      BY <1>2, <1>6, <2>1, <3>1 DEF OrphanIsExpired
    <3>2. CASE w.task = t
      <4>1. w.pc # "idle"
        BY <1>3, <3>2 DEF ClaimInv, Idle
      <4>2. AtLoop
        BY <1>1, <3>2, <4>1, OthersKeepWorker DEF ClaimNextExecution
      <4>3. w' = Idle
        BY <1>1, <3>2, <4>2, LoopHandles DEF SameClaim
      <4>4. Dispatched = db[t]
        BY <3>2 DEF Dispatched
      <4> QED BY <1>1, <2>1, <3>2, <4>2, <4>3, <4>4, LetGo
    <3> QED BY <3>1, <3>2
  <2> QED BY <1>3, <1>4, <2>1, <2>2 DEF Expired
<1>8. CASE ClaimNextExecution(t) /\ Claimed(db[t], db'[t])
  <2>1. ClaimOutcome(db[t], now, config) = "Claimed"
    BY <1>8 DEF Claimed, ClaimOutcome
  <2>2. w'.task = t
    BY <1>8, <2>1 DEF ClaimNextExecution, Idle
  <2> QED BY <1>1, <2>2
<1> QED BY <1>1, <1>2, <1>7, <1>8, RunsOnlyByClaim

----------------------------------------------------------------------------
(* What a worker knows of the claim it works under *)

(* What happens to the row of a call under way by others' hands: nothing   *)
(* but damage, an end that the registry is told of, or Recover's timeout.  *)
LEMMA OthersEnd ==
  ASSUME IInv, [Next]_vars, ~AtLoop, w.pc # "idle", w' = w, Dispatched.exec = "RUNNING"
  PROVE  \/ /\ Dispatched'.exec = "RUNNING" /\ SameTask(Dispatched, Dispatched')
            /\ Dispatched'.worker = Dispatched.worker
         \/ /\ Terminal(Dispatched')
            /\ \/ CancelTask(w.task) \/ ExpireTask(w.task)
               \/ Dispatched'.cause = "TaskTimeout"
<1>1. /\ host = "up" /\ w.task \in Tasks /\ Exists(w.task) /\ TypeOK /\ GoodRow(Dispatched)
      /\ Dispatched = db[w.task] /\ Dispatched' = db'[w.task] /\ Dispatched \in Row
  BY Dispatching DEF IInv, ProcessInv, Idle, Dispatched, GoodRow
<1>2. CASE db'[w.task] = db[w.task]
  BY <1>1, <1>2 DEF SameTask
<1>3. ASSUME NEW row, Write(w.task, row)
      PROVE  db'[w.task] = row
  BY <1>1, <1>3, WriteOne
<1>4. ASSUME NEW s \in Tasks, s # w.task, NEW row, Write(s, row)
      PROVE  db'[w.task] = db[w.task]
  BY <1>1, <1>4, WriteOne
<1>5. CASE \E s \in Tasks : DamageCheckpoint(s)
  <2>1. PICK s \in Tasks : DamageCheckpoint(s)
    BY <1>5
  <2>2. CASE s = w.task
    <3>1. db'[w.task] = [db[w.task] EXCEPT !.ckpt.ok = FALSE]
      BY <1>3, <2>1, <2>2 DEF DamageCheckpoint
    <3>2. ASSUME NEW n, n = [Dispatched EXCEPT !.ckpt.ok = FALSE]
          PROVE  n.exec = "RUNNING" /\ SameTask(Dispatched, n) /\ n.worker = Dispatched.worker
      BY <1>1, <3>2, DamagedFields
    <3> QED BY <1>1, <3>1, <3>2
  <2> QED BY <1>2, <1>4, <2>1, <2>2 DEF DamageCheckpoint
<1>6. CASE \E s \in Tasks : CancelTask(s) \/ ExpireTask(s)
  <2>1. PICK s \in Tasks : CancelTask(s) \/ ExpireTask(s)
    BY <1>6
  <2>2. CASE s = w.task
    <3>1. db'[w.task] \in {Cancelled(Dispatched, now), ExpiredRow(Dispatched)}
      BY <1>1, <1>3, <2>1, <2>2 DEF CancelTask, ExpireTask, Terminate
    <3>2. \A row \in {Cancelled(Dispatched, now), ExpiredRow(Dispatched)} : EndedRow(row) /\ GoodRow(row)
      BY <1>1, TerminationGood DEF Cancelled, ExpiredRow, ErrorCode
    <3>3. Terminal(Dispatched')
      BY <1>1, <3>1, <3>2, RowKinds
    <3> QED BY <2>1, <2>2, <3>3
  <2> QED BY <1>2, <1>4, <2>1, <2>2 DEF CancelTask, ExpireTask, Terminate
<1>7. CASE \E s \in Tasks : RecoverTask(s)
  <2>1. PICK s \in Tasks : RecoverTask(s)
    BY <1>7
  <2>2. CASE s = w.task
    <3>1. RecoveryPhase(Dispatched) = "none"
      BY DEF RecoveryPhase
    <3>2. RecoverOutcome(Dispatched, now, config) \notin {"Recovered", "CheckpointInvalid"}
      BY <3>1 DEF RecoverOutcome
    <3>3. Write(w.task, RecoveryFailure(Dispatched, "TaskTimeout"))
      BY <1>1, <2>1, <2>2, <3>2 DEF RecoverTask
    <3>4. Dispatched' = RecoveryFailure(Dispatched, "TaskTimeout")
      BY <1>1, <1>3, <3>3
    <3>5. Dispatched'.task = "Failed" /\ Dispatched'.cause = "TaskTimeout"
      BY <1>1, <3>4 DEF RecoveryFailure, Closed, Row
    <3> QED BY <3>5 DEF Terminal, TerminalTaskStatus
  <2>3. CASE s # w.task
    BY <1>2, <1>4, <2>1, <2>3 DEF RecoverTask
  <2> QED BY <2>2, <2>3
<1>8. CASE \E s \in Tasks : CreateTask(s) \/ Approve(s) \/ Reject(s)
  <2>1. PICK s \in Tasks : CreateTask(s) \/ Approve(s) \/ Reject(s)
    BY <1>8
  <2>2. s # w.task
    BY <1>1, <2>1, RowKinds DEF CreateTask, Approve, Reject, AwaitsDecision, WaitingRow
  <2> QED BY <1>2, <1>4, <2>1, <2>2 DEF CreateTask, Approve, Reject
<1>9. ~StartupCleanup /\ ~\E s \in Tasks : ClaimNextExecution(s)
  BY <1>1 DEF StartupCleanup, ClaimNextExecution
<1> QED BY <1>2, <1>5, <1>6, <1>7, <1>8, <1>9 DEF Next, AtLoop, Command, Tick, Crash, StartupFails,
           WorkerStops, Restart, DeliverCancel, vars

(* A call is reached from its prepared handle, or by the transaction that  *)
(* starts the action on a row this process owns.                           *)
LEMMA IntoCall ==
  ASSUME IInv, AtLoop, w'.pc \in {"activate", "call"}
  PROVE  /\ SameClaim
         /\ \/ db' = db /\ w.pc = "activate" /\ ~\E e \in Entries : e.cancelled
            \/ /\ Owns /\ Dispatched'.exec = "RUNNING" /\ SameTask(Dispatched, Dispatched')
               /\ Dispatched'.worker = Dispatched.worker
<1>1. /\ w \in Worker /\ w.task \in Tasks /\ TypeOK /\ Dispatched = db[w.task] /\ Dispatched \in Row
      /\ Owns => Dispatched.exec = "RUNNING"
  BY LoopContext, Dispatching DEF IInv, GoodRow
<1>2. SameClaim
  BY LoopHandles DEF Idle
<1>3. Dispatched' = db'[w.task]
  BY <1>2 DEF Dispatched, SameClaim
<1>4. ASSUME NEW row, Write(w.task, row)
      PROVE  Dispatched' = row
  BY <1>1, <1>3, <1>4, WriteOne
<1>5. CASE StartAction
  <2>1. Owns /\ Write(w.task, StartStep(Dispatched))
    BY <1>5 DEF StartAction, Idle
  <2>2. ASSUME NEW n, n = StartStep(Dispatched)
        PROVE  n.exec = Dispatched.exec /\ SameTask(Dispatched, n) /\ n.worker = Dispatched.worker
    BY <1>1, <2>2, StartStepFields
  <2> QED BY <1>1, <1>2, <1>4, <2>1, <2>2
<1>6. CASE ActivateCall
  BY <1>2, <1>6 DEF ActivateCall, At, Idle
<1>7. CASE BeginTool
  <2>1. Owns /\ Write(w.task, [Dispatched EXCEPT !.tool = "RUNNING"])
    BY <1>7 DEF BeginTool
  <2>2. ASSUME NEW n, n = [Dispatched EXCEPT !.tool = "RUNNING"]
        PROVE  n.exec = Dispatched.exec /\ SameTask(Dispatched, n) /\ n.worker = Dispatched.worker
    BY <1>1, <2>2, ToolBegunFields
  <2> QED BY <1>1, <1>2, <1>4, <2>1, <2>2
<1>8. ASSUME NEW pc \in WorkerPC \ {"activate", "call"}, Goto(pc) PROVE FALSE
  BY <1>1, <1>8, GotoKeeps
<1>9. ~LoadDispatch
  <2>1. SUFFICES ASSUME LoadDispatch PROVE FALSE
    OBVIOUS
  <2>2. \/ w' = Idle
        \/ w' = [w EXCEPT !.pc = IF Dispatched.ckpt.action = "FINALIZE_RUN"
                                 THEN "finalize" ELSE "prepare",
                          !.guard = Frozen(Dispatched), !.kind = Kind(Dispatched),
                          !.began = FALSE]
    BY <2>1 DEF LoadDispatch, StaleDispatch, InvalidDispatch
  <2>3. CASE w' = [w EXCEPT !.pc = IF Dispatched.ckpt.action = "FINALIZE_RUN"
                                   THEN "finalize" ELSE "prepare",
                            !.guard = Frozen(Dispatched), !.kind = Kind(Dispatched),
                            !.began = FALSE]
    <3>1. w'.pc \in {"finalize", "prepare"}
      BY <1>1, <2>3 DEF Worker
    <3> QED BY <3>1
  <2> QED BY <2>2, <2>3 DEF Idle
<1>10. w' # Idle
  BY DEF Idle
<1>11. ~Goto("start") /\ ~Goto("commit") /\ ~Goto("fail") /\ ~Goto("load") /\ ~Goto("confirmWaiting")
       /\ ~Goto("confirmTerminal") /\ ~Goto("broken")
  BY <1>8 DEF WorkerPC
<1> QED BY <1>5, <1>6, <1>7, <1>9, <1>10, <1>11 DEF AtLoop, LoopStep, PrepareCall, CallReturns,
           LoopFails, RequestApproval, ApplyPlanner, CommitCompletedStep, CommitResult, StaleDispatch,
           InvalidDispatch, TerminalizeAction, Finalize, ConfirmApproval

(* A worker that keeps its row while others step keeps a running process.  *)
LEMMA OthersStay ==
  ASSUME IInv, [Next]_vars, ~AtLoop, w.pc # "idle", w' = w
  PROVE  /\ host = "up" /\ inst' = inst /\ w.task \in Rows /\ GoodRow(Dispatched)
         /\ Dispatched = db[w.task] /\ Dispatched' = db'[w.task]
<1>1. host = "up"
  BY DEF IInv, ProcessInv, Idle
<1>2. w' # Idle
  BY DEF Idle
<1> QED BY <1>1, <1>2, ProcessMoves, Dispatching DEF StartupCleanup, Restart, process, Rows, Dispatched

(* The claim the worker works under, after every step.                     *)
LEMMA ClaimInvNext ==
  ASSUME Base, Bound, [Next]_vars
  PROVE  ClaimInv'
<1> USE DEF Base, Bound
<1>1. w'.pc = "idle" => w' = Idle
  <2>1. CASE AtLoop
    BY <2>1, LoopHandles DEF Handling
  <2>2. CASE \E s \in Tasks : ClaimNextExecution(s)
    BY <2>2 DEF ClaimNextExecution, Idle
  <2> QED BY <2>1, <2>2, OthersKeepWorker DEF ClaimInv
<1>2. CASE \E s \in Tasks : ClaimNextExecution(s)
  <2>1. PICK s \in Tasks : ClaimNextExecution(s)
    BY <1>2
  <2>2. CASE w' = Idle
    BY <2>2 DEF ClaimInv, Idle
  <2>3. CASE w' # Idle
    <3>1. w'.pc = "load" /\ w'.task = s /\ w'.version = db[s].version
      BY <2>1, <2>3 DEF ClaimNextExecution, Idle
    <3>2. s \in Rows /\ Dispatched' = db'[s]
      BY <2>1, <3>1 DEF ClaimNextExecution, IsHead, Queue, Rows, Dispatched
    <3>3. GoodRow(db[s]) /\ db[s] \in Row
      BY <3>2, StepEffects DEF GoodRow
    <3>4. Claimed(db[s], db'[s]) => SameTask(db[s], db'[s])
      BY <3>3, CommitClaimFields DEF Claimed
    <3>5. db'[s].exec = "RUNNING" => SameTask(db[s], db'[s])
      BY <3>2, <3>4, RunsOnlyByClaim
    <3> QED BY <1>1, <3>1, <3>2, <3>5 DEF ClaimInv, Owned, SameTask
  <2> QED BY <2>2, <2>3
<1>3. CASE AtLoop
  <2>1. CASE w' = Idle
    BY <2>1 DEF ClaimInv, Idle
  <2>2. CASE w' # Idle
    <3>1. SameClaim /\ inst' = inst /\ w.task \in Rows /\ Dispatched = db[w.task] /\ w.pc # "idle"
          /\ GoodRow(Dispatched) /\ host = "up"
      BY <1>3, <2>2, LoopHandles, LoopContext DEF process
    <3>2. Dispatched' = db'[w.task]
      BY <3>1 DEF SameClaim, Dispatched
    <3>3. Owned(Dispatched)' => Dispatched'.version = w'.version
      <4>1. SUFFICES ASSUME Dispatched'.exec = "RUNNING", Dispatched'.worker = inst
                     PROVE  Dispatched'.version = w'.version
        BY <3>1 DEF Owned
      <4>2. ~ClaimNextExecution(w.task)
        BY <3>1 DEF ClaimNextExecution
      <4>3. /\ Dispatched.exec = "RUNNING" /\ SameTask(Dispatched, Dispatched')
            /\ Dispatched'.worker = Dispatched.worker
        BY <3>1, <3>2, <4>1, <4>2, RunsOnlyByClaim
      <4> QED BY <3>1, <4>1, <4>3 DEF ClaimInv, Owned, SameTask, SameClaim
    <3>4. w'.pc \in {"activate", "call"} /\ ~Terminal(Dispatched') =>
            Owned(Dispatched)' /\ Dispatched'.version = w'.version
      <4>1. SUFFICES ASSUME w'.pc \in {"activate", "call"}, ~Terminal(Dispatched')
                     PROVE  /\ Dispatched'.exec = "RUNNING" /\ Dispatched'.worker = inst
                            /\ Dispatched'.version = w'.version
        BY <3>1 DEF Owned
      <4>2. CASE db' = db /\ w.pc = "activate"
        <5>1. Dispatched' = Dispatched
          BY <3>1, <3>2, <4>2
        <5> QED BY <3>1, <4>1, <4>2, <5>1 DEF ClaimInv, Owned, SameClaim
      <4>3. CASE /\ Owns /\ Dispatched'.exec = "RUNNING" /\ SameTask(Dispatched, Dispatched')
                 /\ Dispatched'.worker = Dispatched.worker
        <5>1. Dispatched.version = w.version /\ Dispatched.worker = inst
          BY <3>1, <4>3 DEF Owns, ClaimOwns, CheckGuard, IInv, ProcessInv
        <5> QED BY <3>1, <4>3, <5>1 DEF SameTask, SameClaim
      <4> QED BY <1>3, <4>1, <4>2, <4>3, IntoCall
    <3>5. w'.pc = "confirmTerminal" => Terminal(Dispatched')
      <4>1. SUFFICES ASSUME w'.pc = "confirmTerminal" PROVE Terminal(Dispatched')
        OBVIOUS
      <4>2. w \in Worker
        BY <1>3, LoopContext
      <4>3. ASSUME NEW pc, Goto(pc) PROVE pc = "confirmTerminal"
        BY <4>1, <4>2, <4>3, GotoKeeps
      <4>4. ~LoadDispatch /\ ~BeginTool
        <5>1. CASE w' = [w EXCEPT !.pc = IF Dispatched.ckpt.action = "FINALIZE_RUN"
                                         THEN "finalize" ELSE "prepare",
                                  !.guard = Frozen(Dispatched), !.kind = Kind(Dispatched),
                                  !.began = FALSE]
          <6>1. w'.pc \in {"finalize", "prepare"}
            BY <4>2, <5>1 DEF Worker
          <6> QED BY <4>1, <6>1
        <5>2. CASE BeginTool
          BY <4>1, <4>2, <5>2 DEF BeginTool, At, Worker
        <5> QED BY <2>2, <5>1, <5>2 DEF LoadDispatch, StaleDispatch, InvalidDispatch
      <4>5. RequestApproval
        <5>1. ~Goto("start") /\ ~Goto("activate") /\ ~Goto("call") /\ ~Goto("commit") /\ ~Goto("fail")
              /\ ~Goto("load") /\ ~Goto("broken")
          BY <4>3
        <5> QED BY <1>3, <2>2, <4>4, <5>1 DEF AtLoop, LoopStep, PrepareCall, StartAction, ActivateCall,
               CallReturns, LoopFails, ApplyPlanner, CommitCompletedStep, CommitResult,
               StaleDispatch, InvalidDispatch, TerminalizeAction, Finalize, ConfirmApproval
      <4>6. ~Goto("confirmWaiting") /\ ~Goto("fail")
        BY <4>3
      <4>7. Write(w.task, CheckpointInvalidTerminalized(Dispatched))
        BY <2>2, <4>5, <4>6 DEF RequestApproval, StaleDispatch
      <4>8. Dispatched' = CheckpointInvalidTerminalized(Dispatched)
        BY <3>1, <3>2, <4>7, WriteOne DEF IInv, Rows
      <4>9. Dispatched \in Row
        BY <3>1 DEF GoodRow
      <4>10. CheckpointInvalidTerminalized(Dispatched).task = "Failed"
        BY <4>9 DEF CheckpointInvalidTerminalized, StepFailed, Closed, Row
      <4> QED BY <4>8, <4>10 DEF Terminal, TerminalTaskStatus
    <3> QED BY <1>1, <3>3, <3>4, <3>5 DEF ClaimInv
  <2> QED BY <2>1, <2>2
<1>4. CASE ~AtLoop /\ w' = w
  <2>1. CASE w.pc = "idle"
    BY <1>1, <1>4, <2>1 DEF ClaimInv
  <2>2. CASE w.pc # "idle"
    <3>1. /\ host = "up" /\ inst' = inst /\ w.task \in Rows /\ GoodRow(Dispatched)
          /\ Dispatched = db[w.task] /\ Dispatched' = db'[w.task]
      BY <1>4, <2>2, OthersStay
    <3>2. Owned(Dispatched)' => Dispatched'.version = w'.version
      <4>1. SUFFICES ASSUME Dispatched'.exec = "RUNNING", Dispatched'.worker = inst
                     PROVE  Dispatched'.version = w'.version
        BY <3>1 DEF Owned
      <4>2. ~ClaimNextExecution(w.task)
        BY <2>2 DEF ClaimNextExecution
      <4>3. /\ Dispatched.exec = "RUNNING" /\ SameTask(Dispatched, Dispatched')
            /\ Dispatched'.worker = Dispatched.worker
        BY <3>1, <4>1, <4>2, RunsOnlyByClaim
      <4> QED BY <1>4, <2>2, <4>1, <4>3 DEF ClaimInv, Owned, SameTask
    <3>3. Terminal(Dispatched) => Terminal(Dispatched')
      BY <3>1, TerminalKept
    <3>4. w'.pc \in {"activate", "call"} /\ ~Terminal(Dispatched') =>
            Owned(Dispatched)' /\ Dispatched'.version = w'.version
      <4>1. SUFFICES ASSUME w.pc \in {"activate", "call"}, ~Terminal(Dispatched')
                     PROVE  /\ Dispatched'.exec = "RUNNING" /\ Dispatched'.worker = inst
                            /\ Dispatched'.version = w.version
        BY <1>4, <3>1 DEF Owned
      <4>2. Dispatched.exec = "RUNNING" /\ Dispatched.worker = inst /\ Dispatched.version = w.version
        BY <3>3, <4>1 DEF ClaimInv, Owned
      <4> QED BY <1>4, <2>2, <4>1, <4>2, OthersEnd DEF SameTask
    <3> QED BY <1>1, <1>4, <3>2, <3>3, <3>4 DEF ClaimInv
  <2> QED BY <2>1, <2>2
<1>5. CASE w' = Idle
  BY <1>5 DEF ClaimInv, Idle
<1> QED BY <1>2, <1>3, <1>4, <1>5, OthersKeepWorker

(* A cancel that is owed stays owed until it is delivered.                 *)
LEMMA PendingStays ==
  ASSUME IInv, [Next]_vars, w' # Idle, NEW k \in pending
  PROVE  k \in pending' \/ DeliverCancel(k)
<1>1. CASE AtLoop
  BY <1>1, LoopContext
<1>2. CASE \E s \in Tasks : Command(s) \/ ExpireTask(s) \/ DamageCheckpoint(s) \/ ClaimNextExecution(s)
  BY <1>2 DEF Command, CreateTask, CancelTask, RecoverTask, Approve, Reject, ExpireTask, Terminate,
         DamageCheckpoint, ClaimNextExecution
<1>3. CASE \E j \in pending : DeliverCancel(j)
  BY <1>3 DEF DeliverCancel
<1> QED BY <1>1, <1>2, <1>3 DEF Next, AtLoop, Tick, Crash, StartupCleanup, StartupFails, WorkerStops,
           Restart, ForgetProcess, vars

(* A delivered cancel reaches the handle of its key, and no step takes a   *)
(* cancel back from a handle that stays.                                   *)
LEMMA CancelsReach ==
  ASSUME IInv, RegistryInv, [Next]_vars, ~AtLoop, w' = w, w.pc \in Handling,
         (\E e \in Entries : e.cancelled) \/ DeliverCancel(WorkerKey)
  PROVE  \E e \in registry' : e.key = WorkerKey /\ e.cancelled
<1>1. w # Idle /\ w.pc # "idle"
  BY DEF Handling, Idle
<1>2. registry # {} /\ \A e \in registry : e.key = WorkerKey
  BY DEF RegistryInv, Handling
<1>3. CASE \E k \in pending : DeliverCancel(k)
  <2>1. PICK k \in pending : DeliverCancel(k) /\ ((\E e \in Entries : e.cancelled) \/ k = WorkerKey)
    <3>1. CASE DeliverCancel(WorkerKey)
      BY <3>1 DEF DeliverCancel
    <3> QED BY <1>3, <3>1
  <2>2. registry' = {IF e.key = k THEN [e EXCEPT !.cancelled = TRUE] ELSE e : e \in registry}
    BY <2>1 DEF DeliverCancel
  <2>3. PICK e \in registry : e.cancelled \/ k = WorkerKey
    BY <1>2, <2>1 DEF Entries
  <2>4. e.key = WorkerKey
    BY <1>2, <2>3
  <2>5. [e EXCEPT !.cancelled = TRUE].key = e.key /\ [e EXCEPT !.cancelled = TRUE].cancelled
    BY <2>3 DEF IInv, TypeOK, Entry
  <2>6. CASE e.key = k
    <3>1. [e EXCEPT !.cancelled = TRUE] \in registry'
      BY <2>2, <2>3, <2>6
    <3> QED BY <2>4, <2>5, <3>1
  <2>7. CASE e.key # k
    <3>1. e \in registry' /\ e.cancelled
      BY <2>2, <2>3, <2>4, <2>7
    <3> QED BY <2>4, <3>1
  <2> QED BY <2>6, <2>7
<1>4. CASE ~\E k \in pending : DeliverCancel(k)
  <2>1. registry' = registry
    BY <1>1, <1>4, OthersKeepWorker DEF ClaimNextExecution
  <2>2. ~DeliverCancel(WorkerKey)
    BY <1>4 DEF DeliverCancel
  <2> QED BY <2>1, <2>2 DEF Entries
<1> QED BY <1>3, <1>4

(* Calls and the terminations under them, after every step.                *)
LEMMA CallLearnsNext ==
  ASSUME Base, Bound, CallLearnsOfCommand, [Next]_vars
  PROVE  CallLearnsOfCommand'
<1> USE DEF Base, Bound
<1>1. SUFFICES ASSUME w'.pc \in {"activate", "call"}, Terminal(Dispatched'),
                      Dispatched'.cause # "TaskTimeout"
               PROVE  \/ \E e \in registry' : e.key = WorkerKey' /\ e.cancelled
                      \/ WorkerKey' \in pending'
  BY DEF CallLearnsOfCommand, Entries
<1>2. w' # Idle
  BY <1>1 DEF Idle
<1>3. CASE AtLoop
  <2>1. SameClaim /\ inst' = inst /\ pending' = pending /\ w.task \in Rows /\ Dispatched = db[w.task]
    BY <1>1, <1>3, IntoCall, LoopContext DEF process
  <2>2. WorkerKey' = WorkerKey /\ Dispatched' = db'[w.task]
    BY <2>1 DEF SameClaim, WorkerKey, Dispatched
  <2>3. Dispatched'.exec # "RUNNING"
    BY <1>1, <2>1, <2>2, StepEffects, RowKinds DEF EndedRow
  <2>4. db' = db /\ w.pc = "activate" /\ ~\E e \in Entries : e.cancelled
    BY <1>1, <1>3, <2>3, IntoCall
  <2>5. Dispatched' = Dispatched
    BY <2>1, <2>2, <2>4
  <2>6. WorkerKey \in pending
    BY <1>1, <2>4, <2>5 DEF CallLearnsOfCommand
  <2> QED BY <2>1, <2>2, <2>6
<1>4. CASE \E s \in Tasks : ClaimNextExecution(s)
  BY <1>1, <1>4 DEF ClaimNextExecution, Idle
<1>5. CASE ~AtLoop /\ w' = w
  <2>1. w.pc \in Handling /\ w.pc \in {"activate", "call"} /\ w.pc # "idle"
    BY <1>1, <1>5 DEF Handling
  <2>2. /\ host = "up" /\ inst' = inst /\ w.task \in Rows /\ GoodRow(Dispatched)
        /\ Dispatched = db[w.task] /\ Dispatched' = db'[w.task]
    BY <1>5, <2>1, OthersStay
  <2>3. WorkerKey' = WorkerKey
    BY <1>5, <2>2 DEF WorkerKey
  <2>4. CASE Terminal(Dispatched)
    <3>1. Dispatched' = Dispatched
      BY <2>2, <2>4, TerminalKept
    <3>2. (\E e \in Entries : e.cancelled) \/ WorkerKey \in pending
      BY <1>1, <2>1, <2>4, <3>1 DEF CallLearnsOfCommand
    <3> QED BY <1>2, <1>5, <2>1, <2>3, <3>2, PendingStays, CancelsReach
  <2>5. CASE ~Terminal(Dispatched)
    <3>1. Dispatched.exec = "RUNNING" /\ Dispatched.worker = inst /\ Dispatched.version = w.version
      BY <2>1, <2>5 DEF ClaimInv, Owned
    <3>2. Dispatched'.exec # "RUNNING"
      BY <1>1, <2>2, StepEffects, RowKinds DEF EndedRow
    <3>3. CancelTask(w.task) \/ ExpireTask(w.task)
      BY <1>1, <1>5, <2>1, <3>1, <3>2, OthersEnd
    <3>4. inst # None
      BY <2>2 DEF IInv, ProcessInv
    <3>5. WorkerKey \in pending'
      BY <2>2, <3>1, <3>3, <3>4 DEF CancelTask, ExpireTask, Terminate, WorkerKey
    <3> QED BY <2>3, <3>5
  <2> QED BY <2>4, <2>5
<1>6. CASE w' = Idle
  BY <1>2, <1>6
<1> QED BY <1>3, <1>4, <1>5, <1>6, OthersKeepWorker

----------------------------------------------------------------------------
(* The worker's promises *)

(* Everything about owners, handles, cancels and claims holds at the start *)
(* and after every step.                                                   *)
LEMMA WorkerInvariance == Spec => []WInv
<1>1. Init => Bound /\ OrphanIsExpired /\ CallLearnsOfCommand
  BY DEF Init, Bound, OwnerInv, RunsOwnConfiguration, RegistryInv, DeadKeys, ClaimInv,
         OrphanIsExpired, CallLearnsOfCommand, Rows, Exists, Idle
<1>2. Init => Base
  BY InvInit DEF Base, Init, Idle, WorkerFacts, Acting, Knowing
<1>3. WInv /\ [Next]_vars => WInv'
  <2> SUFFICES ASSUME WInv, [Next]_vars PROVE WInv'
    OBVIOUS
  <2>1. Base'
    BY InvNext, FactsNext DEF WInv, Base
  <2>2. OwnerInv' /\ RegistryInv' /\ DeadKeys' /\ ClaimInv'
    BY OwnerNext, RegistryNext, DeadKeysNext, ClaimInvNext DEF WInv, Bound
  <2>3. OrphanIsExpired' /\ CallLearnsOfCommand'
    BY OrphanNext, CallLearnsNext DEF WInv
  <2> QED BY <2>1, <2>2, <2>3 DEF WInv, Bound
<1> QED BY <1>1, <1>2, <1>3, PTL DEF Spec, WInv

(* The process runs only executions that were frozen with the              *)
(* configuration it was started with, across claims, approvals, recoveries *)
(* and restarts (claim.go, currentHash).                                   *)
THEOREM OwnConfiguration == Spec => []RunsOwnConfiguration
<1>1. WInv => RunsOwnConfiguration
  BY DEF WInv, Bound, OwnerInv
<1> QED BY WorkerInvariance, <1>1, PTL

(* Every Stale return of ExecuteClaimedExecution leaves a row that has     *)
(* stopped running or is past its deadline: no execution of this process   *)
(* is stuck without a worker (execute.go).                                 *)
THEOREM OrphansAreExpired == Spec => []OrphanIsExpired
<1>1. WInv => OrphanIsExpired
  BY DEF WInv
<1> QED BY WorkerInvariance, <1>1, PTL

(* However a cancel or an expiry falls between Prepare, the start          *)
(* transaction, Activate and the call, the call's handle is cancelled or   *)
(* the cancel is still owed (cancel.go, activecall/registry.go).           *)
THEOREM CallsLearnOfCommands == Spec => []CallLearnsOfCommand
<1>1. WInv => CallLearnsOfCommand
  BY DEF WInv
<1> QED BY WorkerInvariance, <1>1, PTL

(* Of the checks ExecuteClaimedExecution makes of its own bookkeeping only *)
(* the confirmation of an approval request can fail: a configuration       *)
(* mismatch, a duplicate or missing handle and an open task after a        *)
(* reported termination do not occur, whatever errors its ports and        *)
(* transactions report meanwhile (execute.go).                             *)
THEOREM OnlyConfirmFails == Spec => []SelfChecksFailOnlyOnConfirm
<1>1. WInv => SelfChecksFailOnlyOnConfirm
  <2> SUFFICES ASSUME WInv, SelfCheckFails PROVE w.pc = "confirmWaiting"
    BY DEF SelfChecksFailOnlyOnConfirm
  <2> USE DEF WInv, Base, Bound
  <2>1. ~(At("load") /\ Owns /\ DispatchValid /\ Dispatched.hash # config)
    <3>1. SUFFICES ASSUME At("load"), Owns PROVE Dispatched.hash = config
      OBVIOUS
    <3>2. w.task \in Rows /\ Dispatched = db[w.task] /\ inst # None
      BY <3>1, Dispatching DEF At, Rows, Dispatched, IInv, ProcessInv
    <3>3. Owned(Dispatched)
      BY <3>1, <3>2 DEF Owns, ClaimOwns, CheckGuard, Owned
    <3> QED BY <3>2, <3>3 DEF OwnerInv, RunsOwnConfiguration
  <2>2. ~(At("prepare") /\ Entries # {})
    BY DEF RegistryInv, Entries, At
  <2>3. ~(At("activate") /\ Entries = {})
    BY DEF RegistryInv, Entries, At
  <2>4. ~(At("confirmTerminal") /\ ~Terminal(Dispatched))
    BY DEF ClaimInv, At
  <2> QED BY <2>1, <2>2, <2>3, <2>4 DEF SelfCheckFails, At
<1> QED BY WorkerInvariance, <1>1, PTL
=============================================================================
