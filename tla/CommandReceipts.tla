--------------------------- MODULE CommandReceipts ---------------------------
(***************************************************************************)
(* The three API commands and their receipts: several callers, each with a *)
(* request it may repeat, one serial write executor, commits whose reply   *)
(* is lost, and processes that stop and start again between any two steps. *)
(* The life of a task is reduced to what the commands ask of it; what the  *)
(* configuration makes of a creation, and configuration and checkpoint of  *)
(* a recovery, may be anything.                                            *)
(***************************************************************************)
EXTENDS Naturals, FiniteSets

CONSTANTS Clients, TaskIds,
          Requests,   \* records with the fields id, type, target and print
          NoTask, None

VARIABLES
  task,      \* status and execution version of each task
  call,      \* the active call of each task in this process
  expired,   \* tasks whose deadline has passed
  receipts,  \* the command_receipt table
  client,    \* what each caller is in the middle of
  up,        \* whether a process runs
  connected, \* whether it has its lock connection
  acted,     \* history: how often a command id changed a task
  told       \* history: the outcome a caller has learnt last

vars == <<task, call, expired, receipts, client, up, connected, acted, told>>

Ids == {r.id : r \in Requests}
Type == {"Create", "Cancel", "Recover"}
Code == {"Created", "AgentUnavailable", "InvalidArgument",
         "Cancelled", "TaskAlreadyTerminal", "TaskTimeout",
         "Recovered", "RecoverStateConflict", "CheckpointInvalid", "CONFIG_VERSION_MISMATCH"}
Answers == [code : Code, task : TaskIds \cup {NoTask}, version : Nat]
Receipt == [request : Requests, answer : Answers]
Idle == [pc |-> "idle"]

ASSUME RequestsAssumption ==
  /\ IsFiniteSet(Requests)
  /\ \A r \in Requests :
       r.type \in Type /\ r = [id |-> r.id, type |-> r.type, target |-> r.target, print |-> r.print]
  /\ None \notin Receipt /\ NoTask \notin TaskIds

Status == {"absent", "waiting", "running", "interrupted", "ended"}
TypeOK ==
  /\ task \in [TaskIds -> [status : Status, version : 0..Cardinality(Ids)]]
  /\ call \in [TaskIds -> {"none", "running", "cancelled"}]
  /\ expired \subseteq TaskIds
  /\ receipts \in [Ids -> Receipt \cup {None}]
  /\ client \in [Clients -> {Idle} \cup [pc : {"tx"}, request : Requests]
                            \cup [pc : {"after"}, receipt : Receipt, cancels : BOOLEAN]]
  /\ up \in BOOLEAN /\ connected \in BOOLEAN
  /\ acted \in [Ids -> Nat] /\ told \in Receipt \cup {None}

Init ==
  /\ task = [t \in TaskIds |-> [status |-> "absent", version |-> 0]]
  /\ call = [t \in TaskIds |-> "none"] /\ expired = {}
  /\ receipts = [i \in Ids |-> None]
  /\ client = [c \in Clients |-> Idle]
  /\ up = TRUE /\ connected = TRUE
  /\ acted = [i \in Ids |-> 0] /\ told = None

Writable == up /\ connected

----------------------------------------------------------------------------
(* A command *)

(* a first request or a repetition, with the id its caller chose *)
Send(c, r) ==
  /\ Writable /\ client[c] = Idle
  /\ client' = [client EXCEPT ![c] = [pc |-> "tx", request |-> r]]
  /\ UNCHANGED <<task, call, expired, receipts, up, connected, acted, told>>

InTx(c, type) == Writable /\ client[c].pc = "tx" /\ client[c].request.type = type

(* The transaction ends without effect: its caller gave up, the connection *)
(* failed, the task does not exist, or a later phase is not provided for.  *)
TransactionFails(c) ==
  /\ client[c].pc = "tx"
  /\ client' = [client EXCEPT ![c] = Idle]
  /\ connected' \in {connected, FALSE}
  /\ UNCHANGED <<task, call, expired, receipts, up, acted, told>>

(* slip: a commit that failed is taken for one that had no effect *)
CommitUnknownUnseen(c) ==
  client' = [client EXCEPT ![c] = Idle] /\ UNCHANGED connected

(* The COMMIT took effect, its reply did not come: the caller gets an      *)
(* error, the runtime observes its connection closed and is Lost.          *)
CommitUnknown(c) ==
  client' = [client EXCEPT ![c] = Idle] /\ connected' = FALSE

Commit(c, receipt, cancels) ==
  \/ /\ client' = [client EXCEPT ![c] =
                     [pc |-> "after", receipt |-> receipt, cancels |-> cancels]]
     /\ UNCHANGED connected
  \/ CommitUnknown(c)

(* slip: a command that succeeded keeps no receipt *)
InsertReceiptRejected(receipt) ==
  receipts' = [receipts EXCEPT ![receipt.request.id] =
    IF receipt.answer.code \in {"Created", "Cancelled", "Recovered"} THEN None ELSE receipt]

InsertReceipt(receipt) ==
  receipts' = [receipts EXCEPT ![receipt.request.id] = receipt]

(* The decision for an id without receipt: what it does to the task and    *)
(* the receipt are one transaction.                                        *)
Decide(c, code, t, becomes) ==
  LET r == client[c].request
      after == IF t = NoTask THEN [status |-> "absent", version |-> 0] ELSE becomes
      changes == t # NoTask /\ becomes # task[t]
      receipt == [request |-> r, answer |-> [code |-> code, task |-> t, version |-> after.version]]
  IN
  /\ receipts[r.id] = None
  /\ task' = IF changes THEN [task EXCEPT ![t] = becomes] ELSE task
  /\ InsertReceipt(receipt)
  /\ acted' = [acted EXCEPT ![r.id] = @ + IF changes THEN 1 ELSE 0]
  /\ Commit(c, receipt, r.type = "Cancel" /\ changes)
  /\ UNCHANGED <<call, expired, up, told>>

Reject(c, code, t) == Decide(c, code, t, IF t = NoTask THEN None ELSE task[t])

CreateTask(c) ==
  /\ InTx(c, "Create")
  /\ \/ \E code \in {"AgentUnavailable", "InvalidArgument"} : Reject(c, code, NoTask)
     \/ \E t \in TaskIds : task[t].status = "absent"
             /\ Decide(c, "Created", t, [status |-> "waiting", version |-> 1])

Exists(t) == t \in TaskIds /\ task[t].status # "absent"
Open(t) == Exists(t) /\ task[t].status # "ended"
End(t) == [task[t] EXCEPT !.status = "ended"]

CancelTask(c) ==
  LET t == client[c].request.target IN
  /\ InTx(c, "Cancel") /\ Exists(t)
  /\ \/ ~Open(t) /\ Reject(c, "TaskAlreadyTerminal", t)
     \/ Open(t) /\ t \in expired /\ Decide(c, "TaskTimeout", t, End(t))
     \/ Open(t) /\ t \notin expired /\ Decide(c, "Cancelled", t, End(t))

RecoverTask(c) ==
  LET t == client[c].request.target IN
  /\ InTx(c, "Recover") /\ Exists(t)
  /\ \/ ~Open(t) /\ Reject(c, "RecoverStateConflict", t)
     \/ Open(t) /\ t \in expired /\ Decide(c, "TaskTimeout", t, End(t))
     \/ /\ Open(t) /\ t \notin expired
        /\ \/ task[t].status # "interrupted" /\ Reject(c, "RecoverStateConflict", t)
           \/ /\ task[t].status = "interrupted"
              /\ \/ Decide(c, "CheckpointInvalid", t, End(t))
                 \/ Reject(c, "CONFIG_VERSION_MISMATCH", t)
                 \/ Decide(c, "Recovered", t,
                      [status |-> "waiting", version |-> task[t].version + 1])

(* slip: only the fingerprint is compared; those of Cancel and Recover are *)
(* made of the same fields                                                 *)
SameRequestPrint(receipt, r) == receipt.request.print = r.print

SameRequest(receipt, r) ==
  /\ receipt.request.type = r.type /\ receipt.request.target = r.target
  /\ receipt.request.print = r.print

Replay(c) ==
  LET r == client[c].request
      receipt == receipts[r.id]
  IN
  /\ Writable /\ client[c].pc = "tx" /\ receipt # None
  /\ IF SameRequest(receipt, r)
     THEN Commit(c, [request |-> r, answer |-> receipt.answer], FALSE)
     ELSE client' = [client EXCEPT ![c] = Idle] /\ UNCHANGED connected   \* CommandConflict
  /\ UNCHANGED <<task, call, expired, receipts, up, acted, told>>

CancelCall(t) == IF call[t] = "running" THEN [call EXCEPT ![t] = "cancelled"] ELSE call

(* The registry cancel follows the confirmed commit of a cancel that       *)
(* changed the task, and no replay; then the caller gets its answer.       *)
Answer(c) ==
  /\ up /\ client[c].pc = "after"
  /\ call' = IF client[c].cancels THEN CancelCall(client[c].receipt.answer.task) ELSE call
  /\ told' = client[c].receipt
  /\ client' = [client EXCEPT ![c] = Idle]
  /\ UNCHANGED <<task, expired, receipts, up, connected, acted>>

----------------------------------------------------------------------------
(* What else happens to tasks and processes *)

SetStatus(t, s) == task' = [task EXCEPT ![t].status = s]

(* slip: every attempt is a version of its own *)
ClaimNewVersion(t) ==
  /\ Writable /\ task[t].status = "waiting"
  /\ task' = [task EXCEPT ![t] = [status |-> "running", version |-> @.version + 1]]
  /\ call' = [call EXCEPT ![t] = "running"]
  /\ UNCHANGED <<expired, receipts, client, up, connected, acted, told>>

Claim(t) ==
  /\ Writable /\ task[t].status = "waiting"
  /\ SetStatus(t, "running") /\ call' = [call EXCEPT ![t] = "running"]
  /\ UNCHANGED <<expired, receipts, client, up, connected, acted, told>>

CallReturns(t) ==
  /\ up /\ call[t] # "none" /\ call' = [call EXCEPT ![t] = "none"]
  /\ \/ ~(connected /\ task[t].status = "running") /\ UNCHANGED task
     \/ connected /\ task[t].status = "running" /\ \E s \in {"waiting", "ended"} : SetStatus(t, s)
  /\ UNCHANGED <<expired, receipts, client, up, connected, acted, told>>

DeadlinePasses(t) ==
  /\ Open(t) /\ t \notin expired /\ expired' = expired \cup {t}
  /\ UNCHANGED <<task, call, receipts, client, up, connected, acted, told>>

ExpireTask(t) ==
  /\ Writable /\ Open(t) /\ t \in expired
  /\ SetStatus(t, "ended") /\ call' = CancelCall(t)
  /\ UNCHANGED <<expired, receipts, client, up, connected, acted, told>>

(* A host that lost its connection stops; a crash may come at any time.    *)
ProcessEnds ==
  /\ up /\ up' = FALSE /\ connected' = FALSE
  /\ client' = [c \in Clients |-> Idle]
  /\ call' = [t \in TaskIds |-> "none"]
  /\ UNCHANGED <<task, expired, receipts, acted, told>>

(* with another configuration, perhaps, and after StartupCleanup *)
Restart ==
  /\ ~up /\ up' = TRUE /\ connected' = TRUE
  /\ task' = [t \in TaskIds |->
       IF task[t].status # "running" THEN task[t]
       ELSE [task[t] EXCEPT !.status = IF t \in expired THEN "ended" ELSE "interrupted"]]
  /\ UNCHANGED <<call, expired, receipts, client, acted, told>>

Next ==
  \/ \E c \in Clients :
       \/ \E r \in Requests : Send(c, r)
       \/ TransactionFails(c) \/ Replay(c) \/ Answer(c)
       \/ CreateTask(c) \/ CancelTask(c) \/ RecoverTask(c)
  \/ \E t \in TaskIds : Claim(t) \/ CallReturns(t) \/ DeadlinePasses(t) \/ ExpireTask(t)
  \/ ProcessEnds \/ Restart

Spec == Init /\ [][Next]_vars

(* What follows a confirmed commit in the same handler, and the stop of a  *)
(* host whose connection is lost (LockLossStopsHost of the host).          *)
LiveSpec ==
  /\ Spec
  /\ \A c \in Clients : WF_vars(Answer(c))
  /\ WF_vars(~connected /\ ProcessEnds)
=============================================================================
