---------------------- MODULE CommandReceiptsProperties ----------------------
(***************************************************************************)
(* What receipts promise to callers, to tasks and to calls in flight.      *)
(***************************************************************************)
EXTENDS CommandReceipts

(* Receipts, effects and answers implement CommandLedger: an id is decided  *)
(* once for one request, acts once at most, and every outcome a caller     *)
(* learns, first or repeated, is the recorded one.                         *)
Ledger == INSTANCE CommandLedger WITH decided <- receipts
OncePerCommand == Ledger!Spec

(* Tasks and versions are what the receipts add up to: a task exists by     *)
(* exactly one receipt of CreateTask, and each version after the first by   *)
(* one receipt of RecoverTask, since both are written in one transaction.   *)
Issued(code, t) ==
  {i \in Ids : receipts[i] # None /\ receipts[i].answer.code = code /\ receipts[i].answer.task = t}
ReceiptsAccountForTasks ==
  \A t \in TaskIds :
    /\ Cardinality(Issued("Created", t)) = IF Exists(t) THEN 1 ELSE 0
    /\ Exists(t) => task[t].version = 1 + Cardinality(Issued("Recovered", t))

(* A call whose task was cancelled is cancelled or dies with its process,  *)
(* also when the reply to the commit was lost and the repetition, being a  *)
(* replay, cancels nothing any more.                                       *)
CancelledBy(r, t) == r # None /\ r.request.type = "Cancel" /\ r.answer.task = t
                       /\ r.answer.code \in {"Cancelled", "TaskTimeout"}
CancelReachesCall ==
  \A t \in TaskIds :
    (call[t] = "running" /\ \E i \in Ids : CancelledBy(receipts[i], t)) ~> (call[t] # "running")
=============================================================================
