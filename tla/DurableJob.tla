------------------------------ MODULE DurableJob ------------------------------
(***************************************************************************)
(* What the task runtime promises about each task, whatever the worker,    *)
(* the registry, the commands and the restarts do: a durable job that is   *)
(* queued, held by one worker, parked for a decision or interrupted, until *)
(* it ends once and for good.                                              *)
(*                                                                         *)
(*   epoch    the execution version: only an interrupted job gets a new one *)
(*   size     the number of planned steps, 0 before planning               *)
(*   done     the number of completed steps                                *)
(*   written  whether the write call of the current step was begun: from   *)
(*            then on the job is never handed out again                    *)
(*                                                                         *)
(* Several jobs may step together: a restart interrupts or ends all the    *)
(* jobs an earlier process held, in one transaction.                       *)
(***************************************************************************)
EXTENDS Integers

CONSTANT Jobs
VARIABLE job

Phase == {"absent", "queued", "held", "parked", "interrupted",
          "completed", "failed", "cancelled"}
Ended == {"completed", "failed", "cancelled"}
Job == [phase : Phase, epoch : Nat, size : Nat, done : Nat, written : BOOLEAN]
Absent == [phase |-> "absent", epoch |-> 0, size |-> 0, done |-> 0, written |-> FALSE]

Move(j, k, from, to) == j.phase \in from /\ k = [j EXCEPT !.phase = to]

Submit(j, k) == j = Absent /\ k = [Absent EXCEPT !.phase = "queued", !.epoch = 1]
Take(j, k) == Move(j, k, {"queued"}, "held")
Plan(j, k) ==
  /\ j.phase = "held" /\ j.size = 0
  /\ k.size > 0 /\ k = [j EXCEPT !.size = k.size]
Write(j, k) == j.phase = "held" /\ k = [j EXCEPT !.written = TRUE]
CompleteStep(j, k) ==
  /\ j.phase = "held" /\ j.done < j.size
  /\ k = [j EXCEPT !.done = j.done + 1, !.written = k.written]
  /\ k.written => j.written
Park(j, k) == ~j.written /\ Move(j, k, {"held"}, "parked")
Approve(j, k) == Move(j, k, {"parked"}, "queued")
Interrupt(j, k) == ~j.written /\ Move(j, k, {"queued", "held"}, "interrupted")
Requeue(j, k) ==
  j.phase = "interrupted" /\ k = [j EXCEPT !.phase = "queued", !.epoch = j.epoch + 1]
Complete(j, k) == j.size > 0 /\ j.done = j.size /\ Move(j, k, {"held"}, "completed")
End(j, k) ==
  \/ Move(j, k, {"queued", "held", "parked", "interrupted"}, "failed")
  \/ Move(j, k, {"queued", "held", "parked", "interrupted"}, "cancelled")

Step(j, k) ==
  \/ Submit(j, k) \/ Take(j, k) \/ Plan(j, k) \/ Write(j, k) \/ CompleteStep(j, k)
  \/ Park(j, k) \/ Approve(j, k) \/ Interrupt(j, k) \/ Requeue(j, k)
  \/ Complete(j, k) \/ End(j, k)

Init == job = [t \in Jobs |-> Absent]
Next == \A t \in Jobs : job'[t] = job[t] \/ Step(job[t], job'[t])
Spec == Init /\ [][Next]_job
=============================================================================
