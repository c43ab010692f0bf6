----------------------- MODULE PlanExecutionProperties -----------------------
(***************************************************************************)
(* What a plan that was found valid is worth, and what the planner's and   *)
(* the steps' outcomes say of the context they ran under.                  *)
(***************************************************************************)
EXTENDS PlanExecution

TypeOK ==
  /\ pc \in {"start", "call", "repair", "building", "validated", "resolve", "run", "invoked", "done"}
  /\ phase \in {"INITIAL", "REPAIR"} /\ ctx \in {"live", "cancelled", "expired"}
  /\ left \in (0..MaxDeadline) \cup {NoDeadline} /\ callLeft \in 0..CallTimeout
  /\ answered \in {"none", "live", "cancelled", "expired"}
  /\ plan \in Drafts \cup {<<>>} /\ at \in 0..Len(plan)
  /\ source = <<>> \/ source[1].output \in [DOMAIN source[1].schema -> OutputValues]
  /\ bound = {} \/ bound \subseteq ReferencesIn(Step.input)
  /\ (pc = "done") <=> (result # None)

(* What no static check can know of a reference: it brings a blank text, or *)
(* an object into a tool whose property knows its members.                 *)
BringsUnfit(r) ==
  LET v == source[1].output[r.field] IN
  v = Blank \/ (Step.type = "ToolCall" /\ TypeOf(v) = "Object")
(* a string that is no reference where only an object fits                 *)
StrayText(step) ==
  step.type \in NonToolTypes /\ "data" \in DOMAIN step.input
    /\ TypeOf(step.input["data"]) = "String" /\ step.input["data"].kind # "ref"

(* The executor never contradicts the validator: a step of a valid plan    *)
(* does not fail to resolve but for the values its references bring, and   *)
(* for the strings of StrayText.                                           *)
ValidPlanResolves ==
  (pc = "done" /\ result.cause \in {"InputResolutionFailed", "ReferenceBinding"})
    => \/ StrayText(Step) \/ \E r \in bound : BringsUnfit(r)

(* A step whose input refers to nothing resolves: what the validator       *)
(* accepted of it is all there is.                                         *)
LiteralStepResolves ==
  (pc = "done" /\ at > 0 /\ bound = {}) => result.cause # "InputResolutionFailed"

(* A plan or step that failed was not cancelled before its model returned: *)
(* a cancellation is reported as one, also where it ends the call as well. *)
CancelIsNotFailure ==
  answered = "cancelled" => result.kind \in {"None", "PlannerCanceled", "Stale"}

(* The call of a repair returns before the caller's deadline, in time for  *)
(* an answer that can still be used.                                       *)
RepairReturnsInTime == ~(pc = "call" /\ phase = "REPAIR" /\ ctx = "expired")

(* Planning ends, with one repair at most, and so do the steps.            *)
PlanEnds == <>(pc = "done")
=============================================================================
