---------------------------- MODULE PlannerSession ----------------------------
(***************************************************************************)
(* GeneratePlan: one INITIAL model call, at most one REPAIR, both under    *)
(* the caller's context, which may be cancelled at any moment or end at a  *)
(* deadline.  Time is what is left of the deadline and of the call.        *)
(***************************************************************************)
EXTENDS StepExecution

CONSTANTS
  Drafts,            \* plans the model may answer with
  CallTimeout,       \* of one model call
  RepairMinBudget,   \* a repair call gets at least more than this
  SafetyMargin,      \* and leaves this much of the deadline unused
  MaxDeadline,       \* bound: what the caller's context may have left
  NoDeadline

ASSUME TimesAssumption ==
  /\ {CallTimeout, RepairMinBudget, MaxDeadline} \subseteq Nat /\ SafetyMargin \in Nat \ {0}
  /\ NoDeadline \notin Nat
ASSUME DraftsAssumption ==
  \A draft \in Drafts : DOMAIN draft = 1..Len(draft) /\ \A i \in DOMAIN draft :
    /\ draft[i].type \in NonToolTypes \cup {"ToolCall"}
    /\ \A n \in DOMAIN draft[i].input : draft[i].input[n] \in Values
    /\ \A f \in DOMAIN draft[i].schema : draft[i].schema[f] \in Types

VARIABLES
  pc,        \* where the caller of planner and steps is
  phase,     \* of the planner's call
  ctx,       \* the caller's context
  left,      \* what is left of its deadline
  callLeft,  \* what is left of the call's own timeout
  answered,  \* history: the state of ctx when the model last returned
  plan,      \* the draft that was found valid
  result     \* how planner or step ended

session == <<pc, phase, ctx, left, callLeft, answered, plan, result>>

None == [kind |-> "None", cause |-> ""]
Outcome(kind, cause) == [kind |-> kind, cause |-> cause]

SessionInit ==
  /\ pc = "start" /\ phase = "INITIAL" /\ ctx = "live"
  /\ left \in (1..MaxDeadline) \cup {NoDeadline}
  /\ callLeft = 0 /\ answered = "none" /\ plan = <<>> /\ result = None

End(outcome) == pc' = "done" /\ result' = outcome
Canceled ==
  End(Outcome("PlannerCanceled", IF ctx = "expired" THEN "ACTION_TIMEOUT" ELSE "BY_CALLER"))

----------------------------------------------------------------------------
(* The context *)

Cancel ==
  /\ ctx = "live" /\ pc # "done"
  /\ ctx' = "cancelled"
  /\ UNCHANGED <<pc, phase, left, callLeft, answered, plan, result>>

(* A model client returns once the context of its call has ended, before   *)
(* time goes on; building a prompt takes less than the safety margin.      *)
CallOver == ctx # "live" \/ callLeft = 0
Less(n) == IF n \in {0, NoDeadline} THEN n ELSE n - 1
LeftMoreThan(n) == IF left = NoDeadline THEN TRUE ELSE left > n
Tick ==
  /\ pc \in {"start", "call", "validated", "repair", "building"}
  /\ pc = "call" => ~CallOver
  /\ pc = "building" => LeftMoreThan(callLeft + 1)
  /\ (left # NoDeadline /\ left > 0) \/ pc = "call"
  /\ left' = Less(left)
  /\ callLeft' = IF pc = "call" THEN Less(callLeft) ELSE callLeft
  /\ ctx' = IF left' = 0 /\ ctx = "live" THEN "expired" ELSE ctx
  /\ UNCHANGED <<pc, phase, answered, plan, result>>

----------------------------------------------------------------------------
(* The calls *)

StartCall(p, timeout) ==
  /\ pc' = "call" /\ phase' = p /\ callLeft' = timeout
  /\ UNCHANGED <<ctx, left, answered, plan, result>>

(* GeneratePlan up to the INITIAL call: the request, the context, the tool *)
(* catalog and the prompt are checked in this order.                       *)
Begin ==
  /\ pc = "start"
  /\ \/ /\ \/ End(Outcome("RuntimeFatalError", "REQUEST"))
           \/ End(Outcome("PlanGenerationFailed", "TASK_INPUT_TOO_LARGE"))
           \/ IF ctx # "live" THEN Canceled
              ELSE \E c \in {"CATALOG", "PROMPT"} : End(Outcome("RuntimeFatalError", c))
        /\ UNCHANGED <<phase, ctx, left, callLeft, answered, plan>>
     \/ ctx = "live" /\ StartCall("INITIAL", CallTimeout)

(* slip: an exhausted repair is repaired *)
InvalidAnswerRepairs == pc' = "repair" /\ UNCHANGED result

(* an answer that is no valid plan: the INITIAL one is repaired            *)
InvalidAnswer ==
  \/ phase = "INITIAL" /\ pc' = "repair" /\ UNCHANGED result
  \/ phase = "REPAIR" /\ End(Outcome("PlanValidationFailed", "REPAIR_EXHAUSTED"))

(* mapModelError *)
ModelError ==
  \/ \E c \in {"MODEL_CLIENT_REQUEST", "CONTRACT_BROKEN"} : End(Outcome("RuntimeFatalError", c))
  \/ End(Outcome("PlannerCanceled", "MODEL_CLIENT"))
  \/ End(Outcome("PlanGenerationFailed", "MODEL_ERROR"))
  \/ InvalidAnswer   \* InvalidResponse

(* slip: the call's context, which ends with the caller's, is asked first  *)
ReturnCallFirst ==
  /\ pc = "call" /\ answered' = ctx
  /\ \/ /\ \/ CallOver /\ End(Outcome("PlanGenerationFailed", "MODEL_CALL_TIMEOUT"))
           \/ ~CallOver /\ InvalidAnswer
        /\ UNCHANGED plan
     \/ ~CallOver /\ \E d \in Drafts : Valid(d) /\ plan' = d /\ pc' = "validated" /\ UNCHANGED result
  /\ UNCHANGED <<phase, ctx, left, callLeft>>

(* generate after the model returned, and validateCandidate                *)
Return ==
  /\ pc = "call" /\ answered' = ctx
  /\ \/ /\ \/ ctx # "live" /\ Canceled
           \/ ctx = "live" /\ callLeft = 0 /\ End(Outcome("PlanGenerationFailed", "MODEL_CALL_TIMEOUT"))
           \/ ~CallOver /\ (ModelError \/ InvalidAnswer)
           \/ ~CallOver /\ End(Outcome("PlanGenerationFailed", "MODEL_RESPONSE_TOO_LARGE"))
        /\ UNCHANGED plan
     \/ ~CallOver /\ \E d \in Drafts : Valid(d) /\ plan' = d /\ pc' = "validated" /\ UNCHANGED result
  /\ UNCHANGED <<phase, ctx, left, callLeft>>

Least(a, b) == IF a < b THEN a ELSE b

(* slip: the whole rest of the deadline is the call's *)
RepairTimeoutAll == IF left = NoDeadline THEN CallTimeout ELSE Least(CallTimeout, left)

RepairTimeout == IF left = NoDeadline THEN CallTimeout ELSE Least(CallTimeout, left - SafetyMargin)

(* repair: the budget of the call is taken before the prompt is built      *)
Repair ==
  /\ pc = "repair"
  /\ \/ /\ ctx # "live" /\ Canceled
        /\ UNCHANGED callLeft
     \/ /\ ctx = "live" /\ ~LeftMoreThan(RepairMinBudget + SafetyMargin)
        /\ End(Outcome("PlanValidationFailed", "REPAIR_BUDGET_INSUFFICIENT"))
        /\ UNCHANGED callLeft
     \/ /\ ctx = "live" /\ LeftMoreThan(RepairMinBudget + SafetyMargin)
        /\ pc' = "building" /\ callLeft' = RepairTimeout /\ UNCHANGED result
  /\ UNCHANGED <<phase, ctx, left, answered, plan>>

(* The gate admits the one repair and builds its prompt, or fails to.      *)
BuildRepair ==
  /\ pc = "building"
  /\ \/ /\ \/ End(Outcome("PlanValidationFailed", "REPAIR_PROMPT_TOO_LARGE"))
           \/ End(Outcome("RuntimeFatalError", "PROMPT"))
        /\ UNCHANGED <<phase, ctx, left, callLeft, answered, plan>>
     \/ StartCall("REPAIR", callLeft)
=============================================================================
