---------------------------- MODULE PlanExecution ----------------------------
(***************************************************************************)
(* A plan from the model's answer to its last step: the planner session,   *)
(* then step by step the resolution of references against the output the   *)
(* step before left, the model or the read tool, and what becomes of its   *)
(* output.  The step executor's parts are driven as its port prescribes.   *)
(***************************************************************************)
EXTENDS PlannerSession

CONSTANTS OutputValues   \* values a model or a tool may return for a field

ASSUME OutputValuesAssumption == OutputValues \subseteq Values

VARIABLES
  at,       \* the step that runs
  source,   \* the completed step before it with its output, if any
  bound     \* the references its checkpoint recorded

vars == <<pc, phase, ctx, left, callLeft, answered, plan, result, at, source, bound>>
steps == <<at, source, bound>>

Init == SessionInit /\ at = 0 /\ source = <<>> /\ bound = {}

(* Each step runs under a call, and so a context, of its own.              *)
Ready(step, from) ==
  /\ pc' = "resolve" /\ ctx' = "live" /\ answered' = "none"
  /\ at' = step /\ source' = from
  /\ bound' = Extract(plan[step], from, TRUE).refs

(* The last look at the context, then the plan is committed.               *)
Finish ==
  /\ pc = "validated"
  /\ \/ ctx # "live" /\ Canceled /\ UNCHANGED <<ctx, left, callLeft, answered, at, source, bound>>
     \/ /\ ctx = "live" /\ Ready(1, <<>>)
        /\ left' = NoDeadline /\ callLeft' = 0 /\ UNCHANGED result
  /\ UNCHANGED <<phase, plan>>

Step == plan[at]
Fails(kind, cause) ==
  /\ End(Outcome(kind, cause))
  /\ UNCHANGED <<phase, ctx, left, callLeft, plan, at, source, bound>>

ContextExpires ==
  /\ pc \in {"resolve", "run", "invoked"} /\ ctx = "live" /\ ctx' = "expired"
  /\ UNCHANGED <<pc, phase, left, callLeft, answered, plan, result, at, source, bound>>

(* InputTooLarge stands for the size and depth of what references brought. *)
ResolveInput ==
  LET resolved == Resolve(Step, source, bound) IN
  /\ pc = "resolve"
  /\ \/ resolved.kind = "ok" /\ pc' = "run"
        /\ UNCHANGED <<phase, ctx, left, callLeft, answered, plan, result, at, source, bound>>
     \/ resolved.kind # "ok" /\ Fails(resolved.kind, resolved.cause) /\ UNCHANGED answered
     \/ resolved.kind = "ok" /\ bound # {} /\ Fails("Failed", "InputTooLarge") /\ UNCHANGED answered

(* The continuation is committed with the output and the next references.  *)
Completes(output) ==
  /\ UNCHANGED <<phase, left, callLeft, plan>>
  /\ IF at = Len(plan)
     THEN End(Outcome("Completed", "")) /\ UNCHANGED <<ctx, answered, at, source, bound>>
     ELSE /\ Ready(at + 1, <<[seq |-> Step.seq, schema |-> Step.schema,
                               status |-> "completed", output |-> output]>>)
          /\ UNCHANGED result

(* an output is refused by its verdict, or for a control character in it   *)
RefusesOutput(raw, verdict) ==
  IF verdict # "ok" THEN Fails("Failed", verdict)
  ELSE MayHoldControl(Project(raw, Step.schema)) /\ Fails("Failed", "ResultSanitizationFailed")

Raw == UNION {[fields -> OutputValues] : fields \in SUBSET Fields}

ModelClientFails ==
  \/ Fails("Stale", "STALE_EXECUTION")
  \/ \E c \in {"ModelTimeout", "ModelCallFailed", "ModelOutputInvalid"} : Fails("Failed", c)
  \/ Fails("RuntimeFatal", "ContractBroken")

(* ModelStepRunner.Execute: the context is asked before and after the call *)
RunModelStep ==
  /\ pc = "run" /\ Step.type \in NonToolTypes
  /\ \/ /\ answered' = ctx
        /\ \/ ctx = "cancelled" /\ Fails("Stale", "BY_CALLER")
           \/ ctx = "expired" /\ Fails("Failed", "ModelTimeout")
           \/ ctx = "live" /\ ModelClientFails
           \/ ctx = "live" /\ \E c \in {"ModelInputTooLarge", "StepOutputTooLarge"} : Fails("Failed", c)
     \/ \E raw \in Raw :
          LET verdict == ProcessModelOutput(raw, Step.schema) IN
          /\ ctx = "live"
          /\ \/ verdict = "ok" /\ Completes(SafeOutput(raw, Step.schema))
             \/ answered' = ctx /\ RefusesOutput(raw, verdict)

(* ReadToolRunner.Execute: the context is asked before the invocation only *)
InvokeReadTool ==
  /\ pc = "run" /\ Step.type = "ToolCall"
  /\ \/ ctx = "cancelled" /\ Fails("Stale", "BY_CALLER") /\ UNCHANGED answered
     \/ ctx = "expired" /\ Fails("Failed", "ToolTimeout") /\ UNCHANGED answered
     \/ /\ ctx = "live" /\ pc' = "invoked"
        /\ UNCHANGED <<phase, ctx, left, callLeft, answered, plan, result, at, source, bound>>

MapReadToolResult ==
  /\ pc = "invoked"
  /\ \/ /\ UNCHANGED answered
        /\ \/ \E c \in {"ToolFailed", "TaskTimeout", "StepOutputInvalid", "StepOutputTooLarge"} :
                Fails("Failed", c)
           \/ Fails("Stale", IF ctx = "cancelled" THEN "BY_CALLER" ELSE "STALE_EXECUTION")
           \/ Fails("RuntimeFatal", "ContractBroken")
     \/ \E raw \in Raw :
          LET verdict == ProcessToolOutput(raw, Step.schema) IN
          \/ verdict = "ok" /\ Completes(SafeOutput(raw, Step.schema))
          \/ RefusesOutput(raw, verdict) /\ UNCHANGED answered

Session ==
  /\ Cancel \/ Tick \/ Begin \/ Return \/ Repair \/ BuildRepair
  /\ UNCHANGED steps

Next ==
  \/ Session \/ Finish \/ ContextExpires
  \/ ResolveInput \/ RunModelStep \/ InvokeReadTool \/ MapReadToolResult

(* The code between two calls runs, a client returns when its context ends *)
Progress ==
  \/ (Begin \/ Return \/ Repair \/ BuildRepair) /\ UNCHANGED steps
  \/ Finish \/ ResolveInput \/ RunModelStep \/ InvokeReadTool \/ MapReadToolResult

Spec == Init /\ [][Next]_vars
LiveSpec == Spec /\ WF_vars(Progress)
=============================================================================
