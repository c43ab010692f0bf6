---------------------------- MODULE StepExecution ----------------------------
(***************************************************************************)
(* What the step executor computes: the resolved input of a step, and the  *)
(* safe output made of what a model or a read tool returned.  It repeats   *)
(* the validator's rules on values that were references before.            *)
(***************************************************************************)
EXTENDS PlanValidator

Found(input) == [kind |-> "ok", cause |-> "", input |-> input]
Unresolved(kind, cause) == [kind |-> kind, cause |-> cause, input |-> <<>>]

ReferenceTypesCompatible(source, target) ==
  source = target \/ (source = "Integer" /\ target = "Number")

(* the type the place of a reference asks for *)
TargetType(step, path) ==
  IF step.type = "ToolCall"
  THEN IF Len(path) = 1 THEN Tools[step.tool].type ELSE "String"
  ELSE NonToolInputContract(step.type)[path[1]].type
TargetAllowed(step, path) ==
  step.type = "ToolCall" \/ (Len(path) = 1 /\ NonToolInputContract(step.type)[path[1]].reference)

Resolvable(step, source, r) ==
  LET declared == source.schema[r.field]
      value == source.output[r.field]
  IN  /\ value # Null /\ MatchesType(value, declared)
      /\ TargetAllowed(step, r.path)
      /\ ReferenceTypesCompatible(declared, TargetType(step, r.path))

Replace(v, source) ==
  CASE v.kind = "ref" -> source[1].output[v.of]
    [] v.kind = "objectref" -> Object("text")
    [] OTHER -> v

ResolvedNonTool(v, type) == ~ContainsNull(v) /\ TypeOf(v) = type /\ v # Blank
ResolvedTool(v, tool) ==
  IF v = Null THEN tool.nullable
  ELSE MatchesType(v, tool.type) /\ (v.kind = "object" => v.of = "text")

ResolvedInputValid(step, input) ==
  IF step.type = "ToolCall"
  THEN ResolvedTool(input["arg"], Tools[step.tool])
  ELSE LET contract == NonToolInputContract(step.type) IN
       \A n \in DOMAIN contract :
         IF n \in DOMAIN input THEN ResolvedNonTool(input[n], contract[n].type)
                               ELSE ~contract[n].required

(* Resolve, but for the size and depth of what the references bring in     *)
Resolve(step, source, bound) ==
  LET extracted == Extract(step, source, TRUE)
      input == [n \in DOMAIN step.input |-> Replace(step.input[n], source)]
  IN  CASE extracted.fault -> Unresolved("Failed", "InputResolutionFailed")
        [] ~extracted.fault /\ extracted.refs # bound -> Unresolved("RuntimeFatal", "ReferenceBinding")
        [] OTHER ->
             IF (\A r \in extracted.refs : Resolvable(step, source[1], r))
                  /\ ResolvedInputValid(step, input)
             THEN Found(input) ELSE Unresolved("Failed", "InputResolutionFailed")

----------------------------------------------------------------------------
(* Outputs *)

Fits(output, schema) ==
  /\ DOMAIN schema \subseteq DOMAIN output
  /\ \A f \in DOMAIN schema : MatchesType(output[f], schema[f])

Strict(raw) == \A f \in DOMAIN raw : ~ContainsNull(raw[f])

(* credentials by name become a text; then the schema must still hold      *)
Sanitized(output) ==
  [f \in DOMAIN output |-> IF f \in Sensitive THEN Literal("String") ELSE output[f]]

(* a text with a control character is refused, unless its name hides it    *)
MayHoldControl(output) ==
  \E f \in DOMAIN output \ Sensitive : TypeOf(output[f]) \in {"String", "Object"}

Project(raw, schema) == [f \in DOMAIN schema |-> raw[f]]

(* processModelStepOutput: exactly the declared fields                     *)
ProcessModelOutput(raw, schema) ==
  IF ~Strict(raw) \/ DOMAIN raw # DOMAIN schema \/ ~Fits(raw, schema) THEN "ModelOutputInvalid"
  ELSE IF ~Fits(Sanitized(raw), schema) THEN "ResultSanitizationFailed" ELSE "ok"

(* processReadToolOutput: the declared fields of what the tool returned    *)
ProcessToolOutput(raw, schema) ==
  IF ~Strict(raw) \/ ~Fits(raw, schema) THEN "StepOutputInvalid"
  ELSE IF ~Fits(Sanitized(Project(raw, schema)), schema) THEN "ResultSanitizationFailed" ELSE "ok"

(* slip: the whole of what a tool returned is kept *)
SafeOutputWhole(raw, schema) == Sanitized(raw)

SafeOutput(raw, schema) == Sanitized(Project(raw, schema))
=============================================================================
