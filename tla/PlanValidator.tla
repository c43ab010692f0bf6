---------------------------- MODULE PlanValidator ----------------------------
(***************************************************************************)
(* The static check of a plan the model answered with: the parser's and    *)
(* the validator's rules, as the set of steps and places they object to.   *)
(* Texts, names and sizes are either in order or make the answer garbage   *)
(* that PlannerSession's reply stands for.                                 *)
(***************************************************************************)
EXTENDS StepReferences

CONSTANTS
  MaxSteps,      \* of the agent
  Tools,         \* the planning snapshot: tools by name, with the schema of
                 \* their one property and whether they are allowed, enabled
  NoTool,
  Sensitive      \* output field names that count as credentials

ASSUME ToolsAssumption ==
  \A t \in DOMAIN Tools : Tools[t].type \in Types /\ Tools[t].nullable \in BOOLEAN

SchemaShape(schema) == schema # <<>>
StepShape(step, i) ==
  /\ step.seq = i /\ SchemaShape(step.schema)
  /\ (step.type = "ToolCall") <=> (step.tool # NoTool)
PlanShape(draft) ==
  /\ Len(draft) \in 1..MaxSteps
  /\ draft[Len(draft)].type = "Verification"
  /\ \A i \in DOMAIN draft : StepShape(draft[i], i)

(* the safety gate, on names: a credential is no output *)
PlanSafe(draft) == \A i \in DOMAIN draft : DOMAIN draft[i].schema \cap Sensitive = {}

(* slip: any two numeric types go together *)
StaticCompatibleNumeric(source, f, type) ==
  f \in DOMAIN source /\ (source[f] = type \/ {source[f], type} = {"Integer", "Number"})

StaticCompatible(source, f, type) ==
  f \in DOMAIN source /\ (source[f] = type \/ (source[f] = "Integer" /\ type = "Number"))

(* An object field that may be a reference is also satisfied by any string *)
FieldShape(v, field) ==
  IF field.type = "String" THEN TypeOf(v) = "String" /\ v # Blank
  ELSE TypeOf(v) = "Object" \/ (field.reference /\ TypeOf(v) = "String")

NonToolFieldValid(v, field, source) ==
  IF v.kind = "ref"
  THEN field.reference /\ StaticCompatible(source, v.of, field.type)
  ELSE v.kind # "objectref" /\ FieldShape(v, field) /\ ~ContainsNull(v)

NonToolInputValid(step, source) ==
  LET contract == NonToolInputContract(step.type) IN
  /\ DOMAIN step.input \subseteq DOMAIN contract
  /\ \A n \in DOMAIN contract : contract[n].required => n \in DOMAIN step.input
  /\ \A n \in DOMAIN step.input : NonToolFieldValid(step.input[n], contract[n], source)

(* the property of a tool; an object property has one text member *)
ToolValueValid(v, tool, source) ==
  CASE v.kind = "ref" -> StaticCompatible(source, v.of, tool.type)
    [] v.kind = "null" -> tool.nullable
    [] v.kind = "objectref" -> tool.type = "Object" /\ StaticCompatible(source, v.of, "String")
    [] v.kind = "object" -> tool.type = "Object" /\ v.of = "text"
    [] OTHER -> MatchesType(v, tool.type)

ToolInputValid(step, source) ==
  LET tool == Tools[step.tool] IN
  /\ step.tool \in DOMAIN Tools /\ tool.allowed /\ tool.enabled
  /\ DOMAIN step.input = {"arg"}
  /\ ToolValueValid(step.input["arg"], tool, source)

StepSemantics(draft, i) ==
  LET step == draft[i]
      source == IF i = 1 THEN <<>> ELSE <<draft[i - 1]>>
      schema == IF i = 1 THEN <<>> ELSE draft[i - 1].schema
  IN
  /\ ~Extract(step, source, FALSE).fault
  /\ IF step.type = "ToolCall" THEN ToolInputValid(step, schema) ELSE NonToolInputValid(step, schema)

Valid(draft) ==
  PlanShape(draft) /\ PlanSafe(draft) /\ \A i \in DOMAIN draft : StepSemantics(draft, i)
=============================================================================
