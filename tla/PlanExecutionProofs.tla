-------------------------- MODULE PlanExecutionProofs --------------------------
(***************************************************************************)
(* Proofs about planning and the steps of a plan, for every set of drafts, *)
(* tools and output values, and every timeout and deadline.                *)
(*                                                                         *)
(* A repair leaves in time because its call was given less than what is    *)
(* left and both only shrink together.  A valid plan resolves because the  *)
(* step runs on what was checked: its source is the draft's step before,   *)
(* with an output of the declared types and no null in it (Prepared).      *)
(***************************************************************************)
EXTENDS PlanExecutionProperties, TLAPS

----------------------------------------------------------------------------
(* The session *)

InRepair == pc = "building" \/ (pc = "call" /\ phase = "REPAIR")
Dismissed == {"None", "PlannerCanceled", "Stale"}

SessionInv ==
  /\ left \in Nat \cup {NoDeadline} /\ callLeft \in Nat
  /\ pc # "done" => result = None
  /\ answered = "cancelled" => pc = "done" /\ result.kind \in Dismissed
  /\ InRepair => ctx # "expired" /\ (left = NoDeadline \/ left > callLeft)

(* Time: what is left of the deadline stays ahead of the repair's call.    *)
LEMMA TickSession ==
  ASSUME SessionInv, Tick
  PROVE  SessionInv'
<1>1. left' \in Nat \cup {NoDeadline} /\ callLeft' \in Nat
  BY DEF SessionInv, Tick, Less
<1>2. UNCHANGED <<pc, phase, answered, result>>
  BY DEF Tick
<1>3. CASE InRepair
  <2>1. left = NoDeadline => left' = NoDeadline /\ ctx' = ctx
    BY TimesAssumption DEF Tick, Less
  <2>2. CASE pc = "building" /\ left # NoDeadline
    <3>1. left > callLeft + 1 /\ left' = left - 1 /\ callLeft' = callLeft
      BY <2>2, TimesAssumption DEF Tick, LeftMoreThan, Less, SessionInv
    <3>2. left' > callLeft' /\ left' # 0
      BY <3>1 DEF SessionInv
    <3> QED BY <1>1, <1>2, <1>3, <3>2 DEF SessionInv, Tick
  <2>3. CASE pc = "call" /\ left # NoDeadline
    <3>1. callLeft # 0 /\ callLeft # NoDeadline /\ callLeft' = callLeft - 1
      BY <2>3, TimesAssumption DEF Tick, CallOver, Less, SessionInv
    <3>2. left > callLeft /\ left' = left - 1
      BY <1>3, <2>3, TimesAssumption DEF Tick, Less, SessionInv
    <3>3. left' > callLeft' /\ left' # 0
      BY <3>1, <3>2, <2>3 DEF SessionInv
    <3> QED BY <1>1, <1>2, <1>3, <3>3 DEF SessionInv, Tick
  <2>4. CASE left = NoDeadline
    BY <1>1, <1>2, <1>3, <2>1, <2>4 DEF SessionInv, InRepair
  <2> QED BY <1>3, <2>2, <2>3, <2>4 DEF InRepair
<1>4. CASE ~InRepair
  BY <1>1, <1>2, <1>4 DEF SessionInv, InRepair
<1> QED BY <1>3, <1>4

(* Calls: a repair gets less than what is left.                            *)
LEMMA CallSession ==
  ASSUME SessionInv, Cancel \/ Begin \/ Return \/ Repair \/ BuildRepair
  PROVE  SessionInv'
<1>1. CASE Cancel
  BY <1>1 DEF Cancel, SessionInv, InRepair
<1>2. CASE Begin
  BY <1>2, TimesAssumption DEF Begin, StartCall, End, Canceled, Outcome, SessionInv, InRepair
<1>3. CASE Return
  BY <1>3 DEF Return, ModelError, InvalidAnswer, End, Canceled, CallOver, Outcome, SessionInv,
              InRepair, Dismissed
<1>4. CASE Repair
  <2>1. CASE pc' = "building" /\ callLeft' = RepairTimeout
    <3>1. ctx = "live" /\ LeftMoreThan(RepairMinBudget + SafetyMargin)
      BY <1>4, <2>1 DEF Repair, End, Canceled
    <3>2. callLeft' \in Nat /\ (left = NoDeadline \/ left > callLeft')
      BY <2>1, <3>1, TimesAssumption DEF RepairTimeout, LeftMoreThan, Least, SessionInv
    <3> QED BY <1>4, <2>1, <3>1, <3>2 DEF Repair, End, Canceled, SessionInv, InRepair
  <2>2. CASE pc' = "done" /\ callLeft' = callLeft
    BY <1>4, <2>2 DEF Repair, SessionInv, InRepair
  <2> QED BY <1>4, <2>1, <2>2 DEF Repair, End, Canceled
<1>5. CASE BuildRepair
  BY <1>5 DEF BuildRepair, StartCall, End, Outcome, SessionInv, InRepair
<1> QED BY <1>1, <1>2, <1>3, <1>4, <1>5

(* A step that fails, or completes: as the outcome of the context it saw.  *)
LEMMA FailsSession ==
  ASSUME SessionInv, NEW kind, NEW cause, Fails(kind, cause),
         answered' # "cancelled" \/ kind \in Dismissed
  PROVE  SessionInv'
BY DEF Fails, End, Outcome, SessionInv, InRepair

(* A step that completes starts the next one in a context of its own.      *)
LEMMA CompletesSession ==
  ASSUME SessionInv, pc # "done", NEW output, Completes(output)
  PROVE  SessionInv'
<1>1. answered' # "cancelled" /\ UNCHANGED <<left, callLeft>>
      /\ ~InRepair' /\ (pc' # "done" => result' = result)
  BY DEF Completes, Ready, End, SessionInv, InRepair
<1> QED BY <1>1 DEF SessionInv

(* The steps run under no repair and report a cancelled context as such.   *)
LEMMA StepSession ==
  ASSUME SessionInv,
         \/ Finish \/ ContextExpires \/ ResolveInput \/ RunModelStep \/ InvokeReadTool
         \/ MapReadToolResult
  PROVE  SessionInv'
<1>1. CASE Finish
  <2>1. CASE ctx # "live" /\ Canceled
    BY <1>1, <2>1 DEF Finish, Ready, End, Canceled, SessionInv, InRepair
  <2>2. CASE Ready(1, <<>>) /\ left' = NoDeadline /\ callLeft' = 0 /\ UNCHANGED result
    <3>1. pc # "done"
      BY <1>1 DEF Finish
    <3> QED BY <2>2, <3>1 DEF Ready, SessionInv, InRepair
  <2> QED BY <1>1, <2>1, <2>2 DEF Finish
<1>2. CASE ContextExpires
  BY <1>2 DEF ContextExpires, SessionInv, InRepair
<1>3. CASE ResolveInput
  BY <1>3 DEF ResolveInput, Fails, End, Outcome, SessionInv, InRepair
<1>4. CASE RunModelStep
  <2>1. CASE \E raw \in Raw : \E verdict, output :
               Completes(output) \/ (ctx = "live" /\ answered' = ctx /\ Fails("Failed", verdict))
    <3>1. pc # "done"
      BY <1>4 DEF RunModelStep
    <3> QED BY <2>1, <3>1, FailsSession, CompletesSession
  <2>2. CASE answered' = ctx /\ ctx = "cancelled" /\ Fails("Stale", "BY_CALLER")
    BY <2>2, FailsSession DEF Dismissed
  <2>3. CASE answered' = ctx /\ ctx # "cancelled" /\ \E kind, cause : Fails(kind, cause)
    BY <2>3, FailsSession
  <2> QED BY <1>4, <2>1, <2>2, <2>3 DEF RunModelStep, ModelClientFails, RefusesOutput
<1>5. CASE InvokeReadTool
  BY <1>5 DEF InvokeReadTool, Fails, End, Outcome, SessionInv, InRepair
<1>6. CASE MapReadToolResult
  <2>1. \/ answered' # "cancelled" /\ \E kind, cause : Fails(kind, cause)
        \/ pc # "done" /\ \E output : Completes(output)
    BY <1>6 DEF MapReadToolResult, RefusesOutput, SessionInv
  <2> QED BY <2>1, FailsSession, CompletesSession
<1> QED BY <1>1, <1>2, <1>3, <1>4, <1>5, <1>6

(* So every state of planner and steps has the session's invariant.        *)
LEMMA SessionKeeps == Spec => []SessionInv
<1>1. Init => SessionInv
  BY TimesAssumption DEF Init, SessionInit, SessionInv, InRepair
<1>2. SessionInv /\ [Next]_vars => SessionInv'
  <2>1. SessionInv /\ UNCHANGED vars => SessionInv'
    BY DEF SessionInv, vars, InRepair
  <2> QED BY <2>1, TickSession, CallSession, StepSession DEF Next, Session
<1> QED BY <1>1, <1>2, PTL DEF Spec

(* A repair's call never lasts to the caller's deadline.                   *)
THEOREM RepairInTime == Spec => []RepairReturnsInTime
<1>1. SessionInv => RepairReturnsInTime
  BY DEF SessionInv, InRepair, RepairReturnsInTime
<1> QED BY <1>1, SessionKeeps, PTL

(* A planner or a step cancelled before its model returned has not failed. *)
THEOREM CancelledIsDismissed == Spec => []CancelIsNotFailure
<1>1. SessionInv => CancelIsNotFailure
  BY DEF SessionInv, CancelIsNotFailure, Dismissed
<1> QED BY <1>1, SessionKeeps, PTL

----------------------------------------------------------------------------
(* What a step runs on *)

Good(output, schema) ==
  /\ DOMAIN output = DOMAIN schema
  /\ \A f \in DOMAIN schema :
       output[f] \in Values /\ ~ContainsNull(output[f]) /\ MatchesType(output[f], schema[f])

Prepared ==
  /\ plan \in Drafts /\ Valid(plan) /\ at \in 1..Len(plan)
  /\ IF at = 1 THEN source = <<>>
     ELSE \E output :
            /\ Good(output, plan[at - 1].schema)
            /\ source = <<[seq |-> plan[at - 1].seq, schema |-> plan[at - 1].schema,
                           status |-> "completed", output |-> output]>>
  /\ bound = Extract(Step, source, TRUE).refs

(* A model's or a tool's output that was found good is good to refer to.   *)
LEMMA SafeOutputGood ==
  ASSUME NEW raw \in Raw, NEW schema,
         ProcessModelOutput(raw, schema) = "ok" \/ ProcessToolOutput(raw, schema) = "ok"
  PROVE  Good(SafeOutput(raw, schema), schema)
<1> DEFINE safe == SafeOutput(raw, schema)
<1>1. DOMAIN safe = DOMAIN schema
  BY DEF SafeOutput, Sanitized, Project
<1>2. \A f \in DOMAIN schema : safe[f] = IF f \in Sensitive THEN Literal("String") ELSE raw[f]
  BY DEF SafeOutput, Sanitized, Project
<1>3. Strict(raw) /\ DOMAIN schema \subseteq DOMAIN raw
  BY DEF ProcessModelOutput, ProcessToolOutput, Fits
<1>4. \A f \in DOMAIN raw : raw[f] \in Values
  BY OutputValuesAssumption DEF Raw
<1>5. Literal("String") \in Values /\ ~ContainsNull(Literal("String"))
  BY DEF Values, Literal, ContainsNull, Null, Object, Value, Types
<1>6. \A f \in DOMAIN schema : MatchesType(safe[f], schema[f])
  <2>1. CASE ProcessToolOutput(raw, schema) = "ok"
    BY <2>1 DEF ProcessToolOutput, Fits, SafeOutput
  <2>2. CASE ProcessModelOutput(raw, schema) = "ok"
    <3>1. DOMAIN raw = DOMAIN schema /\ Fits(Sanitized(raw), schema)
      BY <2>2 DEF ProcessModelOutput
    <3>2. \A f \in DOMAIN schema : Sanitized(raw)[f] = safe[f]
      BY <1>2, <3>1 DEF Sanitized
    <3> QED BY <3>1, <3>2 DEF Fits
  <2> QED BY <2>1, <2>2
<1> HIDE DEF safe
<1>7. \A f \in DOMAIN schema : safe[f] \in Values /\ ~ContainsNull(safe[f])
  BY <1>2, <1>3, <1>4, <1>5 DEF Strict
<1> QED BY <1>1, <1>6, <1>7 DEF Good, safe

(* Every reference of a prepared step finds its value, and its checkpoint  *)
(* recorded the very references that are in its input.                     *)
LEMMA ReferencesFound ==
  ASSUME Prepared
  PROVE  /\ ~Extract(Step, source, TRUE).fault /\ bound = ReferencesIn(Step.input)
         /\ \A n \in DOMAIN Step.input : Step.input[n] \notin {BadRef, Expression}
         /\ \A r \in bound :
              LET value == source[1].output[r.field]
                  schema == plan[at - 1].schema
              IN  /\ at # 1 /\ source[1].schema = schema /\ r.field \in DOMAIN schema
                  /\ value \in Values /\ ~ContainsNull(value)
                  /\ MatchesType(value, schema[r.field])
<1> DEFINE before == IF at = 1 THEN <<>> ELSE <<plan[at - 1]>>
           refs == ReferencesIn(Step.input)
<1>1. ~Extract(Step, before, FALSE).fault
  BY DraftsAssumption DEF Prepared, Valid, StepSemantics, Step
<1>2. /\ \A n \in DOMAIN Step.input : Step.input[n] \notin {BadRef, Expression}
      /\ \A r \in refs : ValidSource(before, Step, r.field, FALSE)
  BY <1>1 DEF Extract
<1>3. ASSUME NEW r \in refs
      PROVE  /\ ValidSource(source, Step, r.field, TRUE) /\ at # 1
             /\ source[1].schema = plan[at - 1].schema
             /\ Good(source[1].output, source[1].schema)
             /\ r.field \in DOMAIN plan[at - 1].schema
  <2>1. at # 1
    BY <1>2, <1>3 DEF ValidSource, ImmediatelyBefore
  <2>2. PICK output :
          /\ Good(output, plan[at - 1].schema)
          /\ source = <<[seq |-> plan[at - 1].seq, schema |-> plan[at - 1].schema,
                         status |-> "completed", output |-> output]>>
    BY <2>1 DEF Prepared
  <2>3. /\ source # <<>> /\ source[1].seq = plan[at - 1].seq /\ source[1].status = "completed"
        /\ source[1].schema = plan[at - 1].schema /\ source[1].output = output
    BY <2>2
  <2>4. /\ Step.seq > 1 /\ plan[at - 1].seq + 1 = Step.seq
        /\ r.field \in DOMAIN plan[at - 1].schema
    BY <1>2, <1>3, <2>1 DEF ValidSource, ImmediatelyBefore
  <2> QED BY <2>1, <2>2, <2>3, <2>4 DEF ValidSource, ImmediatelyBefore, Good
<1>4. ~Extract(Step, source, TRUE).fault /\ Extract(Step, source, TRUE).refs = refs
  BY <1>2, <1>3 DEF Extract
<1>5. bound = refs
  BY <1>4 DEF Prepared
<1>6. \A r \in refs :
        /\ at # 1 /\ source[1].schema = plan[at - 1].schema /\ r.field \in DOMAIN plan[at - 1].schema
        /\ source[1].output[r.field] \in Values /\ ~ContainsNull(source[1].output[r.field])
        /\ MatchesType(source[1].output[r.field], plan[at - 1].schema[r.field])
  BY <1>3 DEF Good
<1> HIDE DEF refs
<1>7. \A r \in bound :
        /\ at # 1 /\ source[1].schema = plan[at - 1].schema /\ r.field \in DOMAIN plan[at - 1].schema
        /\ source[1].output[r.field] \in Values /\ ~ContainsNull(source[1].output[r.field])
        /\ MatchesType(source[1].output[r.field], plan[at - 1].schema[r.field])
  BY <1>5, <1>6
<1> QED BY <1>2, <1>4, <1>5, <1>7 DEF refs

----------------------------------------------------------------------------
(* Resolution *)

(* The kind of a value tells the four texts and null from all others.      *)
LEMMA KindOfValue ==
  ASSUME NEW kind, NEW of, NEW v, v = Value(kind, of)
  PROVE  /\ v.kind = kind /\ v.of = of
         /\ (v = Null => kind = "null") /\ (v = Blank => kind = "blank")
         /\ (v = BadRef => kind = "badref") /\ (v = Expression => kind = "expression")
BY DEF Value, Null, Blank, BadRef, Expression

(* A value is known by its kind.                                           *)
LEMMA ValueKinds ==
  ASSUME NEW v \in Values
  PROVE  /\ (v.kind = "null") <=> (v = Null)
         /\ (v.kind = "blank") <=> (v = Blank)
         /\ (v.kind = "badref") <=> (v = BadRef)
         /\ (v.kind = "expression") <=> (v = Expression)
         /\ v.kind = "object" => v = Object(v.of)
         /\ v.kind = "literal" => v.of \in Types
         /\ v.kind \in {"literal", "blank", "null", "ref", "badref", "expression", "object",
                        "objectref"}
<1>1. CASE \E t \in Types : v = Value("literal", t)
  BY <1>1, KindOfValue
<1>2. CASE \E f \in Fields : v = Value("ref", f)
  BY <1>2, KindOfValue
<1>3. CASE \E f \in Fields : v = Value("objectref", f)
  BY <1>3, KindOfValue
<1>4. CASE \E m \in Members : v = Value("object", m)
  BY <1>4, KindOfValue DEF Object
<1>5. CASE v = Blank
  <2>1. v.kind = "blank" /\ v # Null /\ v # BadRef /\ v # Expression
    BY <1>5 DEF Null, Blank, BadRef, Expression, Value
  <2> QED BY <1>5, <2>1
<1>6. CASE v = Null
  <2>1. v.kind = "null" /\ v # Blank /\ v # BadRef /\ v # Expression
    BY <1>6 DEF Null, Blank, BadRef, Expression, Value
  <2> QED BY <1>6, <2>1
<1>7. CASE v = BadRef
  <2>1. v.kind = "badref" /\ v # Blank /\ v # Null /\ v # Expression
    BY <1>7 DEF Null, Blank, BadRef, Expression, Value
  <2> QED BY <1>7, <2>1
<1>8. CASE v = Expression
  <2>1. v.kind = "expression" /\ v # Blank /\ v # Null /\ v # BadRef
    BY <1>8 DEF Null, Blank, BadRef, Expression, Value
  <2> QED BY <1>8, <2>1
<1> QED
  BY <1>1, <1>2, <1>3, <1>4, <1>5, <1>6, <1>7, <1>8 DEF Values, Literal, Ref, Object, ObjectRef

(* What a compatible reference brings has the type its place asks for.     *)
LEMMA Brings ==
  ASSUME NEW v, NEW schema, NEW f, NEW type, StaticCompatible(schema, f, type),
         MatchesType(v, schema[f])
  PROVE  MatchesType(v, type) /\ ReferenceTypesCompatible(schema[f], type)
BY DEF StaticCompatible, MatchesType, ReferenceTypesCompatible

PreviousSchema == IF at = 1 THEN <<>> ELSE plan[at - 1].schema

(* What the validator checked of the step that runs.                       *)
LEMMA StepChecked ==
  ASSUME Prepared
  PROVE  /\ \A n \in DOMAIN Step.input : Step.input[n] \in Values
         /\ Step.type \in NonToolTypes \cup {"ToolCall"}
         /\ Step.type = "ToolCall" => ToolInputValid(Step, PreviousSchema)
         /\ Step.type # "ToolCall" => NonToolInputValid(Step, PreviousSchema)
<1>1. at \in DOMAIN plan /\ StepSemantics(plan, at)
  BY DraftsAssumption DEF Prepared, Valid
<1> QED BY <1>1, DraftsAssumption DEF Prepared, StepSemantics, Step, PreviousSchema

(* A tool's argument: literal, null, reference or object with a reference.  *)
LEMMA ToolResolves ==
  ASSUME Prepared, Step.type = "ToolCall", \A r \in bound : ~BringsUnfit(r)
  PROVE  /\ \A r \in bound : Resolvable(Step, source[1], r)
         /\ ResolvedTool(Replace(Step.input["arg"], source), Tools[Step.tool])
         /\ DOMAIN Step.input = {"arg"}
<1> DEFINE v == Step.input["arg"]
           tool == Tools[Step.tool]
           schema == PreviousSchema
<1>1. /\ DOMAIN Step.input = {"arg"} /\ ToolValueValid(v, tool, schema) /\ v \in Values
      /\ v \notin {BadRef, Expression}
  BY StepChecked, ReferencesFound DEF ToolInputValid
<1>2. bound = {Reference(<<n>>, Step.input[n].of) : n \in {m \in {"arg"} : Step.input[m].kind = "ref"}}
        \cup {Reference(<<n, "member">>, Step.input[n].of) :
                n \in {m \in {"arg"} : Step.input[m].kind = "objectref"}}
  BY <1>1, ReferencesFound DEF ReferencesIn
<1>3. CASE v.kind = "ref"
  <2> DEFINE r == Reference(<<"arg">>, v.of)
             value == source[1].output[v.of]
  <2>1. bound = {r} /\ r.field = v.of /\ r.path = <<"arg">> /\ Len(r.path) = 1
    BY <1>2, <1>3 DEF Reference
  <2>2. /\ source[1].schema = schema /\ value \in Values /\ ~ContainsNull(value)
        /\ MatchesType(value, schema[v.of])
    BY <2>1, ReferencesFound DEF PreviousSchema
  <2>3. StaticCompatible(schema, v.of, tool.type)
    BY <1>1, <1>3 DEF ToolValueValid
  <2>4. MatchesType(value, tool.type) /\ ReferenceTypesCompatible(schema[v.of], tool.type)
    BY <2>2, <2>3, Brings
  <2>5. Resolvable(Step, source[1], r)
    BY <2>1, <2>2, <2>4 DEF Resolvable, TargetAllowed, TargetType, ContainsNull
  <2>6. TypeOf(value) # "Object"
    BY <2>1 DEF BringsUnfit
  <2>7. Replace(v, source) = value
    BY <1>3 DEF Replace
  <2>8. ResolvedTool(value, tool)
    BY <2>2, <2>4, <2>6, ValueKinds DEF ResolvedTool, ContainsNull, TypeOf
  <2> QED BY <1>1, <2>1, <2>5, <2>7, <2>8
<1>4. CASE v.kind = "objectref"
  <2> DEFINE r == Reference(<<"arg", "member">>, v.of)
             value == source[1].output[v.of]
  <2>1. bound = {r} /\ r.field = v.of /\ Len(r.path) = 2
    BY <1>2, <1>4 DEF Reference
  <2>2. /\ source[1].schema = schema /\ value \in Values /\ ~ContainsNull(value)
        /\ MatchesType(value, schema[v.of])
    BY <2>1, ReferencesFound DEF PreviousSchema
  <2>3. StaticCompatible(schema, v.of, "String") /\ tool.type = "Object"
    BY <1>1, <1>4 DEF ToolValueValid
  <2>4. Resolvable(Step, source[1], r)
    BY <2>1, <2>2, <2>3, Brings DEF Resolvable, TargetAllowed, TargetType, ContainsNull
  <2>5. Replace(v, source) = Object("text")
    BY <1>4 DEF Replace
  <2>6. ResolvedTool(Object("text"), tool)
    BY <2>3 DEF ResolvedTool, Object, Null, Value, MatchesType, TypeOf
  <2> QED BY <1>1, <2>1, <2>4, <2>5, <2>6
<1>5. CASE v.kind \notin {"ref", "objectref"}
  <2>1. bound = {} /\ Replace(v, source) = v
    BY <1>2, <1>5 DEF Replace
  <2>2. ASSUME v.kind = "null" PROVE ResolvedTool(v, tool)
    <3>1. v = Null /\ tool.nullable
      BY <1>1, <2>2, ValueKinds DEF ToolValueValid
    <3> QED BY <3>1 DEF ResolvedTool
  <2>3. ASSUME v.kind = "object" PROVE ResolvedTool(v, tool)
    <3>1. tool.type = "Object" /\ v.of = "text"
      BY <1>1, <2>3 DEF ToolValueValid
    <3>2. TypeOf(v) = "Object" /\ v # Null
      BY <1>1, <2>3, ValueKinds DEF TypeOf
    <3> QED BY <3>1, <3>2 DEF ResolvedTool, MatchesType
  <2>4. ASSUME v.kind \notin {"null", "object"} PROVE ResolvedTool(v, tool)
    <3>1. v # Null
      BY <1>1, <2>4, ValueKinds
    <3>2. MatchesType(v, tool.type)
      BY <1>1, <1>5, <2>4 DEF ToolValueValid
    <3> QED BY <2>4, <3>1, <3>2 DEF ResolvedTool
  <2> QED BY <1>1, <2>1, <2>2, <2>3, <2>4
<1> QED BY <1>3, <1>4, <1>5

(* A field of the other step types: what was checked of it, or a reference. *)
LEMMA FieldResolves ==
  ASSUME Prepared, Step.type \in NonToolTypes, \A r \in bound : ~BringsUnfit(r), ~StrayText(Step),
         NEW n \in DOMAIN Step.input
  PROVE  LET v == Step.input[n]
             field == NonToolInputContract(Step.type)[n]
         IN  /\ n \in {"text", "data"} /\ v.kind # "objectref"
             /\ ResolvedNonTool(Replace(v, source), field.type)
             /\ v.kind = "ref" => Resolvable(Step, source[1], Reference(<<n>>, v.of))
<1> DEFINE v == Step.input[n]
           field == NonToolInputContract(Step.type)[n]
           schema == PreviousSchema
<1>1. Step.type # "ToolCall" /\ v \in Values /\ v \notin {BadRef, Expression}
  BY StepChecked, ReferencesFound DEF NonToolTypes
<1>2. n \in {"text", "data"} /\ NonToolFieldValid(v, field, schema)
  BY <1>1, StepChecked DEF NonToolInputValid, NonToolInputContract
<1>3. /\ n = "text" => field.type = "String"
      /\ n = "data" => field.type = "Object" /\ field.reference
  BY <1>2 DEF NonToolInputContract
<1>4. CASE v.kind = "ref"
  <2> DEFINE r == Reference(<<n>>, v.of)
             value == source[1].output[v.of]
  <2>1. r \in bound /\ r.field = v.of /\ r.path = <<n>> /\ Len(r.path) = 1 /\ r.path[1] = n
    BY <1>4, ReferencesFound DEF ReferencesIn, Reference
  <2>2. /\ source[1].schema = schema /\ value \in Values /\ ~ContainsNull(value)
        /\ MatchesType(value, schema[v.of])
    BY <2>1, ReferencesFound DEF PreviousSchema
  <2>3. field.reference /\ StaticCompatible(schema, v.of, field.type)
    BY <1>2, <1>4 DEF NonToolFieldValid
  <2>4. MatchesType(value, field.type) /\ ReferenceTypesCompatible(schema[v.of], field.type)
    BY <2>2, <2>3, Brings
  <2>5. Resolvable(Step, source[1], r)
    BY <1>1, <2>1, <2>2, <2>3, <2>4 DEF Resolvable, TargetAllowed, TargetType, ContainsNull
  <2>6. ResolvedNonTool(value, field.type)
    BY <1>2, <1>3, <2>1, <2>2, <2>4 DEF ResolvedNonTool, MatchesType, BringsUnfit
  <2>7. Replace(v, source) = value
    BY <1>4 DEF Replace
  <2> QED BY <1>2, <1>4, <2>5, <2>6, <2>7
<1>5. CASE v.kind # "ref"
  <2>1. v.kind # "objectref" /\ FieldShape(v, field) /\ ~ContainsNull(v)
    BY <1>2, <1>5 DEF NonToolFieldValid
  <2>2. Replace(v, source) = v
    BY <1>5, <2>1 DEF Replace
  <2>3. ASSUME n = "text" PROVE ResolvedNonTool(v, field.type)
    BY <1>3, <2>1, <2>3 DEF FieldShape, ResolvedNonTool
  <2>4. ASSUME n = "data" PROVE ResolvedNonTool(v, field.type)
    <3>1. TypeOf(v) # "String"
      BY <1>5, <2>4 DEF StrayText
    <3>2. field.type = "Object" /\ TypeOf(v) = "Object"
      BY <1>3, <2>1, <2>4, <3>1 DEF FieldShape
    <3>3. v # Blank
      BY <1>1, <3>1, ValueKinds DEF TypeOf
    <3> QED BY <2>1, <3>2, <3>3 DEF ResolvedNonTool
  <2> QED BY <1>2, <1>5, <2>1, <2>2, <2>3, <2>4
<1> QED BY <1>4, <1>5

(* So the executor accepts what the validator accepted.                    *)
LEMMA PreparedResolves ==
  ASSUME Prepared
  PROVE  \/ Resolve(Step, source, bound).kind = "ok"
         \/ StrayText(Step) \/ \E r \in bound : BringsUnfit(r)
<1> SUFFICES ASSUME ~StrayText(Step), \A r \in bound : ~BringsUnfit(r)
    PROVE  Resolve(Step, source, bound).kind = "ok"
  OBVIOUS
<1> DEFINE input == [n \in DOMAIN Step.input |-> Replace(Step.input[n], source)]
<1>1. ~Extract(Step, source, TRUE).fault /\ Extract(Step, source, TRUE).refs = bound
  BY ReferencesFound DEF Prepared
<1>2. (\A r \in bound : Resolvable(Step, source[1], r)) /\ ResolvedInputValid(Step, input)
  <2>1. CASE Step.type = "ToolCall"
    BY <2>1, ToolResolves DEF ResolvedInputValid
  <2>2. CASE Step.type \in NonToolTypes
    <3>1. Step.type # "ToolCall"
      BY <2>2 DEF NonToolTypes
    <3>2. \A r \in bound : Resolvable(Step, source[1], r)
      <4> TAKE r \in bound
      <4>1. \/ \E n \in DOMAIN Step.input : Step.input[n].kind = "ref" /\ r = Reference(<<n>>, Step.input[n].of)
            \/ \E n \in DOMAIN Step.input : Step.input[n].kind = "objectref"
        BY ReferencesFound DEF ReferencesIn
      <4> QED BY <2>2, <4>1, FieldResolves
    <3>3. \A n \in DOMAIN Step.input :
            n \in {"text", "data"} /\ ResolvedNonTool(input[n], NonToolInputContract(Step.type)[n].type)
      BY <2>2, FieldResolves
    <3>4. \A n \in {"text", "data"} :
            NonToolInputContract(Step.type)[n].required => n \in DOMAIN Step.input
      BY <3>1, StepChecked DEF NonToolInputValid, NonToolInputContract
    <3>5. DOMAIN NonToolInputContract(Step.type) = {"text", "data"} /\ DOMAIN input = DOMAIN Step.input
      BY DEF NonToolInputContract
    <3> HIDE DEF input
    <3>6. ResolvedInputValid(Step, input)
      BY <3>1, <3>3, <3>4, <3>5 DEF ResolvedInputValid
    <3> QED BY <3>2, <3>6
  <2> QED BY <2>1, <2>2, StepChecked
<1> QED BY <1>1, <1>2 DEF Resolve, Found

----------------------------------------------------------------------------
(* Through the states *)

Blames == {"InputResolutionFailed", "ReferenceBinding"}
Blameless == StrayText(Step) \/ \E r \in bound : BringsUnfit(r)

PlanInv ==
  /\ pc = "validated" => plan \in Drafts /\ Valid(plan)
  /\ pc \in {"resolve", "run", "invoked"} => Prepared
  /\ pc = "done" /\ result.cause \in Blames => Blameless

(* An end with another cause blames no reference.                          *)
LEMMA OtherEnd ==
  ASSUME NEW kind, NEW cause, End(Outcome(kind, cause)), cause \notin Blames
  PROVE  PlanInv'
BY DEF End, Outcome, PlanInv

(* A step that leaves the plan and the source alone keeps what they are.   *)
LEMMA SameStep ==
  ASSUME UNCHANGED <<plan, at, source, bound>>
  PROVE  (Prepared <=> Prepared') /\ (Blameless <=> Blameless')
BY DEF Prepared, Step, Blameless, StrayText, BringsUnfit

(* Planning ends with causes of its own, or with a draft found valid.      *)
LEMMA SessionPlan ==
  ASSUME PlanInv, Session
  PROVE  PlanInv'
<1>1. CASE Cancel
  BY <1>1, SameStep DEF Session, steps, Cancel, PlanInv
<1>2. CASE Tick
  BY <1>2, SameStep DEF Session, steps, Tick, PlanInv
<1>3. CASE Begin
  <2>1. CASE \E kind, cause : cause \notin Blames /\ End(Outcome(kind, cause))
    BY <2>1, OtherEnd
  <2>2. CASE pc' = "call"
    BY <2>2 DEF PlanInv
  <2> QED BY <1>3, <2>1, <2>2 DEF Begin, Canceled, StartCall, Blames
<1>4. CASE Return
  <2>1. CASE \E kind, cause : cause \notin Blames /\ End(Outcome(kind, cause))
    BY <2>1, OtherEnd
  <2>2. CASE pc' = "repair"
    BY <2>2 DEF PlanInv
  <2>3. CASE \E d \in Drafts : Valid(d) /\ plan' = d /\ pc' = "validated"
    BY <2>3 DEF PlanInv
  <2> QED BY <1>4, <2>1, <2>2, <2>3 DEF Return, Canceled, ModelError, InvalidAnswer, Blames
<1>5. CASE Repair
  <2>1. CASE \E kind, cause : cause \notin Blames /\ End(Outcome(kind, cause))
    BY <2>1, OtherEnd
  <2>2. CASE pc' = "building"
    BY <2>2 DEF PlanInv
  <2> QED BY <1>5, <2>1, <2>2 DEF Repair, Canceled, Blames
<1>6. CASE BuildRepair
  <2>1. CASE \E kind, cause : cause \notin Blames /\ End(Outcome(kind, cause))
    BY <2>1, OtherEnd
  <2>2. CASE pc' = "call"
    BY <2>2 DEF PlanInv
  <2> QED BY <1>6, <2>1, <2>2 DEF BuildRepair, StartCall, Blames
<1> QED BY <1>1, <1>2, <1>3, <1>4, <1>5, <1>6 DEF Session

(* The plan was valid when the session found it so, and starts at step 1.  *)
LEMMA FinishPlan ==
  ASSUME PlanInv, Finish
  PROVE  PlanInv'
<1>1. CASE Canceled
  BY <1>1, OtherEnd DEF Canceled, Blames
<1>2. CASE Ready(1, <<>>)
  <2>1. plan \in Drafts /\ Valid(plan) /\ plan' = plan
    BY DEF Finish, PlanInv
  <2>2. 1 \in 1..Len(plan)
    BY <2>1 DEF Valid, PlanShape
  <2>3. /\ pc' = "resolve" /\ at' = 1 /\ source' = <<>>
        /\ bound' = Extract(plan'[1], <<>>, TRUE).refs
    BY <1>2, <2>1 DEF Ready
  <2>4. Prepared'
    BY <2>1, <2>2, <2>3 DEF Prepared, Step
  <2> QED BY <2>3, <2>4 DEF PlanInv
<1> QED BY <1>1, <1>2 DEF Finish

(* A failure for another reason than the references.                       *)
LEMMA FailsPlan ==
  ASSUME NEW kind, NEW cause, Fails(kind, cause), cause \notin Blames
  PROVE  PlanInv'
BY OtherEnd DEF Fails

(* The next step gets the output of this one, as its source in the draft.  *)
LEMMA CompletesPlan ==
  ASSUME Prepared, NEW output, Good(output, Step.schema), Completes(output)
  PROVE  PlanInv'
<1>1. CASE at = Len(plan)
  BY <1>1, OtherEnd DEF Completes, Blames
<1>2. CASE at # Len(plan)
  <2> DEFINE from == <<[seq |-> Step.seq, schema |-> Step.schema,
                        status |-> "completed", output |-> output]>>
  <2>1. plan' = plan /\ Ready(at + 1, from)
    BY <1>2 DEF Completes
  <2>2. at \in 1..Len(plan) /\ Len(plan) \in Nat /\ plan \in Drafts /\ Valid(plan)
    BY DEF Prepared, Valid, PlanShape
  <2>3. at + 1 \in 1..Len(plan) /\ at + 1 # 1 /\ (at + 1) - 1 = at
    BY <1>2, <2>2
  <2>4. /\ pc' = "resolve" /\ at' = at + 1 /\ source' = from
        /\ bound' = Extract(plan'[at + 1], from, TRUE).refs
    BY <2>1 DEF Ready
  <2>5. Good(output, plan'[at' - 1].schema)
        /\ source' = <<[seq |-> plan'[at' - 1].seq, schema |-> plan'[at' - 1].schema,
                        status |-> "completed", output |-> output]>>
    BY <2>1, <2>3, <2>4 DEF Step
  <2> HIDE DEF from
  <2>6. Prepared'
    BY <2>1, <2>2, <2>3, <2>4, <2>5 DEF Prepared, Step
  <2> QED BY <2>4, <2>6 DEF PlanInv
<1> QED BY <1>1, <1>2

(* A prepared step resolves, or its references brought what does not fit.  *)
LEMMA ResolvePlan ==
  ASSUME PlanInv, ResolveInput
  PROVE  PlanInv'
<1>1. Prepared /\ UNCHANGED <<plan, at, source, bound>>
  BY DEF ResolveInput, PlanInv, Fails
<1>2. Prepared' /\ (Blameless <=> Blameless')
  BY <1>1, SameStep
<1>3. CASE pc' = "run"
  BY <1>2, <1>3 DEF PlanInv
<1>4. CASE Resolve(Step, source, bound).kind # "ok"
  <2>1. Blameless
    BY <1>1, <1>4, PreparedResolves DEF Blameless
  <2>2. pc' = "done"
    BY <1>4 DEF ResolveInput, Fails, End
  <2> QED BY <1>2, <2>1, <2>2 DEF PlanInv
<1>5. CASE Fails("Failed", "InputTooLarge")
  BY <1>5, FailsPlan DEF Blames
<1> QED BY <1>3, <1>4, <1>5 DEF ResolveInput

(* The causes the processing of an output fails with.                      *)
LEMMA OutputCauses ==
  ASSUME NEW raw, NEW schema
  PROVE  ProcessModelOutput(raw, schema) \notin Blames /\ ProcessToolOutput(raw, schema) \notin Blames
BY DEF ProcessModelOutput, ProcessToolOutput, Blames

(* A step that runs ends with other causes, or with a good output.         *)
LEMMA RunPlan ==
  ASSUME PlanInv, ContextExpires \/ RunModelStep \/ InvokeReadTool \/ MapReadToolResult
  PROVE  PlanInv'
<1>1. CASE ContextExpires
  BY <1>1, SameStep DEF ContextExpires, PlanInv
<1>2. CASE RunModelStep
  <2>1. Prepared
    BY <1>2 DEF RunModelStep, PlanInv
  <2>2. CASE \E kind, cause : cause \notin Blames /\ Fails(kind, cause)
    BY <2>2, FailsPlan
  <2>3. CASE \E raw \in Raw : ProcessModelOutput(raw, Step.schema) = "ok"
                                /\ Completes(SafeOutput(raw, Step.schema))
    BY <2>1, <2>3, SafeOutputGood, CompletesPlan
  <2> QED BY <1>2, <2>2, <2>3, OutputCauses DEF RunModelStep, ModelClientFails, RefusesOutput, Blames
<1>3. CASE InvokeReadTool
  <2>1. CASE \E kind, cause : cause \notin Blames /\ Fails(kind, cause)
    BY <2>1, FailsPlan
  <2>2. CASE pc' = "invoked" /\ UNCHANGED <<plan, at, source, bound>>
    BY <1>3, <2>2, SameStep DEF InvokeReadTool, PlanInv
  <2> QED BY <1>3, <2>1, <2>2 DEF InvokeReadTool, Blames
<1>4. CASE MapReadToolResult
  <2>1. Prepared
    BY <1>4 DEF MapReadToolResult, PlanInv
  <2>2. CASE \E kind, cause : cause \notin Blames /\ Fails(kind, cause)
    BY <2>2, FailsPlan
  <2>3. CASE \E raw \in Raw : ProcessToolOutput(raw, Step.schema) = "ok"
                                /\ Completes(SafeOutput(raw, Step.schema))
    BY <2>1, <2>3, SafeOutputGood, CompletesPlan
  <2> QED BY <1>4, <2>2, <2>3, OutputCauses DEF MapReadToolResult, RefusesOutput, Blames
<1> QED BY <1>1, <1>2, <1>3, <1>4

(* So a step that runs is prepared, in every reachable state.              *)
LEMMA PlanKeeps == Spec => []PlanInv
<1>1. Init => PlanInv
  BY DEF Init, SessionInit, PlanInv
<1>2. PlanInv /\ [Next]_vars => PlanInv'
  <2>1. PlanInv /\ UNCHANGED vars => PlanInv'
    BY SameStep DEF PlanInv, vars
  <2> QED BY <2>1, SessionPlan, FinishPlan, ResolvePlan, RunPlan DEF Next
<1> QED BY <1>1, <1>2, PTL DEF Spec

(* The step executor never contradicts the validator: a step of a plan     *)
(* found valid fails to resolve only for what its references bring, or     *)
(* for a stray text where an object belongs.                               *)
THEOREM ExecutorAgrees == Spec => []ValidPlanResolves
<1>1. PlanInv => ValidPlanResolves
  BY DEF PlanInv, ValidPlanResolves, Blames, Blameless
<1> QED BY <1>1, PlanKeeps, PTL

----------------------------------------------------------------------------
(* Types *)

Planning == {"start", "call", "repair", "building", "validated"}

TimesTyped ==
  /\ pc \in Planning \cup {"resolve", "run", "invoked", "done"}
  /\ phase \in {"INITIAL", "REPAIR"} /\ ctx \in {"live", "cancelled", "expired"}
  /\ left \in (0..MaxDeadline) \cup {NoDeadline} /\ callLeft \in 0..CallTimeout
  /\ answered \in {"none", "live", "cancelled", "expired"}

Sourced == source = <<>> \/ source[1].output \in [DOMAIN source[1].schema -> OutputValues]
Bound == bound = {} \/ bound \subseteq ReferencesIn(Step.input)

(* as long as the planner is at work, there is no step yet                 *)
StepsTyped ==
  /\ plan \in Drafts \cup {<<>>} /\ at \in 0..Len(plan) /\ Sourced /\ Bound
  /\ pc \in Planning => at = 0 /\ source = <<>> /\ bound = {}

EndTyped == pc = "done" <=> result # None

(* The three together.                                                     *)
Typed == TimesTyped /\ StepsTyped /\ EndTyped

(* An outcome of another kind than None is an end.                         *)
LEMMA EndsTyped ==
  ASSUME NEW kind, NEW cause, End(Outcome(kind, cause)), kind # "None"
  PROVE  EndTyped' /\ pc' = "done"
<1>1. Outcome(kind, cause).kind = kind /\ None.kind = "None"
  BY DEF Outcome, None
<1>2. result' = Outcome(kind, cause) /\ pc' = "done"
  BY DEF End
<1> QED BY <1>1, <1>2 DEF EndTyped

(* Going on keeps the outcome open.                                        *)
LEMMA OpenTyped ==
  ASSUME SessionInv, pc # "done", pc' # "done", result' = result
  PROVE  EndTyped'
BY DEF SessionInv, EndTyped

(* The planner's outcomes and times.                                       *)
LEMMA SessionTyped ==
  ASSUME TimesTyped, EndTyped, SessionInv, Session
  PROVE  TimesTyped' /\ EndTyped'
<1>1. CASE Cancel
  BY <1>1, OpenTyped DEF Cancel, TimesTyped
<1>2. CASE Tick
  <2>1. left' \in (0..MaxDeadline) \cup {NoDeadline} /\ callLeft' \in 0..CallTimeout
    BY <1>2, TimesAssumption DEF Tick, Less, TimesTyped
  <2> QED BY <1>2, <2>1, OpenTyped DEF Tick, TimesTyped, Planning
<1>3. CASE Begin
  <2>1. CASE \E kind, cause : kind # "None" /\ End(Outcome(kind, cause))
    BY <1>3, <2>1, EndsTyped DEF Begin, TimesTyped, StartCall
  <2>2. CASE StartCall("INITIAL", CallTimeout)
    BY <1>3, <2>2, OpenTyped, TimesAssumption DEF Begin, StartCall, TimesTyped, Planning
  <2> QED BY <1>3, <2>1, <2>2 DEF Begin, Canceled
<1>4. CASE Return
  <2>1. pc = "call" /\ answered' \in {"live", "cancelled", "expired"} /\ UNCHANGED <<phase, ctx, left, callLeft>>
    BY <1>4 DEF Return, TimesTyped
  <2>2. CASE \E kind, cause : kind # "None" /\ End(Outcome(kind, cause))
    BY <2>1, <2>2, EndsTyped DEF TimesTyped
  <2>3. CASE pc' \in {"repair", "validated"} /\ result' = result
    BY <2>1, <2>3, OpenTyped DEF TimesTyped, Planning
  <2> QED BY <1>4, <2>2, <2>3 DEF Return, Canceled, ModelError, InvalidAnswer
<1>5. CASE Repair
  <2>1. CASE callLeft' = callLeft /\ \E kind, cause : kind # "None" /\ End(Outcome(kind, cause))
    BY <1>5, <2>1, EndsTyped DEF Repair, TimesTyped
  <2>2. CASE /\ LeftMoreThan(RepairMinBudget + SafetyMargin)
             /\ pc' = "building" /\ callLeft' = RepairTimeout /\ result' = result
    <3>1. callLeft' \in 0..CallTimeout
      BY <2>2, TimesAssumption DEF RepairTimeout, LeftMoreThan, Least, TimesTyped
    <3> QED BY <1>5, <2>2, <3>1, OpenTyped DEF Repair, TimesTyped, Planning
  <2> QED BY <1>5, <2>1, <2>2 DEF Repair, Canceled
<1>6. CASE BuildRepair
  <2>1. CASE \E kind, cause : kind # "None" /\ End(Outcome(kind, cause))
    BY <1>6, <2>1, EndsTyped DEF BuildRepair, TimesTyped, StartCall
  <2>2. CASE StartCall("REPAIR", callLeft)
    BY <1>6, <2>2, OpenTyped DEF BuildRepair, StartCall, TimesTyped, Planning
  <2> QED BY <1>6, <2>1, <2>2 DEF BuildRepair
<1> QED BY <1>1, <1>2, <1>3, <1>4, <1>5, <1>6 DEF Session

(* The planner leaves the steps alone, and finds a draft at most.          *)
LEMMA SessionSteps ==
  ASSUME StepsTyped, Session
  PROVE  StepsTyped'
<1>1. UNCHANGED <<at, source, bound>>
  BY DEF Session, steps
<1>2. CASE plan' = plan
  <2>1. pc' \in Planning => pc \in Planning
    BY DEF Session, Cancel, Tick, Begin, Return, Repair, BuildRepair, Planning
  <2> QED BY <1>1, <1>2, <2>1 DEF StepsTyped, Sourced, Bound, Step
<1>3. CASE pc = "call" /\ \E d \in Drafts : Valid(d) /\ plan' = d
  <2>1. plan' \in Drafts /\ 0 \in 0..Len(plan')
    BY <1>3 DEF Valid, PlanShape
  <2> QED BY <1>1, <1>3, <2>1 DEF StepsTyped, Sourced, Bound, Planning
<1> QED BY <1>2, <1>3 DEF Session, Cancel, Tick, Begin, Return, Repair, BuildRepair, StartCall

(* A step gets no references but those of its own input.                   *)
LEMMA ReadySteps ==
  ASSUME NEW step, NEW from, Ready(step, from), plan' = plan, plan \in Drafts,
         step \in 0..Len(plan),
         from = <<>> \/ from[1].output \in [DOMAIN from[1].schema -> OutputValues]
  PROVE  StepsTyped'
<1>1. at' = step /\ source' = from /\ bound' = Extract(plan'[at'], from, TRUE).refs /\ pc' = "resolve"
  BY DEF Ready
<1>2. Bound'
  BY <1>1 DEF Bound, Step, Extract
<1> QED BY <1>1, <1>2 DEF StepsTyped, Sourced, Planning

(* What a step stores are values its model or tool returned: a field named *)
(* like a credential, which would be replaced, is declared by no plan.     *)
LEMMA StoredTyped ==
  ASSUME Prepared, NEW raw \in Raw,
         ProcessModelOutput(raw, Step.schema) = "ok" \/ ProcessToolOutput(raw, Step.schema) = "ok"
  PROVE  SafeOutput(raw, Step.schema) \in [DOMAIN Step.schema -> OutputValues]
<1>1. DOMAIN Step.schema \cap Sensitive = {}
  BY DraftsAssumption DEF Prepared, Valid, PlanSafe, Step
<1>2. DOMAIN Step.schema \subseteq DOMAIN raw
  BY DEF ProcessModelOutput, ProcessToolOutput, Fits
<1>3. \A f \in DOMAIN raw : raw[f] \in OutputValues
  BY DEF Raw
<1>4. SafeOutput(raw, Step.schema) = [f \in DOMAIN Step.schema |-> raw[f]]
  BY <1>1 DEF SafeOutput, Sanitized, Project
<1> QED BY <1>2, <1>3, <1>4

(* A completed step ends the plan, or hands its output to the next one.    *)
LEMMA CompletesTyped ==
  ASSUME TimesTyped, StepsTyped, SessionInv, Prepared, pc # "done",
         NEW output \in [DOMAIN Step.schema -> OutputValues], Completes(output)
  PROVE  TimesTyped' /\ StepsTyped' /\ EndTyped'
<1>1. CASE at = Len(plan)
  <2>1. End(Outcome("Completed", "")) /\ UNCHANGED <<phase, ctx, left, callLeft, answered, plan, at, source, bound>>
    BY <1>1 DEF Completes
  <2>2. EndTyped' /\ pc' = "done"
    BY <2>1, EndsTyped
  <2>3. TimesTyped'
    BY <2>1, <2>2 DEF TimesTyped
  <2> QED BY <2>1, <2>2, <2>3 DEF StepsTyped, Sourced, Bound, Step, Planning
<1>2. CASE at # Len(plan)
  <2> DEFINE from == <<[seq |-> Step.seq, schema |-> Step.schema,
                        status |-> "completed", output |-> output]>>
  <2>1. Ready(at + 1, from) /\ UNCHANGED <<phase, left, callLeft, plan, result>>
    BY <1>2 DEF Completes
  <2>2. at + 1 \in 0..Len(plan) /\ plan \in Drafts
    BY <1>2 DEF Prepared, Valid, PlanShape
  <2>3. from[1].output \in [DOMAIN from[1].schema -> OutputValues]
    OBVIOUS
  <2> HIDE DEF from
  <2>4. StepsTyped'
    BY <2>1, <2>2, <2>3, ReadySteps
  <2>5. TimesTyped'
    BY <2>1 DEF Ready, TimesTyped, Planning
  <2>6. EndTyped'
    BY <2>1, OpenTyped DEF Ready
  <2> QED BY <2>4, <2>5, <2>6
<1> QED BY <1>1, <1>2

(* So does a step that fails, whatever context it saw.                     *)
LEMMA FailsTyped ==
  ASSUME TimesTyped, StepsTyped, NEW kind, NEW cause, Fails(kind, cause), kind # "None",
         answered' \in {answered, ctx}
  PROVE  TimesTyped' /\ StepsTyped' /\ EndTyped'
<1>1. EndTyped' /\ pc' = "done"
  BY EndsTyped DEF Fails
<1>2. TimesTyped'
  BY <1>1 DEF Fails, TimesTyped
<1> QED BY <1>1, <1>2 DEF Fails, StepsTyped, Sourced, Bound, Step, Planning

(* Finishing the plan, the steps and their contexts.                       *)
LEMMA StepTyped ==
  ASSUME TimesTyped, StepsTyped, EndTyped, SessionInv, PlanInv,
         \/ Finish \/ ContextExpires \/ ResolveInput \/ RunModelStep \/ InvokeReadTool
         \/ MapReadToolResult
  PROVE  Typed'
<1>1. CASE Finish
  <2>1. CASE Canceled /\ UNCHANGED <<phase, ctx, left, callLeft, answered, plan, at, source, bound>>
    <3>1. EndTyped' /\ pc' = "done"
      BY <2>1, EndsTyped DEF Canceled
    <3> QED BY <2>1, <3>1 DEF Typed, TimesTyped, StepsTyped, Sourced, Bound, Step, Planning
  <2>2. CASE Ready(1, <<>>) /\ left' = NoDeadline /\ callLeft' = 0 /\ UNCHANGED <<phase, plan, result>>
    <3>1. plan \in Drafts /\ 1 \in 0..Len(plan) /\ pc # "done"
      BY <1>1 DEF Finish, PlanInv, Valid, PlanShape
    <3>2. StepsTyped'
      BY <2>2, <3>1, ReadySteps
    <3>3. TimesTyped'
      BY <2>2, TimesAssumption DEF Ready, TimesTyped
    <3>4. EndTyped'
      BY <2>2, <3>1, OpenTyped DEF Ready
    <3> QED BY <3>2, <3>3, <3>4 DEF Typed
  <2> QED BY <1>1, <2>1, <2>2 DEF Finish
<1>2. ASSUME pc \in {"resolve", "run", "invoked"}, pc' \in {"resolve", "run", "invoked"},
             ctx' \in {ctx, "expired"},
             UNCHANGED <<phase, left, callLeft, answered, plan, result, at, source, bound>>
      PROVE  Typed'
  <2>1. TimesTyped' /\ EndTyped'
    BY <1>2, OpenTyped DEF TimesTyped
  <2>2. StepsTyped'
    BY <1>2 DEF StepsTyped, Sourced, Bound, Step, Planning
  <2> QED BY <2>1, <2>2 DEF Typed
<1>3. ASSUME NEW kind \in {"Failed", "Stale", "RuntimeFatal"}, NEW cause, Fails(kind, cause),
             answered' \in {answered, ctx}
      PROVE  Typed'
  BY <1>3, FailsTyped DEF Typed
<1>4. ASSUME NEW raw \in Raw, Prepared, pc # "done", Completes(SafeOutput(raw, Step.schema)),
             ProcessModelOutput(raw, Step.schema) = "ok" \/ ProcessToolOutput(raw, Step.schema) = "ok"
      PROVE  Typed'
  BY <1>4, StoredTyped, CompletesTyped DEF Typed
<1>5. CASE ContextExpires
  BY <1>2, <1>5 DEF ContextExpires
<1>6. CASE ResolveInput
  <2>1. Resolve(Step, source, bound).kind \in {"ok", "Failed", "RuntimeFatal"}
    BY DEF Resolve, Found, Unresolved
  <2> QED BY <1>2, <1>3, <1>6, <2>1 DEF ResolveInput
<1>7. CASE RunModelStep
  <2>1. Prepared /\ pc # "done"
    BY <1>7 DEF RunModelStep, PlanInv
  <2> QED BY <1>3, <1>4, <1>7, <2>1 DEF RunModelStep, ModelClientFails, RefusesOutput
<1>8. CASE InvokeReadTool
  BY <1>2, <1>3, <1>8 DEF InvokeReadTool
<1>9. CASE MapReadToolResult
  <2>1. Prepared /\ pc # "done"
    BY <1>9 DEF MapReadToolResult, PlanInv
  <2> QED BY <1>3, <1>4, <1>9, <2>1 DEF MapReadToolResult, RefusesOutput
<1> QED BY <1>1, <1>5, <1>6, <1>7, <1>8, <1>9

(* Every variable of planner and steps keeps its type: in particular no    *)
(* time runs below zero or over its limit, what a step stored has exactly  *)
(* the fields its schema declares, and the references a checkpoint         *)
(* recorded are in the input of the step that runs.                        *)
THEOREM TypeCorrect == Spec => []TypeOK
<1>1. Init => Typed
  BY TimesAssumption DEF Init, SessionInit, Typed, TimesTyped, StepsTyped, EndTyped, Sourced, Bound, Planning
<1>2. Typed /\ SessionInv /\ PlanInv /\ [Next]_vars => Typed'
  <2>1. Typed /\ UNCHANGED vars => Typed'
    BY DEF Typed, TimesTyped, StepsTyped, EndTyped, Sourced, Bound, Step, vars
  <2> QED BY <2>1, SessionTyped, SessionSteps, StepTyped DEF Next, Typed
<1>3. Typed => TypeOK
  BY DEF Typed, TimesTyped, StepsTyped, EndTyped, Sourced, Bound, Planning, TypeOK
<1> QED BY <1>1, <1>2, <1>3, SessionKeeps, PlanKeeps, PTL DEF Spec
=============================================================================
