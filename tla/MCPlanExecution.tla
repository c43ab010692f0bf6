---------------------------- MODULE MCPlanExecution ----------------------------
EXTENDS PlanExecutionProperties, TLC

MCFields == {"f", "secret"}
MCSensitive == {"secret"}

Tool(type, nullable, allowed, enabled) ==
  [type |-> type, nullable |-> nullable, allowed |-> allowed, enabled |-> enabled]
MCTools == [text   |-> Tool("String", FALSE, TRUE, TRUE),
            number |-> Tool("Number", TRUE, TRUE, TRUE),
            count  |-> Tool("Integer", FALSE, TRUE, TRUE),
            object |-> Tool("Object", FALSE, TRUE, TRUE),
            denied |-> Tool("String", FALSE, FALSE, TRUE),
            off    |-> Tool("String", FALSE, TRUE, FALSE)]

MCOutputValues ==
  {Literal(t) : t \in Types \ {"Object"}}
    \cup {Blank, Null, Object("text"), Object("other"), Object("null"), Ref("f")}

----------------------------------------------------------------------------
(* A first step that leaves a field of some type, a second one that makes  *)
(* any use of it at one place, and a final verification.                   *)

Step_(seq, type, tool, input, type_f) ==
  [seq |-> seq, type |-> type, tool |-> tool, input |-> input, schema |-> ("f" :> type_f)]
Plain == [text |-> Literal("String"), data |-> Literal("Object")]

Firsts == {Step_(1, "Analysis", NoTool, Plain, t) : t \in Types}
            \cup {Step_(1, "ToolCall", "text", "arg" :> Literal("String"), "Object")}
Inputs(type) ==
  IF type = "ToolCall" THEN {"arg" :> v : v \in Values}
  ELSE {[Plain EXCEPT ![n] = v] : n \in {"text", "data"}, v \in Values}
         \cup {"text" :> Literal("String"), "data" :> Literal("Object")}
Seconds ==
  UNION {{Step_(2, type, NoTool, i, "String") : i \in Inputs(type)} : type \in NonToolTypes}
    \cup {Step_(2, "ToolCall", t, i, "String") : t \in DOMAIN MCTools, i \in Inputs("ToolCall")}
Final(seq, input) == Step_(seq, "Verification", NoTool, input, "Boolean")

Full == {<<a, b>> \o (IF b.type = "Verification" THEN <<>> ELSE <<Final(3, Plain)>>) :
           a \in Firsts, b \in Seconds}

(* a reference past a step whose field has another type, or in the first   *)
(* step, no final step, no step at all, a step too many, a number skipped, *)
(* a credential among the outputs, no outputs, a tool for an analysis      *)
OneFirst == Step_(1, "Analysis", NoTool, Plain, "Object")
Second == Step_(2, "Analysis", NoTool, Plain, "Boolean")
Referring == [Plain EXCEPT !.data = Ref("f")]
Odd == {
  <<OneFirst, Second, Final(3, Referring)>>, <<Final(1, Referring)>>, <<OneFirst>>, <<>>,
  <<OneFirst, Second, Second, Final(4, Plain)>>, <<OneFirst, Final(3, Plain)>>,
  <<[OneFirst EXCEPT !.schema = "secret" :> "String"], Final(2, Plain)>>,
  <<[OneFirst EXCEPT !.schema = <<>>], Final(2, Plain)>>,
  <<[OneFirst EXCEPT !.tool = "text"], Final(2, Plain)>> }

MCDrafts == Full \cup Odd
=============================================================================
