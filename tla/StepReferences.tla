---------------------------- MODULE StepReferences ----------------------------
(***************************************************************************)
(* The values of a step's input and output and the one extractor of        *)
(* references that planner, checkpoints and step executor share.  A value  *)
(* is its JSON kind and what the program tells apart in it: the type of a  *)
(* literal, the field a string refers to, the member of an object.         *)
(***************************************************************************)
EXTENDS Naturals, Sequences, FiniteSets

CONSTANTS Fields     \* names of output fields

Types == {"String", "Integer", "Number", "Boolean", "Object"}
Value(kind, of) == [kind |-> kind, of |-> of]

Literal(type) == Value("literal", type)   \* an ordinary text, a number, {} ...
Blank == Value("blank", "")               \* a text of white space
Null == Value("null", "")
Ref(f) == Value("ref", f)                 \* the whole string is step.output.f
BadRef == Value("badref", "")             \* the reserved prefix, no field name
Expression == Value("expression", "")     \* a reference inside a template
Object(member) == Value("object", member) \* {"member": what the name says}
ObjectRef(f) == Value("objectref", f)     \* {"member": "step.output.f"}
Members == {"text", "null", "other"}      \* "other": no member of that name

Values ==
  {Literal(t) : t \in Types} \cup {Ref(f) : f \in Fields} \cup {ObjectRef(f) : f \in Fields}
    \cup {Object(m) : m \in Members} \cup {Blank, Null, BadRef, Expression}

(* every value but null has one type; integers are numbers too *)
TypeOf(v) ==
  CASE v.kind = "literal" -> v.of
    [] v.kind \in {"object", "objectref"} -> "Object"
    [] v.kind = "null" -> "Null"
    [] OTHER -> "String"
MatchesType(v, type) == TypeOf(v) = type \/ (TypeOf(v) = "Integer" /\ type = "Number")
ContainsNull(v) == v = Null \/ v = Object("null")

(* What each step type takes: a text and an object, by their roles.        *)
(* prompt, instruction, criteria: text; context, evidence: data            *)
NonToolTypes == {"ModelCall", "Analysis", "Verification"}
NonToolInputContract(type) ==
  [text |-> [type |-> "String", required |-> TRUE, reference |-> type # "Verification"],
   data |-> [type |-> "Object", required |-> type # "ModelCall", reference |-> TRUE]]

----------------------------------------------------------------------------
(* Extraction.  A step is a record with seq, type, tool, input (a function *)
(* of field names) and schema (a function of output fields); a source is   *)
(* the step before it with its status and, once completed, its output.     *)

Reference(path, f) == [path |-> path, field |-> f]
ReferencesIn(input) ==
  {Reference(<<n>>, input[n].of) : n \in {m \in DOMAIN input : input[m].kind = "ref"}}
    \cup {Reference(<<n, "member">>, input[n].of) :
            n \in {m \in DOMAIN input : input[m].kind = "objectref"}}

ImmediatelyBefore(source, step) ==
  source # <<>> /\ step.seq > 1 /\ source[1].seq + 1 = step.seq

ValidSource(source, step, f, persisted) ==
  /\ ImmediatelyBefore(source, step)
  /\ f \in DOMAIN source[1].schema
  /\ persisted => source[1].status = "completed" /\ f \in DOMAIN source[1].output

(* The references of a step's input, or the fault the walk ends with       *)
Extract(step, source, persisted) ==
  LET refs == ReferencesIn(step.input)
      syntax == \E n \in DOMAIN step.input : step.input[n] \in {BadRef, Expression}
      sourced == \A r \in refs : ValidSource(source, step, r.field, persisted)
  IN  [refs |-> IF syntax \/ ~sourced THEN {} ELSE refs,
       fault |-> syntax \/ ~sourced]
=============================================================================
