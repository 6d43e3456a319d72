------------------------------- MODULE Props -------------------------------
(***************************************************************************)
(* The props contract of a component, which is checked four times: against *)
(* the fields the compiler reads off the component's source, against the   *)
(* literals of a call in a template, against the values of the call when   *)
(* it is rendered, and when those are stored in the fields.  Each check    *)
(* has rules of its own for what fits a field.                             *)
(*                                                                         *)
(* Numbers are counted in halves, so that 5 is 2.5, and the widths of Go's *)
(* types are scaled down.  A value is a [is, x]: is its type, "text" for a *)
(* string that is no number, "numeral" for one that is.                    *)
(***************************************************************************)
EXTENDS Integers, FiniteSets, SequencesExt

CONSTANT TypecheckProps   \* off with --no-typecheck-props

ASSUME TypecheckPropsAssumption == TypecheckProps \in BOOLEAN

Value(is, x) == [is |-> is, x |-> x]
Nil   == Value("nil", 0)
Unset == Value("unset", 0)
Fault == Value("fault", 0)

\* What a call may pass.
AnyValue == {v \in [is : STRING, x : Int] :
               v.is \notin {"unset", "fault"} /\ (v.is = "nil" => v.x = 0)}

Field(name, type, required) == [name |-> name, type |-> type, required |-> required]

Ints    == {"int", "int64", "int8"}
Uints   == {"uint", "uint8"}
Floats  == {"float64", "float32"}
Numbers == Ints \cup Uints \cup Floats
Strings == {"string", "html", "named"}   \* named: type Variant string
Nilable == {"pointer", "error"}

\* Type names the compiler cannot resolve.
Unresolved == {"named", "attrs", "local", "imported"}

Width(t) == IF t \in {"int8", "uint8"} THEN 4 ELSE 16
Bounds(t) == IF t \in Uints THEN 0 .. Width(t) - 1 ELSE -(Width(t) \div 2) .. Width(t) \div 2 - 1

Whole(v)  == v.x % 2 = 0
Amount(v) == v.x \div 2
Truncate(v) == IF v.x < 0 THEN -((-v.x) \div 2) ELSE v.x \div 2

FitsFloat32(v) == v.x \in -40 .. 40

\* A float64 holds every small integer, and every other larger one.
ExactFloat(v) == v.x \in -8 .. 8 \/ Amount(v) % 2 = 0

Wrap(n, t) == CHOOSE m \in Bounds(t) : (m - n) % Width(t) = 0

-----------------------------------------------------------------------------
(* The component as the compiler reads it.  A component is its struct      *)
(* types, each a [name, fields], and whether it renders .Children.         *)

HasProps(c) == \E i \in DOMAIN c.types : c.types[i].name = "Props"

\* Mutant: the fields of the last struct.
ParseLastStruct(c) == IF c.types = <<>> THEN <<>> ELSE Last(c.types).fields

\* ParseStructFields: the fields of the first struct.
ParseStructFields(c) == IF c.types = <<>> THEN <<>> ELSE c.types[1].fields

\* ScanComponents, gatherComponentSchemas: what the calls are checked against.
Schema(c) == IF HasProps(c) THEN ParseStructFields(c) ELSE <<>>

\* The fields the component has.
PropsFields(c) ==
  LET props == SelectSeq(c.types, LAMBDA t : t.name = "Props")
  IN IF props = <<>> THEN <<>> ELSE props[1].fields

FieldNames(fields) == {fields[i].name : i \in DOMAIN fields}
HasRestBag(fields) == \E i \in DOMAIN fields : fields[i].type = "attrs"

\* renderTmpl: the props type of a component in Go is its own struct, or one with the
\* fields the compiler read and Children.
RenderProps(c) ==
  [fields |-> IF c.children THEN Schema(c) ELSE PropsFields(c), children |-> c.children]

\* For a component with children render.go spells the fields out,
\* in a file that imports nothing of the component and has none of its types.
RenderGoBuilds(c) ==
  c.children /\ HasProps(c) =>
    /\ ToSet(Schema(c)) \subseteq ToSet(PropsFields(c))
    /\ \A i \in DOMAIN Schema(c) : Schema(c)[i].type \notin {"local", "imported", "named"}

-----------------------------------------------------------------------------
(* validate.go, typecheck_props.go: the call in the template.  A call is a *)
(* [form, dynamic, entries]: bare, dict, wrap or wrapdict; whether a key   *)
(* is computed; and <<key, value>> pairs.                                  *)

Computed(v)  == v.is \notin {"text", "numeral", "int", "float64", "bool", "nil"}

IsInt(v)  == Whole(v) /\ Amount(v) \in Bounds("int")
IsUint(v) == Whole(v) /\ Amount(v) \in Bounds("uint")

\* Mutant: a literal may be wider than its field.
LiteralOfKind(v, t) ==
  CASE t = "any" -> TRUE
    [] v.is = "nil" /\ t # "any" -> t \in Nilable
    [] v.is \in {"text", "numeral"} /\ t # "any" -> t \in {"string", "html"}
    [] v.is = "bool" /\ t # "any" -> t = "bool"
    [] OTHER -> (t \in Ints /\ IsInt(v)) \/ (t \in Uints /\ IsUint(v)) \/ t \in Floats \cup {"complex"}

LiteralAssignable(v, t) ==
  CASE t = "any" -> TRUE
    [] v.is = "nil" /\ t # "any" -> t \in Nilable
    [] v.is \in {"text", "numeral"} /\ t # "any" -> t \in {"string", "html"}
    [] v.is = "bool" /\ t # "any" -> t = "bool"
    [] OTHER -> CASE t \in Ints  -> IsInt(v)  /\ (Width(t) = 16 \/ Amount(v) \in Bounds(t))
                  [] t \in Uints -> IsUint(v) /\ (Width(t) = 16 \/ Amount(v) \in Bounds(t))
                  [] t = "float32" -> FitsFloat32(v)
                  [] OTHER       -> t \in {"float64", "complex"}

LiteralTypeMismatch(v, t) ==
  TypecheckProps /\ ~Computed(v) /\ t \notin Unresolved /\ ~LiteralAssignable(v, t)

Keys(call) == {call.entries[k][1] : k \in DOMAIN call.entries}

\* The keys that are no fields and still mean something.
SyntheticPropKey(name) ==
  CASE name = "Children" -> "children" [] name = "__children" -> "deprecated" [] OTHER -> "none"

\* What is wrong with the key and the value of one entry.
EntryFault(fields, e) ==
  LET field == {i \in DOMAIN fields : fields[i].name = e[1]}
      key   == SyntheticPropKey(e[1])
  IN CASE key = "children"               -> ""
       [] key = "deprecated"             -> "deprecated key"
       [] key = "none" /\ field # {}     ->
            IF LiteralTypeMismatch(e[2], fields[Max(field)].type) THEN "prop type" ELSE ""
       [] OTHER -> IF HasRestBag(fields) THEN "" ELSE "unknown prop"

\* ValidateDictKeysFromAST, for one call: <<severity, what, of>>.
ValidateDictKeys(fields, call) ==
  LET given == Keys(call) \cup (IF call.form \in {"wrap", "wrapdict"} THEN {"Children"} ELSE {})
      entry(k) == EntryFault(fields, call.entries[k])
      faulty == {k \in DOMAIN call.entries : entry(k) # ""}
      absent == {i \in DOMAIN fields : fields[i].required /\ fields[i].name \notin given}
  IN IF fields = <<>> \/ call.dynamic THEN {}
     ELSE IF call.form = "bare" THEN {<<"error", "requires props", fields[1].name>>}
     ELSE {<<IF entry(k) = "deprecated key" THEN "warning" ELSE "error", entry(k),
             call.entries[k][1]>> : k \in faulty}
          \cup {<<"error", "missing required prop", fields[i].name>> : i \in absent}

-----------------------------------------------------------------------------
(* props_check.go, props.go: the call when it is rendered.                 *)

\* dict: the last entry of a key counts.
Dict(call) ==
  [key \in Keys(call) |->
     call.entries[Max({k \in DOMAIN call.entries : call.entries[k][1] = key})][2]]

GoType(v) == IF v.is \in {"text", "numeral"} THEN "string" ELSE v.is

\* Mutant: a fraction converts to an int.
ConvertsInRange(v, t) ==
  IF t \in Floats THEN (v.is \notin Floats => ExactFloat(v)) /\ (t = "float32" => FitsFloat32(v))
  ELSE Truncate(v) \in Bounds(t)

ConvertsExactly(v, t) ==
  IF t \in Floats THEN (v.is \notin Floats => ExactFloat(v)) /\ (t = "float32" => FitsFloat32(v))
  ELSE Whole(v) /\ Amount(v) \in Bounds(t)

StrictAssignable(v, t) ==
  \/ v.is = "nil" /\ t \in Nilable \cup {"any"}
  \/ v.is # "nil" /\ (t = "any" \/ GoType(v) = t)
  \/ GoType(v) = "string" /\ t \in Strings
  \/ v.is \in Numbers /\ t \in Numbers /\ ConvertsExactly(v, t)

\* The fields CheckPropTypes reports.
CheckPropTypes(fields, dict) ==
  {i \in DOMAIN fields : /\ fields[i].type # "attrs" /\ fields[i].name \in DOMAIN dict
                         /\ ~StrictAssignable(dict[fields[i].name], fields[i].type)}

\* ParseBool, ParseInt and ParseFloat of a string.
SetField(v, t) ==
  CASE v.is = "nil"                        -> Unset
    [] v.is # "nil" /\ (t = "any" \/ GoType(v) = t) -> v
    [] v.is # "nil" /\ t \in Strings \ {GoType(v)} ->
                                              IF GoType(v) = "string" THEN v ELSE Value("numeral", v.x)
    [] t = "bool" /\ v.is = "numeral"      -> IF v.x \in {0, 2} THEN Value("bool", v.x) ELSE Fault
    [] t \in Ints /\ v.is = "numeral"      -> IF Whole(v) THEN Value(t, 2 * Wrap(Amount(v), t)) ELSE Fault
    [] t \in Ints /\ v.is \in ({"int", "int64"} \cup Floats) \ {t} -> Value(t, 2 * Wrap(Truncate(v), t))
    [] t \in Floats /\ v.is \in ({"int", "numeral"} \cup Floats) \ {t} -> Value(t, v.x)
    [] OTHER                               -> Fault

\* MapToStruct: the fields by name; an Attrs field takes the other keys.
MapToStruct(fields, dict) ==
  LET rest == DOMAIN dict \ ({fields[i].name : i \in DOMAIN fields} \cup {"Children", "__children"})
  IN [i \in DOMAIN fields |->
        CASE fields[i].type = "attrs"          -> IF rest = {} THEN Unset ELSE Value("attrs", 1)
          [] fields[i].type # "attrs" /\ fields[i].name \in DOMAIN dict
                                               -> SetField(dict[fields[i].name], fields[i].type)
          [] OTHER                             -> Unset]

IsZero(v, t) == v = Unset \/ (t \notin {"any", "attrs"} /\ v.x = 0 /\ v.is # "numeral")

\* CheckRequiredProps.
CheckRequiredProps(fields, props) ==
  {i \in DOMAIN fields : fields[i].required /\ IsZero(props[i], fields[i].type)}

\* propsHaveRequiredField: the generated function asks only then.
HasRequired(fields) == \E i \in DOMAIN fields : fields[i].required

\* componentTmpl: PropsViolation ends a render in development and only logs in
\* production; a value no field takes renders nothing, and only logs, in both.
RenderComponent(fields, call, dev) ==
  LET dict  == Dict(call)
      props == MapToStruct(fields, dict)
      as(result, p) == [result |-> result, props |-> p]
  IN IF dev /\ TypecheckProps /\ CheckPropTypes(fields, dict) # {} THEN as("violation", <<>>)
     ELSE IF \E i \in DOMAIN props : props[i] = Fault THEN as("nothing", <<>>)
     ELSE IF dev /\ HasRequired(fields) /\ CheckRequiredProps(fields, props) # {} THEN as("violation", <<>>)
     ELSE as("rendered", props)
=============================================================================
