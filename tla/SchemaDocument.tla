--------------------------- MODULE SchemaDocument ---------------------------
(***************************************************************************)
(* Schema documents: how they are read (src/crates/parser/src/schema/      *)
(* grammar.rs), the tree that comes of it (schema/ast.rs) and how a tree   *)
(* is written (schema/format.rs).  Positions are left out.                 *)
(***************************************************************************)
EXTENDS Values

Locations == {
  "QUERY", "MUTATION", "SUBSCRIPTION", "FIELD", "FRAGMENT_DEFINITION",
  "FRAGMENT_SPREAD", "INLINE_FRAGMENT", "SCHEMA", "SCALAR", "OBJECT",
  "FIELD_DEFINITION", "ARGUMENT_DEFINITION", "INTERFACE", "UNION", "ENUM",
  "ENUM_VALUE", "INPUT_OBJECT", "INPUT_FIELD_DEFINITION"}

------------------------------------------------------------------------------
(* Reading.                                                                  *)

described == optional(string)

\* The operations of a schema, each a pair <<operation, type>>.
schema ==
  AndThen("schema", Struct(<<
    <<"directives", With(ident("schema"), directives)>>,
    <<"operations", Between("{", many(And(Skip(name, punct(":")), name)), "}")>> >>))

ValidOperations(operations) ==
  /\ \A i \in DOMAIN operations : operations[i][1] \in {"query", "mutation", "subscription"}
  /\ \A i, j \in DOMAIN operations : operations[i][1] = operations[j][1] => i = j

\* Mutation: the last two operations change places.
BugSchemaFrom(r) ==
  LET root(operation) ==
        LET of == SelectSeq(r.operations, LAMBDA o : o[1] = operation)
        IN  [i \in DOMAIN of |-> of[i][2]]
  IN  [directives |-> r.directives, query |-> root("query"),
       mutation |-> root("subscription"), subscription |-> root("mutation")]

SchemaFrom(r) ==
  LET root(operation) ==
        LET of == SelectSeq(r.operations, LAMBDA o : o[1] = operation)
        IN  [i \in DOMAIN of |-> of[i][2]]
  IN  [directives |-> r.directives, query |-> root("query"),
       mutation |-> root("mutation"), subscription |-> root("subscription")]

implements_interfaces ==
  OrEmpty(optional(
    With(Skip(ident("implements"), optional(punct("&"))), sep_by1(name, punct("&")))))

default == optional(With(punct("="), Call("default_value")))

input_value == Struct(<<
  <<"description", described>>, <<"name", name>>,
  <<"value_type", With(punct(":"), Call("parse_type"))>>,
  <<"default_value", default>>, <<"directives", directives>> >>)

arguments_definition == OrEmpty(optional(Between("(", many1(input_value), ")")))

field == Struct(<<
  <<"description", described>>, <<"name", name>>,
  <<"arguments", arguments_definition>>,
  <<"field_type", With(punct(":"), Call("parse_type"))>>,
  <<"directives", directives>> >>)

fields == OrEmpty(optional(Between("{", many1(field), "}")))
input_fields == OrEmpty(optional(Between("{", many1(input_value), "}")))
union_members == With(optional(punct("|")), sep_by1(name, punct("|")))

enum_values ==
  Between("{", many1(Struct(<<
    <<"description", described>>, <<"name", name>>, <<"directives", directives>> >>)), "}")

\* What a definition of a type and an extension of it have in common.
Named(word) == <<"name", With(ident(word), name)>>
scalar_parts == << Named("scalar"), <<"directives", directives>> >>
object_parts == <<
  Named("type"), <<"implements_interfaces", implements_interfaces>>,
  <<"directives", directives>>, <<"fields", fields>> >>
interface_parts == << Named("interface"), <<"directives", directives>>, <<"fields", fields>> >>
union_parts == <<
  Named("union"), <<"directives", directives>>,
  <<"types", OrEmpty(optional(With(punct("="), union_members)))>> >>
enum_parts == <<
  Named("enum"), <<"directives", directives>>, <<"values", OrEmpty(optional(enum_values))>> >>
input_object_parts == << Named("input"), <<"directives", directives>>, <<"fields", input_fields>> >>

scalar_type == Struct(scalar_parts)
object_type == Struct(object_parts)
interface_type == Struct(interface_parts)
union_type == Struct(union_parts)
enum_type == Struct(enum_parts)
input_object_type == Struct(input_object_parts)

\* An extension that says nothing is refused.
SaysSomething(r) == \E part \in DOMAIN r \ {"name"} : ~IsEmpty(r[part])
Extension(parts) == AndThen("extension", Struct(parts))

scalar_type_extension == Extension(scalar_parts)
object_type_extension == Extension(object_parts)
interface_type_extension == Extension(interface_parts)
union_type_extension == Extension(union_parts)
enum_type_extension == Extension(enum_parts)
input_object_type_extension == Extension(input_object_parts)

directive_locations ==
  OrEmpty(optional(
    With(optional(punct("|")), sep_by1(AndThen("location", name), punct("|")))))

directive_definition == Struct(<<
  <<"name", With(And(ident("directive"), punct("@")), name)>>,
  <<"arguments", arguments_definition>>,
  <<"repeatable", IsSome(ident("repeatable"))>>,
  <<"locations", With(ident("on"), directive_locations)>> >>)

type_definition == choice(<<
  Variant("Scalar", scalar_type), Variant("Object", object_type),
  Variant("Interface", interface_type), Variant("Union", union_type),
  Variant("Enum", enum_type), Variant("InputObject", input_object_type)>>)

\* described_definition sets the description in the definition that follows it.
WithDescription(struct, description) ==
  [f \in DOMAIN struct \cup {"description"} |->
     IF f = "description" THEN description ELSE struct[f]]

Described(r) ==
  IF r[2][1] = "TypeDefinition"
  THEN <<"TypeDefinition", <<r[2][2][1], WithDescription(r[2][2][2], r[1])>> >>
  ELSE <<"DirectiveDefinition", WithDescription(r[2][2], r[1])>>

described_definition ==
  Map("described",
    And(described, choice(<<Variant("TypeDefinition", type_definition),
                            Variant("DirectiveDefinition", directive_definition)>>)))

type_extension ==
  With(ident("extend"), choice(<<
    Variant("Scalar", scalar_type_extension), Variant("Object", object_type_extension),
    Variant("Interface", interface_type_extension), Variant("Union", union_type_extension),
    Variant("Enum", enum_type_extension), Variant("InputObject", input_object_type_extension)>>))

definition == choice(<<
  Variant("SchemaDefinition", Map("schema", schema)),
  Variant("TypeExtension", type_extension),
  described_definition>>)

------------------------------------------------------------------------------
(* Writing.                                                                  *)

description(d) == [i \in DOMAIN d |-> <<"StringValue", d[i]>>]

DisplaySchemaDefinition(s) ==
  LET root(operation, type) ==
        Each(LAMBDA t : <<N(operation), P(":"), N(t)>>, type)
  IN  <<N("schema")>> \o format_directives(s.directives)
        \o Block(root("query", s.query) \o root("mutation", s.mutation)
                   \o root("subscription", s.subscription))

DisplayInputValue(v) ==
  description(v.description) \o <<N(v.name), P(":")>> \o DisplayType(v.value_type)
    \o Each(LAMBDA d : <<P("=")>> \o DisplayValue(d), v.default_value)
    \o format_directives(v.directives)

format_argument_definitions(args) ==
  IF IsEmpty(args) THEN <<>> ELSE <<P("(")>> \o Each(DisplayInputValue, args) \o <<P(")")>>

DisplayField(f) ==
  description(f.description) \o <<N(f.name)>> \o format_argument_definitions(f.arguments)
    \o <<P(":")>> \o DisplayType(f.field_type) \o format_directives(f.directives)

BlockUnlessEmpty(Display(_), items) ==
  IF IsEmpty(items) THEN <<>> ELSE Block(Each(Display, items))
format_fields(fs) == BlockUnlessEmpty(DisplayField, fs)
format_inputs(fs) == BlockUnlessEmpty(DisplayInputValue, fs)

DisplayEnumValue(v) ==
  description(v.description) \o <<N(v.name)>> \o format_directives(v.directives)

Header(word, t) == <<N(word), N(t.name)>>

DisplayScalar(t) == Header("scalar", t) \o format_directives(t.directives)
DisplayObject(t) ==
  Header("type", t)
    \o (IF IsEmpty(t.implements_interfaces) THEN <<>>
        ELSE <<N("implements")>>
               \o Separated(LAMBDA i : <<N(i)>>, t.implements_interfaces, P("&")))
    \o format_directives(t.directives) \o format_fields(t.fields)
DisplayInterface(t) ==
  Header("interface", t) \o format_directives(t.directives) \o format_fields(t.fields)
DisplayUnion(t) ==
  Header("union", t) \o format_directives(t.directives)
    \o (IF IsEmpty(t.types) THEN <<>>
        ELSE <<P("=")>> \o Separated(LAMBDA m : <<N(m)>>, t.types, P("|")))
DisplayEnum(t) ==
  Header("enum", t) \o format_directives(t.directives)
    \o BlockUnlessEmpty(DisplayEnumValue, t.values)
DisplayInputObject(t) ==
  Header("input", t) \o format_directives(t.directives) \o format_inputs(t.fields)

\* The same for a definition and an extension of it: what differs comes before.
DisplayBody(t) ==
  CASE t[1] = "Scalar" -> DisplayScalar(t[2])
    [] t[1] = "Object" -> DisplayObject(t[2])
    [] t[1] = "Interface" -> DisplayInterface(t[2])
    [] t[1] = "Union" -> DisplayUnion(t[2])
    [] t[1] = "Enum" -> DisplayEnum(t[2])
    [] t[1] = "InputObject" -> DisplayInputObject(t[2])

DisplayTypeDefinition(t) == description(t[2].description) \o DisplayBody(t)
DisplayTypeExtension(t) == <<N("extend")>> \o DisplayBody(t)

\* The word "on" is written inside the test for locations.
DisplayDirectiveDefinition(d) ==
  description(d.description) \o <<N("directive"), P("@"), N(d.name)>>
    \o format_argument_definitions(d.arguments)
    \o (IF d.repeatable THEN <<N("repeatable")>> ELSE <<>>)
    \o (IF IsEmpty(d.locations) THEN <<>>
        ELSE <<N("on")>> \o Separated(LAMBDA l : <<N(l)>>, d.locations, P("|")))

DisplayDefinition(d) ==
  CASE d[1] = "SchemaDefinition" -> DisplaySchemaDefinition(d[2])
    [] d[1] = "TypeDefinition" -> DisplayTypeDefinition(d[2])
    [] d[1] = "TypeExtension" -> DisplayTypeExtension(d[2])
    [] d[1] = "DirectiveDefinition" -> DisplayDirectiveDefinition(d[2])

DisplayDocument(definitions) == Each(DisplayDefinition, definitions)

------------------------------------------------------------------------------
(* What is lost when a schema is written and read: a float that is written   *)
(* as an integer or a word, and a directive that may stand nowhere.          *)

InputSurvives(v) ==
  /\ \A i \in DOMAIN v.default_value : ValueSurvives(v.default_value[i])
  /\ DirectivesSurvive(v.directives)
InputsSurvive(vs) == \A i \in DOMAIN vs : InputSurvives(vs[i])

BodySurvives(t) ==
  /\ DirectivesSurvive(t[2].directives)
  /\ t[1] = "InputObject" => InputsSurvive(t[2].fields)
  /\ t[1] = "Enum" => \A i \in DOMAIN t[2].values : DirectivesSurvive(t[2].values[i].directives)
  /\ t[1] \in {"Object", "Interface"} =>
       \A i \in DOMAIN t[2].fields :
         /\ InputsSurvive(t[2].fields[i].arguments)
         /\ DirectivesSurvive(t[2].fields[i].directives)

DefinitionSurvives(d) ==
  CASE d[1] = "SchemaDefinition" -> DirectivesSurvive(d[2].directives)
    [] d[1] \in {"TypeDefinition", "TypeExtension"} -> BodySurvives(d[2])
    [] d[1] = "DirectiveDefinition" -> ~IsEmpty(d[2].locations) /\ InputsSurvive(d[2].arguments)

Survives(definitions) == \A i \in DOMAIN definitions : DefinitionSurvives(definitions[i])
==============================================================================
