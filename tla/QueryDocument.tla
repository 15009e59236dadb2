--------------------------- MODULE QueryDocument ---------------------------
(***************************************************************************)
(* Query documents: how they are read (src/crates/parser/src/query/        *)
(* grammar.rs), the tree that comes of it (query/ast.rs) and how a tree is *)
(* written (query/format.rs).  A SelectionSet is the sequence of its       *)
(* items; positions are left out.                                          *)
(***************************************************************************)
EXTENDS Values

------------------------------------------------------------------------------
(* Reading.                                                                  *)

\* Mutation: the name and the alias change places.
BugFieldFrom(r) ==
  [name |-> r.name_or_alias, alias |-> r.renamed, arguments |-> r.arguments,
   directives |-> r.directives, selection_set |-> r.selection_set]

\* map of field: what comes before a colon is the alias.
FieldFrom(r) ==
  [name |-> IF IsEmpty(r.renamed) THEN r.name_or_alias ELSE r.renamed[1],
   alias |-> IF IsEmpty(r.renamed) THEN <<>> ELSE <<r.name_or_alias>>,
   arguments |-> r.arguments,
   directives |-> r.directives,
   selection_set |-> r.selection_set]

field ==
  Map("field", Struct(<<
    <<"name_or_alias", name>>,
    <<"renamed", optional(With(punct(":"), name))>>,
    <<"arguments", arguments>>,
    <<"directives", directives>>,
    <<"selection_set", OrEmpty(optional(Call("selection_set")))>> >>))

On == Variant("On", With(ident("on"), name))

InlineFragment == Struct(<<
  <<"type_condition", optional(On)>>,
  <<"directives", directives>>,
  <<"selection_set", Call("selection_set")>> >>)

FragmentSpread == Struct(<< <<"fragment_name", name>>, <<"directives", directives>> >>)

selection == choice(<<
  Variant("Field", field),
  With(punct("..."), choice(<<Variant("InlineFragment", InlineFragment),
                              Variant("FragmentSpread", FragmentSpread)>>))>>)

selection_set == Between("{", many1(selection), "}")

VariableDefinition == Struct(<<
  <<"name", Skip(With(punct("$"), name), punct(":"))>>,
  <<"var_type", Call("parse_type")>>,
  <<"default_value", optional(With(punct("="), Call("default_value")))>> >>)

operation_common == Struct(<<
  <<"name", optional(name)>>,
  <<"variable_definitions", OrEmpty(optional(Between("(", many1(VariableDefinition), ")")))>>,
  <<"directives", directives>>,
  <<"selection_set", selection_set>> >>)

query == With(ident("query"), operation_common)
mutation == With(ident("mutation"), operation_common)
subscription == With(ident("subscription"), operation_common)

operation_definition == choice(<<
  Variant("SelectionSet", selection_set), Variant("Query", query),
  Variant("Mutation", mutation), Variant("Subscription", subscription)>>)

fragment_definition == Struct(<<
  <<"name", With(ident("fragment"), name)>>,
  <<"type_condition", On>>,
  <<"directives", directives>>,
  <<"selection_set", selection_set>> >>)

definition == choice(<<
  Variant("Operation", operation_definition), Variant("Fragment", fragment_definition)>>)

------------------------------------------------------------------------------
(* Writing.                                                                  *)

DisplayTypeCondition(on) == <<N("on"), N(on[2])>>

DisplayFragmentSpread(s) ==
  <<P("..."), N(s.fragment_name)>> \o format_directives(s.directives)

RECURSIVE DisplaySelection(_)

DisplaySelectionSet(items) == Block(Each(DisplaySelection, items))

DisplayField(f) ==
  (IF IsEmpty(f.alias) THEN <<>> ELSE <<N(f.alias[1]), P(":")>>)
    \o <<N(f.name)>> \o format_arguments(f.arguments) \o format_directives(f.directives)
    \o (IF IsEmpty(f.selection_set) THEN <<>> ELSE DisplaySelectionSet(f.selection_set))

DisplayInlineFragment(i) ==
  <<P("...")>> \o Each(DisplayTypeCondition, i.type_condition)
    \o format_directives(i.directives) \o DisplaySelectionSet(i.selection_set)

DisplaySelection(s) ==
  CASE s[1] = "Field" -> DisplayField(s[2])
    [] s[1] = "InlineFragment" -> DisplayInlineFragment(s[2])
    [] s[1] = "FragmentSpread" -> DisplayFragmentSpread(s[2])

DisplayVariableDefinition(v) ==
  LET default(d) == <<P("=")>> \o DisplayValue(d)
  IN  <<P("$"), N(v.name), P(":")>> \o DisplayType(v.var_type) \o Each(default, v.default_value)

\* The variables are written inside the test for a name.
DisplayOperation(word, o) ==
  <<N(word)>>
    \o (IF IsEmpty(o.name) THEN <<>>
        ELSE <<N(o.name[1])>>
               \o (IF IsEmpty(o.variable_definitions) THEN <<>>
                   ELSE <<P("(")>> \o Each(DisplayVariableDefinition, o.variable_definitions)
                          \o <<P(")")>>))
    \o format_directives(o.directives) \o DisplaySelectionSet(o.selection_set)

DisplayQuery(o) == DisplayOperation("query", o)
DisplayMutation(o) == DisplayOperation("mutation", o)
DisplaySubscription(o) == DisplayOperation("subscription", o)

DisplayOperationDefinition(o) ==
  CASE o[1] = "SelectionSet" -> DisplaySelectionSet(o[2])
    [] o[1] = "Query" -> DisplayQuery(o[2])
    [] o[1] = "Mutation" -> DisplayMutation(o[2])
    [] o[1] = "Subscription" -> DisplaySubscription(o[2])

DisplayFragmentDefinition(f) ==
  <<N("fragment"), N(f.name)>> \o DisplayTypeCondition(f.type_condition)
    \o format_directives(f.directives) \o DisplaySelectionSet(f.selection_set)

DisplayDefinition(d) ==
  CASE d[1] = "Operation" -> DisplayOperationDefinition(d[2])
    [] d[1] = "Fragment" -> DisplayFragmentDefinition(d[2])

DisplayDocument(definitions) == Each(DisplayDefinition, definitions)

------------------------------------------------------------------------------
(* What is lost when a query is written and read: a float that is written    *)
(* as an integer or a word, and the variables of an operation of no name.    *)

RECURSIVE SelectionSurvives(_)
SelectionSurvives(s) ==
  /\ DirectivesSurvive(s[2].directives)
  /\ s[1] = "Field" => ArgumentsSurvive(s[2].arguments)
  /\ s[1] # "FragmentSpread" =>
       \A i \in DOMAIN s[2].selection_set : SelectionSurvives(s[2].selection_set[i])

OperationSurvives(o) ==
  /\ IsEmpty(o.name) => IsEmpty(o.variable_definitions)
  /\ \A i \in DOMAIN o.variable_definitions :
       LET default == o.variable_definitions[i].default_value
       IN  \A j \in DOMAIN default : ValueSurvives(default[j])
  /\ DirectivesSurvive(o.directives)
  /\ \A i \in DOMAIN o.selection_set : SelectionSurvives(o.selection_set[i])

DefinitionSurvives(d) ==
  CASE d[1] = "Fragment" ->
         /\ DirectivesSurvive(d[2].directives)
         /\ \A i \in DOMAIN d[2].selection_set : SelectionSurvives(d[2].selection_set[i])
    [] d[1] = "Operation" /\ d[2][1] = "SelectionSet" ->
         \A i \in DOMAIN d[2][2] : SelectionSurvives(d[2][2][i])
    [] d[1] = "Operation" /\ d[2][1] # "SelectionSet" -> OperationSurvives(d[2][2])

Survives(definitions) == \A i \in DOMAIN definitions : DefinitionSurvives(definitions[i])
==============================================================================
