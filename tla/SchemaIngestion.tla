--------------------------- MODULE SchemaIngestion ---------------------------
(***************************************************************************)
(* The schema the code generator works with                                *)
(* (src/crates/codegen/src/schema.rs), built from a schema document        *)
(* (schema/graphql_parser_conversion.rs) or from the answer to an          *)
(* introspection query (schema/json_conversion.rs).  Both number the types *)
(* of a kind in the order they meet them and note the number under the     *)
(* name before the types themselves are stored, in passes of their own: a  *)
(* type's number is right only when the passes agree.                      *)
(*                                                                         *)
(* source is a sequence of definitions as SchemaDocument lays them out; the *)
(* answer of a server is a sequence of types laid out the same way.  A     *)
(* field's type is looked at by the constants: SchemaContents defines them *)
(* for the types of the documents.                                         *)
(***************************************************************************)
EXTENDS Integers, Sequences, FiniteSets, SequencesExt

CONSTANTS
  Qualifiers(_),  \* what a field's type says of lists and nulls
  BaseName(_)     \* the name inside it

VARIABLES
  source,    \* the definitions to convert
  from,      \* "nothing", "graphql" or "json", the conversion under way
  types,     \* the types it converts, in the order they come
  todo,      \* where those are that are still to be ingested
  schema,    \* the Schema being built
  finished,  \* the schemas that were built, by the conversion that built them
  panicked   \* whether a name was not found

ivars == <<source, from, types, todo, schema, finished, panicked>>

DEFAULT_SCALARS == <<"ID", "String", "Int", "Float", "Boolean">>
Kinds == {"Scalar", "Object", "Interface", "Union", "Enum", "InputObject"}

\* A TypeId is the kind and the index among the types of that kind.
Id(kind, index) == <<kind, index>>

Types(definitions) ==
  LET defined == SelectSeq(definitions, LAMBDA d : d[1] = "TypeDefinition")
  IN  [i \in DOMAIN defined |-> defined[i][2]]

\* Schema::new, with push_default_scalars.
NewSchema ==
  [stored |-> [kind \in Kinds |->
                 IF kind = "Scalar"
                 THEN [i \in DOMAIN DEFAULT_SCALARS |-> [name |-> DEFAULT_SCALARS[i]]]
                 ELSE <<>>],
   stored_fields |-> <<>>,
   names |-> [n \in ToSet(DEFAULT_SCALARS) |->
                Id("Scalar", (CHOOSE i \in DOMAIN DEFAULT_SCALARS : DEFAULT_SCALARS[i] = n) - 1)],
   query_type |-> <<>>, mutation_type |-> <<>>, subscription_type |-> <<>>]

\* Mutation: enumerated among the types of all kinds.
BugNumber(ts, i) == Id(ts[i][1], i - 1)

\* The types of a kind, enumerated.
Number(ts, i) == Id(ts[i][1], Cardinality({j \in 1 .. i - 1 : ts[j][1] = ts[i][1]}))

\* An order gives the kinds of types their turns: those of a kind come one after the other.
Before(order, ts, i, j) ==
  \/ order[ts[i][1]] < order[ts[j][1]]
  \/ order[ts[i][1]] = order[ts[j][1]] /\ i <= j

\* The names noted in a map, over those it has.
Noting(names, more) ==
  [n \in DOMAIN names \cup DOMAIN more |-> IF n \in DOMAIN more THEN more[n] ELSE names[n]]

\* The kinds whose names are noted beforehand, in this order; the last of a name stays.
Noted(order, ts) == {i \in DOMAIN ts : ts[i][1] \in DOMAIN order}
WithNames(sch, order, ts) ==
  LET noted == Noted(order, ts)
      last(n) == CHOOSE i \in noted :
                   ts[i][2].name = n /\ \A j \in noted : ts[j][2].name = n => Before(order, ts, j, i)
  IN  [sch EXCEPT !.names =
         Noting(@, [n \in {ts[i][2].name : i \in noted} |-> Number(ts, last(n))])]

\* populate_names_map and build_names_map, and the passes of the two convert.
GraphqlNames == [Enum |-> 1, Object |-> 2, Interface |-> 3, Union |-> 4, InputObject |-> 5]
GraphqlPasses ==
  [Scalar |-> 1, Enum |-> 2, Union |-> 3, Interface |-> 4, Object |-> 5, InputObject |-> 6]
JsonNames == [Union |-> 1, Interface |-> 2, Object |-> 3, InputObject |-> 4]
\* Mutation: the enumerations, which are noted under their names only as they are
\* ingested, come after the types whose fields have them.
BugJsonPasses ==
  [Scalar |-> 1, Interface |-> 2, Object |-> 3, Enum |-> 4, Union |-> 5, InputObject |-> 6]
JsonPasses ==
  [Scalar |-> 1, Enum |-> 2, Interface |-> 3, Object |-> 4, Union |-> 5, InputObject |-> 6]

Names == IF from = "graphql" THEN GraphqlNames ELSE JsonNames
Passes == IF from = "graphql" THEN GraphqlPasses ELSE JsonPasses

NotDefaultScalar(t) == t[1] = "Scalar" => t[2].name \notin ToSet(DEFAULT_SCALARS)

------------------------------------------------------------------------------
\* Mutation: the qualifiers from the inside out.
BugResolveFieldType(sch, t) ==
  [id |-> sch.names[BaseName(t)], qualifiers |-> Reverse(Qualifiers(t))]
resolve_field_type(sch, t) == [id |-> sch.names[BaseName(t)], qualifiers |-> Qualifiers(t)]

\* find_deprecation: <<>>, or <<reason>> with the reason an option of its own.
find_deprecation(directives) ==
  LET found == SelectSeq(directives, LAMBDA d : d.name = "deprecated") IN
  IF found = <<>> THEN <<>>
  ELSE LET reason == SelectSeq(found[1].arguments, LAMBDA a : a[1] = "reason") IN
       << IF reason # <<>> /\ reason[1][2][1] = "String" THEN <<reason[1][2][2]>> ELSE <<>> >>

Required(t) ==
  CASE t[1] \in {"Object", "Interface"} ->
         {BaseName(t[2].fields[i].field_type) : i \in DOMAIN t[2].fields}
    [] t[1] = "Union" -> ToSet(t[2].types)
    [] t[1] = "InputObject" ->
         {BaseName(t[2].fields[i].value_type) : i \in DOMAIN t[2].fields}
    [] OTHER -> {}
Implemented(t) == IF t[1] = "Object" THEN ToSet(t[2].implements_interfaces) ELSE {}

IsNamed(sch, n, kind) == n \in DOMAIN sch.names /\ sch.names[n][1] = kind

\* Whether every find_type_id and every as_..._id().unwrap() of a type succeeds.
Resolves(sch, t) ==
  /\ Required(t) \subseteq DOMAIN sch.names
  /\ \A n \in Implemented(t) : IsNamed(sch, n, "Interface")
  /\ t[1] \in {"Object", "Interface"} => IsNamed(sch, t[2].name, t[1])

Push(sch, kind, stored) == [sch EXCEPT !.stored[kind] = Append(@, stored)]
Named(sch, name, id) == [sch EXCEPT !.names = Noting(@, [n \in {name} |-> id])]
NextId(sch, kind) == Id(kind, Len(sch.stored[kind]))

\* push_field for every field, and the numbers they are given.
PushFields(sch, fields, parent) ==
  [sch EXCEPT !.stored_fields =
     @ \o [i \in DOMAIN fields |->
             [name |-> fields[i].name, type |-> resolve_field_type(sch, fields[i].field_type),
              parent |-> parent, deprecation |-> find_deprecation(fields[i].directives)]]]
FieldIds(sch, fields) == [i \in DOMAIN fields |-> Len(sch.stored_fields) + i - 1]

------------------------------------------------------------------------------
ingest_scalar(sch, t) ==
  Named(Push(sch, "Scalar", [name |-> t.name]), t.name, NextId(sch, "Scalar"))

ingest_enum(sch, t) ==
  LET stored == [name |-> t.name, variants |-> [i \in DOMAIN t.values |-> t.values[i].name]]
  IN  IF from = "graphql" THEN Push(sch, "Enum", stored)
      ELSE Named(Push(sch, "Enum", stored), t.name, NextId(sch, "Enum"))

ingest_union(sch, t) ==
  Push(sch, "Union",
       [name |-> t.name, variants |-> [i \in DOMAIN t.types |-> sch.names[t.types[i]]]])

ingest_interface(sch, t) ==
  Push(PushFields(sch, t.fields, sch.names[t.name]), "Interface",
       [name |-> t.name, fields |-> FieldIds(sch, t.fields)])

ingest_object(sch, t) ==
  Push(PushFields(sch, t.fields, sch.names[t.name]), "Object",
       [name |-> t.name, fields |-> FieldIds(sch, t.fields),
        implements_interfaces |->
          [i \in DOMAIN t.implements_interfaces |-> sch.names[t.implements_interfaces[i]]]])

ingest_input(sch, t) ==
  Push(sch, "InputObject",
       [name |-> t.name,
        fields |-> [i \in DOMAIN t.fields |->
                      <<t.fields[i].name, resolve_field_type(sch, t.fields[i].value_type)>>]])

ObjectNamed(sch, option) ==
  IF option # <<>> /\ IsNamed(sch, option[1], "Object") THEN <<sch.names[option[1]]>> ELSE <<>>

\* The schema definition, or the names GraphQL gives the root types.
Roots(definitions) ==
  LET given == SelectSeq(definitions, LAMBDA d : d[1] = "SchemaDefinition") IN
  IF given # <<>> THEN given[1][2]
  ELSE [query |-> <<"Query">>, mutation |-> <<"Mutation">>, subscription |-> <<"Subscription">>]
WithRoots(sch, roots) ==
  [sch EXCEPT !.query_type = ObjectNamed(sch, roots.query),
              !.mutation_type = ObjectNamed(sch, roots.mutation),
              !.subscription_type = ObjectNamed(sch, roots.subscription)]

------------------------------------------------------------------------------
NamesOf(ts) == {ts[i][2].name : i \in DOMAIN ts}
AllDistinct(ts) == \A i, j \in DOMAIN ts : ts[i][2].name = ts[j][2].name => i = j

\* A schema whose types are all there and whose interfaces are interfaces.
Closed(ts) ==
  LET names == NamesOf(ts) \cup ToSet(DEFAULT_SCALARS) IN
  \A i \in DOMAIN ts :
    /\ Required(ts[i]) \subseteq names
    /\ \A n \in Implemented(ts[i]) :
         \E j \in DOMAIN ts : ts[j][2].name = n /\ ts[j][1] = "Interface"

IngestionInit ==
  /\ source = <<>>
  /\ from = "nothing"
  /\ types = <<>>
  /\ todo = {}
  /\ schema = NewSchema
  /\ finished = <<>>
  /\ panicked = FALSE

\* build_schema of graphql_parser_conversion.rs, given a document.
BuildFromGraphql(definitions) ==
  /\ from = "nothing"
  /\ source' = definitions
  /\ from' = "graphql"
  /\ types' = Types(definitions)
  /\ todo' = DOMAIN types'
  /\ schema' = WithNames(NewSchema, GraphqlNames, types')
  /\ UNCHANGED <<finished, panicked>>

\* build_schema of json_conversion.rs, given the answer of a server that has the schema:
\* its types are all there, each name defined once.
BuildFromJson(answer) ==
  /\ from = "graphql" /\ Len(finished) = 1
  /\ Closed(answer) /\ AllDistinct(answer)
  /\ from' = "json"
  /\ types' = answer
  /\ todo' = {i \in DOMAIN answer : NotDefaultScalar(answer[i])}
  /\ schema' = WithNames(NewSchema, JsonNames, answer)
  /\ UNCHANGED <<source, finished, panicked>>

\* One step of a pass.
Ingest(kind, ingest(_, _)) ==
  /\ ~panicked
  /\ \E i \in todo :
       /\ types[i][1] = kind
       /\ \A j \in todo : Before(Passes, types, i, j)
       /\ IF Resolves(schema, types[i])
          THEN /\ schema' = ingest(schema, types[i][2])
               /\ todo' = todo \ {i}
               /\ UNCHANGED panicked
          ELSE /\ panicked' = TRUE
               /\ UNCHANGED <<schema, todo>>
  /\ UNCHANGED <<source, from, types, finished>>

IngestScalar == Ingest("Scalar", ingest_scalar)
IngestEnum == Ingest("Enum", ingest_enum)
IngestUnion == Ingest("Union", ingest_union)
IngestInterface == Ingest("Interface", ingest_interface)
IngestObject == Ingest("Object", ingest_object)
IngestInput == Ingest("InputObject", ingest_input)

\* Mutation: an introspected schema has its root types under their usual names.
BugDefineRoots ==
  /\ from # "nothing" /\ todo = {} /\ ~panicked
  /\ Len(finished) = IF from = "graphql" THEN 0 ELSE 1
  /\ finished' = Append(finished,
       WithRoots(schema, Roots(IF from = "json" THEN <<>> ELSE source)))
  /\ UNCHANGED <<source, from, types, todo, schema, panicked>>

\* The root operations are defined last.
DefineRoots ==
  /\ from # "nothing" /\ todo = {} /\ ~panicked
  /\ Len(finished) = IF from = "graphql" THEN 0 ELSE 1
  /\ finished' = Append(finished, WithRoots(schema, Roots(source)))
  /\ UNCHANGED <<source, from, types, todo, schema, panicked>>

\* Any document whose types are of the kinds there are, and any answer that has the types
\* of the document among its own.
IsSchema(ts) ==
  /\ Len(ts) \in Nat /\ DOMAIN ts = 1 .. Len(ts)
  /\ \A i \in DOMAIN ts : ts[i][1] \in Kinds
AnyDocument == BuildFromGraphql(source') /\ IsSchema(types')
AnyAnswer ==
  BuildFromJson(types') /\ IsSchema(types') /\ NamesOf(Types(source)) \subseteq NamesOf(types')

IngestionNext ==
  \/ AnyDocument \/ AnyAnswer
  \/ IngestScalar \/ IngestEnum \/ IngestUnion
  \/ IngestInterface \/ IngestObject \/ IngestInput
  \/ DefineRoots

Ingestion == IngestionInit /\ [][IngestionNext]_ivars

------------------------------------------------------------------------------
IsStored(sch, id) == id[2] < Len(sch.stored[id[1]])
TypeName(sch, id) == sch.stored[id[1]][id[2] + 1].name

\* The number noted under a name is the number of the type of that name, although
\* the names are numbered in one pass and the types stored in others: in either
\* conversion, even of a schema that defines a name twice.
IdsMatchNames ==
  \A i \in DOMAIN finished :
    /\ NamesOf(Types(source)) \subseteq DOMAIN finished[i].names
    /\ \A n \in DOMAIN finished[i].names :
         /\ IsStored(finished[i], finished[i].names[n])
         /\ TypeName(finished[i], finished[i].names[n]) = n

\* The conversions find every name they look up, whatever the order of the
\* definitions: they panic only on a schema that names what it does not define,
\* or defines a name twice, and never convert one that is not closed.
PanicsOnlyUnresolved ==
  /\ panicked => ~Closed(Types(source)) \/ ~AllDistinct(Types(source))
  /\ finished # <<>> => Closed(Types(source))

------------------------------------------------------------------------------
(* The invariant of the conversions.                                         *)

\* A sequence, of whatever it is.
IsList(s) == Len(s) \in Nat /\ s = [i \in 1 .. Len(s) |-> s[i]]

SchemaTypeOK(sch) ==
  /\ DOMAIN sch = DOMAIN NewSchema
  /\ DOMAIN sch.stored = Kinds /\ \A k \in Kinds : IsList(sch.stored[k])
  /\ \A n \in DOMAIN sch.names : sch.names[n][1] \in Kinds /\ sch.names[n][2] \in Nat
TypeOK ==
  /\ from \in {"nothing", "graphql", "json"}
  /\ IsSchema(types) /\ todo \subseteq DOMAIN types
  /\ SchemaTypeOK(schema)
  /\ IsList(finished) /\ \A i \in DOMAIN finished : SchemaTypeOK(finished[i])
  /\ panicked \in BOOLEAN

\* Where the types of a kind are, and those of them that are stored already.
OfKind(kind) == {i \in DOMAIN types : types[i][1] = kind}
Counted == Kinds \ {"Scalar"}

\* A kind's types are stored in the order they are counted in.
StoredInOrder ==
  \A kind \in Counted :
    /\ \A i \in OfKind(kind) \cap todo : \A j \in OfKind(kind) : i <= j => j \in todo
    /\ Len(schema.stored[kind]) = Cardinality(OfKind(kind) \ todo)
    /\ \A i \in OfKind(kind) \ todo :
         /\ IsStored(schema, Number(types, i))
         /\ TypeName(schema, Number(types, i)) = types[i][2].name

\* A number noted is that of a type stored, or of one that has still to be.
NamesAwait ==
  \A n \in DOMAIN schema.names :
    \/ IsStored(schema, schema.names[n]) /\ TypeName(schema, schema.names[n]) = n
    \/ \E i \in todo : /\ types[i][1] \in Counted /\ types[i][2].name = n
                      /\ schema.names[n] = Number(types, i)

\* The names known are those of the default scalars, of the types noted beforehand and of
\* the types ingested; and with no name twice, a type noted has its own kind.
NamesKnown ==
  /\ ToSet(DEFAULT_SCALARS) \subseteq DOMAIN schema.names
  /\ \A i \in DOMAIN types :
       i \notin todo \/ types[i][1] \in DOMAIN Names => types[i][2].name \in DOMAIN schema.names
  /\ \A n \in DOMAIN schema.names :
       \/ n \in ToSet(DEFAULT_SCALARS) /\ schema.names[n][1] = "Scalar"
       \/ \E i \in DOMAIN types : types[i][2].name = n /\ types[i][1] = schema.names[n][1]
  /\ AllDistinct(types) =>
       \A i \in DOMAIN types :
         types[i][1] \in DOMAIN Names => schema.names[types[i][2].name][1] = types[i][1]

\* What the types ingested name is there.
IngestedIsClosed ==
  \A i \in DOMAIN types \ todo :
    /\ Required(types[i]) \subseteq NamesOf(types) \cup ToSet(DEFAULT_SCALARS)
    /\ \A n \in Implemented(types[i]) :
         \E j \in DOMAIN types : types[j][2].name = n /\ types[j][1] = "Interface"

\* Which conversion has what types.
Conversions ==
  /\ from = "nothing" => types = <<>> /\ finished = <<>> /\ ~panicked
  /\ from = "graphql" => types = Types(source)
  /\ from = "json" =>
       /\ Closed(types) /\ AllDistinct(types)
       /\ NamesOf(Types(source)) \subseteq NamesOf(types)
       /\ finished # <<>>

IngestionInv ==
  /\ TypeOK /\ StoredInOrder /\ NamesAwait /\ NamesKnown /\ IngestedIsClosed /\ Conversions
  /\ IdsMatchNames /\ PanicsOnlyUnresolved
==============================================================================
