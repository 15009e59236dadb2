--------------------------- MODULE SchemaContents ---------------------------
(***************************************************************************)
(* What a Schema says: the types of its fields as the documents have them  *)
(* and as Rust has them (decorate_type, crates/codegen/src/codegen.rs),    *)
(* what a server that has the schema answers, and whether the conversions  *)
(* of the two make the same of it.                                         *)
(***************************************************************************)
EXTENDS SchemaIngestion

\* For resolve_field_type and from_json_type_inner: the qualifiers from the outside in,
\* and the name inside.
RECURSIVE QualifiersOf(_), NameInside(_)
QualifiersOf(t) ==
  CASE t[1] = "NamedType" -> <<>>
    [] t[1] = "ListType" -> <<"List">> \o QualifiersOf(t[2])
    [] t[1] = "NonNullType" -> <<"Required">> \o QualifiersOf(t[2])
NameInside(t) == IF t[1] = "NamedType" THEN t[2] ELSE NameInside(t[2])

------------------------------------------------------------------------------
(* What a server that has this schema answers: extensions are part of the    *)
(* types, and a deprecation has a reason.                                    *)

Merge(t, e) ==
  <<t[1], [part \in DOMAIN t[2] |->
     IF part \in DOMAIN e \ {"name", "description"} THEN t[2][part] \o e[part] ELSE t[2][part]]>>
Extended(t, definitions) ==
  FoldLeft(LAMBDA done, d : IF d[1] = "TypeExtension" /\ d[2][1] = t[1] /\ d[2][2].name = t[2].name
                            THEN Merge(done, d[2][2]) ELSE done,
           t, definitions)

DefaultReason == <<"reason", <<"String", "No longer supported">> >>
Explained(directives) ==
  [i \in DOMAIN directives |->
     IF directives[i].name = "deprecated" /\ directives[i].arguments = <<>>
     THEN [directives[i] EXCEPT !.arguments = <<DefaultReason>>] ELSE directives[i]]
ExplainedType(t) ==
  IF t[1] \in {"Object", "Interface"}
  THEN <<t[1], [t[2] EXCEPT !.fields =
          [i \in DOMAIN @ |-> [@[i] EXCEPT !.directives = Explained(@)]]]>>
  ELSE t

BuiltIn ==
  [i \in DOMAIN DEFAULT_SCALARS |->
     <<"Scalar", [name |-> DEFAULT_SCALARS[i], directives |-> <<>>, description |-> <<>>]>>]
Introspected(definitions) ==
  LET defined == Types(definitions)
      own == SelectSeq(defined, NotDefaultScalar)
  IN  [i \in DOMAIN own |-> ExplainedType(Extended(own[i], definitions))] \o BuiltIn

\* The types come in one order or in the other.
Answers == {Introspected(source), Reverse(Introspected(source))}

------------------------------------------------------------------------------
(* Types as Rust has them: decorate_type of codegen.rs against what a GraphQL *)
(* type means.                                                               *)

DoubleRequired == <<"panic">>
Wrap(wrapper, t) == <<wrapper, t>>

RECURSIVE Decorate(_, _, _), Denoted(_, _)

\* From the inner type to the outside; non_null is whether the last qualifier
\* met was Required.
Decorate(qualified, qualifiers, non_null) ==
  IF qualifiers = <<>> THEN IF non_null THEN qualified ELSE Wrap("Option", qualified)
  ELSE LET inner == Front(qualifiers) IN
       CASE Last(qualifiers) = "List" /\ non_null ->
              Decorate(Wrap("Vec", qualified), inner, FALSE)
         [] Last(qualifiers) = "List" /\ ~non_null ->
              Decorate(Wrap("Vec", Wrap("Option", qualified)), inner, FALSE)
         [] Last(qualifiers) = "Required" /\ non_null -> DoubleRequired
         [] Last(qualifiers) = "Required" /\ ~non_null -> Decorate(qualified, inner, TRUE)

decorate_type(name, qualifiers) == Decorate(<<"Name", name>>, qualifiers, FALSE)

\* A type that may be null is an Option, a list is a Vec.
Denoted(t, non_null) ==
  LET inner == CASE t[1] = "NamedType" -> <<"Name", t[2]>>
                 [] t[1] = "ListType" -> Wrap("Vec", Denoted(t[2], FALSE))
                 [] t[1] = "NonNullType" -> Denoted(t[2], TRUE)
  IN  IF non_null \/ t[1] = "NonNullType" THEN inner ELSE Wrap("Option", inner)

------------------------------------------------------------------------------
\* What a schema says of a type, the numbers replaced by the names they stand for.
Described(sch, id) ==
  LET stored == sch.stored[id[1]][id[2] + 1]
      field(f) ==
        LET sf == sch.stored_fields[f + 1]
        IN  <<sf.name, TypeName(sch, sf.type.id), sf.type.qualifiers, TypeName(sch, sf.parent),
              sf.deprecation>>
      named(ids) == [i \in DOMAIN ids |-> TypeName(sch, ids[i])]
  IN  CASE id[1] = "Scalar" -> <<id[1], stored.name>>
        [] id[1] = "Enum" -> <<id[1], stored.name, stored.variants>>
        [] id[1] = "Union" -> <<id[1], stored.name, named(stored.variants)>>
        [] id[1] = "Interface" ->
             <<id[1], stored.name, [i \in DOMAIN stored.fields |-> field(stored.fields[i])]>>
        [] id[1] = "Object" ->
             <<id[1], stored.name, [i \in DOMAIN stored.fields |-> field(stored.fields[i])],
               named(stored.implements_interfaces)>>
        [] id[1] = "InputObject" ->
             <<id[1], stored.name,
               [i \in DOMAIN stored.fields |->
                  <<stored.fields[i][1], TypeName(sch, stored.fields[i][2].id),
                    stored.fields[i][2].qualifiers>>]>>

Everything(sch) ==
  [types |-> [n \in DOMAIN sch.names |-> Described(sch, sch.names[n])],
   query |-> [i \in DOMAIN sch.query_type |-> TypeName(sch, sch.query_type[i])],
   mutation |-> [i \in DOMAIN sch.mutation_type |-> TypeName(sch, sch.mutation_type[i])],
   subscription |-> [i \in DOMAIN sch.subscription_type |-> TypeName(sch, sch.subscription_type[i])]]

\* The conversions of a document and of the answer of a server that has it agree,
\* but for what the extensions add, which the first leaves out, and for the reason
\* of a deprecation that gives none.
Unlike ==
  \/ \E i \in DOMAIN source :
       source[i][1] = "TypeExtension" /\
       \E t \in ToSet(Types(source)) :
         /\ t[1] = source[i][2][1] /\ t[2].name = source[i][2][2].name
         /\ \E part \in DOMAIN t[2] \ {"name", "directives", "description"} :
              source[i][2][2][part] # <<>>
  \/ \E t \in ToSet(Types(source)) :
       t[1] \in {"Object", "Interface"} /\
       \E i \in DOMAIN t[2].fields :
         t[2].fields[i].directives # Explained(t[2].fields[i].directives)
SameSchema ==
  Len(finished) = 2 /\ AllDistinct(Types(source)) =>
    (Everything(finished[1]) = Everything(finished[2]) <=> ~Unlike)

\* The Rust type of every field is what its GraphQL type means, and no type is
\* required twice (codegen.rs:208).
FieldTypesOf(ts, parent) ==
  {<<f.name, Denoted(f.field_type, FALSE)>> :
     f \in UNION {ToSet(t[2].fields) :
                    t \in {u \in ToSet(ts) : u[1] \in {"Object", "Interface"}
                                                 /\ u[2].name = parent}}}
TypesAreDenoted ==
  finished # <<>> /\ AllDistinct(Types(source)) =>
    \A i \in DOMAIN finished[1].stored_fields :
      LET f == finished[1].stored_fields[i]
      IN  <<f.name, decorate_type(TypeName(finished[1], f.type.id), f.type.qualifiers)>>
            \in FieldTypesOf(Types(source), TypeName(finished[1], f.parent))
=============================================================================
