----------------------------- MODULE MCDocuments -----------------------------
(***************************************************************************)
(* Small documents: every kind of definition, of selection, of value and   *)
(* of type, one inside the other where the grammar calls itself.           *)
(***************************************************************************)
EXTENDS Documents

Option(set) == {<<>>} \cup {<<x>> : x \in set}
UpToTwo(set) == {<<>>} \cup {<<x>> : x \in set} \cup {<<x, y>> : x, y \in set}

Half == <<"Float", <<"finite", 1, TRUE>> >>
Whole == <<"Float", <<"finite", 1, FALSE>> >>
Huge == <<"Float", <<"finite", MaxInt + 1, FALSE>> >>
Infinite == <<"Float", <<"infinite">> >>
One == <<"Int", 1>>
E == <<"Enum", "e">>

Plain == {One, <<"Int", MaxInt>>, Half, Whole, Huge, Infinite, <<"String", "s">>,
          <<"Boolean", TRUE>>, <<"Boolean", FALSE>>, <<"Null">>, E}
Nested(set) == {<<"List", items>> : items \in UpToTwo(set)}
                 \cup {<<"Object", [a |-> v]>> : v \in set}
                 \cup {<<"Object", [n \in {} |-> One]>>}
Defaults == Plain \cup Nested({One, Whole, E})
              \cup {<<"List", <<v>> >> : v \in Nested({E})}
              \cup {<<"Object", [a |-> v, b |-> E]>> : v \in Nested({E})}
MCValues == Defaults \cup {<<"Variable", "v">>, <<"List", << <<"Variable", "v">>, One>> >>}

Arguments == {<<>>, << <<"a", One>>, <<"b", E>> >>} \cup {<< <<"a", v>> >> : v \in MCValues}
Directive(args) == [name |-> "d", arguments |-> args]
FewDirectives == {<<>>, <<Directive(<<>>)>>,
                  <<Directive(<< <<"a", One>> >>), Directive(<< <<"a", Whole>> >>)>>}

Named_ == <<"NamedType", "T">>
TypeList(t) == <<"ListType", t>>
NonNull(t) == <<"NonNullType", t>>
TypeTrees == {Named_, NonNull(Named_), TypeList(Named_), NonNull(TypeList(NonNull(Named_))),
          TypeList(TypeList(Named_)), TypeList(TypeList(TypeList(TypeList(Named_))))}

------------------------------------------------------------------------------
FieldOf(alias, args, dirs, items) ==
  <<"Field", [name |-> "f", alias |-> alias, arguments |-> args, directives |-> dirs,
              selection_set |-> items]>>
Leaf == FieldOf(<<>>, <<>>, <<>>, <<>>)
Spread(dirs) == <<"FragmentSpread", [fragment_name |-> "F", directives |-> dirs]>>
Inline(on, dirs, items) ==
  <<"InlineFragment", [type_condition |-> on, directives |-> dirs, selection_set |-> items]>>
OnT == <<"On", "T">>

Leaves == {FieldOf(alias, <<>>, dirs, <<>>) : alias \in {<<>>, <<"on">>}, dirs \in FewDirectives}
            \cup {Spread(dirs) : dirs \in FewDirectives}
Small == {Leaf, Spread(<<>>)}
Inner(items) == {FieldOf(<<>>, << <<"a", One>> >>, <<>>, items), Inline(<<>>, <<>>, items),
                 Inline(<<OnT>>, <<>>, items)}
Twice == UNION {Inner(<<s>>) : s \in Small}
Thrice == UNION {Inner(<<s>>) : s \in Twice}
Selections ==
  Leaves \cup Twice \cup Thrice \cup UNION {Inner(<<s>>) : s \in Thrice}
    \cup {FieldOf(<<>>, args, <<>>, <<>>) : args \in Arguments}
    \cup {Inline(on, dirs, <<Leaf>>) : on \in Option({OnT}), dirs \in FewDirectives}
Sets == {<<s>> : s \in Selections} \cup {<<s, t>> : s \in Small \cup Twice, t \in Small \cup Twice}

Variable(type, default) == [name |-> "v", var_type |-> type, default_value |-> default]
Variables ==
  {<<>>} \cup {<<Variable(t, <<>>)>> : t \in TypeTrees}
    \cup {<<Variable(Named_, <<d>>), Variable(NonNull(Named_), <<>>)>> : d \in Defaults}
Operation(n, vars_, dirs, items) ==
  [name |-> n, variable_definitions |-> vars_, directives |-> dirs, selection_set |-> items]
Fragment(dirs, items) ==
  [name |-> "F", type_condition |-> OnT, directives |-> dirs, selection_set |-> items]

QuerySets == {<<"Operation", <<"SelectionSet", items>> >> : items \in Sets}
QueryOperations ==
  {<<"Operation", <<kind, Operation(n, vs, dirs, <<Leaf>>)>> >> :
     kind \in {"Query"}, n \in Option({"Q"}), vs \in Variables, dirs \in FewDirectives}
    \cup {<<"Operation", <<kind, Operation(n, <<>>, dirs, <<Leaf>>)>> >> :
            kind \in {"Mutation", "Subscription"}, n \in Option({"Q"}), dirs \in FewDirectives}
QueryFragments ==
  {<<"Fragment", Fragment(dirs, <<s>>)>> : dirs \in FewDirectives, s \in Small \cup Twice}
Few == {<<"Operation", <<"SelectionSet", <<Leaf>> >> >>,
        <<"Operation", <<"Query", Operation(<<>>, <<>>, <<>>, <<Spread(<<>>)>>)>> >>,
        <<"Operation", <<"Mutation", Operation(<<"Q">>, <<>>, <<>>, <<Leaf>>)>> >>,
        <<"Fragment", Fragment(<<>>, <<Leaf>>)>>}

MCQueries ==
  {<<d>> : d \in QuerySets \cup QueryOperations \cup QueryFragments}
    \cup {<<c, d>> : c \in Few, d \in Few} \cup {<<b, c, d>> : b, c, d \in Few}

MCFollowers == {<<>>, << <<"Name", "where">>, <<"Name", "query">> >>}

------------------------------------------------------------------------------
Texts == Option({"s"})
InputOf(descr, type, default, dirs) ==
  [description |-> descr, name |-> "i", value_type |-> type, default_value |-> default,
   directives |-> dirs]
Input == InputOf(<<>>, Named_, <<>>, <<>>)
InputLists ==
  {<<>>} \cup {<<InputOf(d, t, <<>>, <<>>)>> : d \in Texts, t \in TypeTrees}
    \cup {<<Input, InputOf(<<"s">>, Named_, <<v>>, dirs)>> : v \in Defaults, dirs \in {<<>>, <<Directive(<<>>)>>}}
FieldDefinition(descr, args, type, dirs) ==
  [description |-> descr, name |-> "f", arguments |-> args, field_type |-> type,
   directives |-> dirs]
PlainField == FieldDefinition(<<>>, <<>>, Named_, <<>>)
FieldLists ==
  {<<>>, <<PlainField>>} \cup {<<FieldDefinition(<<>>, args, Named_, <<>>)>> : args \in InputLists}
    \cup {<<PlainField, FieldDefinition(d, <<>>, t, dirs)>> :
            d \in Texts, t \in TypeTrees, dirs \in FewDirectives}
FewFields == {<<>>, <<PlainField>>}
EnumValue(descr, dirs) == [description |-> descr, name |-> "e", directives |-> dirs]
EnumValues == {<<>>} \cup {<<EnumValue(d, dirs)>> : d \in Texts, dirs \in FewDirectives}
                \cup {<<EnumValue(<<>>, <<>>), EnumValue(<<"s">>, <<>>)>>}
NameLists == {<<>>, <<"A">>, <<"A", "B">>}

Bodies ==
  {<<"Scalar", [name |-> "T", directives |-> dirs]>> : dirs \in FewDirectives}
    \cup {<<"Object", [name |-> "T", implements_interfaces |-> is, directives |-> dirs,
                       fields |-> fs]>> :
            is \in NameLists, dirs \in FewDirectives, fs \in FewFields}
    \cup {<<"Object", [name |-> "T", implements_interfaces |-> <<>>, directives |-> <<>>,
                       fields |-> fs]>> : fs \in FieldLists}
    \cup {<<"Interface", [name |-> "T", directives |-> dirs, fields |-> fs]>> :
            dirs \in FewDirectives, fs \in FewFields}
    \cup {<<"Union", [name |-> "T", directives |-> dirs, types |-> ts]>> :
            dirs \in FewDirectives, ts \in NameLists}
    \cup {<<"Enum", [name |-> "T", directives |-> dirs, values |-> vs]>> :
            dirs \in FewDirectives, vs \in EnumValues}
    \cup {<<"InputObject", [name |-> "T", directives |-> <<>>, fields |-> is]>> : is \in InputLists}
Definitions ==
  {<<"TypeDefinition", <<b[1], S!WithDescription(b[2], d)>> >> : b \in Bodies, d \in Texts}
    \cup {<<"TypeExtension", b>> : b \in {c \in Bodies : S!SaysSomething(c[2])}}
    \cup {<<"SchemaDefinition", [directives |-> dirs, query |-> q, mutation |-> m,
                                 subscription |-> s]>> :
            dirs \in FewDirectives, q, m, s \in Option({"T"})}
    \cup {<<"DirectiveDefinition", [description |-> d, name |-> "d", arguments |-> args,
                                    repeatable |-> r, locations |-> ls]>> :
            d \in Texts, args \in {<<>>, <<Input>>}, r \in BOOLEAN,
            ls \in {<<>>, <<"QUERY">>, <<"FIELD", "ENUM_VALUE">>}}
FewDefinitions ==
  {<<"TypeDefinition", <<"Scalar", [name |-> "T", directives |-> <<>>, description |-> <<>>]>> >>,
   <<"TypeDefinition", <<"Union", [name |-> "T", directives |-> <<>>, types |-> <<"A">>,
                                   description |-> <<"s">>]>> >>,
   <<"TypeDefinition", <<"Object", [name |-> "T", implements_interfaces |-> <<"A">>,
       directives |-> <<>>, fields |-> <<>>, description |-> <<>>]>> >>,
   <<"DirectiveDefinition", [description |-> <<>>, name |-> "d", arguments |-> <<>>,
       repeatable |-> FALSE, locations |-> <<>>]>>,
   <<"DirectiveDefinition", [description |-> <<>>, name |-> "d", arguments |-> <<>>,
       repeatable |-> TRUE, locations |-> <<"QUERY">>]>>,
   <<"SchemaDefinition", [directives |-> <<>>, query |-> <<"T">>, mutation |-> <<>>,
       subscription |-> <<>>]>>}

\* A schema with a type of every kind, which name each other in circles.
ScalarNamed(n) == <<"Scalar", [name |-> n, directives |-> <<>>]>>
EnumNamed(n) == <<"Enum", [name |-> n, directives |-> <<>>, values |-> <<EnumValue(<<>>, <<>>)>>]>>
FieldNamed(n, type, dirs) ==
  [description |-> <<>>, name |-> n, arguments |-> <<>>, field_type |-> type, directives |-> dirs]
InterfaceNamed(n, fs) == <<"Interface", [name |-> n, directives |-> <<>>, fields |-> fs]>>
ObjectNamed_(n, is, fs) ==
  <<"Object", [name |-> n, implements_interfaces |-> is, directives |-> <<>>, fields |-> fs]>>
UnionNamed(n, ts) == <<"Union", [name |-> n, directives |-> <<>>, types |-> ts]>>
InputNamed(n, type) ==
  <<"InputObject", [name |-> n, directives |-> <<>>, fields |-> <<InputOf(<<>>, type, <<>>, <<>>)>>]>>
Of(n) == <<"NamedType", n>>
Deprecated(args) == <<[name |-> "deprecated", arguments |-> args]>>
Because == << <<"reason", <<"String", "s">> >> >>

S_Described(b) == <<b[1], S!WithDescription(b[2], <<>>)>>

SomeTypes == <<
  ObjectNamed_("Query", <<>>, <<FieldNamed("n", NonNull(Of("I")), <<>>), FieldNamed("u", TypeList(Of("U")), <<>>)>>),
  ScalarNamed("Date"), ObjectNamed_("B", <<>>, <<FieldNamed("d", Of("Date"), <<>>)>>),
  EnumNamed("E"), InterfaceNamed("J", <<FieldNamed("q", Of("Query"), <<>>)>>),
  InterfaceNamed("I", <<FieldNamed("e", NonNull(TypeList(NonNull(Of("E")))), <<>>)>>),
  ObjectNamed_("A", <<"I", "J">>, <<FieldNamed("e", TypeList(TypeList(NonNull(Of("B")))), <<>>)>>),
  UnionNamed("U", <<"B", "A">>), EnumNamed("F"), InputNamed("In", TypeList(Of("In"))),
  UnionNamed("V", <<"Query">>), InputNamed("Jn", NonNull(Of("In"))), ScalarNamed("ID")>>
Extras == {
  <<>>,
  << <<"SchemaDefinition", [directives |-> <<>>, query |-> <<"A">>, mutation |-> <<"U">>,
                            subscription |-> <<>>]>> >>,
  << <<"TypeExtension", ObjectNamed_("B", <<"I">>, <<FieldNamed("g", Of("Int"), <<>>)>>)>> >>,
  << <<"TypeExtension", UnionNamed("U", <<"Query">>)>> >>,
  << <<"TypeDefinition", S_Described(ObjectNamed_("Mutation", <<>>,
        <<FieldNamed("h", Of("A"), Deprecated(<<>>))>>))>> >>,
  << <<"TypeDefinition", S_Described(InterfaceNamed("K",
        <<FieldNamed("h", Of("ID"), Deprecated(Because))>>))>> >>,
  << <<"TypeDefinition", S_Described(ScalarNamed("A"))>> >>}

Rotated(s, n) == SubSeq(s, n + 1, Len(s)) \o SubSeq(s, 1, n)
Legal ==
  {[i \in DOMAIN SomeTypes |-> <<"TypeDefinition", S_Described(Rotated(SomeTypes, n)[i])>>] \o extra :
     n \in {0, 4, 8}, extra \in Extras}
    \cup {extra \o [i \in DOMAIN SomeTypes |-> <<"TypeDefinition", S_Described(SomeTypes[i])>>] :
            extra \in Extras}

MCSchemas == {<<d>> : d \in Definitions} \cup {<<c, d>> : c, d \in FewDefinitions} \cup Legal

\* The documents whose texts are edited, and what is put in.
MCEdited ==
  {<<c, d>> : c, d \in FewDefinitions} \cup {<<c, d>> : c, d \in Few}
    \cup {<<d>> : d \in {
      <<"SchemaDefinition", [directives |-> <<>>, query |-> <<"T">>, mutation |-> <<"T">>,
                             subscription |-> <<"T">>]>>,
      <<"TypeExtension", UnionNamed("U", <<"A", "B">>)>>,
      <<"TypeDefinition", S_Described(InputNamed("In", NonNull(TypeList(NonNull(Named_)))))>>,
      <<"TypeExtension", <<"Scalar", [name |-> "T", directives |-> <<Directive(<<>>)>>]>> >>,
      <<"DirectiveDefinition", [description |-> <<>>, name |-> "d", arguments |-> <<Input>>,
                                repeatable |-> TRUE, locations |-> <<"FIELD", "ENUM_VALUE">>]>>}}
MCReplacements == {
  <<"Punctuator", "|">>, <<"Punctuator", "{">>, <<"Punctuator", "}">>, <<"Punctuator", "...">>,
  <<"Name", "query">>, <<"Name", "T">>, <<"Name", "on">>, <<"IntValue", MaxInt + 1>>}

------------------------------------------------------------------------------
\* And, in lines led by them, U+0085, U+00A0 and U+2003, of two and of three bytes.
Leads == UNION {[1..n -> {32, 133, 160, 8195}] : n \in 0..2} \cup {<<32, 32, 32>>}
Indented ==
  {lead \o body \o other \o <<97, 10>> : lead, other \in Leads, body \in {<<10>>, <<97, 10>>, <<97, 10, 10>>}}
\* Newline, return, space, quote, backslash, a letter, U+0001, U+001B, U+10FFFF.
Characters == {10, 13, 32, 34, 92, 97, 1, 27, MaxChar}
MCStrings ==
  UNION {[1..n -> Characters] : n \in 0..3}
    \cup UNION {[1..n -> {10, 32, 97}] : n \in 4..5}
    \cup UNION {[1..n -> {34, 92, 10}] : n \in 4..5}
    \cup Indented

\* A number is begun by a digit or a minus.
NumbersOf(n, characters) == {<<c>> \o s : c \in {45, 48, 49, 57}, s \in [1..n -> characters]}
MCNumbers ==
  UNION {NumbersOf(n, {43, 45, 46, 48, 49, 57, 101}) : n \in 0..3} \cup NumbersOf(4, {43, 46, 48, 49, 101})
==============================================================================
