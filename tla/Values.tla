------------------------------- MODULE Values -------------------------------
(***************************************************************************)
(* What queries and schemas have in common: directives, arguments, values  *)
(* and types, how they are read (src/crates/parser/src/common.rs) and how  *)
(* they are written (query/format.rs, format.rs).  Writing gives tokens:   *)
(* the layout between them is dropped when they are read.                  *)
(*                                                                         *)
(* A number is an integer n, or <<"finite", n, fraction>> for a float, n   *)
(* its integral part and fraction whether it has another, or <<"infinite">>.*)
(* MaxInt stands for the largest i64.  A string is one that its literal    *)
(* gives back; which strings those are is Lexemes' matter.                 *)
(***************************************************************************)
EXTENDS Combinators, SequencesExt

CONSTANT MaxInt

Concat(texts) == FoldLeft(LAMBDA done, text : done \o text, <<>>, texts)
IsEmpty(s) == s = <<>>

------------------------------------------------------------------------------
(* Reading.                                                                  *)

arguments ==
  OrEmpty(optional(
    Between("(", many1(And(Skip(name, punct(":")), Call("value"))), ")")))

directives ==
  many(Struct(<< <<"name", With(punct("@"), name)>>, <<"arguments", arguments>> >>))

int_value == Variant("Int", AndThen("int_value", kind("IntValue")))
float_value == Variant("Float", kind("FloatValue"))
string == choice(<<kind("StringValue"), kind("BlockString")>>)
string_value == Variant("String", kind("StringValue"))
block_string_value == Variant("String", kind("BlockString"))

plain_value == choice(<<
  Constant(ident("true"), <<"Boolean", TRUE>>),
  Constant(ident("false"), <<"Boolean", FALSE>>),
  Constant(ident("null"), <<"Null">>),
  Variant("Enum", name),
  int_value, float_value, string_value, block_string_value>>)

ListOf(v) == Variant("List", Between("[", many(v), "]"))
ObjectOf(v) ==
  Variant("Object",
          Map("object", Between("{", many(And(Skip(name, punct(":")), v)), "}")))

value == choice(<<plain_value, Variant("Variable", With(punct("$"), name)),
                  ListOf(Call("value")), ObjectOf(Call("value"))>>)

default_value ==
  choice(<<plain_value, ListOf(Call("default_value")), ObjectOf(Call("default_value"))>>)

parse_type ==
  Map("type",
    And(choice(<<Variant("NamedType", name),
                 Variant("ListType", Between("[", Call("parse_type"), "]"))>>),
        IsSome(punct("!"))))

\* Number is an i64: str::parse refuses an integer that is larger.
FitsNumber(n) == n <= MaxInt

\* The pairs collected into a BTreeMap: the last of a name stays.
ObjectFrom(pairs) ==
  [n \in {pairs[i][1] : i \in DOMAIN pairs} |->
     pairs[CHOOSE i \in DOMAIN pairs :
             pairs[i][1] = n /\ \A j \in DOMAIN pairs : pairs[j][1] = n => j <= i][2]]

TypeFrom(typ, strict) == IF strict THEN <<"NonNullType", typ>> ELSE typ

------------------------------------------------------------------------------
(* Writing.                                                                  *)

P(value_) == <<"Punctuator", value_>>
N(value_) == <<"Name", value_>>

\* Display of every item, with nothing the grammar reads between them.
Each(Display(_), items) == Concat([i \in DOMAIN items |-> Display(items[i])])
\* Display of every item with a token between them.
Separated(Display(_), items, token) ==
  Concat([i \in DOMAIN items |->
            IF i = 1 THEN Display(items[i]) ELSE <<token>> \o Display(items[i])])
Block(text) == <<P("{")>> \o text \o <<P("}")>>

\* A float of no fraction is written with its integral part alone, and the
\* infinite one as the word inf.
DisplayFloat(x) ==
  CASE x[1] = "infinite" -> N("inf")
    [] x[1] = "finite" /\ x[3] -> <<"FloatValue", x>>
    [] x[1] = "finite" /\ ~x[3] -> <<"IntValue", x[2]>>

RECURSIVE DisplayValue(_)
DisplayValue(v) ==
  CASE v[1] = "Variable" -> <<P("$"), N(v[2])>>
    [] v[1] = "Int" -> << <<"IntValue", v[2]>> >>
    [] v[1] = "Float" -> <<DisplayFloat(v[2])>>
    [] v[1] = "String" -> << <<"StringValue", v[2]>> >>
    [] v[1] = "Boolean" -> <<N(IF v[2] THEN "true" ELSE "false")>>
    [] v[1] = "Null" -> <<N("null")>>
    [] v[1] = "Enum" -> <<N(v[2])>>
    [] v[1] = "List" -> <<P("[")>> \o Each(DisplayValue, v[2]) \o <<P("]")>>
    [] v[1] = "Object" ->
         LET pair(n) == <<N(n), P(":")>> \o DisplayValue(v[2][n])
         IN  Block(Each(pair, SetToSeq(DOMAIN v[2])))

RECURSIVE DisplayType(_)
DisplayType(t) ==
  CASE t[1] = "NamedType" -> <<N(t[2])>>
    [] t[1] = "ListType" -> <<P("[")>> \o DisplayType(t[2]) \o <<P("]")>>
    [] t[1] = "NonNullType" -> DisplayType(t[2]) \o <<P("!")>>

format_arguments(args) ==
  LET argument(a) == <<N(a[1]), P(":")>> \o DisplayValue(a[2])
  IN  IF IsEmpty(args) THEN <<>> ELSE <<P("(")>> \o Each(argument, args) \o <<P(")")>>

DisplayDirective(d) == <<P("@"), N(d.name)>> \o format_arguments(d.arguments)
format_directives(dirs) == Each(DisplayDirective, dirs)

------------------------------------------------------------------------------
(* What is lost when a value is written and read.                            *)

RECURSIVE ValueSurvives(_)
ValueSurvives(v) ==
  CASE v[1] = "Float" -> v[2][1] = "finite" /\ v[2][3]
    [] v[1] = "List" -> \A i \in DOMAIN v[2] : ValueSurvives(v[2][i])
    [] v[1] = "Object" -> \A n \in DOMAIN v[2] : ValueSurvives(v[2][n])
    [] OTHER -> TRUE

ArgumentsSurvive(args) == \A i \in DOMAIN args : ValueSurvives(args[i][2])
DirectivesSurvive(dirs) == \A i \in DOMAIN dirs : ArgumentsSurvive(dirs[i].arguments)
==============================================================================
