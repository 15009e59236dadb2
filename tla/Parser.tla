------------------------------- MODULE Parser -------------------------------
(***************************************************************************)
(* What the combinators read from a stream of tokens, and the entry points *)
(* of the parser: parse_query, consume_definition and parse_schema.        *)
(*                                                                         *)
(* A parser that fails has either consumed something, and then the whole   *)
(* text is refused, or not, and then optional, many and choice go back to  *)
(* where it began and go on.  They go back in the stream as it is then:    *)
(* the limit on nesting is not restored, the remembered token is kept.     *)
(***************************************************************************)
EXTENDS TokenStream

CONSTANT MaxInt
ASSUME MaxIntAssumption == MaxInt \in Nat

Q == INSTANCE QueryDocument
S == INSTANCE SchemaDocument

\* The functions of the grammars that call themselves in the end.
Function(f) ==
  CASE f = "value" -> Q!value
    [] f = "default_value" -> Q!default_value
    [] f = "parse_type" -> Q!parse_type
    [] f = "selection_set" -> Q!selection_set

\* The closures given to map, and_then and flat_map.
Closure(f, v) ==
  CASE f = "object" -> Q!ObjectFrom(v)
    [] f = "type" -> Q!TypeFrom(v[1], v[2])
    [] f = "field" -> Q!FieldFrom(v)
    [] f = "schema" -> S!SchemaFrom(v)
    [] f = "described" -> S!Described(v)

Accepts(f, v) ==
  CASE f = "int_value" -> Q!FitsNumber(v)
    [] f = "schema" -> S!ValidOperations(v.operations)
    [] f = "extension" -> S!SaysSomething(v)
    [] f = "location" -> v \in S!Locations

------------------------------------------------------------------------------
Ok(value, consumed, s) ==
  [ok |-> TRUE, value |-> value, consumed |-> consumed, stream |-> s]
Fail(consumed, s) == [ok |-> FALSE, value |-> <<>>, consumed |-> consumed, stream |-> s]

\* r after something else was read, which consumed or not.
After(consumed, r) == [r EXCEPT !.consumed = @ \/ consumed]
\* Nothing was read: the stream goes back and the parser succeeds or another is tried.
GivesUp(r) == ~r.ok /\ ~r.consumed
Yields(r, value) == IF r.ok THEN [r EXCEPT !.value = value] ELSE r

\* helpers.rs asks satisfy for a token of a kind, or for one token.
Satisfy(p, s) ==
  IF NoToken(s) THEN Fail(FALSE, s)
  ELSE LET token == s.text[s.off] IN
       IF \/ p.parser = "kind" /\ token[1] = p.kind
          \/ p.parser = "word" /\ token[1] = p.token[1] /\ token[2] = p.token[2]
       THEN Ok(token[2], TRUE, Uncons(s))
       ELSE Fail(FALSE, Uncons(s))

RECURSIVE Parse(_, _), Each(_, _), First(_, _), Repeat(_, _)

\* The parts one after the other; the value is the sequence of theirs.
Each(parts, s) ==
  IF parts = <<>> THEN Ok(<<>>, FALSE, s)
  ELSE LET r == Parse(Head(parts), s) IN
       IF ~r.ok THEN r
       ELSE LET rest == After(r.consumed, Each(Tail(parts), r.stream))
            IN  Yields(rest, <<r.value>> \o rest.value)

\* The first alternative that does not give up.
First(ps, s) ==
  LET r == Parse(Head(ps), s) IN
  IF GivesUp(r) /\ Len(ps) > 1 THEN First(Tail(ps), Reset(r.stream, Checkpoint(s))) ELSE r

Maybe(p, s) ==
  LET r == Parse(p, s) IN
  IF GivesUp(r) THEN Ok(<<>>, FALSE, Reset(r.stream, Checkpoint(s))) ELSE Yields(r, <<r.value>>)

\* p as often as it succeeds.
Repeat(p, s) ==
  LET r == Parse(p, s) IN
  IF GivesUp(r) THEN Ok(<<>>, FALSE, Reset(r.stream, Checkpoint(s)))
  ELSE IF ~r.ok THEN r
  ELSE LET rest == After(TRUE, Repeat(p, r.stream)) IN Yields(rest, <<r.value>> \o rest.value)

\* One parser, then another as often as it succeeds.
FirstAndRest(p, q, s) ==
  LET r == Each(<<p, [parser |-> "many", of |-> q]>>, s)
  IN  Yields(r, <<r.value[1]>> \o r.value[2])

Labelled(parts, values) ==
  [label \in {parts[i][1] : i \in DOMAIN parts} |->
     values[CHOOSE i \in DOMAIN parts : parts[i][1] = label]]

Parse(p, s) ==
  CASE p.parser \in {"word", "kind"} -> Satisfy(p, s)
    [] p.parser = "each" -> Each(p.parts, s)
    [] p.parser = "one" -> LET r == Each(p.parts, s) IN Yields(r, r.value[p.keep])
    [] p.parser = "struct" ->
         LET r == Each([i \in DOMAIN p.parts |-> p.parts[i][2]], s)
         IN  Yields(r, Labelled(p.parts, r.value))
    [] p.parser = "choice" -> First(p.of, s)
    [] p.parser = "optional" -> Maybe(p.of, s)
    [] p.parser = "is_some" -> LET r == Maybe(p.of, s) IN Yields(r, r.value # <<>>)
    [] p.parser = "or_empty" ->
         LET r == Parse(p.of, s) IN Yields(r, IF r.value = <<>> THEN <<>> ELSE r.value[1])
    [] p.parser = "many" -> Repeat(p.of, s)
    [] p.parser = "many1" -> FirstAndRest(p.of, p.of, s)
    [] p.parser = "sep_by1" ->
         FirstAndRest(p.of, [parser |-> "one", parts |-> <<p.sep, p.of>>, keep |-> 2], s)
    [] p.parser = "variant" -> LET r == Parse(p.of, s) IN Yields(r, <<p.tag, r.value>>)
    [] p.parser = "constant" -> LET r == Parse(p.of, s) IN Yields(r, p.value)
    [] p.parser = "map" -> LET r == Parse(p.of, s) IN Yields(r, Closure(p.f, r.value))
    [] p.parser = "and_then" ->
         LET r == Parse(p.of, s)
         IN  IF r.ok /\ ~Accepts(p.f, r.value) THEN Fail(r.consumed, r.stream) ELSE r
    [] p.parser = "call" -> Parse(Function(p.f), s)

------------------------------------------------------------------------------
\* many1(definition).skip(eof()): the whole text, or nothing.
Document(definition, text) ==
  LET r == Parse([parser |-> "many1", of |-> definition], NewStream(text))
  IN  IF r.ok /\ ~AtEnd(r.stream) THEN Fail(TRUE, r.stream) ELSE r

parse_query(text) == Document(Q!definition, text)
parse_schema(text) == Document(S!definition, text)

\* A definition and what is left of the text after it.
consume_definition(text) == Parse(Q!definition, NewStream(text))
\* Mutation: from the token the last parser looked at.
BugRemainder(r) == SubSeq(r.stream.text, r.stream.next_state, Len(r.stream.text))
Remainder(r) == SubSeq(r.stream.text, r.stream.off, Len(r.stream.text))
==============================================================================
