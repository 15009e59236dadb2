---------------------------- MODULE Combinators ----------------------------
(***************************************************************************)
(* The words the grammars are written with: the parsers of single tokens   *)
(* of src/crates/parser/src/helpers.rs and the combinators of the crate    *)
(* combine.  A grammar is data, a tree of these records; the module Parser *)
(* says what each of them reads.                                           *)
(*                                                                         *)
(* The values a parser yields are laid out as the abstract syntax trees    *)
(* are: a struct is a record, a variant of an enum the tuple <<variant,    *)
(* payload>>, an Option <<>> or <<value>>, a Vec a sequence.               *)
(***************************************************************************)
EXTENDS Naturals, Sequences

Word(kind, value) == [parser |-> "word", token |-> <<kind, value>>]
punct(value) == Word("Punctuator", value)
ident(value) == Word("Name", value)
kind(k) == [parser |-> "kind", kind |-> k]
name == kind("Name")

optional(p) == [parser |-> "optional", of |-> p]
many(p) == [parser |-> "many", of |-> p]
many1(p) == [parser |-> "many1", of |-> p]
sep_by1(p, sep) == [parser |-> "sep_by1", of |-> p, sep |-> sep]
choice(ps) == [parser |-> "choice", of |-> ps]

\* parser(f) where f is a function of the grammar that calls itself in the end.
Call(f) == [parser |-> "call", f |-> f]

And(p, q) == [parser |-> "each", parts |-> <<p, q>>]
\* p.with(q) keeps what q read, p.skip(q) what p read.
With(p, q) == [parser |-> "one", parts |-> <<p, q>>, keep |-> 2]
Skip(p, q) == [parser |-> "one", parts |-> <<p, q>>, keep |-> 1]
Between(open, p, close) == Skip(With(punct(open), p), punct(close))
\* A tuple of parsers mapped to a struct: each part is <<field of the struct, parser>>.
Struct(parts) == [parser |-> "struct", parts |-> parts]

\* map with a variant of an enum, with a constant, with unwrap_or_else(Vec::new),
\* with is_some.
Variant(tag, p) == [parser |-> "variant", tag |-> tag, of |-> p]
Constant(p, value) == [parser |-> "constant", of |-> p, value |-> value]
OrEmpty(p) == [parser |-> "or_empty", of |-> p]
IsSome(p) == [parser |-> "is_some", of |-> p]
\* map, and_then or flat_map with the closure of the function f of the grammar.
Map(f, p) == [parser |-> "map", f |-> f, of |-> p]
AndThen(f, p) == [parser |-> "and_then", f |-> f, of |-> p]
==============================================================================
