----------------------------- MODULE TokenStream -----------------------------
(***************************************************************************)
(* The tokens of a GraphQL text as the grammar meets them                  *)
(* (src/crates/parser/src/tokenizer.rs).  A text is a sequence of tokens,  *)
(* each <<kind, value>>; what separates them is dropped by the tokenizer   *)
(* before the grammar sees anything.  A stream remembers the last token it *)
(* took apart, so that a parser that looks at a token and goes back finds  *)
(* it again without taking it a second time: take_token counts brackets,   *)
(* and a bracket counted twice would eat the limit on nesting.             *)
(*                                                                         *)
(* An offset is the number of the token that comes next; next_state is the *)
(* offset of the remembered token, None when there is none.                *)
(***************************************************************************)
EXTENDS Naturals, Sequences

CONSTANT RecursionLimit
ASSUME LimitAssumption == RecursionLimit \in Nat

None == 0
Opening == {"(", "[", "{"}
Closing == {")", "]", "}"}

NewStream(text) ==
  [text |-> text, off |-> 1, next_state |-> None, recursion_limit |-> RecursionLimit]

AtEnd(s) == s.off > Len(s.text)

NextIs(s, values) ==
  /\ ~AtEnd(s)
  /\ s.text[s.off][1] = "Punctuator"
  /\ s.text[s.off][2] \in values

Remembered(s) == s.next_state = s.off

\* The two ways take_token fails on a text that has been split into tokens.
TooDeep(s) == NextIs(s, Opening) /\ s.recursion_limit = 0
NoToken(s) == ~Remembered(s) /\ (AtEnd(s) \/ TooDeep(s))

LimitAfter(s) ==
  CASE NextIs(s, Opening) -> s.recursion_limit - 1
    [] NextIs(s, Closing) -> s.recursion_limit + 1
    [] OTHER -> s.recursion_limit

\* take_token, and the token it leaves in next_state.
TakeToken(s) ==
  [s EXCEPT !.off = @ + 1, !.next_state = s.off, !.recursion_limit = LimitAfter(s)]

\* Mutation: the remembered token is taken apart again.
BugUncons(s) == TakeToken(s)

\* The stream after uncons, for a stream that has a token to give.
Uncons(s) == IF Remembered(s) THEN [s EXCEPT !.off = @ + 1] ELSE TakeToken(s)

Checkpoint(s) == s.off
Reset(s, checkpoint) == [s EXCEPT !.off = checkpoint]
==============================================================================
