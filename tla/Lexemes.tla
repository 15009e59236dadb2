------------------------------ MODULE Lexemes ------------------------------
(***************************************************************************)
(* How a string is written as a GraphQL literal and read again, and which  *)
(* texts are read as numbers: write_quoted (src/crates/parser/src/         *)
(* format.rs), unquote_string and unquote_block_string (common.rs), the    *)
(* numbers of take_token (tokenizer.rs).  A character is its code point    *)
(* and a text a sequence of characters.                                    *)
(***************************************************************************)
EXTENDS Integers, Sequences, SequencesExt

Newline == 10
Return == 13
Space == 32
Quote == 34
Backslash == 92
Plus == 43
LetterU == 117
Digit(d) == 48 + d

\* char::from_u32: a code point, of no surrogate; and a text of them.
MaxChar == 1114111
LastOfPlane == 65535
Surrogates == 55296..57343
IsChar(c) == c \in 0..MaxChar /\ c \notin Surrogates
IsText(s) == s \in Seq(Nat) /\ \A i \in DOMAIN s : IsChar(s[i])

\* char::is_whitespace, which trim and trim_start go by: Unicode's White_Space.
Blank(c) ==
  c \in 9..13 \cup 8192..8202 \cup {Space, 133, 160, 5760, 8232, 8233, 8239, 8287, 12288}
AllBlank(s) == \A i \in DOMAIN s : Blank(s[i])
\* The first so many texts of ss, one after the other; and all of them.
Joined(ss) ==
  LET upto[n \in 0..Len(ss)] == IF n = 0 THEN <<>> ELSE upto[n-1] \o ss[n] IN upto
Concat(ss) == Joined(ss)[Len(ss)]
Spaces(n) == [i \in 1..n |-> Space]

\* str::replace.
Replace(s, old, new) ==
  LET from[i \in 1..Len(s) + 1] ==
        IF i > Len(s) THEN <<>>
        ELSE IF i + Len(old) - 1 <= Len(s) /\ SubSeq(s, i, i + Len(old) - 1) = old
        THEN new \o from[i + Len(old)]
        ELSE <<s[i]>> \o from[i + 1]
  IN  from[1]

------------------------------------------------------------------------------
(* Writing.                                                                  *)

Printable(c) == c \in {9, Newline, Return} \/ c \in 32..LastOfPlane
AsBlock(s) == (\E i \in DOMAIN s : s[i] = Newline) /\ \A i \in DOMAIN s : Printable(s[i])

\* The digits of n in base 10, four of them or more: a char has seven at most.
Tens == <<1, 10, 100, 1000, 10000, 100000, 1000000>>
DecimalWidth(n) ==
  CHOOSE w \in 4..7 : (w < 7 => n < Tens[w+1]) /\ (w > 4 => n >= Tens[w])
Decimal(n) ==
  LET w == DecimalWidth(n) IN [i \in 1..w |-> Digit((n \div Tens[w + 1 - i]) % 10)]

\* Mutation: a backslash is not escaped.
BugEscaped(c) ==
  CASE c = Return -> <<Backslash, 114>>
    [] c = Newline -> <<Backslash, 110>>
    [] c = 9 -> <<Backslash, 116>>
    [] c = Quote -> <<Backslash, c>>
    [] c \in 32..LastOfPlane \ {Quote} -> <<c>>
    [] OTHER -> <<Backslash, LetterU>> \o Decimal(c)

Escaped(c) ==
  CASE c = Return -> <<Backslash, 114>>
    [] c = Newline -> <<Backslash, 110>>
    [] c = 9 -> <<Backslash, 116>>
    [] c \in {Quote, Backslash} -> <<Backslash, c>>
    [] c \in 32..LastOfPlane \ {Quote, Backslash} -> <<c>>
    [] OTHER -> <<Backslash, LetterU>> \o Decimal(c)

Triple == <<Quote, Quote, Quote>>

\* str::lines: the text after the last newline is a line when it is not empty,
\* and a return before a newline is not part of the line.
Lines(s) ==
  LET ends == {i \in DOMAIN s : s[i] = Newline} \cup {Len(s) + 1}
      last(from) == CHOOSE e \in ends : e >= from /\ \A d \in ends : d >= from => e <= d
      starts == SetToSortSeq({e + 1 : e \in ends \ {Len(s) + 1}} \cup {1}, <)
      line(from) ==
        LET to == last(from) - 1 IN
        IF to >= from /\ to < Len(s) /\ s[to] = Return
        THEN SubSeq(s, from, to - 1) ELSE SubSeq(s, from, to)
  IN  [i \in DOMAIN SelectSeq(starts, LAMBDA from : from <= Len(s)) |-> line(starts[i])]

write_quoted(s, indent, style) ==
  IF AsBlock(s)
  THEN LET line(l) == (IF AllBlank(l) THEN <<>>
                       ELSE Spaces(indent + style)
                              \o Replace(l, Triple, <<Backslash>> \o Triple))
                      \o <<Newline>>
           lines == Lines(s)
       IN  Triple \o <<Newline>> \o Concat([i \in DOMAIN lines |-> line(lines[i])])
             \o Spaces(indent) \o Triple
  ELSE <<Quote>> \o Concat([i \in DOMAIN s |-> Escaped(s[i])]) \o <<Quote>>

------------------------------------------------------------------------------
(* Reading.  A text that is refused is read as Refusal, one that is cut inside *)
(* a character as Panic.                                                       *)

Refusal == <<-1>>
Panic == <<-2>>

Hex(c) ==
  CASE c \in 48..57 -> c - 48
    [] c \in 65..70 -> c - 55
    [] c \in 97..102 -> c - 87
    [] OTHER -> -1

\* The character an escape stands for, c being what follows the backslash.
Unescaped(c) ==
  CASE c \in {Quote, Backslash, 47} -> c
    [] c = 98 -> 16
    [] c = 102 -> 12
    [] c = 110 -> Newline
    [] c = 114 -> Return
    [] c = 116 -> 9
    [] OTHER -> -1

\* The character four hexadecimal digits stand for, from_str_radix taking a plus sign
\* before them.
Code(s, i) ==
  LET first == IF s[i] = Plus THEN 0 ELSE Hex(s[i])
      code == ((first * 16 + Hex(s[i+1])) * 16 + Hex(s[i+2])) * 16 + Hex(s[i+3])
  IN  IF i + 3 <= Len(s) /\ first # -1 /\ (\A j \in 1..3 : Hex(s[i+j]) # -1) /\ IsChar(code)
      THEN code ELSE -1

\* How many characters are written at i for one, and which it is, -1 when it is refused.
CharAt(s, i) ==
  CASE s[i] # Backslash -> <<1, s[i]>>
    [] s[i] = Backslash /\ i < Len(s) /\ s[i+1] = LetterU -> <<6, Code(s, i + 2)>>
    [] s[i] = Backslash /\ i < Len(s) /\ s[i+1] # LetterU -> <<2, Unescaped(s[i+1])>>
    [] OTHER -> <<1, -1>>

\* One turn of the loop over the characters: where it goes on, and what it has read.
\* It goes on nowhere, at 0, from what it refuses.
Turn(s, p) ==
  LET c == CharAt(s, p.at) IN
  IF p.at \notin 1..Len(s) THEN p
  ELSE IF c[2] = -1 THEN [p EXCEPT !.at = 0]
  ELSE [at |-> p.at + c[1], read |-> Append(p.read, c[2])]

Turns(s) ==
  LET turn[k \in 0..Len(s)] ==
        IF k = 0 THEN [at |-> 1, read |-> <<>>] ELSE Turn(s, turn[k-1])
  IN  turn

unquote_string(literal) ==
  LET s == SubSeq(literal, 2, Len(literal) - 1)
      end == Turns(s)[Len(s)]
  IN  IF end.at = 0 THEN Refusal ELSE end.read

\* A text is UTF-8, and its offsets are in bytes: where every character of it ends.
Width(c) == CASE c < 128 -> 1 [] c \in 128..2047 -> 2 [] c \in 2048..LastOfPlane -> 3 [] OTHER -> 4
Ends(l) ==
  LET end[i \in 0..Len(l)] == IF i = 0 THEN 0 ELSE end[i - 1] + Width(l[i]) IN end

LeadingBlanks(l) ==
  Ends(l)[CHOOSE n \in 0..Len(l) :
            AllBlank(SubSeq(l, 1, n)) /\ (n < Len(l) => ~Blank(l[n+1]))]

\* Mutation: the lines made of blanks count too.
BugMargins(lines) == {LeadingBlanks(lines[i]) : i \in 2..Len(lines)}

Margins(lines) == {LeadingBlanks(lines[i]) : i \in {j \in 2..Len(lines) : ~AllBlank(lines[j])}}

Trimmed(l) ==
  LET solid == {i \in DOMAIN l : ~Blank(l[i])} IN
  IF solid = {} THEN <<>>
  ELSE SubSeq(l, CHOOSE i \in solid : \A j \in solid : i <= j,
                 CHOOSE i \in solid : \A j \in solid : i >= j)

unquote_block_string(literal) ==
  LET lines == Lines(SubSeq(literal, 4, Len(literal) - 3))
      margins == Margins(lines)
      indent == IF margins = {} THEN 0 ELSE CHOOSE m \in margins : \A n \in margins : m <= n
      first == IF lines = <<>> \/ Trimmed(lines[1]) = <<>> THEN <<>>
               ELSE Trimmed(lines[1]) \o <<Newline>>
      longer == {i \in 2..Len(lines) : Ends(lines[i])[Len(lines[i])] > indent}
      cuts(i) == {k \in DOMAIN Ends(lines[i]) : Ends(lines[i])[k] = indent}
      line(i) == (IF i \in longer
                  THEN LET cut == CHOOSE k \in cuts(i) : TRUE IN
                       Replace(SubSeq(lines[i], cut + 1, Len(lines[i])),
                               <<Backslash>> \o Triple, Triple)
                  ELSE <<>>) \o <<Newline>>
      upto(n) == first \o Concat([i \in 1..n - 1 |-> line(i + 1)])
      result == upto(Len(lines))
      last_line == IF Len(lines) <= 1 THEN <<>> ELSE upto(Len(lines) - 1)
  IN  CASE \E i \in longer : cuts(i) = {} -> Panic
        [] (\A i \in longer : cuts(i) # {})
             /\ AllBlank(SubSeq(result, Len(last_line) + 1, Len(result))) -> last_line
        [] OTHER -> result

unquote(literal) ==
  IF Len(literal) >= 6 /\ SubSeq(literal, 1, 3) = Triple
  THEN unquote_block_string(literal) ELSE unquote_string(literal)

------------------------------------------------------------------------------
(* Numbers.                                                                  *)

Minus == 45
Dot == 46
IsDigit(c) == c \in 48..57
AllDigits(s) == \A i \in DOMAIN s : IsDigit(s[i])
From(s, i) == SubSeq(s, i, Len(s))
Until(s, i) == SubSeq(s, 1, i - 1)

\* Mutation: nothing is said of a minus before a zero.
BugCheckInt(s) ==
  \/ s = <<Digit(0)>>
  \/ s[1] # Digit(0) /\ s # <<Minus>> /\ AllDigits(From(s, 2))

check_int(s) ==
  \/ s \in {<<Digit(0)>>, <<Minus, Digit(0)>>}
  \/ /\ s[1] # Digit(0) /\ s # <<Minus>> /\ ~IsPrefix(<<Minus, Digit(0)>>, s)
     /\ AllDigits(From(s, 2))

check_dec(s) == s # <<>> /\ AllDigits(s)

check_exp(s) ==
  /\ s # <<>>
  /\ s[1] \in {Minus, Plus} \cup Digit(1)..Digit(8)
  /\ AllDigits(From(s, 2))

\* Where the last dot and the last e are, 0 when there is none.
LastOf(s, cs) ==
  LET at == {i \in DOMAIN s : s[i] \in cs} IN
  IF at = {} THEN 0 ELSE CHOOSE i \in at : \A j \in at : j <= i

check_float(s, e, r) ==
  CASE e # 0 /\ r # 0 /\ e < r -> FALSE
    [] e # 0 /\ r # 0 /\ e > r ->
         check_int(Until(s, r)) /\ check_dec(SubSeq(s, r + 1, e - 1)) /\ check_exp(From(s, e + 1))
    [] e # 0 /\ r = 0 -> check_int(Until(s, e)) /\ check_exp(From(s, e + 1))
    [] e = 0 /\ r # 0 -> check_int(Until(s, r)) /\ check_dec(From(s, r + 1))

\* The kind of the token that a text begun by a digit or a minus is, and what
\* str::parse makes of an exponent that is a sign alone.
NumberKind(s) ==
  LET e == LastOf(s, {69, 101})
      r == LastOf(s, {Dot})
  IN  IF e = 0 /\ r = 0
      THEN IF check_int(s) THEN "IntValue" ELSE "refused"
      ELSE IF check_float(s, e, r) /\ IsDigit(s[Len(s)]) THEN "FloatValue" ELSE "refused"

-----------------------------------------------------------------------------
\* GraphQL's numbers: an integral part with no leading zero, then a fraction, an
\* exponent, both or none.
IntegerPart(s) ==
  LET digits == IF s # <<>> /\ s[1] = Minus THEN Tail(s) ELSE s
  IN  /\ check_dec(digits)
      /\ digits[1] = Digit(0) => Len(digits) = 1
Fraction(s) == s # <<>> /\ s[1] = Dot /\ check_dec(Tail(s))
ExponentDigits(s) == IF Len(s) > 1 /\ s[2] \in {Plus, Minus} THEN From(s, 3) ELSE Tail(s)
Exponent(s) == s # <<>> /\ s[1] \in {69, 101} /\ check_dec(ExponentDigits(s))

NumberOf(s) ==
  CASE IntegerPart(s) -> "IntValue"
    [] \E i, j \in 1..Len(s) + 1 :
         /\ i <= j /\ i <= Len(s)
         /\ IntegerPart(Until(s, i))
         /\ i = j \/ Fraction(SubSeq(s, i, j - 1))
         /\ j = Len(s) + 1 \/ Exponent(From(s, j)) -> "FloatValue"
    [] OTHER -> "refused"

\* An exponent that begins with 0 or 9 and no sign is refused (tokenizer.rs:115).
ExponentIsTurnedDown(s) ==
  \E i \in 1..Len(s) - 1 : s[i] \in {69, 101} /\ s[i+1] \in {Digit(0), Digit(9)}
==============================================================================
