------------------------------ MODULE Literals ------------------------------
(***************************************************************************)
(* A caller has a string or a number, writes it as a literal, and reads    *)
(* the literal: which strings are read as they were, and which numbers as  *)
(* GraphQL has them.                                                       *)
(***************************************************************************)
EXTENDS Lexemes

CONSTANTS
  Strings, Numbers,  \* texts, as sequences of characters
  Indents            \* how far a string may be indented where it is written

\* A String is made of chars.  take_token goes for a number at a digit or a minus.
ASSUME LiteralsAssumption ==
  /\ \A s \in Strings : IsText(s)
  /\ \A s \in Numbers : IsText(s) /\ s # <<>> /\ (s[1] = Minus \/ IsDigit(s[1]))
  /\ Indents \subseteq Nat

VARIABLES
  subject,   \* what is written: <<"string", s, indent>> or <<"number", s>>
  text,      \* the literal, <<>> before it is written
  result     \* what the literal was read as, <<>> before it is

lvars == <<subject, text, result>>

Literals == ({"string"} \X Strings \X Indents) \cup ({"number"} \X Numbers)

\* Style::default.
Style == 2

LiteralInit == subject \in Literals /\ text = <<>> /\ result = <<>>

WriteQuoted ==
  /\ subject[1] = "string" /\ text = <<>>
  /\ text' = write_quoted(subject[2], subject[3], Style)
  /\ UNCHANGED <<subject, result>>

WriteNumber ==
  /\ subject[1] = "number" /\ text = <<>>
  /\ text' = subject[2]
  /\ UNCHANGED <<subject, result>>

Unquote ==
  /\ subject[1] = "string" /\ text # <<>> /\ result = <<>>
  /\ result' = <<unquote(text)>>
  /\ UNCHANGED <<subject, text>>

ReadNumber ==
  /\ subject[1] = "number" /\ text # <<>> /\ result = <<>>
  /\ result' = <<NumberKind(text)>>
  /\ UNCHANGED <<subject, text>>

LiteralNext == WriteQuoted \/ WriteNumber \/ Unquote \/ ReadNumber

LiteralSpec == LiteralInit /\ [][LiteralNext]_lvars

------------------------------------------------------------------------------
\* A character of two digits in base 10 that is escaped is written in base 10 and
\* read in base 16; one beyond the first plane has a digit too many.
EscapeSurvives(c) == Printable(c) \/ c < 10

\* Which strings written on one line are read as they were (format.rs:101-114
\* against common.rs:147-200): those without a character whose escape is lost.
StringsReadBack ==
  subject[1] = "string" /\ result # <<>> /\ ~AsBlock(subject[2]) =>
    (result[1] = subject[2] <=> \A i \in DOMAIN subject[2] : EscapeSurvives(subject[2][i]))

\* A string of several lines is written as a block.  It is read again when its
\* last line is ended, no return ends a line, no line is made of blanks, some
\* line is not indented, and its last line is not empty unless the closing
\* quotes are indented.  Blanks are Unicode's.
BlockSurvives(s, indent) ==
  LET lines == Lines(s)
      solid == {i \in DOMAIN lines : ~AllBlank(lines[i])}
  IN  /\ s[Len(s)] = Newline
      /\ \A i \in 2..Len(s) : s[i] = Newline => s[i-1] # Return
      /\ \A i \in DOMAIN lines \ solid : lines[i] = <<>>
      /\ solid = {} \/ \E i \in solid : ~Blank(lines[i][1])
      /\ Len(lines) \in solid \/ indent > 0

\* A line is cut inside a character: where the line with the shortest indentation has its
\* first character, counted in bytes, another has the midst of a wider blank.
CutsACharacter(s) ==
  LET lines == Lines(s)
      solid == {i \in DOMAIN lines : ~AllBlank(lines[i])}
  IN  \E i, j \in solid :
        LET margin == LeadingBlanks(lines[i]) IN
        /\ \A k \in solid : margin <= LeadingBlanks(lines[k])
        /\ \A k \in 0..Len(lines[j]) : Ends(lines[j])[k] # margin

\* Which blocks are read as the strings they were, and on which the reader panics
\* (format.rs:116-128 against common.rs:108-145).
BlocksReadBack ==
  subject[1] = "string" /\ result # <<>> /\ AsBlock(subject[2]) =>
    /\ result[1] = subject[2] <=> BlockSurvives(subject[2], subject[3])
    /\ result[1] = Panic <=> CutsACharacter(subject[2])

\* The numbers that are read are GraphQL's, but for the exponents turned down
\* (tokenizer.rs:93-128, 216-256).
NumbersAreRead ==
  subject[1] = "number" /\ result # <<>> =>
    result[1] = IF ExponentIsTurnedDown(subject[2]) THEN "refused" ELSE NumberOf(subject[2])
==============================================================================
