------------------------------ MODULE Documents ------------------------------
(***************************************************************************)
(* A text that is written and read again.  A caller has the tree of a      *)
(* document, writes it with to_string, and reads the text as a whole       *)
(* (parse_query, parse_schema) or one definition after the other           *)
(* (consume_definition), something that is no definition following.  Or    *)
(* the caller has a string or a number, as in Literals.                    *)
(***************************************************************************)
EXTENDS Parser, SchemaContents, Literals

CONSTANTS
  Queries, Schemas,  \* documents, as sequences of definitions
  Followers,         \* texts of tokens that may follow a query
  Edited,            \* the documents whose text somebody edits
  Replacements       \* the tokens they put in

VARIABLES
  taken,     \* the definitions consume_definition has given
  rest       \* what it has left

dvars == <<subject, text, taken, rest, result>>
vars == <<dvars, ivars>>

Subjects ==
  ({"query"} \X Queries) \cup ({"schema"} \X Schemas) \cup Literals

IsDocument == subject[1] \in {"query", "schema"}

DisplayDocument(kind, definitions) ==
  IF kind = "query" THEN Q!DisplayDocument(definitions) ELSE S!DisplayDocument(definitions)

Init ==
  /\ subject \in Subjects
  /\ text = <<>>
  /\ taken = <<>>
  /\ rest = <<>>
  /\ result = <<>>
  /\ IngestionInit

WriteDocument ==
  /\ IsDocument /\ text = <<>>
  /\ \E follower \in IF subject[1] = "query" THEN Followers ELSE {<<>>} :
       text' = DisplayDocument(subject[1], subject[2]) \o follower
  /\ rest' = text'
  /\ UNCHANGED <<subject, taken, result, ivars>>

\* The text is not the program's own: somebody takes out a token, or puts another
\* in its place, before it is read.
Unedited == text = DisplayDocument(subject[1], subject[2])
Edit ==
  /\ IsDocument /\ text # <<>> /\ result = <<>> /\ taken = <<>>
  /\ subject[2] \in Edited /\ Unedited
  /\ \E i \in DOMAIN text :
       text' \in {RemoveAt(text, i)} \cup {ReplaceAt(text, i, t) : t \in Replacements}
  /\ rest' = text'
  /\ UNCHANGED <<subject, taken, result, ivars>>

ParseQuery ==
  /\ subject[1] = "query" /\ text # <<>> /\ result = <<>> /\ taken = <<>>
  /\ result' = <<parse_query(text)>>
  /\ UNCHANGED <<subject, text, taken, rest, ivars>>

ParseSchema ==
  /\ subject[1] = "schema" /\ text # <<>> /\ result = <<>>
  /\ result' = <<parse_schema(text)>>
  /\ UNCHANGED <<subject, text, taken, rest, ivars>>

ConsumeDefinition ==
  /\ subject[1] = "query" /\ text # <<>> /\ result = <<>>
  /\ LET r == consume_definition(rest) IN
       IF r.ok
       THEN /\ taken' = Append(taken, r.value)
            /\ rest' = Remainder(r)
            /\ UNCHANGED result
       ELSE /\ result' = <<r>>
            /\ UNCHANGED <<taken, rest>>
  /\ UNCHANGED <<subject, text, ivars>>

\* Schema::from, for a schema document that has been read.
BuildSchema ==
  /\ subject[1] = "schema" /\ result # <<>> /\ result[1].ok
  /\ BuildFromGraphql(result[1].value)
  /\ UNCHANGED dvars

\* Schema::from, for what a server answers that has the schema.
BuildSchemaOfAnswer ==
  /\ \E answer \in Answers : BuildFromJson(answer)
  /\ UNCHANGED dvars

Next ==
  \/ WriteDocument \/ Edit \/ ParseQuery \/ ParseSchema \/ ConsumeDefinition
  \/ LiteralNext /\ UNCHANGED <<taken, rest, ivars>>
  \/ BuildSchema \/ BuildSchemaOfAnswer
  \/ DefineRoots /\ UNCHANGED dvars
  \/ IngestScalar /\ UNCHANGED dvars
  \/ IngestEnum /\ UNCHANGED dvars
  \/ IngestUnion /\ UNCHANGED dvars
  \/ IngestInterface /\ UNCHANGED dvars
  \/ IngestObject /\ UNCHANGED dvars
  \/ IngestInput /\ UNCHANGED dvars

Spec == Init /\ [][Next]_vars

------------------------------------------------------------------------------
IsRead == result # <<>> /\ taken = <<>>
Survives(kind, definitions) ==
  IF kind = "query" THEN Q!Survives(definitions) ELSE S!Survives(definitions)
Parsed(kind, tokens) == IF kind = "query" THEN parse_query(tokens) ELSE parse_schema(tokens)
Follower == SubSeq(text, Len(DisplayDocument(subject[1], subject[2])) + 1, Len(text))

\* How deep the brackets of a text are nested.
Nesting(tokens) ==
  LET open(i) ==
        Len(SelectSeq(SubSeq(tokens, 1, i), LAMBDA t : t[1] = "Punctuator" /\ t[2] \in Opening))
          - Len(SelectSeq(SubSeq(tokens, 1, i), LAMBDA t : t[1] = "Punctuator" /\ t[2] \in Closing))
      depths == {open(i) : i \in DOMAIN tokens} \cup {0}
  IN  CHOOSE d \in depths : \A e \in depths : e <= d

\* A document that is written is read as the document it was, when nothing in
\* it is lost: a float that has no fraction is written as an integer
\* (query/format.rs:251), the variables of an operation of no name are not
\* written (query/format.rs:138), a directive that may stand nowhere is written
\* without the word the grammar asks for (schema/format.rs:376).
ReadsBack ==
  IsDocument /\ IsRead /\ Unedited /\ Nesting(text) <= RecursionLimit =>
    (result[1].ok /\ result[1].value = subject[2] <=> Survives(subject[1], subject[2]))

\* The limit on nesting refuses what is nested deeper and nothing else, however
\* often the grammar went back over a bracket: a bracket is counted once, and a
\* document that has been read leaves the limit as it was.
NestingIsCounted ==
  IsDocument /\ IsRead /\ Unedited /\ Survives(subject[1], subject[2]) =>
    /\ result[1].ok <=> Nesting(text) <= RecursionLimit
    /\ result[1].ok => result[1].stream.recursion_limit = RecursionLimit

\* Whatever the text, what was read of it is written so that it is read as the
\* same document, when nothing is lost, and then written as the same text (the
\* round trips of the tests).
WritingIsCanonical ==
  IsDocument /\ IsRead /\ result[1].ok =>
    LET definitions == result[1].value
        canonical == DisplayDocument(subject[1], definitions)
        again == Parsed(subject[1], canonical)
    IN  /\ Survives(subject[1], definitions) => again.ok /\ again.value = definitions
        /\ again.ok => DisplayDocument(subject[1], again.value) = canonical

\* consume_definition takes the definitions one by one, each whole, and leaves
\* the rest of the text to the next call: it stops before what is no definition.
RemainderIsTheRest ==
  subject[1] = "query" /\ IsPrefix(Q!DisplayDocument(subject[2]), text) =>
    /\ Q!DisplayDocument(taken) \o rest = text
    /\ result # <<>> /\ taken # <<>> /\ Nesting(text) <= RecursionLimit => rest = Follower

==============================================================================
