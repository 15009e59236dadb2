SPECIFICATION Spec
CONSTANTS
  RecursionLimit = 3
  MaxInt = 7
  Queries <- MCQueries
  Schemas <- MCSchemas
  Strings <- MCStrings
  Numbers <- MCNumbers
  Followers <- MCFollowers
  Edited <- MCEdited
  Replacements <- MCReplacements
  Indents = {0, 2}
  Qualifiers <- QualifiersOf
  BaseName <- NameInside
INVARIANTS
  ReadsBack
  NestingIsCounted
  WritingIsCanonical
  RemainderIsTheRest
  StringsReadBack
  BlocksReadBack
  NumbersAreRead
  IdsMatchNames
  PanicsOnlyUnresolved
  SameSchema
  TypesAreDenoted
CHECK_DEADLOCK FALSE
