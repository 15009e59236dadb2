SPECIFICATION Spec
CONSTANTS
  KindOf <- MCKindOf
  FieldsOf <- MCFieldsOf
  Implements <- MCImplements
  VariantsOf <- MCVariantsOf
  Objects <- MCObjects
  RootType <- MCRootType
  CamelCase <- MCCamelCase
  SnakeCase <- MCSnakeCase
  Words <- MCWords
  Items <- MCItems
  Written <- MCWritten
INVARIANTS
  ResolvedAsWritten
  OverflowsOnlyOnCycles
  AnswersAreRead
  NothingElseIsRead
  TypenameIsAnswered
  NothingDangles
  FiniteUnlessMutual
  NamesAreDistinct
PROPERTY CollectsWhatIsSpread
CHECK_DEADLOCK FALSE
