SPECIFICATION Spec
CONSTANTS
  KindOf <- MCKindOf
  FieldsOf <- MCFieldsOf
  Implements <- MCImplements
  VariantsOf <- MCVariantsOf
  Objects <- MCObjects
  RootType <- MCRootType
  CamelCase <- MCCamelCase
  SnakeCase <- MCSnakeCase
  Words <- MCWords
  Items <- MCItems
  Written <- MCWritten
INVARIANT FragmentsAreSent
CHECK_DEADLOCK FALSE
