SPECIFICATION Spec
CONSTANTS
    Input = {A, B, C}
    Leaf = {L}
    MaxFields = 2
    MaxDeclared = 3
    MaxVariables = 2
    StackLimit = 5
SYMMETRY Symmetry
CHECK_DEADLOCK FALSE
INVARIANTS TypeOK UsedIsClosed NothingUnused WalksOnce FiniteSize BoxedOnlyIfRecursive
PROPERTY WalkSearches
