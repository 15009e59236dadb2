SPECIFICATION Spec
CONSTANTS
    Input = {A, B, C}
    Leaf = {L}
    MaxFields = 1
    MaxDeclared = 3
    MaxVariables = 1
    StackLimit = 5
CHECK_DEADLOCK FALSE
INVARIANT AlwaysDecides
