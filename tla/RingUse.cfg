SPECIFICATION Spec
CONSTANTS
    MAX = 3
    NULL = NULL
    Sizes = {0, 1, 2}
    MaxAdds = 7
INVARIANTS
    TypeOK
    WindowIsLastWrites
    FindIsByteAtOffset
    EmptyIffUnused
CHECK_DEADLOCK TRUE
