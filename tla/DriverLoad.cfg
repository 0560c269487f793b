SPECIFICATION Spec
CONSTANTS
    Openers = {p1, p2, p3}
INVARIANTS
    TypeOK
    NothingDangles
    OpenHoldsTheModule
PROPERTIES
    OpenOnlyWhenLive
CHECK_DEADLOCK FALSE
