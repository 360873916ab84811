SPECIFICATION SpecInvocations
CONSTANTS
    Proc = {p1, p2}
INVARIANTS
    TypeOKInvocations
    HandlerScoped
    ColorWithoutConflict
PROPERTIES
    ImplementsIndependent
    EveryInvocationReturns
CHECK_DEADLOCK FALSE
