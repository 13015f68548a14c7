SPECIFICATION Spec
CONSTANTS
    Values = {4, 5}
    ReadLine = 4
    Numbers = {14, 33, 48}
    SystemCall = 48
    Errors = {14}
INVARIANTS
    HandlerSees
    StackBounded
PROPERTY ProgramGoesOn
