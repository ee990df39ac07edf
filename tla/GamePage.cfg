\* A board of two lines, one timeout and one fault.
CONSTANTS
    Segments = {l1, l2}
    NoLine = NoLine
    MaxPasses = 1
    MaxFaults = 1
SPECIFICATION Spec
INVARIANTS
    NoPhantomLine
    StaleHasCause
PROPERTIES
    EndIsShown
CHECK_DEADLOCK FALSE
