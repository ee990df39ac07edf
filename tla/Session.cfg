\* Two tabs of one browser.
CONSTANTS
    Tabs = {t1, t2}
    MaxAccounts = 3
    MaxInputs = 4
    MaxFaults = 1
SPECIFICATION Spec
INVARIANTS
    OneIdentity
    MuteHasCause
PROPERTIES
    SignedInGetsThrough
CHECK_DEADLOCK FALSE
