\* One connection more than slots: the last one may be refused.
SPECIFICATION FairSpec
CONSTANTS
    c1 = c1
    c2 = c2
    Conn = {c1, c2}
    Slots = 1
CHECK_DEADLOCK FALSE
INVARIANTS
    TypeOK
    AccountsAgree
    NobodyLeftReading
    StopLeavesNothing
PROPERTIES
    StopReturns
    HandlersEnd
