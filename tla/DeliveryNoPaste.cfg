\* One dictation is enough.
SPECIFICATION Spec
CONSTANTS
    MaxTexts = 1
    MaxToolChanges = 0
CHECK_DEADLOCK FALSE
INVARIANT
    TextIsSomewhere
