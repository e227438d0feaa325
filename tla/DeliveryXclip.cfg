\* One dictation and a single set of tools are enough.
SPECIFICATION FairSpec
CONSTANTS
    MaxTexts = 1
    MaxToolChanges = 0
CHECK_DEADLOCK FALSE
PROPERTY
    DeliveryEnds
