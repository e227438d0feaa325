\* Two dictations, so that one can be mistaken for the other, and one tool
\* that comes or goes between a copy and a paste.
SPECIFICATION FairSpec
CONSTANTS
    MaxTexts = 2
    MaxToolChanges = 1
CHECK_DEADLOCK FALSE
PROPERTIES
    DeliversOwnText
    OnlyXclipHolds
