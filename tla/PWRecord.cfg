\* Two callers, so that one waits for the other; a file of an earlier daemon
\* and up to two recordings after it, or three recordings.
SPECIFICATION FairSpec
CONSTANTS
    c1 = c1
    c2 = c2
    Caller = {c1, c2}
    NoCaller = NoCaller
    MaxTakes = 2
CHECK_DEADLOCK FALSE
INVARIANTS
    TypeOK
    OwnFrames
    NothingRunsOn
PROPERTIES
    CallsReturn
    ImplementsRecorder
