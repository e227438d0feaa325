\* Three callers: one inside, one waiting to stop, one more that barges in or
\* waits behind.  Two takes: a file of an earlier daemon and the recording that
\* replaces it, or two recordings.  No symmetry: it is unsound for liveness.
SPECIFICATION FairSpec
CONSTANTS
    c1 = c1
    c2 = c2
    c3 = c3
    Caller = {c1, c2, c3}
    NoCaller = NoCaller
    MaxTakes = 2
    EnablePaste = TRUE
INVARIANTS
    TypeOK
    OperationExclusive
    NoLostWakeup
    StateMatchesDevice
    PastesOwnTranscript
    ResultIsTruthful
    NeverBusyInside
PROPERTIES
    StateFollowsDevice
    NothingTypedWhileRecording
    ImplementsDictation
    CallsReturn
