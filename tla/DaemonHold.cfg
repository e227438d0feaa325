\* A dictation and the double tap after it, in hold mode.
SPECIFICATION RunSpec
CONSTANTS
    run = run
    Caller = {run}
    NoCaller = NoCaller
    Main = run
    ControlEnabled = TRUE
    MaxSignals = 0
    EnablePaste = FALSE
    MaxTakes = 2
    Modes = {"hold"}
    SourceCap = 1
    EventCap = 1
    MaxPresses = 3
CHECK_DEADLOCK FALSE
INVARIANTS
    DoubleTapRetriesPaste
