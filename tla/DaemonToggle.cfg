\* A dictation and the double tap after it, in toggle mode.
SPECIFICATION RunSpec
CONSTANTS
    run = run
    Caller = {run}
    NoCaller = NoCaller
    Main = run
    ControlEnabled = TRUE
    MaxSignals = 0
    EnablePaste = FALSE
    MaxTakes = 2
    Modes = {"toggle"}
    SourceCap = 1
    EventCap = 1
    MaxPresses = 4
CHECK_DEADLOCK FALSE
INVARIANTS
    DaemonTypeOK
    DoubleTapRetriesPaste
    ReleaseClosesMicrophone
