\* External control disabled.
SPECIFICATION RunSpec
CONSTANTS
    run = run
    Caller = {run}
    NoCaller = NoCaller
    Main = run
    ControlEnabled = FALSE
    MaxSignals = 0
    EnablePaste = FALSE
    MaxTakes = 1
    Modes = {"hold"}
    SourceCap = 1
    EventCap = 1
    MaxPresses = 1
CHECK_DEADLOCK FALSE
INVARIANTS
    RunsWithoutControl
