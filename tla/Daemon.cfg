\* A key press and its release, a handler of the control server beside the loop,
\* and a signal.
\* No symmetry: it is unsound for liveness.
SPECIFICATION FairRunSpec
CONSTANTS
    run = run
    h1 = h1
    Caller = {run, h1}
    NoCaller = NoCaller
    Main = run
    ControlEnabled = TRUE
    MaxSignals = 1
    EnablePaste = FALSE
    MaxTakes = 1
    Modes = {"hold"}
    SourceCap = 1
    EventCap = 1
    MaxPresses = 1
CHECK_DEADLOCK FALSE
INVARIANTS
    SettledOnReturn
PROPERTIES
    SignalEndsRun
