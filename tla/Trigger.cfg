\* Channels of one slot: both senders meet a full channel.
SPECIFICATION FairSpec
CONSTANTS
    Modes = {"hold", "toggle"}
    SourceCap = 1
    EventCap = 1
    MaxPresses = 3
CHECK_DEADLOCK FALSE
INVARIANTS
    TypeOK
    EveryPressCounts
    ToggleAlternates
    DoubleTapIsQuick
PROPERTIES
    HeldBackIsDecided
    PressReachesDaemon
    StopUnblocks
