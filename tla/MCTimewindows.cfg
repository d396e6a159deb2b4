SPECIFICATION Spec
CONSTANTS
    Profiles = {p1}
    Writers = {profiler, timeline}
    Main = main
    None = None
    Width = 1
    FirstFlow = 0
    FlowTimes <- MCFlowTimes
    MaxTime = 3
    MaxMods = 3
INVARIANTS NeverLost ShutdownClosesAll ClosingsAnnounced
PROPERTIES InternalTimeAdvances OpenWindowsClose ImplementsLife
CHECK_DEADLOCK FALSE
