SPECIFICATION BenchSpec
CONSTANTS
    Bench <- MCBench
    Params <- MCParams
    Inputs <- MCInputs
    Steps = {0, 1, 5}
    MAX_DT = 3
    MaxFrames = 5
INVARIANTS
    OutputsFollowHistory
    FollowersNeverOvershoot
    BreakersStayTripped
CHECK_DEADLOCK FALSE
