SPECIFICATION DoorSpec
CONSTANTS
    Files <- SeekFiles
    Lengths <- SeekLengths
    Requests <- SeekRequests
    Rate = 3
    Ticks = 4
    TsStep = 5
    WordEvery = 2
    Babble <- MCBabble
    MaxWindows = 5
    StopSets <- MCStopSets
    Shapes = {"number"}
    NamedStops = {2}
    Word = 7
    MaxNew = 3
INVARIANTS EveryStopIdStops
(* a call ends *)
CHECK_DEADLOCK FALSE
