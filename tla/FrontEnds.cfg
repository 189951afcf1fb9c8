SPECIFICATION DoorSpec
CONSTANTS
    Files <- MCFiles
    Lengths <- MCLengths
    Requests <- MCRequests
    Rate = 3
    Ticks = 4
    TsStep = 5
    WordEvery = 2
    Babble <- MCBabble
    MaxWindows = 5
    StopSets <- MCStopSets
    Shapes = {"list", "number", "echo"}
    NamedStops = {2}
    Word = 7
    MaxNew = 3
INVARIANTS TypeOK EverySampleHeard WindowsCover MergeRestoresSpeech
    MergeCutsOnlyOverlap ClosedInOrder BoundedWork NamesAccounted
    SameIdsEitherShape ConformingNotRefused
PROPERTIES CallEnds
(* a call ends *)
CHECK_DEADLOCK FALSE
