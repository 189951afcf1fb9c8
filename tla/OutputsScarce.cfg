SPECIFICATION Spec
CONSTANTS
    Module = {enc, dec}
    Axes = {short, long}
    Addr = {lo, hi}
    SequenceAllocMayFail = TRUE
    MaxCalls = 4
INVARIANTS TypeOK RunWritesOwnSlot RunReadsWhatWasPassed StoreHoldsOwnRuns PinnedReadIsNotLater
(* the driver may stop calling: bound MaxCalls *)
SYMMETRY Symmetry
CHECK_DEADLOCK FALSE
