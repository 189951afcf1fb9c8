SPECIFICATION Spec
CONSTANTS
    Module = {enc, dec}
    Axes = {short, long}
    Addr = {lo, hi}
    SequenceAllocMayFail = FALSE
    MaxCalls = 4
INVARIANTS PinnedReadIsPinnedRun
(* the driver may stop calling: bound MaxCalls *)
SYMMETRY Symmetry
CHECK_DEADLOCK FALSE
