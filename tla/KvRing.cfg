SPECIFICATION Spec
CONSTANTS
    Module = {prefill, decode}
    Rebuilds = {prefill}
    Capacity = 3
    Bucket = 2
    Ring = TRUE
    MaskWindow = 0
    MaxTokens = 2
    MaxPos = 7
    MaxSeq = 2
INVARIANTS TypeOK CacheHoldsWindow ReuseEqualsRebuild
PROPERTIES ImplementsSlidingWindow ProperMaskNeverRefused
(* the driver may stop feeding: bounds MaxPos and MaxSeq *)
CHECK_DEADLOCK FALSE
