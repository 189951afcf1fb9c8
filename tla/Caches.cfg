SPECIFICATION CachesSpec
CONSTANTS
    Module = {hybrid, conv}
    Attentive = {hybrid}
    Rebuilds = {hybrid}
    Capacity = 5
    Bucket = 2
    Ring = FALSE
    NState = 2
    MaxTokens = 3
    MaxPos = 6
    MaxSeq = 2
INVARIANTS TypeOK ConvolvesOwnSequence SlotIsTail LinearReuse
PROPERTIES LinearIsWindow LinearMaskNeverRefused
(* the driver may stop feeding: bounds MaxPos and MaxSeq *)
CHECK_DEADLOCK FALSE
