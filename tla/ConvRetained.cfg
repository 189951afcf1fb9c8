SPECIFICATION Spec
CONSTANTS
    Module = {hybrid}
    Attentive = {hybrid}
    Rebuilds = {}
    Capacity = 4
    Bucket = 4
    Ring = FALSE
    NState = 2
    MaxTokens = 2
    MaxPos = 4
    MaxSeq = 2
INVARIANTS ConvolvesOwnSequence
(* the driver may stop feeding: bounds MaxPos and MaxSeq *)
CHECK_DEADLOCK FALSE
