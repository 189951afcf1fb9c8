SPECIFICATION BackendsSpec
CONSTANTS
    decode = decode
    half = half
    more = more
    prefill = prefill
    Shape <- MCShape
    Need <- MCNeed
    Prefill = prefill
    Decode = decode
    Window = 3
    Factor = 2
    MaxAllocs = 7
    TOut = 7
    Chunk = 2
    Taps = 3
    Dilation = 2
    Pad = 2
    QPUs = 2
    InputOutlivesAct = TRUE
    Weights = {"in_ram", "in_pool"}
    Buffers = {"large"}
    Takes <- MCTakes
    PoolTotal = 6
    SlabSpans = 2
    PoolReserve = 1
    Needs = {1, 3}
    ArenaCap = 3
    MaxLoads = 2
INVARIANTS TypeOK GraphInLiveBuffer NeedIsKnown UnderuseIsAnswered
    ConvTypeOK StagedIsInput CallMemoryIsLive CopiesAreCurrent
PROPERTIES ShrinkIsEarned ControlListStable ImplementsOnce ConvolutionEnds
(* MaxAllocs bounds the compute buffer's part, and a convolution ends *)
CHECK_DEADLOCK FALSE
