SPECIFICATION BackendsSpec
CONSTANTS
    decode = decode
    half = half
    more = more
    prefill = prefill
    Shape <- MCShape
    Need <- MCNeed
    Prefill = prefill
    Decode = decode
    Window = 3
    Factor = 2
    MaxAllocs = 7
    TOut = 7
    Chunk = 2
    Taps = 3
    Dilation = 2
    Pad = 2
    QPUs = 2
    InputOutlivesAct = FALSE
    Weights = {"in_ram", "in_pool"}
    Buffers = {"large"}
    Takes <- MCTakes
    PoolTotal = 6
    SlabSpans = 2
    PoolReserve = 1
    Needs = {1, 3}
    ArenaCap = 3
    MaxLoads = 2
INVARIANT StagedIsInput
(* a convolution ends *)
CHECK_DEADLOCK FALSE
