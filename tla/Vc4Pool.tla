------------------------------ MODULE Vc4Pool -------------------------------
(***************************************************************************)
(* The GPU's pool of the vc4 backend: what ggml allocates there (weights,  *)
(* compute buffers), and what the backend keeps beside it for speed, the   *)
(* packed copies of weights in slabs and the arena.  One thread computes   *)
(* nodes; another allocates and frees buffers.  Runtime::mu is held by a   *)
(* call from packed_weights to the end of its launch, and by the other     *)
(* thread only to let go of what the backend keeps: the requests to the    *)
(* pool and the blocks given back are outside it.                          *)
(*                                                                         *)
(* Sizes are in units of a packed weight.  The address of a weight is its  *)
(* buffer's, and a later model's weight can come back at it.               *)
(***************************************************************************)
EXTENDS Integers, FiniteSets, FiniteSetsExt

CONSTANTS Weights, Buffers,   \* the addresses of weights, and of other buffers
          Takes,               \* what each takes of the pool; 0 for one in RAM
          PoolTotal,
          SlabSpans,          \* VC4_SLAB_BYTES
          PoolReserve,            \* VC4_POOL_RESERVE
          Needs, ArenaCap,    \* what calls ask of the arena; GGML_VC4_ARENA_MAX_KB
          MaxLoads            \* TLC bound on the models loaded at one address

ASSUME PoolAssumption ==
    /\ Takes \in [Weights \cup Buffers -> Nat] /\ Weights \cap Buffers = {}
    /\ Needs \subseteq Nat \ {0} /\ {PoolTotal, PoolReserve, ArenaCap, MaxLoads} \subseteq Nat
    /\ SlabSpans \in Nat \ {0} /\ IsFiniteSet(Weights)

VARIABLES
    owned,          \* buffers allocated and not freed
    loads,          \* how often a model was loaded at an address: what the weight is
    packed,         \* Runtime::packed: the slab and the offset of a weight's copy
    cpu_copy,       \* Runtime::cpu_copies: the load a weight's copy was made of
    slab, slab_used, slab_mem,
    arena,          \* the arena's size
    refused_need,   \* Runtime::refused_need
    back_since,     \* GpuBuffer::frees() is no longer refused_frees
    call,           \* the node being computed
    other           \* what the other thread is at

poolVars == <<owned, loads, packed, cpu_copy, slab, slab_used, slab_mem, arena,
              refused_need, back_since, call, other>>

None == [slab |-> 0, off |-> 0]
NoCall == [phase |-> "idle", weight |-> CHOOSE w \in Weights : TRUE, need |-> 0,
           copy |-> None]
NoRequest == [op |-> "none", of |-> CHOOSE w \in Weights : TRUE]
NeverRefused == PoolTotal + ArenaCap + 1        \* SIZE_MAX

SlabIds == 1 .. Cardinality(Weights) + 1

-----------------------------------------------------------------------------
(* The pool *)

\* A slab goes with the last copy in it, or when another is the one to fill.
LiveOf(copies, current) == ({copies[w].slab : w \in Weights} \cup {current}) \ {0}
LiveSlabs == LiveOf(packed, slab)

Used == MapThenSumSet(LAMBDA b : Takes[b], owned) + SlabSpans * Cardinality(LiveSlabs) + arena
Fits(size) == Used + size <= PoolTotal

\* pool_memory: what this process does not hold.
PoolFree == PoolTotal - Used

\* Runtime::mu is held by the call; it is let go before the CPU computes the node.
Locked == call.phase \notin {"idle", "cpu"}

Blank == [off \in 0 .. SlabSpans - 1 |-> << >>]
Kept(memory, live) == [s \in SlabIds |-> IF s \in live THEN memory[s] ELSE Blank]

LetGo(copies, current, size) ==
    /\ packed' = copies /\ slab' = current /\ arena' = size
    /\ slab_mem' = Kept(slab_mem, LiveOf(copies, current))
    /\ back_since' = (back_since \/ LiveSlabs # LiveOf(copies, current) \/ arena # size)

Nothing == [w \in Weights |-> None]
Only(w) == [Nothing EXCEPT ![w] = packed[w]]
Except(b) == [w \in Weights |-> IF w = b THEN None ELSE packed[w]]

-----------------------------------------------------------------------------
(* The thread that allocates and frees: buft_alloc_buffer, alloc_or_release,
   buffer_free *)

Own(b) ==
    /\ owned' = owned \cup {b}
    /\ loads' = IF b \in Weights THEN [loads EXCEPT ![b] = @ + 1] ELSE loads
    /\ other' = NoRequest

Allocate(b) ==
    /\ other.op = "none" /\ b \notin owned
    /\ b \in Weights => loads[b] < MaxLoads
    /\ IF Fits(Takes[b]) THEN Own(b)
       ELSE other' = [op |-> "refused", of |-> b] /\ UNCHANGED <<owned, loads>>
    /\ UNCHANGED <<packed, cpu_copy, slab, slab_used, slab_mem, arena, refused_need,
                   back_since, call>>

\* What the backend keeps goes before a buffer ggml needs is refused.
Release ==
    /\ other.op = "refused" /\ ~ Locked
    /\ IF packed = Nothing /\ arena = 0
       THEN other' = NoRequest /\ UNCHANGED <<packed, slab, slab_mem, arena, back_since>>
       ELSE LetGo(Nothing, 0, 0) /\ other' = [other EXCEPT !.op = "released"]
    /\ UNCHANGED <<owned, loads, cpu_copy, slab_used, refused_need, call>>

Retry ==
    /\ other.op = "released"
    /\ IF Fits(Takes[other.of]) THEN Own(other.of)
       ELSE other' = NoRequest /\ UNCHANGED <<owned, loads>>
    /\ UNCHANGED <<packed, cpu_copy, slab, slab_used, slab_mem, arena, refused_need,
                   back_since, call>>

\* release_owned.  A model is not freed while a node of it is computed.
MayFree(b) == other.op = "none" /\ b \in owned /\ (call.phase # "idle" => call.weight # b)

\* Fault: the copies outlive the weight's buffer.
DropNothing(b) ==
    /\ MayFree(b) /\ ~ Locked
    /\ LetGo(packed, 0, arena)
    /\ other' = [op |-> "dropped", of |-> b]
    /\ UNCHANGED <<owned, loads, cpu_copy, slab_used, refused_need, call>>

Drop(b) ==
    /\ MayFree(b) /\ ~ Locked
    /\ LetGo(Except(b), 0, arena)
    /\ cpu_copy' = [w \in Weights |-> IF w = b THEN 0 ELSE cpu_copy[w]]
    /\ other' = [op |-> "dropped", of |-> b]
    /\ UNCHANGED <<owned, loads, slab_used, refused_need, call>>

GiveBack ==
    /\ other.op = "dropped"
    /\ owned' = owned \ {other.of} /\ other' = NoRequest
    /\ back_since' = (back_since \/ Takes[other.of] > 0)
    /\ UNCHANGED <<loads, packed, cpu_copy, slab, slab_used, slab_mem, arena,
                   refused_need, call>>

-----------------------------------------------------------------------------
(* The call: packed_weights *)

Call(w, need) ==
    /\ call.phase = "idle"
    /\ w \in owned /\ other # [op |-> "dropped", of |-> w]
    /\ call' = [phase |-> "weight", weight |-> w, need |-> need, copy |-> None]
    /\ UNCHANGED <<owned, loads, packed, cpu_copy, slab, slab_used, slab_mem, arena,
                   refused_need, back_since, other>>

\* With a copy, or packed into the arena's first bytes for this call alone.
WithCopy(copy) == call' = [call EXCEPT !.phase = "arena", !.copy = copy]
PackedForCall == call' = [call EXCEPT !.phase = "arena", !.need = @ + 1]

Packing(memory, s, off) ==
    [memory EXCEPT ![s][off] = <<call.weight, loads[call.weight]>>]

FindCopy ==
    /\ call.phase = "weight" /\ packed[call.weight] # None
    /\ WithCopy(packed[call.weight])
    /\ UNCHANGED <<owned, loads, packed, cpu_copy, slab, slab_used, slab_mem, arena,
                   refused_need, back_since, other>>

PackInSlab ==
    /\ call.phase = "weight" /\ packed[call.weight] = None
    /\ slab # 0 /\ slab_used < SlabSpans
    /\ slab_mem' = Packing(slab_mem, slab, slab_used) /\ slab_used' = slab_used + 1
    /\ packed' = [packed EXCEPT ![call.weight] = [slab |-> slab, off |-> slab_used]]
    /\ WithCopy(packed'[call.weight])
    /\ UNCHANGED <<owned, loads, cpu_copy, slab, arena, refused_need, back_since, other>>

\* Another slab only while the pool keeps its reserve.
WantSlab ==
    /\ call.phase = "weight" /\ packed[call.weight] = None
    /\ slab = 0 \/ slab_used = SlabSpans
    /\ IF PoolFree < SlabSpans + PoolReserve THEN PackedForCall
       ELSE call' = [call EXCEPT !.phase = "slab"]
    /\ UNCHANGED <<owned, loads, packed, cpu_copy, slab, slab_used, slab_mem, arena,
                   refused_need, back_since, other>>

NewSlab ==
    /\ call.phase = "slab"
    /\ IF Fits(SlabSpans)
       THEN LET s == CHOOSE id \in SlabIds : id \notin LiveSlabs
                copies == [packed EXCEPT ![call.weight] = [slab |-> s, off |-> 0]]
            IN  /\ packed' = copies /\ slab' = s /\ slab_used' = 1
                /\ slab_mem' = Packing(Kept(slab_mem, LiveOf(copies, s)), s, 0)
                /\ back_since' = (back_since \/ ~ LiveSlabs \subseteq LiveOf(copies, s))
                /\ WithCopy(copies[call.weight])
       ELSE /\ packed' = packed /\ slab' = 0 /\ slab_used' = slab_used
            /\ slab_mem' = Kept(slab_mem, LiveOf(packed, 0))
            /\ back_since' = (back_since \/ LiveSlabs # LiveOf(packed, 0))
            /\ PackedForCall
    /\ UNCHANGED <<owned, loads, cpu_copy, arena, refused_need, other>>

-----------------------------------------------------------------------------
(* ensure_arena *)

RefusedBefore == call.need >= refused_need /\ ~ back_since

Proceed(phase) == call' = [call EXCEPT !.phase = phase]

Arena ==
    /\ call.phase = "arena"
    /\ \/ /\ call.need > ArenaCap
          /\ Proceed("cpu") /\ UNCHANGED <<packed, slab, slab_mem, arena, back_since>>
       \/ /\ call.need <= ArenaCap /\ arena >= call.need
          /\ Proceed("run") /\ UNCHANGED <<packed, slab, slab_mem, arena, back_since>>
       \/ /\ call.need <= ArenaCap /\ arena < call.need /\ RefusedBefore
          /\ Proceed("cpu") /\ UNCHANGED <<packed, slab, slab_mem, arena, back_since>>
       \/ /\ call.need <= ArenaCap /\ arena < call.need /\ ~ RefusedBefore
          /\ Proceed("grow") /\ LetGo(packed, slab, 0)
    /\ UNCHANGED <<owned, loads, cpu_copy, slab_used, refused_need, other>>

\* A quarter more than needed at first; Fault: a refusal lets every copy go.
Grown(need) == (5 * need + 3) \div 4

KeepNothing ==
    /\ call.phase = "grow"
    /\ IF Fits(Grown(call.need))
       THEN /\ arena' = Grown(call.need) /\ Proceed("run")
            /\ UNCHANGED <<packed, slab, slab_mem, back_since>>
       ELSE LetGo(Nothing, 0, 0) /\ Proceed("exact")
    /\ UNCHANGED <<owned, loads, cpu_copy, slab_used, refused_need, other>>

\* Refused, every copy but the one this call uses is let go.
Grow ==
    /\ call.phase = "grow"
    /\ IF Fits(Grown(call.need))
       THEN /\ arena' = Grown(call.need) /\ Proceed("run")
            /\ UNCHANGED <<packed, slab, slab_mem, back_since>>
       ELSE LetGo(Only(call.weight), 0, 0) /\ Proceed("exact")
    /\ UNCHANGED <<owned, loads, cpu_copy, slab_used, refused_need, other>>

Exact ==
    /\ call.phase = "exact"
    /\ IF Fits(call.need) THEN arena' = call.need /\ Proceed("run")
       ELSE arena' = arena /\ Proceed("remember")
    /\ UNCHANGED <<owned, loads, packed, cpu_copy, slab, slab_used, slab_mem,
                   refused_need, back_since, other>>

\* frees() is read after the pool has refused: a block given back between counts as before.
Remember ==
    /\ call.phase = "remember"
    /\ refused_need' = IF ~ back_since /\ refused_need < call.need THEN refused_need
                                                                  ELSE call.need
    /\ back_since' = FALSE
    /\ Proceed("cpu")
    /\ UNCHANGED <<owned, loads, packed, cpu_copy, slab, slab_used, slab_mem, arena, other>>

-----------------------------------------------------------------------------
(* The launch, or backend_graph_compute's on_cpu with q8_cpu_copy *)

EndRun ==
    /\ call.phase = "run" /\ call' = NoCall
    /\ UNCHANGED <<owned, loads, packed, cpu_copy, slab, slab_used, slab_mem, arena,
                   refused_need, back_since, other>>

\* A weight in RAM is in the QPUs' order, so the CPU has a copy of it in ggml's.
RunOnCpu ==
    /\ call.phase = "cpu" /\ call' = NoCall
    /\ cpu_copy' = [cpu_copy EXCEPT ![call.weight] =
                      IF @ = 0 /\ Takes[call.weight] = 0 THEN loads[call.weight] ELSE @]
    /\ UNCHANGED <<owned, loads, packed, slab, slab_used, slab_mem, arena, refused_need,
                   back_since, other>>

PoolInit ==
    /\ owned = {} /\ loads = [w \in Weights |-> 0]
    /\ packed = Nothing /\ cpu_copy = [w \in Weights |-> 0]
    /\ slab = 0 /\ slab_used = 0
    /\ slab_mem = [s \in SlabIds |-> Blank]
    /\ arena = 0 /\ refused_need = NeverRefused /\ back_since = FALSE
    /\ call = NoCall /\ other = NoRequest

PoolNext ==
    \/ \E b \in Weights \cup Buffers : Allocate(b) \/ Drop(b)
    \/ Release \/ Retry \/ GiveBack
    \/ \E w \in Weights, need \in Needs : Call(w, need)
    \/ FindCopy \/ PackInSlab \/ WantSlab \/ NewSlab
    \/ Arena \/ Grow \/ Exact \/ Remember \/ EndRun \/ RunOnCpu

PoolSpec == PoolInit /\ [][PoolNext]_poolVars

-----------------------------------------------------------------------------
IsCurrent(w, copy) == slab_mem[copy.slab][copy.off] = <<w, loads[w]>>

\* Nothing a call in flight uses is let go or overwritten, by its own request for an
\* arena (`keep`) or by another thread's for a buffer (alloc_or_release: "so nothing in
\* use is freed").
CallMemoryIsLive ==
    call.phase = "run" =>
        /\ arena >= call.need
        /\ call.copy # None => call.copy.slab \in LiveSlabs /\ IsCurrent(call.weight, call.copy)

\* A copy kept of a weight is of the weight that is at that address now: a later model's
\* weight can come back at the same address (release_owned).
CopiesAreCurrent ==
    \A w \in Weights :
        /\ packed[w] # None => w \in owned /\ IsCurrent(w, packed[w])
        /\ cpu_copy[w] # 0 => w \in owned /\ cpu_copy[w] = loads[w]
=============================================================================
