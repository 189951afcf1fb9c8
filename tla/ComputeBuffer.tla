--------------------------- MODULE ComputeBuffer ---------------------------
(***************************************************************************)
(* The compute buffer of one CPU-only GraphBuilder (ADR-072).  ggml's      *)
(* graph allocator grows and never shrinks, so the builder replaces it     *)
(* itself, but only after kShrinkWindow calls in a row, reuses included,   *)
(* have each needed at most 1/kShrinkFactor of the buffer.  The retained   *)
(* graph's tensors point into the buffer, so a shrink must also rebuild.   *)
(*                                                                         *)
(* A shape stands for a call's structural key and its output store, and    *)
(* Need for what a graph of that shape plans to use.  A hybrid builder's   *)
(* scheduler owns its buffers and none of this applies to it.              *)
(***************************************************************************)
EXTENDS Integers, Sequences

CONSTANTS Shape, Need,
          Prefill, Decode,  \* the two shapes reserve() builds
          Window,           \* GraphBuilder::kShrinkWindow
          Factor,           \* GraphBuilder::kShrinkFactor
          MaxAllocs         \* TLC bound on the buffers ever allocated

ASSUME NeedAssumption == Need \in [Shape -> Nat \ {0}]
ASSUME ReserveAssumption == {Prefill, Decode} \subseteq Shape
ASSUME PolicyAssumption == Window \in Nat \ {0} /\ Factor \in Nat \ {0, 1}

VARIABLES
    buf,            \* galloc_'s buffer; size 0 is no buffer
    graph,          \* the retained graph and the buffer its tensors are in
    cached_need,    \* cached_need_
    underused,      \* underused_calls_
    reserved, held, \* reserved_, held_
    allocs,         \* how many buffers were ever allocated
    recent          \* the last Window completed calls the policy governed

vars == <<buf, graph, cached_need, underused, reserved, held, allocs, recent>>

NoBuffer == [id |-> 0, size |-> 0]
NoGraph == [id |-> 0]

-----------------------------------------------------------------------------
(* shrink_policy_active, note_call_need, and the allocator *)

Active == ~reserved /\ ~held

\* A call needing more than its share is a call the buffer is FOR.
Underuses(need, b) == b.size > 0 /\ need * Factor <= b.size

\* Fault: a call that needs the buffer does not end the window.
NotedNeverReset(need) == IF Underuses(need, buf) THEN underused + 1 ELSE underused

Noted(need) == IF Underuses(need, buf) THEN underused + 1 ELSE 0

\* Fault: one call too many.
DueLater(need) == Noted(need) > Window

Due(need) == Noted(need) >= Window

\* ggml_gallocr_alloc_graph: a buffer that is large enough stays, another is freed
\* and replaced by one of exactly the size needed.
Allocated(b, need) == IF need <= b.size THEN b ELSE [id |-> allocs + 1, size |-> need]

Holding(s, b) == [id |-> b.id, shape |-> s]

LastCalls(calls) == IF Len(calls) > Window THEN Tail(calls) ELSE calls

Remembered(s) ==
    IF Active THEN LastCalls(Append(recent, [need |-> Need[s], id |-> buf'.id]))
              ELSE << >>

-----------------------------------------------------------------------------
Init ==
    /\ buf = NoBuffer
    /\ graph = NoGraph
    /\ cached_need = 0
    /\ underused = 0
    /\ reserved = FALSE
    /\ held = FALSE
    /\ allocs = 0
    /\ recent = << >>

HasGraph(s) == graph # NoGraph /\ graph.shape = s

\* Fault: only builds are counted.
ReuseUncounted(s) ==
    /\ HasGraph(s)
    /\ UNCHANGED <<buf, graph, cached_need, underused, reserved, held, allocs>>
    /\ recent' = Remembered(s)

\* The retained graph serves the call, unless the policy turns the hit into a rebuild.
Reuse(s) ==
    /\ HasGraph(s)
    /\ Active => ~Due(cached_need)
    /\ underused' = IF Active THEN Noted(cached_need) ELSE underused
    /\ UNCHANGED <<buf, graph, cached_need, reserved, held, allocs>>
    /\ recent' = Remembered(s)

\* The new graph is allocated in a buffer of its own.
Shrink(s) ==
    /\ buf' = [id |-> allocs + 1, size |-> Need[s]]
    /\ graph' = Holding(s, buf')
    /\ cached_need' = Need[s]
    /\ underused' = 0
    /\ allocs' = allocs + 1

\* The hit that completes a window of under-use.
ShrinkOnReuse(s) ==
    /\ HasGraph(s)
    /\ Active /\ Due(cached_need)
    /\ Shrink(s)
    /\ UNCHANGED <<reserved, held>>
    /\ recent' = Remembered(s)

\* A call the retained graph does not fit, in its shape or because its output store
\* has moved: any shape may be rebuilt.  With no live buffer, or none of the policy's
\* concern, nothing is planned and the buffer's size is taken for the need.
Rebuild(s) ==
    LET probed == Active /\ buf.size > 0 IN
    /\ IF probed /\ Due(Need[s])
       THEN Shrink(s)
       ELSE /\ buf' = Allocated(buf, Need[s])
            /\ graph' = Holding(s, buf')
            /\ cached_need' = IF probed THEN Need[s] ELSE buf'.size
            /\ underused' = IF probed THEN Noted(Need[s]) ELSE underused
            /\ allocs' = IF buf' = buf THEN allocs ELSE allocs + 1
    /\ UNCHANGED <<reserved, held>>
    /\ recent' = Remembered(s)

\* build() throws before anything is allocated.  When it was on the way to shrinking,
\* the count stands and the buffer too.
BuildFails(s) ==
    /\ graph' = NoGraph
    /\ underused' \in {underused} \cup
           (IF Active /\ HasGraph(s) /\ Due(cached_need) THEN {Noted(cached_need)} ELSE {})
    /\ UNCHANGED <<buf, cached_need, reserved, held, allocs, recent>>

\* The memory for a new buffer is refused after the old one was freed.
AllocFails(s) ==
    LET probed == Active /\ buf.size > 0
        shrinks == Active /\ ((HasGraph(s) /\ Due(cached_need)) \/ (probed /\ Due(Need[s])))
    IN
    /\ shrinks \/ Need[s] > buf.size
    /\ buf' = NoBuffer
    /\ graph' = NoGraph
    /\ underused' = IF shrinks \/ probed THEN 0 ELSE underused
    /\ UNCHANGED <<cached_need, reserved, held, allocs, recent>>

\* Fault: the graph of the hold stays.
HoldKeepsGraph(hold) ==
    /\ held' = hold
    /\ underused' = 0
    /\ recent' = << >>
    /\ UNCHANGED <<buf, graph, cached_need, reserved, allocs>>

\* hold_compute_buffer: ending a hold forgets the graph whose need was not measured.
HoldComputeBuffer(hold) ==
    /\ graph' = IF held /\ ~hold THEN NoGraph ELSE graph
    /\ held' = hold
    /\ underused' = 0
    /\ recent' = << >>
    /\ UNCHANGED <<buf, cached_need, reserved, allocs>>

\* Fault: the retained graph outlives the buffer.
ReleaseKeepsGraph ==
    /\ buf' = NoBuffer
    /\ cached_need' = 0
    /\ underused' = 0
    /\ UNCHANGED <<graph, reserved, held, allocs, recent>>

ReleaseComputeBuffer ==
    /\ buf' = NoBuffer
    /\ graph' = NoGraph
    /\ cached_need' = 0
    /\ underused' = 0
    /\ UNCHANGED <<reserved, held, allocs, recent>>

\* reserve(): from here on the policy is off.  The worst-case prefill is built, then
\* the worst-case decode step, each of them possibly a reuse.
Reserve ==
    LET first == Allocated(buf, Need[Prefill])
        both == IF Need[Decode] <= first.size THEN first
                ELSE [id |-> allocs + 1, size |-> Need[Decode]]
    IN
    /\ reserved' = TRUE
    /\ buf' = both
    /\ graph' = Holding(Decode, both)
    /\ cached_need' = IF HasGraph(Decode) /\ Prefill = Decode THEN cached_need ELSE both.size
    /\ allocs' = IF both = buf THEN allocs ELSE allocs + 1
    /\ recent' = << >>
    /\ UNCHANGED <<underused, held>>

\* One of the two builds throws, before its allocation or in it.
ReserveFails ==
    /\ reserved' = TRUE
    /\ buf' \in {buf, NoBuffer, Allocated(buf, Need[Prefill])}
    /\ graph' = NoGraph
    /\ allocs' = IF buf' \in {buf, NoBuffer} THEN allocs ELSE allocs + 1
    /\ recent' = << >>
    /\ cached_need' \in {cached_need, Allocated(buf, Need[Prefill]).size}
    /\ UNCHANGED <<underused, held>>

Next ==
    /\ allocs < MaxAllocs
    /\ \/ \E s \in Shape :
            \/ Reuse(s)
            \/ ShrinkOnReuse(s)
            \/ Rebuild(s)
            \/ BuildFails(s)
            \/ AllocFails(s)
       \/ \E hold \in BOOLEAN : HoldComputeBuffer(hold)
       \/ ReleaseComputeBuffer
       \/ Reserve
       \/ ReserveFails

Spec == Init /\ [][Next]_vars

-----------------------------------------------------------------------------
(* Properties *)

Size == {0} \cup {Need[s] : s \in Shape}

\* Every variable has its type; the count of under-used calls never passes the
\* window, even when the rebuild that was to shrink keeps failing.
TypeOK ==
    /\ buf \in [id : 0 .. allocs, size : Size]
    /\ graph \in [id : 1 .. allocs, shape : Shape] \cup {NoGraph}
    /\ cached_need \in Size
    /\ underused \in 0 .. Window
    /\ reserved \in BOOLEAN /\ held \in BOOLEAN
    /\ allocs \in Nat
    /\ recent \in Seq([need : Size, id : 0 .. allocs]) /\ Len(recent) <= Window

\* The retained graph's tensors are in the buffer that is live now and inside it:
\* serving it again never runs in freed memory.
GraphInLiveBuffer ==
    graph # NoGraph => graph.id = buf.id /\ Need[graph.shape] <= buf.size

\* While the policy is on, what it takes for the retained graph's need is its need: a
\* reuse is judged as the rebuild would be.  A hold leaves graphs whose need is the
\* whole buffer, and each reuse of one would keep the shrink from ever coming
\* (graph_builder.cpp:663-666).
NeedIsKnown ==
    Active /\ graph # NoGraph => cached_need = Need[graph.shape]

\* A completed call gets a smaller buffer only when the policy is on and Window completed
\* calls in a row, itself included, each needed at most its share: a module that
\* alternates between a short and a long shape never gives its buffer back.
ShrinkIsEarned ==
    [][ 0 < buf'.size /\ buf'.size < buf.size =>
          /\ Active
          /\ Len(recent') = Window
          /\ \A i \in 1 .. Window : recent'[i].need * Factor <= buf.size ]_vars

\* ... and it always does then: no Window completed calls in a row leave a buffer all of
\* them under-used, so a long burst's memory does come back.
UnderuseIsAnswered ==
    ~ /\ Len(recent) = Window
      /\ \A i \in 1 .. Window : recent[i].id = buf.id /\ Underuses(recent[i].need, buf)
=============================================================================
