---------------------------- MODULE KvAttention ----------------------------
(***************************************************************************)
(* Cached attention, one cache shared by several modules (prefill and      *)
(* decode topologies of one model, session.cpp).  A call builds or reuses  *)
(* the module's retained graph (GraphBuilder::build), writes the mask the  *)
(* driver computed into it (compute_and_emit, set_mask_tensor_padded) and  *)
(* runs it: the step's K/V rows are scattered to the cells the kv_cells    *)
(* tensor names, then every query attends to the cells of the read view    *)
(* its mask row leaves open (op_attention).                                *)
(*                                                                         *)
(* Nothing clears the cache when a driver starts a new sequence at         *)
(* n_past = 0; Generator::generate and KvCache::reset do.                  *)
(*                                                                         *)
(* One layer stands for all: every layer writes and reads the same cells   *)
(* in the same graph.  K and V are one value, the token they were computed *)
(* from.                                                                   *)
(***************************************************************************)
EXTENDS StepAxes

CONSTANTS Module,
          Rebuilds,     \* modules whose topology text mentions n_past
          MaskWindow,   \* loom.causal_mask's third argument, 0 when absent
          MaxTokens,    \* most tokens in one call
          MaxPos,       \* TLC bound on a sequence's length
          MaxSeq        \* TLC bound on the number of sequences

ASSUME ModuleAssumption == Rebuilds \subseteq Module
ASSUME WindowAssumption == MaskWindow \in Nat
\* Every layer of a ring model has the ring's own window (ADR-066), and its
\* drivers pass no third argument.
ASSUME RingWindowAssumption == Ring => MaskWindow = 0
ASSUME BoundsAssumption ==
    /\ MaxTokens \in Nat /\ MaxPos \in Nat /\ MaxTokens <= MaxPos
    /\ MaxSeq \in Nat \ {0}

VARIABLES
    cells,      \* KvCache's rows
    seq,        \* the driver's current sequence
    n_past,     \* how many of its tokens the driver has fed
    graph,      \* module -> the graph GraphBuilder retains
    attended,   \* what the last completed call attended to, row by row
    refused     \* why the last call was refused, "no" when it was not

vars == <<cells, seq, n_past, graph, attended, refused>>

Token(s, p) == [seq |-> s, pos |-> p]
NoToken == Token(0, 0)          \* a cleared row, or one torn by a failed run
NoGraph == [key |-> [n_tokens |-> 0], n_kv |-> 0, n_kv_real |-> 0, kv_cells |-> << >>]

-----------------------------------------------------------------------------
(* GraphBuilder::build *)

Key(m, n) == RetainedKey(m \notin Rebuilds, n, n_past)

NewGraph(m, n) ==
    [key       |-> Key(m, n),
     n_kv      |-> EffectiveNKv(n, n_past),
     n_kv_real |-> RealNKv(n, n_past),
     kv_cells  |-> CellIndex(n, n_past)]

Retains(m, n) == graph[m] # NoGraph /\ graph[m].key = Key(m, n)

\* Faults: the cell indices stay those of the call the graph was built for; the
\* unpadded length does.
ReusedSameCells(m, n) == [graph[m] EXCEPT !.n_kv_real = RealNKv(n, n_past)]
ReusedSameLength(m, n) == [graph[m] EXCEPT !.kv_cells = CellIndex(n, n_past)]

\* On a reuse only what describes the step moves: the cell indices and n_kv_real.
Reused(m, n) == [graph[m] EXCEPT !.kv_cells = CellIndex(n, n_past),
                                 !.n_kv_real = RealNKv(n, n_past)]

Built(m, n) == IF Retains(m, n) THEN Reused(m, n) ELSE NewGraph(m, n)

-----------------------------------------------------------------------------
(* The driver's mask and where it is placed: a width and, for each query    *)
(* row, the columns that are 0 rather than -inf.                            *)

CausalMask(n, past) ==
    [width |-> past + n,
     open  |-> [i \in 0 .. n - 1 |->
                  {j \in 0 .. past + n - 1 :
                     j <= past + i /\ (MaskWindow = 0 \/ past + i - j < MaskWindow)}]]

\* The masks callers build: a driver's loom.causal_mask at the width of the
\* cells that hold its sequence, which a ring driver clamps to the capacity; a
\* ring driver that forgot to clamp; and Generator::write_inputs, which fills
\* whatever width the tensor has.
MaskKind == {"causal", "unclamped"} \cup (IF Ring \/ MaskWindow > 0 THEN {} ELSE {"tensor"})

MaskOf(kind, n, g) ==
    CASE kind = "causal" ->
           CausalMask(n, IF Ring /\ n = 1 THEN Smaller(n_past, Capacity - 1) ELSE n_past)
      [] kind = "unclamped" -> CausalMask(n, n_past)
      [] kind = "tensor" ->
           [width |-> g.n_kv,
            open  |-> [i \in 0 .. n - 1 |-> {j \in 0 .. g.n_kv - 1 : j <= n_past + i}]]

MaskAccepted(mask, g) == mask.width \in {g.n_kv_real, g.n_kv}

\* Fault: the columns past the driver's width are left open.
PlacedMaskOpenTail(mask, g) ==
    [i \in DOMAIN mask.open |-> mask.open[i] \cup (mask.width .. g.n_kv - 1)]

\* The columns past the driver's width are filled with -inf.
PlacedMask(mask, g) == mask.open

-----------------------------------------------------------------------------
(* The graph's run: writes first, then reads *)

Written(g, n) ==
    [c \in Cell |-> IF \E i \in 0 .. n - 1 : g.kv_cells[i] = c
                    THEN Token(seq, n_past + (CHOOSE i \in 0 .. n - 1 : g.kv_cells[i] = c))
                    ELSE cells[c]]

ReadView(g) == 0 .. g.n_kv - 1

Attend(store, open, g, n) ==
    [i \in 0 .. n - 1 |-> {store[c] : c \in ReadView(g) \cap open[i]}]

-----------------------------------------------------------------------------
Init ==
    /\ cells = [c \in Cell |-> NoToken]
    /\ seq = 1
    /\ n_past = 0
    /\ graph = [m \in Module |-> NoGraph]
    /\ attended = << >>
    /\ refused = "no"

\* A completed call of n tokens at the driver's n_past.
Step(m, n, kind) ==
    LET g == Built(m, n)
        mask == MaskOf(kind, n, g)
        store == Written(g, n)
    IN  /\ n_past + n <= MaxPos
        /\ Fits(n, n_past)
        /\ MaskAccepted(mask, g)
        /\ graph' = [graph EXCEPT ![m] = g]
        /\ cells' = store
        /\ attended' = Attend(store, PlacedMask(mask, g), g, n)
        /\ n_past' = n_past + n
        /\ refused' = "no"
        /\ UNCHANGED seq

\* build() throws before it looks at the retained graph.
RefuseAxes(m, n) ==
    /\ n_past + n <= MaxPos
    /\ ~Fits(n, n_past)
    /\ refused' = "axes"
    /\ UNCHANGED <<cells, seq, n_past, graph, attended>>

\* The mask is neither of the two widths that can be placed.
RefuseMask(m, n, kind) ==
    /\ n_past + n <= MaxPos
    /\ Fits(n, n_past)
    /\ ~MaskAccepted(MaskOf(kind, n, Built(m, n)), Built(m, n))
    /\ graph' = [graph EXCEPT ![m] = Built(m, n)]
    /\ refused' = "mask"
    /\ UNCHANGED <<cells, seq, n_past, attended>>

\* A rebuild drops the retained graph before anything in it can throw.
BuildFails(m, n) ==
    /\ n_past + n <= MaxPos
    /\ Fits(n, n_past)
    /\ ~Retains(m, n)
    /\ graph' = [graph EXCEPT ![m] = NoGraph]
    /\ refused' = "build"
    /\ UNCHANGED <<cells, seq, n_past, attended>>

\* compute() reports a status other than success: of the rows the graph was to
\* write some are written, some may be torn.  The driver's n_past does not move.
ComputeFails(m, n) ==
    LET g == Built(m, n) IN
    /\ n_past + n <= MaxPos
    /\ Fits(n, n_past)
    /\ graph' = [graph EXCEPT ![m] = g]
    /\ \E torn, done \in SUBSET {g.kv_cells[i] : i \in 0 .. n - 1} :
         cells' = [c \in Cell |-> CASE c \in torn -> NoToken
                                    [] c \in done \ torn -> Written(g, n)[c]
                                    [] OTHER -> cells[c]]
    /\ refused' = "compute"
    /\ UNCHANGED <<seq, n_past, attended>>

\* A driver starts over at n_past = 0 on a cache nobody cleared.
NewSequence ==
    /\ seq < MaxSeq
    /\ seq' = seq + 1
    /\ n_past' = 0
    /\ refused' = "no"
    /\ UNCHANGED <<cells, graph, attended>>

\* Generator::generate clears the cache first.
Reset ==
    /\ seq < MaxSeq
    /\ seq' = seq + 1
    /\ n_past' = 0
    /\ cells' = [c \in Cell |-> NoToken]
    /\ refused' = "no"
    /\ UNCHANGED <<graph, attended>>

\* loom.seed_kv writes the first k rows from a saved state; the driver's next
\* call is at n_past = k.
SeedKv(k) ==
    /\ seq < MaxSeq
    /\ k <= Capacity
    /\ k <= MaxPos
    /\ seq' = seq + 1
    /\ n_past' = k
    /\ cells' = [c \in Cell |-> IF c < k THEN Token(seq + 1, c) ELSE cells[c]]
    /\ refused' = "no"
    /\ UNCHANGED <<graph, attended>>

Next ==
    \/ \E m \in Module, n \in 1 .. MaxTokens :
         \/ \E kind \in MaskKind : Step(m, n, kind)
         \/ RefuseAxes(m, n)
         \/ \E kind \in MaskKind : RefuseMask(m, n, kind)
         \/ BuildFails(m, n)
         \/ ComputeFails(m, n)
    \/ NewSequence
    \/ Reset
    \/ \E k \in 1 .. Capacity : SeedKv(k)

Spec == Init /\ [][Next]_vars

-----------------------------------------------------------------------------
(* Properties *)

GraphType ==
    [key : [n_tokens : 1 .. MaxTokens, n_kv : 1 .. Capacity]
             \cup [n_tokens : 1 .. MaxTokens, n_past : 0 .. MaxPos],
     n_kv : 1 .. Capacity,
     n_kv_real : 1 .. Capacity,
     kv_cells : UNION {[0 .. n - 1 -> Cell] : n \in 1 .. MaxTokens}]

\* Every variable has its type.  A retained graph neither reads nor writes past the
\* last cell of the store: its bucket is capped, its row indices are cells.
TypeOK ==
    /\ cells \in [Cell -> [seq : 0 .. seq, pos : 0 .. MaxPos]]
    /\ seq \in 1 .. MaxSeq
    /\ n_past \in 0 .. MaxPos
    /\ graph \in [Module -> GraphType \cup {NoGraph}]
    /\ refused \in {"no", "axes", "mask", "build", "compute"}

\* The window of the queries this model makes: the ring's capacity, or the
\* band of the mask, or none.
ModelWindow == IF Ring THEN Capacity ELSE MaskWindow

Abstract == INSTANCE SlidingWindow WITH Window <- ModelWindow

\* Cached attention implements the sliding window: whatever graph was reused,
\* whatever an earlier sequence or a failed run left in the cache, every query of
\* a completed call attends to exactly the tokens of its own window.
ImplementsSlidingWindow == Abstract!AbsSpec

\* The rows the next query may look back at are in the cells they belong to, even
\* after a run failed halfway through its writes.
CacheHoldsWindow ==
    \A p \in 0 .. n_past - 1 : p > n_past - Capacity => cells[CellOf(p)] = Token(seq, p)

\* What a retained graph serves is what a rebuild for the same call would have
\* made: the key GraphBuilder drops n_past from still tells apart everything that
\* is not refreshed on a reuse.
ReuseEqualsRebuild ==
    \A m \in Module, n \in 1 .. MaxTokens :
        Fits(n, n_past) /\ Retains(m, n) => Reused(m, n) = NewGraph(m, n)

\* A caller that builds a mask of its real width, or of the tensor's, is never told
\* it is wrong, whichever earlier step built the graph that now serves it.
ProperMaskNeverRefused ==
    [][~ \E m \in Module, n \in 1 .. MaxTokens, kind \in MaskKind \ {"unclamped"} :
           RefuseMask(m, n, kind)]_vars
=============================================================================
