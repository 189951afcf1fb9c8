------------------------------ MODULE StepAxes ------------------------------
(***************************************************************************)
(* What a step's two axes (n_tokens, n_past) become before a graph is      *)
(* built: the KV length the call needs, the length the graph is built at,  *)
(* the cells its rows are written to, and the key the graph is retained    *)
(* under.  GraphBuilder computes all four (src/src/core/graph_builder.cpp) *)
(* and KvCache fills the cells (src/src/core/kv_cache.cpp).                *)
(*                                                                         *)
(* A KV cache has Capacity cells.  A linear cache holds positions          *)
(* 0..Capacity-1; a ring holds the last Capacity positions, position p in  *)
(* cell p % Capacity.                                                      *)
(***************************************************************************)
EXTENDS Integers

CONSTANTS Capacity,     \* KvCache::kv_size_
          Bucket,       \* GraphBuilder::kKvBucket
          Ring          \* KvCache::ring_, from the file's loom.kv_cache_ring

\* make_kv_cache refuses a cache of no cells; kKvBucket is a positive constant.
ASSUME CapacityAssumption == Capacity \in Nat \ {0}
ASSUME BucketAssumption == Bucket \in Nat \ {0}
ASSUME RingAssumption == Ring \in BOOLEAN

Smaller(a, b) == IF a <= b THEN a ELSE b

Cell == 0 .. Capacity - 1

RequestedNKv(n, past) == n + past

\* Fault: the multi-token call past a ring's capacity is served.
WrapsUnchecked(n, past) == FALSE

\* A ring call of several tokens that would pass the capacity, or a linear
\* call that would: GraphBuilder::build throws before it touches anything.
Wraps(n, past) == Ring /\ RequestedNKv(n, past) > Capacity /\ n > 1
Overflows(n, past) == ~Ring /\ RequestedNKv(n, past) > Capacity
Fits(n, past) == ~Wraps(n, past) /\ ~Overflows(n, past)

RealNKv(n, past) ==
    IF Ring THEN Smaller(RequestedNKv(n, past), Capacity) ELSE RequestedNKv(n, past)

RoundedUp(k) == ((k + Bucket - 1) \div Bucket) * Bucket

\* Fault: the last bucket runs past the last cell.
EffectiveNKvUncapped(n, past) == RoundedUp(RealNKv(n, past))

EffectiveNKv(n, past) == Smaller(RoundedUp(RealNKv(n, past)), Capacity)

CellOf(p) == IF Ring THEN p % Capacity ELSE p

\* The kv_cells tensor: row i of the step goes to this cell.
CellIndex(n, past) == [i \in 0 .. n - 1 |-> CellOf(past + i)]

\* What the retained graph is cached under.  ignoresNPast is
\* GraphBuilder::key_ignores_n_past_: n_past leaves the key and n_kv is the
\* bucketed length.  Otherwise the axes themselves are the key.
RetainedKey(ignoresNPast, n, past) ==
    IF ignoresNPast THEN [n_tokens |-> n, n_kv |-> EffectiveNKv(n, past)]
                    ELSE [n_tokens |-> n, n_past |-> past]
=============================================================================
