------------------------------ MODULE MCCaches ------------------------------
(***************************************************************************)
(* The caches of a file that is no ring, one at a time: ShortConv's slot,  *)
(* a linear KV cache with full attention, and one with a banded mask and   *)
(* a capacity that is not a whole number of buckets.                       *)
(***************************************************************************)
EXTENDS ShortConv

VARIABLES part,                             \* which of the three runs
          cells, kv_seq, kv_past, kv_graph, attended, refused

kvVars == <<cells, kv_seq, kv_past, kv_graph, attended, refused>>

Linear == INSTANCE KvAttention WITH
    Module <- {"prefill", "decode"}, Rebuilds <- {"prefill"},
    Capacity <- 4, Bucket <- 2, Ring <- FALSE, MaskWindow <- 0,
    MaxTokens <- 2, MaxPos <- 6, MaxSeq <- 2,
    seq <- kv_seq, n_past <- kv_past, graph <- kv_graph

Banded == INSTANCE KvAttention WITH
    Module <- {"prefill", "decode"}, Rebuilds <- {"prefill"},
    Capacity <- 5, Bucket <- 2, Ring <- FALSE, MaskWindow <- 2,
    MaxTokens <- 2, MaxPos <- 6, MaxSeq <- 2,
    seq <- kv_seq, n_past <- kv_past, graph <- kv_graph

CachesInit ==
    \/ part = "conv" /\ Init /\ Linear!Init
    \/ part = "linear" /\ Init /\ Linear!Init
    \/ part = "banded" /\ Init /\ Banded!Init

CachesNext ==
    /\ \/ part = "conv" /\ Next /\ UNCHANGED kvVars
       \/ part = "linear" /\ Linear!Next /\ UNCHANGED vars
       \/ part = "banded" /\ Banded!Next /\ UNCHANGED vars
    /\ UNCHANGED part

CachesSpec == CachesInit /\ [][CachesNext]_<<vars, kvVars, part>>

-----------------------------------------------------------------------------
(* KvAttention's properties, for the instance that runs *)

\* What a retained graph of a linear cache serves is what a rebuild would have made,
\* and its cells hold the rows the next query may look back at.
LinearReuse == part = "linear" => Linear!ReuseEqualsRebuild /\ Linear!CacheHoldsWindow

\* Cached attention of a linear cache is full causal attention, or the band
\* (KvAttention!ImplementsSlidingWindow).
LinearIsWindow ==
    /\ part = "linear" => Linear!Abstract!AbsInit
    /\ part = "banded" => Banded!Abstract!AbsInit
    /\ [][/\ part = "linear" => Linear!Abstract!AbsNext
          /\ part = "banded" => Banded!Abstract!AbsNext]_<<attended, kv_seq, kv_past>>

\* A mask of the real width, or of the tensor's (Generator's), is never refused.
LinearMaskNeverRefused ==
    [][part = "linear" =>
         ~ \E m \in {"prefill", "decode"}, n \in 1 .. 2, kind \in {"causal", "tensor"} :
             Linear!RefuseMask(m, n, kind)]_<<kvVars, part>>
=============================================================================
