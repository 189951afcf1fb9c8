----------------------------- MODULE ShortConv -----------------------------
(***************************************************************************)
(* A causal convolution fed in calls.  It needs the NState columns before  *)
(* the call's first token, and ConvStateCache keeps them between calls in  *)
(* one slot per layer, shared by every module of the model (session.cpp).  *)
(* op_short_conv reads the slot, or permanent zeros when n_past is 0, and  *)
(* the choice is made when the graph is BUILT.  GraphBuilder may serve a   *)
(* retained graph instead, and whether it does is decided by a key that    *)
(* n_past leaves for a topology with a cached ATTENTION whose text does    *)
(* not mention n_past.                                                     *)
(*                                                                         *)
(* One layer stands for all.  A column is the token it was computed from.  *)
(***************************************************************************)
EXTENDS StepAxes, Sequences

CONSTANTS Module,
          Attentive,    \* modules with a cached ATTENTION as well (buckets_kv_)
          Rebuilds,     \* modules whose topology text mentions n_past
          NState,       \* kernel width - 1
          MaxTokens, MaxPos, MaxSeq     \* TLC bounds, as in KvAttention

ASSUME ConvModuleAssumption == Attentive \subseteq Module /\ Rebuilds \subseteq Module
\* A position-wise convolution has no history: op_short_conv refuses it.
ASSUME StateAssumption == NState \in Nat \ {0}
ASSUME ConvBoundsAssumption == MaxTokens \in Nat /\ MaxPos \in Nat /\ MaxSeq \in Nat \ {0}

VARIABLES
    slot,       \* the layer's last NState columns
    seq,        \* the driver's current sequence
    n_past,     \* how many of its tokens the driver has fed
    live,       \* FALSE once a run of this sequence failed
    graph,      \* module -> the graph GraphBuilder retains
    heard       \* what the last completed call convolved, and for whom

vars == <<slot, seq, n_past, live, graph, heard>>

Zero == [seq |-> 0, pos |-> 0]          \* a cleared column
Torn == [seq |-> 0, pos |-> 1]          \* what a failed run may leave
Token(s, p) == [seq |-> s, pos |-> p]
Zeros == [i \in 1 .. NState |-> Zero]

NoGraph == [key |-> [n_tokens |-> 0]]
Silence == [seq |-> 0, from |-> 0, columns |-> << >>]

-----------------------------------------------------------------------------
(* GraphBuilder::build *)

\* Fault: n_past leaves the key of every topology with a cache.
KeyIgnoresUnread(m) == m \in Attentive

\* GraphBuilder::key_ignores_n_past_
KeyIgnoresNPast(m) == m \in Attentive /\ m \notin Rebuilds

Key(m, n) == RetainedKey(KeyIgnoresNPast(m), n, n_past)

\* op_short_conv's "n_past == 0 means no history", decided at build time.
ReadsZeros == n_past = 0

NewGraph(m, n) == [key |-> Key(m, n), zeros |-> ReadsZeros]

Retains(m, n) == graph[m] # NoGraph /\ graph[m].key = Key(m, n)

\* Nothing in a retained graph that the history comes from is refreshed.
Built(m, n) == IF Retains(m, n) THEN graph[m] ELSE NewGraph(m, n)

\* Only a topology with a cached ATTENTION has a KV length to fit.
Served(m, n) == m \in Attentive => Fits(n, n_past)

-----------------------------------------------------------------------------
(* op_short_conv *)

\* The history before the call's own tokens.
ConvIn(g, n) ==
    (IF g.zeros THEN Zeros ELSE slot) \o [i \in 1 .. n |-> Token(seq, n_past + i - 1)]

\* Faults: the state kept is the call's first NState columns; it is all of them.
HeadOf(columns) == SubSeq(columns, 1, NState)
AllOf(columns) == columns

\* The next step's history: the last NState columns of what was convolved, so a
\* prompt shorter than that leaves a window padded with zeros on the left.
TailOf(columns) == SubSeq(columns, Len(columns) - NState + 1, Len(columns))

-----------------------------------------------------------------------------
Init ==
    /\ slot = Zeros             \* ConvStateCache's constructor clears its store
    /\ seq = 1
    /\ n_past = 0
    /\ live = TRUE
    /\ graph = [m \in Module |-> NoGraph]
    /\ heard = Silence

\* A completed call.
Step(m, n) ==
    LET g == Built(m, n) IN
    /\ live
    /\ n_past + n <= MaxPos
    /\ Served(m, n)
    /\ graph' = [graph EXCEPT ![m] = g]
    /\ heard' = [seq |-> seq, from |-> n_past, columns |-> ConvIn(g, n)]
    /\ slot' = TailOf(ConvIn(g, n))
    /\ n_past' = n_past + n
    /\ UNCHANGED <<seq, live>>

\* build() throws after it dropped the retained graph.
BuildFails(m, n) ==
    /\ live
    /\ n_past + n <= MaxPos
    /\ Served(m, n)
    /\ ~Retains(m, n)
    /\ graph' = [graph EXCEPT ![m] = NoGraph]
    /\ UNCHANGED <<slot, seq, n_past, live, heard>>

\* A run that fails leaves the slot as it was, advanced, or torn.  Unlike a KV
\* row's, the write is not idempotent: the sequence cannot be resumed.
ComputeFails(m, n) ==
    LET g == Built(m, n) IN
    /\ live
    /\ n_past + n <= MaxPos
    /\ Served(m, n)
    /\ graph' = [graph EXCEPT ![m] = g]
    /\ slot' \in {slot, TailOf(ConvIn(g, n)), [i \in 1 .. NState |-> Torn]}
    /\ live' = FALSE
    /\ UNCHANGED <<seq, n_past, heard>>

\* The driver starts over at n_past = 0.  Nothing clears the slot.
NewSequence ==
    /\ seq < MaxSeq
    /\ seq' = seq + 1
    /\ n_past' = 0
    /\ live' = TRUE
    /\ UNCHANGED <<slot, graph, heard>>

Next ==
    \/ \E m \in Module, n \in 1 .. MaxTokens :
         Step(m, n) \/ BuildFails(m, n) \/ ComputeFails(m, n)
    \/ NewSequence

Spec == Init /\ [][Next]_vars

-----------------------------------------------------------------------------
(* Properties *)

Column == [seq : 0 .. MaxSeq, pos : 0 .. MaxPos]

\* Every variable has its type; the slot always has NState columns.
TypeOK ==
    /\ slot \in [1 .. NState -> Column]
    /\ seq \in 1 .. MaxSeq
    /\ n_past \in 0 .. MaxPos
    /\ live \in BOOLEAN
    /\ heard.columns \in Seq(Column)

\* Column i of a sequence's stream: zeros before its first token.
Stream(s, p) == IF p < 0 THEN Zero ELSE Token(s, p)

\* What a completed call convolves is its own sequence and nothing else: the NState
\* tokens before it and its own, zeros before the beginning.  This is what makes a
\* prefill after a generation correct without the host resetting anything, and a
\* decode step equal to the whole-prompt call (primitives_conv.cpp:684-691).
ConvolvesOwnSequence ==
    \A i \in 1 .. Len(heard.columns) :
        heard.columns[i] = Stream(heard.seq, heard.from - NState + i - 1)

\* Between two calls of a sequence the slot holds the NState columns before its next
\* token, whichever module made the last call.
SlotIsTail ==
    live /\ n_past > 0 =>
        \A i \in 1 .. NState : slot[i] = Stream(seq, n_past - NState + i - 1)
=============================================================================
