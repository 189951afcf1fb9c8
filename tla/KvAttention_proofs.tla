------------------------- MODULE KvAttention_proofs -------------------------
(***************************************************************************)
(* Cached attention, for every capacity, bucket, window and set of         *)
(* modules.  The invariant is IInv: a retained graph is what a rebuild     *)
(* for some call that fits would be (GraphOfSomeCall), the rows the next   *)
(* query may look back at are in their cells (CacheHoldsWindow), and a     *)
(* linear cache is never fed past its capacity (LinearFits).  From it: a   *)
(* reuse equals a rebuild, and every completed call attends to the         *)
(* sliding window.                                                         *)
(***************************************************************************)
EXTENDS KvAttention, StepAxes_proofs

GraphFor(m, n, past) ==
    [key       |-> RetainedKey(m \notin Rebuilds, n, past),
     n_kv      |-> EffectiveNKv(n, past),
     n_kv_real |-> RealNKv(n, past),
     kv_cells  |-> CellIndex(n, past)]

\* Every retained graph is a rebuild's graph for some call that fits.
GraphOfSomeCall ==
    \A m \in Module :
        \/ graph[m] = NoGraph
        \/ \E n \in 1 .. MaxTokens, p \in 0 .. MaxPos :
             Fits(n, p) /\ graph[m] = GraphFor(m, n, p)

CellsType == cells \in [Cell -> [seq : 0 .. seq, pos : 0 .. MaxPos]]

ScalarType ==
    /\ seq \in 1 .. MaxSeq
    /\ n_past \in 0 .. MaxPos
    /\ refused \in {"no", "axes", "mask", "build", "compute"}

LinearFits == ~Ring => n_past <= Capacity

IInv ==
    /\ CellsType
    /\ ScalarType
    /\ graph \in [Module -> GraphType \cup {NoGraph}]
    /\ GraphOfSomeCall
    /\ LinearFits
    /\ CacheHoldsWindow

-----------------------------------------------------------------------------
(* The retained graph *)

\* A graph for a call that fits has its type.
LEMMA GraphForType ==
    ASSUME NEW m \in Module, NEW n \in 1 .. MaxTokens, NEW p \in 0 .. MaxPos, Fits(n, p)
    PROVE  GraphFor(m, n, p) \in GraphType
<1>1. n \in Nat \ {0} /\ p \in Nat
  BY BoundsAssumption
<1>2. /\ EffectiveNKv(n, p) \in 1 .. Capacity
      /\ RealNKv(n, p) \in 1 .. Capacity
  BY <1>1, FittingLengths
<1>3. CellIndex(n, p) \in [0 .. n - 1 -> Cell]
  BY <1>1, RowsAreCells DEF CellIndex
<1>4. CellIndex(n, p) \in UNION {[0 .. k - 1 -> Cell] : k \in 1 .. MaxTokens}
  BY <1>3
<1>5. RetainedKey(m \notin Rebuilds, n, p)
        \in [n_tokens : 1 .. MaxTokens, n_kv : 1 .. Capacity]
              \cup [n_tokens : 1 .. MaxTokens, n_past : 0 .. MaxPos]
  BY <1>2 DEF RetainedKey
<1> QED BY <1>2, <1>4, <1>5 DEF GraphFor, GraphType

\* The key tells apart everything a reuse does not refresh: equal keys, equal
\* built lengths.
LEMMA KeyFixesLength ==
    ASSUME NEW m \in Module, NEW n, NEW p, NEW r, NEW past,
           RetainedKey(m \notin Rebuilds, r, p) = RetainedKey(m \notin Rebuilds, n, past)
    PROVE  r = n /\ EffectiveNKv(r, p) = EffectiveNKv(n, past)
<1>1. CASE m \notin Rebuilds
  <2>1. [n_tokens |-> r, n_kv |-> EffectiveNKv(r, p)]
          = [n_tokens |-> n, n_kv |-> EffectiveNKv(n, past)]
    BY <1>1 DEF RetainedKey
  <2> QED BY <2>1
<1>2. CASE m \in Rebuilds
  <2>1. [n_tokens |-> r, n_past |-> p] = [n_tokens |-> n, n_past |-> past]
    BY <1>2 DEF RetainedKey
  <2>2. r = n /\ p = past
    BY <2>1
  <2> QED BY <2>2
<1> QED BY <1>1, <1>2

\* Whichever way build() goes, the graph it returns is the one a rebuild makes.
LEMMA BuiltIsCurrent ==
    ASSUME GraphOfSomeCall, NEW m \in Module, NEW n \in 1 .. MaxTokens
    PROVE  Built(m, n) = GraphFor(m, n, n_past)
<1>1. NewGraph(m, n) = GraphFor(m, n, n_past)
  BY DEF NewGraph, GraphFor, Key
<1>2. ASSUME Retains(m, n)
      PROVE  Reused(m, n) = GraphFor(m, n, n_past)
  <2>1. PICK r \in 1 .. MaxTokens, p \in 0 .. MaxPos : graph[m] = GraphFor(m, r, p)
    BY <1>2 DEF Retains, GraphOfSomeCall
  <2>2. RetainedKey(m \notin Rebuilds, r, p) = RetainedKey(m \notin Rebuilds, n, n_past)
    BY <1>2, <2>1 DEF Retains, Key, GraphFor
  <2>3. r = n /\ EffectiveNKv(r, p) = EffectiveNKv(n, n_past)
    BY <2>2, KeyFixesLength
  <2> DEFINE k == RetainedKey(m \notin Rebuilds, r, p)
             l == EffectiveNKv(r, p)
             now == RetainedKey(m \notin Rebuilds, n, n_past)
             Current(key, len) == [key |-> key, n_kv |-> len, n_kv_real |-> RealNKv(n, n_past),
                                   kv_cells |-> CellIndex(n, n_past)]
  <2>4. graph[m] = [key |-> k, n_kv |-> l, n_kv_real |-> RealNKv(r, p),
                    kv_cells |-> CellIndex(r, p)]
    BY <2>1 DEF GraphFor
  <2>5. k = now /\ l = EffectiveNKv(n, n_past)
    BY <2>2, <2>3
  <2>6. GraphFor(m, n, n_past) = Current(now, EffectiveNKv(n, n_past))
    BY DEF GraphFor
  <2> DEFINE real == RealNKv(n, n_past)
             rows == CellIndex(n, n_past)
             rowsMoved == [graph[m] EXCEPT !.kv_cells = rows]
  <2>7. Reused(m, n) = [rowsMoved EXCEPT !.n_kv_real = real]
    BY DEF Reused
  <2>8. [key |-> k, n_kv |-> l, n_kv_real |-> real, kv_cells |-> rows] = Current(k, l)
    OBVIOUS
  <2> HIDE DEF k, l, now, real, rows, Current
  <2>9. rowsMoved = [key |-> k, n_kv |-> l, n_kv_real |-> RealNKv(r, p), kv_cells |-> rows]
    BY <2>4
  <2> HIDE DEF rowsMoved
  <2>10. [rowsMoved EXCEPT !.n_kv_real = real]
           = [key |-> k, n_kv |-> l, n_kv_real |-> real, kv_cells |-> rows]
    BY <2>9
  <2> QED BY <2>5, <2>6, <2>7, <2>8, <2>10
<1> QED BY <1>1, <1>2 DEF Built

\* Retaining the graph of the current call keeps every graph one of a call that
\* fits.
LEMMA GraphsKept ==
    ASSUME GraphOfSomeCall, ScalarType, graph \in [Module -> GraphType \cup {NoGraph}],
           NEW m \in Module, NEW n \in 1 .. MaxTokens, Fits(n, n_past),
           graph' = [graph EXCEPT ![m] = Built(m, n)]
    PROVE  GraphOfSomeCall' /\ (graph \in [Module -> GraphType \cup {NoGraph}])'
<1>1. n_past \in 0 .. MaxPos
  BY DEF ScalarType
<1>2. Built(m, n) = GraphFor(m, n, n_past)
  BY BuiltIsCurrent
<1>3. GraphFor(m, n, n_past) \in GraphType
  BY <1>1, GraphForType
<1>4. graph' \in [Module -> GraphType \cup {NoGraph}]
  BY <1>2, <1>3
<1>5. GraphOfSomeCall'
  <2> SUFFICES ASSUME NEW k \in Module
               PROVE  \/ graph'[k] = NoGraph
                      \/ \E r \in 1 .. MaxTokens, p \in 0 .. MaxPos :
                           Fits(r, p) /\ graph'[k] = GraphFor(k, r, p)
    BY DEF GraphOfSomeCall
  <2>1. CASE k = m
    BY <1>1, <1>2, <2>1
  <2>2. CASE k # m
    BY <2>2 DEF GraphOfSomeCall
  <2> QED BY <2>1, <2>2
<1> QED BY <1>4, <1>5

-----------------------------------------------------------------------------
(* The store *)

\* Where the rows of a call end up: the row of position n_past + i in its cell,
\* everything else where it was.
LEMMA WrittenRows ==
    ASSUME ScalarType, NEW m \in Module, NEW n \in 1 .. MaxTokens, Fits(n, n_past),
           NEW g, g = GraphFor(m, n, n_past)
    PROVE  /\ \A i \in 0 .. n - 1 :
                Written(g, n)[CellOf(n_past + i)] = Token(seq, n_past + i)
           /\ \A c \in Cell : (\A i \in 0 .. n - 1 : c # CellOf(n_past + i))
                => Written(g, n)[c] = cells[c]
<1>1. n \in Nat \ {0} /\ n_past \in Nat /\ n <= Capacity
  BY BoundsAssumption, FewRows DEF ScalarType
<1>2. \A i \in 0 .. n - 1 : g.kv_cells[i] = CellOf(n_past + i)
  BY DEF GraphFor, CellIndex
<1>3. ASSUME NEW i \in 0 .. n - 1
      PROVE  Written(g, n)[CellOf(n_past + i)] = Token(seq, n_past + i)
  <2> DEFINE c == CellOf(n_past + i)
             j == CHOOSE k \in 0 .. n - 1 : g.kv_cells[k] = c
  <2>1. c \in Cell
    BY <1>1, RowsAreCells
  <2>2. \E k \in 0 .. n - 1 : g.kv_cells[k] = c
    BY <1>2
  <2>3. j \in 0 .. n - 1 /\ g.kv_cells[j] = c
    BY <2>2
  <2>4. Written(g, n)[c] = Token(seq, n_past + j)
    BY <2>1, <2>2 DEF Written
  <2> HIDE DEF j
  <2>5. n_past + j = n_past + i
    <3>1. CellOf(n_past + j) = CellOf(n_past + i)
      BY <1>2, <2>3
    <3>2. /\ n_past + j \in Nat /\ n_past + i \in Nat
          /\ (n_past + j) - (n_past + i) < Capacity
          /\ (n_past + i) - (n_past + j) < Capacity
      BY <1>1, <2>3, CapacityAssumption
    <3> HIDE DEF c
    <3> QED BY <3>1, <3>2, CellOfInjective
  <2> QED BY <2>4, <2>5
<1>4. ASSUME NEW c \in Cell, \A i \in 0 .. n - 1 : c # CellOf(n_past + i)
      PROVE  Written(g, n)[c] = cells[c]
  BY <1>2, <1>4 DEF Written
<1> QED BY <1>3, <1>4

\* A row keeps its type when a call writes it.
LEMMA WrittenType ==
    ASSUME CellsType, ScalarType, NEW m \in Module, NEW n \in 1 .. MaxTokens,
           Fits(n, n_past), n_past + n <= MaxPos, NEW g, g = GraphFor(m, n, n_past)
    PROVE  Written(g, n) \in [Cell -> [seq : 0 .. seq, pos : 0 .. MaxPos]]
<1>1. n \in Nat \ {0} /\ n_past \in Nat /\ seq \in Nat /\ MaxPos \in Nat
  BY BoundsAssumption DEF ScalarType
<1>2. ASSUME NEW c \in Cell
      PROVE  Written(g, n)[c] \in [seq : 0 .. seq, pos : 0 .. MaxPos]
  <2>1. CASE \E i \in 0 .. n - 1 : c = CellOf(n_past + i)
    <3>1. PICK i \in 0 .. n - 1 : c = CellOf(n_past + i)
      BY <2>1
    <3>2. Written(g, n)[c] = Token(seq, n_past + i)
      BY <3>1, WrittenRows
    <3>3. seq \in 0 .. seq /\ n_past + i \in 0 .. MaxPos
      BY <1>1
    <3> QED BY <3>2, <3>3 DEF Token
  <2>2. CASE \A i \in 0 .. n - 1 : c # CellOf(n_past + i)
    <3>1. Written(g, n)[c] = cells[c]
      BY <2>2, WrittenRows
    <3> QED BY <3>1 DEF CellsType
  <2> QED BY <2>1, <2>2
<1>3. Written(g, n) = [c \in Cell |-> Written(g, n)[c]]
  BY DEF Written
<1> QED BY <1>2, <1>3

\* After a call's writes the last Capacity positions are in their cells.
LEMMA WindowWritten ==
    ASSUME ScalarType, CacheHoldsWindow, LinearFits,
           NEW m \in Module, NEW n \in 1 .. MaxTokens, Fits(n, n_past),
           NEW g, g = GraphFor(m, n, n_past), NEW p \in 0 .. n_past + n - 1,
           p > n_past + n - 1 - Capacity
    PROVE  Written(g, n)[CellOf(p)] = Token(seq, p)
<1>1. n \in Nat \ {0} /\ n_past \in Nat /\ Capacity \in Nat \ {0} /\ p \in Nat
  BY BoundsAssumption, CapacityAssumption DEF ScalarType
<1>2. CASE p >= n_past
  <2>1. p - n_past \in 0 .. n - 1 /\ n_past + (p - n_past) = p
    BY <1>1, <1>2
  <2> QED BY <2>1, WrittenRows
<1>3. CASE p < n_past
  <2>1. p \in 0 .. n_past - 1 /\ p > n_past - Capacity
    BY <1>1, <1>3
  <2>2. cells[CellOf(p)] = Token(seq, p)
    BY <2>1 DEF CacheHoldsWindow
  <2>3. CellOf(p) \in Cell
    <3>1. CASE Ring
      BY <1>1, <3>1, DivMod DEF CellOf, Cell
    <3>2. CASE ~Ring
      BY <1>1, <2>1, <3>2 DEF CellOf, Cell, LinearFits
    <3> QED BY <3>1, <3>2, RingAssumption
  <2>4. \A i \in 0 .. n - 1 : CellOf(p) # CellOf(n_past + i)
    <3> SUFFICES ASSUME NEW i \in 0 .. n - 1, CellOf(p) = CellOf(n_past + i)
                 PROVE  FALSE
      OBVIOUS
    <3>1. n_past + i \in Nat /\ p - (n_past + i) < Capacity /\ (n_past + i) - p < Capacity
      BY <1>1, <1>3
    <3>2. p = n_past + i
      BY <1>1, <3>1, CellOfInjective
    <3> QED BY <1>1, <1>3, <3>2
  <2> QED BY <2>2, <2>3, <2>4, WrittenRows
<1> QED BY <1>1, <1>2, <1>3

-----------------------------------------------------------------------------
(* What a query attends to *)

\* Up to the capacity, the open cells of the read view are the window's positions.
LEMMA OpenBelowCapacity ==
    ASSUME ScalarType, NEW m \in Module, NEW n \in 1 .. MaxTokens, Fits(n, n_past),
           n_past + n <= Capacity,
           NEW g, g = GraphFor(m, n, n_past), NEW kind \in MaskKind,
           NEW i \in 0 .. n - 1
    PROVE  ReadView(g) \cap MaskOf(kind, n, g).open[i]
             = {j \in 0 .. n_past + i : MaskWindow = 0 \/ (n_past + i) - j < MaskWindow}
<1>1. n \in Nat \ {0} /\ n_past \in Nat /\ Capacity \in Nat \ {0} /\ MaskWindow \in Nat
  BY BoundsAssumption, CapacityAssumption, WindowAssumption DEF ScalarType
<1>2. g.n_kv \in 1 .. Capacity /\ n_past + n <= g.n_kv
  <2>1. RealNKv(n, n_past) = n_past + n
    BY <1>1, RingAssumption DEF RealNKv, RequestedNKv, Smaller
  <2>2. g.n_kv = EffectiveNKv(n, n_past)
    BY DEF GraphFor
  <2> QED BY <1>1, <2>1, <2>2, FittingLengths
<1>3. CASE kind \in {"causal", "unclamped"}
  <2>1. MaskOf(kind, n, g) = CausalMask(n, n_past)
    <3>1. CASE kind = "unclamped"
      BY <3>1 DEF MaskOf
    <3>2. CASE kind = "causal"
      <4>1. MaskOf(kind, n, g)
              = CausalMask(n, IF Ring /\ n = 1 THEN Smaller(n_past, Capacity - 1) ELSE n_past)
        BY <3>2 DEF MaskOf
      <4>2. Ring /\ n = 1 => Smaller(n_past, Capacity - 1) = n_past
        BY <1>1 DEF Smaller
      <4> QED BY <4>1, <4>2
    <3> QED BY <1>3, <3>1, <3>2
  <2>2. CausalMask(n, n_past).open[i]
          = {j \in 0 .. n_past + n - 1 :
               j <= n_past + i /\ (MaskWindow = 0 \/ n_past + i - j < MaskWindow)}
    BY DEF CausalMask
  <2> QED BY <1>1, <1>2, <2>1, <2>2 DEF ReadView
<1>4. CASE kind = "tensor"
  <2>1. MaskWindow = 0
    BY <1>1, <1>4 DEF MaskKind
  <2>2. MaskOf(kind, n, g).open[i] = {j \in 0 .. g.n_kv - 1 : j <= n_past + i}
    BY <1>4 DEF MaskOf
  <2> QED BY <1>1, <1>2, <2>1, <2>2 DEF ReadView
<1> QED BY <1>3, <1>4 DEF MaskKind

\* Past its capacity a ring opens every cell, or the mask is refused.
LEMMA OpenPastCapacity ==
    ASSUME ScalarType, NEW m \in Module, NEW n \in 1 .. MaxTokens, Fits(n, n_past),
           n_past + n > Capacity,
           NEW g, g = GraphFor(m, n, n_past), NEW kind \in MaskKind,
           MaskAccepted(MaskOf(kind, n, g), g)
    PROVE  /\ Ring /\ n = 1
           /\ ReadView(g) \cap MaskOf(kind, n, g).open[0] = Cell
<1>1. n \in Nat \ {0} /\ n_past \in Nat /\ Capacity \in Nat \ {0}
  BY BoundsAssumption, CapacityAssumption DEF ScalarType
<1>2. Ring /\ n = 1 /\ n_past >= Capacity
  BY <1>1 DEF Fits, Wraps, Overflows, RequestedNKv
<1>3. RealNKv(n, n_past) = Capacity
  BY <1>1, <1>2 DEF RealNKv, RequestedNKv, Smaller
<1>4. g.n_kv = Capacity /\ g.n_kv_real = Capacity
  <2>1. EffectiveNKv(n, n_past) = Capacity
    BY <1>1, <1>3, FittingLengths
  <2> QED BY <1>3, <2>1 DEF GraphFor
<1>5. kind = "causal"
  <2>1. kind \in {"causal", "unclamped"}
    BY <1>2 DEF MaskKind
  <2>2. CausalMask(n, n_past).width = n_past + n
    BY DEF CausalMask
  <2>3. kind # "unclamped"
    BY <1>1, <1>4, <2>2 DEF MaskAccepted, MaskOf
  <2> QED BY <2>1, <2>3
<1>6. MaskOf(kind, n, g) = CausalMask(1, Capacity - 1)
  BY <1>1, <1>2, <1>5 DEF MaskOf, Smaller
<1>7. CausalMask(1, Capacity - 1).open[0] = 0 .. Capacity - 1
  <2>1. MaskWindow = 0
    BY <1>2, RingWindowAssumption
  <2>2. 0 \in 0 .. 1 - 1
    OBVIOUS
  <2>3. CausalMask(1, Capacity - 1).open[0]
          = {j \in 0 .. (Capacity - 1) + 1 - 1 :
               j <= (Capacity - 1) + 0 /\ (MaskWindow = 0 \/ (Capacity - 1) + 0 - j < MaskWindow)}
    BY <2>2 DEF CausalMask
  <2>4. {j \in 0 .. (Capacity - 1) + 1 - 1 :
            j <= (Capacity - 1) + 0 /\ (MaskWindow = 0 \/ (Capacity - 1) + 0 - j < MaskWindow)}
          = 0 .. Capacity - 1
    BY <1>1, <2>1
  <2> QED BY <2>3, <2>4
<1> QED BY <1>2, <1>4, <1>6, <1>7 DEF ReadView, Cell

\* A query of a call whose mask is accepted attends to its own window.
LEMMA AttendsWindow ==
    ASSUME ScalarType, CacheHoldsWindow, LinearFits,
           NEW m \in Module, NEW n \in 1 .. MaxTokens, Fits(n, n_past),
           NEW g, g = GraphFor(m, n, n_past), NEW kind \in MaskKind,
           MaskAccepted(MaskOf(kind, n, g), g), NEW i \in 0 .. n - 1
    PROVE  Attend(Written(g, n), PlacedMask(MaskOf(kind, n, g), g), g, n)[i]
             = Abstract!AttendedBy(seq, n_past + i)
<1> DEFINE open == ReadView(g) \cap MaskOf(kind, n, g).open[i]
           store == Written(g, n)
           p == n_past + i
<1>1. n \in Nat \ {0} /\ n_past \in Nat /\ Capacity \in Nat \ {0} /\ MaskWindow \in Nat
  BY BoundsAssumption, CapacityAssumption, WindowAssumption DEF ScalarType
<1>2. Attend(Written(g, n), PlacedMask(MaskOf(kind, n, g), g), g, n)[i] = {store[c] : c \in open}
  BY DEF Attend, PlacedMask
<1>3. Abstract!AttendedBy(seq, p)
        = {Token(seq, j) : j \in {k \in 0 .. p : ModelWindow = 0 \/ p - k < ModelWindow}}
  <2>1. \A k \in 0 .. p : Abstract!InWindow(k, p) <=> (ModelWindow = 0 \/ p - k < ModelWindow)
    BY <1>1 DEF Abstract!InWindow
  <2> QED BY <2>1 DEF Abstract!AttendedBy, Abstract!Token, Token
<1>4. CASE n_past + n <= Capacity
  <2>1. open = {j \in 0 .. p : MaskWindow = 0 \/ p - j < MaskWindow}
    BY <1>4, OpenBelowCapacity
  <2>2. \A j \in 0 .. p : store[j] = Token(seq, j)
    <3> SUFFICES ASSUME NEW j \in 0 .. p
                 PROVE  store[j] = Token(seq, j)
      OBVIOUS
    <3>1. j \in 0 .. n_past + n - 1 /\ j > n_past + n - 1 - Capacity /\ j \in Cell
      BY <1>1, <1>4 DEF Cell
    <3>2. store[CellOf(j)] = Token(seq, j)
      BY <3>1, WindowWritten
    <3> QED BY <3>1, <3>2, CellOfSmall
  <2>3. \A j \in 0 .. p : (MaskWindow = 0 \/ p - j < MaskWindow)
                             <=> (ModelWindow = 0 \/ p - j < ModelWindow)
    BY <1>1, <1>4, RingAssumption, RingWindowAssumption DEF ModelWindow
  <2> HIDE DEF open, store
  <2>4. {store[c] : c \in open}
          = {Token(seq, j) : j \in {k \in 0 .. p : ModelWindow = 0 \/ p - k < ModelWindow}}
    BY <2>1, <2>2, <2>3
  <2> QED BY <1>2, <1>3, <2>4
<1>5. CASE n_past + n > Capacity
  <2>1. Ring /\ n = 1 /\ i = 0 /\ p = n_past /\ n_past >= Capacity
    BY <1>1, <1>5, OpenPastCapacity
  <2>2. open = Cell
    BY <1>5, <2>1, OpenPastCapacity
  <2>3. ModelWindow = Capacity
    BY <2>1 DEF ModelWindow
  <2>4. \A j \in 0 .. p : p - j < Capacity => CellOf(j) \in Cell /\ store[CellOf(j)] = Token(seq, j)
    <3> SUFFICES ASSUME NEW j \in 0 .. p, p - j < Capacity
                 PROVE  CellOf(j) \in Cell /\ store[CellOf(j)] = Token(seq, j)
      OBVIOUS
    <3>1. j \in 0 .. n_past + n - 1 /\ j > n_past + n - 1 - Capacity /\ j \in Nat
      BY <1>1, <2>1
    <3>2. CellOf(j) \in Cell
      BY <1>1, <2>1, <3>1, DivMod DEF CellOf, Cell
    <3> QED BY <3>1, <3>2, WindowWritten
  <2>5. \A c \in Cell : \E j \in 0 .. p : p - j < Capacity /\ CellOf(j) = c
    <3> SUFFICES ASSUME NEW c \in Cell
                 PROVE  \E j \in 0 .. p : p - j < Capacity /\ CellOf(j) = c
      OBVIOUS
    <3>1. c \in 0 .. Capacity - 1 /\ n_past >= Capacity - 1
      BY <1>1, <2>1 DEF Cell
    <3>2. PICK j \in Nat : j > n_past - Capacity /\ j <= n_past /\ (j % Capacity) = c
      BY <1>1, <3>1, ModWitness
    <3>3. CellOf(j) = c
      BY <2>1, <3>2 DEF CellOf
    <3>4. j \in 0 .. p /\ p - j < Capacity
      BY <1>1, <2>1, <3>2
    <3> HIDE DEF p
    <3> QED BY <3>3, <3>4
  <2> HIDE DEF open, store
  <2>6. {store[c] : c \in Cell} = {Token(seq, j) : j \in {k \in 0 .. p : p - k < Capacity}}
    <3> HIDE DEF p
    <3> QED BY <2>4, <2>5
  <2>7. \A k \in 0 .. p : p - k < Capacity <=> (ModelWindow = 0 \/ p - k < ModelWindow)
    BY <1>1, <2>3
  <2>8. {Token(seq, j) : j \in {k \in 0 .. p : p - k < Capacity}}
          = {Token(seq, j) : j \in {k \in 0 .. p : ModelWindow = 0 \/ p - k < ModelWindow}}
    <3> HIDE DEF p
    <3> QED BY <2>7
  <2>9. {store[c] : c \in open} = {store[c] : c \in Cell}
    BY <2>2
  <2> QED BY <1>2, <1>3, <2>6, <2>8, <2>9
<1> QED BY <1>1, <1>4, <1>5

-----------------------------------------------------------------------------
(* The invariant *)

\* A new session has the invariant: the store is zeroed and no graph is kept.
LEMMA InitInv == Init => IInv
<1> SUFFICES ASSUME Init PROVE IInv
  OBVIOUS
<1>1. CellsType
  <2>1. NoToken \in [seq : 0 .. seq, pos : 0 .. MaxPos]
    BY BoundsAssumption DEF Init, NoToken, Token
  <2> QED BY <2>1 DEF Init, CellsType
<1>2. ScalarType
  BY BoundsAssumption DEF Init, ScalarType
<1>3. LinearFits /\ CacheHoldsWindow
  BY CapacityAssumption DEF Init, LinearFits, CacheHoldsWindow
<1>4. graph \in [Module -> GraphType \cup {NoGraph}] /\ GraphOfSomeCall
  BY DEF Init, GraphOfSomeCall
<1> QED BY <1>1, <1>2, <1>3, <1>4 DEF IInv

\* A completed call keeps the invariant.
LEMMA StepInv ==
    ASSUME IInv, NEW m \in Module, NEW n \in 1 .. MaxTokens, NEW kind \in MaskKind,
           Step(m, n, kind)
    PROVE  IInv'
<1> DEFINE g == GraphFor(m, n, n_past)
<1>1. /\ CellsType /\ ScalarType /\ GraphOfSomeCall /\ LinearFits /\ CacheHoldsWindow
      /\ graph \in [Module -> GraphType \cup {NoGraph}]
  BY DEF IInv
<1>2. /\ Fits(n, n_past) /\ n_past + n <= MaxPos
      /\ graph' = [graph EXCEPT ![m] = Built(m, n)]
      /\ cells' = Written(Built(m, n), n)
      /\ n_past' = n_past + n /\ refused' = "no" /\ seq' = seq
  BY DEF Step
<1>3. cells' = Written(g, n)
  BY <1>1, <1>2, BuiltIsCurrent
<1>4. n \in Nat \ {0} /\ n_past \in Nat
  BY <1>1, BoundsAssumption DEF ScalarType
<1>5. CellsType'
  <2>1. Written(g, n) \in [Cell -> [seq : 0 .. seq, pos : 0 .. MaxPos]]
    BY <1>1, <1>2, WrittenType
  <2> QED BY <1>2, <1>3, <2>1 DEF CellsType
<1>6. ScalarType'
  BY <1>1, <1>2, <1>4, BoundsAssumption DEF ScalarType
<1>7. GraphOfSomeCall' /\ (graph \in [Module -> GraphType \cup {NoGraph}])'
  BY <1>1, <1>2, GraphsKept
<1>8. LinearFits'
  BY <1>2, <1>4, RingAssumption, CapacityAssumption
     DEF LinearFits, Fits, Overflows, RequestedNKv
<1>9. CacheHoldsWindow'
  <2> SUFFICES ASSUME NEW p \in 0 .. n_past + n - 1, p > n_past + n - Capacity
               PROVE  cells'[CellOf(p)] = Token(seq, p)
    <3>1. n_past' - 1 = n_past + n - 1 /\ n_past' - Capacity = n_past + n - Capacity
      BY <1>2, <1>4, CapacityAssumption
    <3> QED BY <1>2, <3>1 DEF CacheHoldsWindow, Token
  <2>1. p > n_past + n - 1 - Capacity
    BY <1>4, CapacityAssumption
  <2>2. Written(g, n)[CellOf(p)] = Token(seq, p)
    BY <1>1, <1>2, <2>1, WindowWritten
  <2> QED BY <1>3, <2>2
<1> QED BY <1>5, <1>6, <1>7, <1>8, <1>9 DEF IInv

\* No cell a call writes holds a position the next query may still look back at.
LEMMA RowsMissWindow ==
    ASSUME ScalarType, NEW n \in 1 .. MaxTokens, Fits(n, n_past),
           NEW i \in 0 .. n - 1, NEW p \in 0 .. n_past - 1, p > n_past - Capacity
    PROVE  CellOf(p) # CellOf(n_past + i)
<1>1. n \in Nat \ {0} /\ n_past \in Nat /\ Capacity \in Nat \ {0}
  BY BoundsAssumption, CapacityAssumption DEF ScalarType
<1>2. n > 1 => n_past + n <= Capacity
  BY <1>1, RingAssumption DEF Fits, Wraps, Overflows, RequestedNKv
<1>3. /\ p \in Nat /\ n_past + i \in Nat /\ p # n_past + i
      /\ (n_past + i) - p < Capacity /\ p - (n_past + i) < Capacity
  <2>1. CASE n > 1
    BY <1>1, <1>2, <2>1
  <2>2. CASE n = 1
    BY <1>1, <2>2
  <2> QED BY <1>1, <2>1, <2>2
<1> QED BY <1>3, CellOfInjective

\* A failed run keeps it: a torn row is one the next query cannot look back at.
LEMMA ComputeFailsInv ==
    ASSUME IInv, NEW m \in Module, NEW n \in 1 .. MaxTokens, ComputeFails(m, n)
    PROVE  IInv'
<1> DEFINE g == GraphFor(m, n, n_past)
           rows == {CellOf(n_past + i) : i \in 0 .. n - 1}
<1>1. /\ CellsType /\ ScalarType /\ GraphOfSomeCall /\ LinearFits /\ CacheHoldsWindow
      /\ graph \in [Module -> GraphType \cup {NoGraph}]
  BY DEF IInv
<1>2. /\ Fits(n, n_past) /\ n_past + n <= MaxPos
      /\ graph' = [graph EXCEPT ![m] = Built(m, n)]
      /\ refused' = "compute" /\ seq' = seq /\ n_past' = n_past
  BY DEF ComputeFails
<1>3. Built(m, n) = g
  BY <1>1, BuiltIsCurrent
<1>4. PICK torn \in SUBSET rows, done \in SUBSET rows :
        cells' = [c \in Cell |-> CASE c \in torn -> NoToken
                                   [] c \in done \ torn -> Written(g, n)[c]
                                   [] OTHER -> cells[c]]
  <2>1. {g.kv_cells[i] : i \in 0 .. n - 1} = rows
    BY DEF GraphFor, CellIndex
  <2> HIDE DEF rows
  <2>2. \E torn, done \in SUBSET {Built(m, n).kv_cells[i] : i \in 0 .. n - 1} :
          cells' = [c \in Cell |-> CASE c \in torn -> NoToken
                                     [] c \in done \ torn -> Written(Built(m, n), n)[c]
                                     [] OTHER -> cells[c]]
    BY DEF ComputeFails
  <2> HIDE DEF g
  <2> QED BY <1>3, <2>1, <2>2
<1>5. CellsType'
  <2>1. NoToken \in [seq : 0 .. seq, pos : 0 .. MaxPos]
    BY <1>1, BoundsAssumption DEF NoToken, Token, ScalarType
  <2>2. Written(g, n) \in [Cell -> [seq : 0 .. seq, pos : 0 .. MaxPos]]
    BY <1>1, <1>2, WrittenType
  <2> HIDE DEF g, rows
  <2>3. \A c \in Cell : cells'[c] \in [seq : 0 .. seq, pos : 0 .. MaxPos]
    BY <1>1, <1>4, <2>1, <2>2 DEF CellsType
  <2> QED BY <1>2, <1>4, <2>3 DEF CellsType
<1>6. ScalarType' /\ LinearFits'
  BY <1>1, <1>2 DEF ScalarType, LinearFits
<1>7. GraphOfSomeCall' /\ (graph \in [Module -> GraphType \cup {NoGraph}])'
  BY <1>1, <1>2, GraphsKept
<1>8. CacheHoldsWindow'
  <2> SUFFICES ASSUME NEW p \in 0 .. n_past - 1, p > n_past - Capacity
               PROVE  cells'[CellOf(p)] = Token(seq, p)
    BY <1>2 DEF CacheHoldsWindow, Token
  <2>1. CellOf(p) \notin rows
    BY <1>1, <1>2, RowsMissWindow
  <2>2. CellOf(p) \in Cell
    <3>1. n_past \in Nat /\ p \in Nat
      BY <1>1, BoundsAssumption DEF ScalarType
    <3>2. CASE Ring
      BY <3>1, <3>2, DivMod, CapacityAssumption DEF CellOf, Cell
    <3>3. CASE ~Ring
      BY <1>1, <3>1, <3>3, CapacityAssumption DEF CellOf, Cell, LinearFits
    <3> QED BY <3>2, <3>3, RingAssumption
  <2>3. cells'[CellOf(p)] = cells[CellOf(p)]
    <3> HIDE DEF rows, g
    <3> QED BY <1>4, <2>1, <2>2
  <2> QED BY <1>1, <2>3 DEF CacheHoldsWindow
<1> QED BY <1>5, <1>6, <1>7, <1>8 DEF IInv

\* So does a sequence that starts part of the way in from a saved state.
LEMMA SeedKvInv ==
    ASSUME IInv, NEW k \in 1 .. Capacity, SeedKv(k)
    PROVE  IInv'
<1>1. /\ CellsType /\ ScalarType /\ GraphOfSomeCall
      /\ graph \in [Module -> GraphType \cup {NoGraph}]
  BY DEF IInv
<1>2. /\ seq < MaxSeq /\ k <= Capacity /\ k <= MaxPos
      /\ seq' = seq + 1 /\ n_past' = k /\ refused' = "no" /\ graph' = graph
      /\ cells' = [c \in Cell |-> IF c < k THEN Token(seq + 1, c) ELSE cells[c]]
  BY DEF SeedKv
<1>3. seq \in Nat /\ MaxSeq \in Nat /\ MaxPos \in Nat /\ Capacity \in Nat \ {0}
  BY <1>1, BoundsAssumption, CapacityAssumption DEF ScalarType
<1>4. CellsType'
  <2>1. ASSUME NEW c \in Cell
        PROVE  cells'[c] \in [seq : 0 .. seq + 1, pos : 0 .. MaxPos]
    <3>1. CASE c < k
      <4>1. cells'[c] = Token(seq + 1, c)
        BY <1>2, <3>1
      <4>2. seq + 1 \in 0 .. seq + 1 /\ c \in 0 .. MaxPos
        BY <1>2, <1>3, <3>1 DEF Cell
      <4> QED BY <4>1, <4>2 DEF Token
    <3>2. CASE ~(c < k)
      <4>1. cells'[c] = cells[c]
        BY <1>2, <3>2
      <4>2. cells[c] \in [seq : 0 .. seq, pos : 0 .. MaxPos]
        BY <1>1 DEF CellsType
      <4>3. 0 .. seq \subseteq 0 .. seq + 1
        BY <1>3
      <4> QED BY <4>1, <4>2, <4>3
    <3> QED BY <3>1, <3>2
  <2> QED BY <1>2, <2>1 DEF CellsType
<1>5. ScalarType' /\ LinearFits'
  BY <1>1, <1>2, <1>3 DEF ScalarType, LinearFits
<1>6. CacheHoldsWindow'
  <2> SUFFICES ASSUME NEW p \in 0 .. k - 1
               PROVE  cells'[CellOf(p)] = Token(seq + 1, p)
    BY <1>2 DEF CacheHoldsWindow, Token
  <2>1. p \in Cell /\ p < k
    BY <1>2, <1>3 DEF Cell
  <2> QED BY <1>2, <2>1, CellOfSmall
<1>7. GraphOfSomeCall'
  BY <1>1, <1>2 DEF GraphOfSomeCall
<1> QED BY <1>1, <1>2, <1>4, <1>5, <1>6, <1>7 DEF IInv

\* And a driver that starts over, on a cache cleared or not.
LEMMA StartOverInv ==
    ASSUME IInv, NewSequence \/ Reset
    PROVE  IInv'
<1>1. /\ CellsType /\ ScalarType /\ GraphOfSomeCall
      /\ graph \in [Module -> GraphType \cup {NoGraph}]
  BY DEF IInv
<1>2. /\ seq < MaxSeq /\ seq' = seq + 1 /\ n_past' = 0 /\ refused' = "no" /\ graph' = graph
      /\ cells' = cells \/ cells' = [c \in Cell |-> NoToken]
  BY DEF NewSequence, Reset
<1>3. seq \in Nat /\ MaxSeq \in Nat /\ MaxPos \in Nat /\ Capacity \in Nat \ {0}
  BY <1>1, BoundsAssumption, CapacityAssumption DEF ScalarType
<1>4. CellsType'
  <2>1. NoToken \in [seq : 0 .. seq + 1, pos : 0 .. MaxPos]
    BY <1>3 DEF NoToken, Token
  <2>2. [seq : 0 .. seq, pos : 0 .. MaxPos] \subseteq [seq : 0 .. seq + 1, pos : 0 .. MaxPos]
    <3>1. 0 .. seq \subseteq 0 .. seq + 1
      BY <1>3
    <3> QED BY <3>1
  <2> QED BY <1>1, <1>2, <2>1, <2>2 DEF CellsType
<1>5. ScalarType' /\ LinearFits' /\ CacheHoldsWindow'
  BY <1>1, <1>2, <1>3 DEF ScalarType, LinearFits, CacheHoldsWindow
<1>6. GraphOfSomeCall'
  BY <1>1, <1>2 DEF GraphOfSomeCall
<1> QED BY <1>1, <1>2, <1>4, <1>5, <1>6 DEF IInv

\* No step of a session, completed, failed or refused, breaks the invariant.
LEMMA NextInv == IInv /\ [Next]_vars => IInv'
<1> SUFFICES ASSUME IInv, [Next]_vars PROVE IInv'
  OBVIOUS
<1>1. ASSUME NEW m \in Module, NEW n \in 1 .. MaxTokens, NEW kind \in MaskKind,
             Step(m, n, kind)
      PROVE  IInv'
  BY <1>1, StepInv
<1>2. ASSUME NEW m \in Module, NEW n \in 1 .. MaxTokens, RefuseAxes(m, n)
      PROVE  IInv'
  BY <1>2 DEF RefuseAxes, IInv, CellsType, ScalarType, GraphOfSomeCall, LinearFits,
              CacheHoldsWindow
<1>3. ASSUME NEW m \in Module, NEW n \in 1 .. MaxTokens, NEW kind \in MaskKind,
             RefuseMask(m, n, kind)
      PROVE  IInv'
  <2>1. /\ CellsType' /\ ScalarType' /\ LinearFits' /\ CacheHoldsWindow'
    BY <1>3 DEF RefuseMask, IInv, CellsType, ScalarType, LinearFits, CacheHoldsWindow
  <2>2. Fits(n, n_past) /\ graph' = [graph EXCEPT ![m] = Built(m, n)]
    BY <1>3 DEF RefuseMask
  <2>3. GraphOfSomeCall' /\ (graph \in [Module -> GraphType \cup {NoGraph}])'
    BY <2>2, GraphsKept DEF IInv
  <2> QED BY <2>1, <2>3 DEF IInv
<1>4. ASSUME NEW m \in Module, NEW n \in 1 .. MaxTokens, BuildFails(m, n)
      PROVE  IInv'
  <2>1. /\ CellsType' /\ ScalarType' /\ LinearFits' /\ CacheHoldsWindow'
    BY <1>4 DEF BuildFails, IInv, CellsType, ScalarType, LinearFits, CacheHoldsWindow
  <2>2. graph' = [graph EXCEPT ![m] = NoGraph]
    BY <1>4 DEF BuildFails
  <2>3. GraphOfSomeCall' /\ (graph \in [Module -> GraphType \cup {NoGraph}])'
    BY <2>2 DEF IInv, GraphOfSomeCall
  <2> QED BY <2>1, <2>3 DEF IInv
<1>5. ASSUME NEW m \in Module, NEW n \in 1 .. MaxTokens, ComputeFails(m, n)
      PROVE  IInv'
  BY <1>5, ComputeFailsInv
<1>6. CASE NewSequence \/ Reset
  BY <1>6, StartOverInv
<1>7. ASSUME NEW k \in 1 .. Capacity, SeedKv(k)
      PROVE  IInv'
  BY <1>7, SeedKvInv
<1>8. CASE UNCHANGED vars
  BY <1>8 DEF vars, IInv, CellsType, ScalarType, GraphOfSomeCall, LinearFits, CacheHoldsWindow
<1> QED BY <1>1, <1>2, <1>3, <1>4, <1>5, <1>6, <1>7, <1>8 DEF Next

\* The inductive invariant: the types, every retained graph one of a call that
\* fits, a linear cache within its rows, and the window in its cells.
THEOREM InvariantHolds == Spec => []IInv
  BY InitInv, NextInv, PTL DEF Spec

-----------------------------------------------------------------------------
(* What it gives *)

\* Every variable of a cached-attention session has its type, in every reachable
\* state and for every capacity: no retained graph reads or writes past the store.
THEOREM TypeCorrect == Spec => []TypeOK
<1>1. IInv => TypeOK
  BY DEF IInv, TypeOK, CellsType, ScalarType
<1> QED BY <1>1, InvariantHolds, PTL

\* The last Capacity - 1 positions fed are in their cells, whatever failed before.
THEOREM CacheKeepsWindow == Spec => []CacheHoldsWindow
<1>1. IInv => CacheHoldsWindow
  BY DEF IInv
<1> QED BY <1>1, InvariantHolds, PTL

\* A retained graph that serves a call is the graph a rebuild would have made.
THEOREM ReuseIsSound == Spec => []ReuseEqualsRebuild
<1>1. IInv => ReuseEqualsRebuild
  <2> SUFFICES ASSUME IInv, NEW m \in Module, NEW n \in 1 .. MaxTokens, Retains(m, n)
               PROVE  Reused(m, n) = NewGraph(m, n)
    BY DEF ReuseEqualsRebuild
  <2>1. Reused(m, n) = GraphFor(m, n, n_past)
    BY BuiltIsCurrent DEF IInv, Built
  <2>2. NewGraph(m, n) = GraphFor(m, n, n_past)
    BY DEF NewGraph, GraphFor, Key
  <2> QED BY <2>1, <2>2
<1> QED BY <1>1, InvariantHolds, PTL

\* A mask of the real width or of the tensor's is never refused.
THEOREM MasksAccepted == Spec => ProperMaskNeverRefused
<1>1. ASSUME IInv, NEW m \in Module, NEW n \in 1 .. MaxTokens,
             NEW kind \in MaskKind \ {"unclamped"}, RefuseMask(m, n, kind)
      PROVE  FALSE
  <2> DEFINE g == GraphFor(m, n, n_past)
  <2>1. ScalarType /\ Fits(n, n_past) /\ ~MaskAccepted(MaskOf(kind, n, g), g)
    BY <1>1, BuiltIsCurrent DEF IInv, RefuseMask
  <2>2. n \in Nat \ {0} /\ n_past \in Nat /\ Capacity \in Nat \ {0}
    BY <2>1, BoundsAssumption, CapacityAssumption DEF ScalarType
  <2>3. g.n_kv_real = RealNKv(n, n_past)
    BY DEF GraphFor
  <2>4. CASE kind = "tensor"
    BY <2>1, <2>4 DEF MaskOf, MaskAccepted
  <2>5. CASE kind = "causal"
    <3> DEFINE past == IF Ring /\ n = 1 THEN Smaller(n_past, Capacity - 1) ELSE n_past
    <3>1. MaskOf(kind, n, g).width = past + n
      BY <2>5 DEF MaskOf, CausalMask
    <3>2. past + n = RealNKv(n, n_past)
      BY <2>1, <2>2, RingAssumption
         DEF Smaller, RealNKv, RequestedNKv, Fits, Wraps, Overflows
    <3> QED BY <2>1, <2>3, <3>1, <3>2 DEF MaskAccepted
  <2> QED BY <2>4, <2>5 DEF MaskKind
<1>2. IInv => ~ \E m \in Module, n \in 1 .. MaxTokens, kind \in MaskKind \ {"unclamped"} :
                    RefuseMask(m, n, kind)
  BY <1>1
<1> QED BY <1>2, InvariantHolds, PTL DEF ProperMaskNeverRefused

-----------------------------------------------------------------------------
(* Cached attention implements the sliding window *)

\* The two sessions start alike: nothing fed, nothing attended to.
LEMMA InitRefines == Init => Abstract!AbsInit
  BY DEF Init, Abstract!AbsInit

\* Every step maps to a step of the abstract specification or to a stutter.
LEMMA NextRefines == IInv /\ [Next]_vars => [Abstract!AbsNext]_<<seq, n_past, attended>>
<1> SUFFICES ASSUME IInv, [Next]_vars
             PROVE  Abstract!AbsNext \/ UNCHANGED <<seq, n_past, attended>>
  OBVIOUS
<1>1. ASSUME NEW m \in Module, NEW n \in 1 .. MaxTokens, NEW kind \in MaskKind,
             Step(m, n, kind)
      PROVE  Abstract!AbsNext
  <2> DEFINE g == GraphFor(m, n, n_past)
             rows == Attend(Written(g, n), PlacedMask(MaskOf(kind, n, g), g), g, n)
  <2>1. Built(m, n) = g
    BY BuiltIsCurrent DEF IInv
  <2>2. /\ n_past + n <= MaxPos /\ Fits(n, n_past) /\ MaskAccepted(MaskOf(kind, n, g), g)
        /\ attended' = rows
        /\ n_past' = n_past + n /\ seq' = seq
    BY <1>1, <2>1 DEF Step
  <2>3. \A i \in 0 .. n - 1 : rows[i] = Abstract!AttendedBy(seq, n_past + i)
    BY <2>2, AttendsWindow DEF IInv
  <2>4. rows = [i \in 0 .. n - 1 |-> rows[i]]
    BY DEF Attend
  <2>5. attended' = [i \in 0 .. n - 1 |-> Abstract!AttendedBy(seq, n_past + i)]
    <3> HIDE DEF rows
    <3> QED BY <2>2, <2>3, <2>4
  <2>6. n \in 1 .. MaxPos
    BY BoundsAssumption
  <2> QED BY <2>2, <2>5, <2>6 DEF Abstract!AbsNext, Abstract!AbsFeed
<1>2. ASSUME NEW m \in Module, NEW n \in 1 .. MaxTokens,
             \/ RefuseAxes(m, n)
             \/ \E kind \in MaskKind : RefuseMask(m, n, kind)
             \/ BuildFails(m, n)
             \/ ComputeFails(m, n)
      PROVE  UNCHANGED <<seq, n_past, attended>>
  BY <1>2 DEF RefuseAxes, RefuseMask, BuildFails, ComputeFails
<1>3. CASE NewSequence \/ Reset
  <2>1. 0 \in 0 .. MaxPos
    BY BoundsAssumption
  <2> QED BY <1>3, <2>1 DEF NewSequence, Reset, Abstract!AbsNext, Abstract!AbsBegin
<1>4. ASSUME NEW k \in 1 .. Capacity, SeedKv(k)
      PROVE  Abstract!AbsNext
  <2>1. k \in 0 .. MaxPos
    BY <1>4, BoundsAssumption, CapacityAssumption DEF SeedKv
  <2> QED BY <1>4, <2>1 DEF SeedKv, Abstract!AbsNext, Abstract!AbsBegin
<1>5. CASE UNCHANGED vars
  BY <1>5 DEF vars
<1> QED BY <1>1, <1>2, <1>3, <1>4, <1>5 DEF Next

\* Whatever was reused, retained, wrapped, torn or left over: every query of every
\* completed call attends to exactly the tokens of its own window.
THEOREM AttentionIsSlidingWindow == Spec => ImplementsSlidingWindow
  BY InitRefines, NextRefines, InvariantHolds, PTL
     DEF Spec, ImplementsSlidingWindow, Abstract!AbsSpec, Abstract!absVars
=============================================================================
