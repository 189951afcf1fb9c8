-------------------------- MODULE ShortConv_proofs --------------------------
(***************************************************************************)
(* The short convolution, for every kernel width and any modules, under    *)
(* the premise its reuse rests on: a topology with a cached ATTENTION as   *)
(* well mentions n_past, so that every retained graph has n_past in its    *)
(* key.  Without the premise the property is false (run ConvRetained).     *)
(***************************************************************************)
EXTENDS ShortConv, TLAPS

\* The graph of a call: its history is the one its own key asks for.
GraphAt(n, p) == [key |-> [n_tokens |-> n, n_past |-> p], zeros |-> p = 0]

Graphs == {GraphAt(n, p) : n \in 1 .. MaxTokens, p \in 0 .. MaxPos}

IInv ==
    /\ TypeOK
    /\ graph \in [Module -> Graphs \cup {NoGraph}]
    /\ SlotIsTail
    /\ ConvolvesOwnSequence

\* The history a call should convolve.
History(i) == Stream(seq, n_past - NState + i - 1)

-----------------------------------------------------------------------------
(* The columns of a call *)

\* A history followed by the call's own tokens.
LEMMA Columns ==
    ASSUME NEW S, NEW n \in Nat, NEW h \in [1 .. NState -> S], NEW t \in [1 .. n -> S]
    PROVE  /\ h \o t \in Seq(S)
           /\ Len(h \o t) = NState + n
           /\ \A i \in 1 .. NState : (h \o t)[i] = h[i]
           /\ \A i \in NState + 1 .. NState + n : (h \o t)[i] = t[i - NState]
<1>1. NState \in Nat
  BY StateAssumption
<1>2. h \in Seq(S) /\ Len(h) = NState /\ t \in Seq(S) /\ Len(t) = n
  BY <1>1
<1>3. h \o t \in Seq(S) /\ Len(h \o t) = NState + n
  BY <1>2
<1>4. ASSUME NEW i \in 1 .. NState PROVE (h \o t)[i] = h[i]
  BY <1>1, <1>2
<1>5. ASSUME NEW i \in NState + 1 .. NState + n PROVE (h \o t)[i] = t[i - NState]
  BY <1>1, <1>2
<1> QED BY <1>3, <1>4, <1>5

\* The state a call keeps is its last NState columns.
LEMMA Tails ==
    ASSUME NEW S, NEW n \in Nat, NEW c \in Seq(S), Len(c) = NState + n
    PROVE  /\ TailOf(c) \in [1 .. NState -> S]
           /\ \A i \in 1 .. NState : TailOf(c)[i] = c[n + i]
<1>1. NState \in Nat /\ NState > 0
  BY StateAssumption
<1>2. TailOf(c) = SubSeq(c, n + 1, n + NState)
  BY <1>1 DEF TailOf
<1>3. TailOf(c) = [i \in 1 .. NState |-> c[n + i]]
  BY <1>1, <1>2
<1>4. \A i \in 1 .. NState : c[n + i] \in S
  BY <1>1
<1> QED BY <1>3, <1>4

-----------------------------------------------------------------------------
(* The invariant *)

\* With the premise, every key has n_past in it.
LEMMA KeyHasPast ==
    ASSUME Attentive \subseteq Rebuilds, NEW m \in Module, NEW n \in Nat
    PROVE  Key(m, n) = [n_tokens |-> n, n_past |-> n_past] /\ NewGraph(m, n) = GraphAt(n, n_past)
BY DEF Key, KeyIgnoresNPast, RetainedKey, NewGraph, ReadsZeros, GraphAt

\* So a call is served a graph that reads the history of its own n_past.
LEMMA BuiltReads ==
    ASSUME Attentive \subseteq Rebuilds, IInv, NEW m \in Module, NEW n \in Nat
    PROVE  Built(m, n) = GraphAt(n, n_past)
<1>1. CASE Retains(m, n)
  <2>1. PICK k \in 1 .. MaxTokens, p \in 0 .. MaxPos : graph[m] = GraphAt(k, p)
    BY <1>1 DEF IInv, Retains, Graphs
  <2>2. graph[m].key = [n_tokens |-> n, n_past |-> n_past]
    BY <1>1, KeyHasPast DEF Retains
  <2>3. k = n /\ p = n_past
    <3>1. graph[m].key.n_tokens = k /\ graph[m].key.n_past = p
      BY <2>1 DEF GraphAt
    <3> QED BY <2>2, <3>1
  <2> QED BY <1>1, <2>1, <2>3 DEF Built
<1>2. CASE ~Retains(m, n)
  BY <1>2, KeyHasPast DEF Built
<1> QED BY <1>1, <1>2

\* What a call convolves is its own sequence, zeros before its beginning.
LEMMA ConvolvesHistory ==
    ASSUME IInv, live, NEW n \in 1 .. MaxTokens, n_past + n <= MaxPos
    PROVE  LET c == ConvIn(GraphAt(n, n_past), n) IN
           /\ c \in Seq(Column)
           /\ Len(c) = NState + n
           /\ \A i \in 1 .. NState + n : c[i] = History(i)
<1> DEFINE h == IF n_past = 0 THEN Zeros ELSE slot
           t == [i \in 1 .. n |-> Token(seq, n_past + i - 1)]
           c == ConvIn(GraphAt(n, n_past), n)
<1> SUFFICES /\ c \in Seq(Column)
             /\ Len(c) = NState + n
             /\ \A i \in 1 .. NState + n : c[i] = History(i)
  OBVIOUS
<1>1. /\ NState \in Nat /\ NState > 0 /\ MaxPos \in Nat /\ MaxSeq \in Nat /\ n \in Nat
      /\ seq \in 1 .. MaxSeq /\ n_past \in 0 .. MaxPos /\ slot \in [1 .. NState -> Column]
  BY StateAssumption, ConvBoundsAssumption DEF IInv, TypeOK
<1>2. c = h \o t
  BY DEF ConvIn, GraphAt
<1>3. h \in [1 .. NState -> Column] /\ \A i \in 1 .. NState : h[i] = History(i)
  <2>1. CASE n_past = 0
    <3>1. Zero \in Column
      BY <1>1 DEF Zero, Column
    <3>2. \A i \in 1 .. NState : Zeros[i] = Zero /\ History(i) = Zero
      BY <1>1, <2>1 DEF Zeros, History, Stream
    <3> QED BY <2>1, <3>1, <3>2 DEF Zeros
  <2>2. CASE n_past # 0
    BY <1>1, <2>2 DEF IInv, SlotIsTail, History
  <2> QED BY <2>1, <2>2
<1>4. t \in [1 .. n -> Column]
  BY <1>1 DEF Token, Column
<1>5. ASSUME NEW i \in NState + 1 .. NState + n
      PROVE  t[i - NState] = History(i)
  <2>1. i - NState \in 1 .. n /\ ~(n_past - NState + i - 1 < 0)
        /\ n_past + (i - NState) - 1 = n_past - NState + i - 1
    BY <1>1
  <2> QED BY <2>1 DEF History, Stream
<1> HIDE DEF h, t, c
<1>6. /\ c \in Seq(Column) /\ Len(c) = NState + n
      /\ \A i \in 1 .. NState : c[i] = h[i]
      /\ \A i \in NState + 1 .. NState + n : c[i] = t[i - NState]
  <2>1. /\ h \o t \in Seq(Column) /\ Len(h \o t) = NState + n
        /\ \A i \in 1 .. NState : (h \o t)[i] = h[i]
        /\ \A i \in NState + 1 .. NState + n : (h \o t)[i] = t[i - NState]
    BY <1>1, <1>3, <1>4, Columns
  <2> QED BY <1>2, <2>1
<1>7. ASSUME NEW i \in 1 .. NState + n PROVE c[i] = History(i)
  <2>1. i \in 1 .. NState \/ i \in NState + 1 .. NState + n
    BY <1>1
  <2> QED BY <1>3, <1>5, <1>6, <2>1
<1> QED BY <1>6, <1>7

\* A new session has heard nothing.
LEMMA InitInv == Init => IInv
<1> SUFFICES ASSUME Init
             PROVE  IInv
  OBVIOUS
<1> USE DEF Init
<1>1. NState \in Nat /\ MaxPos \in Nat /\ MaxSeq \in Nat \ {0}
  BY StateAssumption, ConvBoundsAssumption
<1>2. slot \in [1 .. NState -> Column]
  BY <1>1 DEF Zeros, Zero, Column
<1>3. heard.columns = << >> /\ heard.columns \in Seq(Column)
  BY DEF Silence
<1>4. TypeOK
  BY <1>1, <1>2, <1>3 DEF TypeOK
<1>5. Len(heard.columns) = 0
  BY <1>3
<1> QED BY <1>4, <1>5 DEF IInv, SlotIsTail, ConvolvesOwnSequence

\* A completed call hears its own sequence and leaves its tail.
LEMMA StepInv ==
    ASSUME Attentive \subseteq Rebuilds, IInv,
           NEW m \in Module, NEW n \in 1 .. MaxTokens, Step(m, n)
    PROVE  IInv'
<1> DEFINE g == Built(m, n)
           c == ConvIn(g, n)
<1>1. /\ live /\ n_past + n <= MaxPos /\ graph' = [graph EXCEPT ![m] = g]
      /\ heard' = [seq |-> seq, from |-> n_past, columns |-> c]
      /\ slot' = TailOf(c) /\ n_past' = n_past + n /\ UNCHANGED <<seq, live>>
  BY DEF Step
<1>2. /\ NState \in Nat /\ NState > 0 /\ MaxPos \in Nat /\ n \in Nat /\ n > 0
      /\ n_past \in 0 .. MaxPos /\ seq \in 1 .. MaxSeq /\ live \in BOOLEAN
  BY StateAssumption, ConvBoundsAssumption DEF IInv, TypeOK
<1>3. g = GraphAt(n, n_past)
  BY <1>2, BuiltReads
<1>4. /\ c \in Seq(Column) /\ Len(c) = NState + n
      /\ \A i \in 1 .. NState + n : c[i] = History(i)
  BY <1>1, <1>3, ConvolvesHistory
<1> HIDE DEF c, g
<1>5. /\ slot' \in [1 .. NState -> Column]
      /\ \A i \in 1 .. NState : slot'[i] = c[n + i]
  BY <1>1, <1>2, <1>4, Tails
<1>6. TypeOK'
  BY <1>1, <1>2, <1>4, <1>5 DEF TypeOK
<1>7. graph' \in [Module -> Graphs \cup {NoGraph}]
  BY <1>1, <1>2, <1>3 DEF IInv, Graphs
<1>8. SlotIsTail'
  <2>1. ASSUME NEW i \in 1 .. NState
        PROVE  slot'[i] = Stream(seq', n_past' - NState + i - 1)
    <3>1. n + i \in 1 .. NState + n /\ n_past - NState + (n + i) - 1 = n_past' - NState + i - 1
      BY <1>1, <1>2
    <3>2. slot'[i] = History(n + i)
      BY <1>4, <1>5, <3>1
    <3> QED BY <1>1, <3>1, <3>2 DEF History
  <2> QED BY <2>1 DEF SlotIsTail
<1>9. ConvolvesOwnSequence'
  BY <1>1, <1>2, <1>4 DEF ConvolvesOwnSequence, History
<1> QED BY <1>6, <1>7, <1>8, <1>9 DEF IInv

\* A run that failed ends its sequence; what it left in the slot is heard by no one.
LEMMA ComputeFailsInv ==
    ASSUME Attentive \subseteq Rebuilds, IInv,
           NEW m \in Module, NEW n \in 1 .. MaxTokens, ComputeFails(m, n)
    PROVE  IInv'
<1> DEFINE g == Built(m, n)
           c == ConvIn(g, n)
           torn == [i \in 1 .. NState |-> Torn]
<1>1. /\ live /\ n_past + n <= MaxPos /\ graph' = [graph EXCEPT ![m] = g]
      /\ slot' \in {slot, TailOf(c), torn}
      /\ live' = FALSE /\ UNCHANGED <<seq, n_past, heard>>
  BY DEF ComputeFails
<1>2. /\ NState \in Nat /\ MaxPos \in Nat /\ MaxSeq \in Nat /\ n \in Nat /\ n > 0
      /\ n_past \in 0 .. MaxPos /\ slot \in [1 .. NState -> Column]
  BY StateAssumption, ConvBoundsAssumption DEF IInv, TypeOK
<1>3. g = GraphAt(n, n_past)
  BY <1>2, BuiltReads
<1>4. c \in Seq(Column) /\ Len(c) = NState + n
  BY <1>1, <1>3, ConvolvesHistory
<1>5. torn \in [1 .. NState -> Column]
  BY <1>1, <1>2 DEF Torn, Column
<1> HIDE DEF c, g, torn
<1>6. TailOf(c) \in [1 .. NState -> Column]
  BY <1>2, <1>4, Tails
<1>7. TypeOK'
  BY <1>1, <1>2, <1>5, <1>6 DEF IInv, TypeOK
<1>8. graph' \in [Module -> Graphs \cup {NoGraph}]
  BY <1>1, <1>2, <1>3 DEF IInv, Graphs
<1> QED BY <1>1, <1>7, <1>8 DEF IInv, SlotIsTail, ConvolvesOwnSequence

\* No step breaks the invariant.
LEMMA NextInv ==
    ASSUME Attentive \subseteq Rebuilds
    PROVE  IInv /\ [Next]_vars => IInv'
<1> SUFFICES ASSUME IInv, [Next]_vars
             PROVE  IInv'
  OBVIOUS
<1>1. ASSUME NEW m \in Module, NEW n \in 1 .. MaxTokens, Step(m, n) PROVE IInv'
  BY <1>1, StepInv
<1>2. ASSUME NEW m \in Module, NEW n \in 1 .. MaxTokens, BuildFails(m, n) PROVE IInv'
  BY <1>2 DEF BuildFails, IInv, TypeOK, SlotIsTail, ConvolvesOwnSequence
<1>3. ASSUME NEW m \in Module, NEW n \in 1 .. MaxTokens, ComputeFails(m, n) PROVE IInv'
  BY <1>3, ComputeFailsInv
<1>4. CASE NewSequence
  <2>1. TypeOK'
    BY <1>4, ConvBoundsAssumption DEF NewSequence, IInv, TypeOK
  <2> QED BY <1>4, <2>1 DEF NewSequence, IInv, SlotIsTail, ConvolvesOwnSequence
<1>5. CASE UNCHANGED vars
  BY <1>5 DEF vars, IInv, TypeOK, SlotIsTail, ConvolvesOwnSequence
<1> QED BY <1>1, <1>2, <1>3, <1>4, <1>5 DEF Next

-----------------------------------------------------------------------------
(* Types, without the premise *)

\* Whatever graph serves a call, it convolves NState columns and the call's own.
LEMMA ConvolvesColumns ==
    ASSUME TypeOK, NEW g, NEW n \in 1 .. MaxTokens, n_past + n <= MaxPos
    PROVE  ConvIn(g, n) \in Seq(Column) /\ Len(ConvIn(g, n)) = NState + n
<1> DEFINE h == IF g.zeros THEN Zeros ELSE slot
           t == [i \in 1 .. n |-> Token(seq, n_past + i - 1)]
<1>1. /\ NState \in Nat /\ MaxSeq \in Nat /\ MaxPos \in Nat /\ n \in Nat /\ seq \in 1 .. MaxSeq
      /\ n_past \in 0 .. MaxPos /\ slot \in [1 .. NState -> Column]
  BY StateAssumption, ConvBoundsAssumption DEF TypeOK
<1>2. Zeros \in [1 .. NState -> Column]
  BY <1>1 DEF Zeros, Zero, Column
<1>3. h \in [1 .. NState -> Column]
  BY <1>1, <1>2
<1>4. t \in [1 .. n -> Column]
  BY <1>1 DEF Token, Column
<1>5. ConvIn(g, n) = h \o t
  BY DEF ConvIn
<1> HIDE DEF h, t
<1>6. /\ h \o t \in Seq(Column) /\ Len(h \o t) = NState + n
      /\ \A i \in 1 .. NState : (h \o t)[i] = h[i]
      /\ \A i \in NState + 1 .. NState + n : (h \o t)[i] = t[i - NState]
  BY <1>1, <1>3, <1>4, Columns, SMTT(60)
<1> QED BY <1>5, <1>6

LEMMA TypeInv == TypeOK /\ [Next]_vars => TypeOK'
<1> SUFFICES ASSUME TypeOK, [Next]_vars
             PROVE  TypeOK'
  OBVIOUS
<1>1. /\ NState \in Nat /\ MaxPos \in Nat /\ MaxSeq \in Nat
      /\ n_past \in 0 .. MaxPos
  BY StateAssumption, ConvBoundsAssumption DEF TypeOK
<1>2. ASSUME NEW m \in Module, NEW n \in 1 .. MaxTokens, Step(m, n) PROVE TypeOK'
  <2> DEFINE c == ConvIn(Built(m, n), n)
  <2>1. /\ n_past + n <= MaxPos /\ heard'.columns = c /\ slot' = TailOf(c)
        /\ n_past' = n_past + n /\ UNCHANGED <<seq, live>>
    BY <1>2 DEF Step
  <2>2. c \in Seq(Column) /\ Len(c) = NState + n
    BY <2>1, ConvolvesColumns
  <2> HIDE DEF c
  <2>3. slot' \in [1 .. NState -> Column] /\ n \in Nat
    BY <2>1, <2>2, Tails, ConvBoundsAssumption
  <2> QED BY <1>1, <2>1, <2>2, <2>3 DEF TypeOK
<1>3. ASSUME NEW m \in Module, NEW n \in 1 .. MaxTokens, BuildFails(m, n) PROVE TypeOK'
  BY <1>3 DEF BuildFails, TypeOK
<1>4. ASSUME NEW m \in Module, NEW n \in 1 .. MaxTokens, ComputeFails(m, n) PROVE TypeOK'
  <2> DEFINE c == ConvIn(Built(m, n), n)
             torn == [i \in 1 .. NState |-> Torn]
  <2>1. /\ n_past + n <= MaxPos /\ slot' \in {slot, TailOf(c), torn}
        /\ live' = FALSE /\ UNCHANGED <<seq, n_past, heard>>
    BY <1>4 DEF ComputeFails
  <2>2. c \in Seq(Column) /\ Len(c) = NState + n
    BY <2>1, ConvolvesColumns
  <2>3. torn \in [1 .. NState -> Column]
    <3>1. MaxPos >= 1
      BY <1>1, <2>1, ConvBoundsAssumption
    <3>2. Torn \in Column
      BY <1>1, <3>1 DEF Torn, Column
    <3> QED BY <3>2
  <2> HIDE DEF c, torn
  <2>4. TailOf(c) \in [1 .. NState -> Column]
    BY <2>2, Tails, ConvBoundsAssumption
  <2> QED BY <2>1, <2>3, <2>4 DEF TypeOK
<1>5. CASE NewSequence
  BY <1>5, ConvBoundsAssumption DEF NewSequence, TypeOK
<1>6. CASE UNCHANGED vars
  BY <1>6 DEF vars, TypeOK
<1> QED BY <1>2, <1>3, <1>4, <1>5, <1>6 DEF Next

-----------------------------------------------------------------------------
(* Theorems *)

\* Types: the slot has the kernel's state width and a call convolves that many columns
\* and its own, whichever graph served it (ConvStateCache, op_short_conv).
THEOREM TypeCorrect == Spec => []TypeOK
<1>1. Init => TypeOK
  BY InitInv DEF IInv
<1> QED BY <1>1, TypeInv, PTL DEF Spec

\* With the premise, the inductive invariant holds of every reachable state.
THEOREM InvariantHolds ==
    ASSUME Attentive \subseteq Rebuilds
    PROVE  Spec => []IInv
<1>1. IInv /\ [Next]_vars => IInv'
  BY NextInv
<1> QED BY <1>1, InitInv, PTL DEF Spec

\* Every completed call convolves its own sequence, zeros before its beginning,
\* whatever another sequence, another module or a failed run left in the slot.
THEOREM ConvolutionIsOwn ==
    ASSUME Attentive \subseteq Rebuilds
    PROVE  Spec => []ConvolvesOwnSequence
<1>1. IInv => ConvolvesOwnSequence
  BY DEF IInv
<1>2. Spec => []IInv
  BY InvariantHolds
<1> QED BY <1>1, <1>2, PTL

\* Between the calls of a sequence the slot holds its last columns.
THEOREM SlotKeepsTail ==
    ASSUME Attentive \subseteq Rebuilds
    PROVE  Spec => []SlotIsTail
<1>1. IInv => SlotIsTail
  BY DEF IInv
<1>2. Spec => []IInv
  BY InvariantHolds
<1> QED BY <1>1, <1>2, PTL
=============================================================================
