--------------------------- MODULE Vc4Pool_proofs ---------------------------
(***************************************************************************)
(* The copies the vc4 backend keeps of weights, for any weights, buffers,  *)
(* sizes and number of models loaded: whatever the other thread allocates, *)
(* frees or makes the backend let go of, a copy is of the weight that is   *)
(* at its address now, and a launch has the memory it was given.  None of  *)
(* it depends on what the pool refuses.                                    *)
(***************************************************************************)
EXTENDS Vc4Pool, FiniteSetTheorems, TLAPS

Copies == [slab : SlabIds, off : 0 .. SlabSpans - 1]
Marks == {<< >>} \cup (Weights \X Nat)

CallType == [phase : {"weight", "slab", "arena", "grow", "exact", "remember", "run", "cpu"},
             weight : Weights, need : Nat, copy : Copies \cup {None}]

PoolTypeOK ==
    /\ loads \in [Weights -> Nat] /\ cpu_copy \in [Weights -> Nat]
    /\ packed \in [Weights -> Copies \cup {None}]
    /\ slab \in SlabIds \cup {0} /\ slab_used \in 0 .. SlabSpans
    /\ slab_mem \in [SlabIds -> [0 .. SlabSpans - 1 -> Marks]]
    /\ arena \in Nat

Dropping(w) == other = [op |-> "dropped", of |-> w]

\* A copy is kept only of a weight that is there, below what of the slab is used.
CopyOK(w) ==
    packed[w] # None =>
        /\ w \in owned /\ ~ Dropping(w) /\ IsCurrent(w, packed[w])
        /\ packed[w].slab = slab => packed[w].off < slab_used

CpuCopyOK(w) == cpu_copy[w] # 0 => w \in owned /\ ~ Dropping(w) /\ cpu_copy[w] = loads[w]

\* The weight of the node being computed stays, and so does the copy it runs from.
CallOK ==
    call.phase # "idle" =>
        /\ call \in CallType
        /\ call.weight \in owned /\ ~ Dropping(call.weight)
        /\ call.phase \in {"weight", "slab"} => call.copy = None
        /\ call.phase = "slab" => packed[call.weight] = None
        /\ call.copy # None /\ call.phase # "cpu" => packed[call.weight] = call.copy
        /\ call.phase = "run" => arena >= call.need

\* What the other thread asks for is not there yet.
OtherOK ==
    other.op # "none" =>
        /\ other \in [op : {"refused", "released", "dropped"}, of : Weights \cup Buffers]
        /\ other.op # "dropped" => other.of \notin owned

IInv ==
    /\ PoolTypeOK
    /\ \A w \in Weights : CopyOK(w) /\ CpuCopyOK(w)
    /\ CallOK
    /\ OtherOK

-----------------------------------------------------------------------------
(* Slabs *)

LEMMA NoneIsNoCopy == None \notin Copies /\ 0 \notin SlabIds
BY DEF None, Copies, SlabIds

LEMMA KeptOK ==
    ASSUME NEW memory \in [SlabIds -> [0 .. SlabSpans - 1 -> Marks]], NEW live
    PROVE  /\ Kept(memory, live) \in [SlabIds -> [0 .. SlabSpans - 1 -> Marks]]
           /\ \A s \in SlabIds \cap live : Kept(memory, live)[s] = memory[s]
BY DEF Kept, Blank, Marks

\* There is a slab to be had: the weight that wants one has no copy in any.
LEMMA SlabToBeHad ==
    ASSUME PoolTypeOK, NEW w \in Weights, packed[w] = None
    PROVE  \E id \in SlabIds : id \notin LiveSlabs
<1> DEFINE Others == Weights \ {w}
           f == [v \in Others |-> packed[v].slab]
           T == {packed[v].slab : v \in Others}
           n == Cardinality(Weights)
<1>1. IsFiniteSet(Weights) /\ n \in Nat
  BY PoolAssumption, FS_CardinalityType
<1>2. IsFiniteSet(Others) /\ Cardinality(Others) = n - 1
  BY <1>1, FS_RemoveElement
<1>3. f \in Surjection(Others, T)
  BY DEF Surjection
<1> HIDE DEF Others, f
<1>4. IsFiniteSet(T) /\ Cardinality(T) <= n - 1 /\ Cardinality(T) \in Nat
  BY <1>2, <1>3, FS_Surjection, FS_CardinalityType
<1> HIDE DEF T, n
<1>5. IsFiniteSet(T \cup {slab}) /\ Cardinality(T \cup {slab}) <= n
      /\ Cardinality(T \cup {slab}) \in Nat
  <2> DEFINE c == Cardinality(T)
  <2>1. /\ IsFiniteSet(T \cup {slab})
        /\ Cardinality(T \cup {slab}) = IF slab \in T THEN c ELSE c + 1
    BY <1>4, FS_AddElement
  <2>2. c \in Nat /\ c <= n - 1
    BY <1>4
  <2> HIDE DEF c
  <2> QED BY <1>1, <2>1, <2>2
<1>6. LiveSlabs \subseteq T \cup {slab}
  BY DEF LiveSlabs, LiveOf, None, T, Others
<1>7. ASSUME SlabIds \subseteq LiveSlabs PROVE FALSE
  <2>1. SlabIds \subseteq T \cup {slab}
    BY <1>6, <1>7
  <2>2. Cardinality(SlabIds) <= n
    BY <1>1, <1>5, <2>1, FS_Subset, FS_CardinalityType
  <2>3. SlabIds = 1 .. n + 1
    BY DEF SlabIds, n
  <2>4. Cardinality(SlabIds) = n + 1
    BY <1>1, <2>3, FS_Interval
  <2> QED BY <1>1, <2>2, <2>4
<1> QED BY <1>7

\* Letting go of copies, of the slab to fill and of the arena leaves the copies that are
\* kept what they were.
LEMMA LetGoOK ==
    ASSUME PoolTypeOK, \A w \in Weights : CopyOK(w),
           NEW copies \in [Weights -> Copies \cup {None}],
           \A w \in Weights : copies[w] \in {packed[w], None},
           NEW current \in {slab, 0}, NEW size \in Nat, LetGo(copies, current, size),
           UNCHANGED <<owned, loads, slab_used>>, cpu_copy' \in [Weights -> Nat]
    PROVE  /\ PoolTypeOK'
           /\ \A w \in Weights : ~ Dropping(w)' => CopyOK(w)'
<1>1. /\ packed' = copies /\ slab' = current /\ arena' = size
      /\ slab_mem' = Kept(slab_mem, LiveOf(copies, current))
  BY DEF LetGo
<1>2. PoolTypeOK'
  BY <1>1, KeptOK DEF PoolTypeOK
<1>3. ASSUME NEW w \in Weights, ~ Dropping(w)' PROVE CopyOK(w)'
  <2> SUFFICES ASSUME copies[w] # None
               PROVE  /\ w \in owned /\ slab_mem'[copies[w].slab][copies[w].off] = <<w, loads[w]>>
                      /\ copies[w].slab = current => copies[w].off < slab_used
    BY <1>1, <1>3 DEF CopyOK, IsCurrent
  <2>1. copies[w] = packed[w] /\ packed[w] \in Copies
    BY DEF PoolTypeOK
  <2>2. packed[w].slab \in SlabIds /\ packed[w].slab # 0
    BY <2>1, NoneIsNoCopy DEF Copies
  <2>3. packed[w].slab \in LiveOf(copies, current)
    BY <2>1, <2>2 DEF LiveOf
  <2>4. slab_mem'[packed[w].slab] = slab_mem[packed[w].slab]
    <3> DEFINE live == LiveOf(copies, current)
    <3>1. /\ slab_mem \in [SlabIds -> [0 .. SlabSpans - 1 -> Marks]]
          /\ packed[w].slab \in SlabIds \cap live
      BY <2>2, <2>3 DEF PoolTypeOK
    <3>2. slab_mem' = Kept(slab_mem, live)
      BY <1>1
    <3> HIDE DEF live
    <3> QED BY <3>1, <3>2, KeptOK
  <2>5. /\ w \in owned /\ slab_mem[packed[w].slab][packed[w].off] = <<w, loads[w]>>
        /\ packed[w].slab = slab => packed[w].off < slab_used
    BY <2>1 DEF CopyOK, IsCurrent
  <2> QED BY <2>1, <2>2, <2>4, <2>5
<1> QED BY <1>2, <1>3

-----------------------------------------------------------------------------
(* The other thread *)

\* It owns another buffer: no copy was kept of what had that address before.
LEMMA OwnInv ==
    ASSUME IInv, NEW b \in Weights \cup Buffers, b \notin owned, Own(b),
           other.op # "dropped",
           UNCHANGED <<packed, cpu_copy, slab, slab_used, slab_mem, arena, refused_need, call>>
    PROVE  IInv'
<1>1. owned' = owned \cup {b} /\ other' = NoRequest
  BY DEF Own
<1>2. /\ loads' \in [Weights -> Nat]
      /\ \A w \in Weights : w # b => loads'[w] = loads[w]
  BY DEF Own, IInv, PoolTypeOK
<1>3. PoolTypeOK'
  BY <1>2 DEF IInv, PoolTypeOK
<1>4. \A w : ~ Dropping(w)' /\ ~ Dropping(w)
  BY <1>1 DEF Dropping, NoRequest
<1>5. ASSUME NEW w \in Weights PROVE CopyOK(w)' /\ CpuCopyOK(w)'
  <2>1. CopyOK(w) /\ CpuCopyOK(w)
    BY DEF IInv
  <2> QED BY <1>1, <1>2, <1>4, <2>1 DEF CopyOK, CpuCopyOK, IsCurrent
<1>6. CallOK'
  BY <1>1, <1>4 DEF IInv, CallOK
<1>7. OtherOK'
  BY <1>1 DEF OtherOK, NoRequest
<1> QED BY <1>3, <1>5, <1>6, <1>7 DEF IInv

\* What it does that leaves what the backend keeps alone.
LEMMA OtherWaitsInv ==
    ASSUME IInv, NEW b \in Weights \cup Buffers,
           \/ other' = NoRequest
           \/ other' = [op |-> "refused", of |-> b] /\ b \notin owned,
           UNCHANGED owned,
           UNCHANGED <<loads, packed, cpu_copy, slab, slab_used, slab_mem, arena, call>>
    PROVE  IInv'
<1>1. PoolTypeOK'
  BY DEF IInv, PoolTypeOK
<1>2. \A w : ~ Dropping(w)'
  BY DEF Dropping, NoRequest
<1>3. \A w \in Weights : CopyOK(w)' /\ CpuCopyOK(w)'
  BY <1>2 DEF IInv, CopyOK, CpuCopyOK, IsCurrent
<1>4. CallOK' /\ OtherOK'
  BY <1>2 DEF IInv, CallOK, OtherOK, NoRequest
<1> QED BY <1>1, <1>3, <1>4 DEF IInv

LEMMA AllocateInv ==
    ASSUME IInv, NEW b \in Weights \cup Buffers, Allocate(b)
    PROVE  IInv'
<1>1. CASE Own(b)
  BY <1>1, OwnInv DEF Allocate
<1>2. CASE other' = [op |-> "refused", of |-> b] /\ UNCHANGED <<owned, loads>>
  BY <1>2, OtherWaitsInv DEF Allocate
<1> QED BY <1>1, <1>2 DEF Allocate

\* Everything the backend keeps goes; no call has the lock.
LEMMA ReleaseInv ==
    ASSUME IInv, Release
    PROVE  IInv'
<1>1. /\ other.op = "refused" /\ call.phase \in {"idle", "cpu"}
      /\ UNCHANGED <<owned, loads, cpu_copy, slab_used, refused_need, call>>
  BY DEF Release, Locked
<1>2. CASE other' = NoRequest /\ UNCHANGED <<packed, slab, slab_mem, arena, back_since>>
  <2>1. other.of \in Weights \cup Buffers
    BY <1>1 DEF IInv, OtherOK
  <2> QED BY <1>1, <1>2, <2>1, OtherWaitsInv
<1>3. CASE LetGo(Nothing, 0, 0) /\ other' = [other EXCEPT !.op = "released"]
  <2>1. \A w : ~ Dropping(w)'
    <3>1. other \in [op : {"refused", "released", "dropped"}, of : Weights \cup Buffers]
      BY <1>1 DEF IInv, OtherOK
    <3> QED BY <1>3, <3>1 DEF Dropping
  <2>2. /\ Nothing \in [Weights -> Copies \cup {None}]
        /\ \A w \in Weights : Nothing[w] \in {packed[w], None}
    BY DEF Nothing
  <2>3. PoolTypeOK' /\ \A w \in Weights : CopyOK(w)'
    <3>1. PoolTypeOK /\ (\A w \in Weights : CopyOK(w)) /\ cpu_copy' \in [Weights -> Nat]
      BY <1>1 DEF IInv, PoolTypeOK
    <3> QED BY <1>1, <1>3, <2>1, <2>2, <3>1, LetGoOK
  <2>4. \A w \in Weights : CpuCopyOK(w)'
    BY <1>1, <2>1 DEF IInv, CpuCopyOK
  <2>5. CallOK'
    BY <1>1, <2>1 DEF IInv, CallOK
  <2>6. OtherOK'
    <3>1. /\ other \in [op : {"refused", "released", "dropped"}, of : Weights \cup Buffers]
          /\ other.of \notin owned
      BY <1>1 DEF IInv, OtherOK
    <3> QED BY <1>1, <1>3, <3>1 DEF OtherOK
  <2> QED BY <2>3, <2>4, <2>5, <2>6 DEF IInv
<1> QED BY <1>2, <1>3 DEF Release

LEMMA RetryInv ==
    ASSUME IInv, Retry
    PROVE  IInv'
<1>1. other.of \in (Weights \cup Buffers) \ owned /\ other.op = "released"
  BY DEF Retry, IInv, OtherOK
<1>2. CASE Own(other.of)
  BY <1>1, <1>2, OwnInv DEF Retry
<1>3. CASE other' = NoRequest /\ UNCHANGED <<owned, loads>>
  BY <1>1, <1>3, OtherWaitsInv DEF Retry
<1> QED BY <1>2, <1>3 DEF Retry

\* A buffer that goes takes the copies of the weight at its address with it.
LEMMA DropInv ==
    ASSUME IInv, NEW b \in Weights \cup Buffers, Drop(b)
    PROVE  IInv'
<1>1. /\ call.phase # "idle" => call.weight # b
      /\ call.phase \in {"idle", "cpu"} /\ LetGo(Except(b), 0, arena)
      /\ cpu_copy' = [w \in Weights |-> IF w = b THEN 0 ELSE cpu_copy[w]]
      /\ other' = [op |-> "dropped", of |-> b]
      /\ UNCHANGED <<owned, loads, slab_used, refused_need, call>>
  BY DEF Drop, MayFree, Locked
<1>2. PoolTypeOK /\ (\A w \in Weights : CopyOK(w)) /\ arena \in Nat
      /\ cpu_copy' \in [Weights -> Nat]
  BY <1>1 DEF IInv, PoolTypeOK
<1>3. /\ Except(b) \in [Weights -> Copies \cup {None}]
      /\ \A w \in Weights : Except(b)[w] \in {packed[w], None}
  BY <1>2 DEF Except, PoolTypeOK
<1>4. \A w : w # b => ~ Dropping(w)'
  BY <1>1 DEF Dropping
<1>5. PoolTypeOK' /\ \A w \in Weights : w # b => CopyOK(w)'
  BY <1>1, <1>2, <1>3, <1>4, LetGoOK
<1>6. b \in Weights => CopyOK(b)' /\ CpuCopyOK(b)'
  BY <1>1 DEF LetGo, Except, CopyOK, CpuCopyOK
<1>7. \A w \in Weights : w # b => CpuCopyOK(w)'
  BY <1>1, <1>4 DEF IInv, CpuCopyOK
<1>8. CallOK'
  BY <1>1, <1>4 DEF IInv, CallOK
<1>9. OtherOK'
  BY <1>1 DEF OtherOK
<1> QED BY <1>5, <1>6, <1>7, <1>8, <1>9 DEF IInv

LEMMA GiveBackInv ==
    ASSUME IInv, GiveBack
    PROVE  IInv'
<1>1. /\ owned' = owned \ {other.of} /\ other' = NoRequest
      /\ UNCHANGED <<loads, packed, cpu_copy, slab, slab_used, slab_mem, arena, call>>
  BY DEF GiveBack
<1>2. Dropping(other.of) /\ \A w : ~ Dropping(w)'
  <2>1. other.op = "dropped" /\ other \in [op : {"refused", "released", "dropped"},
                                          of : Weights \cup Buffers]
    BY DEF GiveBack, IInv, OtherOK
  <2> QED BY <1>1, <2>1 DEF Dropping, NoRequest
<1>3. \A w : w \in owned /\ ~ Dropping(w) => w \in owned'
  BY <1>1, <1>2
<1>4. PoolTypeOK'
  BY <1>1 DEF IInv, PoolTypeOK
<1>5. \A w \in Weights : CopyOK(w)' /\ CpuCopyOK(w)'
  BY <1>1, <1>2, <1>3 DEF IInv, CopyOK, CpuCopyOK, IsCurrent
<1>6. CallOK'
  BY <1>1, <1>2, <1>3 DEF IInv, CallOK
<1>7. OtherOK'
  BY <1>1 DEF OtherOK, NoRequest
<1> QED BY <1>4, <1>5, <1>6, <1>7 DEF IInv

-----------------------------------------------------------------------------
(* The call *)

\* A step of the call that leaves what the backend keeps alone.
LEMMA CallStep ==
    ASSUME IInv, CallOK', arena' \in Nat,
           UNCHANGED <<owned, loads, packed, cpu_copy, slab, slab_used, slab_mem, other>>
    PROVE  IInv'
<1>1. PoolTypeOK' /\ OtherOK'
  BY DEF IInv, PoolTypeOK, OtherOK
<1>2. \A w \in Weights : CopyOK(w)' /\ CpuCopyOK(w)'
  BY DEF IInv, CopyOK, CpuCopyOK, IsCurrent, Dropping
<1> QED BY <1>1, <1>2 DEF IInv

\* What is known of a call in flight, and of its next phases.
LEMMA InFlight ==
    ASSUME IInv, call.phase # "idle"
    PROVE  /\ call \in CallType /\ call.weight \in Weights /\ call.need \in Nat
           /\ call.copy \in Copies \cup {None}
           /\ call.weight \in owned /\ ~ Dropping(call.weight)
           /\ arena \in Nat /\ loads[call.weight] \in Nat
BY DEF IInv, CallOK, CallType, PoolTypeOK

LEMMA CallInv ==
    ASSUME IInv, NEW w \in Weights, NEW need \in Needs, Call(w, need)
    PROVE  IInv'
<1>1. /\ w \in owned /\ ~ Dropping(w)
      /\ call' = [phase |-> "weight", weight |-> w, need |-> need, copy |-> None]
      /\ UNCHANGED <<owned, loads, packed, cpu_copy, slab, slab_used, slab_mem, arena, other>>
  BY DEF Call, Dropping
<1>2. need \in Nat
  BY PoolAssumption
<1>3. CallOK'
  BY <1>1, <1>2 DEF CallOK, CallType, Dropping
<1> QED BY <1>1, <1>3, CallStep DEF IInv, PoolTypeOK

LEMMA FindCopyInv ==
    ASSUME IInv, FindCopy
    PROVE  IInv'
<1>1. /\ call.phase = "weight" /\ packed[call.weight] # None
      /\ call' = [call EXCEPT !.phase = "arena", !.copy = packed[call.weight]]
      /\ UNCHANGED <<owned, loads, packed, cpu_copy, slab, slab_used, slab_mem, arena, other>>
  BY DEF FindCopy, WithCopy
<1>2. packed[call.weight] \in Copies \cup {None}
  BY <1>1, InFlight DEF IInv, PoolTypeOK
<1>3. /\ call' \in CallType /\ call'.weight = call.weight /\ call'.phase = "arena"
      /\ call'.copy = packed[call.weight]
  BY <1>1, <1>2, InFlight DEF CallType
<1>4. CallOK'
  BY <1>1, <1>3, InFlight DEF CallOK, Dropping
<1> QED BY <1>1, <1>4, InFlight, CallStep

\* Packed for the call alone, it uses no copy.
LEMMA ForCallOK ==
    ASSUME IInv, call.phase \in {"weight", "slab"}, PackedForCall
    PROVE  call' \in CallType /\ call'.weight = call.weight /\ call'.phase = "arena"
           /\ call'.copy = None
<1>1. /\ call \in CallType /\ call.need + 1 \in Nat /\ call.copy = None
      /\ call' = [call EXCEPT !.phase = "arena", !.need = @ + 1]
  BY InFlight DEF IInv, CallOK, PackedForCall
<1> QED BY <1>1 DEF CallType

LEMMA WantSlabInv ==
    ASSUME IInv, WantSlab
    PROVE  IInv'
<1>1. /\ call.phase = "weight" /\ packed[call.weight] = None
      /\ UNCHANGED <<owned, loads, packed, cpu_copy, slab, slab_used, slab_mem, arena, other>>
      /\ PackedForCall \/ call' = [call EXCEPT !.phase = "slab"]
  BY DEF WantSlab
<1>2. call.copy = None
  BY <1>1 DEF IInv, CallOK
<1>3. CASE PackedForCall
  BY <1>1, <1>3, ForCallOK, InFlight, CallStep DEF CallOK, Dropping
<1>4. CASE call' = [call EXCEPT !.phase = "slab"]
  <2>1. /\ call' \in CallType /\ call'.weight = call.weight /\ call'.phase = "slab"
        /\ call'.copy = None
    BY <1>1, <1>2, <1>4, InFlight DEF CallType
  <2>2. CallOK'
    BY <1>1, <2>1, InFlight DEF CallOK, Dropping
  <2> QED BY <1>1, <2>2, InFlight, CallStep
<1> QED BY <1>1, <1>3, <1>4

\* A copy packed into a slab, beside those the slab has.
PacksAt(s, off, memory) ==
    /\ call.phase \in {"weight", "slab"} /\ packed[call.weight] = None
    /\ s \in SlabIds /\ off \in 0 .. SlabSpans - 1
    /\ memory \in [SlabIds -> [0 .. SlabSpans - 1 -> Marks]]
    /\ \A w \in Weights : packed[w] # None =>
          /\ memory[packed[w].slab] = slab_mem[packed[w].slab]
          /\ packed[w].slab = s => packed[w].off < off
    /\ slab_mem' = Packing(memory, s, off)
    /\ packed' = [packed EXCEPT ![call.weight] = [slab |-> s, off |-> off]]
    /\ slab' = s /\ slab_used' = off + 1 /\ WithCopy(packed'[call.weight])
    /\ UNCHANGED <<owned, loads, cpu_copy, arena, other>>

LEMMA Packed ==
    ASSUME IInv, NEW s, NEW off, NEW memory, PacksAt(s, off, memory)
    PROVE  IInv'
<1> USE DEF PacksAt
<1> DEFINE cw == call.weight
           copy == [slab |-> s, off |-> off]
<1>1. cw \in Weights /\ cw \in owned /\ ~ Dropping(cw) /\ call \in CallType
      /\ <<cw, loads[cw]>> \in Marks
  BY InFlight DEF Marks
<1>2. /\ copy \in Copies /\ copy # None /\ copy.slab = s /\ copy.off = off
      /\ off + 1 \in 0 .. SlabSpans
  BY NoneIsNoCopy, PoolAssumption DEF Copies
<1>3. packed \in [Weights -> Copies \cup {None}] /\ packed' = [packed EXCEPT ![cw] = copy]
  BY DEF IInv, PoolTypeOK
<1> HIDE DEF copy
<1>4. /\ packed' \in [Weights -> Copies \cup {None}] /\ packed'[cw] = copy
      /\ \A w \in Weights : w # cw => packed'[w] = packed[w]
  BY <1>1, <1>2, <1>3
<1>5. slab_mem' = [memory EXCEPT ![s][off] = <<cw, loads[cw]>>]
  BY DEF Packing
<1>6. /\ slab_mem' \in [SlabIds -> [0 .. SlabSpans - 1 -> Marks]]
      /\ slab_mem'[s][off] = <<cw, loads[cw]>>
      /\ \A t \in SlabIds, o \in 0 .. SlabSpans - 1 :
            t # s \/ o # off => slab_mem'[t][o] = memory[t][o]
  <2> DEFINE row == [memory[s] EXCEPT ![off] = <<cw, loads[cw]>>]
  <2>1. memory[s] \in [0 .. SlabSpans - 1 -> Marks]
    OBVIOUS
  <2>2. /\ row \in [0 .. SlabSpans - 1 -> Marks] /\ row[off] = <<cw, loads[cw]>>
        /\ \A o \in 0 .. SlabSpans - 1 : o # off => row[o] = memory[s][o]
    BY <1>1, <2>1
  <2>3. slab_mem' = [memory EXCEPT ![s] = row]
    BY <1>5
  <2> HIDE DEF row
  <2> QED BY <2>2, <2>3
<1>7. PoolTypeOK'
  BY <1>2, <1>4, <1>6 DEF IInv, PoolTypeOK
<1>8. \A w : Dropping(w)' <=> Dropping(w)
  BY DEF Dropping
<1>9. ASSUME NEW w \in Weights PROVE CopyOK(w)' /\ CpuCopyOK(w)'
  <2>1. CpuCopyOK(w)'
    BY <1>8 DEF IInv, CpuCopyOK
  <2>2. CASE w = cw
    BY <1>1, <1>2, <1>4, <1>6, <1>8, <2>1, <2>2 DEF CopyOK, IsCurrent
  <2>3. CASE w # cw
    <3> SUFFICES ASSUME packed[w] # None PROVE CopyOK(w)'
      BY <1>4, <2>1, <2>3 DEF CopyOK
    <3>1. packed[w] \in Copies /\ packed'[w] = packed[w]
      BY <1>3, <1>4, <2>3
    <3>2. /\ packed[w].slab \in SlabIds /\ packed[w].off \in 0 .. SlabSpans - 1
      BY <3>1 DEF Copies
    <3>3. packed[w].slab = s => packed[w].off < off
      OBVIOUS
    <3>4. slab_mem'[packed[w].slab][packed[w].off] = memory[packed[w].slab][packed[w].off]
      BY <1>6, <3>2, <3>3
    <3>5. /\ w \in owned /\ ~ Dropping(w)
          /\ slab_mem[packed[w].slab][packed[w].off] = <<w, loads[w]>>
      BY DEF IInv, CopyOK, IsCurrent
    <3>6. memory[packed[w].slab] = slab_mem[packed[w].slab]
      OBVIOUS
    <3> QED BY <1>8, <3>1, <3>2, <3>3, <3>4, <3>5, <3>6 DEF CopyOK, IsCurrent
  <2> QED BY <2>2, <2>3, <2>1
<1>10. /\ call' \in CallType /\ call'.weight = cw /\ call'.phase = "arena"
       /\ call'.copy = copy
  BY <1>1, <1>2, <1>4 DEF WithCopy, CallType
<1>11. CallOK'
  BY <1>1, <1>4, <1>8, <1>10 DEF CallOK
<1>12. OtherOK'
  BY DEF IInv, OtherOK
<1> QED BY <1>7, <1>9, <1>11, <1>12 DEF IInv

LEMMA PackInSlabInv ==
    ASSUME IInv, PackInSlab
    PROVE  IInv'
<1>1. /\ call.phase = "weight" /\ packed[call.weight] = None
      /\ slab # 0 /\ slab_used < SlabSpans
      /\ slab_mem' = Packing(slab_mem, slab, slab_used)
      /\ packed' = [packed EXCEPT ![call.weight] = [slab |-> slab, off |-> slab_used]]
      /\ slab_used' = slab_used + 1 /\ WithCopy(packed'[call.weight])
      /\ UNCHANGED <<owned, loads, cpu_copy, slab, arena, other>>
  BY DEF PackInSlab
<1>2. /\ slab \in SlabIds /\ slab_used \in 0 .. SlabSpans - 1
      /\ slab_mem \in [SlabIds -> [0 .. SlabSpans - 1 -> Marks]]
  BY <1>1, PoolAssumption DEF IInv, PoolTypeOK
<1>3. \A w \in Weights : packed[w] # None =>
          /\ slab_mem[packed[w].slab] = slab_mem[packed[w].slab]
          /\ packed[w].slab = slab => packed[w].off < slab_used
  BY DEF IInv, CopyOK
<1>4. PacksAt(slab, slab_used, slab_mem)
  BY <1>1, <1>2, <1>3 DEF PacksAt
<1> QED BY <1>4, Packed

\* A new slab has no copy of another weight; a refused one leaves none to fill.
LEMMA NewSlabInv ==
    ASSUME IInv, NewSlab
    PROVE  IInv'
<1>1. /\ call.phase = "slab" /\ packed[call.weight] = None
      /\ UNCHANGED <<owned, loads, cpu_copy, arena, other>>
      /\ call.weight \in Weights /\ PoolTypeOK
  BY InFlight DEF NewSlab, IInv, CallOK
<1>2. CASE Fits(SlabSpans)
  <2> DEFINE s == CHOOSE id \in SlabIds : id \notin LiveSlabs
             copies == [packed EXCEPT ![call.weight] = [slab |-> s, off |-> 0]]
             memory == Kept(slab_mem, LiveOf(copies, s))
  <2>1. /\ packed' = copies /\ slab' = s /\ slab_used' = 1
        /\ slab_mem' = Packing(memory, s, 0) /\ WithCopy(packed'[call.weight])
    BY <1>2 DEF NewSlab
  <2>2. s \in SlabIds /\ s \notin LiveSlabs
    BY <1>1, SlabToBeHad
  <2> HIDE DEF s
  <2>3. slab_mem \in [SlabIds -> [0 .. SlabSpans - 1 -> Marks]]
    BY <1>1 DEF PoolTypeOK
  <2>4. memory \in [SlabIds -> [0 .. SlabSpans - 1 -> Marks]]
    BY <2>3, KeptOK
  <2>5. ASSUME NEW w \in Weights, packed[w] # None
        PROVE  /\ memory[packed[w].slab] = slab_mem[packed[w].slab]
               /\ packed[w].slab = s => packed[w].off < 0
    <3>1. packed[w].slab \in SlabIds /\ copies[w] = packed[w]
      BY <1>1, <2>5 DEF PoolTypeOK, Copies
    <3>2. packed[w].slab \in LiveSlabs /\ packed[w].slab \in LiveOf(copies, s)
      BY <3>1, NoneIsNoCopy DEF LiveSlabs, LiveOf
    <3> DEFINE live == LiveOf(copies, s)
    <3>3. packed[w].slab \in SlabIds \cap live /\ memory = Kept(slab_mem, live)
      BY <3>1, <3>2
    <3> HIDE DEF live, memory
    <3>4. memory[packed[w].slab] = slab_mem[packed[w].slab]
      BY <2>3, <3>3, KeptOK
    <3> QED BY <2>2, <3>2, <3>4
  <2> HIDE DEF memory
  <2>6. PICK off \in 0 .. SlabSpans - 1 : off = 0
    BY PoolAssumption
  <2>7. /\ packed' = [packed EXCEPT ![call.weight] = [slab |-> s, off |-> off]]
        /\ slab' = s /\ slab_used' = off + 1 /\ WithCopy(packed'[call.weight])
        /\ slab_mem' = Packing(memory, s, off)
    BY <2>1, <2>6
  <2> HIDE DEF copies
  <2>8. \A w \in Weights : packed[w] # None =>
            /\ memory[packed[w].slab] = slab_mem[packed[w].slab]
            /\ packed[w].slab = s => packed[w].off < off
    BY <2>5, <2>6
  <2>9. /\ call.phase \in {"weight", "slab"} /\ packed[call.weight] = None
        /\ s \in SlabIds
        /\ UNCHANGED <<owned, loads, cpu_copy, arena, other>>
    BY <1>1, <2>2
  <2>10. PacksAt(s, off, memory)
    BY <2>4, <2>6, <2>7, <2>8, <2>9 DEF PacksAt
  <2> QED BY <2>10, Packed
<1>3. CASE ~ Fits(SlabSpans)
  <2>1. /\ packed' = packed /\ slab' = 0 /\ slab_used' = slab_used
        /\ slab_mem' = Kept(slab_mem, LiveOf(packed, 0))
        /\ back_since' = (back_since \/ LiveSlabs # LiveOf(packed, 0))
        /\ PackedForCall
    BY <1>3 DEF NewSlab
  <2>2. LetGo(packed, 0, arena)
    BY <1>1, <2>1 DEF LetGo
  <2>3. PoolTypeOK' /\ \A w \in Weights : ~ Dropping(w)' => CopyOK(w)'
    <3>1. /\ packed \in [Weights -> Copies \cup {None}] /\ cpu_copy' \in [Weights -> Nat]
          /\ \A w \in Weights : packed[w] \in {packed[w], None}
          /\ 0 \in {slab, 0} /\ arena \in Nat /\ \A w \in Weights : CopyOK(w)
      BY <1>1 DEF IInv, PoolTypeOK
    <3> QED BY <1>1, <2>1, <2>2, <3>1, LetGoOK
  <2>4. ASSUME NEW w \in Weights PROVE CopyOK(w)' /\ CpuCopyOK(w)'
    BY <1>1, <2>1, <2>3 DEF IInv, CopyOK, CpuCopyOK, Dropping
  <2>5. CallOK'
    BY <1>1, <2>1, ForCallOK, InFlight DEF CallOK, Dropping
  <2>6. OtherOK'
    BY <1>1 DEF IInv, OtherOK
  <2> QED BY <2>3, <2>4, <2>5, <2>6 DEF IInv
<1> QED BY <1>2, <1>3

\* A call lets go of copies and of the arena, never of the copy it runs from.
LEMMA CallLetsGo ==
    ASSUME IInv, call.phase \in {"arena", "grow"},
           NEW copies \in {packed, Only(call.weight)}, NEW current \in {slab, 0},
           LetGo(copies, current, 0), NEW phase \in {"grow", "exact"}, Proceed(phase),
           UNCHANGED <<owned, loads, cpu_copy, slab_used, other>>
    PROVE  IInv'
<1>1. /\ PoolTypeOK /\ (\A w \in Weights : CopyOK(w)) /\ cpu_copy' \in [Weights -> Nat]
      /\ packed \in [Weights -> Copies \cup {None}]
  BY DEF IInv, PoolTypeOK
<1>2. /\ copies \in [Weights -> Copies \cup {None}]
      /\ \A w \in Weights : copies[w] \in {packed[w], None}
      /\ copies[call.weight] = packed[call.weight]
  BY <1>1, InFlight DEF Only, Nothing
<1>3. PoolTypeOK' /\ \A w \in Weights : ~ Dropping(w)' => CopyOK(w)'
  BY <1>1, <1>2, LetGoOK
<1>4. ASSUME NEW w \in Weights PROVE CopyOK(w)' /\ CpuCopyOK(w)'
  <2>1. packed' = copies
    BY DEF LetGo
  <2> QED BY <1>1, <1>2, <1>3, <2>1 DEF IInv, CopyOK, CpuCopyOK, Dropping
<1>5. /\ call' \in CallType /\ call'.weight = call.weight /\ call'.copy = call.copy
      /\ call'.phase = phase
  BY InFlight DEF Proceed, CallType
<1>6. call.copy # None => packed'[call.weight] = call.copy
  BY <1>2 DEF IInv, CallOK, LetGo
<1>7. CallOK' /\ OtherOK'
  BY <1>5, <1>6, InFlight DEF CallOK, OtherOK, IInv, Dropping
<1> QED BY <1>3, <1>4, <1>7 DEF IInv

\* A call goes on, with an arena that is large enough if it runs.
LEMMA CallProceeds ==
    ASSUME IInv, call.phase \in {"arena", "grow", "exact", "remember"},
           NEW phase \in {"run", "cpu", "remember"}, Proceed(phase),
           arena' \in Nat, phase = "run" => arena' >= call.need,
           UNCHANGED <<owned, loads, packed, cpu_copy, slab, slab_used, slab_mem, other>>
    PROVE  IInv'
<1>1. /\ call' \in CallType /\ call'.weight = call.weight /\ call'.copy = call.copy
      /\ call'.phase = phase /\ call'.need = call.need
  BY InFlight DEF Proceed, CallType
<1>2. CallOK'
  BY <1>1, InFlight DEF IInv, CallOK, Dropping
<1> QED BY <1>2, CallStep

LEMMA ArenaInv ==
    ASSUME IInv, Arena
    PROVE  IInv'
<1>1. /\ call.phase = "arena" /\ arena \in Nat
      /\ UNCHANGED <<owned, loads, cpu_copy, slab_used, other>>
  BY InFlight DEF Arena
<1>2. CASE Proceed("cpu") /\ UNCHANGED <<packed, slab, slab_mem, arena>>
  BY <1>1, <1>2, CallProceeds
<1>3. CASE arena >= call.need /\ Proceed("run") /\ UNCHANGED <<packed, slab, slab_mem, arena>>
  BY <1>1, <1>3, CallProceeds
<1>4. CASE LetGo(packed, slab, 0) /\ Proceed("grow")
  BY <1>1, <1>4, CallLetsGo
<1> QED BY <1>2, <1>3, <1>4 DEF Arena

LEMMA GrowInv ==
    ASSUME IInv, Grow
    PROVE  IInv'
<1>1. /\ call.phase = "grow" /\ call.need \in Nat
      /\ UNCHANGED <<owned, loads, cpu_copy, slab_used, other>>
  BY InFlight DEF Grow
<1>2. CASE /\ arena' = Grown(call.need) /\ Proceed("run")
           /\ UNCHANGED <<packed, slab, slab_mem>>
  <2>1. Grown(call.need) \in Nat /\ Grown(call.need) >= call.need
    BY <1>1 DEF Grown
  <2> QED BY <1>1, <1>2, <2>1, CallProceeds
<1>3. CASE LetGo(Only(call.weight), 0, 0) /\ Proceed("exact")
  BY <1>1, <1>3, CallLetsGo
<1> QED BY <1>2, <1>3 DEF Grow

LEMMA ExactInv ==
    ASSUME IInv, Exact
    PROVE  IInv'
<1>1. /\ call.phase = "exact" /\ call.need \in Nat /\ arena \in Nat
      /\ UNCHANGED <<owned, loads, packed, cpu_copy, slab, slab_used, slab_mem, other>>
  BY InFlight DEF Exact
<1>2. CASE arena' = call.need /\ Proceed("run")
  BY <1>1, <1>2, CallProceeds
<1>3. CASE arena' = arena /\ Proceed("remember")
  BY <1>1, <1>3, CallProceeds
<1> QED BY <1>2, <1>3 DEF Exact

LEMMA RememberInv ==
    ASSUME IInv, Remember
    PROVE  IInv'
<1>1. /\ call.phase = "remember" /\ arena \in Nat /\ Proceed("cpu")
      /\ UNCHANGED <<owned, loads, packed, cpu_copy, slab, slab_used, slab_mem, arena, other>>
  BY InFlight DEF Remember
<1> QED BY <1>1, CallProceeds

LEMMA EndRunInv ==
    ASSUME IInv, EndRun
    PROVE  IInv'
<1>1. CallOK'
  BY DEF EndRun, NoCall, CallOK
<1> QED BY <1>1, CallStep DEF EndRun, IInv, PoolTypeOK

\* The CPU's copy is of the weight the node has, which stays until the node is computed.
LEMMA RunOnCpuInv ==
    ASSUME IInv, RunOnCpu
    PROVE  IInv'
<1> DEFINE cw == call.weight
           made == IF cpu_copy[cw] = 0 /\ Takes[cw] = 0 THEN loads[cw] ELSE cpu_copy[cw]
<1>1. /\ call.phase = "cpu" /\ call' = NoCall /\ cpu_copy' = [cpu_copy EXCEPT ![cw] = made]
      /\ UNCHANGED <<owned, loads, packed, slab, slab_used, slab_mem, arena, other>>
  BY DEF RunOnCpu
<1>2. /\ cw \in Weights /\ cw \in owned /\ ~ Dropping(cw) /\ loads[cw] \in Nat
      /\ cpu_copy \in [Weights -> Nat]
  BY <1>1, InFlight DEF IInv, PoolTypeOK
<1>3. made \in Nat /\ (made # 0 => made = loads[cw])
  BY <1>2 DEF IInv, CpuCopyOK
<1> HIDE DEF made
<1>4. /\ cpu_copy' \in [Weights -> Nat] /\ cpu_copy'[cw] = made
      /\ \A w \in Weights : w # cw => cpu_copy'[w] = cpu_copy[w]
  BY <1>1, <1>2, <1>3
<1>5. PoolTypeOK' /\ OtherOK'
  BY <1>1, <1>4 DEF IInv, PoolTypeOK, OtherOK
<1>6. CallOK'
  BY <1>1 DEF CallOK, NoCall
<1>7. ASSUME NEW w \in Weights PROVE CopyOK(w)' /\ CpuCopyOK(w)'
  <2>1. CopyOK(w)'
    BY <1>1 DEF IInv, CopyOK, IsCurrent, Dropping
  <2>2. CpuCopyOK(w)'
    BY <1>1, <1>2, <1>3, <1>4 DEF IInv, CpuCopyOK, Dropping
  <2> QED BY <2>1, <2>2
<1> QED BY <1>5, <1>6, <1>7 DEF IInv

-----------------------------------------------------------------------------
(* All steps, and the theorems *)

LEMMA InitInv == PoolInit => IInv
<1> SUFFICES ASSUME PoolInit PROVE IInv
  OBVIOUS
<1>1. PoolTypeOK
  BY PoolAssumption DEF PoolInit, PoolTypeOK, Nothing, Blank, Marks
<1>2. \A w \in Weights : CopyOK(w) /\ CpuCopyOK(w)
  BY DEF PoolInit, CopyOK, CpuCopyOK, Nothing
<1>3. CallOK /\ OtherOK
  BY DEF PoolInit, CallOK, OtherOK, NoCall, NoRequest
<1> QED BY <1>1, <1>2, <1>3 DEF IInv

LEMMA NextInv == IInv /\ [PoolNext]_poolVars => IInv'
<1> SUFFICES ASSUME IInv, [PoolNext]_poolVars PROVE IInv'
  OBVIOUS
<1>1. CASE UNCHANGED poolVars
  BY <1>1 DEF poolVars, IInv, PoolTypeOK, CopyOK, CpuCopyOK, CallOK, OtherOK, Dropping,
               IsCurrent
<1>2. ASSUME NEW b \in Weights \cup Buffers, Allocate(b) \/ Drop(b) PROVE IInv'
  BY <1>2, AllocateInv, DropInv
<1>3. CASE Release \/ Retry \/ GiveBack
  BY <1>3, ReleaseInv, RetryInv, GiveBackInv
<1>4. ASSUME NEW w \in Weights, NEW need \in Needs, Call(w, need) PROVE IInv'
  BY <1>4, CallInv
<1>5. CASE FindCopy \/ PackInSlab \/ WantSlab \/ NewSlab
  BY <1>5, FindCopyInv, PackInSlabInv, WantSlabInv, NewSlabInv
<1>6. CASE Arena \/ Grow \/ Exact \/ Remember \/ EndRun \/ RunOnCpu
  BY <1>6, ArenaInv, GrowInv, ExactInv, RememberInv, EndRunInv, RunOnCpuInv
<1> QED BY <1>1, <1>2, <1>3, <1>4, <1>5, <1>6 DEF PoolNext

\* The invariant of the copies, the call in flight and the other thread's request holds in
\* every state of the pool (Runtime, buft_alloc_buffer, buffer_free).
THEOREM InvariantHolds == PoolSpec => []IInv
BY InitInv, NextInv, PTL DEF PoolSpec

\* However requests, releases and frees of the other thread fall between the steps of a
\* call, the memory a launch runs from is its own: the arena is as large as it asked, and
\* the copy of its weight is in a live slab and of that weight (alloc_or_release, keep).
THEOREM CallsMemoryStaysLive == PoolSpec => []CallMemoryIsLive
<1>1. IInv => CallMemoryIsLive
  <2> SUFFICES ASSUME IInv, call.phase = "run"
               PROVE  /\ arena >= call.need
                      /\ call.copy # None => call.copy.slab \in LiveSlabs
                                             /\ IsCurrent(call.weight, call.copy)
    BY DEF CallMemoryIsLive
  <2>1. arena >= call.need
    BY DEF IInv, CallOK
  <2>2. ASSUME call.copy # None
        PROVE  call.copy.slab \in LiveSlabs /\ IsCurrent(call.weight, call.copy)
    <3>1. packed[call.weight] = call.copy /\ call.weight \in Weights /\ call.copy \in Copies
      BY <2>2, InFlight DEF IInv, CallOK
    <3>2. call.copy.slab # 0
      BY <3>1, NoneIsNoCopy DEF Copies
    <3> QED BY <2>2, <3>1, <3>2 DEF IInv, CopyOK, LiveSlabs, LiveOf
  <2> QED BY <2>1, <2>2
<1> QED BY <1>1, InvariantHolds, PTL

\* A packed copy of a weight, and one the CPU keeps, is of the weight that is at its address
\* now, and goes before the weight's buffer does (release_owned).
THEOREM CopiesStayCurrent == PoolSpec => []CopiesAreCurrent
<1>1. IInv => CopiesAreCurrent
  BY DEF IInv, CopyOK, CpuCopyOK, CopiesAreCurrent
<1> QED BY <1>1, InvariantHolds, PTL
=============================================================================
