--------------------------- MODULE Vc4Conv_proofs ---------------------------
(***************************************************************************)
(* One convolution on the QPUs, for any row, chunk, taps, dilation,        *)
(* padding of at most a chunk and number of QPUs: the three parties' types *)
(* and handshake; and, where nothing was placed over the input while it    *)
(* was needed, that what waits to be computed is the input as it was and   *)
(* that the three together are one step of the graph (ConvolvedOnce).      *)
(*                                                                         *)
(* The argument: nobody touches a slot or a done word out of turn, so the  *)
(* host waits for this launch and every QPU has then been through its      *)
(* positions (RunsOK); and each cell of memory holds a right position of   *)
(* the result where a QPU is past it and what it held before elsewhere,    *)
(* or the host's cache does (MemOK).  Behind the launched chunk no more of *)
(* the row than its own positions is written, so what the host stages two  *)
(* chunks ahead, halo included, is still the input.                        *)
(***************************************************************************)
EXTENDS Vc4Conv, TLAPS

Width == (Taps - 1) * Dilation          \* the halo a chunk is staged with
Window == 0 .. Chunk - 1 + Width

Staging == [chunk : Nat, seq : Nat, x : [Window -> Int]]

-----------------------------------------------------------------------------
(* Geometry *)

LEMMA Sizes ==
    /\ TOut \in Nat \ {0} /\ Chunk \in Nat \ {0} /\ Taps \in Nat \ {0} /\ QPUs \in Nat \ {0}
    /\ Pad \in Nat /\ Chunk <= TOut /\ Width \in Nat
    /\ TIn \in Nat \ {0} /\ TIn = TOut + Width - 2 * Pad
    /\ OwnAt = TIn + TOut /\ FreeAt = TIn + 2 * TOut
    /\ Cells = 0 .. FreeAt + TOut - 1 /\ InputCells = 0 .. TIn - 1
    /\ InputCells \subseteq Cells
<1>1. /\ TOut \in Nat \ {0} /\ Chunk \in Nat \ {0} /\ Taps \in Nat \ {0}
      /\ Dilation \in Nat \ {0} /\ QPUs \in Nat \ {0} /\ Pad \in Nat /\ Chunk <= TOut
      /\ TOut + (Taps - 1) * Dilation > 2 * Pad
  BY ConvAssumption
<1>2. Width \in Nat
  <2>1. Taps - 1 \in Nat /\ Dilation \in Nat
    BY <1>1
  <2>2. (Taps - 1) * Dilation \in Nat
    BY <2>1
  <2> QED BY <2>2 DEF Width
<1>3. TIn = TOut + Width - 2 * Pad /\ TOut + Width > 2 * Pad
  BY <1>1 DEF TIn, Width
<1>4. TIn \in Nat \ {0}
  BY <1>1, <1>2, <1>3
<1>5. OwnAt = TIn + TOut /\ FreeAt = TIn + 2 * TOut
  BY <1>1, <1>4 DEF OwnAt, FreeAt, ResidualAt
<1>6. Cells = 0 .. FreeAt + TOut - 1 /\ InputCells = 0 .. TIn - 1
  BY <1>4 DEF Cells, InputCells, Row, InputAt
<1>7. InputCells \subseteq Cells
  BY <1>1, <1>4, <1>5, <1>6
<1> QED BY <1>1, <1>2, <1>3, <1>4, <1>5, <1>6, <1>7

\* A node's result and the convolution's own tensor are in memory, and of the two the
\* target is one.
LEMMA Places ==
    ASSUME node \in Nodes
    PROVE  /\ node.out \in 0 .. FreeAt /\ node.own \in 0 .. FreeAt /\ Target \in 0 .. FreeAt
           /\ node.act \in BOOLEAN /\ node.in_place \in BOOLEAN /\ Placed(node)
<1>1. /\ node.out \in 0 .. FreeAt /\ node.own \in {InputAt, InputAt + 1, OwnAt}
      /\ node.act \in BOOLEAN /\ node.in_place \in BOOLEAN /\ Placed(node)
  BY DEF Nodes
<1>2. node.own \in 0 .. FreeAt
  BY <1>1, Sizes DEF InputAt
<1> QED BY <1>1, <1>2 DEF Target

\* Where the input is held until the convolution is placed, the target is off the input or
\* exactly over it.
LEMMA TargetOverInput ==
    ASSUME node \in Nodes, InputOutlivesAct
    PROVE  Target >= TIn \/ (Target = 0 /\ TIn = TOut)
<1>1. node.own = OwnAt
  BY Places DEF Placed
<1>2. CASE Target = node.own
  BY <1>1, <1>2, Sizes
<1>3. CASE Target # node.own
  <2>1. Target = node.out /\ node.out # node.own /\ Direct(node) /\ node.out \in 0 .. FreeAt
    BY <1>3, Places DEF Target
  <2>2. ~ Overlaps(node.out, TOut, InputAt, TIn) \/ SameMemory(node.out, TOut, InputAt, TIn)
    BY <2>1 DEF Direct
  <2> QED BY <2>1, <2>2, Sizes DEF Overlaps, SameMemory, InputAt
<1> QED BY <1>2, <1>3

\* A chunk there is has positions, at most Chunk of them and none past the row.
LEMMA ChunkSizes ==
    ASSUME node \in Nodes, ~ node.in_place
    PROVE  /\ Chunks \in Nat \ {0}
           /\ \A j \in 0 .. Chunks - 1 :
                 Length(j) \in 1 .. Chunk /\ Length(j) <= TOut - j * Chunk
<1> DEFINE a == TOut + Chunk - 1
           n == a \div Chunk
<1>1. /\ TOut \in Nat \ {0} /\ Chunk \in Nat \ {0} /\ Chunk <= TOut /\ Chunks = n
  BY Sizes DEF Chunks
<1>2. a \in Nat /\ a = TOut + Chunk - 1
  BY <1>1
<1> HIDE DEF a
<1>3. n \in Nat /\ Chunk * n <= a /\ a - Chunk * n <= Chunk - 1
  BY <1>1, <1>2
<1> HIDE DEF n
<1>4. n # 0
  <2>1. ASSUME n = 0 PROVE FALSE
    <3>1. Chunk * n = 0
      BY <1>1, <2>1
    <3> QED BY <1>1, <1>2, <1>3, <3>1
  <2> QED BY <2>1
<1>5. ASSUME NEW j \in 0 .. n - 1 PROVE j * Chunk + 1 <= TOut /\ j * Chunk \in Nat
  <2>1. n - 1 - j \in Nat /\ j \in Nat
    BY <1>3, <1>5
  <2>2. Chunk * (n - 1 - j) \in Nat /\ j * Chunk \in Nat
    BY <1>1, <2>1
  <2>3. Chunk * n = Chunk * (n - 1 - j) + j * Chunk + Chunk
    BY <1>1, <1>3, <2>1
  <2> HIDE DEF n
  <2> DEFINE p == Chunk * n
             r == Chunk * (n - 1 - j)
             u == j * Chunk
  <2>4. p = r + u + Chunk /\ p <= a /\ r \in Nat /\ u \in Nat
    BY <1>3, <2>2, <2>3
  <2> HIDE DEF p, r
  <2>5. u + 1 <= TOut
    <3> HIDE DEF u
    <3> QED BY <1>1, <1>2, <2>4
  <2> QED BY <2>2, <2>5
<1>6. ASSUME NEW j \in 0 .. n - 1 PROVE Length(j) \in 1 .. Chunk /\ Length(j) <= TOut - j * Chunk
  <2> DEFINE u == j * Chunk
  <2>1. u + 1 <= TOut /\ u \in Nat
    BY <1>5
  <2>2. Length(j) = Smaller(Chunk, TOut - u)
    BY DEF Length
  <2> HIDE DEF u
  <2>3. Length(j) \in 1 .. Chunk /\ Length(j) <= TOut - u
    BY <1>1, <2>1, <2>2 DEF Smaller
  <2> QED BY <2>3 DEF u
<1> QED BY <1>1, <1>3, <1>4, <1>6

\* Read in place, the row is one chunk.
LEMMA ChunksFit ==
    ASSUME node \in Nodes
    PROVE  /\ Chunks \in Nat \ {0}
           /\ \A j \in 0 .. Chunks - 1 :
                 Length(j) \in Nat \ {0} /\ Length(j) <= TOut - j * Chunk
<1>1. CASE node.in_place
  <2>1. Chunks = 1 /\ Length(0) = TOut /\ 0 * Chunk = 0
    BY <1>1, Sizes DEF Chunks, Length
  <2> QED BY <2>1, Sizes
<1>2. CASE ~ node.in_place
  <2>1. \A j \in 0 .. Chunks - 1 : 1 .. Chunk \subseteq Nat \ {0}
    BY Sizes
  <2> QED BY <1>2, <2>1, ChunkSizes
<1> QED BY <1>1, <1>2

LEMMA LaunchedQPUs ==
    ASSUME node \in Nodes, NEW j \in 0 .. Chunks - 1
    PROVE  Launched(j) \subseteq Q
<1>1. Length(j) \in Nat \ {0} /\ QPUs \in Nat \ {0}
  BY ChunksFit, Sizes
<1>2. Smaller(QPUs, Length(j)) \in Nat /\ Smaller(QPUs, Length(j)) <= QPUs
  BY <1>1 DEF Smaller
<1> QED BY <1>1, <1>2 DEF Launched, Q

\* The last chunk ends the row.
LEMMA LastLength ==
    ASSUME node \in Nodes, NEW j \in 0 .. Chunks - 1, ~ (j + 1 < Chunks)
    PROVE  j * Chunk + Length(j) >= TOut
<1>1. CASE node.in_place
  <2>1. j = 0 /\ Length(j) = TOut /\ 0 * Chunk = 0
    BY <1>1, Sizes DEF Chunks, Length
  <2> QED BY <2>1, Sizes
<1>2. CASE ~ node.in_place
  <2> DEFINE a == TOut + Chunk - 1
             n == a \div Chunk
             u == j * Chunk
  <2>1. /\ TOut \in Nat \ {0} /\ Chunk \in Nat \ {0} /\ Chunks = n
        /\ a = TOut + Chunk - 1 /\ a \in Nat
    BY <1>2, Sizes DEF Chunks
  <2> HIDE DEF a
  <2>2. n \in Nat /\ a - Chunk * n <= Chunk - 1
    BY <2>1
  <2> HIDE DEF n
  <2>3. j \in Nat /\ n = j + 1
    BY <2>1, <2>2
  <2>4. Chunk * n = u + Chunk /\ u \in Nat
    BY <2>1, <2>3
  <2>5. Length(j) = Smaller(Chunk, TOut - u)
    BY <1>2 DEF Length
  <2>6. u + Chunk >= TOut
    <3> DEFINE p == Chunk * n
    <3>1. p = u + Chunk /\ a - p <= Chunk - 1
      BY <2>2, <2>4
    <3> HIDE DEF p, u
    <3> QED BY <2>1, <2>4, <3>1
  <2> HIDE DEF u
  <2>7. u + Length(j) >= TOut
    BY <2>1, <2>4, <2>5, <2>6 DEF Smaller
  <2> QED BY <2>7 DEF u
<1> QED BY <1>1, <1>2

-----------------------------------------------------------------------------
(* Types *)

\* A slot holds a chunk there is, and so will the next one written.
TypeInv ==
    /\ ConvTypeOK
    /\ \A s \in 0 .. StageSlots - 1 : slots[s].chunk < Chunks
    /\ pc = "setup" => k = 0
    /\ pc = "ahead" => k < Chunks
    /\ pc = "stage" => k + Ahead < Chunks

LEMMA ValueTypes ==
    ASSUME ConvTypeOK
    PROVE  /\ \A c \in Cells : Before(node, c) \in Int /\ HostReads(c) \in Int
           /\ \A cells : WrittenBack(cells) \in [Cells -> Int]
           /\ \A t \in Int : Right(t) \in Int
           /\ Junk \in Int /\ Zero \in Int /\ Idle = -1
<1>1. Junk \in Int /\ Zero \in Int /\ Idle = -1 /\ Cells \subseteq Int
  BY Sizes DEF Junk, Zero, Idle
<1>2. \A c \in Cells : Before(node, c) \in Int
  BY <1>1 DEF Before
<1>3. \A c \in Cells : HostReads(c) \in Int
  BY <1>1, <1>2 DEF HostReads, ConvTypeOK
<1>4. \A cells : WrittenBack(cells) \in [Cells -> Int]
  BY <1>2 DEF WrittenBack, ConvTypeOK
<1>5. \A t \in Int : Right(t) \in Int
  BY Sizes DEF Right
<1> QED BY <1>1, <1>2, <1>3, <1>4, <1>5

LEMMA StagedTypes ==
    ASSUME ConvTypeOK, NEW j
    PROVE  Staged(j) \in [Window -> Int] /\ StagedInPlace \in [Window -> Int]
<1>1. Window = 0 .. Chunk - 1 + (Taps - 1) * Dilation
  BY DEF Window, Width
<1>2. \A x \in 0 .. TIn - 1 : HostReads(InputAt + x) \in Int
  BY ValueTypes, Sizes DEF InputAt
<1>3. Staged(j) \in [Window -> Int]
  BY <1>1, <1>2, ValueTypes DEF Staged
<1>4. StagedInPlace \in [Window -> Int]
  BY <1>1, ValueTypes DEF StagedInPlace
<1> QED BY <1>3, <1>4

LEMMA SlotNumbers ==
    /\ \A j \in Nat : Slot(j) \in 0 .. StageSlots - 1
    /\ \A j \in Nat : Slot(j) # Slot(j + 1) /\ Slot(j) # Slot(j + 2)
BY DEF Slot, StageSlots

\* The window of a chunk, its number and the one its launch is known by, in its slot.
LEMMA SlotWritten ==
    ASSUME ConvTypeOK, NEW j \in Nat, NEW x \in [Window -> Int],
           slots' = [slots EXCEPT ![Slot(j)] = [chunk |-> j, seq |-> seq + 1, x |-> x]]
    PROVE  /\ slots' \in [0 .. StageSlots - 1 -> Staging]
           /\ slots'[Slot(j)] = [chunk |-> j, seq |-> seq + 1, x |-> x]
           /\ \A s \in 0 .. StageSlots - 1 : s # Slot(j) => slots'[s] = slots[s]
<1>1. slots \in [0 .. StageSlots - 1 -> Staging] /\ Slot(j) \in 0 .. StageSlots - 1
  BY SlotNumbers DEF ConvTypeOK, Staging, Window, Width
<1>2. [chunk |-> j, seq |-> seq + 1, x |-> x] \in Staging
  BY DEF ConvTypeOK, Staging
<1> QED BY <1>1, <1>2


LEMMA TypeOfStaging ==
    ASSUME TypeInv, NEW j \in Nat, j < Chunks, NEW x \in [Window -> Int],
           slots' = [slots EXCEPT ![Slot(j)] = [chunk |-> j, seq |-> seq + 1, x |-> x]],
           seq' = seq + 1, mem' \in [Cells -> Int], dirty' \subseteq Cells, k' \in Nat,
           pc' \in {"ahead", "launch", "wait"}, pc' = "ahead" => k' < Chunks,
           UNCHANGED <<node, stale, done, ctrl, runs, pending, calling, at>>
    PROVE  TypeInv'
<1>1. /\ slots' \in [0 .. StageSlots - 1 -> Staging]
      /\ \A s \in 0 .. StageSlots - 1 : slots'[s].chunk \in {j, slots[s].chunk}
  <2>1. /\ slots' \in [0 .. StageSlots - 1 -> Staging]
        /\ slots'[Slot(j)] = [chunk |-> j, seq |-> seq + 1, x |-> x]
        /\ \A s \in 0 .. StageSlots - 1 : s # Slot(j) => slots'[s] = slots[s]
    BY SlotWritten DEF TypeInv
  <2>2. slots'[Slot(j)].chunk = j
    BY <2>1
  <2> QED BY <2>1, <2>2
<1>2. ConvTypeOK'
  BY <1>1 DEF TypeInv, ConvTypeOK, Staging, Window, Width
<1>3. Chunks' = Chunks
  BY DEF Chunks
<1> QED BY <1>1, <1>2, <1>3 DEF TypeInv

\* A step of the host that stages nothing.
LEMMA TypeOfHost ==
    ASSUME TypeInv, mem' \in [Cells -> Int], dirty' \subseteq Cells, stale' \subseteq Cells,
           k' \in Nat, ctrl' \in 0 .. StageSlots - 1, pending' \in BOOLEAN,
           pc' \in {"ahead", "launch", "start", "stage", "wait", "drain",
                    "finish", "deliver", "done"},
           pc' = "ahead" => k' < Chunks, pc' = "stage" => k' + Ahead < Chunks,
           UNCHANGED <<node, slots, seq, done, runs, calling, at>>
    PROVE  TypeInv'
<1>1. Chunks' = Chunks
  BY DEF Chunks
<1> QED BY <1>1 DEF TypeInv, ConvTypeOK

LEMMA TypeHost ==
    ASSUME TypeInv, Host
    PROVE  TypeInv'
<1>0. ConvTypeOK /\ node \in Nodes /\ k \in Nat /\ seq \in Nat /\ mem \in [Cells -> Int]
      /\ dirty \subseteq Cells /\ stale \subseteq Cells /\ pending \in BOOLEAN
      /\ ctrl \in 0 .. StageSlots - 1
  BY DEF TypeInv, ConvTypeOK
<1>1. CASE SetUp
  <2>1. 0 < Chunks
    BY <1>0, ChunksFit
  <2> QED BY <1>0, <1>1, <2>1, ValueTypes, TypeOfHost DEF SetUp
<1>2. CASE PrepareAhead
  <2>1. /\ k < Chunks /\ k' \in Nat /\ pc' \in {"ahead", "launch", "wait"}
        /\ pc' = "ahead" => k' < Chunks
    <3>1. k < Chunks /\ Chunks \in Nat
      BY <1>0, <1>2, ChunksFit DEF PrepareAhead, TypeInv
    <3>2. k + 1 < Smaller(Chunks, Ahead) => k + 1 < Chunks
      BY <1>0, <3>1 DEF Smaller, Ahead
    <3> QED BY <1>0, <1>2, <3>1, <3>2 DEF PrepareAhead
  <2>2. CASE StageChunk(k)
    <3>1. /\ slots' = [slots EXCEPT ![Slot(k)] = [chunk |-> k, seq |-> seq + 1,
                                                  x |-> Staged(k)]]
          /\ Staged(k) \in [Window -> Int] /\ seq' = seq + 1
          /\ mem' \in [Cells -> Int] /\ dirty' \subseteq Cells
          /\ UNCHANGED <<node, stale, done, ctrl, runs, pending, calling, at>>
      BY <1>0, <2>2, StagedTypes DEF StageChunk
    <3> QED BY <1>0, <2>1, <3>1, TypeOfStaging
  <2>3. CASE ViewInput
    <3>1. /\ slots' = [slots EXCEPT ![Slot(k)] = [chunk |-> k, seq |-> seq + 1,
                                                  x |-> StagedInPlace]]
          /\ StagedInPlace \in [Window -> Int] /\ seq' = seq + 1
          /\ mem' \in [Cells -> Int] /\ dirty' \subseteq Cells
          /\ UNCHANGED <<node, stale, done, ctrl, runs, pending, calling, at>>
      BY <1>0, <2>3, StagedTypes, ValueTypes DEF ViewInput
    <3> QED BY <1>0, <2>1, <3>1, TypeOfStaging
  <2> QED BY <1>2, <2>2, <2>3 DEF PrepareAhead
<1>3. CASE WriteControl
  <2>1. Slot(k) \in 0 .. StageSlots - 1
    BY <1>0, SlotNumbers
  <2> QED BY <1>0, <1>3, <2>1, TypeOfHost DEF WriteControl
<1>4. CASE StartCall
  <2>1. pc' = "stage" => k' + Ahead < Chunks
    BY <1>4 DEF StartCall
  <2> QED BY <1>0, <1>4, <2>1, TypeOfHost DEF StartCall
<1>5. CASE PrepareNext
  <2> DEFINE j == k + Ahead
  <2>1. j \in Nat /\ j < Chunks /\ k' \in Nat /\ pc' = "wait" /\ StageChunk(j)
    BY <1>0, <1>5 DEF PrepareNext, Ahead, TypeInv
  <2> HIDE DEF j
  <2>2. /\ slots' = [slots EXCEPT ![Slot(j)] = [chunk |-> j, seq |-> seq + 1,
                                                x |-> Staged(j)]]
        /\ Staged(j) \in [Window -> Int] /\ seq' = seq + 1
        /\ mem' \in [Cells -> Int] /\ dirty' \subseteq Cells
        /\ UNCHANGED <<node, stale, done, ctrl, runs, pending, calling, at>>
    BY <1>0, <2>1, StagedTypes DEF StageChunk
  <2> QED BY <2>1, <2>2, TypeOfStaging
<1>6. CASE SeeMarkers
  BY <1>0, <1>6, TypeOfHost DEF SeeMarkers
<1>7. CASE Drain
  BY <1>0, <1>7, TypeOfHost DEF Drain, NextChunk
<1>8. CASE Finish
  <2>1. \A c \in Cells : c - Target \in Int
    BY <1>0, Sizes, Places
  <2>2. mem' \in [Cells -> Int]
    BY <1>0, <1>8, <2>1, ValueTypes DEF Finish
  <2> QED BY <1>0, <1>8, <2>2, TypeOfHost DEF Finish
<1>9. CASE Deliver
  <2>1. ASSUME NEW c \in Cells, c \in Row(node.out, TOut)
        PROVE  HostReads(Target + c - node.out) \in Int
    <3>1. node.out \in 0 .. FreeAt /\ Target \in 0 .. FreeAt
      BY <1>0, Places
    <3>2. Cells = 0 .. FreeAt + TOut - 1 /\ FreeAt \in Nat /\ TOut \in Nat
      BY Sizes
    <3>3. c \in node.out .. node.out + TOut - 1
      BY <2>1 DEF Row
    <3>4. Target + c - node.out \in Cells
      BY <3>1, <3>2, <3>3
    <3> QED BY <1>0, <3>4, ValueTypes
  <2>2. mem' \in [Cells -> Int] /\ dirty' \subseteq Cells
    BY <1>0, <1>9, <2>1 DEF Deliver
  <2> QED BY <1>0, <1>9, <2>2, TypeOfHost DEF Deliver
<1> QED BY <1>1, <1>2, <1>3, <1>4, <1>5, <1>6, <1>7, <1>8, <1>9 DEF Host

\* The launcher's thread, the QPUs and the cache.
LEMMA TypeOthers ==
    ASSUME TypeInv, LauncherThread \/ (\E q \in Q : QPU(q)) \/ Evict
    PROVE  TypeInv'
<1>0. ConvTypeOK /\ node \in Nodes
  BY DEF TypeInv, ConvTypeOK
<1> SUFFICES ConvTypeOK'
  <2>1. UNCHANGED <<node, slots, pc, k>>
    BY DEF LauncherThread, TakeCall, StartQPUs, ReturnCall, QPU, Compute, MarkDone, Evict
  <2>2. Chunks' = Chunks
    BY <2>1 DEF Chunks
  <2> QED BY <2>1, <2>2 DEF TypeInv
<1>1. CASE TakeCall
  BY <1>0, <1>1 DEF TakeCall, ConvTypeOK
<1>2. CASE StartQPUs
  BY <1>0, <1>2 DEF StartQPUs, ConvTypeOK, Q
<1>3. CASE ReturnCall
  BY <1>0, <1>3 DEF ReturnCall, ConvTypeOK
<1>4. CASE Evict
  BY <1>0, <1>4, ValueTypes DEF Evict, ConvTypeOK
<1>5. ASSUME NEW q \in Q, Compute(q) PROVE ConvTypeOK'
  <2> DEFINE o == at[q]
             j == slots[runs].chunk
             l == Length(j)
             p == j * Chunk
  <2>1. /\ j \in Nat /\ j < Chunks /\ o \in Nat /\ o # Idle /\ o < l
        /\ at' = [at EXCEPT ![q] = @ + Smaller(QPUs, l)]
    BY <1>0, <1>5 DEF Compute, ConvTypeOK, TypeInv, Idle
  <2>2. /\ l \in Nat \ {0} /\ l <= TOut - p /\ p \in Nat
    <3>1. j \in 0 .. Chunks - 1
      BY <1>0, <2>1, ChunksFit
    <3> HIDE DEF j
    <3> QED BY <1>0, <3>1, ChunksFit, Sizes
  <2> HIDE DEF l
  <2>3. o + Smaller(QPUs, l) \in Nat
    BY <2>1, <2>2, Sizes DEF Smaller
  <2>4. at' \in [Q -> {Idle} \cup Nat]
    BY <1>0, <2>1, <2>3 DEF ConvTypeOK
  <2> HIDE DEF p
  <2>5. Computed(runs, o) \in Int
    BY <1>0, <2>1, <2>2, ValueTypes DEF Computed, p
  <2> DEFINE c == Target + p + o
  <2>6. c \in Cells
    <3>1. Target \in 0 .. FreeAt
      BY <1>0, Places
    <3>2. Cells = 0 .. FreeAt + TOut - 1 /\ FreeAt \in Nat /\ TOut \in Nat
      BY Sizes
    <3> HIDE DEF o
    <3> QED BY <2>1, <2>2, <3>1, <3>2
  <2>7. mem' \in {mem, [mem EXCEPT ![c] = Computed(runs, o)]} /\ stale' \in {stale, stale \cup {c}}
    BY <1>5 DEF Compute, p
  <2> HIDE DEF c
  <2>8. mem' \in [Cells -> Int] /\ stale' \subseteq Cells
    BY <1>0, <2>5, <2>6, <2>7 DEF ConvTypeOK
  <2> QED BY <1>0, <1>5, <2>4, <2>8 DEF Compute, ConvTypeOK
<1>6. ASSUME NEW q \in Q, MarkDone(q) PROVE ConvTypeOK'
  BY <1>0, <1>6 DEF MarkDone, ConvTypeOK
<1> QED BY <1>1, <1>2, <1>3, <1>4, <1>5, <1>6 DEF LauncherThread, QPU

-----------------------------------------------------------------------------
(* The handshake, for the control list *)

HandshakeOK ==
    /\ pending => pc \in {"stage", "wait", "drain"}
    /\ calling # "asleep" => pending

LEMMA HandshakeInv == HandshakeOK /\ [ConvNext]_convVars => HandshakeOK'
<1> SUFFICES ASSUME HandshakeOK, [ConvNext]_convVars PROVE HandshakeOK'
  OBVIOUS
<1> USE DEF HandshakeOK
<1>1. CASE UNCHANGED <<pending, calling, pc>>
  BY <1>1
<1>2. CASE SetUp \/ PrepareAhead \/ WriteControl \/ StartCall \/ PrepareNext
  BY <1>2 DEF SetUp, PrepareAhead, ViewInput, StageChunk, WriteControl, StartCall,
              PrepareNext
<1>3. CASE SeeMarkers \/ Drain \/ Finish \/ Deliver
  BY <1>3 DEF SeeMarkers, Drain, NextChunk, Finish, Deliver
<1>4. CASE LauncherThread
  BY <1>4 DEF LauncherThread, TakeCall, StartQPUs, ReturnCall
<1>5. ASSUME NEW q \in Q, QPU(q) PROVE UNCHANGED <<pending, calling, pc>>
  BY <1>5 DEF QPU, Compute, MarkDone
<1>6. CASE Evict
  BY <1>1, <1>6 DEF Evict
<1> QED BY <1>1, <1>2, <1>3, <1>4, <1>5, <1>6 DEF ConvNext, Host, convVars

-----------------------------------------------------------------------------
(* Staging, launching and what is left of the input *)

Staying == pc \notin {"finish", "deliver", "done"}
Setting == pc \in {"setup", "ahead"}
Launching == pc \in {"launch", "start"}

\* How many chunks were staged, and the first that may still be needed.
Prepared == CASE pc = "setup" -> 0
              [] pc = "ahead" -> k
              [] pc \in {"launch", "start", "stage"} -> Smaller(Chunks, k + 2)
              [] OTHER -> Smaller(Chunks, k + 3)
First == IF Setting THEN 0 ELSE k

Holds(j) ==
    /\ slots[Slot(j)].chunk = j /\ slots[Slot(j)].seq = j + 1
    /\ ~ node.in_place => \A i \in 0 .. Length(j) - 1 + Width :
          slots[Slot(j)].x[i] = Wanted(j * Chunk - Pad + i)

StagedOK ==
    /\ k < Chunks /\ seq = Prepared
    /\ pc = "ahead" => k < Smaller(Chunks, 2)
    /\ \A j \in First .. Prepared - 1 : Holds(j)

\* The call for this chunk has reached the QPUs.
Started == calling = "running" \/ ~ pending

\* A QPU runs only a program of this launch, and its done word is not this one's before.
LaunchOK ==
    /\ ~ Setting /\ pc # "launch" => ctrl = Slot(k)
    /\ \A q \in Q :
         /\ at[q] # Idle => /\ pc \in {"stage", "wait"} /\ Started /\ runs = Slot(k)
                            /\ q \in Launched(k) /\ done[q] <= k
         /\ done[q] <= k + 1
         /\ Setting => done[q] = 0
         /\ Launching \/ ~ Started => done[q] <= k
    /\ pc = "drain" => Started

\* The launched QPUs take the chunk's positions in turn, each from its own number on, and
\* when the markers were seen each has been through its own.
Turns == Smaller(QPUs, Length(k))
OnTurn(q, o) == \E i \in Nat : o = q + i * Turns
TurnOK == \A q \in Q : at[q] # Idle => OnTurn(q, at[q])
DrainOK == pc = "drain" => \A q \in Launched(k) : done[q] = k + 1

RunsOK == IF Staying THEN StagedOK /\ LaunchOK /\ TurnOK /\ DrainOK
                     ELSE \A q \in Q : at[q] = Idle

-----------------------------------------------------------------------------
(* What memory holds while the result is being made *)

\* Of the row, what the launches so far may have written.
Reached == IF Setting THEN 0 ELSE IF Launching THEN k * Chunk ELSE k * Chunk + Chunk

\* A QPU is past position o of the launched chunk.
Past(o) == \E q \in Launched(k) :
    OnTurn(q, o) /\ (done[q] = k + 1 \/ (at[q] # Idle /\ o < at[q]))
Passed(t) == \/ t < k * Chunk
             \/ t < k * Chunk + Length(k) /\ Past(t - k * Chunk)

\* The QPUs compute position t; it has been computed, there or on the host.
Theirs(t) == ~ node.in_place \/ t \in Interior
Made(t) == /\ ~ Setting
           /\ Theirs(t) \/ pc = "deliver"
           /\ Staying => Passed(t)

InTarget(c) == c \in Row(Target, TOut)
Cell(c) == IF InTarget(c) /\ Made(c - Target) THEN Right(c - Target) ELSE Before(node, c)

\* What the set-up, or the reading in place, has written back of the host's lines.
Cleaned(c) == \/ pc # "setup" /\ (InTarget(c) \/ c \in OperandCells)
              \/ ~ Setting /\ node.in_place /\ c \in InputCells

MemOK == pc # "done" =>
    /\ \A c \in Cells : c \in dirty \/ mem[c] = Cell(c)
    /\ \A c \in dirty : ~ Cleaned(c)
    /\ \A c \in stale : InTarget(c) /\ Made(c - Target) /\ pc # "deliver"

IInv == TypeInv /\ HandshakeOK /\ RunsOK /\ MemOK

\* What the next lemmas know of a step.
LEMMA Known ==
    ASSUME IInv
    PROVE  /\ ConvTypeOK /\ node \in Nodes /\ HandshakeOK /\ k \in Nat /\ seq \in Nat
           /\ slots \in [0 .. StageSlots - 1 -> Staging] /\ mem \in [Cells -> Int]
           /\ dirty \subseteq Cells /\ stale \subseteq Cells
           /\ done \in [Q -> Nat] /\ at \in [Q -> {Idle} \cup Nat]
           /\ Chunks \in Nat \ {0} /\ Target \in 0 .. FreeAt
BY ChunksFit, Places DEF IInv, TypeInv, ConvTypeOK, Staging, Window, Width

LEMMA LastChunk ==
    ASSUME IInv, Staying
    PROVE  /\ k \in 0 .. Chunks - 1 /\ Length(k) \in Nat \ {0} /\ Length(k) <= TOut - k * Chunk
           /\ k * Chunk \in Nat /\ 0 \in Launched(k) /\ 0 \in Q
           /\ Turns \in Nat \ {0} /\ Launched(k) = 0 .. Turns - 1 /\ Launched(k) \subseteq Q
<1>1. k \in 0 .. Chunks - 1
  BY Known DEF IInv, RunsOK, StagedOK
<1>2. Length(k) \in Nat \ {0} /\ Length(k) <= TOut - k * Chunk
  BY <1>1, Known, ChunksFit
<1>3. k * Chunk \in Nat
  BY Known, Sizes
<1>4. Turns \in Nat \ {0} /\ Turns <= QPUs /\ QPUs \in Nat
  BY <1>2, Sizes DEF Turns, Smaller
<1>5. Launched(k) = 0 .. Turns - 1
  BY DEF Launched, Turns
<1> QED BY <1>1, <1>2, <1>3, <1>4, <1>5 DEF Q

\* Before a launch no QPU is past anything, and in none past a chunk's positions.
LEMMA MadeBehind ==
    ASSUME IInv, ~ node.in_place, Staying, NEW t \in Nat, Made(t)
    PROVE  t < Reached /\ Reached \in Nat
<1>1. ~ Setting /\ Passed(t)
  BY DEF Made
<1>2. Length(k) <= Chunk /\ Length(k) \in Nat /\ k * Chunk \in Nat /\ Chunk \in Nat
  BY LastChunk, ChunkSizes, Known, Sizes
<1>3. CASE Launching
  <2>1. ASSUME Past(t - k * Chunk) PROVE FALSE
    <3>1. PICK q \in Launched(k) : done[q] = k + 1 \/ at[q] # Idle
      BY <2>1 DEF Past
    <3>2. done[q] <= k /\ at[q] = Idle /\ done[q] \in Nat /\ k \in Nat
      BY <1>3, <3>1, LastChunk, Known DEF IInv, RunsOK, LaunchOK, Launching
    <3> QED BY <3>1, <3>2
  <2>2. Reached = k * Chunk
    BY <1>1, <1>3 DEF Reached
  <2> QED BY <1>1, <1>2, <2>1, <2>2 DEF Passed
<1>4. CASE ~ Launching
  <2>1. Reached = k * Chunk + Chunk
    BY <1>1, <1>4 DEF Reached
  <2> QED BY <1>1, <1>2, <2>1 DEF Passed
<1> QED BY <1>3, <1>4

\* What the host reads of the input ahead of the chunk being computed is the input.
LEMMA ReadsInput ==
    ASSUME IInv, ~ node.in_place, Staying, InputOutlivesAct, NEW c \in InputCells,
           TIn = TOut => c >= Reached
    PROVE  HostReads(InputAt + c) = c
<1>1. c \in Nat /\ c \in Cells /\ InputAt + c = c /\ c < TIn /\ Before(node, c) = c
  BY Sizes DEF InputAt, Before
<1>2. ~ (InTarget(c) /\ Made(c - Target))
  <2> SUFFICES ASSUME InTarget(c), Made(c - Target) PROVE FALSE
    OBVIOUS
  <2>1. c >= Target /\ Target \in Nat /\ TIn \in Nat
    BY <1>1, Known, Sizes DEF InTarget, Row
  <2>2. Target = 0 /\ TIn = TOut
    BY <1>1, <2>1, Known, TargetOverInput
  <2>3. Made(c)
    BY <1>1, <2>2
  <2>4. c < Reached /\ Reached \in Nat
    BY <1>1, <2>3, MadeBehind
  <2> QED BY <1>1, <2>2, <2>4
<1>3. c \notin stale /\ (c \in dirty \/ mem[c] = c)
  BY <1>1, <1>2 DEF IInv, MemOK, Staying, Cell
<1> QED BY <1>1, <1>3 DEF HostReads

\* A chunk staged ahead of what is written holds its window of the input.
LEMMA StagesInput ==
    ASSUME IInv, ~ node.in_place, Staying, InputOutlivesAct, NEW j \in Nat, j < Chunks,
           j * Chunk >= Reached + Chunk \/ Reached = 0
    PROVE  \A i \in 0 .. Length(j) - 1 + Width : Staged(j)[i] = Wanted(j * Chunk - Pad + i)
<1>1. j \in 0 .. Chunks - 1
  BY Known
<1>2. Length(j) \in 1 .. Chunk
  BY <1>1, Known, ChunkSizes
<1> DEFINE p == j * Chunk
<1>3. p \in Nat /\ Reached \in Nat
  <2>1. p \in Nat
    BY Sizes
  <2>2. k * Chunk \in Nat /\ Chunk \in Nat
    BY LastChunk, Sizes
  <2>3. k * Chunk + Chunk \in Nat
    <3> DEFINE u == k * Chunk
    <3> HIDE DEF u
    <3> QED BY <2>2
  <2> QED BY <2>1, <2>2, <2>3 DEF Reached
<1>4. ASSUME NEW i \in 0 .. Length(j) - 1 + Width
      PROVE  Staged(j)[i] = Wanted(p - Pad + i)
  <2> DEFINE x == p - Pad + i
  <2> SUFFICES Staged(j)[i] = Wanted(x)
    OBVIOUS
  <2>1. i \in 0 .. Chunk - 1 + Width /\ ~ i >= Length(j) + Width
    BY <1>2, Sizes
  <2>2. Staged(j)[i] = IF x \in 0 .. TIn - 1 THEN HostReads(InputAt + x) ELSE Zero
    BY <2>1 DEF Staged, Width
  <2>3. CASE x \in 0 .. TIn - 1
    <3>1. x \in InputCells /\ x >= p - Pad
      BY <1>3, <2>1, <2>3, Sizes
    <3>2. x >= Reached
      <4>1. Pad <= Chunk /\ Pad \in Nat /\ Chunk \in Nat
        BY ChunkCoversPadding, Sizes
      <4> HIDE DEF p
      <4> QED BY <1>3, <2>3, <3>1, <4>1 DEF p
    <3> HIDE DEF x
    <3>3. HostReads(InputAt + x) = x
      BY <3>1, <3>2, ReadsInput
    <3> QED BY <2>2, <2>3, <3>3 DEF Wanted, InputAt
  <2>4. CASE x \notin 0 .. TIn - 1
    BY <2>2, <2>4 DEF Wanted
  <2> QED BY <2>3, <2>4
<1> QED BY <1>4

\* The launched chunk is in its slot.
LEMMA LaunchedHolds ==
    ASSUME IInv, Staying, ~ Setting
    PROVE  Holds(k) /\ Slot(k) \in 0 .. StageSlots - 1
<1>1. First = k /\ k < Prepared /\ Prepared \in Int /\ k \in Nat /\ StagedOK
  BY Known DEF First, Setting, Prepared, Smaller, IInv, RunsOK, StagedOK
<1>2. k \in First .. Prepared - 1
  BY <1>1
<1> QED BY <1>1, <1>2, SlotNumbers DEF StagedOK

-----------------------------------------------------------------------------
(* Steps *)

LEMMA HoldsKept ==
    ASSUME NEW j, Holds(j), UNCHANGED node, slots'[Slot(j)] = slots[Slot(j)]
    PROVE  Holds(j)'
<1>1. Length(j)' = Length(j)
  BY DEF Length
<1> QED BY <1>1 DEF Holds

\* A slot is written for a chunk, and those still needed stay.
LEMMA SlotTaken ==
    ASSUME IInv, NEW j \in Nat, NEW x \in [Window -> Int], j = seq,
           slots' = [slots EXCEPT ![Slot(j)] = [chunk |-> j, seq |-> seq + 1, x |-> x]],
           seq' = seq + 1, UNCHANGED node,
           ~ node.in_place => \A i \in 0 .. Length(j) - 1 + Width :
                                x[i] = Wanted(j * Chunk - Pad + i)
    PROVE  /\ Holds(j)' /\ seq' = j + 1 /\ Chunks' = Chunks
           /\ \A i \in Nat : Slot(i) # Slot(j) /\ Holds(i) => Holds(i)'
<1>1. /\ slots'[Slot(j)] = [chunk |-> j, seq |-> seq + 1, x |-> x]
      /\ \A s \in 0 .. StageSlots - 1 : s # Slot(j) => slots'[s] = slots[s]
  BY Known, SlotWritten
<1>2. Holds(j)'
  <2>1. Length(j)' = Length(j)
    BY DEF Length
  <2> QED BY <1>1, <2>1 DEF Holds
<1>3. ASSUME NEW i \in Nat, Slot(i) # Slot(j), Holds(i) PROVE Holds(i)'
  <2>1. slots'[Slot(i)] = slots[Slot(i)]
    BY <1>1, <1>3, SlotNumbers
  <2> QED BY <1>3, <2>1, HoldsKept
<1>4. Chunks' = Chunks
  BY DEF Chunks
<1> QED BY <1>2, <1>3, <1>4

LEMMA StagesNext ==
    ASSUME IInv, ~ node.in_place, Staying, InputOutlivesAct, NEW j \in Nat, j < Chunks,
           j * Chunk >= Reached + Chunk \/ Reached = 0, j = seq, StageChunk(j)
    PROVE  /\ Holds(j)' /\ seq' = j + 1 /\ Chunks' = Chunks
           /\ \A i \in Nat : Slot(i) # Slot(j) /\ Holds(i) => Holds(i)'
<1>1. /\ slots' = [slots EXCEPT ![Slot(j)] = [chunk |-> j, seq |-> seq + 1, x |-> Staged(j)]]
      /\ seq' = seq + 1 /\ UNCHANGED node
  BY DEF StageChunk
<1>2. Staged(j) \in [Window -> Int]
  BY Known, StagedTypes
<1>3. \A i \in 0 .. Length(j) - 1 + Width : Staged(j)[i] = Wanted(j * Chunk - Pad + i)
  BY StagesInput
<1> QED BY <1>1, <1>2, <1>3, SlotTaken

\* A step that leaves the slots alone: what was staged and is still needed stays.
LEMMA StagedStep ==
    ASSUME IInv, StagedOK, UNCHANGED <<node, slots, seq>>, k' \in {k, k + 1}, k' < Chunks,
           Prepared' = Prepared, First' >= First, First' \in Nat, pc' # "ahead" \/ k' = 0
    PROVE  StagedOK'
<1>1. Chunks' = Chunks /\ Chunks \in Nat \ {0} /\ k \in Nat
  BY Known DEF Chunks
<1>2. ASSUME NEW j \in First' .. Prepared' - 1 PROVE Holds(j)'
  <2>1. First \in Nat /\ Prepared \in Int
    BY <1>1, Known DEF First, Prepared, Smaller
  <2>2. j \in First .. Prepared - 1
    BY <2>1
  <2> QED BY <2>2, HoldsKept DEF StagedOK
<1>3. pc' = "ahead" => k' < Smaller(Chunks', 2)
  BY <1>1 DEF Smaller
<1> QED BY <1>1, <1>2, <1>3 DEF StagedOK

LEMMA SetUpRuns ==
    ASSUME IInv, SetUp
    PROVE  StagedOK' /\ LaunchOK'
<1> DEFINE cells == OperandCells \cup Row(Target, TOut)
<1>1. /\ pc = "setup" /\ pc' = "ahead" /\ k' = 0 /\ k = 0
      /\ mem' = WrittenBack(cells) /\ dirty' = dirty \ cells
      /\ UNCHANGED <<node, stale, slots, seq, done, ctrl, runs, pending, calling, at>>
  BY DEF SetUp, IInv, TypeInv
<1>2. StagedOK /\ LaunchOK
  BY <1>1 DEF IInv, RunsOK, Staying
<1>3. StagedOK'
  <2>1. Prepared' = Prepared /\ First' = 0 /\ First = 0
    BY <1>1 DEF Prepared, First, Setting
  <2> QED BY <1>1, <1>2, <2>1, Known, StagedStep
<1>4. LaunchOK'
  BY <1>1, <1>2 DEF LaunchOK, Setting, Launching, Started
<1> QED BY <1>3, <1>4

LEMMA PrepareAheadRuns ==
    ASSUME IInv, InputOutlivesAct, PrepareAhead
    PROVE  StagedOK' /\ LaunchOK'
<1>1. /\ pc = "ahead" /\ (IF node.in_place THEN ViewInput ELSE StageChunk(k))
      /\ \/ k + 1 < Smaller(Chunks, 2) /\ k' = k + 1 /\ pc' = "ahead"
         \/ ~ (k + 1 < Smaller(Chunks, 2)) /\ k' = 0 /\ pc' = "launch"
      /\ UNCHANGED <<node, stale, done, ctrl, runs, pending, calling, at>>
  BY DEF PrepareAhead, StageChunk, ViewInput, Ahead
<1>2. StagedOK /\ LaunchOK /\ Staying
  BY <1>1 DEF IInv, RunsOK, Staying
<1>3. /\ k < Smaller(Chunks, 2) /\ k \in Nat /\ Chunks \in Nat /\ seq = k
      /\ Reached = 0 /\ \A j \in 0 .. k - 1 : Holds(j)
  BY <1>1, <1>2, Known DEF StagedOK, Prepared, First, Reached, Setting
<1>4. k < Chunks /\ k \in {0, 1}
  BY <1>3 DEF Smaller
<1>5. PICK n \in Nat : n = k
  BY <1>3
<1>6. /\ Holds(n)' /\ seq' = n + 1 /\ Chunks' = Chunks
      /\ \A i \in Nat : Slot(i) # Slot(n) /\ Holds(i) => Holds(i)'
  <2>1. CASE ~ node.in_place
    BY <1>1, <1>2, <1>3, <1>4, <1>5, <2>1, StagesNext
  <2>2. CASE node.in_place
    <3>1. /\ slots' = [slots EXCEPT ![Slot(n)] = [chunk |-> n, seq |-> seq + 1,
                                                  x |-> StagedInPlace]]
          /\ seq' = seq + 1 /\ UNCHANGED node /\ n = seq
      BY <1>1, <1>3, <1>5, <2>2 DEF ViewInput
    <3>2. StagedInPlace \in [Window -> Int]
      BY Known, StagedTypes
    <3> QED BY <2>2, <3>1, <3>2, SlotTaken
  <2> QED BY <2>1, <2>2
<1>7. \A j \in 0 .. n : Holds(j)'
  <2>1. ASSUME NEW j \in 0 .. n - 1 PROVE Holds(j)'
    <3>1. j = 0 /\ n = 1
      BY <1>4, <1>5, <2>1
    <3>2. Slot(j) # Slot(n) /\ j \in Nat
      BY <3>1, SlotNumbers
    <3> QED BY <1>3, <1>5, <1>6, <2>1, <3>2
  <2>2. \A j \in 0 .. n : j = n \/ j \in 0 .. n - 1
    OBVIOUS
  <2> QED BY <1>6, <2>1, <2>2
<1>8. StagedOK'
  <2>1. CASE k + 1 < Smaller(Chunks, 2) /\ k' = k + 1 /\ pc' = "ahead"
    <3>1. Prepared' = n + 1 /\ First' = 0 /\ k' < Chunks
      BY <1>3, <1>5, <2>1 DEF Prepared, First, Setting, Smaller
    <3>2. \A j \in First' .. Prepared' - 1 : Holds(j)'
      BY <1>7, <3>1
    <3> QED BY <1>3, <1>5, <1>6, <2>1, <3>1, <3>2 DEF StagedOK
  <2>2. CASE ~ (k + 1 < Smaller(Chunks, 2)) /\ k' = 0 /\ pc' = "launch"
    <3>1. Prepared' = Smaller(Chunks, 2) /\ First' = 0 /\ k' < Chunks
      BY <1>3, <1>4, <1>6, <2>2 DEF Prepared, First, Setting
    <3>2. Smaller(Chunks, 2) = n + 1
      BY <1>3, <1>4, <1>5, <2>2 DEF Smaller
    <3>3. \A j \in First' .. Prepared' - 1 : Holds(j)'
      BY <1>7, <3>1, <3>2
    <3> QED BY <1>3, <1>6, <2>2, <3>1, <3>2, <3>3 DEF StagedOK
  <2> QED BY <1>1, <2>1, <2>2
<1>9. LaunchOK'
  BY <1>1, <1>2, <1>3 DEF LaunchOK, Setting, Launching, Started
<1> QED BY <1>8, <1>9

LEMMA WriteControlRuns ==
    ASSUME IInv, WriteControl
    PROVE  StagedOK' /\ LaunchOK'
<1>1. /\ pc = "launch" /\ pc' = "start" /\ ctrl' = Slot(k)
      /\ UNCHANGED <<node, mem, dirty, stale, slots, seq, done, runs, pending, calling, at, k>>
  BY DEF WriteControl
<1>2. StagedOK /\ LaunchOK /\ k \in Nat /\ k < Chunks
  BY <1>1, Known DEF IInv, RunsOK, Staying, StagedOK
<1>3. Prepared' = Prepared /\ First' = First /\ First = k /\ Reached' = Reached
  <2>1. Chunks' = Chunks
    BY <1>1 DEF Chunks
  <2> QED BY <1>1, <2>1 DEF Prepared, First, Setting, Reached, Launching
<1>4. StagedOK'
  BY <1>1, <1>2, <1>3, StagedStep
<1>5. LaunchOK'
  BY <1>1, <1>2 DEF LaunchOK, Setting, Launching, Started, Launched, Length
<1> QED BY <1>4, <1>5

LEMMA StartCallRuns ==
    ASSUME IInv, StartCall
    PROVE  StagedOK' /\ LaunchOK'
<1>1. /\ pc = "start" /\ ~ pending /\ pending' = TRUE /\ calling = "asleep"
      /\ pc' = IF k + 2 < Chunks THEN "stage" ELSE "wait"
      /\ UNCHANGED <<node, mem, dirty, stale, slots, seq, done, ctrl, runs, calling, at, k>>
  BY Known DEF StartCall, Ahead, HandshakeOK
<1>2. StagedOK /\ LaunchOK /\ k \in Nat /\ k < Chunks /\ Chunks \in Nat
  BY <1>1, Known DEF IInv, RunsOK, Staying, StagedOK
<1>3. Prepared' = Prepared /\ First' = First /\ First = k
  <2>1. Chunks' = Chunks
    BY <1>1 DEF Chunks
  <2>2. Prepared = Smaller(Chunks, k + 2) /\ Prepared' \in {Smaller(Chunks, k + 2), Smaller(Chunks, k + 3)}
        /\ (k + 2 < Chunks => Prepared' = Smaller(Chunks, k + 2))
    BY <1>1, <2>1 DEF Prepared
  <2>3. ~ (k + 2 < Chunks) => Smaller(Chunks, k + 2) = Smaller(Chunks, k + 3)
    BY <1>2 DEF Smaller
  <2> QED BY <1>1, <2>2, <2>3 DEF First, Setting
<1>4. StagedOK'
  BY <1>1, <1>2, <1>3, StagedStep
<1>5. LaunchOK'
  BY <1>1, <1>2 DEF LaunchOK, Setting, Launching, Started, Launched, Length
<1> QED BY <1>4, <1>5

LEMMA PrepareNextRuns ==
    ASSUME IInv, InputOutlivesAct, PrepareNext
    PROVE  StagedOK' /\ LaunchOK'
<1>1. /\ pc = "stage" /\ pc' = "wait" /\ StageChunk(k + 2) /\ k + 2 < Chunks
      /\ UNCHANGED <<node, mem, dirty, stale, done, ctrl, runs, pending, calling, at, k>>
  BY DEF PrepareNext, StageChunk, Ahead, IInv, TypeInv
<1>2. StagedOK /\ LaunchOK /\ Staying /\ ~ node.in_place
  <2>1. ASSUME node.in_place PROVE FALSE
    <3>1. Chunks = 1 /\ k \in Nat
      BY <2>1, Known DEF Chunks
    <3> QED BY <1>1, <3>1
  <2> QED BY <1>1, <2>1 DEF IInv, RunsOK, Staying
<1>3. /\ k \in Nat /\ Chunks \in Nat /\ k < Chunks /\ seq = k + 2
      /\ \A j \in k .. k + 1 : Holds(j)
  <2>1. k \in Nat /\ Chunks \in Nat /\ Prepared = Smaller(Chunks, k + 2) /\ First = k
    BY <1>1, Known DEF Prepared, First, Setting
  <2>2. Smaller(Chunks, k + 2) = k + 2
    BY <1>1, <2>1 DEF Smaller
  <2> QED BY <1>1, <1>2, <2>1, <2>2 DEF StagedOK
<1>4. /\ Reached = k * Chunk + Chunk /\ Reached' = Reached /\ Reached \in Nat
      /\ (k + 2) * Chunk = Reached + Chunk
  <2>1. Reached = k * Chunk + Chunk /\ Reached' = Reached
    BY <1>1 DEF Reached, Setting, Launching
  <2>2. k * Chunk \in Nat /\ (k + 2) * Chunk = k * Chunk + Chunk + Chunk /\ Chunk \in Nat
    BY <1>3, Sizes
  <2> QED BY <2>1, <2>2
<1>5. PICK n \in Nat : n = k
  BY <1>3
<1>6. /\ Holds(n + 2)' /\ seq' = n + 3 /\ Chunks' = Chunks
      /\ \A i \in Nat : Slot(i) # Slot(n + 2) /\ Holds(i) => Holds(i)'
  <2> DEFINE j == n + 2
  <2>1. /\ j \in Nat /\ j < Chunks /\ j * Chunk >= Reached + Chunk /\ j = seq
        /\ StageChunk(j) /\ j + 1 = n + 3
    <3>1. j * Chunk = Reached + Chunk /\ Reached + Chunk \in Nat
      BY <1>4, <1>5, Sizes
    <3> QED BY <1>1, <1>3, <1>5, <3>1
  <2> HIDE DEF j
  <2>2. /\ Holds(j)' /\ seq' = j + 1 /\ Chunks' = Chunks
        /\ \A i \in Nat : Slot(i) # Slot(j) /\ Holds(i) => Holds(i)'
    BY <1>2, <2>1, StagesNext
  <2> QED BY <2>1, <2>2 DEF j
<1>7. \A j \in n .. n + 2 : Holds(j)'
  <2>1. Slot(n) # Slot(n + 2) /\ Slot(n + 1) # Slot(n + 2)
    <3>1. n + 1 \in Nat /\ n + 1 + 1 = n + 2
      OBVIOUS
    <3> QED BY <3>1, SlotNumbers
  <2>2. Holds(n) /\ Holds(n + 1)
    BY <1>3, <1>5
  <2>3. Holds(n)' /\ Holds(n + 1)'
    BY <1>6, <2>1, <2>2
  <2>4. \A j \in n .. n + 2 : j = n \/ j = n + 1 \/ j = n + 2
    OBVIOUS
  <2> QED BY <1>6, <2>3, <2>4
<1>8. StagedOK'
  <2>1. Prepared' = Smaller(Chunks, n + 3) /\ First' = n /\ k' = n
    BY <1>1, <1>5, <1>6 DEF Prepared, First, Setting
  <2>2. Smaller(Chunks, n + 3) = n + 3
    BY <1>1, <1>3, <1>5 DEF Smaller
  <2>3. \A j \in First' .. Prepared' - 1 : Holds(j)'
    BY <1>7, <2>1, <2>2
  <2> QED BY <1>1, <1>3, <1>5, <1>6, <2>1, <2>2, <2>3 DEF StagedOK
<1>9. LaunchOK'
  BY <1>1, <1>2 DEF LaunchOK, Setting, Launching, Started, Launched, Length
<1> QED BY <1>8, <1>9

\* The marker of a QPU that runs shows the chunk before: seeing it means it has finished.
LEMMA SeeMarkersRuns ==
    ASSUME IInv, SeeMarkers
    PROVE  StagedOK' /\ LaunchOK'
<1>1. /\ pc = "wait" /\ pc' = "drain" /\ \A q \in Launched(k) : done[q] = slots[Slot(k)].seq
      /\ UNCHANGED <<node, mem, dirty, stale, slots, seq, done, ctrl, runs, pending, calling,
                     at, k>>
  BY DEF SeeMarkers
<1>2. StagedOK /\ LaunchOK /\ Staying /\ k \in Nat /\ k < Chunks /\ Chunks \in Nat
  BY <1>1, Known DEF IInv, RunsOK, Staying, StagedOK
<1>3. Prepared' = Prepared /\ First' = First /\ First = k /\ Reached' = Reached
  <2>1. Chunks' = Chunks
    BY <1>1 DEF Chunks
  <2> QED BY <1>1, <2>1 DEF Prepared, First, Setting, Reached, Launching
<1>4. StagedOK'
  BY <1>1, <1>2, <1>3, StagedStep
<1>5. slots[Slot(k)].seq = k + 1
  BY <1>1, <1>2, LaunchedHolds DEF Setting, Holds
<1>6. Started
  <2>1. 0 \in Launched(k) /\ 0 \in Q
    BY <1>2, LastChunk
  <2>2. done[0] = k + 1
    BY <1>1, <1>5, <2>1
  <2> QED BY <1>2, <2>1, <2>2 DEF LaunchOK
<1>7. \A q \in Q : at[q] = Idle
  <2>1. ASSUME NEW q \in Q, at[q] # Idle PROVE FALSE
    <3>1. q \in Launched(k) /\ done[q] <= k
      BY <1>2, <2>1 DEF LaunchOK
    <3> QED BY <1>1, <1>2, <1>5, <3>1
  <2> QED BY <2>1
<1>8. LaunchOK'
  BY <1>1, <1>2, <1>6, <1>7 DEF LaunchOK, Setting, Launching, Started
<1> QED BY <1>4, <1>8

LEMMA DrainRuns ==
    ASSUME IInv, Drain, Staying'
    PROVE  StagedOK' /\ LaunchOK'
<1>1. /\ pc = "drain" /\ ~ pending /\ k + 1 < Chunks /\ k' = k + 1 /\ pc' = "launch"
      /\ UNCHANGED <<node, mem, dirty, stale, slots, seq, done, ctrl, runs, pending, calling,
                     at>>
  BY DEF Drain, NextChunk, Staying
<1>2. StagedOK /\ LaunchOK /\ k \in Nat /\ Chunks \in Nat
  BY <1>1, Known DEF IInv, RunsOK, Staying
<1>3. Prepared' = Prepared /\ First' = k + 1 /\ First = k
  <2>1. Chunks' = Chunks /\ k + 1 + 2 = k + 3
    BY <1>1, <1>2 DEF Chunks
  <2> QED BY <1>1, <2>1 DEF Prepared, First, Setting
<1>4. StagedOK'
  BY <1>1, <1>2, <1>3, StagedStep
<1>5. LaunchOK'
  <2>1. /\ \A q \in Q : at[q] = Idle /\ done[q] <= k + 1 /\ done[q] \in Nat
        /\ Started /\ ctrl = Slot(k)
    BY <1>1, <1>2, Known DEF LaunchOK, Setting
  <2>2. \A q \in Q : done[q] <= k' /\ done[q] <= k' + 1
    BY <1>1, <1>2, <2>1
  <2> QED BY <1>1, <2>1, <2>2 DEF LaunchOK, Setting, Launching
<1> QED BY <1>4, <1>5

\* The parties that move neither the host nor what is staged.
LEMMA StagedElsewhere ==
    ASSUME IInv, StagedOK, UNCHANGED <<node, slots, seq, pc, k>>
    PROVE  StagedOK' /\ Reached' = Reached
<1>1. Chunks' = Chunks
  BY DEF Chunks
<1>2. Prepared' = Prepared /\ First' = First /\ Reached' = Reached
  BY <1>1 DEF Prepared, First, Setting, Reached, Launching
<1>3. \A j \in First .. Prepared - 1 : Holds(j)'
  BY HoldsKept DEF StagedOK
<1> QED BY <1>1, <1>2, <1>3 DEF StagedOK

LEMMA LauncherRuns ==
    ASSUME IInv, Staying, LauncherThread
    PROVE  StagedOK' /\ LaunchOK'
<1>1. StagedOK /\ LaunchOK /\ HandshakeOK /\ k \in Nat /\ Chunks \in Nat
  BY Known DEF IInv, RunsOK
<1>2. UNCHANGED <<node, mem, dirty, stale, slots, seq, done, ctrl, pc, k>>
  BY DEF LauncherThread, TakeCall, StartQPUs, ReturnCall
<1>3. StagedOK' /\ Reached' = Reached
  BY <1>1, <1>2, StagedElsewhere
<1>5. CASE TakeCall
  <2>1. (Started' <=> Started) /\ UNCHANGED <<runs, at>>
    BY <1>5 DEF TakeCall, Started
  <2>2. Launched(k)' = Launched(k)
    BY <1>2 DEF Launched, Length
  <2>3. LaunchOK'
    BY <1>1, <1>2, <2>1, <2>2 DEF LaunchOK, Setting, Launching
  <2> QED BY <1>3, <2>3
<1>6. CASE StartQPUs
  <2>1. /\ calling = "called" /\ calling' = "running" /\ runs' = ctrl /\ pending
        /\ at' = [q \in Q |-> IF q \in Launched(slots[ctrl].chunk) THEN q ELSE Idle]
        /\ UNCHANGED pending
    BY <1>1, <1>6 DEF StartQPUs, HandshakeOK
  <2>2. ~ Started /\ Started' /\ pc \in {"stage", "wait"} /\ ctrl = Slot(k)
    BY <1>1, <2>1 DEF Started, HandshakeOK, LaunchOK, Setting
  <2>3. slots[ctrl].chunk = k
    BY <2>2, LaunchedHolds DEF Setting, Holds
  <2>4. \A q \in Q : done[q] <= k /\ done[q] <= k + 1
    BY <1>1, <2>2 DEF LaunchOK
  <2>5. Launched(k)' = Launched(k)
    BY <1>2 DEF Launched, Length
  <2>6. ASSUME NEW q \in Q, at'[q] # Idle PROVE q \in Launched(k)'
    BY <2>1, <2>3, <2>5, <2>6
  <2>7. LaunchOK'
    BY <1>2, <2>1, <2>2, <2>4, <2>6 DEF LaunchOK, Setting, Launching
  <2> QED BY <1>3, <2>7
<1>7. CASE ReturnCall
  <2>1. Started /\ Started' /\ UNCHANGED <<runs, at>>
    BY <1>7 DEF ReturnCall, Started
  <2>2. Launched(k)' = Launched(k)
    BY <1>2 DEF Launched, Length
  <2>3. LaunchOK'
    BY <1>1, <1>2, <2>1, <2>2 DEF LaunchOK, Setting, Launching
  <2> QED BY <1>3, <2>3
<1> QED BY <1>3, <1>5, <1>6, <1>7 DEF LauncherThread

\* A QPU that runs, runs the launched chunk, and writes behind what is still to be staged.
LEMMA ComputeRuns ==
    ASSUME IInv, Staying, NEW q \in Q, Compute(q)
    PROVE  StagedOK' /\ LaunchOK'
<1>1. StagedOK /\ LaunchOK /\ k \in Nat /\ Chunks \in Nat /\ k < Chunks
  BY Known DEF IInv, RunsOK, StagedOK
<1>2. UNCHANGED <<node, dirty, slots, seq, done, ctrl, runs, pending, calling, pc, k>>
  BY DEF Compute
<1>3. StagedOK' /\ Reached' = Reached
  BY <1>1, <1>2, StagedElsewhere
<1>4. /\ at[q] # Idle /\ pc \in {"stage", "wait"} /\ Started /\ runs = Slot(k)
      /\ q \in Launched(k) /\ done[q] <= k
  BY <1>1 DEF Compute, LaunchOK
<1>6. LaunchOK'
  <2>1. Launched(k)' = Launched(k) /\ (Started' <=> Started)
    BY <1>2 DEF Launched, Length, Started
  <2>2. \A p \in Q : p # q => at'[p] = at[p]
    BY Known DEF Compute
  <2>3. ASSUME NEW p \in Q, at'[p] # Idle PROVE at[p] # Idle
    BY <1>4, <2>2, <2>3
  <2> QED BY <1>1, <1>2, <2>1, <2>3 DEF LaunchOK, Setting, Launching
<1> QED BY <1>3, <1>6

LEMMA MarkDoneRuns ==
    ASSUME IInv, Staying, NEW q \in Q, MarkDone(q)
    PROVE  StagedOK' /\ LaunchOK'
<1>1. StagedOK /\ LaunchOK /\ k \in Nat /\ Chunks \in Nat /\ k < Chunks
  BY Known DEF IInv, RunsOK, StagedOK
<1>2. UNCHANGED <<node, mem, dirty, stale, slots, seq, ctrl, runs, pending, calling, pc, k>>
  BY DEF MarkDone
<1>3. StagedOK' /\ Reached' = Reached
  BY <1>1, <1>2, StagedElsewhere
<1>4. at[q] # Idle /\ pc \in {"stage", "wait"} /\ Started /\ runs = Slot(k)
  BY <1>1 DEF MarkDone, LaunchOK
<1>5. slots[runs].seq = k + 1
  BY <1>4, LaunchedHolds DEF Setting, Holds
<1>6. LaunchOK'
  <2>1. Launched(k)' = Launched(k) /\ Started'
    BY <1>2, <1>4 DEF Launched, Length, Started
  <2>2. /\ \A p \in Q : p # q => at'[p] = at[p] /\ done'[p] = done[p]
        /\ at'[q] = Idle /\ done'[q] = k + 1
    BY <1>5, Known DEF MarkDone
  <2>3. ASSUME NEW p \in Q
        PROVE  /\ at'[p] # Idle => at[p] # Idle /\ done'[p] = done[p]
               /\ done'[p] <= k + 1
    <3>1. done[p] <= k + 1
      BY <1>1 DEF LaunchOK
    <3> QED BY <1>1, <2>2, <3>1
  <2> QED BY <1>1, <1>2, <1>4, <2>1, <2>3 DEF LaunchOK, Setting, Launching
<1> QED BY <1>3, <1>6

LEMMA EvictRuns ==
    ASSUME IInv, Staying, Evict
    PROVE  StagedOK' /\ LaunchOK'
<1>1. StagedOK /\ LaunchOK /\ k \in Nat
  BY Known DEF IInv, RunsOK
<1>2. /\ mem' = WrittenBack(Cells) /\ dirty' = dirty \ Cells
      /\ UNCHANGED <<node, stale, slots, seq, done, ctrl, runs, pending, calling, at, pc, k>>
  BY Known DEF Evict
<1>3. StagedOK' /\ Reached' = Reached
  BY <1>1, <1>2, StagedElsewhere
<1>4. LaunchOK'
  <2>1. Launched(k)' = Launched(k) /\ (Started' <=> Started)
    BY <1>2 DEF Launched, Length, Started
  <2> QED BY <1>1, <1>2, <2>1 DEF LaunchOK, Setting, Launching
<1> QED BY <1>3, <1>4

\* What the parties do to what is staged and launched, while the host has chunks to do.
LEMMA LaunchStep ==
    ASSUME IInv, InputOutlivesAct, [ConvNext]_convVars, Staying'
    PROVE  StagedOK' /\ LaunchOK'
<1>1. CASE UNCHANGED convVars
  <2>1. StagedOK /\ LaunchOK
    BY <1>1 DEF convVars, IInv, RunsOK, Staying
  <2>2. UNCHANGED <<node, mem, dirty, stale, slots, seq, done, ctrl, runs, pending,
                    calling, at, pc, k>>
    BY <1>1 DEF convVars
  <2>3. StagedOK'
    BY <2>1, <2>2, StagedElsewhere
  <2>4. Launched(k)' = Launched(k) /\ (Started' <=> Started)
    BY <2>2 DEF Launched, Length, Started
  <2>5. LaunchOK'
    BY <2>1, <2>2, <2>4 DEF LaunchOK, Setting, Launching
  <2> QED BY <2>3, <2>5
<1>2. CASE Host
  <2>1. ~ Finish /\ ~ Deliver
    BY DEF Finish, Deliver, Staying
  <2> QED BY <1>2, <2>1, SetUpRuns, PrepareAheadRuns, WriteControlRuns, StartCallRuns,
             PrepareNextRuns, SeeMarkersRuns, DrainRuns DEF Host
<1>3. CASE LauncherThread
  <2>1. Staying
    BY <1>3 DEF LauncherThread, TakeCall, StartQPUs, ReturnCall, Staying
  <2> QED BY <1>3, <2>1, LauncherRuns
<1>4. ASSUME NEW q \in Q, QPU(q) PROVE StagedOK' /\ LaunchOK'
  <2>1. Staying
    BY <1>4 DEF QPU, Compute, MarkDone, Staying
  <2> QED BY <1>4, <2>1, ComputeRuns, MarkDoneRuns DEF QPU
<1>5. CASE Evict
  <2>1. Staying
    BY <1>5 DEF Evict, Staying
  <2> QED BY <1>5, <2>1, EvictRuns
<1> QED BY <1>1, <1>2, <1>3, <1>4, <1>5 DEF ConvNext

\* The host moves while no QPU runs, but for its staging and its waiting.
LEMMA HostAlone ==
    ASSUME IInv, Host
    PROVE  /\ UNCHANGED <<node, done, at, runs, calling>>
           /\ \/ \A q \in Q : at[q] = Idle
              \/ /\ pc \in {"stage", "wait"} /\ pc' \in {"wait", "drain"} /\ k' = k /\ Staying
<1>1. UNCHANGED <<node, done, at, runs, calling>>
  BY DEF Host, SetUp, PrepareAhead, ViewInput, StageChunk, WriteControl, StartCall,
         PrepareNext, SeeMarkers, Drain, Finish, Deliver
<1>2. CASE pc \in {"stage", "wait"}
  <2>1. PrepareNext \/ SeeMarkers
    BY <1>2 DEF Host, SetUp, PrepareAhead, WriteControl, StartCall, Drain, Finish, Deliver
  <2> QED BY <1>1, <1>2, <2>1 DEF PrepareNext, SeeMarkers, Staying
<1>3. CASE pc \notin {"stage", "wait"}
  BY <1>1, <1>3 DEF IInv, RunsOK, LaunchOK
<1> QED BY <1>2, <1>3

\* Every position of the launched chunk is one QPU's.
LEMMA TurnsCover ==
    ASSUME IInv, Staying
    PROVE  /\ \A o \in Nat : \E q \in Launched(k) : OnTurn(q, o)
           /\ \A o \in Nat, p, q \in Launched(k) : OnTurn(p, o) /\ OnTurn(q, o) => p = q
           /\ \A q \in Launched(k), o, u \in Nat :
                OnTurn(q, o) /\ OnTurn(q, u) /\ u < o + Turns => u <= o
           /\ \A q \in Launched(k), o \in Nat :
                OnTurn(q, o) => q <= o /\ OnTurn(q, o + Turns)
           /\ \A q \in Launched(k) : OnTurn(q, q)
<1> DEFINE n == Turns
<1>1. n \in Nat \ {0} /\ Launched(k) = 0 .. n - 1
  BY LastChunk
<1>2. \A q, o : OnTurn(q, o) <=> \E i \in Nat : o = q + i * n
  BY DEF OnTurn
<1>3. \A i, j \in Nat : i < j => i * n \in Nat /\ j * n \in Nat /\ i * n + n <= j * n
  <2> HIDE DEF n
  <2>1. ASSUME NEW i \in Nat, NEW j \in Nat, i < j
        PROVE  i * n \in Nat /\ j * n \in Nat /\ i * n + n <= j * n
    <3>1. j - i - 1 \in Nat /\ i * n \in Nat /\ j * n \in Nat
      BY <1>1, <2>1
    <3>2. (j - i - 1) * n \in Nat
      BY <1>1, <3>1
    <3>3. j * n = i * n + n + (j - i - 1) * n
      BY <1>1, <3>1
    <3> DEFINE a == i * n
               b == j * n
               c == (j - i - 1) * n
    <3>4. a \in Nat /\ b \in Nat /\ c \in Nat /\ b = a + n + c
      BY <3>1, <3>2, <3>3
    <3> HIDE DEF a, b, c
    <3>5. a + n <= b
      BY <1>1, <3>4
    <3> QED BY <3>4, <3>5 DEF a, b
  <2> QED BY <2>1
<1>4. \A i \in Nat : i * n \in Nat
  BY <1>1
<1> HIDE DEF n
<1>5. ASSUME NEW o \in Nat PROVE \E q \in Launched(k) : OnTurn(q, o)
  <2> DEFINE i == o \div n
             q == o % n
  <2>1. i \in Nat /\ q \in 0 .. n - 1 /\ o = n * i + q
    BY <1>1
  <2> HIDE DEF i, q
  <2>2. n * i = i * n /\ i * n \in Nat
    BY <1>1, <2>1
  <2>3. o = q + i * n
    BY <1>1, <2>1, <2>2
  <2> QED BY <1>1, <1>2, <2>1, <2>3
<1>6. ASSUME NEW o \in Nat, NEW p \in Launched(k), NEW q \in Launched(k),
             OnTurn(p, o), OnTurn(q, o)
      PROVE  p = q
  <2>1. PICK i \in Nat : o = p + i * n
    BY <1>2, <1>6
  <2>2. PICK j \in Nat : o = q + j * n
    BY <1>2, <1>6
  <2> DEFINE a == i * n
             b == j * n
  <2>3. /\ a \in Nat /\ b \in Nat /\ o = p + a /\ o = q + b
        /\ i = j => a = b
        /\ i < j => a + n <= b
        /\ j < i => b + n <= a
    BY <1>3, <1>4, <2>1, <2>2
  <2>4. p \in 0 .. n - 1 /\ q \in 0 .. n - 1
    BY <1>1
  <2> HIDE DEF a, b
  <2> QED BY <1>1, <2>3, <2>4
<1>7. ASSUME NEW q \in Launched(k), NEW o \in Nat, NEW u \in Nat, OnTurn(q, o), OnTurn(q, u),
             u < o + n
      PROVE  u <= o
  <2>1. PICK i \in Nat : o = q + i * n
    BY <1>2, <1>7
  <2>2. PICK j \in Nat : u = q + j * n
    BY <1>2, <1>7
  <2> DEFINE a == i * n
             b == j * n
  <2>3. /\ a \in Nat /\ b \in Nat /\ o = q + a /\ u = q + b
        /\ i = j => a = b
        /\ i < j => a + n <= b
        /\ j < i => b + n <= a
    BY <1>3, <1>4, <2>1, <2>2
  <2>4. q \in 0 .. n - 1
    BY <1>1
  <2> HIDE DEF a, b
  <2> QED BY <1>1, <1>7, <2>3, <2>4
<1>8. ASSUME NEW q \in Launched(k), NEW o \in Nat, OnTurn(q, o)
      PROVE  q <= o /\ OnTurn(q, o + n)
  <2>1. PICK i \in Nat : o = q + i * n
    BY <1>2, <1>8
  <2>2. q \in Nat /\ i * n \in Nat /\ (i + 1) * n = i * n + n
    BY <1>1, <1>4
  <2>3. o + n = q + (i + 1) * n /\ q <= o
    BY <1>1, <2>1, <2>2
  <2> QED BY <1>2, <2>3
<1>9. ASSUME NEW q \in Launched(k) PROVE OnTurn(q, q)
  <2>1. q = q + 0 * n
    BY <1>1
  <2> QED BY <1>2, <2>1
<1> QED BY <1>5, <1>6, <1>7, <1>8, <1>9 DEF n

LEMMA SameTurns ==
    ASSUME UNCHANGED <<node, k>>
    PROVE  /\ Launched(k)' = Launched(k) /\ Turns' = Turns /\ Length(k)' = Length(k)
           /\ \A q, o : OnTurn(q, o)' <=> OnTurn(q, o)
<1>1. Length(k)' = Length(k)
  BY DEF Length
<1> QED BY <1>1 DEF Launched, Turns, OnTurn

LEMMA TurnStep ==
    ASSUME IInv, [ConvNext]_convVars, Staying'
    PROVE  TurnOK' /\ DrainOK'
<1>1. CASE Host
  <2>1. UNCHANGED <<node, done, at>>
    BY <1>1, HostAlone
  <2>2. TurnOK'
    <3>1. CASE \A q \in Q : at[q] = Idle
      BY <2>1, <3>1 DEF TurnOK
    <3>2. CASE k' = k /\ Staying
      BY <2>1, <3>2, SameTurns DEF IInv, RunsOK, TurnOK, OnTurn
    <3> QED BY <1>1, <3>1, <3>2, HostAlone
  <2>3. DrainOK'
    <3> SUFFICES ASSUME pc' = "drain" PROVE \A q \in Launched(k)' : done'[q] = k' + 1
      BY DEF DrainOK
    <3>1. SeeMarkers
      BY <1>1 DEF Host, SetUp, PrepareAhead, WriteControl, StartCall, PrepareNext, Drain,
                  NextChunk, Finish, Deliver
    <3>2. /\ pc = "wait" /\ UNCHANGED <<node, done, k>>
          /\ \A q \in Launched(k) : done[q] = slots[Slot(k)].seq
      BY <3>1 DEF SeeMarkers
    <3>3. slots[Slot(k)].seq = k + 1
      BY <3>2, LaunchedHolds DEF Setting, Staying, Holds
    <3> QED BY <3>2, <3>3, SameTurns
  <2> QED BY <2>2, <2>3
<1>2. ASSUME UNCHANGED <<node, done, at, k, pc>>
      PROVE  TurnOK' /\ DrainOK'
  <2>1. TurnOK /\ DrainOK
    BY <1>2 DEF IInv, RunsOK, Staying
  <2>2. TurnOK'
    BY <1>2, <2>1, SameTurns DEF TurnOK, OnTurn
  <2>3. DrainOK'
    BY <1>2, <2>1, SameTurns DEF DrainOK
  <2> QED BY <2>2, <2>3
<1>3. CASE StartQPUs
  <2>1. /\ at' = [q \in Q |-> IF q \in Launched(slots[ctrl].chunk) THEN q ELSE Idle]
        /\ UNCHANGED <<node, slots, done, k, pc>> /\ Staying /\ calling = "called" /\ pending
    BY <1>3 DEF StartQPUs, Staying, IInv, HandshakeOK
  <2>2. ~ Started /\ pc \in {"stage", "wait"} /\ ctrl = Slot(k) /\ k \in Int
    BY <2>1, Known DEF IInv, RunsOK, LaunchOK, Started, HandshakeOK, Setting
  <2>3. slots[ctrl].chunk = k
    BY <2>1, <2>2, LaunchedHolds DEF Setting, Holds
  <2>4. ASSUME NEW q \in Q, at'[q] # Idle PROVE OnTurn(q, at[q])'
    <3>1. at'[q] = q /\ q \in Launched(k)
      BY <2>1, <2>3, <2>4
    <3>2. OnTurn(q, q)
      BY <2>1, <3>1, TurnsCover
    <3> QED BY <2>1, <3>1, <3>2, SameTurns DEF OnTurn
  <2> QED BY <2>2, <2>1, <2>4 DEF TurnOK, DrainOK
<1>4. ASSUME NEW q \in Q, QPU(q) PROVE TurnOK' /\ DrainOK'
  <2>1. UNCHANGED <<node, slots, k, pc>> /\ at[q] # Idle /\ Staying
    BY <1>4 DEF QPU, Compute, MarkDone, Staying
  <2>2. /\ pc \in {"stage", "wait"} /\ runs = Slot(k) /\ q \in Launched(k) /\ k \in Int
        /\ OnTurn(q, at[q]) /\ TurnOK
    BY <2>1, Known DEF IInv, RunsOK, LaunchOK, TurnOK
  <2>3. slots[runs].chunk = k
    BY <2>1, <2>2, LaunchedHolds DEF Setting, Holds
  <2>4. at' \in {[at EXCEPT ![q] = @ + Turns], [at EXCEPT ![q] = Idle]}
    BY <1>4, <2>3 DEF QPU, Compute, MarkDone, Turns
  <2>5. at[q] \in Nat /\ OnTurn(q, at[q] + Turns)
    BY <2>1, <2>2, Known, TurnsCover
  <2>6. ASSUME NEW p \in Q, at'[p] # Idle PROVE OnTurn(p, at[p])'
    <3>1. OnTurn(p, at'[p])
      BY <2>2, <2>4, <2>5, <2>6, Known DEF TurnOK
    <3> QED BY <2>1, <3>1, SameTurns DEF OnTurn
  <2> QED BY <2>1, <2>2, <2>6 DEF TurnOK, DrainOK
<1>5. CASE TakeCall \/ ReturnCall \/ Evict \/ UNCHANGED convVars
  BY <1>2, <1>5 DEF TakeCall, ReturnCall, Evict, convVars
<1> QED BY <1>1, <1>3, <1>4, <1>5 DEF ConvNext, LauncherThread

\* After the last chunk no QPU runs.
LEMMA StoppedStep ==
    ASSUME IInv, [ConvNext]_convVars, ~ Staying'
    PROVE  \A q \in Q : at'[q] = Idle
<1>1. CASE Host
  <2>1. at' = at /\ ((\A q \in Q : at[q] = Idle) \/ pc' \in {"wait", "drain"})
    BY <1>1, HostAlone
  <2> QED BY <2>1 DEF Staying
<1>2. CASE ~ Host
  <2>1. pc' = pc /\ ~ Staying
    BY <1>2 DEF ConvNext, LauncherThread, TakeCall, StartQPUs, ReturnCall, QPU, Compute,
                MarkDone, Evict, convVars, Staying
  <2>2. calling = "asleep" /\ \A q \in Q : at[q] = Idle
    BY <2>1 DEF IInv, HandshakeOK, RunsOK, Staying
  <2>3. ~ StartQPUs /\ \A q \in Q : ~ QPU(q)
    BY <2>2 DEF StartQPUs, QPU, Compute, MarkDone
  <2>4. at' = at
    BY <1>2, <2>3 DEF ConvNext, LauncherThread, TakeCall, ReturnCall, Evict, convVars
  <2> QED BY <2>2, <2>4
<1> QED BY <1>1, <1>2

LEMMA RunsStep ==
    ASSUME IInv, InputOutlivesAct, [ConvNext]_convVars
    PROVE  RunsOK'
BY LaunchStep, TurnStep, StoppedStep DEF RunsOK

-----------------------------------------------------------------------------
(* What memory holds *)

LEMMA SameNode ==
    ASSUME UNCHANGED node
    PROVE  /\ Target' = Target /\ OperandCells' = OperandCells /\ Chunks' = Chunks
           /\ \A c : /\ InTarget(c)' <=> InTarget(c)
                     /\ Before(node, c)' = Before(node, c)
           /\ \A t : Theirs(t)' <=> Theirs(t)
<1>1. Target' = Target
  BY DEF Target, Direct
<1> QED BY <1>1 DEF OperandCells, Chunks, InTarget, Before, HoldsResidual, Theirs

\* Positions and the cells of the result.
LEMMA TargetCells ==
    ASSUME IInv
    PROVE  /\ Row(Target, TOut) \subseteq Cells
           /\ \A c : InTarget(c) <=> c \in Cells /\ c - Target \in 0 .. TOut - 1
           /\ \A t \in 0 .. TOut - 1 : InTarget(Target + t) /\ Target + t - Target = t
<1>1. Target \in Nat /\ TOut \in Nat \ {0} /\ Target <= FreeAt /\ FreeAt \in Nat
      /\ Cells = 0 .. FreeAt + TOut - 1
  BY Known, Sizes
<1>2. Row(Target, TOut) = Target .. Target + TOut - 1
  BY <1>1 DEF Row
<1> QED BY <1>1, <1>2 DEF InTarget

\* The input is off the result when it is read in place, a residual in the pool is off it or
\* exactly under it.
LEMMA TargetOverOperands ==
    ASSUME IInv, InputOutlivesAct
    PROVE  /\ node.in_place => \A c \in InputCells : ~ InTarget(c)
           /\ node.residual = "row" =>
                \/ \A c \in ResidualCells : ~ InTarget(c)
                \/ Target = ResidualAt
           /\ node.residual = "input" =>
                /\ TIn = TOut
                /\ (\A c \in InputCells : ~ InTarget(c)) \/ Target = InputAt
           /\ Target # node.out => Target = OwnAt
           /\ Target # node.out => \A c \in Row(node.out, TOut) : ~ InTarget(c)
<1>1. /\ node \in Nodes /\ Placed(node) /\ node.own = OwnAt
      /\ node.out \in 0 .. FreeAt /\ Target \in 0 .. FreeAt
  BY Known, Places DEF Placed
<1>2. /\ TOut \in Nat \ {0} /\ TIn \in Nat \ {0} /\ FreeAt \in Nat
      /\ OwnAt = TIn + TOut /\ ResidualAt = TIn /\ InputAt = 0
      /\ InputCells = 0 .. TIn - 1 /\ ResidualCells = TIn .. TIn + TOut - 1
  BY Sizes DEF ResidualAt, InputAt, ResidualCells, Row
<1>3. \A c : InTarget(c) <=> c \in Target .. Target + TOut - 1
  BY DEF InTarget, Row
<1>4. ASSUME node.in_place PROVE \A c \in InputCells : ~ InTarget(c)
  <2>1. Target = OwnAt
    BY <1>1, <1>4 DEF Placed, Target
  <2> QED BY <1>2, <1>3, <2>1
<1>5. ASSUME Target = OwnAt
      PROVE  /\ \A c \in ResidualCells : ~ InTarget(c)
             /\ \A c \in InputCells : ~ InTarget(c)
  BY <1>2, <1>3, <1>5
<1>6. ASSUME node.residual = "row"
      PROVE  (\A c \in ResidualCells : ~ InTarget(c)) \/ Target = ResidualAt
  <2>1. CASE Target # OwnAt
    <3>1. Target = node.out /\ Direct(node) /\ node.out # node.own
      BY <1>1, <2>1 DEF Target
    <3>2. \/ ~ Overlaps(Target, TOut, ResidualAt, TOut)
          \/ SameMemory(Target, TOut, ResidualAt, TOut)
      BY <1>6, <3>1 DEF Direct
    <3> QED BY <1>1, <1>2, <1>3, <3>2 DEF Overlaps, SameMemory
  <2> QED BY <1>5, <2>1
<1>7. ASSUME node.residual = "input"
      PROVE  /\ TIn = TOut
             /\ (\A c \in InputCells : ~ InTarget(c)) \/ Target = InputAt
  <2>1. TIn = TOut
    BY <1>1, <1>7 DEF Placed
  <2>2. Target >= TIn \/ Target = 0
    BY <1>1, TargetOverInput
  <2> QED BY <1>1, <1>2, <1>3, <2>1, <2>2
<1>8. ASSUME Target # node.out
      PROVE  Target = OwnAt /\ \A c \in Row(node.out, TOut) : ~ InTarget(c)
  <2>1. Target = OwnAt /\ node.out # node.own
    BY <1>1, <1>8 DEF Target
  <2>2. ~ Overlaps(node.out, TOut, Target, TOut)
    BY <1>1, <2>1 DEF Placed
  <2> QED BY <1>1, <1>2, <1>3, <2>1, <2>2 DEF Overlaps, Row
<1> QED BY <1>4, <1>6, <1>7, <1>8

\* A cell whose line is still the host's has nothing of the result in it.
LEMMA DirtyBefore ==
    ASSUME IInv, pc # "done", NEW c \in dirty
    PROVE  Cell(c) = Before(node, c)
<1>1. ~ Cleaned(c)
  BY DEF IInv, MemOK
<1>2. InTarget(c) => ~ Made(c - Target)
  BY <1>1 DEF Cleaned, Made, Setting
<1> QED BY <1>2 DEF Cell

\* Nothing is made: the host's lines may be written back.
LEMMA MemStep ==
    ASSUME IInv, pc # "done", UNCHANGED <<node, stale>>,
           \/ UNCHANGED <<mem, dirty>>
           \/ \E cells : mem' = WrittenBack(cells) /\ dirty' = dirty \ cells,
           \A t \in 0 .. TOut - 1 : Made(t)' <=> Made(t),
           pc' = "deliver" => pc = "deliver",
           \A c \in dirty' : ~ Cleaned(c)'
    PROVE  MemOK'
<1>1. \A c \in Cells : Cell(c)' = Cell(c)
  <2> SUFFICES ASSUME NEW c \in Cells PROVE Cell(c)' = Cell(c)
    OBVIOUS
  <2>1. InTarget(c) => (Made(c - Target)' <=> Made(c - Target))
    <3>1. ASSUME NEW t, t = c - Target, InTarget(c) PROVE Made(t)' <=> Made(t)
      BY <3>1, TargetCells
    <3>2. c - Target' = c - Target
      BY SameNode
    <3> QED BY <3>1, <3>2 DEF Made
  <2>2. /\ InTarget(c)' <=> InTarget(c)
        /\ Before(node, c)' = Before(node, c) /\ Target' = Target
    BY SameNode
  <2> QED BY <2>1, <2>2 DEF Cell, Right
<1>2. \A c \in Cells : c \in dirty' \/ mem'[c] = Cell(c)'
  <2> SUFFICES ASSUME NEW c \in Cells PROVE c \in dirty' \/ mem'[c] = Cell(c)
    BY <1>1
  <2>1. c \in dirty \/ mem[c] = Cell(c)
    BY DEF IInv, MemOK
  <2>2. c \in dirty => Cell(c) = Before(node, c)
    BY DirtyBefore
  <2> QED BY <2>1, <2>2 DEF WrittenBack
<1>3. \A c \in stale' : (InTarget(c) /\ Made(c - Target) /\ pc # "deliver")'
  <2> SUFFICES ASSUME NEW c \in stale PROVE (InTarget(c) /\ Made(c - Target) /\ pc # "deliver")'
    OBVIOUS
  <2>1. InTarget(c) /\ Made(c - Target) /\ pc # "deliver"
    BY DEF IInv, MemOK
  <2>2. InTarget(c)' /\ Target' = Target
    BY <2>1, SameNode
  <2>3. ASSUME NEW t, t = c - Target PROVE Made(t)'
    BY <2>1, <2>3, TargetCells
  <2> QED BY <2>1, <2>2, <2>3 DEF Made
<1> QED BY <1>2, <1>3 DEF MemOK

LEMMA PassedStep ==
    ASSUME IInv, Staying, UNCHANGED <<node, k>>,
           \A o \in Nat : o < Length(k) => (Past(o)' <=> Past(o))
    PROVE  \A t \in Nat : Passed(t)' <=> Passed(t)
<1> SUFFICES ASSUME NEW t \in Nat PROVE Passed(t)' <=> Passed(t)
  OBVIOUS
<1> DEFINE u == k * Chunk
           o == t - u
<1>1. u \in Nat /\ Length(k) \in Nat /\ u' = u /\ Length(k)' = Length(k)
  BY LastChunk, SameTurns
<1>2. t < u \/ o \in Nat
  BY <1>1
<1>3. ASSUME ~ (t < u), t < u + Length(k) PROVE Past(t - u)' <=> Past(t - u)
  <2>1. o \in Nat /\ o < Length(k)
    <3> HIDE DEF u
    <3> QED BY <1>1, <1>2, <1>3
  <2>2. PICK n \in Nat : n = o /\ n < Length(k)
    BY <2>1
  <2>3. Past(n)' <=> Past(n)
    BY <2>2
  <2>4. o' = n
    BY <1>1, <2>2
  <2> QED BY <2>2, <2>3, <2>4 DEF Past, OnTurn, Turns
<1> QED BY <1>1, <1>3 DEF Passed

\* A step that moves neither the host on to another phase nor a QPU.
LEMMA MadeStays ==
    ASSUME IInv, UNCHANGED <<node, k, at, done>>, ~ Setting, ~ Setting',
           Staying, Staying'
    PROVE  \A t \in 0 .. TOut - 1 : Made(t)' <=> Made(t)
<1>1. \A o \in Nat : Past(o)' <=> Past(o)
  BY SameTurns DEF Past
<1>2. \A t \in Nat : Passed(t)' <=> Passed(t)
  BY <1>1, PassedStep
<1>3. pc # "deliver" /\ pc' # "deliver"
  BY DEF Staying
<1> QED BY <1>2, <1>3, SameNode DEF Made

LEMMA SetUpMem ==
    ASSUME IInv, SetUp
    PROVE  MemOK'
<1> DEFINE cells == OperandCells \cup Row(Target, TOut)
<1>1. /\ pc = "setup" /\ pc' = "ahead" /\ mem' = WrittenBack(cells) /\ dirty' = dirty \ cells
      /\ UNCHANGED <<node, stale>>
  BY DEF SetUp
<1>2. \A t \in 0 .. TOut - 1 : Made(t)' <=> Made(t)
  BY <1>1 DEF Made, Setting
<1>3. \A c \in dirty' : ~ Cleaned(c)'
  <2>1. \A c : Cleaned(c)' => c \in cells
    BY <1>1, SameNode DEF Cleaned, Setting, InTarget
  <2> QED BY <1>1, <2>1
<1> QED BY <1>1, <1>2, <1>3, MemStep

LEMMA PrepareAheadMem ==
    ASSUME IInv, PrepareAhead
    PROVE  MemOK'
<1>1. /\ pc = "ahead" /\ (IF node.in_place THEN ViewInput ELSE StageChunk(k))
      /\ pc' = "ahead" \/ (pc' = "launch" /\ k' = 0)
      /\ UNCHANGED <<node, stale, done, at>>
  BY DEF PrepareAhead, StageChunk, ViewInput
<1>2. \A t \in 0 .. TOut - 1 : Made(t)' <=> Made(t)
  <2> SUFFICES ASSUME NEW t \in 0 .. TOut - 1, pc' = "launch", Passed(t)' PROVE FALSE
    BY <1>1 DEF Made, Setting, Staying
  <2>1. \A q \in Q : at[q] = Idle /\ done[q] = 0
    BY <1>1 DEF IInv, RunsOK, LaunchOK, Staying, Setting
  <2>2. Launched(k)' \subseteq Q /\ k' * Chunk = 0 /\ k' = 0
    <3>1. k' = 0 /\ 0 \in 0 .. Chunks - 1
      BY <1>1, Known
    <3>2. Launched(k)' = Launched(0)
      BY <1>1, <3>1 DEF Launched, Length
    <3> QED BY <3>1, <3>2, Known, LaunchedQPUs, Sizes
  <2>3. ~ Past(t - k * Chunk)'
    BY <1>1, <2>1, <2>2 DEF Past
  <2> QED BY <2>2, <2>3 DEF Passed
<1>3. \/ UNCHANGED <<mem, dirty>>
      \/ \E cells : mem' = WrittenBack(cells) /\ dirty' = dirty \ cells
  BY <1>1 DEF ViewInput, StageChunk
<1>4. \A c \in dirty' : ~ Cleaned(c)'
  <2> SUFFICES ASSUME NEW c \in dirty' PROVE ~ Cleaned(c)'
    OBVIOUS
  <2>1. c \in dirty /\ (node.in_place => c \notin InputCells)
    BY <1>1 DEF ViewInput, StageChunk
  <2>2. ~ Cleaned(c)
    BY <1>1, <2>1 DEF IInv, MemOK
  <2> QED BY <1>1, <2>1, <2>2, SameNode DEF Cleaned
<1> QED BY <1>1, <1>2, <1>3, <1>4, MemStep

\* The host between its launches, and the launcher's thread but for the start of the QPUs.
LEMMA BetweenMem ==
    ASSUME IInv, \/ WriteControl \/ StartCall \/ PrepareNext \/ SeeMarkers
    PROVE  MemOK'
<1>1. /\ UNCHANGED <<node, mem, dirty, stale, done, at, k>>
      /\ pc \in {"launch", "start", "stage", "wait"}
      /\ pc' \in {"start", "stage", "wait", "drain"}
  BY DEF WriteControl, StartCall, PrepareNext, StageChunk, SeeMarkers
<1>2. \A t \in 0 .. TOut - 1 : Made(t)' <=> Made(t)
  BY <1>1, MadeStays DEF Setting, Staying
<1>3. \A c \in dirty' : ~ Cleaned(c)'
  BY <1>1, SameNode DEF IInv, MemOK, Cleaned, Setting
<1> QED BY <1>1, <1>2, <1>3, MemStep

\* Every QPU has been through its positions: the chunk is made, and it is the row's last or
\* a whole one.
LEMMA DrainMem ==
    ASSUME IInv, Drain
    PROVE  MemOK'
<1>1. /\ pc = "drain" /\ UNCHANGED <<node, mem, dirty, stale, done, at>>
      /\ \/ k + 1 < Chunks /\ k' = k + 1 /\ pc' = "launch"
         \/ ~ (k + 1 < Chunks) /\ pc' = "finish"
      /\ Staying /\ ~ Setting
  BY DEF Drain, NextChunk, Staying, Setting
<1> DEFINE u == k * Chunk
<1>2. /\ k \in 0 .. Chunks - 1 /\ u \in Nat /\ Length(k) \in Nat \ {0} /\ k \in Nat
      /\ Launched(k) \subseteq Q /\ Chunks \in Nat \ {0} /\ Chunk \in Nat \ {0}
      /\ TOut \in Nat
  BY <1>1, LastChunk, Known, Sizes
<1>3. \A q \in Q : at[q] = Idle /\ done[q] <= k + 1 /\ done[q] \in Nat
  BY <1>1, Known DEF IInv, RunsOK, LaunchOK
<1>4. ASSUME NEW t \in 0 .. TOut - 1 PROVE Passed(t) <=> t < u + Length(k)
  <2>1. ASSUME NEW o \in Nat PROVE Past(o)
    <3>1. PICK q \in Launched(k) : OnTurn(q, o)
      BY <1>1, TurnsCover
    <3>2. done[q] = k + 1
      BY <1>1 DEF IInv, RunsOK, DrainOK
    <3> QED BY <3>1, <3>2 DEF Past
  <2>2. t < u \/ t - u \in Nat
    BY <1>2
  <2> QED BY <1>2, <2>1, <2>2 DEF Passed
<1>5. \A t \in 0 .. TOut - 1 : Made(t) <=> Theirs(t) /\ t < u + Length(k)
  BY <1>1, <1>4 DEF Made
<1>6. CASE k + 1 < Chunks /\ k' = k + 1 /\ pc' = "launch"
  <2>1. Length(k) = Chunk /\ ~ node.in_place
    <3>1. ~ node.in_place
      BY <1>2, <1>6 DEF Chunks
    <3>2. Length(k + 1) >= 1 /\ Length(k + 1) \in Nat /\ Length(k + 1) <= TOut - (k + 1) * Chunk
      <4>1. k + 1 \in 0 .. Chunks - 1
        BY <1>2, <1>6
      <4> QED BY <4>1, Known, ChunksFit
    <3>3. (k + 1) * Chunk = u + Chunk
      BY <1>2
    <3>4. Length(k) = Smaller(Chunk, TOut - u)
      BY <3>1 DEF Length
    <3> HIDE DEF u
    <3> QED BY <1>2, <3>1, <3>2, <3>3, <3>4 DEF Smaller
  <2>2. ASSUME NEW o PROVE ~ Past(o)'
    <3>1. Launched(k)' \subseteq Q
      <4>1. Launched(k)' = Launched(k + 1) /\ k + 1 \in 0 .. Chunks - 1
        BY <1>1, <1>2, <1>6 DEF Launched, Length
      <4> QED BY <4>1, Known, LaunchedQPUs
    <3>2. \A q \in Q : at'[q] = Idle /\ done'[q] # k' + 1
      BY <1>1, <1>2, <1>3, <1>6
    <3> QED BY <3>1, <3>2 DEF Past
  <2>3. ASSUME NEW t \in 0 .. TOut - 1 PROVE Passed(t)' <=> t < (k + 1) * Chunk
    BY <1>6, <2>2 DEF Passed
  <2>4. (k + 1) * Chunk = u + Chunk
    BY <1>2
  <2>5. \A t \in 0 .. TOut - 1 : Made(t)' <=> Theirs(t) /\ t < u + Chunk
    BY <1>1, <1>6, <2>3, <2>4, SameNode DEF Made, Setting, Staying
  <2>6. \A t \in 0 .. TOut - 1 : Made(t)' <=> Made(t)
    BY <1>5, <2>1, <2>5
  <2>7. \A c \in dirty' : ~ Cleaned(c)'
    BY <1>1, SameNode DEF IInv, MemOK, Cleaned, Setting
  <2> QED BY <1>1, <2>6, <2>7, MemStep
<1>7. CASE ~ (k + 1 < Chunks) /\ pc' = "finish"
  <2>1. u + Length(k) >= TOut
    BY <1>2, <1>7, Known, LastLength
  <2>2. \A t \in 0 .. TOut - 1 : t < u + Length(k)
    <3> HIDE DEF u
    <3> QED BY <1>2, <2>1
  <2>3. \A t \in 0 .. TOut - 1 : Made(t)' <=> Theirs(t)
    BY <1>1, <1>7, SameNode DEF Made, Setting, Staying
  <2>4. \A t \in 0 .. TOut - 1 : Made(t)' <=> Made(t)
    BY <1>5, <2>2, <2>3
  <2>5. \A c \in dirty' : ~ Cleaned(c)'
    BY <1>1, <1>7, SameNode DEF IInv, MemOK, Cleaned, Setting
  <2> QED BY <1>1, <1>7, <2>4, <2>5, MemStep
<1> QED BY <1>1, <1>6, <1>7

LEMMA LauncherMem ==
    ASSUME IInv, pc # "done", LauncherThread \/ Evict \/ UNCHANGED convVars
    PROVE  MemOK'
<1>1. /\ UNCHANGED <<node, stale, slots, done, k, pc>>
      /\ \/ UNCHANGED <<mem, dirty>>
         \/ \E cells : mem' = WrittenBack(cells) /\ dirty' = dirty \ cells
      /\ dirty' \subseteq dirty
  <2>1. CASE Evict
    <3>1. mem' = WrittenBack(Cells) /\ dirty' = dirty \ Cells
      BY <2>1, Known DEF Evict
    <3> QED BY <2>1, <3>1 DEF Evict
  <2>2. CASE LauncherThread
    BY <2>2 DEF LauncherThread, TakeCall, StartQPUs, ReturnCall
  <2>3. CASE UNCHANGED convVars
    BY <2>3 DEF convVars
  <2> QED BY <2>1, <2>2, <2>3
<1>2. \A t \in 0 .. TOut - 1 : Made(t)' <=> Made(t)
  <2>1. CASE Setting \/ ~ Staying
    BY <1>1, <2>1, SameNode DEF Made, Setting, Staying
  <2>2. CASE ~ Setting /\ Staying /\ at' = at
    BY <1>1, <2>2, MadeStays DEF Setting, Staying
  <2>3. CASE ~ Setting /\ Staying /\ StartQPUs
    <3>1. /\ at' = [q \in Q |-> IF q \in Launched(slots[ctrl].chunk) THEN q ELSE Idle]
          /\ ~ Started
      BY <2>3 DEF StartQPUs, IInv, HandshakeOK, Started
    <3>2. \A q \in Q : at[q] = Idle /\ done[q] <= k /\ done[q] \in Nat /\ k \in Nat
      BY <2>3, <3>1, Known DEF IInv, RunsOK, LaunchOK
    <3>3. ASSUME NEW o \in Nat PROVE Past(o)' <=> Past(o)
      <4>1. Launched(k) \subseteq Q /\ Launched(k) \subseteq Nat
        BY <2>3, LastChunk
      <4>2. ~ Past(o)
        BY <3>2, <4>1 DEF Past
      <4>3. ASSUME NEW q \in Launched(k), OnTurn(q, o), at'[q] # Idle PROVE ~ (o < at'[q])
        <5>1. at'[q] = q /\ q \in Nat
          BY <3>1, <4>1, <4>3
        <5>2. q <= o
          BY <2>3, <4>3, TurnsCover
        <5> QED BY <5>1, <5>2
      <4>4. ~ Past(o)'
        BY <1>1, <3>2, <4>1, <4>3, SameTurns DEF Past
      <4> QED BY <4>2, <4>4
    <3>4. \A t \in Nat : Passed(t)' <=> Passed(t)
      BY <1>1, <2>3, <3>3, PassedStep
    <3> QED BY <1>1, <2>3, <3>4, SameNode DEF Made, Setting, Staying
  <2>4. at' = at \/ StartQPUs
    BY DEF LauncherThread, TakeCall, ReturnCall, Evict, convVars
  <2> QED BY <2>1, <2>2, <2>3, <2>4
<1>3. \A c \in dirty' : ~ Cleaned(c)'
  BY <1>1, SameNode DEF IInv, MemOK, Cleaned, Setting
<1> QED BY <1>1, <1>2, <1>3, MemStep

\* What is known where a QPU takes its next step.
LEMMA Running ==
    ASSUME IInv, NEW q \in Q, at[q] # Idle
    PROVE  /\ Staying /\ pc \in {"stage", "wait"} /\ q \in Launched(k)
           /\ runs = Slot(k) /\ slots[runs].chunk = k /\ slots[runs].seq = k + 1
           /\ at[q] \in Nat /\ OnTurn(q, at[q]) /\ done[q] <= k /\ done[q] \in Nat
<1>1. Staying /\ LaunchOK /\ TurnOK
  BY DEF IInv, RunsOK
<1>2. /\ pc \in {"stage", "wait"} /\ runs = Slot(k) /\ q \in Launched(k) /\ done[q] <= k
      /\ OnTurn(q, at[q])
  BY <1>1 DEF LaunchOK, TurnOK
<1>3. slots[runs].chunk = k /\ slots[runs].seq = k + 1
  BY <1>1, <1>2, LaunchedHolds DEF Setting, Holds
<1>4. at[q] \in Nat /\ done[q] \in Nat
  BY Known
<1> QED BY <1>1, <1>2, <1>3, <1>4

\* A QPU marks itself done when it is past the last of its positions.
LEMMA MarkDoneMem ==
    ASSUME IInv, NEW q \in Q, MarkDone(q)
    PROVE  MemOK'
<1>1. /\ at[q] # Idle
      /\ UNCHANGED <<node, mem, dirty, stale, slots, seq, ctrl, runs, pending, calling, pc, k>>
  BY DEF MarkDone
<1>2. /\ Staying /\ ~ Setting /\ pc # "done" /\ pc # "deliver" /\ at[q] \in Nat
      /\ at[q] >= Length(k) /\ k \in Nat /\ Length(k) \in Nat
      /\ at' = [at EXCEPT ![q] = Idle] /\ done' = [done EXCEPT ![q] = k + 1]
  BY <1>1, Running, Known, LastChunk DEF MarkDone, Setting, Staying
<1>3. ASSUME NEW o \in Nat, o < Length(k) PROVE Past(o)' <=> Past(o)
  <2>1. ASSUME NEW p \in Launched(k)
        PROVE  done'[p] = k + 1 \/ (at'[p] # Idle /\ o < at'[p])
               <=> done[p] = k + 1 \/ (at[p] # Idle /\ o < at[p])
    <3>1. p \in Q
      BY <1>2, LastChunk
    <3>2. CASE p = q
      BY <1>1, <1>2, <1>3, <3>1, <3>2, Known
    <3>3. CASE p # q
      BY <1>2, <3>1, <3>3, Known
    <3> QED BY <3>2, <3>3
  <2> QED BY <1>1, <2>1, SameTurns DEF Past
<1>4. \A t \in Nat : Passed(t)' <=> Passed(t)
  BY <1>1, <1>2, <1>3, PassedStep
<1>5. \A t \in 0 .. TOut - 1 : Made(t)' <=> Made(t)
  BY <1>1, <1>2, <1>4, SameNode DEF Made, Setting, Staying
<1>6. \A c \in dirty' : ~ Cleaned(c)'
  BY <1>1, <1>2, SameNode DEF IInv, MemOK, Cleaned, Setting
<1> QED BY <1>1, <1>2, <1>5, <1>6, MemStep

\* The position a QPU is at: in the row, and nobody has made it.
LEMMA AtWork ==
    ASSUME IInv, NEW q \in Q, Compute(q)
    PROVE  /\ k * Chunk + at[q] \in 0 .. TOut - 1 /\ k * Chunk \in Nat
           /\ ~ Made(k * Chunk + at[q]) /\ at[q] < Length(k)
           /\ node.in_place => k = 0 /\ k * Chunk + at[q] = at[q]
<1> DEFINE u == k * Chunk
           o == at[q]
           t == u + o
<1>1. at[q] # Idle /\ at[q] < Length(slots[runs].chunk)
  BY DEF Compute
<1>2. Staying /\ o \in Nat /\ o < Length(k) /\ OnTurn(q, o) /\ done[q] <= k /\ k \in Nat
      /\ done[q] \in Nat /\ q \in Launched(k)
  BY <1>1, Running, Known
<1>3. u \in Nat /\ Length(k) \in Nat /\ Length(k) <= TOut - u /\ TOut \in Nat
  BY <1>2, LastChunk, Sizes
<1>4. t \in 0 .. TOut - 1 /\ t - u = o /\ ~ (t < u)
  <2> HIDE DEF u, o
  <2> QED BY <1>2, <1>3 DEF t
<1>5. ~ Past(o)
  <2> SUFFICES ASSUME NEW p \in Launched(k), OnTurn(p, o),
                      done[p] = k + 1 \/ (at[p] # Idle /\ o < at[p])
               PROVE  FALSE
    BY DEF Past
  <2>1. p = q
    BY <1>2, TurnsCover
  <2> QED BY <1>2, <2>1
<1>6. ~ Made(t)
  <2>1. ~ Past(t - k * Chunk)
    BY <1>4, <1>5
  <2> QED BY <1>2, <1>4, <2>1 DEF Made, Passed
<1>7. node.in_place => k = 0 /\ t = o
  <2> SUFFICES ASSUME node.in_place PROVE k = 0 /\ t = o
    OBVIOUS
  <2>1. k = 0
    BY <1>2, LastChunk DEF Chunks
  <2>2. u = 0
    BY <2>1, Sizes
  <2> QED BY <1>2, <2>1, <2>2
<1> QED BY <1>2, <1>3, <1>4, <1>6, <1>7

\* An operand's cell the QPUs read, where none of the result is in it yet.
LEMMA QPUReads ==
    ASSUME IInv, pc \notin {"setup", "ahead", "done"}, NEW c \in Cells,
           c \in OperandCells \/ (node.in_place /\ c \in InputCells),
           c \in InputCells \/ (HoldsResidual(node) /\ c \in ResidualCells),
           ~ (InTarget(c) /\ Made(c - Target))
    PROVE  mem[c] = c /\ c \notin dirty
<1>1. Cleaned(c)
  BY DEF Cleaned, Setting
<1>2. c \notin dirty /\ mem[c] = Cell(c)
  BY <1>1 DEF IInv, MemOK
<1> QED BY <1>2 DEF Cell, Before

\* Every QPU computes its position from its operands as they were.
LEMMA ComputesRight ==
    ASSUME IInv, InputOutlivesAct, NEW q \in Q, Compute(q), ~ Skipped(at[q])
    PROVE  Computed(runs, at[q]) = Right(k * Chunk + at[q])
<1> DEFINE u == k * Chunk
           o == at[q]
           t == u + o
<1>1. /\ at[q] # Idle /\ Staying /\ pc \in {"stage", "wait"} /\ runs = Slot(k)
      /\ slots[runs].chunk = k /\ o \in Nat /\ k \in Nat
  BY Running, Known DEF Compute
<1>2. /\ t \in 0 .. TOut - 1 /\ u \in Nat /\ ~ Made(t) /\ o < Length(k)
      /\ node.in_place => k = 0 /\ t = o
  BY AtWork
<1>3. Length(k) \in Nat \ {0} /\ Width \in Nat /\ TOut \in Nat /\ TIn \in Nat /\ Pad \in Nat
  BY <1>1, LastChunk, Sizes
<1>4. ASSUME NEW tap \in 0 .. Taps - 1
      PROVE  TapReads(runs, o, tap) = Wanted(Source(t, tap))
  <2> DEFINE d == tap * Dilation
  <2>1. d \in 0 .. Width
    <3>1. tap \in Nat /\ Taps - 1 - tap \in Nat /\ Dilation \in Nat /\ Taps \in Nat
      BY ConvAssumption
    <3>2. d \in Nat /\ (Taps - 1 - tap) * Dilation \in Nat
      BY <3>1
    <3>3. (Taps - 1) * Dilation = d + (Taps - 1 - tap) * Dilation
      BY <3>1
    <3> HIDE DEF d
    <3> DEFINE r == (Taps - 1 - tap) * Dilation
    <3>4. Width = d + r /\ r \in Nat /\ d \in Nat
      BY <3>2, <3>3 DEF Width
    <3> HIDE DEF r
    <3> QED BY <1>3, <3>4
  <2>2. Source(t, tap) = t - Pad + d
    BY DEF Source
  <2> HIDE DEF d, u, o
  <2>3. CASE ~ node.in_place
    <3> DEFINE i == o + d
    <3>1. i \in 0 .. Length(k) - 1 + Width
      BY <1>1, <1>2, <1>3, <2>1
    <3>2. slots[runs].x[i] = Wanted(u - Pad + i)
      BY <1>1, <2>3, <3>1, LaunchedHolds DEF Holds, Setting, u
    <3>3. u - Pad + i = Source(t, tap)
      BY <1>1, <1>2, <1>3, <2>1, <2>2
    <3>4. TapReads(runs, o, tap) = slots[runs].x[i]
      BY <2>3 DEF TapReads, d
    <3> QED BY <3>2, <3>3, <3>4
  <2>4. CASE node.in_place
    <3>1. t = o /\ o \in Interior
      BY <1>2, <2>4 DEF Skipped, o
    <3> DEFINE c == Source(o, tap)
    <3>2. c \in 0 .. TIn - 1 /\ Source(t, tap) = c
      BY <3>1 DEF Interior
    <3> HIDE DEF c
    <3>3. c \in InputCells /\ c \in Cells /\ InputAt + c = c
      BY <3>2, Sizes DEF InputAt
    <3>4. ~ InTarget(c)
      BY <2>4, <3>3, TargetOverOperands
    <3>5. mem[c] = c
      BY <1>1, <2>4, <3>3, <3>4, QPUReads
    <3>6. TapReads(runs, o, tap) = mem[InputAt + c]
      BY <2>4 DEF TapReads, c
    <3> QED BY <3>2, <3>3, <3>5, <3>6 DEF Wanted
  <2> QED BY <2>3, <2>4
<1>5. ResidualReads(t) = Added(node, t)
  <2> HIDE DEF t
  <2>1. CASE node.residual = "input"
    <3>1. t \in InputCells /\ t \in Cells /\ InputAt + t = t /\ t - InputAt = t
      <4>1. TIn = TOut
        BY <2>1, TargetOverOperands
      <4> QED BY <1>2, <4>1, Sizes DEF InputAt
    <3>2. ~ (InTarget(t) /\ Made(t - Target))
      BY <1>2, <2>1, <3>1, TargetOverOperands
    <3>3. t \in OperandCells
      BY <2>1, <3>1 DEF OperandCells
    <3>4. mem[t] = t
      BY <1>1, <3>1, <3>2, <3>3, QPUReads
    <3> QED BY <2>1, <3>1, <3>4 DEF ResidualReads, Added
  <2>2. CASE node.residual = "row"
    <3> DEFINE c == ResidualAt + t
    <3>1. c \in ResidualCells /\ c \in Cells /\ c - ResidualAt = t
      BY <1>2, Sizes DEF ResidualCells, Row, ResidualAt
    <3> HIDE DEF c
    <3>2. ~ (InTarget(c) /\ Made(c - Target))
      BY <1>2, <2>2, <3>1, TargetOverOperands
    <3>3. c \in OperandCells /\ HoldsResidual(node)
      BY <2>2, <3>1 DEF OperandCells, HoldsResidual
    <3>4. mem[c] = c
      BY <1>1, <3>1, <3>2, <3>3, QPUReads
    <3> QED BY <2>2, <3>4 DEF ResidualReads, Added, c
  <2>3. CASE node.residual \notin {"input", "row"}
    BY <2>3 DEF ResidualReads
  <2> QED BY <2>1, <2>2, <2>3
<1> QED BY <1>1, <1>4, <1>5 DEF Computed

\* A QPU moves past one position, its own.
LEMMA ComputePasses ==
    ASSUME IInv, NEW q \in Q, Compute(q)
    PROVE  \A t \in 0 .. TOut - 1 : Passed(t)' <=> Passed(t) \/ t = k * Chunk + at[q]
<1> DEFINE u == k * Chunk
           o == at[q]
<1>1. UNCHANGED <<node, done, pc, k>> /\ at[q] # Idle
  BY DEF Compute
<1>2. /\ Staying /\ o \in Nat /\ o < Length(k) /\ OnTurn(q, o) /\ q \in Launched(k)
      /\ u \in Nat /\ Length(k) \in Nat /\ Turns \in Nat \ {0} /\ Launched(k) \subseteq Q
      /\ at' = [at EXCEPT ![q] = o + Turns]
  BY <1>1, Running, AtWork, LastChunk DEF Compute, Turns
<1>3. ASSUME NEW n \in Nat PROVE Past(n)' <=> Past(n) \/ n = o
  <2>1. ASSUME NEW p \in Launched(k), OnTurn(p, n)
        PROVE  (done[p] = k + 1 \/ (at'[p] # Idle /\ n < at'[p]))
               <=> (done[p] = k + 1 \/ (at[p] # Idle /\ n < at[p])) \/ (p = q /\ n = o)
    <3>1. p \in Q
      BY <1>2
    <3>2. CASE p # q
      BY <1>2, <3>1, <3>2, Known
    <3>3. CASE p = q
      <4>1. at'[q] = o + Turns /\ o + Turns # Idle
        BY <1>2, Known DEF Idle
      <4>2. n < o + Turns <=> n <= o
        BY <1>2, <2>1, <3>3, TurnsCover
      <4> QED BY <1>1, <1>2, <3>3, <4>1, <4>2
    <3> QED BY <3>2, <3>3
  <2>2. Past(n)' <=> \E p \in Launched(k) :
            OnTurn(p, n) /\ (done[p] = k + 1 \/ (at'[p] # Idle /\ n < at'[p]))
    BY <1>1, SameTurns DEF Past
  <2>3. Past(n) <=> \E p \in Launched(k) :
            OnTurn(p, n) /\ (done[p] = k + 1 \/ (at[p] # Idle /\ n < at[p]))
    BY DEF Past
  <2> QED BY <1>2, <2>1, <2>2, <2>3
<1>4. ASSUME NEW t \in 0 .. TOut - 1 PROVE Passed(t)' <=> Passed(t) \/ t = u + o
  <2>1. u' = u /\ Length(k)' = Length(k)
    BY <1>1, SameTurns
  <2>2. CASE t < u
    <3>1. Passed(t)' /\ Passed(t)
      BY <2>1, <2>2 DEF Passed
    <3> QED BY <3>1
  <2>3. CASE ~ (t < u)
    <3> HIDE DEF u, o
    <3>1. PICK n \in Nat : n = t - u
      BY <1>2, <2>3
    <3>2. Past(n)' <=> Past(n) \/ n = o
      BY <1>3
    <3>3. (t - k * Chunk)' = n /\ t - k * Chunk = n
      BY <2>1, <3>1 DEF u
    <3>4. Passed(t)' <=> t < u + Length(k) /\ Past(n)'
      BY <2>1, <2>3, <3>3 DEF Passed, Past, OnTurn, Turns, u
    <3>5. Passed(t) <=> t < u + Length(k) /\ Past(n)
      BY <2>3, <3>3 DEF Passed, u
    <3>6. n = o <=> t = u + o
      BY <1>2, <3>1
    <3>7. t = u + o => t < u + Length(k)
      BY <1>2
    <3> QED BY <3>2, <3>4, <3>5, <3>6, <3>7
  <2> QED BY <2>2, <2>3
<1> QED BY <1>4

LEMMA ComputeMem ==
    ASSUME IInv, InputOutlivesAct, NEW q \in Q, Compute(q)
    PROVE  MemOK'
<1> DEFINE n == k * Chunk + at[q]
           w == Target + n
<1>1. /\ UNCHANGED <<node, dirty, done, pc, k>> /\ at[q] # Idle
      /\ IF Skipped(at[q]) THEN UNCHANGED <<mem, stale>>
         ELSE mem' = [mem EXCEPT ![w] = Right(n)] /\ stale' = stale \cup {w}
  <2>1. slots[runs].chunk = k
    BY Running DEF Compute
  <2>2. Target + slots[runs].chunk * Chunk + at[q] = w
    <3>1. at[q] \in Nat /\ k * Chunk \in Nat /\ Target \in Nat
      BY Running, AtWork, Known, Sizes DEF Compute
    <3> QED BY <2>1, <3>1
  <2> QED BY <2>2, ComputesRight DEF Compute
<1>2. Staying /\ ~ Setting /\ pc # "done" /\ pc # "deliver"
  BY <1>1, Running DEF Setting, Staying
<1>3. /\ n \in 0 .. TOut - 1 /\ w \in Cells /\ InTarget(w) /\ w - Target = n
      /\ Theirs(n) <=> ~ Skipped(at[q])
  <2>1. n \in 0 .. TOut - 1 /\ (node.in_place => n = at[q])
    BY AtWork
  <2>2. Theirs(n) <=> ~ Skipped(at[q])
    BY <2>1 DEF Theirs, Skipped
  <2> HIDE DEF n
  <2>3. InTarget(w) /\ w \in Cells
    BY <2>1, TargetCells
  <2>4. w - Target = n
    BY <2>1, Known, Sizes
  <2> QED BY <2>1, <2>2, <2>3, <2>4
<1>4. \A t \in 0 .. TOut - 1 : Made(t)' <=> Made(t) \/ (t = n /\ Theirs(n))
  BY <1>1, <1>2, ComputePasses, SameNode DEF Made, Setting, Staying
<1>5. \A c \in dirty' : ~ Cleaned(c)'
  BY <1>1, <1>2, SameNode DEF IInv, MemOK, Cleaned, Setting
<1>6. CASE Skipped(at[q])
  <2>1. \A t \in 0 .. TOut - 1 : Made(t)' <=> Made(t)
    BY <1>3, <1>4, <1>6
  <2> QED BY <1>1, <1>2, <1>5, <1>6, <2>1, MemStep
<1>7. CASE ~ Skipped(at[q])
  <2> HIDE DEF n, w
  <2>1. \A c : InTarget(c) => (Made(c - Target)' <=> Made(c - Target) \/ c = w)
    <3> SUFFICES ASSUME NEW c, InTarget(c)
                 PROVE  Made(c - Target)' <=> Made(c - Target) \/ c = w
      OBVIOUS
    <3>1. PICK t \in 0 .. TOut - 1 : t = c - Target
      BY TargetCells
    <3>2. (c - Target)' = t
      BY <1>1, <3>1, SameNode
    <3>3. t = n <=> c = w
      <4>1. c \in Int /\ Target \in Int /\ n \in Int
        BY <1>3, Known, TargetCells, Sizes
      <4> QED BY <3>1, <4>1 DEF w
    <3> QED BY <1>3, <1>4, <1>7, <3>1, <3>2, <3>3 DEF Made, Theirs, Passed, Past, OnTurn, Turns
  <2>2. \A c \in Cells : Cell(c)' = IF c = w THEN Right(n) ELSE Cell(c)
    BY <1>1, <1>3, <2>1, SameNode DEF Cell, Right
  <2>3. w \notin dirty
    BY <1>2, <1>3 DEF IInv, MemOK, Cleaned, Setting
  <2>4. \A c \in Cells : c \in dirty' \/ mem'[c] = Cell(c)'
    BY <1>1, <1>2, <1>3, <1>7, <2>2, <2>3, Known DEF IInv, MemOK
  <2>5. \A c \in stale' : (InTarget(c) /\ Made(c - Target) /\ pc # "deliver")'
    BY <1>1, <1>2, <1>3, <1>7, <2>1, SameNode DEF IInv, MemOK
  <2> QED BY <1>5, <2>4, <2>5 DEF MemOK
<1> QED BY <1>6, <1>7

\* What the host reads once the QPUs' cells are its own again.
LEMMA HostReadsCell ==
    ASSUME IInv, pc # "done", NEW c \in Cells, c \notin stale
    PROVE  HostReads(c) = Cell(c)
<1>1. c \in dirty \/ mem[c] = Cell(c)
  BY DEF IInv, MemOK
<1>2. c \in dirty => Cell(c) = Before(node, c)
  BY DirtyBefore
<1> QED BY <1>1, <1>2 DEF HostReads

\* The result's lines are dropped, and the edges a kernel read in place leaves are made.
LEMMA FinishMem ==
    ASSUME IInv, InputOutlivesAct, Finish
    PROVE  MemOK'
<1>1. /\ pc = "finish" /\ pc' = "deliver" /\ stale' = stale \ Row(Target, TOut)
      /\ UNCHANGED <<node, dirty>>
  BY DEF Finish
<1>2. \A t : (Made(t) <=> Theirs(t)) /\ Made(t)'
  BY <1>1 DEF Made, Setting, Staying
<1>3. stale' = {}
  BY <1>1 DEF IInv, MemOK, InTarget
<1>4. \A c \in dirty' : ~ Cleaned(c)'
  BY <1>1, SameNode DEF IInv, MemOK, Cleaned, Setting
<1>5. \A c : Cell(c)' = IF InTarget(c) THEN Right(c - Target) ELSE Before(node, c)
  <2>1. \A c : (InTarget(c)' <=> InTarget(c)) /\ Before(node, c)' = Before(node, c)
               /\ Target' = Target
    BY <1>1, SameNode
  <2>2. \A c : Made(c - Target)'
    BY <1>1 DEF Made, Setting, Staying
  <2> QED BY <2>1, <2>2 DEF Cell, Right
<1>6. ASSUME node.in_place, NEW i \in 0 .. TIn - 1 PROVE HostReads(InputAt + i) = Wanted(i)
  <2>1. i \in InputCells /\ i \in Cells /\ InputAt + i = i
    BY Sizes DEF InputAt
  <2>2. ~ InTarget(i)
    BY <1>6, <2>1, TargetOverOperands
  <2>3. i \notin stale
    BY <1>1, <2>2 DEF IInv, MemOK
  <2>4. HostReads(i) = i
    BY <1>1, <2>1, <2>2, <2>3, HostReadsCell DEF Cell, Before
  <2> QED BY <2>1, <2>4 DEF Wanted
<1>7. ASSUME NEW c \in Cells PROVE c \in dirty' \/ mem'[c] = Cell(c)'
  <2> DEFINE t == c - Target
  <2>1. c \in dirty \/ mem[c] = Cell(c)
    BY <1>1 DEF IInv, MemOK
  <2>2. InTarget(c) <=> t \in 0 .. TOut - 1
    BY TargetCells
  <2>3. CASE ~ node.in_place
    <3>1. mem' = mem /\ Cell(c) = Cell(c)'
      BY <1>1, <1>2, <1>5, <2>3 DEF Finish, Cell, Theirs
    <3> QED BY <1>1, <2>1, <3>1
  <2>4. CASE node.in_place /\ InTarget(c) /\ t \notin Interior
    <3>1. mem'[c] = IF \A tap \in 0 .. Taps - 1 :
                          \/ Source(t, tap) \notin 0 .. TIn - 1
                          \/ HostReads(InputAt + Source(t, tap)) = Wanted(Source(t, tap))
                    THEN Right(t) ELSE Junk
      BY <2>2, <2>4 DEF Finish
    <3>2. mem'[c] = Right(t)
      BY <1>6, <2>4, <3>1
    <3> QED BY <1>5, <2>4, <3>2
  <2>5. CASE node.in_place /\ ~ (InTarget(c) /\ t \notin Interior)
    <3>1. mem'[c] = mem[c]
      BY <2>2, <2>5 DEF Finish
    <3>2. Cell(c)' = Cell(c)
      BY <1>2, <1>5, <2>5 DEF Cell, Theirs
    <3> QED BY <1>1, <2>1, <3>1, <3>2
  <2> QED BY <2>3, <2>4, <2>5
<1> QED BY <1>1, <1>3, <1>4, <1>7 DEF MemOK

LEMMA MemStays ==
    ASSUME IInv, InputOutlivesAct, [ConvNext]_convVars
    PROVE  MemOK'
<1>1. CASE pc' = "done"
  BY <1>1 DEF MemOK
<1>2. CASE pc' # "done"
  <2>1. CASE Host
    <3>1. ~ Deliver
      BY <1>2 DEF Deliver
    <3> QED BY <2>1, <3>1, SetUpMem, PrepareAheadMem, BetweenMem, DrainMem, FinishMem DEF Host
  <2>2. CASE LauncherThread \/ Evict \/ UNCHANGED convVars
    <3>1. pc # "done"
      BY <1>2, <2>2 DEF LauncherThread, TakeCall, StartQPUs, ReturnCall, Evict, convVars
    <3> QED BY <2>2, <3>1, LauncherMem
  <2>3. ASSUME NEW q \in Q, QPU(q) PROVE MemOK'
    BY <2>3, ComputeMem, MarkDoneMem DEF QPU
  <2> QED BY <2>1, <2>2, <2>3 DEF ConvNext
<1> QED BY <1>1, <1>2

\* At the end every position of the result is right where the graph looks for it, and what
\* else it can see is as it was.
LEMMA Delivered ==
    ASSUME IInv, InputOutlivesAct, Deliver, NEW c \in Seen
    PROVE  HostReads(c)' = IF c \in Row(node.out, TOut) THEN Right(c - node.out)
                                                       ELSE Before(node, c)
<1>1. /\ pc = "deliver" /\ UNCHANGED <<node, stale>>
      /\ IF Target = node.out THEN UNCHANGED <<mem, dirty>>
         ELSE /\ mem' = [e \in Cells |-> IF e \in Row(node.out, TOut)
                                         THEN HostReads(Target + e - node.out) ELSE mem[e]]
              /\ dirty' = dirty \ Row(node.out, TOut)
  BY DEF Deliver
<1>2. /\ node.out \in 0 .. FreeAt /\ Target \in 0 .. FreeAt /\ FreeAt \in Nat
      /\ TOut \in Nat \ {0} /\ TIn \in Nat \ {0} /\ OwnAt = TIn + TOut /\ FreeAt = TIn + 2 * TOut
      /\ Cells = 0 .. FreeAt + TOut - 1
  BY Known, Places, Sizes
<1>3. c \in Cells
  BY <1>2 DEF Seen, InputCells, ResidualCells, ResidualAt, InputAt, Row
<1>4. stale = {} /\ stale' = {}
  BY <1>1 DEF IInv, MemOK
<1>5. \A e \in Cells : HostReads(e) = Cell(e)
  BY <1>1, <1>4, HostReadsCell
<1>6. \A e : Cell(e) = IF InTarget(e) THEN Right(e - Target) ELSE Before(node, e)
  BY <1>1 DEF Cell, Made, Setting, Staying
<1>7. HostReads(c)' = IF c \in dirty' THEN Before(node, c) ELSE mem'[c]
  BY <1>1, <1>4 DEF HostReads, Before, HoldsResidual
<1>8. HostReads(c) = IF c \in dirty THEN Before(node, c) ELSE mem[c]
  BY <1>4 DEF HostReads
<1>9. CASE Target = node.out
  <2>1. HostReads(c)' = Cell(c)
    BY <1>1, <1>3, <1>5, <1>7, <1>8, <1>9
  <2> QED BY <1>6, <1>9, <2>1 DEF InTarget
<1>10. CASE Target # node.out
  <2>1. CASE c \in Row(node.out, TOut)
    <3> DEFINE e == Target + c - node.out
    <3>1. c - node.out \in 0 .. TOut - 1
      BY <1>2, <2>1 DEF Row
    <3>2. e \in Cells /\ InTarget(e) /\ e - Target = c - node.out
      <4> DEFINE t == c - node.out
      <4>1. t \in 0 .. TOut - 1 /\ e = Target + t
        BY <1>2, <3>1
      <4> HIDE DEF t, e
      <4>2. InTarget(Target + t) /\ e \in Cells /\ e - Target = t
        BY <1>2, <4>1, TargetCells
      <4> QED BY <4>1, <4>2 DEF t
    <3>3. mem'[c] = HostReads(e) /\ c \notin dirty'
      BY <1>1, <1>3, <1>10, <2>1
    <3> HIDE DEF e
    <3> QED BY <1>5, <1>6, <1>7, <2>1, <3>2, <3>3
  <2>2. CASE c \notin Row(node.out, TOut)
    <3>1. ~ InTarget(c)
      <4>1. Target = OwnAt
        BY <1>10, TargetOverOperands
      <4>2. c \in 0 .. TIn + TOut - 1
        BY <1>2, <2>2 DEF Seen, InputCells, ResidualCells, ResidualAt, InputAt, Row
      <4> QED BY <1>2, <4>1, <4>2 DEF InTarget, Row
    <3>2. HostReads(c)' = HostReads(c)
      BY <1>1, <1>3, <1>7, <1>8, <1>10, <2>2
    <3> QED BY <1>3, <1>5, <1>6, <2>2, <3>1, <3>2
  <2> QED BY <2>1, <2>2
<1> QED BY <1>9, <1>10

\* After it nothing moves.
LEMMA NothingAfter ==
    ASSUME IInv, pc = "done", [ConvNext]_convVars
    PROVE  UNCHANGED <<node, mem, dirty, stale, pc>>
<1>1. ~ Host
  BY DEF Host, SetUp, PrepareAhead, WriteControl, StartCall, PrepareNext, SeeMarkers, Drain,
         Finish, Deliver
<1>2. ~ pending /\ calling = "asleep" /\ \A q \in Q : at[q] = Idle
  BY DEF IInv, HandshakeOK, RunsOK, Staying
<1>3. ~ LauncherThread /\ ~ Evict /\ \A q \in Q : ~ QPU(q)
  BY <1>2 DEF LauncherThread, TakeCall, StartQPUs, ReturnCall, Evict, QPU, Compute, MarkDone
<1> QED BY <1>1, <1>3 DEF ConvNext, convVars

-----------------------------------------------------------------------------
(* The theorems *)

LEMMA TypeInit == ConvInit => TypeInv
<1> SUFFICES ASSUME ConvInit PROVE TypeInv
  OBVIOUS
<1>1. Chunks \in Nat \ {0}
  BY ChunksFit DEF ConvInit
<1>2. StagedInPlace \in [Window -> Int] /\ NoSlot = [chunk |-> 0, seq |-> 0, x |-> StagedInPlace]
  BY DEF StagedInPlace, Window, Width, Junk, NoSlot
<1>3. /\ slots = [s \in 0 .. StageSlots - 1 |-> NoSlot] /\ NoSlot \in Staging
      /\ NoSlot.chunk = 0 /\ 0 \in 0 .. StageSlots - 1
  BY <1>2 DEF Staging, ConvInit, StageSlots
<1>4. mem \in [Cells -> Int]
  <2>1. Cells \subseteq Int /\ Junk \in Int
    BY Sizes DEF Junk
  <2>2. \A c \in Cells : Before(node, c) \in Int
    BY <2>1 DEF Before
  <2> QED BY <2>1, <2>2 DEF ConvInit
<1>5. slots \in [0 .. StageSlots - 1 -> Staging] /\ \A s \in 0 .. StageSlots - 1 : slots[s].chunk = 0
  BY <1>3
<1>6. ConvTypeOK
  BY <1>3, <1>4, <1>5 DEF ConvInit, ConvTypeOK, Staging, Window, Width
<1> QED BY <1>1, <1>5, <1>6 DEF TypeInv, ConvInit

LEMMA TypeNext == TypeInv /\ [ConvNext]_convVars => TypeInv'
<1> SUFFICES ASSUME TypeInv, [ConvNext]_convVars PROVE TypeInv'
  OBVIOUS
<1>1. CASE UNCHANGED convVars
  <2>1. UNCHANGED <<node, slots, pc, k>> /\ Chunks' = Chunks
    BY <1>1 DEF convVars, Chunks
  <2>2. ConvTypeOK'
    BY <1>1 DEF convVars, ConvTypeOK, TypeInv
  <2> QED BY <2>1, <2>2 DEF TypeInv
<1>2. CASE Host
  BY <1>2, TypeHost
<1>3. CASE LauncherThread \/ (\E q \in Q : QPU(q)) \/ Evict
  BY <1>3, TypeOthers
<1> QED BY <1>1, <1>2, <1>3 DEF ConvNext

\* Every state of a convolution has its type: every cell, slot and done word stays where
\* it is, whatever the sizes (conv_f32_run, the kernels' programs).
THEOREM ConvTypeCorrect == ConvSpec => []ConvTypeOK
<1>1. TypeInv => ConvTypeOK
  BY DEF TypeInv
<1> QED BY <1>1, TypeInit, TypeNext, PTL DEF ConvSpec

\* The host does not touch the control list while a call that may not have read it is
\* out (launch_start, launch_wait).
THEOREM ControlListStays == ConvSpec => ControlListStable
<1>1. ConvInit => HandshakeOK
  BY DEF ConvInit, HandshakeOK
<1>2. HandshakeOK /\ [ConvNext]_convVars => [pending => ctrl' = ctrl]_convVars
  <2> SUFFICES ASSUME HandshakeOK, ConvNext, pending PROVE ctrl' = ctrl
    OBVIOUS
  <2>1. ~ WriteControl
    BY DEF HandshakeOK, WriteControl
  <2>2. CASE Host
    BY <2>1, <2>2 DEF Host, SetUp, PrepareAhead, ViewInput, StageChunk, StartCall,
                      PrepareNext, SeeMarkers, Drain, Finish, Deliver
  <2>3. CASE LauncherThread
    BY <2>3 DEF LauncherThread, TakeCall, StartQPUs, ReturnCall
  <2>4. ASSUME NEW q \in Q, QPU(q) PROVE ctrl' = ctrl
    BY <2>4 DEF QPU, Compute, MarkDone
  <2>5. CASE Evict
    BY <2>5 DEF Evict
  <2> QED BY <2>2, <2>3, <2>4, <2>5 DEF ConvNext
<1> QED BY <1>1, <1>2, HandshakeInv, PTL DEF ConvSpec, ControlListStable

\* Before the first launch nothing is staged, no QPU runs and the input is whole.
LEMMA RunsInit == ConvInit => RunsOK
<1> SUFFICES ASSUME ConvInit PROVE StagedOK /\ LaunchOK /\ TurnOK /\ DrainOK
  BY DEF RunsOK, ConvInit, Staying
<1>1. Chunks \in Nat \ {0} /\ pc = "setup" /\ k = 0
  BY ChunksFit DEF ConvInit
<1>2. StagedOK
  BY <1>1 DEF ConvInit, StagedOK, Prepared, First, Setting
<1>3. LaunchOK
  BY <1>1 DEF ConvInit, LaunchOK, Setting, Launching, Started
<1>4. TurnOK /\ DrainOK
  BY <1>1 DEF ConvInit, TurnOK, DrainOK
<1> QED BY <1>2, <1>3, <1>4

LEMMA MemInit == ConvInit => MemOK
<1> SUFFICES ASSUME ConvInit PROVE MemOK
  OBVIOUS
<1>1. pc = "setup" /\ stale = {} /\ mem = [c \in Cells |-> IF c \in dirty THEN Junk
                                                        ELSE Before(node, c)]
  BY DEF ConvInit
<1>2. \A c : Cell(c) = Before(node, c) /\ ~ Cleaned(c)
  BY <1>1 DEF Cell, Made, Cleaned, Setting
<1> QED BY <1>1, <1>2 DEF MemOK

LEMMA IInvInit == ConvInit => IInv
BY TypeInit, RunsInit, MemInit DEF IInv, ConvInit, HandshakeOK

LEMMA IInvNext == InputOutlivesAct /\ IInv /\ [ConvNext]_convVars => IInv'
BY TypeNext, HandshakeInv, RunsStep, MemStays DEF IInv

LEMMA StagedFollows == IInv => StagedIsInput
<1> SUFFICES ASSUME IInv, ~ node.in_place, NEW j \in PreparedChunks
             PROVE  /\ slots[Slot(j)].chunk = j
                    /\ \A i \in 0 .. Length(j) - 1 + (Taps - 1) * Dilation :
                         slots[Slot(j)].x[i] = Wanted(j * Chunk - Pad + i)
  BY DEF StagedIsInput
<1>1. pc \in {"launch", "start", "stage", "wait"}
  BY DEF PreparedChunks
<1>2. StagedOK /\ First = k /\ Prepared = Smaller(Chunks, IF pc = "wait" THEN k + 3 ELSE k + 2)
  BY <1>1 DEF IInv, RunsOK, Staying, First, Setting, Prepared
<1>3. j \in First .. Prepared - 1
  BY <1>1, <1>2, Known DEF PreparedChunks, Ahead
<1> QED BY <1>2, <1>3 DEF StagedOK, Holds, Width

\* What waits in a slot to be computed, or is being computed, is the input as it was
\* before the node, for every row, chunk, taps, dilation, padding of at most a chunk and
\* number of QPUs, where the allocator kept the input (conv_run's left halo).
THEOREM StagedStaysInput == InputOutlivesAct => (ConvSpec => []StagedIsInput)
<1> SUFFICES ASSUME InputOutlivesAct PROVE ConvSpec => []StagedIsInput
  OBVIOUS
<1>1. IInv /\ [ConvNext]_convVars => IInv'
  BY IInvNext
<1> QED BY <1>1, IInvInit, StagedFollows, PTL DEF ConvSpec

\* What the refinement gives ConvolvedOnce's variables.
InTheGraph == <<[c \in Seen |-> IF pc = "done" THEN HostReads(c) ELSE Before(node, c)],
                node.out, TOut, IF pc = "done" THEN "done" ELSE "asked">>

\* The graph's view moves once, when the host delivers.
LEMMA ConvolvesStep ==
    ASSUME IInv, InputOutlivesAct, [ConvNext]_convVars
    PROVE  [Once!Convolve]_InTheGraph
<1> DEFINE view == [c \in Seen |-> IF pc = "done" THEN HostReads(c) ELSE Before(node, c)]
           stage == IF pc = "done" THEN "done" ELSE "asked"
<1>1. node' = node
  BY DEF ConvNext, Host, SetUp, PrepareAhead, ViewInput, StageChunk, WriteControl, StartCall,
         PrepareNext, SeeMarkers, Drain, Finish, Deliver, LauncherThread, TakeCall, StartQPUs,
         ReturnCall, QPU, Compute, MarkDone, Evict, convVars
<1>2. Seen' = Seen /\ (node.out)' = node.out /\ TOut' = TOut
      /\ \A c : Before(node, c)' = Before(node, c)
  BY <1>1 DEF Seen, HoldsResidual, Before
<1>3. CASE pc = "done"
  <2>1. UNCHANGED <<node, mem, dirty, stale, pc>>
    BY <1>3, NothingAfter
  <2>2. \A c : HostReads(c)' = HostReads(c)
    BY <1>2, <2>1 DEF HostReads
  <2>3. view' = view /\ stage' = stage
    BY <1>2, <2>1, <2>2
  <2> QED BY <1>2, <2>3 DEF InTheGraph
<1>4. CASE pc # "done" /\ pc' # "done"
  <2>1. view' = view /\ stage' = stage
    BY <1>2, <1>4
  <2> QED BY <1>2, <2>1 DEF InTheGraph
<1>5. CASE pc # "done" /\ pc' = "done"
  <2>1. Deliver
    BY <1>5 DEF ConvNext, Host, SetUp, PrepareAhead, WriteControl, StartCall, PrepareNext,
                SeeMarkers, Drain, NextChunk, Finish, LauncherThread, TakeCall, StartQPUs,
                ReturnCall, QPU, Compute, MarkDone, Evict, convVars
  <2>2. \A c \in Seen : HostReads(c)' = IF c \in Row(node.out, TOut) THEN Right(c - node.out)
                                                                    ELSE Before(node, c)
    BY <2>1, Delivered
  <2>3. stage = "asked" /\ stage' = "done" /\ DOMAIN view = Seen
        /\ \A c \in Seen : view[c] = Before(node, c)
    BY <1>5
  <2>4. view' = [c \in Seen |-> HostReads(c)']
    BY <1>2, <1>5
  <2>5. view' = [c \in DOMAIN view |->
                   IF c \in node.out .. node.out + TOut - 1 THEN Right(c - node.out)
                                                            ELSE view[c]]
    BY <2>2, <2>3, <2>4 DEF Row
  <2> QED BY <1>2, <1>5, <2>5 DEF Once!Convolve
<1> QED BY <1>3, <1>4, <1>5

\* The host, the launcher's thread and the QPUs together are one convolution: the graph's
\* memory goes from the operands to the result in one step, every position right and
\* nothing beside the result changed, for every row, chunk, taps, dilation, padding of at
\* most a chunk and number of QPUs, where the allocator kept the input (conv_run).
THEOREM ConvolvesOnce == InputOutlivesAct => (ConvSpec => ImplementsOnce)
<1> SUFFICES ASSUME InputOutlivesAct PROVE ConvSpec => ImplementsOnce
  OBVIOUS
<1>1. ConvInit => Once!OnceInit
  BY DEF ConvInit, Once!OnceInit
<1>2. IInv /\ [ConvNext]_convVars => IInv'
  BY IInvNext
<1>3. IInv /\ [ConvNext]_convVars
      => [Once!Convolve]_InTheGraph
  BY ConvolvesStep
<1> QED BY <1>1, <1>2, <1>3, IInvInit, PTL DEF ConvSpec, ImplementsOnce, Once!OnceSpec,
                                               InTheGraph
=============================================================================
