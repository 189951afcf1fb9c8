------------------------------ MODULE Vc4Conv -------------------------------
(***************************************************************************)
(* One convolution on the QPUs: conv_run and conv_f32_run on the host, the *)
(* Launcher's thread, which makes the mailbox call, and the QPUs.  Three   *)
(* parties share the pool's memory through a cache only the host has.      *)
(*                                                                         *)
(* A row of the input, of a residual and of the result stands for all of a *)
(* tensor's rows; a value names what it is, so that a wrong one shows.     *)
(* Addresses are cells: the input, the residual, the convolution's own     *)
(* tensor and a free stretch, TOut or TIn cells each.  The bias and the    *)
(* mask, which the result never overlaps, and the weights are left out.    *)
(***************************************************************************)
EXTENDS Integers, FiniteSets

CONSTANTS TOut,             \* positions of the result
          Chunk,            \* positions a launch computes
          Taps, Dilation, Pad,
          QPUs,             \* how many QPUs a launch may use
          InputOutlivesAct  \* a folded LEAKY_RELU's input is still held when the
                            \* allocator places the convolution (see Placed)

ASSUME ConvAssumption ==
    /\ {TOut, Chunk, Taps, Dilation, QPUs} \subseteq Nat \ {0}
    /\ Pad \in Nat /\ Chunk <= TOut
    /\ TOut + (Taps - 1) * Dilation > 2 * Pad
    /\ InputOutlivesAct \in BOOLEAN

\* conv_f32_run: GGML_ASSERT(in_place || chunk >= c.p)
ASSUME ChunkCoversPadding == Pad <= Chunk

VARIABLES
    node,           \* where the result goes and what is folded into the convolution
    mem,            \* the pool's memory, as a QPU reads it
    dirty,          \* cells whose value is still only in the host's cache
    stale,          \* cells a QPU wrote since the host's cache last dropped them
    slots,          \* what is staged: arena slots and the uniform streams beside them
    seq,            \* Runtime::seq
    done,           \* the done word of each QPU
    ctrl,           \* the slot the control list launches
    runs,           \* the slot whose uniform streams the QPUs run
    pending,        \* Launcher::pending_
    calling,        \* where the launcher thread is
    at,             \* the offset each QPU computes next; -1 one that runs nothing
    pc, k           \* where conv_f32_run is, and its chunk

convVars == <<node, mem, dirty, stale, slots, seq, done, ctrl, runs, pending, calling, at, pc, k>>

-----------------------------------------------------------------------------
(* Geometry and values *)

TIn == TOut + (Taps - 1) * Dilation - 2 * Pad

InputAt == 0
ResidualAt == TIn
OwnAt == ResidualAt + TOut      \* where the convolution's tensor is, as a rule
FreeAt == OwnAt + TOut
Cells == 0 .. FreeAt + TOut - 1

Q == 0 .. QPUs - 1

Row(first, n) == first .. first + n - 1
InputCells == Row(InputAt, TIn)
ResidualCells == Row(ResidualAt, TOut)

Zero == -1
Junk == -2
Idle == -1
Right(t) == FreeAt + TOut + t

\* What a cell holds before the node runs: an operand, or nothing of interest.
HoldsResidual(n) == n.residual = "row"
Before(n, c) == IF c \in InputCells \/ (HoldsResidual(n) /\ c \in ResidualCells)
                THEN c ELSE Junk

\* The input position a tap of the result's position t reads; padding is zero.
Source(t, tap) == t - Pad + tap * Dilation
Wanted(i) == IF i \in 0 .. TIn - 1 THEN InputAt + i ELSE Zero

\* The residual's value at t (RES of the host: staged from memory out of the pool).
Added(n, t) == CASE n.residual = "input" -> InputAt + t
                 [] n.residual = "row"   -> ResidualAt + t
                 [] n.residual = "host"  -> ResidualAt + t
                 [] OTHER -> Zero

Chunks == IF node.in_place THEN 1 ELSE (TOut + Chunk - 1) \div Chunk

\* VC4_STAGE_SLOTS, and how far ahead of the launched chunk the host stages.
StageSlots == 3
OneAhead == 1       \* Fault: the chunk after the launched one is staged while it runs.
Ahead == 2
Slot(j) == j % StageSlots

Smaller(a, b) == IF a <= b THEN a ELSE b
LengthUncut(j) == IF node.in_place THEN TOut ELSE Chunk    \* Fault: the last is as long.
Length(j) == IF node.in_place THEN TOut ELSE Smaller(Chunk, TOut - j * Chunk)

\* conv1d_interior: the positions whose every tap reads the input.
Interior == {t \in 0 .. TOut - 1 : \A tap \in 0 .. Taps - 1 :
                Source(t, tap) \in 0 .. TIn - 1}

-----------------------------------------------------------------------------
(* Where the result may be: fusion_at, the allocator, conv_run *)

Overlaps(a, n, b, m) == a < b + m /\ b < a + n
SameMemory(a, n, b, m) == a = b /\ n = m

\* The allocator keeps the result off what the node's own operands still hold, except
\* exactly over one; the input is dead by then unless it is the residual too.  What it
\* keeps the convolution's tensor off is the LEAKY_RELU's result where one is folded in:
\* the unary's input, which conv_run stages instead, is as good as dead when nothing else
\* reads it and the unary was not computed in place.
Placed(n) ==
    /\ n.own # OwnAt => n.act /\ ~ InputOutlivesAct /\ n.residual \in {"none", "host"}
    /\ \/ n.out = n.own
       \/ ~ Overlaps(n.out, TOut, n.own, TOut)
    /\ n.residual = "row" =>
         \/ ~ Overlaps(n.out, TOut, ResidualAt, TOut)
         \/ n.out = ResidualAt
    /\ n.residual = "input" =>
         /\ TIn = TOut
         /\ \/ ~ Overlaps(n.out, TOut, InputAt, TIn)
            \/ n.out = InputAt
    \* read in place only with nothing folded in: the result is the convolution's own
    /\ n.in_place => n.out = n.own /\ n.residual = "none" /\ ~ n.act

Nodes == {n \in [out : 0 .. FreeAt, own : {InputAt, InputAt + 1, OwnAt},
                 residual : {"none", "input", "row", "host"},
                 act : BOOLEAN, in_place : BOOLEAN] : Placed(n)}

\* Fault: any overlap with the input is taken, not only the input exactly.
DirectOverInput(n) ==
    \/ n.out = n.own
    \/ n.residual = "row" =>
         \/ ~ Overlaps(n.out, TOut, ResidualAt, TOut)
         \/ SameMemory(n.out, TOut, ResidualAt, TOut)

Direct(n) ==
    \/ n.out = n.own
    \/ /\ \/ ~ Overlaps(n.out, TOut, InputAt, TIn)
          \/ SameMemory(n.out, TOut, InputAt, TIn)
       /\ n.residual = "row" =>
            \/ ~ Overlaps(n.out, TOut, ResidualAt, TOut)
            \/ SameMemory(n.out, TOut, ResidualAt, TOut)

Target == IF Direct(node) THEN node.out ELSE node.own

-----------------------------------------------------------------------------
(* The host's cache *)

\* What the host reads: a line of its own before the memory, and nothing to rely on
\* where a QPU has written behind its cache.
HostReads(c) == CASE c \in stale -> Junk
                  [] c \in dirty -> Before(node, c)
                  [] OTHER -> mem[c]

\* clean and flush write the host's lines back; an eviction does too, whenever it likes.
WrittenBack(cells) == [c \in Cells |-> IF c \in cells \cap dirty THEN Before(node, c)
                                                                 ELSE mem[c]]

Evict ==
    /\ dirty # {} /\ pc # "done"
    /\ mem' = WrittenBack(Cells) /\ dirty' = {}
    /\ UNCHANGED <<node, stale, slots, seq, done, ctrl, runs, pending, calling, at, pc, k>>

-----------------------------------------------------------------------------
(* conv_f32_run *)

\* A residual in the pool is cleaned for the QPUs, the result's lines are flushed.
OperandCells == CASE node.residual = "input" -> InputCells
                  [] node.residual = "row"   -> ResidualCells
                  [] OTHER -> {}

\* Fault: the result keeps its dirty lines.
SetUpUnflushed ==
    /\ pc = "setup" /\ pc' = "ahead" /\ k' = 0
    /\ mem' = WrittenBack(OperandCells)
    /\ dirty' = dirty \ OperandCells
    /\ UNCHANGED <<node, stale, slots, seq, done, ctrl, runs, pending, calling, at>>

SetUp ==
    /\ pc = "setup" /\ pc' = "ahead" /\ k' = 0
    /\ mem' = WrittenBack(OperandCells \cup Row(Target, TOut))
    /\ dirty' = dirty \ (OperandCells \cup Row(Target, TOut))
    /\ UNCHANGED <<node, stale, slots, seq, done, ctrl, runs, pending, calling, at>>

\* stage_rows: the chunk's window and halo, zero outside the input; then cleaned.
Staged(j) == [i \in 0 .. Chunk - 1 + (Taps - 1) * Dilation |->
                LET x == j * Chunk - Pad + i
                IN  IF i >= Length(j) + (Taps - 1) * Dilation THEN Junk
                    ELSE IF x \in 0 .. TIn - 1 THEN HostReads(InputAt + x) ELSE Zero]

StagedInPlace == [i \in 0 .. Chunk - 1 + (Taps - 1) * Dilation |-> Junk]

StageChunk(j) ==
    /\ seq' = seq + 1
    /\ slots' = [slots EXCEPT ![Slot(j)] = [chunk |-> j, seq |-> seq + 1, x |-> Staged(j)]]
    /\ UNCHANGED <<node, mem, dirty, stale, done, ctrl, runs, pending, calling, at>>

\* Read in place, the input is cleaned and nothing staged.
ViewInput ==
    /\ seq' = seq + 1
    /\ slots' = [slots EXCEPT ![Slot(k)] = [chunk |-> k, seq |-> seq + 1, x |-> StagedInPlace]]
    /\ mem' = WrittenBack(InputCells) /\ dirty' = dirty \ InputCells
    /\ UNCHANGED <<node, stale, done, ctrl, runs, pending, calling, at>>

\* for (int k = 0; k < std::min(nchunks, 2); k++) prepare(k);
PrepareAhead ==
    /\ pc = "ahead"
    /\ IF node.in_place THEN ViewInput ELSE StageChunk(k)
    /\ IF k + 1 < Smaller(Chunks, Ahead) THEN k' = k + 1 /\ pc' = pc
                                         ELSE k' = 0 /\ pc' = "launch"

\* launch_start writes the control list, then Launcher::start hands the call over.
WriteControl ==
    /\ pc = "launch" /\ pc' = "start"
    /\ ctrl' = Slot(k)
    /\ UNCHANGED <<node, mem, dirty, stale, slots, seq, done, runs, pending, calling, at, k>>

StartCall ==
    /\ pc = "start" /\ ~ pending
    /\ pending' = TRUE
    /\ pc' = IF k + Ahead < Chunks THEN "stage" ELSE "wait"
    /\ UNCHANGED <<node, mem, dirty, stale, slots, seq, done, ctrl, runs, calling, at, k>>

PrepareNext ==
    /\ pc = "stage" /\ pc' = "wait"
    /\ StageChunk(k + Ahead)
    /\ UNCHANGED k

Launched(j) == 0 .. Smaller(QPUs, Length(j)) - 1

\* launch_wait: every done marker, then the mailbox call.
SeeMarkers ==
    /\ pc = "wait" /\ pc' = "drain"
    /\ \A q \in Launched(k) : done[q] = slots[Slot(k)].seq
    /\ UNCHANGED <<node, mem, dirty, stale, slots, seq, done, ctrl, runs, pending, calling, at, k>>

NextChunk == IF k + 1 < Chunks THEN k' = k + 1 /\ pc' = "launch"
                               ELSE k' = k /\ pc' = "finish"

\* Fault: the markers are enough.
NeverDrain ==
    /\ pc = "drain"
    /\ NextChunk
    /\ UNCHANGED <<node, mem, dirty, stale, slots, seq, done, ctrl, runs, pending, calling, at>>

Drain ==
    /\ pc = "drain" /\ ~ pending
    /\ NextChunk
    /\ UNCHANGED <<node, mem, dirty, stale, slots, seq, done, ctrl, runs, pending, calling, at>>

\* invalidate; read in place, the host computes the edges the QPUs left.
Finish ==
    /\ pc = "finish" /\ pc' = "deliver"
    /\ stale' = stale \ Row(Target, TOut)
    /\ mem' = IF ~ node.in_place THEN mem
              ELSE [c \in Cells |->
                      LET t == c - Target
                      IN  IF t \in (0 .. TOut - 1) \ Interior
                          THEN IF \A tap \in 0 .. Taps - 1 :
                                    \/ Source(t, tap) \notin 0 .. TIn - 1
                                    \/ HostReads(InputAt + Source(t, tap))
                                         = Wanted(Source(t, tap))
                               THEN Right(t) ELSE Junk
                          ELSE mem[c]]
    /\ UNCHANGED <<node, dirty, slots, seq, done, ctrl, runs, pending, calling, at, k>>

\* if (target != out) memmove(out->data, target->data, ggml_nbytes(out));
Deliver ==
    /\ pc = "deliver" /\ pc' = "done"
    /\ IF Target = node.out THEN UNCHANGED <<mem, dirty>>
       ELSE /\ mem' = [c \in Cells |-> IF c \in Row(node.out, TOut)
                                       THEN HostReads(Target + c - node.out) ELSE mem[c]]
            /\ dirty' = dirty \ Row(node.out, TOut)
    /\ UNCHANGED <<node, stale, slots, seq, done, ctrl, runs, pending, calling, at, k>>

-----------------------------------------------------------------------------
(* The launcher's thread and the firmware: Launcher::loop, Mailbox::execute *)

TakeCall ==
    /\ calling = "asleep" /\ pending
    /\ calling' = "called"
    /\ UNCHANGED <<node, mem, dirty, stale, slots, seq, done, ctrl, runs, pending, at, pc, k>>

\* The firmware reads the control list and starts the QPUs it names.
StartQPUs ==
    /\ calling = "called" /\ calling' = "running"
    /\ runs' = ctrl
    /\ at' = [q \in Q |-> IF q \in Launched(slots[ctrl].chunk) THEN q ELSE Idle]
    /\ UNCHANGED <<node, mem, dirty, stale, slots, seq, done, ctrl, pending, pc, k>>

\* Fault: the call's return does not end it.
StaysPending ==
    /\ calling = "running" /\ calling' = "asleep"
    /\ UNCHANGED <<node, mem, dirty, stale, slots, seq, done, ctrl, runs, pending, at, pc, k>>

\* The call returns, for many QPUs sometimes before they finish.
ReturnCall ==
    /\ calling = "running" /\ calling' = "asleep"
    /\ pending' = FALSE
    /\ UNCHANGED <<node, mem, dirty, stale, slots, seq, done, ctrl, runs, at, pc, k>>

-----------------------------------------------------------------------------
(* The QPUs: the tiles of a uniform stream one after another, then the done word *)

TapReads(s, o, tap) ==
    IF node.in_place THEN mem[InputAt + Source(o, tap)]
    ELSE slots[s].x[o + tap * Dilation]

ResidualReads(t) == CASE node.residual = "input" -> mem[InputAt + t]
                      [] node.residual = "row"   -> mem[ResidualAt + t]
                      [] OTHER -> Added(node, t)

Computed(s, o) ==
    LET t == slots[s].chunk * Chunk + o
    IN  IF /\ \A tap \in 0 .. Taps - 1 : TapReads(s, o, tap) = Wanted(Source(t, tap))
           /\ ResidualReads(t) = Added(node, t)
        THEN Right(t) ELSE Junk

\* A position read in place has every tap in the input; the edges are the host's.
Skipped(o) == node.in_place /\ o \notin Interior

Compute(q) ==
    LET s == runs
        c == Target + slots[s].chunk * Chunk + at[q]
    IN  /\ at[q] # Idle /\ at[q] < Length(slots[s].chunk)
        /\ at' = [at EXCEPT ![q] = @ + Smaller(QPUs, Length(slots[s].chunk))]
        /\ IF Skipped(at[q]) THEN UNCHANGED <<mem, stale>>
           ELSE /\ mem' = [mem EXCEPT ![c] = Computed(s, at[q])]
                /\ stale' = stale \cup {c}
        /\ UNCHANGED <<node, dirty, slots, seq, done, ctrl, runs, pending, calling, pc, k>>

MarkDone(q) ==
    /\ at[q] # Idle /\ at[q] >= Length(slots[runs].chunk)
    /\ at' = [at EXCEPT ![q] = Idle]
    /\ done' = [done EXCEPT ![q] = slots[runs].seq]
    /\ UNCHANGED <<node, mem, dirty, stale, slots, seq, ctrl, runs, pending, calling, pc, k>>

-----------------------------------------------------------------------------
NoSlot == [chunk |-> 0, seq |-> 0, x |-> StagedInPlace]

ConvInit ==
    /\ node \in Nodes
    /\ dirty \in {{}, Cells}
    /\ mem = [c \in Cells |-> IF c \in dirty THEN Junk ELSE Before(node, c)]
    /\ stale = {} /\ slots = [s \in 0 .. StageSlots - 1 |-> NoSlot]
    /\ seq = 0 /\ done = [q \in Q |-> 0] /\ ctrl = 0 /\ runs = 0
    /\ pending = FALSE /\ calling = "asleep" /\ at = [q \in Q |-> Idle]
    /\ pc = "setup" /\ k = 0

Host == SetUp \/ PrepareAhead \/ WriteControl \/ StartCall \/ PrepareNext
        \/ SeeMarkers \/ Drain \/ Finish \/ Deliver
LauncherThread == TakeCall \/ StartQPUs \/ ReturnCall
QPU(q) == Compute(q) \/ MarkDone(q)

ConvNext == Host \/ LauncherThread \/ (\E q \in Q : QPU(q)) \/ Evict

\* Each thread runs on, and a QPU program finishes: launch_wait gives it 2 s and stops
\* the process otherwise.
ConvFair == WF_convVars(Host) /\ WF_convVars(LauncherThread)
            /\ \A q \in Q : WF_convVars(QPU(q))

ConvSpec == ConvInit /\ [][ConvNext]_convVars /\ ConvFair

-----------------------------------------------------------------------------
ConvTypeOK ==
    /\ node \in Nodes
    /\ mem \in [Cells -> Int] /\ dirty \subseteq Cells /\ stale \subseteq Cells
    /\ slots \in [0 .. StageSlots - 1 ->
                    [chunk : Nat, seq : Nat,
                     x : [0 .. Chunk - 1 + (Taps - 1) * Dilation -> Int]]]
    /\ seq \in Nat /\ done \in [Q -> Nat] /\ {ctrl, runs} \subseteq 0 .. StageSlots - 1
    /\ pending \in BOOLEAN /\ calling \in {"asleep", "called", "running"}
    /\ at \in [Q -> {Idle} \cup Nat] /\ k \in Nat
    /\ pc \in {"setup", "ahead", "launch", "start", "stage", "wait", "drain",
               "finish", "deliver", "done"}

\* Staging two chunks ahead is enough: what waits in a slot to be computed, or is being
\* computed, is the input as it was before the node, whatever of it the result has
\* overwritten since (conv_run's comment on the left halo; chunk >= p).
PreparedChunks == CASE pc \in {"launch", "start", "stage"} ->
                         k .. Smaller(Chunks, k + Ahead) - 1
                    [] pc = "wait" -> k .. Smaller(Chunks, k + Ahead + 1) - 1
                    [] OTHER -> {}

StagedIsInput ==
    ~ node.in_place => \A j \in PreparedChunks :
        /\ slots[Slot(j)].chunk = j
        /\ \A i \in 0 .. Length(j) - 1 + (Taps - 1) * Dilation :
             slots[Slot(j)].x[i] = Wanted(j * Chunk - Pad + i)

\* launch_start: between the start and the wait the caller does not touch the control
\* list, which the launcher's call may not have read yet.
ControlListStable == [][pending => ctrl' = ctrl]_convVars

\* The host, the launcher's thread and the QPUs together are one convolution: at the end
\* every position of the result is right in the host's eyes, and every other cell a later
\* node may read is as it was (conv_run).
Seen == InputCells \cup (IF HoldsResidual(node) THEN ResidualCells ELSE {})
          \cup Row(node.out, TOut)

Once == INSTANCE ConvolvedOnce WITH
    Value <- Right, first <- node.out, length <- TOut,
    memory <- [c \in Seen |-> IF pc = "done" THEN HostReads(c) ELSE Before(node, c)],
    phase <- IF pc = "done" THEN "done" ELSE "asked"

ImplementsOnce == Once!OnceSpec

\* Nobody waits for anybody for ever: a convolution ends (launch_wait, Launcher).
ConvolutionEnds == (pc = "ahead") ~> (pc = "done")
=============================================================================
