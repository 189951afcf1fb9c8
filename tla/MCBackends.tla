----------------------------- MODULE MCBackends -----------------------------
(***************************************************************************)
(* What is below a builder's graph, one part at a time: the compute buffer *)
(* it sizes itself, and of the vc4 backend the pool and a convolution.     *)
(*                                                                         *)
(* The compute buffer sees a decode step, a prefill six times as large and *)
(* two shapes on either side of half of it, with a window of three calls.  *)
(* The convolution is four chunks of a row, the last one short, with a     *)
(* halo as wide as a chunk.  The pool holds either of two weights' buffers *)
(* (one of them in RAM), another buffer that leaves it almost full, a slab *)
(* or two and an arena.                                                    *)
(***************************************************************************)
EXTENDS ComputeBuffer, Vc4Conv, Vc4Pool

CONSTANTS decode, half, more, prefill

VARIABLE part

MCShape == {decode, half, more, prefill}
MCNeed == [s \in MCShape |-> CASE s = decode -> 1 [] s = half -> 3
                               [] s = more -> 4 [] s = prefill -> 6]
MCTakes == [in_ram |-> 0, in_pool |-> 2, large |-> 5]

BackendsInit == part \in {"buffer", "convolution", "pool"} /\ Init /\ ConvInit /\ PoolInit
                /\ (part # "convolution" => node = CHOOSE n \in Nodes : TRUE)
                /\ (part # "convolution" => dirty = {})

BackendsNext ==
    /\ \/ part = "buffer" /\ Next /\ UNCHANGED <<convVars, poolVars>>
       \/ part = "convolution" /\ ConvNext /\ UNCHANGED <<vars, poolVars>>
       \/ part = "pool" /\ PoolNext /\ UNCHANGED <<vars, convVars>>
    /\ UNCHANGED part

allVars == <<vars, convVars, poolVars, part>>

Convolving(A) == part = "convolution" /\ A /\ UNCHANGED <<vars, poolVars, part>>

BackendsSpec == BackendsInit /\ [][BackendsNext]_allVars
                /\ WF_allVars(Convolving(Host)) /\ WF_allVars(Convolving(LauncherThread))
                /\ \A q \in Q : WF_allVars(Convolving(QPU(q)))
=============================================================================
