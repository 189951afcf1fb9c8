------------------------- MODULE MCRetainedOutputs -------------------------
(***************************************************************************)
(* RetainedOutputs for TLC.  Modules, axes and addresses are only ever     *)
(* compared, never ordered or chosen, and every property checked is an     *)
(* invariant: permuting them is sound.                                     *)
(***************************************************************************)
EXTENDS RetainedOutputs, TLC

Symmetry == Permutations(Module) \cup Permutations(Axes) \cup Permutations(Addr)
=============================================================================
