--------------------------- MODULE ConvolvedOnce ----------------------------
(***************************************************************************)
(* What the vc4 backend promises of a convolution and the chain it folds   *)
(* in: the memory the graph can see goes from the node's operands to its   *)
(* result in one step, and nothing beside the result changes.              *)
(***************************************************************************)
EXTENDS Integers

CONSTANT Value(_)           \* the right value of the result's position

VARIABLES memory,           \* every cell a later node may read
          first, length,    \* the result's cells
          phase

OnceInit == phase = "asked"

Convolve ==
    /\ phase = "asked" /\ phase' = "done"
    /\ memory' = [c \in DOMAIN memory |->
                    IF c \in first .. first + length - 1 THEN Value(c - first)
                                                         ELSE memory[c]]
    /\ UNCHANGED <<first, length>>

OnceSpec == OnceInit /\ [][Convolve]_<<memory, first, length, phase>>
=============================================================================
