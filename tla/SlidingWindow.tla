--------------------------- MODULE SlidingWindow ---------------------------
(***************************************************************************)
(* What cached attention promises, with no cache in it: a sequence of      *)
(* tokens is fed in calls of one or more tokens, and the query at position *)
(* p attends to exactly the tokens of ITS OWN sequence at the positions    *)
(* p-w < j <= p, where w is the model's window, or to all of 0..p when it  *)
(* has none.                                                               *)
(***************************************************************************)
EXTENDS Integers

CONSTANTS Window,       \* 0: unlimited
          MaxPos, MaxSeq

VARIABLES seq,          \* which sequence is running
          n_past,       \* how many of its tokens have been fed
          attended      \* the last call's answer: row -> set of tokens

absVars == <<seq, n_past, attended>>

Token(s, p) == [seq |-> s, pos |-> p]

InWindow(j, p) == j <= p /\ (Window = 0 \/ p - j < Window)

AttendedBy(s, p) == {Token(s, j) : j \in {k \in 0 .. p : InWindow(k, p)}}

AbsInit == seq = 1 /\ n_past = 0 /\ attended = << >>

\* The next sequence, its first k positions given rather than fed.
AbsBegin(k) ==
    /\ seq < MaxSeq
    /\ seq' = seq + 1
    /\ n_past' = k
    /\ UNCHANGED attended

AbsFeed(n) ==
    /\ n_past + n <= MaxPos
    /\ n_past' = n_past + n
    /\ attended' = [i \in 0 .. n - 1 |-> AttendedBy(seq, n_past + i)]
    /\ UNCHANGED seq

AbsNext == \/ \E k \in 0 .. MaxPos : AbsBegin(k)
           \/ \E n \in 1 .. MaxPos : AbsFeed(n)

AbsSpec == AbsInit /\ [][AbsNext]_absVars
=============================================================================
