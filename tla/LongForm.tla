------------------------------ MODULE LongForm ------------------------------
(***************************************************************************)
(* How asr_long_form.cpp cuts audio a model was not trained to hear in one *)
(* piece: into overlapping windows whose texts are merged, or into pieces  *)
(* that meet where the audio is quiet.  A policy is what the model's file  *)
(* declares.  Lengths and positions are in samples.                        *)
(***************************************************************************)
EXTENDS Integers, Sequences

Window(start, real, padded) == [start |-> start, real |-> real, padded |-> padded]

Whole(total) == << Window(0, total, total) >>

CeilDiv(a, b) == (a + b - 1) \div b

-----------------------------------------------------------------------------
(* plan_windows *)

\* LongFormPolicy::declared
Declared(p) ==
    /\ p.max > 0 /\ p.min > 0 /\ p.search > 0
    /\ p.overlap > 0 /\ p.overlap < p.min

\* The lengths choose_window tries.
Candidates(total, p) ==
    {len \in p.min .. p.max : /\ (len - p.min) % p.search = 0
                              /\ len > p.overlap
                              /\ len <= total}

\* What choose_window takes for the last window's length when stepping by `step`.
LastWindow(total, step) == total - step * (CeilDiv(total, step) - 1)

\* The candidate whose last window is longest, the shortest of those.
ChooseWindow(total, p) ==
    LET last(len) == LastWindow(total, len - p.overlap)
        best(len) == \A other \in Candidates(total, p) :
                        \/ last(other) < last(len)
                        \/ last(other) = last(len) /\ len <= other
    IN IF total < p.max THEN total
       ELSE IF \E len \in Candidates(total, p) : best(len)
            THEN CHOOSE len \in Candidates(total, p) : best(len)
            ELSE p.min

\* Fault: a window starts as long as anything is left to cover.
CountWholeTail(total, len, overlap) == CeilDiv(total, len - overlap)

\* How many k satisfy k * (len - overlap) + overlap < total: a window starts only
\* where more than the overlap is left to cover.
WindowCount(total, len, overlap) == CeilDiv(total - overlap, len - overlap)

\* Windows of length len, each starting len - overlap after the one before.
Cut(total, len, overlap) ==
    [k \in 1 .. WindowCount(total, len, overlap) |->
        LET start == (k - 1) * (len - overlap)
            end == IF start + len <= total THEN start + len ELSE total
        IN Window(start, end - start, len)]

PlanWindows(total, p) ==
    IF ~Declared(p) \/ total < p.max THEN Whole(total)
    ELSE LET len == ChooseWindow(total, p)
         IN IF len >= total THEN Whole(total) ELSE Cut(total, len, p.overlap)

-----------------------------------------------------------------------------
(* plan_quiet_splits.  Which frame is the quietest is the audio's affair. *)

\* QuietSplitPolicy::declared
QuietDeclared(q) ==
    /\ q.max > 0 /\ q.frame > 0
    /\ q.search >= q.frame /\ q.search <= q.max

\* The cuts possible after one at `start`: the middle of one of the whole frames of
\* the last `search` samples before the limit.
QuietCuts(start, q) ==
    LET lo == start + q.max - q.search
    IN {lo + k * q.frame + q.frame \div 2 : k \in 0 .. (q.search \div q.frame) - 1}

\* More than the limit is left.
MoreToCut(start, total, q) == total - start > q.max

\* A piece that is worth decoding.
Kept(start, end, q) == end - start >= q.min /\ end > start

\* piece_token_budget, for a whole number of samples per second; 0: the driver's own.
TokenBudget(samples, rate, q) ==
    IF q.token_cap = 0 THEN 0
    ELSE LET budget == CeilDiv(q.tokens_per_second * samples, rate) + q.token_base
         IN IF budget < q.token_cap THEN budget ELSE q.token_cap

-----------------------------------------------------------------------------
(* What the plan promises (asr_long_form.h:74-80) *)

Ends(w) == w.start + w.real

\* Every sample is in some window, the windows go forward, each shares exactly the
\* overlap with the one before and holds more than the overlap of its own, and only
\* the last one is padded.
Covers(windows, total, overlap) ==
    LET n == Len(windows) IN
    /\ n > 0
    /\ windows[1].start = 0
    /\ Ends(windows[n]) = total
    /\ \A k \in 1 .. n - 1 :
         /\ windows[k + 1].start > windows[k].start
         /\ Ends(windows[k]) - windows[k + 1].start = overlap
         /\ windows[k].real = windows[k].padded
         /\ windows[k + 1].real > overlap
         /\ windows[k + 1].padded = windows[k].padded
    /\ windows[n].real <= windows[n].padded
=============================================================================
