----------------------------- MODULE TokenMerge -----------------------------
(***************************************************************************)
(* The stitching of asr_long_form.cpp: the texts of overlapping windows    *)
(* are merged at the longest run of tokens they share.  It is NeMo's       *)
(* algorithm with its two repair heuristics, and the second of them walks  *)
(* a table with indices of its own making.                                 *)
(***************************************************************************)
EXTENDS Integers, Sequences, SequencesExt

\* Where the aligned run starts in the old text and in the new one, its length, and
\* whether every index the alignment read was inside the table.
Alignment(i, j, length, inside) ==
    [i |-> i, j |-> j, length |-> length, inside |-> inside]

Cells(x, y) == (0 .. Len(x)) \X (0 .. Len(y))

\* run[i, j]: how long the common run ending at x[i] and y[j] is.
RunTable(x, y) ==
    LET run[c \in Cells(x, y)] ==
            IF c[1] = 0 \/ c[2] = 0 THEN 0
            ELSE IF x[c[1]] = y[c[2]] THEN run[<<c[1] - 1, c[2] - 1>>] + 1
            ELSE 0
    IN run

\* A read of the table; outside it there is no run.
At(run, i, j) == IF <<i, j>> \in DOMAIN run THEN run[i, j] ELSE 0

\* a comes later than b where a longest run is looked for.
Later(a, b) == a[1] > b[1] \/ (a[1] = b[1] /\ a[2] >= b[2])

\* The last longest run; <<0, 0>> when nothing is shared.
LastLongest(run) ==
    LET longest == {c \in DOMAIN run : \A d \in DOMAIN run : run[c] >= run[d]}
    IN IF \A c \in DOMAIN run : run[c] = 0 THEN <<0, 0>>
       ELSE CHOOSE c \in longest : \A d \in longest : Later(c, d)

-----------------------------------------------------------------------------
(* The partial branch: the run does not reach the end of the old text *)

\* (1) Rows from the last to the first, columns in order: a longer run replaces the
\* one held unless it is further right.
Longer(run, held, c) ==
    IF run[c] > held.len /\ c[2] <= held.upto
    THEN [i |-> c[1], j |-> c[2], len |-> run[c], upto |-> c[2]] ELSE held

Leftmost(run, M, N) ==
    LET scan(k) == <<M - (k - 1) \div (N + 1), (k - 1) % (N + 1)>>
        held[k \in 0 .. (M + 1) * (N + 1)] ==
            IF k = 0 THEN [i |-> M, j |-> -1, len |-> 0, upto |-> N]
            ELSE Longer(run, held[k - 1], scan(k))
    IN held[(M + 1) * (N + 1)]

\* (2) How many columns the run is extended by on its way down to row M.  A row may
\* skip as many columns as the rows above it had gaps.
NextRow(run, row, column, N, above) ==
    LET seen == {c \in column .. column + above.skip : c <= N}
        gaps == {c \in seen : At(run, row, c) = 0}
        hits == seen \ gaps
    IN [skip |-> above.skip + IF gaps = {} THEN 0 ELSE 1,
        by |-> IF hits = {} THEN above.by
               ELSE 1 + above.skip + IF \E g \in gaps, h \in hits : g < h THEN 1 ELSE 0]

Expansion(run, from, M, N) ==
    LET down[k \in 0 .. M - from.i] ==
            IF k = 0 THEN [skip |-> 0, by |-> 0]
            ELSE NextRow(run, from.i + k, from.j + k, N, down[k - 1])
    IN down[M - from.i].by

\* (3) Back along the extended run to where it starts; a column without a run in it
\* is skipped and counted.
StepBack(run, a) ==
    LET skip == IF At(run, a.i, a.j) = 0 THEN 1 ELSE 0
        step == IF a.j > skip THEN 1 ELSE 0
    IN IF a.i <= 0 \/ a.j <= 0 THEN a
       ELSE Alignment(a.i - step, a.j - skip - step, a.length + skip + step,
                      a.inside /\ <<a.i, a.j>> \in DOMAIN run)

Backtrack(run, i, j) ==
    LET back[k \in 0 .. i] == IF k = 0 THEN Alignment(i, j, 0, TRUE)
                              ELSE StepBack(run, back[k - 1])
    IN back[i]

\* NeMo's MIN_MERGE_SUBSEQUENCE_LEN.
Trusted(len) == len > 1

Partial(run, M, N) ==
    LET from == Leftmost(run, M, N)
    IN IF ~Trusted(from.len) THEN Alignment(from.i, 0, 0, TRUE)
       ELSE Backtrack(run, from.i, from.j + Expansion(run, from, M, N))

-----------------------------------------------------------------------------
\* longest_common_run
LongestCommonRun(x, y) ==
    LET run == RunTable(x, y)
        end == LastLongest(run)
    IN IF end[1] = Len(x)
       THEN Alignment(end[1] - run[end], end[2] - run[end], run[end], TRUE)
       ELSE Partial(run, Len(x), Len(y))

AtMost(bound, n) == IF n < bound THEN n ELSE bound

\* The last n of a sequence.
LastOf(s, n) == SubSeq(s, Len(s) - AtMost(Len(s), n) + 1, Len(s))

\* Fault: the alignment's start is taken for an index of the whole old text.
JoinRelative(buffer, data, base, a) ==
    SubSeq(buffer, 1, AtMost(Len(buffer), a.i + a.length))
        \o SubSeq(data, AtMost(Len(data), a.j + a.length) + 1, Len(data))

\* The old text up to the end of the aligned run and the new one after it.
Join(buffer, data, base, a) ==
    SubSeq(buffer, 1, AtMost(Len(buffer), base + a.i + a.length))
        \o SubSeq(data, AtMost(Len(data), a.j + a.length) + 1, Len(data))

\* lcs_merge
Merge(buffer, data, search) ==
    LET tail == LastOf(buffer, search)
        a == LongestCommonRun(tail, data)
    IN IF search = 0 \/ buffer = << >> \/ a.length < 1 THEN buffer \o data
       ELSE Join(buffer, data, Len(buffer) - Len(tail), a)

\* Only the head of a window takes part in its alignment.
Stitch(merged, data, p) ==
    LET head == AtMost(Len(data), p.merge_head)
    IN Merge(merged, SubSeq(data, 1, head), p.merge_search)
           \o SubSeq(data, head + 1, Len(data))

\* merge_windows
MergeWindows(texts, p) ==
    LET merged[k \in 0 .. Len(texts)] ==
            IF k = 0 THEN << >>
            ELSE IF k = 1 THEN texts[1] ELSE Stitch(merged[k - 1], texts[k], p)
    IN merged[Len(texts)]
=============================================================================
