----------------------------- MODULE Transcribe -----------------------------
(***************************************************************************)
(* audio::transcribe (transcribe.cpp): one call, from the caller's options *)
(* to the text.  What the model's file declares chooses one of three ways: *)
(*                                                                         *)
(*   seek      a clip of fixed length is decoded at a time, and the next   *)
(*             starts where the model closed its last segment;             *)
(*   quiet     the audio is cut at quiet points, the texts are joined;     *)
(*   windows   one pass, or overlapping windows whose texts are merged.    *)
(*                                                                         *)
(* The model (the driver's `infer`) is the environment: it answers every   *)
(* call with tokens of its own choice, or throws.  Positions are samples,  *)
(* times are in units of 1/Ticks sample.                                   *)
(***************************************************************************)
EXTENDS LongForm, TokenMerge, FiniteSets

CONSTANTS
    Files,          \* model -> what its file declares
    Lengths,        \* model -> lengths of the caller's audio
    Requests,       \* model -> the caller's options
    Rate,           \* samples per second
    Ticks,          \* units of time per sample
    TsStep,         \* units of time per timestamp token
    WordEvery,      \* in the speech heard, samples from one word to the next
    Babble,         \* the texts of a model that hears anything at all
    MaxWindows      \* TLC bound on the decodes of one call; BoundedWork stays below

ASSUME WindowsAssumption == MaxWindows \in Nat
ASSUME TimeAssumption == {Rate, Ticks, TsStep, WordEvery} \subseteq Nat \ {0}
\* Lengths are unsigned and a driver's tokens are integers.
ASSUME FilesAssumption ==
    /\ DOMAIN Files # {}
    /\ Babble \subseteq Seq(Int)
    /\ \A m \in DOMAIN Files :
         LET f == Files[m] IN
         /\ {f.clip, f.chunk, f.prev_cap} \subseteq Nat
         /\ {f.long.max, f.long.min, f.long.search, f.long.overlap,
             f.long.merge_search, f.long.merge_head} \subseteq Nat
         /\ {f.quiet.max, f.quiet.search, f.quiet.frame, f.quiet.min} \subseteq Nat
         /\ f.answers \subseteq Seq(Int)
         /\ Lengths[m] \subseteq Nat
\* Not checked by QuietSplitPolicy::declared: a cut leaves a piece that is kept, so
\* the cutting goes forward and only a tail is dropped.
ASSUME QuietAssumption ==
    \A m \in DOMAIN Files : QuietDeclared(Files[m].quiet) =>
        LET q == Files[m].quiet
            least == q.max - q.search + q.frame \div 2
        IN least > 0 /\ least >= q.min

VARIABLES
    model, samples, request,    \* the call's inputs, chosen once
    phase,
    args,       \* role -> what became of the caller's name for it
    cut,        \* where the audio was last cut at a quiet point
    plan,       \* the windows or pieces to decode
    heard,      \* the texts decoded
    segments,
    windows,    \* out.windows: how many decodes
    seek,
    prev,       \* prev_tokens
    covered     \* history: every sample before it was in some decode

inputs == <<model, samples, request>>
vars == <<model, samples, request, phase, args, cut, plan, heard, segments,
          windows, seek, prev, covered>>

file == Files[model]

-----------------------------------------------------------------------------
(* Tokens.  A word heard in speech is the sample it is spoken at.          *)

EOS == -1
Blank == -2                         \* a control token that is not EOS
\* What window k heard instead of word p: no word, and no other window's.
Misheard(p, k) == -10 - (k * (samples + 1) + p)
TsBase == 1000                      \* timestamp tokens, from here on

IsControl(id) == id \in {EOS, Blank}
Detokenize(ids) ==
    LET kept[n \in 0 .. Len(ids)] ==
            IF n = 0 THEN << >>
            ELSE IF IsControl(ids[n]) THEN kept[n - 1] ELSE Append(kept[n - 1], ids[n])
    IN kept[Len(ids)]

\* Fault: the control tokens are left for the detokenizer to drop.
RawText(ids) == ids

\* text_only: off before the merge, which would align on them.
TextOnly(ids) == Detokenize(ids)

Seeks == file.clip > 0
Quiet == ~Seeks /\ file.chunk > 0 /\ QuietDeclared(file.quiet)

\* Fault: down to whole chunks.
PaddedDown(n) == IF file.chunk = 0 THEN n ELSE (n \div file.chunk) * file.chunk

PaddedToChunk(n) == IF file.chunk = 0 THEN n ELSE CeilDiv(n, file.chunk) * file.chunk

-----------------------------------------------------------------------------
(* The arguments: `offers` and `resolve` *)

Roles == {"language", "task", "target"}
Unnamed == "unnamed"

\* A table that is empty is not declared.  Legacy files ask the vocabulary.
Legacy == file.bpe /\ file.tables["language"] = {}

Offers(role) ==
    \/ file.tables[role] # {}
    \/ Seeks /\ Legacy /\ file.probes[role]

HasToken(role, name) ==
    \/ name \in file.tables[role]
    \/ role # "target" /\ Legacy /\ name \in file.pieces

\* The file says which languages it speaks, and this is not one.
Contradicted(role, name) ==
    role = "language" /\ file.speaks # {} /\ name \notin file.speaks

\* Fault: whatever selects nothing is ignored.
AnyRedundant(role, name) == ~Offers(role) /\ role # "target"

\* Names what the model does anyway: ignored, with a warning.
Redundant(role, name) ==
    /\ role # "target"
    /\ ~Offers(role) /\ ~Contradicted(role, name)
    /\ role = "task" => name = "transcribe"

Resolved(role) ==
    LET name == request.names[role]
    IN CASE name = Unnamed -> "omitted"
         [] name # Unnamed /\ HasToken(role, name) ->
                \* The chunked calls carry no such argument.
                IF Seeks \/ file.chunk = 0 THEN "token" ELSE "dropped"
         [] name # Unnamed /\ ~HasToken(role, name) /\ Redundant(role, name) -> "ignored"
         [] OTHER -> "refused"

-----------------------------------------------------------------------------
(* The model: what it may answer *)

Spoken(before) == CeilDiv(before, WordEvery)
Speech == [i \in 1 .. Spoken(samples) |-> (i - 1) * WordEvery]
WordsIn(w) == SubSeq(Speech, Spoken(w.start) + 1, Spoken(Ends(w)))

\* A word next to an edge that cuts through the speech may be lost or misheard.
HeardAt(words, k, first, last) ==
    {SubSeq(words, IF head = "lost" THEN 2 ELSE 1,
            Len(words) - IF tail = "lost" THEN 1 ELSE 0) :
        head \in IF first THEN {"whole"} ELSE {"whole", "lost"},
        tail \in IF last THEN {"whole"} ELSE {"whole", "lost"}}
    \cup {[i \in DOMAIN words |->
             IF (i = 1 /\ ~first) \/ (i = Len(words) /\ ~last)
             THEN Misheard(words[i], k) ELSE words[i]]}

\* Every text ends with the end-of-sequence token.
Answers(w, k, n) ==
    CASE file.hears = "speech" ->
            {Append(t, EOS) : t \in HeardAt(WordsIn(w), k, k = 1, k = n)}
      [] file.hears = "anything" -> {Append(t, EOS) : t \in Babble}
      [] OTHER -> file.answers

-----------------------------------------------------------------------------
(* split_into_segments *)

\* What is pending becomes a segment, unless it is only control tokens.
Flush(w, end, closed) ==
    LET text == Detokenize(w.pending)
    IN IF text = << >> THEN [w EXCEPT !.pending = << >>]
       ELSE [w EXCEPT !.pending = << >>,
                !.out = Append(@, [start |-> w.start, end |-> end, text |-> text,
                                   closed |-> closed]),
                !.last_end = IF closed THEN end ELSE @]

\* A timestamp ends the span before it and opens the one after.
Mark(w, time) ==
    [(IF w.open THEN Flush(w, time, TRUE) ELSE w) EXCEPT !.start = time, !.open = TRUE]

\* Text before the first timestamp stays pending and goes to the first span; the last
\* span runs to the window's edge, unclosed.  last_end is last_complete_end.
SplitIntoSegments(ids, from, to) ==
    LET walk[n \in 0 .. Len(ids)] ==
            IF n = 0 THEN [start |-> from, open |-> FALSE, pending |-> << >>,
                           out |-> << >>, last_end |-> -1]
            ELSE LET w == walk[n - 1]
                 IN IF ids[n] >= TsBase THEN Mark(w, from + (ids[n] - TsBase) * TsStep)
                    ELSE [w EXCEPT !.pending = Append(@, ids[n])]
    IN Flush(walk[Len(ids)], to, FALSE)

\* Time to samples, to the nearest, half away from zero: llround.
Rounded(t) == (2 * t + Ticks) \div (2 * Ticks)

Larger(a, b) == IF a > b THEN a ELSE b

\* Faults: no floor; no clip; the time is truncated; a segment that ends where the
\* window starts counts.
AdvanceUnfloored(last_end, from) ==
    IF last_end > from /\ Rounded(last_end - from) \in 1 .. file.clip
    THEN Rounded(last_end - from) ELSE file.clip
AdvanceUnclipped(last_end, from) ==
    IF last_end > from THEN Larger(Rounded(last_end - from), Rate) ELSE file.clip
AdvanceTruncated(last_end, from) ==
    LET candidate == Larger((last_end - from) \div Ticks, Rate)
    IN IF last_end > from /\ candidate <= file.clip THEN candidate ELSE file.clip
AdvanceUnguarded(last_end, from) ==
    IF last_end >= from /\ Rounded(last_end - from) <= file.clip
    THEN Rounded(last_end - from) ELSE file.clip

\* To where the last closed segment ended, at least a second and at most a clip.
Advance(last_end, from) ==
    LET candidate == Larger(Rounded(last_end - from), Rate)
    IN IF last_end > from /\ candidate <= file.clip THEN candidate ELSE file.clip

-----------------------------------------------------------------------------
NoArgs == [role \in Roles |-> "omitted"]

Fresh ==
    /\ phase = "resolve"
    /\ args = NoArgs
    /\ cut = 0
    /\ plan = << >>
    /\ heard = << >>
    /\ segments = << >>
    /\ windows = 0
    /\ seek = 0
    /\ prev = << >>
    /\ covered = 0

Init ==
    /\ model \in DOMAIN Files
    /\ samples \in Lengths[model]
    /\ request \in Requests[model]
    /\ Fresh

Resolve ==
    /\ phase = "resolve"
    /\ args' = [role \in Roles |-> Resolved(role)]
    /\ phase' = IF \E role \in Roles : Resolved(role) = "refused" THEN "refused"
                ELSE IF Quiet THEN "cut" ELSE "decode"
    /\ plan' = IF Seeks \/ Quiet THEN << >>
               ELSE IF file.chunk = 0 THEN PlanWindows(samples, file.long)
               ELSE Whole(samples)
    /\ UNCHANGED <<inputs, cut, heard, segments, windows, seek, prev, covered>>

\* The piece from the last cut to here, if it is worth decoding.
WithPiece(end) ==
    IF Kept(cut, end, file.quiet)
    THEN Append(plan, Window(cut, end - cut, PaddedToChunk(end - cut))) ELSE plan

\* One turn of plan_quiet_splits' loop; the piece before the cut joins the plan.
CutAtQuiet ==
    /\ phase = "cut"
    /\ MoreToCut(cut, samples, file.quiet)
    /\ cut' \in QuietCuts(cut, file.quiet)
    /\ plan' = WithPiece(cut')
    /\ UNCHANGED <<inputs, phase, args, heard, segments, windows, seek, prev, covered>>

\* What is left is the last piece.
LastPiece ==
    /\ phase = "cut"
    /\ ~MoreToCut(cut, samples, file.quiet)
    /\ plan' = WithPiece(samples)
    /\ phase' = "decode"
    /\ UNCHANGED <<inputs, args, cut, heard, segments, windows, seek, prev, covered>>

\* A decode of the samples from..to-1 leaves no gap behind it.
Covered(from, to) == IF from <= covered THEN Larger(covered, to) ELSE covered

\* One window or piece of the plan.
DecodeNext ==
    LET w == plan[Len(heard) + 1] IN
    /\ phase = "decode" /\ ~Seeks
    /\ Len(heard) < Len(plan)
    /\ \E ids \in Answers(w, Len(heard) + 1, Len(plan)) :
         heard' = Append(heard, IF Quiet \/ Len(plan) = 1 THEN Detokenize(ids)
                                ELSE TextOnly(ids))
    /\ covered' = Covered(w.start, Ends(w))
    /\ UNCHANGED <<inputs, phase, args, cut, plan, segments, windows, seek, prev>>

\* The decodes become one text: `Text`.
Finish ==
    /\ phase = "decode" /\ ~Seeks
    /\ Len(heard) = Len(plan)
    /\ segments' = << [start |-> 0, end |-> samples * Ticks, closed |-> FALSE] >>
    /\ windows' = Len(plan)
    /\ phase' = "done"
    /\ UNCHANGED <<inputs, args, cut, plan, heard, seek, prev, covered>>

WantTimestamps ==
    request.timestamps \/ (file.can_timestamp /\ CeilDiv(samples, file.clip) > 1)

\* The next clip of the seek loop.
DecodeClip ==
    LET avail == AtMost(file.clip, samples - seek)
        from == seek * Ticks
        to == (seek + avail) * Ticks
        next == Window(seek, avail, file.clip)
    IN /\ phase = "decode" /\ Seeks
       /\ seek < samples /\ windows < MaxWindows
       /\ \E ids \in Answers(next, 1, 1) :
            LET split == SplitIntoSegments(ids, from, to)
                timed == file.can_timestamp /\ WantTimestamps
            IN /\ segments' = segments \o
                    IF timed THEN split.out
                    ELSE << [start |-> from, end |-> to, text |-> Detokenize(ids),
                             closed |-> FALSE] >>
               /\ seek' = seek + Advance(IF timed THEN split.last_end ELSE -1, from)
               /\ prev' = IF request.condition
                          THEN LastOf(prev \o ids, file.prev_cap) ELSE prev
       /\ windows' = windows + 1
       /\ covered' = Covered(seek, seek + avail)
       /\ UNCHANGED <<inputs, phase, args, cut, plan, heard>>

FinishSeek ==
    /\ phase = "decode" /\ Seeks
    /\ seek >= samples
    /\ phase' = "done"
    /\ UNCHANGED <<inputs, args, cut, plan, heard, segments, windows, seek, prev,
                   covered>>

\* The driver throws, and transcribe with it.
DriverThrows ==
    /\ phase = "decode"
    /\ IF Seeks THEN seek < samples /\ windows < MaxWindows ELSE Len(heard) < Len(plan)
    /\ phase' = "refused"
    /\ UNCHANGED <<inputs, args, cut, plan, heard, segments, windows, seek, prev,
                   covered>>

Next == \/ Resolve
        \/ CutAtQuiet \/ LastPiece
        \/ DecodeNext \/ Finish
        \/ DecodeClip \/ FinishSeek
        \/ DriverThrows

-----------------------------------------------------------------------------
(* Properties *)

\* out.text, at the end: the segments', or the pieces' joined, or the windows' merged.
Text ==
    IF Seeks THEN FlattenSeq([i \in DOMAIN segments |-> segments[i].text])
    ELSE IF Quiet THEN FlattenSeq(heard)
    ELSE Detokenize(MergeWindows(heard, file.long))

Over == phase \in {"done", "refused"}

\* Every variable has its type, and the plan is never overrun.
TypeOK ==
    /\ phase \in {"resolve", "cut", "decode"} \/ Over
    /\ args \in [Roles -> {"omitted", "token", "ignored", "refused", "dropped"}]
    /\ cut \in 0 .. samples
    /\ Len(heard) <= Len(plan)
    /\ \A k \in DOMAIN plan : plan[k].real <= plan[k].padded
    /\ Len(prev) <= file.prev_cap
    /\ covered \in 0 .. samples

\* transcribe decodes all of the audio it is given, in order and without a gap,
\* whichever way it is cut and wherever the model closes its segments; only a last
\* quiet piece too short to be kept is not decoded (asr_long_form.h:18-21, 88-96).
EverySampleHeard ==
    phase = "done" =>
        samples - covered < IF Quiet THEN Larger(1, file.quiet.min) ELSE 1

\* The windows of a long audio are the plan's promise, and there are at least two.
WindowsCover ==
    Len(plan) > 1 /\ ~Quiet => Covers(plan, samples, file.long.overlap)

\* The words among the tokens of a text; a misheard word is none.
Words(ids) ==
    LET said[n \in 0 .. Len(ids)] ==
            IF n = 0 THEN << >>
            ELSE IF ids[n] < 0 THEN said[n - 1] ELSE Append(said[n - 1], ids[n])
    IN said[Len(ids)]

\* The words of the audio come out of overlapping windows once and in order, though
\* every window's ends may lose or mishear the word there (asr_long_form.h:3-6).  A
\* misheard word may stay between them.
MergeRestoresSpeech ==
    phase = "done" /\ ~Seeks /\ ~Quiet /\ file.hears = "speech" =>
        Words(Text) = Speech

\* A policy that leaves the merge room: four words in every overlap, of which the ends
\* of the windows may spoil two; a search past a misheard last word; a head that holds
\* the overlap; and no sample in three windows.
RoomToMerge(p) ==
    Declared(p) =>
        /\ p.overlap \div WordEvery >= 4
        /\ p.merge_search >= 3
        /\ p.merge_head >= CeilDiv(p.overlap, WordEvery)
        /\ 2 * p.overlap <= p.min

\* Old text before the last merge_search tokens and new text after the first
\* merge_head are not the merge's to cut; its walk stays in the table.
CutsOnlyOverlap(old, new, p) ==
    LET head == AtMost(Len(new), p.merge_head)
        kept == Larger(0, Len(old) - p.merge_search)
        merged == Stitch(old, new, p)
    IN /\ IsPrefix(SubSeq(old, 1, kept), merged)
       /\ Len(merged) >= kept + Len(new) - head
       /\ LastOf(merged, Len(new) - head) = SubSeq(new, head + 1, Len(new))
       /\ LongestCommonRun(LastOf(old, p.merge_search), SubSeq(new, 1, head)).inside

\* Whatever the texts say, a merge cuts nothing outside the tokens it searches, and
\* its walk never leaves the table of common runs (asr_long_form.cpp:71-76).
MergeCutsOnlyOverlap ==
    phase = "done" /\ ~Seeks /\ ~Quiet =>
        \A k \in 1 .. Len(heard) - 1 :
            CutsOnlyOverlap(MergeWindows(SubSeq(heard, 1, k), file.long),
                            heard[k + 1], file.long)

\* A decode whose timestamps go forward, inside its clip.
Monotone(ids) ==
    \A i, j \in {k \in DOMAIN ids : ids[k] >= TsBase} :
        /\ (ids[i] - TsBase) * TsStep <= file.clip * Ticks
        /\ i < j => ids[i] <= ids[j]

\* If the timestamps a model answers with go forward, the segments it closed are in order:
\* each starts no more than half a sample before any earlier one ended
\* (transcribe.h:20-24; half a sample is what llround may take back).
ClosedInOrder ==
    LET closed == {k \in DOMAIN segments : segments[k].closed}
    IN Seeks /\ file.hears = "answers" /\ (\A ids \in file.answers : Monotone(ids)) =>
        \A i, j \in closed :
            i < j => 2 * (segments[j].start - segments[i].end) >= -Ticks

\* The same of all the segments: a span of audio that is decoded again "whole instead
\* of becoming two fragments" is not also kept as the fragment (transcribe.h:20-22).
NoSpanTwice ==
    \A i \in 2 .. Len(segments) :
        2 * (segments[i].start - segments[i - 1].end) >= -Ticks

\* An answer closes all it says: a timestamp follows every word, and not the first one.
ClosesAll(ids) ==
    \A n \in DOMAIN ids : ids[n] < TsBase /\ ~IsControl(ids[n]) =>
        \E i, j \in DOMAIN ids : /\ i < j /\ n < j
                               /\ ids[i] >= TsBase /\ ids[j] >= TsBase

\* A seek that leaves no tail to keep: its answers are not split at timestamps, or the
\* timestamps go forward and close all of every answer.
NoTails ==
    /\ Seeks
    /\ file.can_timestamp /\ WantTimestamps =>
         file.hears = "answers" /\ \A ids \in file.answers : Monotone(ids) /\ ClosesAll(ids)

\* However short the segments the model closes, the audio takes no more decodes than
\* it has seconds (transcribe.cpp:457-461).
BoundedWork == Seeks => windows <= CeilDiv(samples, AtMost(Rate, file.clip))

\* What becomes of a name the caller gave.  It reaches the model.  Or it is ignored, and
\* the file has no choice to make there: an English-only file may ignore "en", no file may
\* ignore a language it does not speak or a translation (transcribe.cpp:214-224).  Or it
\* is dropped without a word, and that only by a file that has it and whose audio goes to
\* the model in whole chunks, in calls that carry no names (transcribe.cpp:315-325), though
\* a declared table "is the file saying its driver reads the argument, on either decode
\* path" (transcribe.cpp:186-187).
NamesAccounted ==
    \A role \in Roles :
        LET name == request.names[role] IN
        /\ args[role] = "ignored" =>
             /\ name \notin file.tables[role]
             /\ role = "language" => file.speaks = {} \/ name \in file.speaks
             /\ role = "task" => name # "translate"
             /\ Seeks /\ file.bpe /\ file.tables["language"] = {} => ~file.probes[role]
        /\ args[role] = "dropped" =>
             /\ file.chunk > 0 /\ file.clip = 0
             /\ name \in file.tables[role] \/ (file.bpe /\ name \in file.pieces)
        /\ phase \notin {"resolve", "refused"} /\ name # Unnamed =>
             args[role] \in {"token", "ignored", "dropped"}
=============================================================================
