---------------------------- MODULE MCFrontEnds -----------------------------
(***************************************************************************)
(* FrontEnds for TLC: the files, the audio and the models of each way.     *)
(***************************************************************************)
EXTENDS FrontEnds

NoLong == [max |-> 0, min |-> 0, search |-> 0, overlap |-> 0,
           merge_search |-> 0, merge_head |-> 0]
NoQuiet == [max |-> 0, search |-> 0, frame |-> 0, min |-> 0]
NoTables == [role \in Roles |-> {}]
NoProbes == [role \in Roles |-> FALSE]

Plain == [clip |-> 0, chunk |-> 0, long |-> NoLong, quiet |-> NoQuiet,
          can_timestamp |-> FALSE, prev_cap |-> 0, hears |-> "speech", answers |-> {},
          bpe |-> FALSE, tables |-> NoTables, probes |-> NoProbes, pieces |-> {},
          speaks |-> {}]

\* A word every two samples: four words in every overlap, of which the ends of two
\* windows may spoil two.
Overlapping == [Plain EXCEPT
    !.long = [max |-> 14, min |-> 12, search |-> 1, overlap |-> 8,
              merge_search |-> 5, merge_head |-> 4]]

\* No sample is in three windows, and the search is as short as RoomToMerge lets it be.
Roomy == [Plain EXCEPT
    !.long = [max |-> 17, min |-> 16, search |-> 1, overlap |-> 8,
              merge_search |-> 3, merge_head |-> 4]]

Babbling == [Plain EXCEPT !.hears = "anything",
    !.long = [max |-> 3, min |-> 3, search |-> 1, overlap |-> 1,
              merge_search |-> 3, merge_head |-> 3]]

AtQuiet == [Plain EXCEPT !.chunk = 3, !.hears = "answers",
    !.answers = {<<1, EOS>>, <<Blank, EOS>>},
    !.quiet = [max |-> 6, search |-> 4, frame |-> 2, min |-> 2]]

T(t) == TsBase + t

\* Segments closed one after another with a tail, too short, beyond the clip, at the
\* clip's end; a decode that closes none, one that is only a control token, nothing.
Decodes == {<< >>, <<1, EOS>>, <<T(0), 1, T(3), T(3), 1, EOS>>, <<T(0), 1, T(1)>>,
            <<T(0), Blank, T(3)>>, <<1, T(2), 1, T(4), T(4), 1, T(6)>>}
Erratic == Decodes \cup {<<T(0), 1, T(0)>>, <<T(3), 1, T(1)>>, <<T(5), 1, T(7)>>}

Clips(decodes) == [Plain EXCEPT
    !.clip = 8, !.can_timestamp = TRUE, !.prev_cap = 5, !.bpe = TRUE,
    !.hears = "answers", !.answers = decodes]
Untimed == [Clips({<<1, EOS>>}) EXCEPT !.can_timestamp = FALSE]

\* What the caller's names meet: Whisper's files before there were tables, of many
\* languages and of one; a declared table, of a file that pads to chunks too; a vocabulary
\* that only looks like a choice.
Legacy_(probe, pieces) == [Untimed EXCEPT
    !.probes = [language |-> probe, task |-> probe, target |-> FALSE],
    !.pieces = pieces]
Multilingual == Legacy_(TRUE, {"en", "transcribe", "translate"})
EnglishOnly == [Legacy_(FALSE, {}) EXCEPT !.speaks = {"en"}]
Declared_ == [Plain EXCEPT
    !.tables = [language |-> {"en", "fr"}, task |-> {"transcribe"}, target |-> {"en"}]]
Chunked == [Declared_ EXCEPT !.chunk = 3]
Lookalike == [Plain EXCEPT !.pieces = {"en"}]

MCFiles == [overlapping |-> Overlapping, roomy |-> Roomy, babbling |-> Babbling,
            quiet |-> AtQuiet, clips |-> Clips(Decodes), erratic |-> Clips(Erratic), untimed |-> Untimed,
            multilingual |-> Multilingual, english |-> EnglishOnly,
            declared |-> Declared_, chunked |-> Chunked, lookalike |-> Lookalike]

MCLengths == [overlapping |-> 0 .. 26, roomy |-> 0 .. 35, babbling |-> {4, 6},
              quiet |-> 0 .. 20, clips |-> 0 .. 13, erratic |-> 0 .. 11, untimed |-> 0 .. 20,
              multilingual |-> {2}, english |-> {2}, declared |-> {2},
              chunked |-> {2}, lookalike |-> {2}]

Silent == [role \in Roles |-> Unnamed]
Asking == [language : {Unnamed, "en", "fr"}, task : {Unnamed, "transcribe", "translate"},
           target : {Unnamed, "en", "fr"}]

Requested(names) == [names : names, timestamps : {FALSE}, condition : {TRUE}]
MCRequests == [m \in DOMAIN MCFiles |->
    Requested(IF m \in {"multilingual", "english", "declared", "chunked", "lookalike"}
              THEN Asking ELSE {Silent})]

\* One file for a run of its own: clips whose decodes close their segments in order.
SeekFiles == [clips |-> Clips(Decodes)]
SeekLengths == [clips |-> 0 .. 13]
SeekRequests == [clips |-> Requested({Silent})]

MCBabble == UNION {[1 .. n -> 1 .. 2] : n \in 0 .. 4}

MCStopSets == {<< >>, <<1>>, <<1, 2>>}
=============================================================================
