---------------------------- MODULE TextGenerate ----------------------------
(***************************************************************************)
(* text::generate (text_generate.cpp): the ids a causal language model     *)
(* adds to a prompt.  A driver has one of two shapes, told apart by what   *)
(* it returns: one that keeps its state in the KV cache runs the decode    *)
(* loop itself and returns a list; one that cannot returns a number, the   *)
(* next token, and the loop here feeds it the growing sequence.            *)
(*                                                                         *)
(* The model is greedy: `greedy` is the sequence it would generate if      *)
(* nothing stopped it, and a driver is the environment.                    *)
(***************************************************************************)
EXTENDS Integers, Sequences

CONSTANTS
    StopSets,       \* the file's stop ids, in its order; the first is "eos"
    Shapes,         \* of the driver: "list", "number", "echo"
    NamedStops,     \* what a caller may name as its stop token
    Word,           \* a token that is not a stop
    MaxNew          \* TLC bound on max_new_tokens

\* Token ids are not negative.
ASSUME TokenAssumption ==
    /\ Word \in Nat /\ MaxNew \in Nat
    /\ NamedStops \subseteq Nat /\ StopSets \subseteq Seq(Nat)

FromFile == -2          \* GenerateOptions::kEosFromFile
NoStop == -1

VARIABLES
    stop_ids, shape,    \* the file and its driver
    eos_token, strip_eos, max_new,      \* the caller's options
    greedy,
    state,
    running,    \* how many ids were appended to the prompt
    generated

options == <<stop_ids, shape, eos_token, strip_eos, max_new, greedy>>
genVars == <<options, state, running, generated>>

Elements(s) == {s[i] : i \in DOMAIN s}

-----------------------------------------------------------------------------
\* The token the driver is told to stop on.
Eos == IF eos_token # FromFile THEN eos_token
       ELSE IF stop_ids = << >> THEN NoStop ELSE stop_ids[1]

\* Fault: only the token the driver was told of is stripped.
OnlyEos == {Eos}

\* A stop token the caller names replaces the file's set.
StripIds == IF eos_token = FromFile THEN Elements(stop_ids) ELSE {eos_token}

\* A driver's own loop: it is told Eos, and the file's other stop ids are in the driver
\* as extra_eos_tokens.  The bound is checked after a token is appended.
DriverLoop ==
    LET stops == {Eos} \cup {stop_ids[i] : i \in 2 .. Len(stop_ids)}
        ends(n) == greedy[n] \in stops \/ n >= max_new
        n == CHOOSE k \in 1 .. Len(greedy) : ends(k) /\ \A j \in 1 .. k - 1 : ~ends(j)
    IN SubSeq(greedy, 1, n)

\* Fault: a conforming driver is held to max_new_tokens.
BareCeiling == max_new

Ceiling == IF max_new > 1 THEN max_new ELSE 1

GoesOn == Len(generated) < max_new /\ generated[Len(generated)] # Eos

-----------------------------------------------------------------------------
GenFresh == state = "first" /\ running = 0 /\ generated = << >>

GenInit ==
    /\ stop_ids \in StopSets
    /\ shape \in Shapes
    /\ eos_token \in {FromFile, NoStop} \cup NamedStops
    /\ strip_eos \in BOOLEAN
    /\ max_new \in 0 .. MaxNew
    /\ greedy \in [1 .. MaxNew + 1 -> {Word} \cup UNION {Elements(s) : s \in StopSets}]
    /\ GenFresh

\* A driver returned a list: everything it generated, unless there is too much of it.
\* One that hands back its prompt too may be caught, and may not.
FirstList ==
    /\ state = "first" /\ shape \in {"list", "echo"}
    /\ LET ids == IF shape = "echo" THEN <<Word>> \o DriverLoop ELSE DriverLoop
       IN IF Len(ids) > Ceiling
          THEN state' = "refused" /\ UNCHANGED generated
          ELSE state' = "strip" /\ generated' = ids
    /\ UNCHANGED <<options, running>>

\* A number: the first token, whatever max_new_tokens is.
FirstNumber ==
    /\ state = "first" /\ shape = "number"
    /\ generated' = <<greedy[1]>>
    /\ running' = 1
    /\ state' = "loop"
    /\ UNCHANGED options

\* The prompt and what was generated are fed again.
NextNumber ==
    /\ state = "loop" /\ GoesOn
    /\ generated' = Append(generated, greedy[running + 1])
    /\ running' = running + 1
    /\ UNCHANGED <<options, state>>

LoopEnds ==
    /\ state = "loop" /\ ~GoesOn
    /\ state' = "strip"
    /\ UNCHANGED <<options, running, generated>>

Strip ==
    LET n == Len(generated) IN
    /\ state = "strip"
    /\ generated' = IF strip_eos /\ n > 0 /\ generated[n] \in StripIds
                    THEN SubSeq(generated, 1, n - 1) ELSE generated
    /\ state' = "done"
    /\ UNCHANGED <<options, running>>

GenNext == FirstList \/ FirstNumber \/ NextNumber \/ LoopEnds \/ Strip

-----------------------------------------------------------------------------
(* Properties *)

\* "Every id that ends generation" (text_generate.h:71-76): the caller's, or the file's.
EndIds == IF eos_token = FromFile THEN Elements(stop_ids)
          ELSE IF eos_token = NoStop THEN {} ELSE {eos_token}

\* What the caller is promised: the greedy sequence up to the first id that ends it or
\* to max_new_tokens, that id stripped if asked; one token at least is generated.
Promised ==
    LET ends(n) == greedy[n] \in EndIds \/ n >= max_new
        n == CHOOSE k \in 1 .. Len(greedy) : ends(k) /\ \A j \in 1 .. k - 1 : ~ends(j)
    IN IF strip_eos /\ greedy[n] \in EndIds THEN SubSeq(greedy, 1, n - 1)
       ELSE SubSeq(greedy, 1, n)

\* What stops the loop is all that ends generation: the file has one stop id at most, or
\* its driver's loop is told all of them, or the loop here is told the caller's own.
OneAnswer ==
    \/ Len(stop_ids) <= 1
    \/ shape = "list" /\ eos_token = FromFile
    \/ shape = "number" /\ eos_token # FromFile

\* A driver of either shape gives the caller the same ids, and they are the promised
\* ones: "a caller ... cannot tell which shape ran" (text_generate.h:78-80).  Of a file
\* with several stop ids two cases are left out.  A one-token driver, and the caller
\* names no id: EveryStopIdStops is about that.  A list driver, and the caller names an
\* id of its own or forbids any: the driver breaks on the file's other ids all the same.
SameIdsEitherShape ==
    state = "done" /\ shape # "echo" /\ OneAnswer => generated = Promised

\* The loop here stops at every id of a file with any number of them: eos_token_ids is
\* one answer "for its stop and its strip" (text_generate.h:71-76).
EveryStopIdStops == state = "done" /\ shape = "number" => generated = Promised

\* The check on the list's length, made to catch a driver that returns its prompt,
\* never refuses one that conforms (text_generate.cpp:124-130).
ConformingNotRefused == state = "refused" => shape = "echo"
=============================================================================
