----------------------------- MODULE FrontEnds ------------------------------
(***************************************************************************)
(* The engine's doors for a host: one call of audio::transcribe or of      *)
(* text::generate.  Both are loops around a driver whose answers decide    *)
(* how long they go on.                                                    *)
(***************************************************************************)
EXTENDS Transcribe, TextGenerate

VARIABLE door

doorVars == <<vars, genVars, door>>

\* The door that is not called.
NoTranscription ==
    /\ model = CHOOSE m \in DOMAIN Files : TRUE
    /\ samples = 0
    /\ request = [names |-> [role \in Roles |-> Unnamed], timestamps |-> FALSE,
                  condition |-> FALSE]
    /\ Fresh

NoGeneration ==
    /\ stop_ids = << >> /\ shape = "list" /\ eos_token = FromFile
    /\ strip_eos = FALSE /\ max_new = 0 /\ greedy = << >>
    /\ GenFresh

DoorInit ==
    \/ door = "transcribe" /\ Init /\ NoGeneration
    \/ door = "generate" /\ GenInit /\ NoTranscription

CallTranscribe == door = "transcribe" /\ Next /\ UNCHANGED <<genVars, door>>
CallGenerate == door = "generate" /\ GenNext /\ UNCHANGED <<vars, door>>

DoorNext == CallTranscribe \/ CallGenerate

\* A call runs on the caller's thread, and every call of a driver returns or throws.
DoorSpec == DoorInit /\ [][DoorNext]_doorVars /\ WF_doorVars(DoorNext)

-----------------------------------------------------------------------------
(* Properties *)

\* A call ends, whatever the model answers: the seek always moves, a cut always leaves
\* less, a decode loop is bounded.
CallEnds == <>(Over \/ state \in {"done", "refused"})
=============================================================================
